---------------------------- MODULE MCRuleMatching ----------------------------
(***************************************************************************)
(* The matchers of RuleMatching against reference definitions, over every  *)
(* CIDR of two small address families (malformed ones included), every     *)
(* address, and every protocol and port range against every flow.  The     *)
(* variables only carry the inputs: ProbeFlow moves on to another flow.    *)
(***************************************************************************)
EXTENDS RuleMatching

CONSTANT ExtraPrefix   \* how far beyond the width prefixes are tried

ASSUME PrefixAssumption == ExtraPrefix \in Nat

VARIABLES cidr, protocol, range, traffic

matchVars == <<cidr, protocol, range, traffic>>

Values(family) == 0 .. 2 ^ Width(family) - 1
Cidrs == UNION {[family : {f}, network : Values(f),
                 prefix : 0 .. Width(f) + ExtraPrefix] : f \in Family}
Addresses == UNION {[family : {f}, value : Values(f)] : f \in Family}

\* Either every CIDR with an all-protocols rule, against every address, or
\* every rule shape with a CIDR that contains its family, against every flow.
EveryAddress == protocol = "-1" /\ range = AnyPort
EveryFlow == cidr.network = 0 /\ cidr.prefix = 0

MatchInit ==
  /\ cidr \in Cidrs
  /\ protocol \in RuleProtocol
  /\ range \in PortRange
  /\ traffic = [protocol |-> "all", port |-> NoPort,
                peer_address |-> [family |-> cidr.family, value |-> 0]]
  /\ EveryAddress \/ EveryFlow

ProbeFlow ==
  /\ \/ /\ EveryAddress
        /\ traffic' \in [protocol : {"all"}, port : {NoPort},
                         peer_address : Addresses]
     \/ /\ EveryFlow
        /\ traffic' \in [protocol : TrafficProtocol, port : Port \cup {NoPort},
                         peer_address : {traffic.peer_address}]
  /\ UNCHANGED <<cidr, protocol, range>>

-----------------------------------------------------------------------------
Bit(x, b) == (x \div (2 ^ b)) % 2

\* A CIDR contains exactly the addresses of its family that agree with its
\* network on the first prefix bits; /0 contains the whole family and a
\* prefix longer than the address contains nothing (mod.rs, cidr_contains).
ContainsIsSharedPrefix ==
  LET width == Width(cidr.family) IN
  cidr_contains(cidr, traffic.peer_address) <=>
    /\ cidr.family = traffic.peer_address.family
    /\ cidr.prefix \in 0 .. width
    /\ \A b \in width - cidr.prefix .. width - 1 :
         Bit(cidr.network, b) = Bit(traffic.peer_address.value, b)

\* Whatever a rule matches, an all-protocols rule for the same CIDR matches,
\* even when the first is for every port and the second happens to carry a
\* port range (sg.rs and nacl.rs: "-1 skips port matching entirely,
\* regardless of what port_range the rule happens to carry").
AllProtocolsIsBroadest ==
  LET rule(p, ports) == [protocol |-> p, port_range |-> ports, cidr |-> cidr] IN
  \A ports \in {range, AnyPort} :
    rule_matches(rule(protocol, ports), traffic) => rule_matches(rule("-1", range), traffic)
=============================================================================
