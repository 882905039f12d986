---------------------------- MODULE RuleMatching ----------------------------
(***************************************************************************)
(* What one security group or network ACL rule says about one traffic      *)
(* flow: the domain types of domain/rule.rs and the three matchers of      *)
(* evaluate/mod.rs that both rule evaluators share.                        *)
(*                                                                         *)
(* An address is its family and its value; V4Bits and V6Bits stand for the *)
(* 32 and 128 bits of the two families, so that TLC can enumerate a whole  *)
(* address space.  A CIDR string that does not parse is a CIDR whose       *)
(* prefix is longer than its family's width: the code treats both alike.   *)
(***************************************************************************)
EXTENDS Integers

CONSTANTS
  V4Bits, V6Bits,   \* width of an IPv4 and of an IPv6 address
  MaxPort,          \* largest port (u16::MAX)
  Group             \* security group ids

ASSUME WidthAssumption == V4Bits \in Nat \ {0} /\ V6Bits \in Nat \ {0}
ASSUME PortAssumption == MaxPort \in Nat

-----------------------------------------------------------------------------
(* Domain types *)

Family == {"v4", "v6"}
Width(family) == IF family = "v4" THEN V4Bits ELSE V6Bits

Address == [family : Family, value : Nat]
Cidr == [family : Family, network : Nat, prefix : Nat]

\* Option<u16>::None, for a flow without a port and a rule without a range.
NoPort == -1
Port == 0 .. MaxPort
AnyPort == [from |-> NoPort, to |-> NoPort]

\* PortRange::new rejects an inverted range; None is AnyPort.
PortRange == {r \in [from : Port, to : Port] : r.from <= r.to} \cup {AnyPort}

\* The raw AWS string of a rule ("other": any string no matcher knows, such
\* as the protocol number "50"), and the protocol of a flow.
RuleProtocol == {"-1", "tcp", "udp", "icmp", "icmpv6", "other"}
TrafficProtocol == {"tcp", "udp", "icmp", "all"}

Direction == {"ingress", "egress"}
Action == {"allow", "deny"}

RuleTarget == [kind : {"cidr"}, cidr : Cidr]
                \cup [kind : {"security_group_ref"}, group : Group]

SgRule == [direction : Direction, protocol : RuleProtocol,
           port_range : PortRange, target : RuleTarget, resolved : BOOLEAN]

NaclRule == [rule_number : Nat, direction : Direction,
             protocol : RuleProtocol, port_range : PortRange,
             cidr : Cidr, action : Action]

Traffic == [protocol : TrafficProtocol, port : Port \cup {NoPort},
            peer_address : Address]

-----------------------------------------------------------------------------
(* Matchers *)

rule_protocol_matches(rule_protocol, traffic_protocol) ==
  \/ rule_protocol = "-1"
  \/ rule_protocol \in {"tcp", "udp"} /\ traffic_protocol = rule_protocol
  \/ rule_protocol \in {"icmp", "icmpv6"} /\ traffic_protocol = "icmp"

port_matches(range, port) ==
  \/ range = AnyPort
  \/ port # NoPort /\ range.from <= port /\ port <= range.to

\* Mutant: the mask computed by a shift that wraps at the word's width.
ClearedBits_WrappingShift(width, prefix) == (width - prefix) % width

\* How many low bits the mask of a /prefix clears.  A zero prefix is the
\* code's own case: shifting a word by its whole width is not defined.
ClearedBits(width, prefix) == IF prefix = 0 THEN width ELSE width - prefix

\* x & mask, for the mask that clears the k low bits
Masked(x, k) == x - (x % (2 ^ k))

\* Some(true); the callers treat Some(false) and None (malformed) alike.
cidr_contains(cidr, address) ==
  LET width == Width(cidr.family)
      k == ClearedBits(width, cidr.prefix)
  IN  /\ cidr.family = address.family
      /\ cidr.prefix <= width
      /\ Masked(cidr.network, k) = Masked(address.value, k)

\* Mutant: a "-1" rule is held to its port range like any other.
Applies_PortsAlways(rule, traffic) ==
  /\ rule_protocol_matches(rule.protocol, traffic.protocol)
  /\ port_matches(rule.port_range, traffic.port)

\* The protocol and port test that opens classify_rule and rule_matches:
\* a "-1" rule ignores its port range.
Applies(rule, traffic) ==
  /\ rule_protocol_matches(rule.protocol, traffic.protocol)
  /\ rule.protocol = "-1" \/ port_matches(rule.port_range, traffic.port)

\* nacl.rs, rule_matches: the rule's action plays no part
rule_matches(rule, traffic) ==
  Applies(rule, traffic) /\ cidr_contains(rule.cidr, traffic.peer_address)
=============================================================================
