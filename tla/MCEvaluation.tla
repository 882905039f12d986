----------------------------- MODULE MCEvaluation -----------------------------
(***************************************************************************)
(* Path candidates small enough to enumerate.  Addresses have two bits;    *)
(* the source is at address 1.  Rules are listed in every order, with      *)
(* every combination of matching and not matching, allowing, denying and   *)
(* unresolved, in the layer's own direction and in the other one.          *)
(***************************************************************************)
EXTENDS Evaluation

MCPort == 1
SourceAddress == [family |-> "v4", value |-> 1]
Everything == [family |-> "v4", network |-> 0, prefix |-> 0]
Elsewhere == [family |-> "v4", network |-> 2, prefix |-> 1]
OnePort == [from |-> MCPort, to |-> MCPort]

Flow(protocol) ==
  [protocol |-> protocol, peer_address |-> SourceAddress,
   port |-> IF protocol \in {"tcp", "udp"} THEN MCPort ELSE NoPort]

SeqUpTo(S, n) == UNION {[1 .. m -> S] : m \in 0 .. n}

-----------------------------------------------------------------------------
CidrTarget(cidr) == [kind |-> "cidr", cidr |-> cidr]
GroupTarget(group) == [kind |-> "security_group_ref", group |-> group]

Sg(direction, protocol, target, resolved) ==
  [direction |-> direction, protocol |-> protocol,
   port_range |-> IF protocol = "-1" THEN AnyPort ELSE OnePort,
   target |-> target, resolved |-> resolved]

\* Rules that grant, that do not, and that name an unresolved group, for
\* every flow and for tcp alone; "web" is the source's group, "db" the
\* destination's, "far" belongs to another account.
SgChoices(direction) ==
  {Sg(direction, "-1", CidrTarget(Everything), TRUE),
   Sg(direction, "tcp", CidrTarget(Everything), TRUE),
   Sg(direction, "-1", CidrTarget(Elsewhere), TRUE),
   Sg(direction, "-1", GroupTarget("web"), TRUE),
   Sg(direction, "-1", GroupTarget("db"), TRUE),
   Sg(direction, "-1", GroupTarget("far"), FALSE)}

OpenSg(direction) == <<Sg(direction, "-1", CidrTarget(Everything), TRUE)>>

Nacl(number, direction, protocol, cidr, action) ==
  [rule_number |-> number, direction |-> direction, protocol |-> protocol,
   port_range |-> IF protocol = "-1" THEN AnyPort ELSE OnePort,
   cidr |-> cidr, action |-> action]

\* Two rule numbers, so that a list may hold them in either order or twice.
NaclChoices(direction) ==
  {Nacl(number, direction, "-1", Everything, action) :
     number \in {1, 2}, action \in Action}
  \cup {Nacl(1, direction, "-1", Elsewhere, "deny"),
        Nacl(2, direction, "tcp", Everything, "allow")}

OpenNacl(direction) == Nacl(1, direction, "-1", Everything, "allow")
OpenNacls == {<<OpenNacl("egress"), OpenNacl("ingress")>>}

-----------------------------------------------------------------------------
Endpoints(eni, subnet, group, sgs, nacls) ==
  [eni_id : {eni}, subnet_id : {subnet}, peer_security_group_ids : {{group}},
   security_group_rules : sgs, nacl_rules : nacls]

CandidatesWith(sourceSgs, destinationSgs, sourceNacls, destinationNacls,
               routes, flows) ==
  [source : Endpoints("eni-a", "subnet-a", "web", sourceSgs, sourceNacls),
   destination : Endpoints("eni-b", "subnet-b", "db",
                           destinationSgs, destinationNacls),
   route_exists : routes, traffic : flows]

SgLists(direction, other, n) ==
  SeqUpTo(SgChoices(direction) \cup {Sg(other, "-1", CidrTarget(Everything), TRUE)}, n)

NaclLists(direction, other, n) ==
  SeqUpTo(NaclChoices(direction) \cup {OpenNacl(other)}, n)

MCCandidates ==
  \* every pair of security group rule lists
  CandidatesWith(SgLists("egress", "ingress", 2), SgLists("ingress", "egress", 2),
                 OpenNacls, OpenNacls, {TRUE}, {Flow("all")})
  \* every pair of network ACL rule lists
  \cup CandidatesWith({OpenSg("egress")}, {OpenSg("ingress")},
                      NaclLists("egress", "ingress", 2),
                      NaclLists("ingress", "egress", 2), {TRUE}, {Flow("tcp")})
  \* longer lists at one layer, against each kind of verdict further on
  \cup CandidatesWith(SgLists("egress", "ingress", 3),
                      {OpenSg("ingress"), <<>>},
                      OpenNacls \cup {<<>>}, OpenNacls,
                      {TRUE}, {Flow("tcp"), Flow("icmp")})
  \cup CandidatesWith({OpenSg("egress")}, {OpenSg("ingress"),
                        <<Sg("ingress", "-1", GroupTarget("far"), FALSE)>>},
                      OpenNacls, NaclLists("ingress", "egress", 3),
                      {TRUE}, {Flow("all")})
  \cup CandidatesWith({OpenSg("egress"), <<>>}, {OpenSg("ingress"), <<>>},
                      OpenNacls, OpenNacls, {FALSE}, {Flow("all")})

MCGroup == {"web", "db", "far"}
MCEni == {"eni-a", "eni-b"}
MCSubnet == {"subnet-a", "subnet-b"}
=============================================================================
