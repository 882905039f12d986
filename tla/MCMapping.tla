------------------------------ MODULE MCMapping ------------------------------
(***************************************************************************)
(* The mapping against reference definitions, over every input of two      *)
(* families: permissions with every pair of ports, and one route table     *)
(* against every peering connection.  Ports are 0..MaxU16; one more is too *)
(* large, and -1 is the "any" of an ICMP type or code.  The variable only  *)
(* carries the input, which ProbeInput chooses.                            *)
(***************************************************************************)
EXTENDS Mapping

VARIABLE raw

MCKeyOrder == <<"acl-1", "rtb-1", "sg-1", "subnet-1", "subnet-2", "vpc-1", "vpc-2", "vpc-3">>

Nothing == [kind \in Kinds |-> <<>>]
Options(S) == S \cup {None}
Lists(S, n) == UNION {[1..m -> S] : m \in 0..n}

-----------------------------------------------------------------------------
Ports == Options(-1..(MaxU16 + 1))
Permissions ==
  [protocol : Options({"-1", "tcp", "icmp"}), from_port : Ports, to_port : Ports,
   ranges : {<<"0.0.0.0/0">>}, pairs : {<<>>}]
  \cup
  [protocol : {"tcp"}, from_port : {1}, to_port : {1}, ranges : {<<>>, <<"0.0.0.0/0", "::/0">>},
   pairs : Lists([group : {"sg-1", "sg-9"}, owner : Options({AccountId, "other"})], 2)]

GroupInputs ==
  {[Nothing EXCEPT !["SecurityGroup"] =
      <<[id |-> "sg-1", vpc |-> "vpc-1", name |-> "web", ingress |-> <<p>>, egress |-> <<>>]>>] :
   p \in Permissions}

-----------------------------------------------------------------------------
PeeringEnds == Options([vpc : Options({"vpc-1", "vpc-2", "vpc-3"}), owner : Options({AccountId, "other"})])
PeeringConnections == [id : {"pcx-1"}, requester : PeeringEnds, accepter : PeeringEnds]
Routes == [cidr : Options({"10.2.0.0/16"}), gateway : Options({"local", "igw-1"}), pcx : {None}]
          \cup [cidr : {"10.2.0.0/16"}, gateway : {None}, pcx : {"pcx-1", "pcx-9"}]
Associations == [subnet : Options({"subnet-1"}), main : BOOLEAN]

RouteInputs ==
  {[Nothing EXCEPT
      !["RouteTable"] = <<[id |-> "rtb-1", vpc |-> v, associations |-> <<a>>, routes |-> <<r>>]>>,
      !["VpcPeeringConnection"] = <<p>>] :
   v \in Options({"vpc-1"}), a \in Associations, r \in Routes, p \in PeeringConnections}

-----------------------------------------------------------------------------
Families == {GroupInputs, RouteInputs}

MapInit == raw = Nothing
ProbeInput == raw = Nothing /\ \E inputs \in Families : raw' \in inputs

Batch == build_graph_batch(raw)
-----------------------------------------------------------------------------
Icmp == {"icmp", "icmpv6"}
Numbers(p) == {p.from_port, p.to_port}

\* What EC2 says with a permission's two numbers: of an ICMP message its type
\* and its code, each "any" when negative, of other traffic the range of its
\* ports, x being the type or the port.
Says(p, x, code) ==
  \/ p.protocol \in {None, "-1"} \/ None \in Numbers(p)
  \/ p.protocol \in Icmp /\ (p.from_port < 0 \/ x = p.from_port) /\ (p.to_port < 0 \/ code = p.to_port)
  \/ p.protocol \notin Icmp /\ ((p.from_port < 0 /\ p.to_port < 0) \/ (p.from_port <= x /\ x <= p.to_port))

\* A range of ports that is open at one end only means nothing to EC2.
MeansSomething(p) ==
  p.protocol \in Icmp \/ None \in Numbers(p) \/ (p.from_port < 0 <=> p.to_port < 0)

\* A rule has one range for what may be a type and a code.
TypeAndCode(p) ==
  p.protocol \in Icmp /\ None \notin Numbers(p) /\ p.from_port >= 0 /\ p.to_port >= 0

\* The ranges and groups a permission names, as the rules' targets.
TargetsOf(p) ==
  {<<"cidr", c, TRUE>> : c \in ToSet(p.ranges)} \cup
  {<<"security_group_ref", q.group, q.owner \in {None, AccountId}>> : q \in ToSet(p.pairs)}

PermissionsOf(g, type) == ToSet(IF type = "ALLOWS_INGRESS" THEN g.ingress ELSE g.egress)

\* A rule's range is of types, or of codes when the type is "any".
Lets(e, p, x, code) ==
  LET n == IF p.from_port < 0 THEN code ELSE x
  IN  e.match[2] = None \/ (e.match[2].from <= n /\ n <= e.match[2].to)

StandsFor(e, p, g, type) ==
  /\ e.type = type /\ e.from = g.id /\ <<e.kind, e.to, e.resolved>> \in TargetsOf(p)
  /\ e.match[1] = IF p.protocol = None THEN "-1" ELSE p.protocol
  /\ MeansSomething(p) => \A x, code \in 0..MaxU16 :
       /\ Says(p, x, code) => Lets(e, p, x, code)
       /\ Lets(e, p, x, code) => Says(p, x, code) \/ TypeAndCode(p)

\* A permission that maps has a rule for each range and each group it names,
\* of its protocol, and there are no other rules.  A rule lets through whatever
\* its permission says, and nothing more unless that gives both an ICMP type
\* and a code: half of an ICMP pair being "any" must not lift the other half's
\* restriction (map/mod.rs: it "would silently turn a type-scoped rule into all
\* ICMP"), and a group of another account stays, with its flag (map/sg.rs:
\* "emitted with resolved: false and Ok, never dropped").
PermissionsKeepTheirMeaning ==
  BatchMaps(raw) =>
    LET rules == {e \in ToSet(Batch.edges) : IsSgRule(e)}
        types == {"ALLOWS_INGRESS", "ALLOWS_EGRESS"}
    IN  /\ \A g \in ToSet(Groups(raw)), type \in types : \A p \in PermissionsOf(g, type) : \A t \in TargetsOf(p) :
             \E e \in rules : StandsFor(e, p, g, type) /\ <<e.kind, e.to, e.resolved>> = t
        /\ \A e \in rules : \E g \in ToSet(Groups(raw)), type \in types :
             \E p \in PermissionsOf(g, type) : StandsFor(e, p, g, type)

\* A route is resolved only to the table's own VPC or to a VPC this account
\* has at the other end of the route's own peering: never across accounts and
\* never back to itself through a peering (topology.rs, resolve_route_target).
RoutesStayInAccount ==
  BatchMaps(raw) => \A e \in ToSet(Batch.edges) : e.type = "ROUTES_TO" /\ e.resolved =>
    \E table \in ToSet(Tables(raw)) : \E route \in ToSet(table.routes) :
      /\ e.from = table.id /\ e.cidr = route.cidr
      /\ \/ route.gateway = "local" /\ e.to = table.vpc
         \/ \E p \in ToSet(Peerings(raw)) : \E side \in ToSet(Sides(p)) :
              p.id = route.pcx /\ side.owner = AccountId /\ e.to = side.vpc /\ side.vpc # table.vpc
=============================================================================
