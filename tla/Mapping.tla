------------------------------- MODULE Mapping -------------------------------
(***************************************************************************)
(* From the five collections EC2 describes to the batch one ingestion      *)
(* writes: ingest/map.  A raw resource is a record whose absent fields are *)
(* None, the Options of the SDK's types.  A resource whose own fields are  *)
(* incomplete is left out with a warning; a membership, permission or      *)
(* entry that is malformed makes the whole mapping fail.                   *)
(***************************************************************************)
EXTENDS GraphBatch, Integers

CONSTANTS
    AccountId,   \* the account under audit, owner of every node
    MaxU16,      \* u16::MAX, largest port and largest rule number
    Malformed    \* Err(MappingError::InvalidField)

-----------------------------------------------------------------------------
(* map/mod.rs *)

\* Mutant: the "any code" half of an ICMP pair lifts the whole restriction.
build_port_range_AnyHalf(protocol, from, to) ==
  LET low == IF from < 0 THEN to ELSE from
      high == IF to < 0 THEN from ELSE to
  IN  IF protocol = "-1" \/ from = None \/ to = None THEN None
      ELSE IF from < 0 \/ to < 0 THEN None
      ELSE IF low > MaxU16 \/ high > MaxU16 \/ low > high THEN Malformed
      ELSE [from |-> low, to |-> high]

\* For ICMP the two numbers are type and code and a negative one is "any":
\* the half that is left restricts the rule to a single value.
build_port_range(protocol, from, to) ==
  LET low == IF from < 0 THEN to ELSE from
      high == IF to < 0 THEN from ELSE to
  IN  IF protocol = "-1" \/ from = None \/ to = None THEN None
      ELSE IF from < 0 /\ to < 0 THEN None
      ELSE IF low > MaxU16 \/ high > MaxU16 \/ low > high THEN Malformed
      ELSE [from |-> low, to |-> high]

OrAll(protocol) == IF protocol = None THEN "-1" ELSE protocol

-----------------------------------------------------------------------------
(* map/sg.rs: one rule for every range and for every group of a permission *)

PermissionMaps(p) ==
  /\ build_port_range(OrAll(p.protocol), p.from_port, p.to_port) # Malformed
  /\ None \notin ToSet(p.ranges)
  /\ \A i \in DOMAIN p.pairs : p.pairs[i].group # None

\* A reference without an owner is taken to be the account's own.
OwnGroup(pair) == pair.owner \in {None, AccountId}

map_permission(p, type, id) ==
  LET protocol == OrAll(p.protocol)
      match == <<protocol, build_port_range(protocol, p.from_port, p.to_port)>>
      Rule(kind, to, resolved) ==
        [type |-> type, from |-> id, match |-> match, kind |-> kind, to |-> to,
         resolved |-> resolved]
  IN  [i \in DOMAIN p.ranges |-> Rule("cidr", p.ranges[i], TRUE)] \o
      [i \in DOMAIN p.pairs |->
         Rule("security_group_ref", p.pairs[i].group, OwnGroup(p.pairs[i]))]

map_security_group_rules(sg) ==
  FlattenSeq([i \in DOMAIN sg.ingress |-> map_permission(sg.ingress[i], "ALLOWS_INGRESS", sg.id)]) \o
  FlattenSeq([i \in DOMAIN sg.egress |-> map_permission(sg.egress[i], "ALLOWS_EGRESS", sg.id)])

-----------------------------------------------------------------------------
(* map/nacl.rs: the entries in ascending rule number *)

EntryMaps(e) ==
  /\ e.rule_number \in 0..MaxU16
  /\ build_port_range(OrAll(e.protocol), e.from_port, e.to_port) # Malformed
  /\ e.cidr # None
  /\ e.egress # None
  /\ e.action \in {"allow", "deny"}

\* sort_by_key is stable: equal numbers keep the order of the response.
rule_order(acl) ==
  SetToSortSeq(DOMAIN acl.entries,
    LAMBDA i, j : LET m == acl.entries[i].rule_number
                      n == acl.entries[j].rule_number
                  IN  m < n \/ (m = n /\ i < j))

map_network_acl_rules(acl) ==
  [k \in DOMAIN acl.entries |->
     LET e == acl.entries[rule_order(acl)[k]]
         protocol == OrAll(e.protocol)
     IN  [type |-> "HAS_RULE", from |-> acl.id, rule_number |-> e.rule_number,
          direction |-> IF e.egress THEN "egress" ELSE "ingress",
          rule |-> [protocol |-> protocol, cidr |-> e.cidr, action |-> e.action,
                    ports |-> build_port_range(protocol, e.from_port, e.to_port)]]]

-----------------------------------------------------------------------------
(* map/topology.rs: nodes *)

Kinds == {"SecurityGroup", "NetworkAcl", "RouteTable", "NetworkInterface",
          "VpcPeeringConnection"}

\* The fields without which a resource has no node.
Required ==
  [NetworkInterface |-> {"id", "vpc", "subnet", "private_ip"},
   SecurityGroup |-> {"id", "vpc", "name"},
   NetworkAcl |-> {"id", "vpc", "is_default"},
   RouteTable |-> {"id", "vpc"}]

Maps(kind, item) == \A field \in Required[kind] : item[field] # None

\* The items that have a node; the others are errors, one each.
map_nodes(kind, items) == Only(items, {item \in ToSet(items) : Maps(kind, item)})
node_mapping_errors(raw) ==
  FlattenSeq([i \in 1..4 |->
    LET kind == <<"NetworkInterface", "SecurityGroup", "NetworkAcl", "RouteTable">>[i]
    IN  Only(raw[kind], {item \in ToSet(raw[kind]) : ~Maps(kind, item)})])

Mapped(raw) ==
  [kind \in Kinds |-> IF kind \in DOMAIN Required THEN map_nodes(kind, raw[kind]) ELSE raw[kind]]

\* The node's properties, the fields that a reader of the graph uses.
is_main(table) == \E i \in DOMAIN table.associations : table.associations[i].main
NodeProps(kind, item) ==
  IF kind = "NetworkInterface"
  THEN [vpc |-> item.vpc, subnet |-> item.subnet, private_ip |-> item.private_ip]
  ELSE IF kind = "SecurityGroup" THEN [vpc |-> item.vpc, name |-> item.name]
  ELSE IF kind = "NetworkAcl" THEN [vpc |-> item.vpc, is_default |-> item.is_default]
  ELSE [vpc |-> item.vpc, is_main |-> is_main(item)]

Records(kind, items) ==
  [i \in DOMAIN items |-> [id |-> items[i].id, props |-> NodeProps(kind, items[i])]]

-----------------------------------------------------------------------------
(* map/topology.rs: edges *)

Edge(type, from, to) == [type |-> type, from |-> from, to |-> to]

has_sg_edges(enis) ==
  FlattenSeq([i \in DOMAIN enis |->
    [j \in DOMAIN enis[i].groups |-> Edge("HAS_SG", enis[i].id, enis[i].groups[j])]])

in_subnet_edges(enis) ==
  [i \in DOMAIN enis |-> Edge("IN_SUBNET", enis[i].id, enis[i].subnet)]

\* The options of a list that are there.
Present(options) == Only(options, ToSet(options) \ {None})

protected_by_edges(acls) ==
  FlattenSeq([i \in DOMAIN acls |->
    LET subnets == Present(acls[i].associations) IN
    [j \in DOMAIN subnets |-> Edge("PROTECTED_BY", subnets[j], acls[i].id)]])

\* The implicit association of a main table names no subnet: it has no edge.
Explicit(associations) == Only(associations, {a \in ToSet(associations) : a.subnet # None})
uses_route_table_edges(tables) ==
  FlattenSeq([i \in DOMAIN tables |->
    LET explicit == Explicit(tables[i].associations) IN
    [j \in DOMAIN explicit |-> Edge("USES_ROUTE_TABLE", explicit[j].subnet, tables[i].id)]])

\* Mutant: the far end of a peering is taken without asking who owns it.
OwnSide_Anyone(side) == side.vpc # None

\* The account's own end of a peering, by its VPC.
OwnSide(side) == side.owner = AccountId /\ side.vpc # None

Sides(peering) == Present(<<peering.requester, peering.accepter>>)

\* Only a local route and a peering with a VPC of this account have a target
\* that is modelled; of a peering's ends the far one is the first that is
\* not the table's own VPC.
Into(vpc) == [to |-> vpc, resolved |-> TRUE]
Nowhere == [to |-> None, resolved |-> FALSE]
resolve_route_target(vpc, route, peerings) ==
  LET named == Only(peerings, {p \in ToSet(peerings) : p.id = route.pcx})
      far == IF route.pcx = None \/ named = <<>> THEN <<>>
             ELSE Only(Sides(named[1]), {side \in ToSet(Sides(named[1])) : side.vpc # vpc})
  IN  IF route.gateway = "local" THEN Into(vpc)
      ELSE IF far # <<>> /\ OwnSide(Head(far)) THEN Into(Head(far).vpc) ELSE Nowhere

\* A route to a prefix list has no destination to key the edge on.
HasCidr(routes) == Only(routes, {r \in ToSet(routes) : r.cidr # None})
routes_to_edges(tables, peerings) ==
  FlattenSeq([i \in DOMAIN tables |->
    LET routes == HasCidr(tables[i].routes) IN
    [j \in DOMAIN routes |->
       LET target == resolve_route_target(tables[i].vpc, routes[j], peerings) IN
       [type |-> "ROUTES_TO", from |-> tables[i].id, cidr |-> routes[j].cidr,
        to |-> target.to, resolved |-> target.resolved]]])

allows_edges(groups) ==
  FlattenSeq([i \in DOMAIN groups |-> map_security_group_rules(groups[i])])

has_rule_edges(acls) == FlattenSeq([i \in DOMAIN acls |-> map_network_acl_rules(acls[i])])

-----------------------------------------------------------------------------
(* map/topology.rs: stubs for the VPCs and subnets that others name *)

InKeyOrder(ids, Stub) ==
  FlattenSeq([k \in DOMAIN KeyOrder |-> IF KeyOrder[k] \in ids THEN <<Stub[KeyOrder[k]]>> ELSE <<>>])

\* Mutant: of a peering only the requester is looked at.
PeeringVpcs_Requester(peerings) ==
  {s.vpc : s \in {s \in {peerings[i].requester : i \in DOMAIN peerings} : s # None /\ OwnSide(s)}}

PeeringVpcs(peerings) ==
  {s.vpc : s \in {s \in UNION {ToSet(Sides(peerings[i])) : i \in DOMAIN peerings} : OwnSide(s)}}

collect_vpc_stubs(mapped) ==
  LET named == UNION {{mapped[kind][i].vpc : i \in DOMAIN mapped[kind]} : kind \in DOMAIN Required}
      ids == named \cup PeeringVpcs(mapped["VpcPeeringConnection"])
  IN  InKeyOrder(ids, [id \in ids |-> [id |-> id, props |-> "stub"]])

\* Who names a subnet, in the order asked; the first one's VPC is recorded.
SubnetSightings(mapped) ==
  LET enis == mapped["NetworkInterface"]
      Of(items) == FlattenSeq([i \in DOMAIN items |->
        LET subnets == Present(items[i].subnets) IN
        [j \in DOMAIN subnets |-> <<subnets[j], items[i].vpc>>]])
      Named(tables) == [i \in DOMAIN tables |->
        [vpc |-> tables[i].vpc,
         subnets |-> [j \in DOMAIN tables[i].associations |-> tables[i].associations[j].subnet]]]
      OfAcls(acls) == [i \in DOMAIN acls |-> [vpc |-> acls[i].vpc, subnets |-> acls[i].associations]]
  IN  [i \in DOMAIN enis |-> <<enis[i].subnet, enis[i].vpc>>] \o
      Of(OfAcls(mapped["NetworkAcl"])) \o Of(Named(mapped["RouteTable"]))

collect_subnet_stubs(mapped) ==
  LET seen == SubnetSightings(mapped)
      ids == {seen[i][1] : i \in DOMAIN seen}
      First(id) == Only(seen, {s \in ToSet(seen) : s[1] = id})[1]
  IN  InKeyOrder(ids, [id \in ids |-> [id |-> id, props |-> First(id)[2]]])

-----------------------------------------------------------------------------
(* build_graph_batch *)

\* What is left after a resource was accepted can still fail, and then the
\* whole call does.
BatchMaps(raw) ==
  LET mapped == Mapped(raw)
      Each(kind, item) ==
        IF kind = "NetworkInterface" THEN None \notin ToSet(item.groups)
        ELSE IF kind = "SecurityGroup"
        THEN \A p \in ToSet(item.ingress) \cup ToSet(item.egress) : PermissionMaps(p)
        ELSE IF kind = "NetworkAcl" THEN \A e \in ToSet(item.entries) : EntryMaps(e)
        ELSE TRUE
  IN  \A kind \in Kinds : \A item \in ToSet(mapped[kind]) : Each(kind, item)

build_graph_batch(raw) ==
  LET mapped == Mapped(raw)
      enis == mapped["NetworkInterface"]
      acls == mapped["NetworkAcl"]
      tables == mapped["RouteTable"]
  IN  [nodes |-> [ENI |-> Records("NetworkInterface", enis),
                  SecurityGroup |-> Records("SecurityGroup", mapped["SecurityGroup"]),
                  NetworkACL |-> Records("NetworkAcl", acls),
                  Subnet |-> collect_subnet_stubs(mapped),
                  VPC |-> collect_vpc_stubs(mapped),
                  RouteTable |-> Records("RouteTable", tables)],
       edges |-> has_sg_edges(enis) \o in_subnet_edges(enis) \o protected_by_edges(acls) \o
                 uses_route_table_edges(tables) \o
                 routes_to_edges(tables, mapped["VpcPeeringConnection"]) \o
                 allows_edges(mapped["SecurityGroup"]) \o has_rule_edges(acls)]
-----------------------------------------------------------------------------
(* What EC2 lists *)

\* Collections are lists, and so is what an item of theirs holds.  A rule that
\* names its own group does not say that another account owns it.
ItemIsLists(kind, item) ==
  CASE kind = "NetworkInterface" -> IsList(item.groups)
    [] kind = "SecurityGroup" ->
         /\ IsList(item.ingress) /\ IsList(item.egress)
         /\ \A p \in ToSet(item.ingress) \cup ToSet(item.egress) :
              /\ IsList(p.ranges) /\ IsList(p.pairs)
              /\ \A pair \in ToSet(p.pairs) : pair.group = item.id => OwnGroup(pair)
    [] kind = "NetworkAcl" -> IsList(item.associations) /\ IsList(item.entries)
    [] kind = "RouteTable" -> IsList(item.associations) /\ IsList(item.routes)
    [] OTHER -> TRUE

\* The ids an item brings that are keys of a BTreeMap later on.
KeysNamed(kind, item) ==
  CASE kind = "NetworkInterface" -> {item.vpc, item.subnet}
    [] kind = "SecurityGroup" -> {item.id, item.vpc}
    [] kind = "NetworkAcl" -> {item.id, item.vpc} \cup ToSet(item.associations)
    [] kind = "RouteTable" -> {item.vpc} \cup {a.subnet : a \in ToSet(item.associations)}
    [] OTHER -> {side.vpc : side \in ToSet(Sides(item))}

ItemFits(kind, item) ==
  ItemIsLists(kind, item) /\ KeysNamed(kind, item) \subseteq ToSet(KeyOrder) \cup {None}
IsRaw(raw) == \A kind \in Kinds : IsList(raw[kind]) /\ \A item \in ToSet(raw[kind]) : ItemFits(kind, item)

Enis(raw) == Mapped(raw)["NetworkInterface"]
Groups(raw) == Mapped(raw)["SecurityGroup"]
Acls(raw) == Mapped(raw)["NetworkAcl"]
Tables(raw) == Mapped(raw)["RouteTable"]
Peerings(raw) == Mapped(raw)["VpcPeeringConnection"]

HasId(items, id) == \E item \in ToSet(items) : item.id = id

\* Every group that an interface or an own reference names has a node.
GroupsThere(raw) ==
  /\ \A eni \in ToSet(Enis(raw)) : \A id \in ToSet(eni.groups) : HasId(Groups(raw), id)
  /\ \A g \in ToSet(Groups(raw)) : \A p \in ToSet(g.ingress) \cup ToSet(g.egress) : \A pair \in ToSet(p.pairs) :
       OwnGroup(pair) => HasId(Groups(raw), pair.group)
=============================================================================
