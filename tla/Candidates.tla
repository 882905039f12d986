----------------------------- MODULE Candidates -----------------------------
(***************************************************************************)
(* assemble_candidates of evaluate/candidates.rs: two queries against a    *)
(* graph that ingestions have only ever added to, and a path candidate for *)
(* every source and every destination they return.  The graph is the one   *)
(* that earlier runs, complete or not, and runs of other processes have    *)
(* written; an ingestion is taken here by its effect (GraphWriter shows    *)
(* that it has it).                                                        *)
(*                                                                         *)
(* Neo4j returns rows and collects lists in no particular order; they are  *)
(* sets here.  nacl_rules is sorted by number, so it is a set as well.     *)
(***************************************************************************)
EXTENDS Mapping

CONSTANTS
    Account,     \* the states of the account, by name
    Listed,      \* account -> what the collectors return
    VpcIds,      \* selectors.vpc_ids
    Address,     \* the private addresses that parse as one
    MaxIngests   \* bound on the ingestions

VARIABLES
    graph,       \* the database's content
    ingested,    \* history: the accounts written, in order, how much of each, and
                 \* what each left in the graph
    assembly     \* the call of assemble_candidates, under way or the last one
                 \* (after: history, the ingestions before its first query)

vars == <<graph, ingested, assembly>>

ASSUME ListedAssumption ==
  \A a \in Account : IsRaw(Listed[a]) /\ BatchMaps(Listed[a]) /\ GroupsThere(Listed[a])

\* What the statements of a batch leave, the first n of them; all of them.
Written(batch, n) ==
  LET rows == FlattenSeq(SubSeq(write_batch(batch), 1, n)) IN
  [k \in {rows[i].key : i \in DOMAIN rows} |->
     rows[Max({i \in DOMAIN rows : rows[i].key = k})].props]
All == Len(Labels) + 13
Images == [a \in Account |-> [n \in 1..All |-> Written(build_graph_batch(Listed[a]), n)]]
-----------------------------------------------------------------------------
(* The two queries, of a graph g *)

Nodes(g, label) == {k \in DOMAIN g : ~IsEdge(k) /\ k[1] = label}
From(g, type, node) == {k \in DOMAIN g : IsEdge(k) /\ k[1] = type /\ k[2] = node}
Targets(g, type, node) == {k[3] : k \in From(g, type, node)}

\* OPTIONAL MATCH: null where nothing matches.
OrNull(S) == IF S = {} THEN {None} ELSE S

sg_rule_from_props(g, k, direction) ==
  [direction |-> direction, match |-> k[4][1], kind |-> k[4][2], to |-> k[4][3], resolved |-> g[k]]

\* Mutant: one pattern serves both directions.
sg_rules_Either(g, groups, type) ==
  {sg_rule_from_props(g, k, type) :
     k \in UNION {From(g, t, node) : t \in {"ALLOWS_INGRESS", "ALLOWS_EGRESS"}, node \in groups}}

sg_rules(g, groups, type) ==
  {sg_rule_from_props(g, k, type) : k \in UNION {From(g, type, node) : node \in groups}}

nacl_rule_from_props(g, k) == [rule_number |-> k[4][1], direction |-> g[k][1], rule |-> g[k][2]]

TableIds(g, subnet) == {rt[2] : rt \in Targets(g, "USES_ROUTE_TABLE", subnet)}

\* Mutant: MATCH in place of OPTIONAL MATCH for the route table.
RowTables_Inner(g, subnets) == UNION {TableIds(g, s) : s \in subnets}

\* ENI_QUERY groups by the interface and by the route table.
RowTables(g, subnets) == OrNull(UNION {OrNull(TableIds(g, s)) : s \in subnets})

EniNode(g, eni, table) ==
  LET subnets == {s \in Targets(g, "IN_SUBNET", eni) : table \in OrNull(TableIds(g, s))}
      acls == UNION {Targets(g, "PROTECTED_BY", s) : s \in subnets}
      groups == Targets(g, "HAS_SG", eni)
  IN  [id |-> eni[2], vpc_id |-> g[eni].vpc, subnet_id |-> g[eni].subnet,
       private_ip |-> g[eni].private_ip,
       security_group_ids |-> {node[2] : node \in groups},
       egress_rules |-> sg_rules(g, groups, "ALLOWS_EGRESS"),
       ingress_rules |-> sg_rules(g, groups, "ALLOWS_INGRESS"),
       nacl_rules |-> {nacl_rule_from_props(g, k) : k \in UNION {From(g, "HAS_RULE", acl) : acl \in acls}},
       route_table_id |-> table]

fetch_enis(g) ==
  UNION {{EniNode(g, eni, t) : t \in RowTables(g, Targets(g, "IN_SUBNET", eni))} : eni \in Nodes(g, "ENI")}

fetch_route_table_targets(g) ==
  LET resolved(rt) == {k \in From(g, "ROUTES_TO", rt) : g[k] /\ k[3][1] = "VPC"}
      routed == {rt \in Nodes(g, "RouteTable") : resolved(rt) # {}}
  IN  [id \in {rt[2] : rt \in routed} |-> {k[3][2] : k \in resolved(NodeKey("RouteTable", id))}]
-----------------------------------------------------------------------------
(* assemble_candidates over the rows of both *)

\* Mutant: only a route into the VPC that the source is in itself.
route_exists_Local(source, destination, targets) ==
  \/ source.subnet_id = destination.subnet_id
  \/ /\ {source.route_table_id, destination.route_table_id} \subseteq DOMAIN targets
     /\ source.vpc_id \in targets[source.route_table_id] \cap targets[destination.route_table_id]

\* Mutant: a route into the source's VPC is taken for one into the destination's.
route_exists_Swapped(source, destination, targets) ==
  \/ source.subnet_id = destination.subnet_id
  \/ /\ {source.route_table_id, destination.route_table_id} \subseteq DOMAIN targets
     /\ \E v \in targets[source.route_table_id] :
          v \in targets[destination.route_table_id] \/ v = source.vpc_id

route_exists(source, destination, targets) ==
  \/ source.subnet_id = destination.subnet_id
  \/ /\ {source.route_table_id, destination.route_table_id} \subseteq DOMAIN targets
     /\ \/ targets[source.route_table_id] \cap targets[destination.route_table_id] # {}
        \/ destination.vpc_id \in targets[source.route_table_id]

endpoint(eni, rules) ==
  [eni_id |-> eni.id, peer_security_group_ids |-> eni.security_group_ids,
   security_group_rules |-> rules, subnet_id |-> eni.subnet_id, nacl_rules |-> eni.nacl_rules]
source_endpoint(eni) == endpoint(eni, eni.egress_rules)
destination_endpoint(eni) == endpoint(eni, eni.ingress_rules)

Destinations(enis) == {eni \in enis : eni.vpc_id \in VpcIds}
Sources(enis) == {eni \in enis \ Destinations(enis) : eni.private_ip \in Address}

\* One candidate for each pair of rows.
assemble_candidates(enis, targets) ==
  [pair \in Sources(enis) \X Destinations(enis) |->
     [source |-> source_endpoint(pair[1]), destination |-> destination_endpoint(pair[2]),
      route_exists |-> route_exists(pair[1], pair[2], targets),
      peer_address |-> pair[1].private_ip]]
-----------------------------------------------------------------------------
(* Actions *)

Init ==
  /\ graph = << >>
  /\ ingested = <<>>
  /\ assembly = [phase |-> "idle", enis |-> {}, targets |-> << >>, after |-> 0]

\* An ingestion, of this process or of another: all of a batch, or the part
\* of it that was committed when it failed.
Ingest(a, n) ==
  /\ Len(ingested) < MaxIngests
  /\ graph' = Over(Images[a][n], graph)
  /\ ingested' = Append(ingested, [account |-> a, upserts |-> n, left |-> graph'])
  /\ UNCHANGED assembly

\* A run only assembles once its own ingestion is complete.
FetchEnis ==
  /\ assembly.phase # "enis" /\ \E i \in DOMAIN ingested : ingested[i].upserts = All
  /\ assembly' = [phase |-> "enis", enis |-> fetch_enis(graph), targets |-> << >>, after |-> Len(ingested)]
  /\ UNCHANGED <<graph, ingested>>

FetchTargets ==
  /\ assembly.phase = "enis"
  /\ assembly' = [assembly EXCEPT !.phase = "done", !.targets = fetch_route_table_targets(graph)]
  /\ UNCHANGED <<graph, ingested>>

\* CandidateAssemblyError: nothing is assembled.
QueryFails ==
  /\ assembly.phase = "enis"
  /\ assembly' = [phase |-> "failed", enis |-> {}, targets |-> << >>, after |-> 0]
  /\ UNCHANGED <<graph, ingested>>

Next ==
  \/ \E a \in Account, n \in 1..All : Ingest(a, n)
  \/ FetchEnis
  \/ FetchTargets
  \/ QueryFails

Spec == Init /\ [][Next]_vars
-----------------------------------------------------------------------------
(* What must hold *)

Assembled == assembly.phase = "done"
candidates == assemble_candidates(assembly.enis, assembly.targets)
Pairs(s, d) == {pair \in DOMAIN candidates : pair[1].id = s.id /\ pair[2].id = d.id}

\* The account that was ingested last before the first query, if it was
\* ingested completely, and what it says: of the resources that have a node.
Fresh == Assembled /\ ingested[assembly.after].upserts = All
Now == Listed[ingested[assembly.after].account]

\* Collections read page by page may hold a resource twice, as it was at two
\* moments; the writer keeps one of the two.
Once(items, item) == \A other \in ToSet(items) : other.id = item.id => other = item

NowEnis == {eni \in ToSet(Enis(Now)) : Once(Enis(Now), eni)}
NowSources == {eni \in NowEnis : eni.vpc \notin VpcIds /\ eni.private_ip \in Address}
NowDestinations == {eni \in NowEnis : eni.vpc \in VpcIds}
NowSgRules(eni, type) ==
  {[direction |-> type, match |-> e.match, kind |-> e.kind, to |-> e.to, resolved |-> e.resolved] :
     e \in {e \in ToSet(allows_edges(Groups(Now))) : e.type = type /\ e.from \in ToSet(eni.groups)}}

\* An ACL that gives two rules one number is left out (the writer keeps one
\* of the two: NaclRulesNeverCollapse).
Numbered(acl) == \A e, f \in ToSet(map_network_acl_rules(acl)) : e.rule_number = f.rule_number => e = f
AclsOf(eni) ==
  {acl \in ToSet(Acls(Now)) : eni.subnet \in ToSet(acl.associations) /\ Once(Acls(Now), acl) /\ Numbered(acl)}
NowAclRules(eni) ==
  {[rule_number |-> e.rule_number, direction |-> e.direction, rule |-> e.rule] :
     e \in UNION {ToSet(map_network_acl_rules(acl)) : acl \in AclsOf(eni)}}

\* Every account that was ingested had the interface in the subnet it is in.
NeverMoved(eni) ==
  \A i \in 1..assembly.after : \A item \in ToSet(Enis(Listed[ingested[i].account])) :
     item.id = eni.id => item.subnet = eni.subnet

\* Whatever was ingested before, in part or completely, by whom, and whatever
\* comes in between the two queries: every source and destination of the
\* account just ingested has a candidate, which has at least all of the
\* account's rules (candidates.rs: "One ENI's full endpoint shape"); those of
\* its ACLs as long as the interface was never in another subnet.
NothingForgotten ==
  Fresh => \A s \in NowSources, d \in NowDestinations :
    /\ Pairs(s, d) # {}
    /\ \A pair \in Pairs(s, d) :
         LET c == candidates[pair] IN
         /\ NowSgRules(s, "ALLOWS_EGRESS") \subseteq c.source.security_group_rules
         /\ NowSgRules(d, "ALLOWS_INGRESS") \subseteq c.destination.security_group_rules
         /\ NeverMoved(s) => NowAclRules(s) \subseteq c.source.nacl_rules
         /\ NeverMoved(d) => NowAclRules(d) \subseteq c.destination.nacl_rules

\* As long as a graph has only seen one account, however often it was written
\* and failed to be, a pair whose subnets have no two tables has one candidate
\* and that has the account's rules and no others: no direction, group or
\* endpoint is taken for another (path.rs: egress rules for the source, ingress
\* rules for the destination).
TableOf(subnet, table) == \E i \in DOMAIN table.associations : table.associations[i].subnet = subnet
OneTable(subnet) ==
  \A t, u \in ToSet(Tables(Now)) : TableOf(subnet, t) /\ TableOf(subnet, u) => t.id = u.id
FirstAccountIsExact ==
  Fresh /\ (\A i \in 1..assembly.after : ingested[i].account = ingested[assembly.after].account) =>
    \A s \in NowSources, d \in NowDestinations : OneTable(s.subnet) /\ OneTable(d.subnet) =>
      \E pair \in Pairs(s, d) :
        LET c == candidates[pair] IN
        /\ Pairs(s, d) = {pair}
        /\ c.source.security_group_rules = NowSgRules(s, "ALLOWS_EGRESS")
        /\ c.destination.security_group_rules = NowSgRules(d, "ALLOWS_INGRESS")
        /\ c.source.peer_security_group_ids = ToSet(s.groups)
        /\ c.destination.peer_security_group_ids = ToSet(d.groups)

\* A subnet whose own table routes over a peering into the VPC of another,
\* which is this account's, has a route to every subnet there that has a table,
\* one with nothing but its local route too, whatever other tables the graph
\* remembers: a route that is missed ends the evaluation with not_reachable
\* (path.rs: route_exists is "trusted input to evaluation").
RoutesInto(table, v) ==
  \E r \in ToSet(table.routes), p \in ToSet(Peerings(Now)) :
     /\ r.cidr # None /\ r.gateway # "local" /\ r.pcx # None /\ r.pcx = p.id /\ Once(Peerings(Now), p)
     /\ \E near, far \in ToSet(Sides(p)) :
          ToSet(Sides(p)) = {near, far} /\ near.vpc = table.vpc /\ far.vpc = v /\ OwnSide(far)
HasLocal(table) == \E r \in ToSet(table.routes) : r.cidr # None /\ r.gateway = "local"
PeeredSubnetsAreRouted ==
  Fresh => \A s \in NowSources, d \in NowDestinations : \A t, u \in ToSet(Tables(Now)) :
    /\ TableOf(s.subnet, t) /\ t.vpc = s.vpc /\ RoutesInto(t, d.vpc)
    /\ TableOf(d.subnet, u) /\ HasLocal(u)
    => \E pair \in Pairs(s, d) : candidates[pair].route_exists

\* In a graph that has only seen one account, up to the second query, a route is
\* one that the account's tables have, not one made of what a partial ingestion
\* left, an unresolved reference or another subnet's table: the two tables meet
\* in some VPC, which may be a third one (candidates.rs: "a shared `VPC` node").
LeadsTo(table, v) == (HasLocal(table) /\ v = table.vpc) \/ RoutesInto(table, v)
RoutesAreTheAccounts ==
  Fresh /\ (\A i \in DOMAIN ingested : ingested[i].account = ingested[assembly.after].account) =>
    \A s \in NowSources, d \in NowDestinations : \A pair \in Pairs(s, d) :
      candidates[pair].route_exists /\ s.subnet # d.subnet =>
        \E t, u \in ToSet(Tables(Now)) : \E v \in {t.vpc, u.vpc} \cup PeeringVpcs(Peerings(Now)) :
          TableOf(s.subnet, t) /\ TableOf(d.subnet, u) /\ LeadsTo(t, v) /\ (LeadsTo(u, v) \/ v = d.vpc)

\* Why: the graph is what the ingestions left, one over the other; the first
\* query saw it as it was then, and the second found every route of it.
LeftBy(i) == IF i = 0 THEN << >> ELSE ingested[i].left
IngestsInv ==
  /\ IsList(ingested)
  /\ graph = LeftBy(Len(ingested))
  /\ \A i \in DOMAIN ingested :
       /\ ingested[i].account \in Account /\ ingested[i].upserts \in 1..All
       /\ ingested[i].left = Over(Images[ingested[i].account][ingested[i].upserts], LeftBy(i - 1))
EnisInv ==
  assembly.phase \in {"enis", "done"} =>
    assembly.after \in DOMAIN ingested /\ assembly.enis = fetch_enis(LeftBy(assembly.after))
TargetsInv ==
  Assembled => \A k \in DOMAIN LeftBy(assembly.after) : k[1] = "ROUTES_TO" /\ k[3][1] = "VPC" =>
    k[2][2] \in DOMAIN assembly.targets /\ k[3][2] \in assembly.targets[k[2][2]]
AssemblyInv ==
  /\ DOMAIN assembly = {"phase", "enis", "targets", "after"}
  /\ IngestsInv /\ EnisInv /\ TargetsInv
=============================================================================
