----------------------------- MODULE GraphBatch -----------------------------
(***************************************************************************)
(* What one ingestion hands to the database, and the rows it becomes.      *)
(*                                                                         *)
(* A graph is a function from keys to properties: its domain is the set of *)
(* nodes and relationships that exist, so MERGE on a key can neither miss  *)
(* an existing element nor make a second one.  A node's key is <<label,    *)
(* id>>; a relationship's is <<type, start node, end node, the properties  *)
(* inside the MERGE pattern>>.  The properties set after the MERGE are the *)
(* function's value.                                                       *)
(***************************************************************************)
EXTENDS Naturals, Sequences, SequencesExt

CONSTANTS
    KeyOrder,   \* the resource ids in the order of a BTreeMap's keys
    None        \* Option::None for a route's target

IsList(list) == list \in Seq(ToSet(list))

ASSUME KeyOrderAssumption == IsList(KeyOrder)

(***************************************************************************)
(* Batches.  A GraphBatch is a record of "nodes", for every label a        *)
(* sequence of [id, props], and "edges", one sequence of all edges.        *)
(***************************************************************************)
Labels == <<"ENI", "SecurityGroup", "NetworkACL", "Subnet", "VPC", "RouteTable">>

Ends == [HAS_SG           |-> <<"ENI", "SecurityGroup">>,
         IN_SUBNET        |-> <<"ENI", "Subnet">>,
         PROTECTED_BY     |-> <<"Subnet", "NetworkACL">>,
         USES_ROUTE_TABLE |-> <<"Subnet", "RouteTable">>]

NodeKey(label, id) == <<label, id>>
EdgeKey(type, from, to, merged) == <<type, from, to, merged>>
IsEdge(key) == Len(key) = 4
EndNodes(key) == IF IsEdge(key) THEN {key[2], key[3]} ELSE {}

\* The members of a list that a set has, in the order of the list.
Only(list, S) == FlattenSeq([i \in DOMAIN list |-> IF list[i] \in S THEN <<list[i]>> ELSE <<>>])

\* Rows of equal owner, in encounter order; the owners in key order.
group_by(edges) ==
  FlattenSeq([i \in DOMAIN KeyOrder |-> Only(edges, {e \in ToSet(edges) : e.from = KeyOrder[i]})])

EdgesOf(batch, type) == Only(batch.edges, {e \in ToSet(batch.edges) : e.type = type})

(***************************************************************************)
(* Row builders, one row per record, in the order of the records.          *)
(***************************************************************************)
node_rows(batch, label) ==
  [i \in DOMAIN batch.nodes[label] |->
     LET n == batch.nodes[label][i] IN [key |-> NodeKey(label, n.id), props |-> n.props]]

topology_rows(batch, type) ==
  LET edges == EdgesOf(batch, type) IN
  [i \in DOMAIN edges |->
     [key   |-> EdgeKey(type, NodeKey(Ends[type][1], edges[i].from),
                              NodeKey(Ends[type][2], edges[i].to), <<>>),
      props |-> "none"]]

\* A route without a modelled target is a loop on its route table.
routes_to_rows(batch, resolved) ==
  LET routes == EdgesOf(batch, "ROUTES_TO")
      edges == Only(routes, {e \in ToSet(routes) : e.resolved = resolved})
      Table(e) == NodeKey("RouteTable", e.from)
  IN [i \in DOMAIN edges |->
        [key   |-> EdgeKey("ROUTES_TO", Table(edges[i]),
                           IF resolved THEN NodeKey("VPC", edges[i].to) ELSE Table(edges[i]),
                           <<edges[i].cidr>>),
         props |-> resolved]]

\* Mutant: the third list of the split is never filled.
split_sg_rule_rows_Dropped(e) ==
  IF e.kind = "cidr" THEN "cidr" ELSE IF e.resolved THEN "sg_ref_resolved" ELSE "dropped"

\* The list that takes a rule: each has a statement of its own.
split_sg_rule_rows(e) ==
  IF e.kind = "cidr" THEN "cidr"
  ELSE IF e.resolved THEN "sg_ref_resolved" ELSE "sg_ref_unresolved"

\* Of one direction, the rows of one list.
sg_rule_rows(batch, type, list) ==
  LET rules == group_by(EdgesOf(batch, type))
      edges == Only(rules, {e \in ToSet(rules) : split_sg_rule_rows(e) = list})
      SgKey(id) == NodeKey("SecurityGroup", id)
  IN [i \in DOMAIN edges |->
        LET e == edges[i] IN
        [key   |-> EdgeKey(type, SgKey(e.from),
                           IF list = "sg_ref_resolved" THEN SgKey(e.to) ELSE SgKey(e.from),
                           <<e.match, e.kind, e.to>>),
         props |-> e.resolved]]

nacl_rule_rows(batch) ==
  LET edges == group_by(EdgesOf(batch, "HAS_RULE"))
      Acl(e) == NodeKey("NetworkACL", e.from)
  IN [i \in DOMAIN edges |->
        [key   |-> EdgeKey("HAS_RULE", Acl(edges[i]), Acl(edges[i]), <<edges[i].rule_number>>),
         props |-> <<edges[i].direction, edges[i].rule>>]]

(***************************************************************************)
(* write_batch: the upserts in the order they are awaited, each as the     *)
(* rows it sends.  Nodes come first, so that edges find their ends.        *)
(***************************************************************************)
write_batch(batch) ==
  [i \in DOMAIN Labels |-> node_rows(batch, Labels[i])] \o
  << topology_rows(batch, "HAS_SG"),
     topology_rows(batch, "IN_SUBNET"),
     topology_rows(batch, "PROTECTED_BY"),
     topology_rows(batch, "USES_ROUTE_TABLE"),
     routes_to_rows(batch, TRUE),
     routes_to_rows(batch, FALSE),
     sg_rule_rows(batch, "ALLOWS_INGRESS", "cidr"),
     sg_rule_rows(batch, "ALLOWS_INGRESS", "sg_ref_resolved"),
     sg_rule_rows(batch, "ALLOWS_INGRESS", "sg_ref_unresolved"),
     sg_rule_rows(batch, "ALLOWS_EGRESS", "cidr"),
     sg_rule_rows(batch, "ALLOWS_EGRESS", "sg_ref_resolved"),
     sg_rule_rows(batch, "ALLOWS_EGRESS", "sg_ref_unresolved"),
     nacl_rule_rows(batch) >>

RoutesTo == Len(Labels) + 5     \* the first upsert of upsert_routes_to_edges

\* upsert_routes_to_edges refuses a batch before it sends any of its rows.
Inconsistent(batch) ==
  \E i \in DOMAIN batch.edges :
     LET e == batch.edges[i] IN e.type = "ROUTES_TO" /\ (e.to # None) # e.resolved
-----------------------------------------------------------------------------
(* Batches and graphs, for those who write, map or read them *)

Ids(batch, label) == {batch.nodes[label][i].id : i \in DOMAIN batch.nodes[label]}

\* A batch is made of lists.  A rule for addresses has nothing to be resolved,
\* nor has one that names its own group: no group is of two accounts.
IsSgRule(e) == e.type \in {"ALLOWS_INGRESS", "ALLOWS_EGRESS"}
WellFormed(batch) ==
  /\ \A label \in ToSet(Labels) : IsList(batch.nodes[label])
  /\ IsList(batch.edges)
  /\ \A e \in ToSet(batch.edges) : IsSgRule(e) =>
       /\ e.from \in ToSet(KeyOrder) /\ e.kind \in {"cidr", "security_group_ref"} /\ e.resolved \in BOOLEAN
       /\ e.kind = "cidr" \/ e.to = e.from => e.resolved

\* The relationship that a security group rule becomes.
RuleEdge(e) ==
  LET from == NodeKey("SecurityGroup", e.from)
      to == IF e.kind = "security_group_ref" /\ e.resolved
            THEN NodeKey("SecurityGroup", e.to) ELSE from
  IN  EdgeKey(e.type, from, to, <<e.match, e.kind, e.to>>)

\* What the graph is once the image of a batch has been laid over it.
Over(image, content) ==
  [k \in DOMAIN image \cup DOMAIN content |-> IF k \in DOMAIN image THEN image[k] ELSE content[k]]
=============================================================================
