-------------------------- MODULE CandidatesProofs --------------------------
(***************************************************************************)
(* Proofs about the candidates, for every account and every history of     *)
(* complete and partial ingestions: what the graph holds was said by some  *)
(* account, all that the account just read says is in it, and the two      *)
(* queries and the pairing lose none of that.                              *)
(***************************************************************************)
EXTENDS Candidates, MappingProofs

(* What a batch leaves in the graph *)

SaysNode(batch, k, v) ==
  \E label \in ToSet(Labels) : \E i \in DOMAIN batch.nodes[label] :
     k = NodeKey(label, batch.nodes[label][i].id) /\ v = batch.nodes[label][i].props
SaysEdge(batch, k, v) == \E e \in ToSet(batch.edges) : RowOf([key |-> k, props |-> v], e)
Says(batch, k, v) == SaysNode(batch, k, v) \/ SaysEdge(batch, k, v)

HasRow(upserts, n, k, v) ==
  \E u \in 1..n : \E i \in DOMAIN upserts[u] : upserts[u][i].key = k /\ upserts[u][i].props = v

\* An image holds the key of every row of its upserts, and of each the
\* properties of a row.
LEMMA WrittenRows ==
  ASSUME NEW batch, WellFormed(batch), NEW n \in 1..19
  PROVE  /\ \A u \in 1..n : \A i \in DOMAIN write_batch(batch)[u] :
              write_batch(batch)[u][i].key \in DOMAIN Written(batch, n)
         /\ \A k \in DOMAIN Written(batch, n) : HasRow(write_batch(batch), n, k, Written(batch, n)[k])
<1> DEFINE w == write_batch(batch)
           T == UNION {ToSet(w[u]) : u \in 1..19}
           prefix == SubSeq(w, 1, n)
           rows == FlattenSeq(prefix)
           At(k) == {i \in DOMAIN rows : rows[i].key = k}
           image == Written(batch, n)
<1>1. \A u \in 1..19 : IsList(w[u])
  <2>1. \A u \in 1..19 : u \in 1..6 \/ u \in 7..19
    OBVIOUS
  <2> QED BY <2>1, WriteRows DEF EdgeRows
<1>2. image = [k \in {rows[i].key : i \in DOMAIN rows} |-> rows[Max(At(k))].props]
  BY DEF Written
<1> HIDE DEF w, image
<1>3. \A u \in 1..19 : w[u] \in Seq(T)
  <2> SUFFICES ASSUME NEW u \in 1..19 PROVE w[u] \in Seq(T)
    OBVIOUS
  <2>1. \A i \in DOMAIN w[u] : w[u][i] \in T
    BY DEF ToSet
  <2> HIDE DEF T
  <2>2. Len(w[u]) \in Nat /\ DOMAIN w[u] = 1..Len(w[u]) /\ w[u] = [i \in 1..Len(w[u]) |-> w[u][i]]
    BY <1>1, ListDomain
  <2> QED BY <2>1, <2>2, ListOf
<1> DEFINE S == Seq(T)
<1> HIDE DEF T, prefix, S
<1>4. prefix \in Seq(S) /\ DOMAIN prefix = 1..n /\ \A u \in 1..n : prefix[u] = w[u]
  <2>1. \A u \in 1..n : w[u] \in S
    <3>1. \A u \in 1..19 : w[u] \in S
      BY <1>3 DEF S
    <3> QED BY <3>1
  <2>2. 1 \in Int /\ n \in Int /\ n >= 1
    OBVIOUS
  <2>3. /\ prefix \in Seq(S) /\ Len(prefix) = n
        /\ \A u \in 1..n - 1 + 1 : prefix[u] = w[1 + u - 1]
    BY <2>1, <2>2, SubSeqProperties DEF prefix
  <2>4. DOMAIN prefix = 1..n
    BY <2>3, LenProperties
  <2>5. \A u \in 1..n : prefix[u] = w[u]
    BY <2>3
  <2> QED BY <2>3, <2>4, <2>5
<1>5. rows \in Seq(T) /\ ToSet(rows) = UNION {ToSet(prefix[u]) : u \in DOMAIN prefix}
  BY <1>4, FlattenMembers DEF S
<1> HIDE DEF rows
<1>6. DOMAIN rows = 1..Len(rows) /\ Len(rows) \in Nat
  BY <1>5, LenProperties
<1>7. \A row : row \in ToSet(rows) <=> \E u \in 1..n : row \in ToSet(w[u])
  BY <1>4, <1>5
<1>8. \A u \in 1..n : \A i \in DOMAIN w[u] : w[u][i].key \in DOMAIN image
  <2> SUFFICES ASSUME NEW u \in 1..n, NEW i \in DOMAIN w[u] PROVE w[u][i].key \in DOMAIN image
    OBVIOUS
  <2>1. w[u][i] \in ToSet(rows)
    BY <1>7 DEF ToSet
  <2>2. \E j \in DOMAIN rows : rows[j] = w[u][i]
    BY <2>1 DEF ToSet
  <2> QED BY <1>2, <2>2
<1>9. ASSUME NEW k \in DOMAIN image
      PROVE  HasRow(w, n, k, image[k])
  <2>1. At(k) \subseteq 1..Len(rows) /\ At(k) # {}
    BY <1>2, <1>6
  <2>2. Max(At(k)) \in At(k)
    <3> HIDE DEF At
    <3> QED BY <1>6, <2>1, MaxIsGreatest
  <2> DEFINE row == rows[Max(At(k))]
  <2>3. row.key = k /\ row \in ToSet(rows) /\ image[k] = row.props
    BY <1>2, <2>2 DEF ToSet
  <2> HIDE DEF row
  <2>4. PICK u \in 1..n : row \in ToSet(w[u])
    BY <1>7, <2>3
  <2>5. PICK i \in DOMAIN w[u] : w[u][i] = row
    BY <2>4 DEF ToSet
  <2> QED BY <2>3, <2>5 DEF HasRow
<1> QED BY <1>8, <1>9 DEF w, image

\* Whatever part of a batch was written, it is what the batch says, and no
\* relationship of it is without its ends.
LEMMA WrittenSays ==
  ASSUME NEW batch, WellFormed(batch), NEW n \in 1..19, NEW k \in DOMAIN Written(batch, n)
  PROVE  /\ SaysNode(batch, k, Written(batch, n)[k]) \/ (n > 6 /\ SaysEdge(batch, k, Written(batch, n)[k]))
<1> DEFINE v == Written(batch, n)[k]
           w == write_batch(batch)
<1>1. PICK u \in 1..n : \E i \in DOMAIN w[u] : w[u][i].key = k /\ w[u][i].props = v
  <2>1. HasRow(w, n, k, v)
    BY WrittenRows
  <2> QED BY <2>1 DEF HasRow
<1>2. PICK i \in DOMAIN w[u] : w[u][i].key = k /\ w[u][i].props = v
  BY <1>1
<1> HIDE DEF v, w
<1>3. CASE u \in 1..6
  <2>1. w[u] = node_rows(batch, Labels[u]) /\ Labels[u] \in ToSet(Labels)
    BY <1>3, WriteUpserts, LabelSet DEF ToSet, w
  <2>2. /\ DOMAIN w[u] = DOMAIN batch.nodes[Labels[u]]
        /\ w[u][i] = [key |-> NodeKey(Labels[u], batch.nodes[Labels[u]][i].id), props |-> batch.nodes[Labels[u]][i].props]
    BY <1>2, <2>1, NodeRows
  <2>3. k = NodeKey(Labels[u], batch.nodes[Labels[u]][i].id) /\ v = batch.nodes[Labels[u]][i].props
    BY <1>2, <2>2
  <2> QED BY <1>2, <2>1, <2>2, <2>3 DEF SaysNode, v
<1>4. CASE u \in 7..19
  <2>1. PICK e \in ToSet(batch.edges) : RowOf(w[u][i], e)
    BY <1>2, <1>4, RowsAreOfEdges DEF w
  <2>2. RowOf([key |-> k, props |-> v], e)
    BY <1>2, <2>1 DEF RowOf
  <2> QED BY <1>1, <1>4, <2>1, <2>2 DEF SaysEdge, v
<1> QED BY <1>1, <1>3, <1>4

\* The nodes are written first.
LEMMA NodesAreWritten ==
  ASSUME NEW batch, WellFormed(batch), NEW n \in 1..19, n > 6,
         NEW label \in ToSet(Labels), NEW id \in Ids(batch, label)
  PROVE  NodeKey(label, id) \in DOMAIN Written(batch, n)
<1>1. PICK u \in 1..6 : Labels[u] = label
  BY LabelSet DEF ToSet
<1>2. PICK i \in DOMAIN batch.nodes[Labels[u]] : batch.nodes[Labels[u]][i].id = id
  BY <1>1 DEF Ids
<1>3. /\ i \in DOMAIN write_batch(batch)[u]
      /\ write_batch(batch)[u][i].key = NodeKey(Labels[u], batch.nodes[Labels[u]][i].id)
  BY <1>2, WriteRows
<1>4. u \in 1..n
  OBVIOUS
<1> QED BY <1>1, <1>2, <1>3, <1>4, WrittenRows
LEMMA AllIs == All = 19
BY LabelSet DEF All

\* Once all of a batch is written, so is every relationship of it.
LEMMA UpsertsAreWritten ==
  ASSUME NEW batch, WellFormed(batch), NEW u \in 1..19, NEW i \in DOMAIN write_batch(batch)[u]
  PROVE  write_batch(batch)[u][i].key \in DOMAIN Written(batch, All)
BY WrittenRows, AllIs

LEMMA EdgesAreWritten ==
  ASSUME NEW batch, WellFormed(batch), NEW e \in ToSet(batch.edges)
  PROVE  /\ e.type \in TopologyTypes => TopologyKey(e) \in DOMAIN Written(batch, All)
         /\ e.type = "ROUTES_TO" /\ e.resolved \in BOOLEAN => RouteKey(e) \in DOMAIN Written(batch, All)
         /\ IsSgRule(e) => RuleEdge(e) \in DOMAIN Written(batch, All)
         /\ e.type = "HAS_RULE" /\ e.from \in ToSet(KeyOrder) => NaclRuleKey(e) \in DOMAIN Written(batch, All)
<1> DEFINE w == write_batch(batch)
           Sent(key) == \E u \in 1..19 : \E i \in DOMAIN w[u] : w[u][i].key = key
<1>1. /\ w[7] = topology_rows(batch, "HAS_SG") /\ w[8] = topology_rows(batch, "IN_SUBNET")
      /\ w[9] = topology_rows(batch, "PROTECTED_BY") /\ w[10] = topology_rows(batch, "USES_ROUTE_TABLE")
      /\ w[11] = routes_to_rows(batch, TRUE) /\ w[12] = routes_to_rows(batch, FALSE)
      /\ w[13] = sg_rule_rows(batch, "ALLOWS_INGRESS", "cidr")
      /\ w[14] = sg_rule_rows(batch, "ALLOWS_INGRESS", "sg_ref_resolved")
      /\ w[15] = sg_rule_rows(batch, "ALLOWS_INGRESS", "sg_ref_unresolved")
      /\ w[16] = sg_rule_rows(batch, "ALLOWS_EGRESS", "cidr")
      /\ w[17] = sg_rule_rows(batch, "ALLOWS_EGRESS", "sg_ref_resolved")
      /\ w[18] = sg_rule_rows(batch, "ALLOWS_EGRESS", "sg_ref_unresolved")
      /\ w[19] = nacl_rule_rows(batch)
  <2> DEFINE x == EdgeUpserts(batch)
  <2>1. \A u \in 7..19 : w[u] = x[u - 6]
    BY WriteUpserts
  <2>2. /\ x[1] = topology_rows(batch, "HAS_SG") /\ x[2] = topology_rows(batch, "IN_SUBNET")
        /\ x[3] = topology_rows(batch, "PROTECTED_BY") /\ x[4] = topology_rows(batch, "USES_ROUTE_TABLE")
        /\ x[5] = routes_to_rows(batch, TRUE) /\ x[6] = routes_to_rows(batch, FALSE)
        /\ x[7] = sg_rule_rows(batch, "ALLOWS_INGRESS", "cidr")
        /\ x[8] = sg_rule_rows(batch, "ALLOWS_INGRESS", "sg_ref_resolved")
        /\ x[9] = sg_rule_rows(batch, "ALLOWS_INGRESS", "sg_ref_unresolved")
        /\ x[10] = sg_rule_rows(batch, "ALLOWS_EGRESS", "cidr")
        /\ x[11] = sg_rule_rows(batch, "ALLOWS_EGRESS", "sg_ref_resolved")
        /\ x[12] = sg_rule_rows(batch, "ALLOWS_EGRESS", "sg_ref_unresolved")
        /\ x[13] = nacl_rule_rows(batch)
    BY DEF EdgeUpserts
  <2> HIDE DEF w, x
  <2>3. /\ w[7] = x[1] /\ w[8] = x[2] /\ w[9] = x[3] /\ w[10] = x[4] /\ w[11] = x[5] /\ w[12] = x[6]
        /\ w[13] = x[7] /\ w[14] = x[8] /\ w[15] = x[9] /\ w[16] = x[10] /\ w[17] = x[11]
        /\ w[18] = x[12] /\ w[19] = x[13]
    BY <2>1
  <2> QED BY <2>2, <2>3
<1>2. \A key : Sent(key) => key \in DOMAIN Written(batch, All)
  BY UpsertsAreWritten
<1> HIDE DEF w
<1>3. ASSUME NEW rows, \E u \in 1..19 : w[u] = rows, NEW key, \E i \in DOMAIN rows : rows[i].key = key
      PROVE  key \in DOMAIN Written(batch, All)
  BY <1>2, <1>3
<1>4. ASSUME e.type \in TopologyTypes PROVE TopologyKey(e) \in DOMAIN Written(batch, All)
  <2> DEFINE type == e.type
  <2>1. type \in TopologyTypes /\ e.type = type
    BY <1>4
  <2> HIDE DEF type
  <2>2. \E i \in DOMAIN topology_rows(batch, type) : topology_rows(batch, type)[i].key = TopologyKey(e)
    BY <2>1, TopologyRows
  <2>3. \E u \in 1..19 : w[u] = topology_rows(batch, type)
    BY <1>1, <2>1 DEF TopologyTypes
  <2> QED BY <1>3, <2>2, <2>3
<1>5. ASSUME e.type = "ROUTES_TO", e.resolved \in BOOLEAN PROVE RouteKey(e) \in DOMAIN Written(batch, All)
  <2> DEFINE resolved == e.resolved
  <2>1. resolved \in BOOLEAN /\ e.resolved = resolved
    BY <1>5
  <2> HIDE DEF resolved
  <2>2. \E i \in DOMAIN routes_to_rows(batch, resolved) : routes_to_rows(batch, resolved)[i].key = RouteKey(e)
    BY <1>5, <2>1, RoutesToRows
  <2>3. \E u \in 1..19 : w[u] = routes_to_rows(batch, resolved)
    <3>1. 11 \in 1..19 /\ 12 \in 1..19
      OBVIOUS
    <3>2. resolved = TRUE \/ resolved = FALSE
      BY <2>1
    <3> QED BY <1>1, <3>1, <3>2, Zenon
  <2> QED BY <1>3, <2>2, <2>3
<1>6. ASSUME IsSgRule(e) PROVE RuleEdge(e) \in DOMAIN Written(batch, All)
  <2> DEFINE type == e.type
             list == split_sg_rule_rows(e)
  <2>1. type \in {"ALLOWS_INGRESS", "ALLOWS_EGRESS"} /\ e \in RulesTaken(batch, type, list)
    BY <1>6 DEF IsSgRule, RulesTaken
  <2>2. list \in {"cidr", "sg_ref_resolved", "sg_ref_unresolved"} /\ RuleEdge(e) = SgRowKey(e, list)
    BY <1>6, RuleEdgeIsItsRow DEF WellFormed
  <2> HIDE DEF type, list
  <2>3. \E i \in DOMAIN sg_rule_rows(batch, type, list) : sg_rule_rows(batch, type, list)[i].key = SgRowKey(e, list)
    BY <2>1, SgRuleRows
  <2>4. \E u \in 1..19 : w[u] = sg_rule_rows(batch, type, list)
    BY <1>1, <2>1, <2>2
  <2> QED BY <1>3, <2>2, <2>3, <2>4
<1>7. ASSUME e.type = "HAS_RULE", e.from \in ToSet(KeyOrder) PROVE NaclRuleKey(e) \in DOMAIN Written(batch, All)
  <2>1. \E i \in DOMAIN nacl_rule_rows(batch) : nacl_rule_rows(batch)[i].key = NaclRuleKey(e)
    BY <1>7, NaclRuleRows
  <2>2. \E u \in 1..19 : w[u] = nacl_rule_rows(batch)
    BY <1>1
  <2> QED BY <1>3, <2>1, <2>2
<1> QED BY <1>4, <1>5, <1>6, <1>7

\* The key of a relationship says of which type it is.
LEMMA RowKeys ==
  ASSUME NEW row, NEW e, RowOf(row, e)
  PROVE  IsEdgeKey(row.key, e.type)
<1> DEFINE Has(l, x, m, y, z) == row.key = EdgeKey(e.type, NodeKey(l, x), NodeKey(m, y), z)
<1>1. \E l, m \in ToSet(Labels) : \E x, y, z : Has(l, x, m, y, z)
  <2>1. CASE e.type \in TopologyTypes /\ row.key = TopologyKey(e)
    <3>1. Ends[e.type][1] \in ToSet(Labels) /\ Ends[e.type][2] \in ToSet(Labels)
      BY <2>1, LabelSet DEF Ends, TopologyTypes
    <3>2. Has(Ends[e.type][1], e.from, Ends[e.type][2], e.to, <<>>)
      BY <2>1 DEF TopologyKey
    <3> HIDE DEF Has
    <3> QED BY <3>1, <3>2
  <2>2. CASE e.type = "ROUTES_TO" /\ row.key = RouteKey(e)
    <3>1. \/ Has("RouteTable", e.from, "VPC", e.to, <<e.cidr>>)
          \/ Has("RouteTable", e.from, "RouteTable", e.from, <<e.cidr>>)
      BY <2>2 DEF RouteKey
    <3> HIDE DEF Has
    <3> QED BY <3>1, LabelSet
  <2>3. CASE IsSgRule(e) /\ row.key = RuleEdge(e)
    <3>1. \/ Has("SecurityGroup", e.from, "SecurityGroup", e.to, <<e.match, e.kind, e.to>>)
          \/ Has("SecurityGroup", e.from, "SecurityGroup", e.from, <<e.match, e.kind, e.to>>)
      BY <2>3 DEF RuleEdge
    <3> HIDE DEF Has
    <3> QED BY <3>1, LabelSet
  <2>4. CASE e.type = "HAS_RULE" /\ row.key = NaclRuleKey(e)
    <3>1. Has("NetworkACL", e.from, "NetworkACL", e.from, <<e.rule_number>>)
      BY <2>4 DEF NaclRuleKey
    <3> HIDE DEF Has
    <3> QED BY <3>1, LabelSet
  <2> QED BY <2>1, <2>2, <2>3, <2>4 DEF RowOf
<1> QED BY <1>1 DEF IsEdgeKey

\* What is said of a key that is no relationship's, and of one that is.
LEMMA NodeSaid ==
  ASSUME NEW batch, NEW k, NEW v, Says(batch, k, v), ~IsEdge(k)
  PROVE  SaysNode(batch, k, v) /\ k = NodeKey(k[1], k[2]) /\ k[1] \in ToSet(Labels)
<1>1. ~SaysEdge(batch, k, v)
  <2> SUFFICES ASSUME NEW e \in ToSet(batch.edges), RowOf([key |-> k, props |-> v], e) PROVE FALSE
    BY DEF SaysEdge
  <2>1. IsEdgeKey([key |-> k, props |-> v].key, e.type)
    BY RowKeys
  <2>2. IsEdgeKey(k, e.type)
    BY <2>1
  <2> QED BY <2>2, EdgeKeyParts
<1>2. SaysNode(batch, k, v)
  BY <1>1 DEF Says
<1>3. k = NodeKey(k[1], k[2]) /\ k[1] \in ToSet(Labels)
  BY <1>2 DEF SaysNode, NodeKey
<1> QED BY <1>2, <1>3

LEMMA EdgeSaid ==
  ASSUME NEW batch, NEW k, NEW v, Says(batch, k, v), IsEdge(k)
  PROVE  /\ \E e \in ToSet(batch.edges) : RowOf([key |-> k, props |-> v], e) /\ e.type = k[1]
         /\ SaysEdge(batch, k, v) /\ k[1] \notin ToSet(Labels)
<1>1. ~SaysNode(batch, k, v)
  BY DEF SaysNode, NodeKey, IsEdge
<1>2. SaysEdge(batch, k, v)
  BY <1>1 DEF Says
<1>3. PICK e \in ToSet(batch.edges) : RowOf([key |-> k, props |-> v], e)
  BY <1>2 DEF SaysEdge
<1>4. IsEdgeKey([key |-> k, props |-> v].key, e.type)
  BY <1>3, RowKeys
<1>5. IsEdgeKey(k, e.type)
  BY <1>4
<1>6. e.type = k[1]
  BY <1>5, EdgeKeyParts
<1>7. e.type \in TopologyTypes \cup {"ROUTES_TO", "ALLOWS_INGRESS", "ALLOWS_EGRESS", "HAS_RULE"}
  BY <1>3 DEF RowOf, IsSgRule
<1>8. k[1] \notin ToSet(Labels)
  BY <1>6, <1>7, LabelSet DEF TopologyTypes
<1> QED BY <1>2, <1>3, <1>6, <1>8

\* A row of a type is an edge's of that type.
LEMMA RowsByType ==
  ASSUME NEW k, NEW v, NEW e, RowOf([key |-> k, props |-> v], e)
  PROVE  /\ e.type \in TopologyTypes => k = TopologyKey(e)
         /\ e.type = "ROUTES_TO" => k = RouteKey(e) /\ v = e.resolved
         /\ IsSgRule(e) => k = RuleEdge(e) /\ v = e.resolved
         /\ e.type = "HAS_RULE" => k = NaclRuleKey(e) /\ v = <<e.direction, e.rule>>
<1> DEFINE row == [key |-> k, props |-> v]
<1>1. row.key = k /\ row.props = v
  OBVIOUS
<1> HIDE DEF row
<1>2. RowOf(row, e)
  BY DEF row
<1> QED BY <1>1, <1>2 DEF RowOf, TopologyTypes, IsSgRule
-----------------------------------------------------------------------------
(* What a graph keeps of a batch, and what it can only have from batches *)

Keeps(g, raw) ==
  \A k \in DOMAIN Written(build_graph_batch(raw), All) : k \in DOMAIN g /\ Says(build_graph_batch(raw), k, g[k])
OnlyFrom(g, raws) == \A k \in DOMAIN g : \E raw \in raws : Says(build_graph_batch(raw), k, g[k])

\* An interface that the response had once has its own properties.
LEMMA EniKept ==
  ASSUME NEW raw, IsRaw(raw), NEW g, Keeps(g, raw), NEW eni \in ToSet(Enis(raw)), Once(Enis(raw), eni)
  PROVE  /\ NodeKey("ENI", eni.id) \in Nodes(g, "ENI")
         /\ g[NodeKey("ENI", eni.id)] = NodeProps("NetworkInterface", eni)
<1> DEFINE batch == build_graph_batch(raw)
           key == NodeKey("ENI", eni.id)
<1>1. WellFormed(batch)
  BY MappedIsWellFormed
<1>2. eni.id \in Ids(batch, "ENI")
  BY BatchIds DEF HasId
<1>3. key \in DOMAIN Written(batch, All)
  BY <1>1, <1>2, AllIs, LabelSet, NodesAreWritten
<1>4. key \in DOMAIN g /\ Says(batch, key, g[key])
  BY <1>3 DEF Keeps
<1>5. ~IsEdge(key) /\ key[1] = "ENI"
  BY DEF IsEdge, NodeKey
<1> HIDE DEF batch
<1>6. SaysNode(batch, key, g[key])
  BY <1>4, <1>5, NodeSaid
<1>7. PICK label \in ToSet(Labels) : \E i \in DOMAIN batch.nodes[label] :
        key = NodeKey(label, batch.nodes[label][i].id) /\ g[key] = batch.nodes[label][i].props
  BY <1>6 DEF SaysNode
<1>8. PICK i \in DOMAIN batch.nodes[label] :
        key = NodeKey(label, batch.nodes[label][i].id) /\ g[key] = batch.nodes[label][i].props
  BY <1>7
<1>9. label = "ENI" /\ batch.nodes[label][i].id = eni.id
  BY <1>8 DEF NodeKey
<1>10. batch.nodes["ENI"] = Records("NetworkInterface", Enis(raw)) /\ IsList(Enis(raw))
  BY BatchNodes, RawLists DEF batch
<1>11. PICK item \in ToSet(Enis(raw)) :
         /\ Records("NetworkInterface", Enis(raw))[i].id = item.id
         /\ Records("NetworkInterface", Enis(raw))[i].props = NodeProps("NetworkInterface", item)
  BY <1>8, <1>9, <1>10, RecordIds
<1>12. item = eni
  BY <1>9, <1>10, <1>11 DEF Once
<1> QED BY <1>4, <1>5, <1>8, <1>9, <1>10, <1>11, <1>12 DEF Nodes

LEMMA MembershipKept ==
  ASSUME NEW raw, IsRaw(raw), NEW g, Keeps(g, raw),
         NEW e \in ToSet(build_graph_batch(raw).edges), e.type \in TopologyTypes
  PROVE  NodeKey(Ends[e.type][2], e.to) \in Targets(g, e.type, NodeKey(Ends[e.type][1], e.from))
<1>1. TopologyKey(e) \in DOMAIN g
  BY MappedIsWellFormed, EdgesAreWritten DEF Keeps
<1>2. /\ IsEdge(TopologyKey(e)) /\ TopologyKey(e)[1] = e.type
      /\ TopologyKey(e)[2] = NodeKey(Ends[e.type][1], e.from) /\ TopologyKey(e)[3] = NodeKey(Ends[e.type][2], e.to)
  BY DEF TopologyKey, EdgeKey, IsEdge
<1> QED BY <1>1, <1>2 DEF Targets, From

\* Two rules that become one relationship are one rule: whether it is resolved
\* is in its end.
LEMMA SameRule ==
  ASSUME NEW batch, WellFormed(batch), NEW e \in ToSet(batch.edges), NEW f \in ToSet(batch.edges),
         IsSgRule(e), IsSgRule(f), RuleEdge(e) = RuleEdge(f)
  PROVE  e.resolved = f.resolved
<1> DEFINE End(r) == IF r.kind = "security_group_ref" /\ r.resolved
                     THEN NodeKey("SecurityGroup", r.to) ELSE NodeKey("SecurityGroup", r.from)
<1>1. \A r \in {e, f} :
        /\ r.kind \in {"cidr", "security_group_ref"} /\ r.resolved \in BOOLEAN
        /\ r.kind = "cidr" \/ r.to = r.from => r.resolved
  BY DEF WellFormed
<1>2. \A r : /\ RuleEdge(r)[2] = NodeKey("SecurityGroup", r.from) /\ RuleEdge(r)[3] = End(r)
             /\ RuleEdge(r)[4] = <<r.match, r.kind, r.to>>
  BY DEF RuleEdge, EdgeKey
<1>3. NodeKey("SecurityGroup", e.from) = NodeKey("SecurityGroup", f.from) /\ End(e) = End(f)
      /\ <<e.match, e.kind, e.to>> = <<f.match, f.kind, f.to>>
  BY <1>2
<1>4. e.from = f.from /\ e.kind = f.kind /\ e.to = f.to
  BY <1>3 DEF NodeKey
<1>5. \A x, y : NodeKey("SecurityGroup", x) = NodeKey("SecurityGroup", y) => x = y
  BY DEF NodeKey
<1>6. e.resolved \in BOOLEAN /\ f.resolved \in BOOLEAN
  BY <1>1
<1>7. e.resolved => f.resolved
  BY <1>1, <1>3, <1>4, <1>5
<1>8. f.resolved => e.resolved
  BY <1>1, <1>3, <1>4, <1>5
<1> QED BY <1>6, <1>7, <1>8

SgRule(e) == [direction |-> e.type, match |-> e.match, kind |-> e.kind, to |-> e.to, resolved |-> e.resolved]

LEMMA RuleProps ==
  ASSUME NEW g, NEW e, g[RuleEdge(e)] = e.resolved
  PROVE  sg_rule_from_props(g, RuleEdge(e), e.type) = SgRule(e)
<1>1. RuleEdge(e)[4] = <<e.match, e.kind, e.to>>
  BY DEF RuleEdge, EdgeKey
<1>2. RuleEdge(e)[4][1] = e.match /\ RuleEdge(e)[4][2] = e.kind /\ RuleEdge(e)[4][3] = e.to
  BY <1>1
<1> QED BY <1>2 DEF sg_rule_from_props, SgRule

LEMMA RuleKept ==
  ASSUME NEW raw, IsRaw(raw), NEW g, Keeps(g, raw),
         NEW e \in ToSet(build_graph_batch(raw).edges), IsSgRule(e)
  PROVE  /\ RuleEdge(e) \in From(g, e.type, SgKey(e.from))
         /\ sg_rule_from_props(g, RuleEdge(e), e.type) = SgRule(e)
<1> DEFINE batch == build_graph_batch(raw)
           k == RuleEdge(e)
<1>1. WellFormed(batch)
  BY MappedIsWellFormed
<1>2. k \in DOMAIN g /\ Says(batch, k, g[k])
  BY <1>1, EdgesAreWritten DEF Keeps
<1>3. IsEdge(k) /\ k[1] = e.type /\ k[2] = SgKey(e.from)
  BY DEF RuleEdge, EdgeKey, IsEdge, SgKey
<1> HIDE DEF batch, k
<1>4. PICK f \in ToSet(batch.edges) : RowOf([key |-> k, props |-> g[k]], f) /\ f.type = k[1]
  BY <1>2, <1>3, EdgeSaid
<1>5. IsSgRule(f) /\ k = RuleEdge(f) /\ g[k] = f.resolved
  <2>1. IsSgRule(f)
    BY <1>3, <1>4 DEF IsSgRule
  <2> QED BY <1>4, <2>1, RowsByType
<1>6. f.resolved = e.resolved
  BY <1>1, <1>5, SameRule DEF k, batch
<1> QED BY <1>2, <1>3, <1>5, <1>6, RuleProps DEF k, From

\* A rule of an ACL that the response had once, with a number of its own.
LEMMA AclRuleKept ==
  ASSUME NEW raw, IsRaw(raw), NEW g, Keeps(g, raw), NEW acl \in ToSet(Acls(raw)),
         Once(Acls(raw), acl), Numbered(acl), NEW e \in ToSet(map_network_acl_rules(acl))
  PROVE  /\ NaclRuleKey(e) \in From(g, "HAS_RULE", NodeKey("NetworkACL", acl.id))
         /\ nacl_rule_from_props(g, NaclRuleKey(e)) =
              [rule_number |-> e.rule_number, direction |-> e.direction, rule |-> e.rule]
<1> DEFINE batch == build_graph_batch(raw)
           k == NaclRuleKey(e)
<1>1. WellFormed(batch)
  BY MappedIsWellFormed
<1>2. e \in ToSet(batch.edges) /\ e.type = "HAS_RULE" /\ e.from = acl.id /\ e.from \in ToSet(KeyOrder)
  <2>1. e.type = "HAS_RULE" /\ e.from = acl.id
    BY AclRuleShape
  <2>2. acl.id \in ToSet(KeyOrder)
    BY RawLists
  <2>3. FromAcl(e, raw)
    BY DEF FromAcl
  <2> QED BY <2>1, <2>2, <2>3, EdgeOrigins
<1>3. k \in DOMAIN g /\ Says(batch, k, g[k])
  BY <1>1, <1>2, EdgesAreWritten DEF Keeps
<1>4. /\ IsEdge(k) /\ k[1] = "HAS_RULE" /\ k[2] = NodeKey("NetworkACL", e.from) /\ k[4] = <<e.rule_number>>
  BY DEF NaclRuleKey, EdgeKey, IsEdge
<1> HIDE DEF batch, k
<1>5. PICK f \in ToSet(batch.edges) : RowOf([key |-> k, props |-> g[k]], f) /\ f.type = k[1]
  BY <1>3, <1>4, EdgeSaid
<1>6. f.type = "HAS_RULE" /\ k = NaclRuleKey(f) /\ g[k] = <<f.direction, f.rule>>
  BY <1>4, <1>5, RowsByType
<1>7. f.from = e.from /\ f.rule_number = e.rule_number
  <2>1. NaclRuleKey(f)[2] = NodeKey("NetworkACL", f.from) /\ NaclRuleKey(f)[4] = <<f.rule_number>>
    BY DEF NaclRuleKey, EdgeKey
  <2> QED BY <1>4, <1>6, <2>1 DEF NodeKey
<1>8. FromAcl(f, raw)
  <2>1. FromEni(f, raw) \/ FromAcl(f, raw) \/ FromTable(f, raw) \/ FromGroup(f, raw)
    BY EdgeOrigins DEF batch
  <2> QED BY <1>6, <2>1, OriginTypes
<1>9. PICK other \in ToSet(Acls(raw)) : f \in ToSet(map_network_acl_rules(other))
  <2>1. \A type, from, to : Edge(type, from, to).type = type
    BY DEF Edge
  <2> QED BY <1>6, <1>8, <2>1 DEF FromAcl
<1>10. other = acl
  BY <1>2, <1>7, <1>9, AclRuleShape DEF Once
<1>11. f = e
  BY <1>7, <1>9, <1>10 DEF Numbered
<1>12. g[k][1] = e.direction /\ g[k][2] = e.rule /\ k[4][1] = e.rule_number
  BY <1>4, <1>6, <1>11
<1>13. k \in From(g, "HAS_RULE", NodeKey("NetworkACL", acl.id))
  BY <1>2, <1>3, <1>4 DEF From
<1> QED BY <1>12, <1>13 DEF nacl_rule_from_props, k

LEMMA TargetSaid ==
  ASSUME NEW g, NEW raws, OnlyFrom(g, raws), NEW type \in TopologyTypes, NEW l, NEW id,
         NEW t \in Targets(g, type, NodeKey(l, id))
  PROVE  \E raw \in raws : \E e \in ToSet(build_graph_batch(raw).edges) :
           e.type = type /\ e.from = id /\ t = NodeKey(Ends[type][2], e.to)
<1>1. PICK k \in DOMAIN g : IsEdge(k) /\ k[1] = type /\ k[2] = NodeKey(l, id) /\ t = k[3]
  BY DEF Targets, From
<1>2. PICK raw \in raws : Says(build_graph_batch(raw), k, g[k])
  BY DEF OnlyFrom
<1>3. PICK e \in ToSet(build_graph_batch(raw).edges) : RowOf([key |-> k, props |-> g[k]], e) /\ e.type = k[1]
  BY <1>1, <1>2, EdgeSaid
<1>4. k = TopologyKey(e)
  BY <1>1, <1>3, RowsByType
<1>5. TopologyKey(e)[2] = NodeKey(Ends[e.type][1], e.from) /\ TopologyKey(e)[3] = NodeKey(Ends[e.type][2], e.to)
  BY DEF TopologyKey, EdgeKey
<1> QED BY <1>1, <1>3, <1>4, <1>5 DEF NodeKey

LEMMA RuleSaid ==
  ASSUME NEW g, NEW raws, OnlyFrom(g, raws), NEW type \in {"ALLOWS_INGRESS", "ALLOWS_EGRESS"}, NEW id,
         NEW k \in From(g, type, SgKey(id))
  PROVE  \E raw \in raws : \E e \in ToSet(build_graph_batch(raw).edges) :
           /\ e.type = type /\ e.from = id /\ sg_rule_from_props(g, k, type) = SgRule(e)
<1>1. k \in DOMAIN g /\ IsEdge(k) /\ k[1] = type /\ k[2] = SgKey(id)
  BY DEF From
<1>2. PICK raw \in raws : Says(build_graph_batch(raw), k, g[k])
  BY <1>1 DEF OnlyFrom
<1>3. PICK e \in ToSet(build_graph_batch(raw).edges) : RowOf([key |-> k, props |-> g[k]], e) /\ e.type = k[1]
  BY <1>1, <1>2, EdgeSaid
<1>4. k = RuleEdge(e) /\ g[k] = e.resolved
  BY <1>1, <1>3, RowsByType DEF IsSgRule
<1>5. RuleEdge(e)[2] = SgKey(e.from)
  BY DEF RuleEdge, EdgeKey, SgKey
<1>6. e.from = id
  BY <1>1, <1>4, <1>5 DEF SgKey, NodeKey
<1> QED BY <1>1, <1>3, <1>4, <1>6, RuleProps
-----------------------------------------------------------------------------
(* The rows of the first query *)

EniKey(id) == NodeKey("ENI", id)
TablesOf(g, id) == RowTables(g, Targets(g, "IN_SUBNET", EniKey(id)))

\* An optional match never makes a row disappear.
LEMMA SomeTable ==
  ASSUME NEW g, NEW id
  PROVE  TablesOf(g, id) # {}
BY DEF TablesOf, RowTables, OrNull

\* The interface has a row for each of its tables, and these are all it has.
LEMMA RowsOfEni ==
  ASSUME NEW raw, IsRaw(raw), NEW g, Keeps(g, raw), NEW eni \in ToSet(Enis(raw)), Once(Enis(raw), eni),
         NEW t \in TablesOf(g, eni.id)
  PROVE  LET row == EniNode(g, EniKey(eni.id), t) IN
         /\ row \in fetch_enis(g) /\ row.id = eni.id /\ row.vpc_id = eni.vpc /\ row.subnet_id = eni.subnet
         /\ row.private_ip = eni.private_ip /\ row.route_table_id = t
<1> DEFINE key == EniKey(eni.id)
           row == EniNode(g, key, t)
<1>1. key \in Nodes(g, "ENI") /\ g[key] = NodeProps("NetworkInterface", eni)
  BY EniKept DEF EniKey
<1>2. row \in fetch_enis(g)
  BY <1>1 DEF fetch_enis, TablesOf
<1>3. key[2] = eni.id
  BY DEF EniKey, NodeKey
<1>4. g[key].vpc = eni.vpc /\ g[key].subnet = eni.subnet /\ g[key].private_ip = eni.private_ip
  BY <1>1 DEF NodeProps
<1> HIDE DEF key
<1>5. /\ row.id = key[2] /\ row.vpc_id = g[key].vpc /\ row.subnet_id = g[key].subnet
      /\ row.private_ip = g[key].private_ip /\ row.route_table_id = t
  BY DEF EniNode
<1> QED BY <1>2, <1>3, <1>4, <1>5 DEF key

LEMMA RowsAreOfEnis ==
  ASSUME NEW g, NEW raws, OnlyFrom(g, raws), NEW row \in fetch_enis(g)
  PROVE  \E t \in TablesOf(g, row.id) : row = EniNode(g, EniKey(row.id), t)
<1>1. PICK key \in Nodes(g, "ENI") : row \in {EniNode(g, key, t) : t \in RowTables(g, Targets(g, "IN_SUBNET", key))}
  BY DEF fetch_enis
<1>2. PICK t \in RowTables(g, Targets(g, "IN_SUBNET", key)) : row = EniNode(g, key, t)
  BY <1>1
<1>3. key \in DOMAIN g /\ ~IsEdge(key) /\ key[1] = "ENI"
  BY <1>1 DEF Nodes
<1>4. key = NodeKey(key[1], key[2])
  <2>1. PICK raw \in raws : Says(build_graph_batch(raw), key, g[key])
    BY <1>3 DEF OnlyFrom
  <2> QED BY <1>3, <2>1, NodeSaid
<1>5. row.id = key[2]
  BY <1>2 DEF EniNode
<1> QED BY <1>2, <1>3, <1>4, <1>5 DEF TablesOf, EniKey

\* A group of an interface has the rules of its own.
LEMMA RulesKept ==
  ASSUME NEW raw, IsRaw(raw), NEW g, Keeps(g, raw), NEW eni \in ToSet(Enis(raw)),
         NEW type \in {"ALLOWS_INGRESS", "ALLOWS_EGRESS"},
         NEW e \in ToSet(allows_edges(Groups(raw))), e.type = type, e.from \in ToSet(eni.groups)
  PROVE  SgRule(e) \in sg_rules(g, Targets(g, "HAS_SG", EniKey(eni.id)), type)
<1>1. e \in ToSet(build_graph_batch(raw).edges)
  BY BatchEdges
<1>2. /\ RuleEdge(e) \in From(g, type, SgKey(e.from))
      /\ sg_rule_from_props(g, RuleEdge(e), type) = SgRule(e)
  BY <1>1, RuleKept DEF IsSgRule
<1>3. SgKey(e.from) \in Targets(g, "HAS_SG", EniKey(eni.id))
  <2> DEFINE m == Edge("HAS_SG", eni.id, e.from)
  <2>1. m.type = "HAS_SG" /\ m.from = eni.id /\ m.to = e.from
    BY DEF Edge
  <2>2. FromEni(m, raw)
    BY DEF FromEni
  <2> HIDE DEF m
  <2>3. m \in ToSet(build_graph_batch(raw).edges)
    BY <2>2, EdgeOrigins
  <2>4. NodeKey(Ends[m.type][2], m.to) \in Targets(g, m.type, NodeKey(Ends[m.type][1], m.from))
    BY <2>1, <2>3, MembershipKept DEF TopologyTypes
  <2>5. Ends["HAS_SG"] = <<"ENI", "SecurityGroup">>
    BY DEF Ends
  <2> QED BY <2>1, <2>4, <2>5 DEF SgKey, EniKey
<1> QED BY <1>2, <1>3 DEF sg_rules

\* The subnet an interface is in.
LEMMA SubnetKept ==
  ASSUME NEW raw, IsRaw(raw), NEW g, Keeps(g, raw), NEW eni \in ToSet(Enis(raw))
  PROVE  NodeKey("Subnet", eni.subnet) \in Targets(g, "IN_SUBNET", EniKey(eni.id))
<1> DEFINE m == Edge("IN_SUBNET", eni.id, eni.subnet)
<1>1. m.type = "IN_SUBNET" /\ m.from = eni.id /\ m.to = eni.subnet
  BY DEF Edge
<1>2. FromEni(m, raw)
  BY DEF FromEni
<1> HIDE DEF m
<1>3. m \in ToSet(build_graph_batch(raw).edges)
  BY <1>2, EdgeOrigins
<1>4. NodeKey(Ends[m.type][2], m.to) \in Targets(g, m.type, NodeKey(Ends[m.type][1], m.from))
  BY <1>1, <1>3, MembershipKept DEF TopologyTypes
<1>5. Ends["IN_SUBNET"] = <<"ENI", "Subnet">>
  BY DEF Ends
<1> QED BY <1>1, <1>4, <1>5 DEF EniKey

StaysIn(raws, eni) ==
  \A raw \in raws : IsRaw(raw) /\ \A item \in ToSet(Enis(raw)) : item.id = eni.id => item.subnet = eni.subnet

\* An interface that was nowhere else is in one subnet only.
LEMMA OneSubnet ==
  ASSUME NEW raw, IsRaw(raw), NEW g, Keeps(g, raw), NEW eni \in ToSet(Enis(raw)),
         NEW raws, OnlyFrom(g, raws), StaysIn(raws, eni)
  PROVE  Targets(g, "IN_SUBNET", EniKey(eni.id)) = {NodeKey("Subnet", eni.subnet)}
<1>1. ASSUME NEW s \in Targets(g, "IN_SUBNET", EniKey(eni.id))
      PROVE  s = NodeKey("Subnet", eni.subnet)
  <2>1. PICK r \in raws : \E e \in ToSet(build_graph_batch(r).edges) :
          e.type = "IN_SUBNET" /\ e.from = eni.id /\ s = NodeKey(Ends["IN_SUBNET"][2], e.to)
    <3>1. "IN_SUBNET" \in TopologyTypes
      BY DEF TopologyTypes
    <3>2. s \in Targets(g, "IN_SUBNET", NodeKey("ENI", eni.id))
      BY DEF EniKey
    <3> QED BY <3>1, <3>2, TargetSaid
  <2>2. PICK e \in ToSet(build_graph_batch(r).edges) :
          e.type = "IN_SUBNET" /\ e.from = eni.id /\ s = NodeKey(Ends["IN_SUBNET"][2], e.to)
    BY <2>1
  <2>3. IsRaw(r) /\ \A item \in ToSet(Enis(r)) : item.id = eni.id => item.subnet = eni.subnet
    BY DEF StaysIn
  <2>4. FromEni(e, r)
    <3>1. FromEni(e, r) \/ FromAcl(e, r) \/ FromTable(e, r) \/ FromGroup(e, r)
      BY <2>3, EdgeOrigins
    <3> QED BY <2>2, <3>1, OriginTypes
  <2>5. PICK item \in ToSet(Enis(r)) : e = Edge("IN_SUBNET", item.id, item.subnet)
    <3>1. \A from, to : Edge("HAS_SG", from, to).type = "HAS_SG"
      BY DEF Edge
    <3> QED BY <2>2, <2>4, <3>1 DEF FromEni
  <2>6. item.id = eni.id /\ e.to = item.subnet
    BY <2>2, <2>5 DEF Edge
  <2>7. Ends["IN_SUBNET"][2] = "Subnet"
    BY DEF Ends
  <2> QED BY <2>2, <2>3, <2>6, <2>7
<1> QED BY <1>1, SubnetKept

\* The rules of an ACL of its subnet reach every row of an interface that
\* was nowhere else.
LEMMA AclRulesKept ==
  ASSUME NEW raw, IsRaw(raw), NEW g, Keeps(g, raw), NEW eni \in ToSet(Enis(raw)),
         NEW raws, OnlyFrom(g, raws), StaysIn(raws, eni), NEW t \in TablesOf(g, eni.id),
         NEW acl \in ToSet(Acls(raw)), eni.subnet \in ToSet(acl.associations), Once(Acls(raw), acl), Numbered(acl),
         NEW e \in ToSet(map_network_acl_rules(acl))
  PROVE  [rule_number |-> e.rule_number, direction |-> e.direction, rule |-> e.rule]
           \in EniNode(g, EniKey(eni.id), t).nacl_rules
<1> DEFINE key == EniKey(eni.id)
           subnet == NodeKey("Subnet", eni.subnet)
           near == {s \in Targets(g, "IN_SUBNET", key) : t \in OrNull(TableIds(g, s))}
           acls == UNION {Targets(g, "PROTECTED_BY", s) : s \in near}
           rules == {nacl_rule_from_props(g, k) : k \in UNION {From(g, "HAS_RULE", a) : a \in acls}}
<1>1. EniNode(g, key, t).nacl_rules = rules
  BY DEF EniNode
<1>2. subnet \in near
  <2>1. Targets(g, "IN_SUBNET", key) = {subnet}
    BY OneSubnet
  <2> DEFINE ids == OrNull(TableIds(g, subnet))
  <2>2. UNION {OrNull(TableIds(g, s)) : s \in {subnet}} = ids
    OBVIOUS
  <2>3. ids # {}
    BY DEF OrNull
  <2> HIDE DEF ids
  <2>4. OrNull(ids) = ids
    BY <2>3 DEF OrNull
  <2>5. t \in ids
    BY <2>1, <2>2, <2>4 DEF TablesOf, RowTables
  <2> QED BY <2>1, <2>5 DEF ids
<1>3. NodeKey("NetworkACL", acl.id) \in Targets(g, "PROTECTED_BY", subnet)
  <2> DEFINE m == Edge("PROTECTED_BY", eni.subnet, acl.id)
  <2>1. m.type = "PROTECTED_BY" /\ m.from = eni.subnet /\ m.to = acl.id
    BY DEF Edge
  <2>2. FromAcl(m, raw)
    BY MappedFields DEF FromAcl
  <2> HIDE DEF m
  <2>3. m \in ToSet(build_graph_batch(raw).edges)
    BY <2>2, EdgeOrigins
  <2>4. NodeKey(Ends[m.type][2], m.to) \in Targets(g, m.type, NodeKey(Ends[m.type][1], m.from))
    BY <2>1, <2>3, MembershipKept DEF TopologyTypes
  <2>5. Ends["PROTECTED_BY"] = <<"Subnet", "NetworkACL">>
    BY DEF Ends
  <2> QED BY <2>1, <2>4, <2>5
<1> HIDE DEF key, subnet, near
<1>4. NodeKey("NetworkACL", acl.id) \in acls
  BY <1>2, <1>3
<1> HIDE DEF acls
<1>5. /\ NaclRuleKey(e) \in From(g, "HAS_RULE", NodeKey("NetworkACL", acl.id))
      /\ nacl_rule_from_props(g, NaclRuleKey(e)) =
           [rule_number |-> e.rule_number, direction |-> e.direction, rule |-> e.rule]
  BY AclRuleKept
<1>6. nacl_rule_from_props(g, NaclRuleKey(e)) \in rules
  BY <1>4, <1>5
<1> QED BY <1>1, <1>5, <1>6 DEF key

\* The route table of its subnet is among the tables an interface has rows for.
LEMMA TableKept ==
  ASSUME NEW raw, IsRaw(raw), NEW g, Keeps(g, raw), NEW eni \in ToSet(Enis(raw)),
         NEW table \in ToSet(Tables(raw)), TableOf(eni.subnet, table)
  PROVE  table.id \in TableIds(g, NodeKey("Subnet", eni.subnet)) /\ table.id \in TablesOf(g, eni.id)
<1> DEFINE m == Edge("USES_ROUTE_TABLE", eni.subnet, table.id)
           subnet == NodeKey("Subnet", eni.subnet)
<1>1. m.type = "USES_ROUTE_TABLE" /\ m.from = eni.subnet /\ m.to = table.id
  BY DEF Edge
<1>2. FromTable(m, raw)
  <2>1. PICK i \in DOMAIN table.associations : table.associations[i].subnet = eni.subnet
    BY DEF TableOf
  <2>2. table.associations[i] \in ToSet(table.associations)
    BY <2>1 DEF ToSet
  <2> QED BY <2>1, <2>2, MappedFields DEF FromTable
<1> HIDE DEF m
<1>3. m \in ToSet(build_graph_batch(raw).edges)
  BY <1>2, EdgeOrigins
<1>4. NodeKey(Ends[m.type][2], m.to) \in Targets(g, m.type, NodeKey(Ends[m.type][1], m.from))
  BY <1>1, <1>3, MembershipKept DEF TopologyTypes
<1>5. Ends["USES_ROUTE_TABLE"] = <<"Subnet", "RouteTable">>
  BY DEF Ends
<1>6. NodeKey("RouteTable", table.id) \in Targets(g, "USES_ROUTE_TABLE", subnet)
  BY <1>1, <1>4, <1>5
<1>7. table.id \in TableIds(g, subnet)
  <2>1. NodeKey("RouteTable", table.id)[2] = table.id
    BY DEF NodeKey
  <2> QED BY <1>6, <2>1 DEF TableIds
<1>8. subnet \in Targets(g, "IN_SUBNET", EniKey(eni.id))
  BY SubnetKept
<1> HIDE DEF subnet
<1>9. table.id \in TablesOf(g, eni.id)
  <2> DEFINE ids == UNION {OrNull(TableIds(g, s)) : s \in Targets(g, "IN_SUBNET", EniKey(eni.id))}
  <2>1. table.id \in OrNull(TableIds(g, subnet))
    BY <1>7 DEF OrNull
  <2>2. table.id \in ids
    BY <1>8, <2>1
  <2>3. TablesOf(g, eni.id) = OrNull(ids)
    BY DEF TablesOf, RowTables
  <2> HIDE DEF ids
  <2> QED BY <2>2, <2>3 DEF OrNull
<1> QED BY <1>7, <1>9 DEF subnet
(* Of a single account *)

\* What only one account has written is its own.
LEMMA OwnTargets ==
  ASSUME NEW raw, NEW g, OnlyFrom(g, {raw}), NEW type \in TopologyTypes, NEW l, NEW id,
         NEW t \in Targets(g, type, NodeKey(l, id))
  PROVE  \E e \in ToSet(build_graph_batch(raw).edges) :
           e.type = type /\ e.from = id /\ t = NodeKey(Ends[type][2], e.to)
<1>1. PICK r \in {raw} : \E e \in ToSet(build_graph_batch(r).edges) :
        e.type = type /\ e.from = id /\ t = NodeKey(Ends[type][2], e.to)
  BY TargetSaid
<1> QED BY <1>1

LEMMA OwnGroups ==
  ASSUME NEW raw, IsRaw(raw), NEW g, Keeps(g, raw), OnlyFrom(g, {raw}),
         NEW eni \in ToSet(Enis(raw)), Once(Enis(raw), eni)
  PROVE  Targets(g, "HAS_SG", EniKey(eni.id)) = {SgKey(id) : id \in ToSet(eni.groups)}
<1>1. Ends["HAS_SG"] = <<"ENI", "SecurityGroup">>
  BY DEF Ends
<1>2. \A type, from, to : Edge(type, from, to).type = type /\ Edge(type, from, to).from = from /\ Edge(type, from, to).to = to
  BY DEF Edge
<1>3. ASSUME NEW t \in Targets(g, "HAS_SG", EniKey(eni.id))
      PROVE  t \in {SgKey(id) : id \in ToSet(eni.groups)}
  <2>1. PICK e \in ToSet(build_graph_batch(raw).edges) :
          e.type = "HAS_SG" /\ e.from = eni.id /\ t = NodeKey(Ends["HAS_SG"][2], e.to)
    <3>1. "HAS_SG" \in TopologyTypes /\ t \in Targets(g, "HAS_SG", NodeKey("ENI", eni.id))
      BY <1>3 DEF TopologyTypes, EniKey
    <3> QED BY <3>1, OwnTargets
  <2>2. FromEni(e, raw)
    <3>1. FromEni(e, raw) \/ FromAcl(e, raw) \/ FromTable(e, raw) \/ FromGroup(e, raw)
      BY EdgeOrigins
    <3> QED BY <2>1, <3>1, OriginTypes
  <2>3. PICK item \in ToSet(Enis(raw)) : \E id \in ToSet(item.groups) : e = Edge("HAS_SG", item.id, id)
    <3>1. PICK item \in ToSet(Enis(raw)) : \/ \E id \in ToSet(item.groups) : e = Edge("HAS_SG", item.id, id)
                                           \/ e = Edge("IN_SUBNET", item.id, item.subnet)
      BY <2>2 DEF FromEni
    <3>2. e # Edge("IN_SUBNET", item.id, item.subnet)
      BY <1>2, <2>1
    <3> QED BY <3>1, <3>2
  <2>4. PICK id \in ToSet(item.groups) : e = Edge("HAS_SG", item.id, id)
    BY <2>3
  <2>5. item.id = eni.id /\ e.to = id
    BY <1>2, <2>1, <2>4
  <2>6. item = eni
    BY <2>5 DEF Once
  <2> QED BY <1>1, <2>1, <2>4, <2>5, <2>6 DEF SgKey
<1>4. ASSUME NEW id \in ToSet(eni.groups) PROVE SgKey(id) \in Targets(g, "HAS_SG", EniKey(eni.id))
  <2> DEFINE m == Edge("HAS_SG", eni.id, id)
  <2>1. m.type = "HAS_SG" /\ m.from = eni.id /\ m.to = id
    BY <1>2
  <2>2. FromEni(m, raw)
    BY DEF FromEni
  <2> HIDE DEF m
  <2>3. m \in ToSet(build_graph_batch(raw).edges)
    BY <2>2, EdgeOrigins
  <2>4. NodeKey(Ends[m.type][2], m.to) \in Targets(g, m.type, NodeKey(Ends[m.type][1], m.from))
    BY <2>1, <2>3, MembershipKept DEF TopologyTypes
  <2> QED BY <1>1, <2>1, <2>4 DEF SgKey, EniKey
<1> QED BY <1>3, <1>4

LEMMA OwnRules ==
  ASSUME NEW raw, IsRaw(raw), NEW g, Keeps(g, raw), OnlyFrom(g, {raw}),
         NEW eni \in ToSet(Enis(raw)), Once(Enis(raw), eni), NEW type \in {"ALLOWS_INGRESS", "ALLOWS_EGRESS"},
         NEW rule \in sg_rules(g, Targets(g, "HAS_SG", EniKey(eni.id)), type)
  PROVE  \E e \in ToSet(allows_edges(Groups(raw))) :
           e.type = type /\ e.from \in ToSet(eni.groups) /\ rule = SgRule(e)
<1>1. PICK node \in Targets(g, "HAS_SG", EniKey(eni.id)) : \E k \in From(g, type, node) : rule = sg_rule_from_props(g, k, type)
  BY DEF sg_rules
<1>2. PICK k \in From(g, type, node) : rule = sg_rule_from_props(g, k, type)
  BY <1>1
<1>3. PICK id \in ToSet(eni.groups) : node = SgKey(id)
  BY <1>1, OwnGroups
<1>4. PICK r \in {raw} : \E e \in ToSet(build_graph_batch(r).edges) :
        e.type = type /\ e.from = id /\ sg_rule_from_props(g, k, type) = SgRule(e)
  BY <1>2, <1>3, RuleSaid
<1>5. PICK e \in ToSet(build_graph_batch(raw).edges) :
        e.type = type /\ e.from = id /\ sg_rule_from_props(g, k, type) = SgRule(e)
  BY <1>4
<1>6. FromGroup(e, raw)
  <2>1. FromEni(e, raw) \/ FromAcl(e, raw) \/ FromTable(e, raw) \/ FromGroup(e, raw)
    BY EdgeOrigins
  <2> QED BY <1>5, <2>1, OriginTypes
<1>7. e \in ToSet(allows_edges(Groups(raw)))
  BY <1>6, RawLists, AllowsEdges DEF FromGroup
<1> QED BY <1>2, <1>3, <1>5, <1>7

OneTableIn(raw, subnet) ==
  \A t, u \in ToSet(Tables(raw)) : TableOf(subnet, t) /\ TableOf(subnet, u) => t.id = u.id

IsOne(S) == \E t : S = {t}

\* An interface whose subnet has at most one table has one row.
LEMMA OneRow ==
  ASSUME NEW raw, IsRaw(raw), NEW g, Keeps(g, raw), OnlyFrom(g, {raw}),
         NEW eni \in ToSet(Enis(raw)), Once(Enis(raw), eni), OneTableIn(raw, eni.subnet)
  PROVE  IsOne(TablesOf(g, eni.id))
<1> DEFINE subnet == NodeKey("Subnet", eni.subnet)
           ids == TableIds(g, subnet)
<1>1. Targets(g, "IN_SUBNET", EniKey(eni.id)) = {subnet}
  <2>1. StaysIn({raw}, eni)
    BY DEF StaysIn, Once
  <2> QED BY <2>1, OneSubnet
<1>2. ASSUME NEW x \in ids PROVE \E table \in ToSet(Tables(raw)) : TableOf(eni.subnet, table) /\ table.id = x
  <2>1. PICK rt \in Targets(g, "USES_ROUTE_TABLE", subnet) : x = rt[2]
    BY DEF TableIds
  <2>2. PICK e \in ToSet(build_graph_batch(raw).edges) :
          e.type = "USES_ROUTE_TABLE" /\ e.from = eni.subnet /\ rt = NodeKey(Ends["USES_ROUTE_TABLE"][2], e.to)
    BY <2>1, OwnTargets DEF TopologyTypes
  <2>3. FromTable(e, raw)
    <3>1. FromEni(e, raw) \/ FromAcl(e, raw) \/ FromTable(e, raw) \/ FromGroup(e, raw)
      BY EdgeOrigins
    <3> QED BY <2>2, <3>1, OriginTypes
  <2>4. PICK table \in ToSet(Tables(raw)) :
          \/ \E a \in ToSet(table.associations) : a.subnet # None /\ e = Edge("USES_ROUTE_TABLE", a.subnet, table.id)
          \/ \E route \in ToSet(table.routes) : route.cidr # None /\ e = RouteEdge(table, route, Peerings(raw))
    BY <2>3 DEF FromTable
  <2>5. PICK a \in ToSet(table.associations) : e = Edge("USES_ROUTE_TABLE", a.subnet, table.id)
    <3>1. \A route : RouteEdge(table, route, Peerings(raw)).type = "ROUTES_TO"
      BY DEF RouteEdge
    <3> QED BY <2>2, <2>4, <3>1
  <2>6. e.from = a.subnet /\ e.to = table.id
    BY <2>5 DEF Edge
  <2>7. TableOf(eni.subnet, table)
    BY <2>2, <2>5, <2>6 DEF TableOf, ToSet
  <2>8. x = table.id
    BY <2>1, <2>2, <2>6 DEF NodeKey
  <2> QED BY <2>7, <2>8
<1>3. \A x, y \in ids : x = y
  BY <1>2 DEF OneTableIn
<1> DEFINE row == OrNull(ids)
<1>4. \E t : row = {t}
  BY <1>3 DEF OrNull
<1> HIDE DEF ids
<1>5. UNION {OrNull(TableIds(g, s)) : s \in {subnet}} = row
  BY DEF ids
<1>6. OrNull(row) = row
  BY <1>4 DEF OrNull
<1>7. TablesOf(g, eni.id) = row
  BY <1>1, <1>5, <1>6 DEF TablesOf, RowTables
<1> QED BY <1>4, <1>7 DEF IsOne
-----------------------------------------------------------------------------
(* Routes *)

\* A route over a peering that the response had once, whose other end is in
\* another VPC of this account, leads there.
LEMMA PeeredTarget ==
  ASSUME NEW vpc, NEW route, NEW peerings, IsList(peerings), route.gateway # "local", route.pcx # None,
         NEW p \in ToSet(peerings), p.id = route.pcx, Once(peerings, p),
         NEW near \in ToSet(Sides(p)), NEW far \in ToSet(Sides(p)), ToSet(Sides(p)) = {near, far},
         near.vpc = vpc, far.vpc # vpc, OwnSide(far)
  PROVE  resolve_route_target(vpc, route, peerings).to = far.vpc /\ far.vpc # None
<1> DEFINE N == {q \in ToSet(peerings) : q.id = route.pcx}
           named == Only(peerings, N)
           F == {side \in ToSet(Sides(named[1])) : side.vpc # vpc}
           other == Only(Sides(named[1]), F)
<1>1. ASSUME NEW list, IsList(list), NEW x, ToSet(list) = {x}
      PROVE  list # <<>> /\ list[1] = x /\ Head(list) = x
  <2>1. Len(list) \in Nat /\ DOMAIN list = 1..Len(list) /\ list \in Seq(ToSet(list))
    BY <1>1, ListDomain DEF IsList
  <2>2. Len(list) # 0
    <3>1. \E i \in DOMAIN list : list[i] = x
      BY <1>1 DEF ToSet
    <3> QED BY <2>1, <3>1
  <2>3. 1 \in DOMAIN list
    BY <2>1, <2>2
  <2>4. list[1] \in ToSet(list)
    BY <2>3 DEF ToSet
  <2>5. list # <<>>
    BY <2>1, <2>3
  <2> QED BY <1>1, <2>1, <2>4, <2>5
<1>2. resolve_route_target(vpc, route, peerings) =
        IF (IF route.pcx = None \/ named = <<>> THEN <<>> ELSE other) # <<>>
           /\ OwnSide(Head(IF route.pcx = None \/ named = <<>> THEN <<>> ELSE other))
        THEN Into(Head(IF route.pcx = None \/ named = <<>> THEN <<>> ELSE other).vpc) ELSE Nowhere
  BY DEF resolve_route_target
<1>3. N = {p}
  BY DEF Once
<1> HIDE DEF N
<1>4. IsList(named) /\ ToSet(named) = {p}
  <2>1. IsList(named) /\ ToSet(named) = ToSet(peerings) \cap N
    BY OnlyOf
  <2> HIDE DEF named
  <2> QED BY <1>3, <2>1
<1>5. named # <<>> /\ named[1] = p
  <2> HIDE DEF named
  <2> QED BY <1>1, <1>4
<1> HIDE DEF named
<1>6. F = {far}
  BY <1>5
<1> HIDE DEF F
<1>7. IsList(other) /\ ToSet(other) = {far}
  <2>1. IsList(Sides(p))
    <3>1. IsList(<<p.requester, p.accepter>>)
      BY DEF IsList, ToSet
    <3> QED BY <3>1, PresentOptions DEF Sides
  <2>2. IsList(other) /\ ToSet(other) = ToSet(Sides(p)) \cap F
    BY <1>5, <2>1, OnlyOf
  <2> HIDE DEF other
  <2> QED BY <1>6, <2>2
<1> HIDE DEF other
<1>8. other # <<>> /\ Head(other) = far
  BY <1>1, <1>7
<1>9. resolve_route_target(vpc, route, peerings).to = far.vpc
  BY <1>2, <1>5, <1>8 DEF Into
<1> QED BY <1>9 DEF OwnSide

LEMMA LocalTarget ==
  ASSUME NEW vpc, NEW route, NEW peerings, route.gateway = "local"
  PROVE  resolve_route_target(vpc, route, peerings).to = vpc
BY DEF resolve_route_target, Into

\* A route that leads somewhere is in the graph, with its target as its end.
LEMMA RouteKept ==
  ASSUME NEW raw, IsRaw(raw), NEW g, Keeps(g, raw), NEW table \in ToSet(Tables(raw)),
         NEW route \in ToSet(table.routes), route.cidr # None,
         resolve_route_target(table.vpc, route, Peerings(raw)).to # None
  PROVE  \E k \in DOMAIN g :
           /\ k[1] = "ROUTES_TO" /\ k[2] = NodeKey("RouteTable", table.id)
           /\ k[3] = NodeKey("VPC", resolve_route_target(table.vpc, route, Peerings(raw)).to)
<1> DEFINE e == RouteEdge(table, route, Peerings(raw))
           target == resolve_route_target(table.vpc, route, Peerings(raw)).to
<1>1. e.type = "ROUTES_TO" /\ e.from = table.id /\ e.to = target /\ e.resolved = TRUE
  BY TargetAndMark DEF RouteEdge
<1>2. FromTable(e, raw)
  BY DEF FromTable
<1> HIDE DEF e, target
<1>3. e \in ToSet(build_graph_batch(raw).edges)
  BY <1>2, EdgeOrigins
<1>4. RouteKey(e) \in DOMAIN g
  BY <1>1, <1>3, MappedIsWellFormed, EdgesAreWritten DEF Keeps
<1>5. RouteKey(e) = EdgeKey("ROUTES_TO", NodeKey("RouteTable", table.id), NodeKey("VPC", target), <<e.cidr>>)
  BY <1>1 DEF RouteKey
<1>6. /\ RouteKey(e)[1] = "ROUTES_TO" /\ RouteKey(e)[2] = NodeKey("RouteTable", table.id)
      /\ RouteKey(e)[3] = NodeKey("VPC", target)
  BY <1>5 DEF EdgeKey
<1> QED BY <1>4, <1>6 DEF target
-----------------------------------------------------------------------------
(* The ingestions, one over the other *)

LEMMA OverParts ==
  ASSUME NEW image, NEW content
  PROVE  /\ DOMAIN Over(image, content) = DOMAIN image \cup DOMAIN content
         /\ \A k \in DOMAIN image : Over(image, content)[k] = image[k]
         /\ \A k \in DOMAIN content : k \notin DOMAIN image => Over(image, content)[k] = content[k]
BY DEF Over

Batch(i) == build_graph_batch(Listed[ingested[i].account])
LeftIs(i) ==
  \A k \in DOMAIN LeftBy(i) :
    /\ \E j \in 1..i : Says(Batch(j), k, LeftBy(i)[k])
    /\ EndNodes(k) \subseteq DOMAIN LeftBy(i)

LEMMA IngestIs ==
  ASSUME IngestsInv, NEW i \in DOMAIN ingested
  PROVE  /\ IsRaw(Listed[ingested[i].account]) /\ GroupsThere(Listed[ingested[i].account])
         /\ WellFormed(Batch(i)) /\ ingested[i].upserts \in 1..19
         /\ LeftBy(i) = Over(Written(Batch(i), ingested[i].upserts), LeftBy(i - 1))
<1>1. ingested[i].account \in Account /\ ingested[i].upserts \in 1..19
  BY AllIs DEF IngestsInv
<1>2. IsRaw(Listed[ingested[i].account]) /\ GroupsThere(Listed[ingested[i].account])
  BY <1>1, ListedAssumption
<1>3. WellFormed(Batch(i))
  BY <1>2, MappedIsWellFormed DEF Batch
<1>4. Images[ingested[i].account][ingested[i].upserts] = Written(Batch(i), ingested[i].upserts)
  BY <1>1, AllIs DEF Images, Batch
<1>5. i # 0
  <2>1. DOMAIN ingested = 1..Len(ingested) /\ Len(ingested) \in Nat
    BY ListDomain DEF IngestsInv
  <2> QED BY <2>1
<1>6. LeftBy(i) = ingested[i].left
  BY <1>5 DEF LeftBy
<1> QED BY <1>1, <1>2, <1>3, <1>4, <1>6 DEF IngestsInv

\* What the graph held, and what one more ingestion adds.
LEMMA LeftStep ==
  ASSUME IngestsInv, NEW i \in DOMAIN ingested, LeftIs(i - 1)
  PROVE  LeftIs(i)
<1> DEFINE n == ingested[i].upserts
           image == Written(Batch(i), n)
           before == LeftBy(i - 1)
           after == LeftBy(i)
<1>1. /\ IsRaw(Listed[ingested[i].account]) /\ GroupsThere(Listed[ingested[i].account])
      /\ WellFormed(Batch(i)) /\ n \in 1..19 /\ after = Over(image, before)
  BY IngestIs
<1>2. /\ DOMAIN after = DOMAIN image \cup DOMAIN before
      /\ \A k \in DOMAIN image : after[k] = image[k]
      /\ \A k \in DOMAIN before : k \notin DOMAIN image => after[k] = before[k]
  <2>1. after = Over(image, before)
    BY <1>1
  <2> HIDE DEF image, after, before
  <2>2. /\ DOMAIN Over(image, before) = DOMAIN image \cup DOMAIN before
        /\ \A k \in DOMAIN image : Over(image, before)[k] = image[k]
        /\ \A k \in DOMAIN before : k \notin DOMAIN image => Over(image, before)[k] = before[k]
    BY OverParts
  <2> QED BY <2>1, <2>2
<1>3. i \in Nat /\ i >= 1
  <2>1. DOMAIN ingested = 1..Len(ingested) /\ Len(ingested) \in Nat
    BY ListDomain DEF IngestsInv
  <2> QED BY <2>1
<1>4. ASSUME NEW k \in DOMAIN image
      PROVE  Says(Batch(i), k, image[k]) /\ EndNodes(k) \subseteq DOMAIN image
  <2>1. SaysNode(Batch(i), k, image[k]) \/ (n > 6 /\ SaysEdge(Batch(i), k, image[k]))
    BY <1>1, WrittenSays
  <2> HIDE DEF n, image
  <2>2. CASE SaysNode(Batch(i), k, image[k])
    <3>1. ~IsEdge(k)
      BY <2>2 DEF SaysNode, NodeKey, IsEdge
    <3> QED BY <2>2, <3>1 DEF Says, EndNodes
  <2>3. CASE n > 6 /\ SaysEdge(Batch(i), k, image[k])
    <3>1. PICK e \in ToSet(Batch(i).edges) : RowOf([key |-> k, props |-> image[k]], e)
      BY <2>3 DEF SaysEdge
    <3> DEFINE row == [key |-> k, props |-> image[k]]
    <3>2. row.key = k /\ RowOf(row, e)
      BY <3>1
    <3> HIDE DEF row
    <3>3. IsEdgeKey(k, e.type)
      BY <3>2, RowKeys
    <3>4. ASSUME NEW end \in EndNodes(k) PROVE end \in DOMAIN image
      <4>1. end[1] \in ToSet(Labels) /\ end = NodeKey(end[1], end[2])
        BY <3>3, EdgeKeyParts
      <4>2. end[2] \in Ids(Batch(i), end[1])
        BY <1>1, <3>1, <3>2, EndsAreThere DEF Batch
      <4>3. NodeKey(end[1], end[2]) \in DOMAIN image
        BY <1>1, <2>3, <4>1, <4>2, NodesAreWritten DEF image
      <4> QED BY <4>1, <4>3
    <3> QED BY <2>3, <3>4 DEF Says
  <2> QED BY <2>1, <2>2, <2>3
<1> HIDE DEF image, after, before
<1>5. ASSUME NEW k \in DOMAIN after
      PROVE  (\E j \in 1..i : Says(Batch(j), k, after[k])) /\ EndNodes(k) \subseteq DOMAIN after
  <2>1. CASE k \in DOMAIN image
    <3>1. i \in 1..i
      BY <1>3
    <3> QED BY <1>2, <1>4, <2>1, <3>1
  <2>2. CASE k \notin DOMAIN image
    <3>1. k \in DOMAIN before /\ after[k] = before[k]
      BY <1>2, <2>2
    <3>2. (\E j \in 1..i - 1 : Says(Batch(j), k, before[k])) /\ EndNodes(k) \subseteq DOMAIN before
      BY <3>1 DEF LeftIs, before
    <3>3. 1..i - 1 \subseteq 1..i
      BY <1>3
    <3> QED BY <1>2, <3>1, <3>2, <3>3
  <2> QED BY <2>1, <2>2
<1> QED BY <1>5 DEF LeftIs, after

LEMMA LeftSays ==
  ASSUME IngestsInv, NEW i \in 0..Len(ingested)
  PROVE  LeftIs(i)
<1> DEFINE n == Len(ingested)
           Good == {m \in 1..n : LeftIs(m)}
<1>1. n \in Nat /\ DOMAIN ingested = 1..n
  BY ListDomain DEF IngestsInv
<1>2. LeftIs(0)
  BY DEF LeftIs, LeftBy
<1> HIDE DEF n
<1>3. n > 0 => 1 \in Good
  <2>1. ASSUME n > 0 PROVE LeftIs(1)
    <3>1. 1 \in DOMAIN ingested /\ 1 - 1 = 0
      BY <1>1, <2>1
    <3> QED BY <1>2, <3>1, LeftStep
  <2> QED BY <1>1, <2>1
<1>4. ASSUME NEW m \in 1..n, m < n, m \in Good PROVE m + 1 \in Good
  <2>1. m + 1 \in DOMAIN ingested /\ (m + 1) - 1 = m
    BY <1>1, <1>4
  <2>2. LeftIs(m + 1)
    BY <1>4, <2>1, LeftStep
  <2> QED BY <1>1, <2>1, <2>2
<1> HIDE DEF Good
<1>5. 1..n \subseteq Good
  BY <1>1, <1>3, <1>4, Positions
<1>6. i = 0 \/ i \in 1..n
  BY <1>1 DEF n
<1> QED BY <1>2, <1>5, <1>6 DEF Good

\* Nothing is ever removed.
LEMMA LeftGrows ==
  ASSUME IngestsInv, NEW i \in 0..Len(ingested)
  PROVE  DOMAIN LeftBy(i) \subseteq DOMAIN graph
<1> DEFINE n == Len(ingested)
           Good == {m \in 1..n : i <= m => DOMAIN LeftBy(i) \subseteq DOMAIN LeftBy(m)}
<1>1. n \in Nat /\ DOMAIN ingested = 1..n /\ graph = LeftBy(n)
  BY ListDomain DEF IngestsInv
<1>2. DOMAIN LeftBy(0) = {}
  BY DEF LeftBy
<1>3. ASSUME NEW m \in 1..n PROVE DOMAIN LeftBy(m - 1) \subseteq DOMAIN LeftBy(m)
  <2> DEFINE image == Written(Batch(m), ingested[m].upserts)
  <2>1. LeftBy(m) = Over(image, LeftBy(m - 1))
    BY <1>1, IngestIs
  <2> HIDE DEF image
  <2> QED BY <2>1, OverParts
<1>4. i \in 0..n
  OBVIOUS
<1> HIDE DEF n
<1>5. n > 0 => 1 \in Good
  <2>1. ASSUME n > 0, i <= 1 PROVE DOMAIN LeftBy(i) \subseteq DOMAIN LeftBy(1)
    <3>1. i = 0 \/ i = 1
      BY <1>1, <1>4, <2>1
    <3> QED BY <1>2, <3>1
  <2> QED BY <1>1, <2>1
<1>6. ASSUME NEW m \in 1..n, m < n, m \in Good PROVE m + 1 \in Good
  <2>1. m + 1 \in 1..n /\ (m + 1) - 1 = m
    BY <1>1, <1>6
  <2>2. DOMAIN LeftBy(m) \subseteq DOMAIN LeftBy(m + 1)
    BY <1>3, <2>1
  <2>3. ASSUME i <= m + 1 PROVE DOMAIN LeftBy(i) \subseteq DOMAIN LeftBy(m + 1)
    <3>1. i = m + 1 \/ i <= m
      BY <1>1, <1>4, <2>3
    <3> QED BY <1>6, <2>2, <3>1
  <2> QED BY <2>1, <2>3
<1> HIDE DEF Good
<1>7. 1..n \subseteq Good
  BY <1>1, <1>5, <1>6, Positions
<1>8. CASE n = 0
  BY <1>1, <1>2, <1>4, <1>8
<1>9. CASE n # 0
  <2>1. n \in 1..n /\ i <= n
    BY <1>1, <1>4, <1>9
  <2> QED BY <1>1, <1>7, <2>1 DEF Good
<1> QED BY <1>8, <1>9

\* Of every route that the graph ever had to a VPC, the second query returns
\* the table and the target.
LEMMA TargetsFound ==
  ASSUME IngestsInv, NEW i \in 0..Len(ingested), NEW k \in DOMAIN LeftBy(i), k[1] = "ROUTES_TO", k[3][1] = "VPC"
  PROVE  /\ k[2][2] \in DOMAIN fetch_route_table_targets(graph)
         /\ k[3][2] \in fetch_route_table_targets(graph)[k[2][2]]
<1> DEFINE resolved(rt) == {key \in From(graph, "ROUTES_TO", rt) : graph[key] /\ key[3][1] = "VPC"}
           routed == {rt \in Nodes(graph, "RouteTable") : resolved(rt) # {}}
<1>1. k \in DOMAIN graph
  BY LeftGrows
<1>2. (\E j \in 1..Len(ingested) : Says(Batch(j), k, graph[k])) /\ EndNodes(k) \subseteq DOMAIN graph
  <2>1. Len(ingested) \in Nat /\ graph = LeftBy(Len(ingested))
    BY ListDomain DEF IngestsInv
  <2>2. LeftIs(Len(ingested))
    BY <2>1, LeftSays
  <2> QED BY <1>1, <2>1, <2>2 DEF LeftIs
<1>3. PICK j \in 1..Len(ingested) : Says(Batch(j), k, graph[k])
  BY <1>2
<1>4. IsEdge(k)
  BY <1>3, NodeSaid, LabelSet
<1>5. PICK e \in ToSet(Batch(j).edges) : RowOf([key |-> k, props |-> graph[k]], e) /\ e.type = k[1]
  BY <1>3, <1>4, EdgeSaid
<1>6. k = RouteKey(e) /\ graph[k] = e.resolved
  BY <1>5, RowsByType
<1>7. /\ k[2] = NodeKey("RouteTable", e.from)
      /\ k[3] = IF e.resolved THEN NodeKey("VPC", e.to) ELSE NodeKey("RouteTable", e.from)
  BY <1>6 DEF RouteKey, EdgeKey
<1>8. e.resolved
  <2>1. NodeKey("RouteTable", e.from)[1] # "VPC"
    BY DEF NodeKey
  <2> QED BY <1>7, <2>1
<1>9. k[2][1] = "RouteTable" /\ k[2] = NodeKey("RouteTable", k[2][2]) /\ ~IsEdge(k[2])
  BY <1>7 DEF NodeKey, IsEdge
<1>10. k[2] \in Nodes(graph, "RouteTable")
  <2>1. k[2] \in DOMAIN graph
    BY <1>2, <1>4 DEF EndNodes
  <2> QED BY <1>9, <2>1 DEF Nodes
<1>11. k \in resolved(k[2])
  BY <1>1, <1>4, <1>6, <1>8 DEF From
<1> HIDE DEF resolved
<1>12. k[2] \in routed
  BY <1>10, <1>11
<1> HIDE DEF routed
<1>13. fetch_route_table_targets(graph) =
         [id \in {rt[2] : rt \in routed} |-> {key[3][2] : key \in resolved(NodeKey("RouteTable", id))}]
  BY DEF fetch_route_table_targets, resolved, routed
<1>14. k[2][2] \in {rt[2] : rt \in routed}
  BY <1>12
<1>15. k[3][2] \in {key[3][2] : key \in resolved(NodeKey("RouteTable", k[2][2]))}
  BY <1>9, <1>11
<1> QED BY <1>13, <1>14, <1>15
-----------------------------------------------------------------------------
(* The invariant *)

LEMMA InitAssembly == Init => AssemblyInv
<1> SUFFICES ASSUME Init PROVE AssemblyInv
  OBVIOUS
<1>1. IsList(ingested) /\ Len(ingested) = 0 /\ DOMAIN ingested = {}
  BY DEF Init, IsList
<1>2. LeftBy(0) = << >>
  BY DEF LeftBy
<1>3. IngestsInv
  BY <1>1, <1>2 DEF Init, IngestsInv
<1>4. assembly = [phase |-> "idle", enis |-> {}, targets |-> << >>, after |-> 0]
  BY DEF Init
<1>5. EnisInv /\ TargetsInv
  BY <1>4 DEF EnisInv, TargetsInv, Assembled
<1> QED BY <1>3, <1>4, <1>5 DEF AssemblyInv

\* One more ingestion leaves what the earlier ones left as it was.
LEMMA IngestKeepsAssembly ==
  ASSUME AssemblyInv, NEW a \in Account, NEW n \in 1..All, Ingest(a, n)
  PROVE  AssemblyInv'
<1> DEFINE entry == [account |-> a, upserts |-> n, left |-> graph']
<1>1. ingested' = Append(ingested, entry) /\ assembly' = assembly /\ graph' = Over(Images[a][n], graph)
  BY DEF Ingest
<1>2. IngestsInv /\ IsList(ingested)
  BY DEF AssemblyInv, IngestsInv
<1>3. PICK len \in Nat : len = Len(ingested) /\ DOMAIN ingested = 1..len
  BY <1>2, ListDomain
<1>4. /\ IsList(ingested') /\ Len(ingested') = len + 1
      /\ \A i \in 1..len : ingested'[i] = ingested[i]
      /\ ingested'[len + 1] = entry
  <2> DEFINE S == ToSet(ingested) \cup {entry}
  <2>1. entry \in S
    OBVIOUS
  <2>2. ingested = [i \in 1..len |-> ingested[i]]
    BY <1>2, <1>3, ListDomain
  <2>3. \A i \in 1..len : ingested[i] \in S
    BY <1>3 DEF ToSet
  <2> HIDE DEF S, entry
  <2>4. ingested \in Seq(S)
    BY <2>2, <2>3, ListOf
  <2>5. /\ Append(ingested, entry) \in Seq(S) /\ Len(Append(ingested, entry)) = len + 1
        /\ \A i \in 1..len : Append(ingested, entry)[i] = ingested[i]
        /\ Append(ingested, entry)[len + 1] = entry
    BY <1>3, <2>1, <2>4, AppendProperties
  <2>6. IsList(Append(ingested, entry))
    BY <2>5, SeqIsList
  <2> QED BY <1>1, <2>5, <2>6
<1>5. DOMAIN ingested' = 1..(len + 1)
  BY <1>4, ListDomain
<1>6. entry.account = a /\ entry.upserts = n /\ entry.left = graph'
  OBVIOUS
<1> HIDE DEF entry
<1>7. \A i \in 0..len : LeftBy(i)' = LeftBy(i)
  <2> SUFFICES ASSUME NEW i \in 0..len PROVE LeftBy(i)' = LeftBy(i)
    OBVIOUS
  <2>1. i # 0 => i \in 1..len
    BY <1>3
  <2> QED BY <1>4, <2>1 DEF LeftBy
<1>8. graph = LeftBy(len)
  BY <1>2, <1>3 DEF IngestsInv
<1>9. LeftBy(len + 1)' = graph'
  <2>1. len + 1 # 0
    BY <1>3
  <2> QED BY <1>4, <1>6, <2>1 DEF LeftBy
<1>10. ASSUME NEW i \in 1..(len + 1)
       PROVE  /\ ingested'[i].account \in Account /\ ingested'[i].upserts \in 1..All
              /\ ingested'[i].left = Over(Images[ingested'[i].account][ingested'[i].upserts], LeftBy(i - 1)')
  <2>1. CASE i = len + 1
    <3>1. i - 1 = len /\ len \in 0..len
      BY <1>3, <2>1
    <3>2. LeftBy(i - 1)' = graph
      BY <1>7, <1>8, <3>1
    <3> QED BY <1>1, <1>4, <1>6, <2>1, <3>2
  <2>2. CASE i # len + 1
    <3>1. i \in 1..len /\ i - 1 \in 0..len
      BY <1>3, <2>2
    <3>2. LeftBy(i - 1)' = LeftBy(i - 1) /\ ingested'[i] = ingested[i]
      BY <1>4, <1>7, <3>1
    <3> QED BY <1>2, <1>3, <3>1, <3>2 DEF IngestsInv
  <2> QED BY <2>1, <2>2
<1>11. IngestsInv'
  BY <1>4, <1>5, <1>9, <1>10 DEF IngestsInv
<1>12. assembly.phase \in {"enis", "done"} =>
         /\ assembly.after \in 1..len /\ assembly.enis = fetch_enis(LeftBy(assembly.after))
         /\ LeftBy(assembly.after)' = LeftBy(assembly.after)
  <2> SUFFICES ASSUME assembly.phase \in {"enis", "done"}
               PROVE  /\ assembly.after \in 1..len /\ assembly.enis = fetch_enis(LeftBy(assembly.after))
                      /\ LeftBy(assembly.after)' = LeftBy(assembly.after)
    OBVIOUS
  <2>1. assembly.after \in 1..len /\ assembly.enis = fetch_enis(LeftBy(assembly.after))
    BY <1>3 DEF AssemblyInv, EnisInv
  <2>2. assembly.after \in 0..len
    BY <1>3, <2>1
  <2>3. \A i : i = assembly.after => LeftBy(i)' = LeftBy(i)
    BY <1>7, <2>2
  <2> QED BY <1>1, <2>1, <2>3 DEF LeftBy
<1>13. EnisInv'
  <2>1. assembly'.phase \in {"enis", "done"} =>
          /\ assembly'.after \in 1..(len + 1)
          /\ assembly'.enis = fetch_enis(LeftBy(assembly.after)')
    BY <1>1, <1>3, <1>12
  <2> QED BY <1>1, <1>5, <2>1 DEF EnisInv
<1>14. TargetsInv'
  <2>1. Assembled => assembly.phase \in {"enis", "done"}
    BY DEF Assembled
  <2>2. TargetsInv
    BY DEF AssemblyInv
  <2>3. Assembled' = Assembled
    BY <1>1 DEF Assembled
  <2> QED BY <1>1, <1>12, <2>1, <2>2, <2>3 DEF TargetsInv
<1> QED BY <1>1, <1>11, <1>13, <1>14 DEF AssemblyInv

LEMMA FetchEnisKeepsAssembly ==
  ASSUME AssemblyInv, FetchEnis PROVE AssemblyInv'
<1>1. /\ assembly' = [phase |-> "enis", enis |-> fetch_enis(graph), targets |-> << >>, after |-> Len(ingested)]
      /\ graph' = graph /\ ingested' = ingested
  BY DEF FetchEnis
<1>2. IngestsInv' /\ graph = LeftBy(Len(ingested))
  BY <1>1 DEF AssemblyInv, IngestsInv, LeftBy
<1>3. Len(ingested) \in DOMAIN ingested
  <2>1. Len(ingested) \in Nat /\ DOMAIN ingested = 1..Len(ingested)
    BY ListDomain DEF AssemblyInv, IngestsInv
  <2>2. DOMAIN ingested # {}
    BY DEF FetchEnis
  <2> QED BY <2>1, <2>2
<1>4. assembly'.after = Len(ingested) /\ assembly'.enis = fetch_enis(graph) /\ assembly'.phase = "enis"
  BY <1>1
<1>5. LeftBy(assembly.after)' = LeftBy(Len(ingested))
  BY <1>1, <1>4 DEF LeftBy
<1>6. EnisInv' /\ TargetsInv'
  BY <1>1, <1>2, <1>3, <1>4, <1>5 DEF EnisInv, TargetsInv, Assembled
<1> QED BY <1>1, <1>2, <1>6 DEF AssemblyInv

LEMMA FetchTargetsKeepsAssembly ==
  ASSUME AssemblyInv, FetchTargets PROVE AssemblyInv'
<1>1. /\ DOMAIN assembly' = {"phase", "enis", "targets", "after"} /\ assembly'.phase = "done"
      /\ assembly'.targets = fetch_route_table_targets(graph)
      /\ assembly'.enis = assembly.enis /\ assembly'.after = assembly.after
      /\ graph' = graph /\ ingested' = ingested
  BY DEF FetchTargets, AssemblyInv
<1>2. IngestsInv /\ IngestsInv'
  BY <1>1 DEF AssemblyInv, IngestsInv, LeftBy
<1>3. assembly.after \in DOMAIN ingested /\ assembly.enis = fetch_enis(LeftBy(assembly.after))
  BY DEF FetchTargets, AssemblyInv, EnisInv
<1>4. LeftBy(assembly.after)' = LeftBy(assembly.after)
  BY <1>1 DEF LeftBy
<1>5. EnisInv'
  BY <1>1, <1>3, <1>4 DEF EnisInv
<1>6. assembly.after \in 0..Len(ingested)
  <2>1. Len(ingested) \in Nat /\ DOMAIN ingested = 1..Len(ingested)
    BY <1>2, ListDomain DEF IngestsInv
  <2> QED BY <1>3, <2>1
<1>7. ASSUME NEW k \in DOMAIN LeftBy(assembly.after), k[1] = "ROUTES_TO", k[3][1] = "VPC"
      PROVE  k[2][2] \in DOMAIN assembly'.targets /\ k[3][2] \in assembly'.targets[k[2][2]]
  BY <1>1, <1>2, <1>6, <1>7, TargetsFound
<1>8. TargetsInv'
  BY <1>4, <1>7 DEF TargetsInv
<1> QED BY <1>1, <1>2, <1>5, <1>8 DEF AssemblyInv

LEMMA StutterKeepsAssembly ==
  ASSUME AssemblyInv, UNCHANGED <<graph, ingested>>,
         assembly' = assembly \/ assembly' = [phase |-> "failed", enis |-> {}, targets |-> << >>, after |-> 0]
  PROVE  AssemblyInv'
<1>1. graph' = graph /\ ingested' = ingested
  OBVIOUS
<1>2. IngestsInv'
  BY <1>1 DEF AssemblyInv, IngestsInv, LeftBy
<1>3. CASE assembly' = assembly
  BY <1>1, <1>2, <1>3 DEF AssemblyInv, EnisInv, TargetsInv, Assembled, LeftBy
<1>4. CASE assembly' = [phase |-> "failed", enis |-> {}, targets |-> << >>, after |-> 0]
  BY <1>2, <1>4 DEF AssemblyInv, EnisInv, TargetsInv, Assembled
<1> QED BY <1>3, <1>4

\* The graph is what the ingestions left, one over the other; the rows of the
\* first query are the graph's as it was then, and every route of that graph is
\* in the answer of the second, whatever was written in between.
THEOREM AssemblyCorrect == Spec => []AssemblyInv
<1>1. Init => AssemblyInv
  BY InitAssembly
<1>2. AssemblyInv /\ [Next]_vars => AssemblyInv'
  <2> SUFFICES ASSUME AssemblyInv, [Next]_vars PROVE AssemblyInv'
    OBVIOUS
  <2>1. ASSUME NEW a \in Account, NEW n \in 1..All, Ingest(a, n) PROVE AssemblyInv'
    BY <2>1, IngestKeepsAssembly
  <2>2. CASE FetchEnis
    BY <2>2, FetchEnisKeepsAssembly
  <2>3. CASE FetchTargets
    BY <2>3, FetchTargetsKeepsAssembly
  <2>4. CASE QueryFails
    BY <2>4, StutterKeepsAssembly DEF QueryFails
  <2>5. CASE UNCHANGED vars
    BY <2>5, StutterKeepsAssembly DEF vars
  <2> QED BY <2>1, <2>2, <2>3, <2>4, <2>5 DEF Next
<1> QED BY <1>1, <1>2, PTL DEF Spec
-----------------------------------------------------------------------------
(* The graph and the rows behind the candidates *)

\* Everything that was listed up to the first query.
Seen == {Listed[ingested[j].account] : j \in 1..assembly.after}
Then == LeftBy(assembly.after)

LEMMA AssembledFrom ==
  ASSUME AssemblyInv, Fresh
  PROVE  /\ IsRaw(Now) /\ Now \in Seen /\ \A raw \in Seen : IsRaw(raw)
         /\ Keeps(Then, Now) /\ OnlyFrom(Then, Seen)
         /\ assembly.enis = fetch_enis(Then)
<1>1. /\ IngestsInv /\ assembly.after \in DOMAIN ingested /\ assembly.enis = fetch_enis(Then)
      /\ ingested[assembly.after].upserts = All
  BY DEF AssemblyInv, Fresh, Assembled, EnisInv, Then
<1>2. PICK i \in DOMAIN ingested : i = assembly.after
  BY <1>1
<1>3. i \in 1..i /\ i \in 0..Len(ingested) /\ 1..i \subseteq DOMAIN ingested
  <2>1. Len(ingested) \in Nat /\ DOMAIN ingested = 1..Len(ingested)
    BY <1>1, ListDomain DEF IngestsInv
  <2> QED BY <2>1
<1>4. /\ IsRaw(Now) /\ WellFormed(build_graph_batch(Now))
      /\ Then = Over(Written(build_graph_batch(Now), All), LeftBy(i - 1))
  BY <1>1, <1>2, IngestIs DEF Now, Then, Batch
<1>5. Now \in Seen
  BY <1>2, <1>3 DEF Now, Seen
<1>6. \A raw \in Seen : IsRaw(raw)
  BY <1>1, <1>2, <1>3, IngestIs DEF Seen
<1>7. Keeps(Then, Now)
  <2> DEFINE batch == build_graph_batch(Now)
             image == Written(batch, All)
             before == LeftBy(i - 1)
  <2>1. /\ DOMAIN image \subseteq DOMAIN Over(image, before)
        /\ \A k \in DOMAIN image : Over(image, before)[k] = image[k]
    <3> HIDE DEF image, before
    <3> QED BY OverParts
  <2>2. \A k \in DOMAIN image : Says(batch, k, image[k])
    <3>1. All \in 1..19 /\ All = 19
      BY AllIs
    <3>2. ASSUME NEW k \in DOMAIN image PROVE SaysNode(batch, k, image[k]) \/ SaysEdge(batch, k, image[k])
      <4> HIDE DEF batch
      <4> QED BY <1>4, <3>1, <3>2, WrittenSays DEF batch
    <3> QED BY <3>2 DEF Says
  <2>3. Then = Over(image, before)
    BY <1>4
  <2> HIDE DEF image, before, batch
  <2>4. \A k \in DOMAIN image : k \in DOMAIN Then /\ Says(batch, k, Then[k])
    BY <2>1, <2>2, <2>3
  <2> QED BY <2>4 DEF Keeps, image, batch
<1>8. OnlyFrom(Then, Seen)
  <2>1. LeftIs(i) /\ Then = LeftBy(i)
    BY <1>1, <1>2, <1>3, LeftSays DEF Then
  <2>2. ASSUME NEW k \in DOMAIN Then PROVE \E raw \in Seen : Says(build_graph_batch(raw), k, Then[k])
    <3>1. PICK j \in 1..i : Says(Batch(j), k, Then[k])
      BY <2>1, <2>2 DEF LeftIs
    <3>2. Listed[ingested[j].account] \in Seen
      BY <1>2 DEF Seen
    <3> QED BY <3>1, <3>2 DEF Batch
  <2> QED BY <2>2 DEF OnlyFrom
<1> QED BY <1>1, <1>4, <1>5, <1>6, <1>7, <1>8

\* The row of an interface with a table.
Row(item, t) == EniNode(Then, EniKey(item.id), t)

LEMMA RowParts ==
  ASSUME NEW item, NEW t
  PROVE  /\ Row(item, t).security_group_ids = {node[2] : node \in Targets(Then, "HAS_SG", EniKey(item.id))}
         /\ Row(item, t).egress_rules = sg_rules(Then, Targets(Then, "HAS_SG", EniKey(item.id)), "ALLOWS_EGRESS")
         /\ Row(item, t).ingress_rules = sg_rules(Then, Targets(Then, "HAS_SG", EniKey(item.id)), "ALLOWS_INGRESS")
         /\ Row(item, t).route_table_id = t
BY DEF Row, EniNode

LEMMA CandidateParts ==
  ASSUME NEW enis, NEW targets, NEW a \in Sources(enis), NEW b \in Destinations(enis)
  PROVE  LET c == assemble_candidates(enis, targets)[<<a, b>>] IN
         /\ c.source.security_group_rules = a.egress_rules /\ c.source.nacl_rules = a.nacl_rules
         /\ c.source.peer_security_group_ids = a.security_group_ids
         /\ c.destination.security_group_rules = b.ingress_rules /\ c.destination.nacl_rules = b.nacl_rules
         /\ c.destination.peer_security_group_ids = b.security_group_ids
         /\ c.route_exists = route_exists(a, b, targets)
BY DEF assemble_candidates, source_endpoint, destination_endpoint, endpoint

\* A source and a destination of the account have a pair for every two tables,
\* and no other.
LEMMA PairsAre ==
  ASSUME AssemblyInv, Fresh, NEW s \in NowSources, NEW d \in NowDestinations
  PROVE  /\ \A t \in TablesOf(Then, s.id), u \in TablesOf(Then, d.id) :
              /\ Row(s, t) \in Sources(assembly.enis) /\ Row(d, u) \in Destinations(assembly.enis)
              /\ <<Row(s, t), Row(d, u)>> \in Pairs(s, d)
         /\ \A pair \in Pairs(s, d) : \E t \in TablesOf(Then, s.id), u \in TablesOf(Then, d.id) :
              pair = <<Row(s, t), Row(d, u)>>
<1>1. /\ s \in ToSet(Enis(Now)) /\ Once(Enis(Now), s) /\ s.vpc \notin VpcIds /\ s.private_ip \in Address
      /\ d \in ToSet(Enis(Now)) /\ Once(Enis(Now), d) /\ d.vpc \in VpcIds
  BY DEF NowSources, NowDestinations, NowEnis
<1>2. /\ IsRaw(Now) /\ Keeps(Then, Now) /\ OnlyFrom(Then, Seen) /\ assembly.enis = fetch_enis(Then)
  BY AssembledFrom
<1>3. ASSUME NEW item \in ToSet(Enis(Now)), Once(Enis(Now), item), NEW t \in TablesOf(Then, item.id)
      PROVE  /\ Row(item, t) \in fetch_enis(Then) /\ Row(item, t).id = item.id
             /\ Row(item, t).vpc_id = item.vpc /\ Row(item, t).private_ip = item.private_ip
  BY <1>2, <1>3, RowsOfEni DEF Row
<1>4. DOMAIN candidates = Sources(assembly.enis) \X Destinations(assembly.enis)
  BY DEF candidates, assemble_candidates
<1>5. ASSUME NEW t \in TablesOf(Then, s.id), NEW u \in TablesOf(Then, d.id)
      PROVE  /\ Row(s, t) \in Sources(assembly.enis) /\ Row(d, u) \in Destinations(assembly.enis)
             /\ <<Row(s, t), Row(d, u)>> \in Pairs(s, d)
  <2>1. /\ Row(s, t) \in fetch_enis(Then) /\ Row(s, t).id = s.id
        /\ Row(s, t).vpc_id = s.vpc /\ Row(s, t).private_ip = s.private_ip
    BY <1>1, <1>3
  <2>2. Row(d, u) \in fetch_enis(Then) /\ Row(d, u).id = d.id /\ Row(d, u).vpc_id = d.vpc
    BY <1>1, <1>3
  <2>3. Row(s, t) \in Sources(assembly.enis)
    BY <1>1, <1>2, <2>1 DEF Sources, Destinations
  <2>4. Row(d, u) \in Destinations(assembly.enis)
    BY <1>1, <1>2, <2>2 DEF Destinations
  <2> QED BY <1>4, <2>1, <2>2, <2>3, <2>4 DEF Pairs
<1>6. ASSUME NEW pair \in Pairs(s, d)
      PROVE  \E t \in TablesOf(Then, s.id), u \in TablesOf(Then, d.id) : pair = <<Row(s, t), Row(d, u)>>
  <2>1. PICK a \in Sources(assembly.enis), b \in Destinations(assembly.enis) : pair = <<a, b>>
    BY <1>4 DEF Pairs
  <2>2. a.id = s.id /\ b.id = d.id
    BY <2>1 DEF Pairs
  <2>3. a \in fetch_enis(Then) /\ b \in fetch_enis(Then)
    BY <1>2 DEF Sources, Destinations
  <2>4. PICK t \in TablesOf(Then, s.id) : a = EniNode(Then, EniKey(s.id), t)
    BY <1>2, <2>2, <2>3, RowsAreOfEnis
  <2>5. PICK u \in TablesOf(Then, d.id) : b = EniNode(Then, EniKey(d.id), u)
    BY <1>2, <2>2, <2>3, RowsAreOfEnis
  <2> QED BY <2>1, <2>4, <2>5 DEF Row
<1> QED BY <1>5, <1>6
-----------------------------------------------------------------------------
(* What the candidates have *)

LEMMA NowRulesKept ==
  ASSUME AssemblyInv, Fresh, NEW eni \in ToSet(Enis(Now)), NEW type \in {"ALLOWS_INGRESS", "ALLOWS_EGRESS"}
  PROVE  NowSgRules(eni, type) \subseteq sg_rules(Then, Targets(Then, "HAS_SG", EniKey(eni.id)), type)
<1> SUFFICES ASSUME NEW rule \in NowSgRules(eni, type)
             PROVE  rule \in sg_rules(Then, Targets(Then, "HAS_SG", EniKey(eni.id)), type)
  OBVIOUS
<1>1. PICK e \in ToSet(allows_edges(Groups(Now))) :
        /\ e.type = type /\ e.from \in ToSet(eni.groups)
        /\ rule = [direction |-> type, match |-> e.match, kind |-> e.kind, to |-> e.to, resolved |-> e.resolved]
  BY DEF NowSgRules
<1>2. rule = SgRule(e)
  BY <1>1 DEF SgRule
<1>3. IsRaw(Now) /\ Keeps(Then, Now)
  BY AssembledFrom
<1> QED BY <1>1, <1>2, <1>3, RulesKept

LEMMA NowAclRulesKept ==
  ASSUME AssemblyInv, Fresh, NEW eni \in ToSet(Enis(Now)), NeverMoved(eni), NEW t \in TablesOf(Then, eni.id)
  PROVE  NowAclRules(eni) \subseteq Row(eni, t).nacl_rules
<1> SUFFICES ASSUME NEW rule \in NowAclRules(eni)
             PROVE  rule \in Row(eni, t).nacl_rules
  OBVIOUS
<1>1. PICK acl \in AclsOf(eni) : \E e \in ToSet(map_network_acl_rules(acl)) :
        rule = [rule_number |-> e.rule_number, direction |-> e.direction, rule |-> e.rule]
  BY DEF NowAclRules
<1>2. PICK e \in ToSet(map_network_acl_rules(acl)) :
        rule = [rule_number |-> e.rule_number, direction |-> e.direction, rule |-> e.rule]
  BY <1>1
<1>3. /\ acl \in ToSet(Acls(Now)) /\ eni.subnet \in ToSet(acl.associations)
      /\ Once(Acls(Now), acl) /\ Numbered(acl)
  BY <1>1 DEF AclsOf
<1>4. IsRaw(Now) /\ Keeps(Then, Now) /\ OnlyFrom(Then, Seen) /\ \A raw \in Seen : IsRaw(raw)
  BY AssembledFrom
<1>5. StaysIn(Seen, eni)
  BY <1>4 DEF StaysIn, NeverMoved, Seen
<1> QED BY <1>2, <1>3, <1>4, <1>5, AclRulesKept DEF Row

LEMMA AssemblyForgetsNothing == AssemblyInv => NothingForgotten
<1> SUFFICES ASSUME AssemblyInv, Fresh, NEW s \in NowSources, NEW d \in NowDestinations
             PROVE  /\ Pairs(s, d) # {}
                    /\ \A pair \in Pairs(s, d) :
                         LET c == candidates[pair] IN
                         /\ NowSgRules(s, "ALLOWS_EGRESS") \subseteq c.source.security_group_rules
                         /\ NowSgRules(d, "ALLOWS_INGRESS") \subseteq c.destination.security_group_rules
                         /\ NeverMoved(s) => NowAclRules(s) \subseteq c.source.nacl_rules
                         /\ NeverMoved(d) => NowAclRules(d) \subseteq c.destination.nacl_rules
  BY DEF NothingForgotten
<1>1. s \in ToSet(Enis(Now)) /\ d \in ToSet(Enis(Now))
  BY DEF NowSources, NowDestinations, NowEnis
<1>2. Pairs(s, d) # {}
  <2>1. PICK t \in TablesOf(Then, s.id) : TRUE
    BY SomeTable
  <2>2. PICK u \in TablesOf(Then, d.id) : TRUE
    BY SomeTable
  <2> QED BY <2>1, <2>2, PairsAre
<1>3. ASSUME NEW pair \in Pairs(s, d)
      PROVE  LET c == candidates[pair] IN
             /\ NowSgRules(s, "ALLOWS_EGRESS") \subseteq c.source.security_group_rules
             /\ NowSgRules(d, "ALLOWS_INGRESS") \subseteq c.destination.security_group_rules
             /\ NeverMoved(s) => NowAclRules(s) \subseteq c.source.nacl_rules
             /\ NeverMoved(d) => NowAclRules(d) \subseteq c.destination.nacl_rules
  <2>1. PICK t \in TablesOf(Then, s.id), u \in TablesOf(Then, d.id) : pair = <<Row(s, t), Row(d, u)>>
    BY PairsAre
  <2>2. Row(s, t) \in Sources(assembly.enis) /\ Row(d, u) \in Destinations(assembly.enis)
    BY PairsAre
  <2>3. /\ candidates[pair].source.security_group_rules = Row(s, t).egress_rules
        /\ candidates[pair].destination.security_group_rules = Row(d, u).ingress_rules
        /\ candidates[pair].source.nacl_rules = Row(s, t).nacl_rules
        /\ candidates[pair].destination.nacl_rules = Row(d, u).nacl_rules
    BY <2>1, <2>2, CandidateParts DEF candidates
  <2>4. NowSgRules(s, "ALLOWS_EGRESS") \subseteq Row(s, t).egress_rules
    BY <1>1, NowRulesKept, RowParts
  <2>5. NowSgRules(d, "ALLOWS_INGRESS") \subseteq Row(d, u).ingress_rules
    BY <1>1, NowRulesKept, RowParts
  <2>6. NeverMoved(s) => NowAclRules(s) \subseteq Row(s, t).nacl_rules
    BY <1>1, NowAclRulesKept
  <2>7. NeverMoved(d) => NowAclRules(d) \subseteq Row(d, u).nacl_rules
    BY <1>1, NowAclRulesKept
  <2> QED BY <2>3, <2>4, <2>5, <2>6, <2>7
<1> QED BY <1>2, <1>3

\* In a graph that one account wrote, an interface has the account's groups and
\* rules, and with one table one row.
LEMMA OwnRow ==
  ASSUME AssemblyInv, Fresh, \A i \in 1..assembly.after : ingested[i].account = ingested[assembly.after].account,
         NEW eni \in NowEnis, OneTable(eni.subnet)
  PROVE  /\ \E t : TablesOf(Then, eni.id) = {t}
         /\ \A t : /\ Row(eni, t).security_group_ids = ToSet(eni.groups)
                   /\ Row(eni, t).egress_rules = NowSgRules(eni, "ALLOWS_EGRESS")
                   /\ Row(eni, t).ingress_rules = NowSgRules(eni, "ALLOWS_INGRESS")
<1>1. eni \in ToSet(Enis(Now)) /\ Once(Enis(Now), eni)
  BY DEF NowEnis
<1>2. IsRaw(Now) /\ Keeps(Then, Now) /\ OnlyFrom(Then, Seen) /\ Now \in Seen
  BY AssembledFrom
<1>3. OnlyFrom(Then, {Now})
  <2>1. Seen \subseteq {Now}
    BY DEF Seen, Now
  <2> QED BY <1>2, <2>1 DEF OnlyFrom
<1>4. \E t : TablesOf(Then, eni.id) = {t}
  <2> DEFINE raw == Now
             g == Then
  <2>1. OneTableIn(raw, eni.subnet)
    BY DEF OneTable, OneTableIn
  <2>2. /\ eni \in ToSet(Enis(raw)) /\ Once(Enis(raw), eni)
        /\ IsRaw(raw) /\ Keeps(g, raw) /\ OnlyFrom(g, {raw})
    BY <1>1, <1>2, <1>3
  <2> HIDE DEF raw, g
  <2>3. IsOne(TablesOf(g, eni.id))
    BY <2>1, <2>2, OneRow
  <2> QED BY <2>3 DEF g, IsOne
<1>5. ASSUME NEW type \in {"ALLOWS_INGRESS", "ALLOWS_EGRESS"}
      PROVE  sg_rules(Then, Targets(Then, "HAS_SG", EniKey(eni.id)), type) = NowSgRules(eni, type)
  <2>1. ASSUME NEW rule \in sg_rules(Then, Targets(Then, "HAS_SG", EniKey(eni.id)), type)
        PROVE  rule \in NowSgRules(eni, type)
    <3>1. PICK e \in ToSet(allows_edges(Groups(Now))) :
            e.type = type /\ e.from \in ToSet(eni.groups) /\ rule = SgRule(e)
      <4> DEFINE raw == Now
                 g == Then
      <4>1. /\ eni \in ToSet(Enis(raw)) /\ Once(Enis(raw), eni)
            /\ IsRaw(raw) /\ Keeps(g, raw) /\ OnlyFrom(g, {raw})
        BY <1>1, <1>2, <1>3
      <4>2. rule \in sg_rules(g, Targets(g, "HAS_SG", EniKey(eni.id)), type)
        BY <2>1
      <4> HIDE DEF raw, g
      <4>3. \E e \in ToSet(allows_edges(Groups(raw))) :
              e.type = type /\ e.from \in ToSet(eni.groups) /\ rule = SgRule(e)
        BY <4>1, <4>2, OwnRules
      <4> QED BY <4>3 DEF raw
    <3>2. rule = [direction |-> type, match |-> e.match, kind |-> e.kind, to |-> e.to, resolved |-> e.resolved]
      BY <3>1 DEF SgRule
    <3> QED BY <3>1, <3>2 DEF NowSgRules
  <2> QED BY <1>1, <2>1, NowRulesKept
<1>6. {node[2] : node \in Targets(Then, "HAS_SG", EniKey(eni.id))} = ToSet(eni.groups)
  <2>1. Targets(Then, "HAS_SG", EniKey(eni.id)) = {SgKey(id) : id \in ToSet(eni.groups)}
    BY <1>1, <1>2, <1>3, OwnGroups
  <2>2. \A id : SgKey(id)[2] = id
    BY DEF SgKey, NodeKey
  <2> QED BY <2>1, <2>2
<1> QED BY <1>4, <1>5, <1>6, RowParts

LEMMA AssemblyIsExact == AssemblyInv => FirstAccountIsExact
<1> SUFFICES ASSUME AssemblyInv, Fresh,
                    \A i \in 1..assembly.after : ingested[i].account = ingested[assembly.after].account,
                    NEW s \in NowSources, NEW d \in NowDestinations, OneTable(s.subnet), OneTable(d.subnet)
             PROVE  \E pair \in Pairs(s, d) :
                      LET c == candidates[pair] IN
                      /\ Pairs(s, d) = {pair}
                      /\ c.source.security_group_rules = NowSgRules(s, "ALLOWS_EGRESS")
                      /\ c.destination.security_group_rules = NowSgRules(d, "ALLOWS_INGRESS")
                      /\ c.source.peer_security_group_ids = ToSet(s.groups)
                      /\ c.destination.peer_security_group_ids = ToSet(d.groups)
  BY DEF FirstAccountIsExact
<1>1. s \in NowEnis /\ d \in NowEnis
  BY DEF NowSources, NowDestinations
<1>2. PICK t : TablesOf(Then, s.id) = {t}
  BY <1>1, OwnRow
<1>3. PICK u : TablesOf(Then, d.id) = {u}
  BY <1>1, OwnRow
<1>4. /\ Row(s, t).security_group_ids = ToSet(s.groups) /\ Row(d, u).security_group_ids = ToSet(d.groups)
      /\ Row(s, t).egress_rules = NowSgRules(s, "ALLOWS_EGRESS")
      /\ Row(d, u).ingress_rules = NowSgRules(d, "ALLOWS_INGRESS")
  BY <1>1, OwnRow
<1>5. /\ Row(s, t) \in Sources(assembly.enis) /\ Row(d, u) \in Destinations(assembly.enis)
      /\ <<Row(s, t), Row(d, u)>> \in Pairs(s, d)
  BY <1>2, <1>3, PairsAre
<1>6. Pairs(s, d) = {<<Row(s, t), Row(d, u)>>}
  BY <1>2, <1>3, <1>5, PairsAre
<1>7. LET c == candidates[<<Row(s, t), Row(d, u)>>] IN
      /\ c.source.security_group_rules = Row(s, t).egress_rules
      /\ c.destination.security_group_rules = Row(d, u).ingress_rules
      /\ c.source.peer_security_group_ids = Row(s, t).security_group_ids
      /\ c.destination.peer_security_group_ids = Row(d, u).security_group_ids
  BY <1>5, CandidateParts DEF candidates
<1> QED BY <1>4, <1>5, <1>6, <1>7

\* A route of the account with a target is in the answer of the second query.
LEMMA RouteFound ==
  ASSUME AssemblyInv, Fresh, NEW table \in ToSet(Tables(Now)), NEW route \in ToSet(table.routes), route.cidr # None,
         NEW target, target = resolve_route_target(table.vpc, route, Peerings(Now)).to, target # None
  PROVE  table.id \in DOMAIN assembly.targets /\ target \in assembly.targets[table.id]
<1>1. IsRaw(Now) /\ Keeps(Then, Now)
  BY AssembledFrom
<1>2. PICK k \in DOMAIN Then :
        k[1] = "ROUTES_TO" /\ k[2] = NodeKey("RouteTable", table.id) /\ k[3] = NodeKey("VPC", target)
  BY <1>1, RouteKept
<1>3. k[2][2] = table.id /\ k[3][1] = "VPC" /\ k[3][2] = target
  BY <1>2 DEF NodeKey
<1> QED BY <1>2, <1>3 DEF AssemblyInv, TargetsInv, Fresh, Then

LEMMA AssemblyRoutes == AssemblyInv => PeeredSubnetsAreRouted
<1> SUFFICES ASSUME AssemblyInv, Fresh, NEW s \in NowSources, NEW d \in NowDestinations,
                    NEW t \in ToSet(Tables(Now)), NEW u \in ToSet(Tables(Now)),
                    TableOf(s.subnet, t), t.vpc = s.vpc, RoutesInto(t, d.vpc),
                    TableOf(d.subnet, u), HasLocal(u)
             PROVE  \E pair \in Pairs(s, d) : candidates[pair].route_exists
  BY DEF PeeredSubnetsAreRouted
<1>1. s \in ToSet(Enis(Now)) /\ d \in ToSet(Enis(Now)) /\ s.vpc \notin VpcIds /\ d.vpc \in VpcIds
  BY DEF NowSources, NowDestinations, NowEnis
<1>2. IsRaw(Now) /\ Keeps(Then, Now) /\ IsList(Peerings(Now))
  <2>1. IsRaw(Now) /\ Keeps(Then, Now)
    BY AssembledFrom
  <2> QED BY <2>1, RawLists
<1>3. t.id \in TablesOf(Then, s.id) /\ u.id \in TablesOf(Then, d.id)
  BY <1>1, <1>2, TableKept
<1>4. t.id \in DOMAIN assembly.targets /\ d.vpc \in assembly.targets[t.id]
  <2>1. PICK r \in ToSet(t.routes), p \in ToSet(Peerings(Now)) :
          /\ r.cidr # None /\ r.gateway # "local" /\ r.pcx # None /\ r.pcx = p.id /\ Once(Peerings(Now), p)
          /\ \E near, far \in ToSet(Sides(p)) :
               ToSet(Sides(p)) = {near, far} /\ near.vpc = t.vpc /\ far.vpc = d.vpc /\ OwnSide(far)
    BY DEF RoutesInto
  <2>2. PICK near \in ToSet(Sides(p)), far \in ToSet(Sides(p)) :
          ToSet(Sides(p)) = {near, far} /\ near.vpc = t.vpc /\ far.vpc = d.vpc /\ OwnSide(far)
    BY <2>1
  <2>3. far.vpc # t.vpc
    BY <1>1, <2>2
  <2>4. resolve_route_target(t.vpc, r, Peerings(Now)).to = far.vpc /\ far.vpc # None
    BY <1>2, <2>1, <2>2, <2>3, PeeredTarget
  <2> QED BY <2>1, <2>2, <2>4, RouteFound
<1>5. u.id \in DOMAIN assembly.targets
  <2>1. PICK r \in ToSet(u.routes) : r.cidr # None /\ r.gateway = "local"
    BY DEF HasLocal
  <2>2. resolve_route_target(u.vpc, r, Peerings(Now)).to = u.vpc /\ u.vpc # None
    BY <1>2, <2>1, LocalTarget, MappedFields
  <2> QED BY <2>1, <2>2, RouteFound
<1>6. /\ Row(s, t.id) \in Sources(assembly.enis) /\ Row(d, u.id) \in Destinations(assembly.enis)
      /\ <<Row(s, t.id), Row(d, u.id)>> \in Pairs(s, d)
  BY <1>3, PairsAre
<1>7. Row(s, t.id).route_table_id = t.id /\ Row(d, u.id).route_table_id = u.id /\ Row(d, u.id).vpc_id = d.vpc
  <2>1. Once(Enis(Now), d)
    BY DEF NowDestinations, NowEnis
  <2>2. Row(d, u.id).vpc_id = d.vpc
    BY <1>1, <1>2, <1>3, <2>1, RowsOfEni DEF Row
  <2> QED BY <2>2, RowParts
<1>8. route_exists(Row(s, t.id), Row(d, u.id), assembly.targets)
  BY <1>4, <1>5, <1>7 DEF route_exists
<1>9. candidates[<<Row(s, t.id), Row(d, u.id)>>].route_exists
  BY <1>6, <1>8, CandidateParts DEF candidates
<1> QED BY <1>6, <1>9

\* Every source and every destination of the account that was just ingested
\* have a candidate with all of the account's rules, whatever the graph
\* remembers of earlier ingestions, complete or not.
THEOREM NothingIsForgotten == Spec => []NothingForgotten
BY AssemblyCorrect, AssemblyForgetsNothing, PTL

\* In a graph that has only seen one account, a candidate has its rules and no
\* others.
THEOREM FirstAccountExact == Spec => []FirstAccountIsExact
BY AssemblyCorrect, AssemblyIsExact, PTL

\* A peering that the account routes over is a route of the candidate.
THEOREM PeeringsAreRoutes == Spec => []PeeredSubnetsAreRouted
BY AssemblyCorrect, AssemblyRoutes, PTL
=============================================================================
