--------------------------- MODULE PipelineProofs ---------------------------
(***************************************************************************)
(* Proofs about an ingestion, for every state of the account and every     *)
(* history of it: GraphWriter leaves a batch's rows in the database, in    *)
(* whatever part and order it got to write them, and what Ingest hands it  *)
(* is what was read.  An invariant of the writer says how far it has come  *)
(* and what of the database is its work; one of Ingest says the same of    *)
(* the collectors, and ties the batch to what they have returned.          *)
(***************************************************************************)
EXTENDS Ingest, MappingProofs

-----------------------------------------------------------------------------
(* The batch that is written *)

LEMMA PlanUpserts ==
  ASSUME NEW b \in Batch
  PROVE  /\ Len(Plan[b]) = 19 /\ DOMAIN Plan[b] = 1..19
         /\ \A u \in 1..6 : Plan[b][u] = node_rows(Content[b], Labels[u])
         /\ \A u \in 7..19 : Plan[b][u] = EdgeUpserts(Content[b])[u - 6]
<1>1. Plan[b] = write_batch(Content[b])
  BY DEF Plan
<1> QED BY <1>1, WriteUpserts

LEMMA PlanRows ==
  ASSUME NEW b \in Batch
  PROVE  /\ \A u \in 1..6 :
              /\ IsList(Plan[b][u]) /\ DOMAIN Plan[b][u] = DOMAIN Content[b].nodes[Labels[u]]
              /\ \A i \in DOMAIN Plan[b][u] :
                   Plan[b][u][i].key = NodeKey(Labels[u], Content[b].nodes[Labels[u]][i].id)
         /\ \A u \in 7..19 : EdgeRows(Plan[b][u], EdgeTypes[u - 6])
<1>1. Plan[b] = write_batch(Content[b]) /\ WellFormed(Content[b])
  BY WellFormedAssumption DEF Plan
<1> QED BY <1>1, WriteRows

LEMMA PlanRowsOfEdges ==
  ASSUME NEW b \in Batch, NEW u \in 7..19, NEW i \in DOMAIN Plan[b][u]
  PROVE  \E e \in ToSet(Content[b].edges) : RowOf(Plan[b][u][i], e)
<1>1. Plan[b] = write_batch(Content[b]) /\ WellFormed(Content[b])
  BY WellFormedAssumption DEF Plan
<1> QED BY <1>1, RowsAreOfEdges

\* What has a row: every node, and every relationship without properties.
LEMMA NodesHaveKeys ==
  ASSUME NEW b \in Batch, NEW label \in ToSet(Labels), NEW id \in Ids(Content[b], label)
  PROVE  NodeKey(label, id) \in Keys(b)
<1>1. PICK u \in 1..6 : Labels[u] = label
  BY LabelSet DEF ToSet
<1>2. PICK i \in DOMAIN Content[b].nodes[Labels[u]] : Content[b].nodes[Labels[u]][i].id = id
  BY <1>1 DEF Ids
<1>3. i \in DOMAIN Plan[b][u] /\ Plan[b][u][i].key = NodeKey(Labels[u], Content[b].nodes[Labels[u]][i].id)
  BY <1>2, PlanRows
<1>4. u \in DOMAIN Plan[b]
  BY PlanUpserts
<1> QED BY <1>1, <1>2, <1>3, <1>4 DEF Keys

LEMMA MembershipsHaveKeys ==
  ASSUME NEW b \in Batch, NEW e \in ToSet(Content[b].edges), e.type \in TopologyTypes
  PROVE  TopologyKey(e) \in Keys(b)
<1> DEFINE batch == Content[b]
<1>1. WellFormed(batch) /\ DOMAIN Plan[b] = 1..19 /\ \A u \in 7..19 : Plan[b][u] = EdgeUpserts(batch)[u - 6]
  BY WellFormedAssumption, PlanUpserts
<1>2. /\ Plan[b][7] = topology_rows(batch, "HAS_SG") /\ Plan[b][8] = topology_rows(batch, "IN_SUBNET")
      /\ Plan[b][9] = topology_rows(batch, "PROTECTED_BY")
      /\ Plan[b][10] = topology_rows(batch, "USES_ROUTE_TABLE")
      /\ 7 \in DOMAIN Plan[b] /\ 8 \in DOMAIN Plan[b] /\ 9 \in DOMAIN Plan[b] /\ 10 \in DOMAIN Plan[b]
  BY <1>1 DEF EdgeUpserts
<1> HIDE DEF batch
<1> DEFINE type == e.type
<1> HIDE DEF type
<1>3. PICK u \in DOMAIN Plan[b] : Plan[b][u] = topology_rows(batch, type)
  BY <1>2 DEF TopologyTypes, type
<1>4. \E i \in DOMAIN Plan[b][u] : Plan[b][u][i].key = TopologyKey(e)
  <2>1. e \in ToSet(batch.edges) /\ e.type = type /\ type \in TopologyTypes
    BY DEF batch, type
  <2>2. \E i \in DOMAIN topology_rows(batch, type) : topology_rows(batch, type)[i].key = TopologyKey(e)
    BY <1>1, <2>1, TopologyRows
  <2> QED BY <1>3, <2>2
<1> QED BY <1>3, <1>4 DEF Keys

LEMMA PlanIsLists ==
  \A b \in Batch :
    /\ Len(Plan[b]) \in Nat \ {0} /\ DOMAIN Plan[b] = 1..Len(Plan[b])
    /\ \A u \in DOMAIN Plan[b] :
         Len(Plan[b][u]) \in Nat /\ DOMAIN Plan[b][u] = 1..Len(Plan[b][u])
<1> SUFFICES ASSUME NEW b \in Batch
             PROVE  /\ Len(Plan[b]) \in Nat \ {0} /\ DOMAIN Plan[b] = 1..Len(Plan[b])
                    /\ \A u \in DOMAIN Plan[b] :
                         Len(Plan[b][u]) \in Nat /\ DOMAIN Plan[b][u] = 1..Len(Plan[b][u])
  OBVIOUS
<1>1. Len(Plan[b]) = 19 /\ DOMAIN Plan[b] = 1..19
  BY PlanUpserts
<1>2. ASSUME NEW u \in 1..19 PROVE IsList(Plan[b][u])
  <2>1. u \in 1..6 \/ u \in 7..19
    OBVIOUS
  <2> QED BY <2>1, PlanRows DEF EdgeRows
<1>3. ASSUME NEW u \in 1..19
      PROVE  Len(Plan[b][u]) \in Nat /\ DOMAIN Plan[b][u] = 1..Len(Plan[b][u])
  BY <1>2, ListDomain
<1> QED BY <1>1, <1>3

-----------------------------------------------------------------------------
(* One statement *)

\* A chunk is the next rows of its upsert, at least one of them.
LEMMA ChunkIsNext ==
  ASSUME TypeOK, writer.batch # None, writer.sent < Len(Rows)
  PROVE  LET chunk == chunk_rows(Rows, writer.sent) IN
         /\ Len(chunk) \in Nat \ {0} /\ DOMAIN chunk = 1..Len(chunk)
         /\ writer.sent + Len(chunk) <= Len(Rows)
         /\ \A i \in DOMAIN chunk : chunk[i] = Rows[writer.sent + i]
<1> DEFINE last == IF writer.sent + BATCH_SIZE <= Len(Rows) THEN writer.sent + BATCH_SIZE ELSE Len(Rows)
           S == {Rows[i] : i \in 1..Len(Rows)}
<1>1. Len(Rows) \in Nat /\ DOMAIN Rows = 1..Len(Rows) /\ writer.sent \in Nat /\ BATCH_SIZE \in Nat \ {0}
  BY BatchSizeAssumption, BatchAssumption, PlanIsLists DEF TypeOK, Rows, Upserts
<1>2. last \in Nat /\ writer.sent < last /\ last <= Len(Rows)
  BY <1>1
<1>3. chunk_rows(Rows, writer.sent) = SubSeq(Rows, writer.sent + 1, last)
  BY DEF chunk_rows
<1>4. \A i \in (writer.sent + 1)..last : Rows[i] \in S
  BY <1>1, <1>2
<1> HIDE DEF last, S
<1>5. /\ SubSeq(Rows, writer.sent + 1, last) \in Seq(S)
      /\ Len(SubSeq(Rows, writer.sent + 1, last)) = last - writer.sent
      /\ \A i \in 1..(last - writer.sent) :
           SubSeq(Rows, writer.sent + 1, last)[i] = Rows[writer.sent + i]
  <2>1. writer.sent + 1 \in Int /\ last \in Int /\ writer.sent + 1 <= last
    BY <1>1, <1>2
  <2>2. /\ SubSeq(Rows, writer.sent + 1, last) \in Seq(S)
        /\ Len(SubSeq(Rows, writer.sent + 1, last)) =
             IF writer.sent + 1 <= last THEN last - (writer.sent + 1) + 1 ELSE 0
        /\ \A i \in 1..(last - (writer.sent + 1) + 1) :
             SubSeq(Rows, writer.sent + 1, last)[i] = Rows[(writer.sent + 1) + i - 1]
    BY <2>1, <1>4, SubSeqProperties
  <2>3. last - (writer.sent + 1) + 1 = last - writer.sent
    BY <1>1, <1>2
  <2>4. ASSUME NEW i \in 1..(last - writer.sent)
        PROVE  SubSeq(Rows, writer.sent + 1, last)[i] = Rows[writer.sent + i]
    <3>1. (writer.sent + 1) + i - 1 = writer.sent + i
      BY <1>1
    <3> QED BY <2>2, <2>3, <3>1
  <2> QED BY <2>1, <2>2, <2>3, <2>4
<1>6. DOMAIN SubSeq(Rows, writer.sent + 1, last) = 1..(last - writer.sent)
  BY <1>5
<1>7. last - writer.sent \in Nat \ {0} /\ writer.sent + (last - writer.sent) <= Len(Rows)
  BY <1>1, <1>2
<1> QED BY <1>3, <1>5, <1>6, <1>7

BoundRows(chunk) == {i \in DOMAIN chunk : Bound(chunk[i])}

\* MERGE adds the keys of the rows whose ends it finds and leaves every other
\* key alone; for a key, the last such row counts.
LEMMA MergeEffect ==
  ASSUME NEW chunk, Len(chunk) \in Nat, DOMAIN chunk = 1..Len(chunk)
  PROVE  /\ Merged(chunk) = [k \in DOMAIN Merged(chunk) |-> Merged(chunk)[k]]
         /\ DOMAIN Merged(chunk) = DOMAIN graph \cup {chunk[i].key : i \in BoundRows(chunk)}
         /\ \A k \in DOMAIN graph :
              (\A i \in BoundRows(chunk) : chunk[i].key # k) => Merged(chunk)[k] = graph[k]
         /\ \A i \in BoundRows(chunk) :
              (\A j \in BoundRows(chunk) : chunk[j].key = chunk[i].key => j <= i)
              => Merged(chunk)[chunk[i].key] = chunk[i].props
<1> DEFINE rows(k) == {i \in DOMAIN chunk : chunk[i].key = k /\ Bound(chunk[i])}
           keys == {chunk[i].key : i \in {j \in DOMAIN chunk : Bound(chunk[j])}}
           bound == BoundRows(chunk)
<1>1. Merged(chunk) =
        [k \in DOMAIN graph \cup keys |-> IF k \in keys THEN chunk[Max(rows(k))].props ELSE graph[k]]
  BY DEF Merged
<1>2. ASSUME NEW i \in bound, \A j \in bound : chunk[j].key = chunk[i].key => j <= i
      PROVE  Merged(chunk)[chunk[i].key] = chunk[i].props
  <2>1. rows(chunk[i].key) \subseteq Nat /\ i \in rows(chunk[i].key)
    BY DEF BoundRows
  <2>2. \A j \in rows(chunk[i].key) : j <= i
    BY <1>2 DEF BoundRows
  <2>3. Max(rows(chunk[i].key)) = i
    <3> HIDE DEF rows
    <3> QED BY <2>1, <2>2, MaxIs
  <2>4. chunk[i].key \in keys
    BY DEF BoundRows
  <2> HIDE DEF rows, keys
  <2> QED BY <1>1, <2>3, <2>4
<1>3. \A k \in DOMAIN graph : (\A i \in bound : chunk[i].key # k) => k \notin keys
  BY DEF BoundRows
<1>4. keys = {chunk[i].key : i \in bound}
  BY DEF BoundRows
<1> HIDE DEF rows, keys
<1>5. /\ Merged(chunk) = [k \in DOMAIN Merged(chunk) |-> Merged(chunk)[k]]
      /\ DOMAIN Merged(chunk) = DOMAIN graph \cup keys
      /\ \A k \in DOMAIN graph : k \notin keys => Merged(chunk)[k] = graph[k]
  BY <1>1
<1> QED BY <1>2, <1>3, <1>4, <1>5

\* The rows a statement takes are rows of its batch.
LEMMA ChunkKeys ==
  ASSUME TypeOK, writer.batch # None, writer.sent < Len(Rows),
         NEW i \in DOMAIN chunk_rows(Rows, writer.sent)
  PROVE  chunk_rows(Rows, writer.sent)[i].key \in Keys(writer.batch)
<1> DEFINE chunk == chunk_rows(Rows, writer.sent)
           j == writer.sent + i
<1>1. /\ Len(chunk) \in Nat \ {0} /\ DOMAIN chunk = 1..Len(chunk)
      /\ writer.sent + Len(chunk) <= Len(Rows)
      /\ i \in 1..Len(chunk) /\ chunk[i] = Rows[j]
  BY ChunkIsNext
<1>2. /\ writer.batch \in Batch /\ writer.upsert \in 1..Len(Upserts) /\ writer.sent \in Nat
      /\ DOMAIN Upserts = 1..Len(Upserts) /\ Len(Rows) \in Nat /\ DOMAIN Rows = 1..Len(Rows)
  BY BatchAssumption, PlanIsLists DEF TypeOK, Rows, Upserts
<1> HIDE DEF chunk
<1>3. j \in DOMAIN Rows /\ writer.upsert \in DOMAIN Upserts
  BY <1>1, <1>2
<1>4. chunk[i].key = Plan[writer.batch][writer.upsert][j].key
  BY <1>1 DEF Rows, Upserts
<1>5. Plan[writer.batch][writer.upsert][j].key \in Keys(writer.batch)
  BY <1>3 DEF Keys, Rows, Upserts
<1> QED BY <1>4, <1>5 DEF chunk

\* No statement makes a relationship whose ends are not there.
LEMMA MergeKeepsEnds ==
  ASSUME NEW chunk, Len(chunk) \in Nat, DOMAIN chunk = 1..Len(chunk),
         \A k \in DOMAIN graph : EndNodes(k) \subseteq DOMAIN graph
  PROVE  \A k \in DOMAIN Merged(chunk) : EndNodes(k) \subseteq DOMAIN Merged(chunk)
<1> DEFINE bound == BoundRows(chunk)
<1>1. DOMAIN Merged(chunk) = DOMAIN graph \cup {chunk[i].key : i \in bound}
  BY MergeEffect
<1>2. \A i \in bound : EndNodes(chunk[i].key) \subseteq DOMAIN graph
  BY DEF Bound, BoundRows
<1> QED BY <1>1, <1>2

-----------------------------------------------------------------------------
(* Types *)

\* Where the writer stands in its batch, while it does and afterwards.
LEMMA WriterPlace ==
  ASSUME TypeOK, writer.batch # None
  PROVE  /\ writer.batch \in Batch
         /\ Len(Upserts) \in Nat \ {0} /\ DOMAIN Upserts = 1..Len(Upserts)
         /\ \A u \in DOMAIN Upserts : Len(Upserts[u]) \in Nat /\ DOMAIN Upserts[u] = 1..Len(Upserts[u])
         /\ writer.upsert \in DOMAIN Upserts /\ writer.upsert \in Nat
         /\ Len(Rows) \in Nat /\ DOMAIN Rows = 1..Len(Rows) /\ writer.sent \in 0..Len(Rows)
BY BatchAssumption, PlanIsLists DEF TypeOK, Rows, Upserts

LEMMA InitTypeOK == Init => TypeOK
BY DEF Init, TypeOK, Results

LEMMA NextTypeOK == TypeOK /\ [Next]_vars => TypeOK'
<1> SUFFICES ASSUME TypeOK, [Next]_vars PROVE TypeOK'
  OBVIOUS
<1> DEFINE Writer == [running : BOOLEAN, batch : Batch \cup {None}, upsert : Nat, sent : Nat, result : Results]
           Closed == \A k \in DOMAIN graph : EndNodes(k) \subseteq DOMAIN graph
<1>1. CASE UNCHANGED vars
  BY <1>1 DEF vars, TypeOK, Upserts, Rows
<1>2. ASSUME NEW batch \in Batch, BeginWrite(batch) PROVE TypeOK'
  <2>1. writer' \in Writer /\ writer'.batch # None /\ UNCHANGED graph
    BY <1>2, BatchAssumption DEF BeginWrite, Results
  <2>2. writer'.upsert \in 1..Len(Plan[batch]) /\ writer'.sent \in 0..Len(Plan[batch][writer'.upsert])
    BY <1>2, PlanIsLists DEF BeginWrite
  <2>3. Plan[writer'.batch] = Plan[batch]
    BY <1>2 DEF BeginWrite
  <2> QED BY <2>1, <2>2, <2>3 DEF TypeOK, Upserts, Rows
\* The call ends where it is: what Answer leaves of the type.
<1>3. ASSUME writer.running, NEW result \in Results, Answer(result), Closed'
      PROVE  TypeOK'
  <2>1. /\ writer' \in Writer /\ writer'.batch = writer.batch /\ ~writer'.running
        /\ writer'.upsert = writer.upsert /\ writer'.sent = writer.sent
    BY <1>3 DEF Answer, TypeOK
  <2> QED BY <1>3, <2>1 DEF TypeOK, Upserts, Rows
<1>4. Closed /\ (writer.running => writer.batch # None)
  BY DEF TypeOK
<1>5. CASE RunChunk
  <2> DEFINE chunk == chunk_rows(Rows, writer.sent)
  <2>1. /\ Len(chunk) \in Nat \ {0} /\ DOMAIN chunk = 1..Len(chunk)
        /\ writer.sent + Len(chunk) <= Len(Rows)
    BY <1>4, <1>5, ChunkIsNext DEF RunChunk
  <2>2. Closed'
    <3>1. graph' = Merged(chunk)
      BY <1>5 DEF RunChunk
    <3> HIDE DEF chunk
    <3>2. \A k \in DOMAIN Merged(chunk) : EndNodes(k) \subseteq DOMAIN Merged(chunk)
      BY <1>4, <2>1, MergeKeepsEnds
    <3> QED BY <3>1, <3>2
  <2>3. CASE AllMerged(chunk)
    <3>1. writer' = [writer EXCEPT !.sent = @ + Len(chunk)]
      BY <1>5, <2>3 DEF RunChunk
    <3> HIDE DEF chunk
    <3>2. /\ writer' \in Writer /\ writer'.batch = writer.batch /\ writer'.upsert = writer.upsert
          /\ writer'.sent = writer.sent + Len(chunk)
      BY <2>1, <3>1 DEF TypeOK
    <3>3. writer'.sent \in 0..Len(Rows) /\ writer.batch # None
      BY <1>4, <1>5, <2>1, <3>2, WriterPlace DEF RunChunk
    <3> QED BY <2>2, <3>2, <3>3 DEF TypeOK, Upserts, Rows
  <2>4. CASE ~AllMerged(chunk)
    <3>1. writer.running /\ Answer("unresolved_endpoint")
      BY <1>5, <2>4 DEF RunChunk
    <3> QED BY <1>3, <2>2, <3>1 DEF Results
  <2> QED BY <2>3, <2>4
<1>6. CASE NextUpsert
  <2>1. UNCHANGED graph /\ Closed' /\ writer.running
    BY <1>4, <1>6 DEF NextUpsert
  <2>2. CASE writer.upsert < Len(Upserts)
    <3>1. /\ writer' \in Writer /\ writer'.batch = writer.batch
          /\ writer'.upsert = writer.upsert + 1 /\ writer'.sent = 0
      <4>1. writer' = [writer EXCEPT !.upsert = @ + 1, !.sent = 0]
        BY <1>6, <2>2 DEF NextUpsert
      <4>2. writer \in Writer
        BY DEF TypeOK
      <4>3. writer.upsert + 1 \in Nat
        BY <4>2
      <4> QED BY <4>1, <4>2, <4>3
    <3>2. writer'.upsert \in DOMAIN Upserts /\ DOMAIN Upserts = 1..Len(Upserts)
      BY <1>4, <2>1, <2>2, <3>1, WriterPlace
    <3>3. Len(Upserts[writer'.upsert]) \in Nat
      BY <1>4, <2>1, <3>2, WriterPlace
    <3>4. 0 \in 0..Len(Upserts[writer'.upsert])
      BY <3>3
    <3> QED BY <1>4, <2>1, <3>1, <3>2, <3>4 DEF TypeOK, Upserts, Rows
  <2>3. CASE ~ (writer.upsert < Len(Upserts))
    <3>1. Answer("ok")
      BY <1>6, <2>3 DEF NextUpsert
    <3> QED BY <1>3, <2>1, <3>1 DEF Results
  <2> QED BY <2>2, <2>3
<1>7. CASE RefuseRoutes
  <2>1. writer.running /\ Answer("inconsistent") /\ UNCHANGED graph
    BY <1>7 DEF RefuseRoutes
  <2> QED BY <1>3, <1>4, <2>1 DEF Results
<1>8. CASE DriverFails
  <2> DEFINE chunk == chunk_rows(Rows, writer.sent)
  <2>1. Len(chunk) \in Nat \ {0} /\ DOMAIN chunk = 1..Len(chunk)
    BY <1>4, <1>8, ChunkIsNext DEF DriverFails
  <2>2. writer.running /\ Answer("driver") /\ graph' \in {graph, Merged(chunk)}
    BY <1>8 DEF DriverFails
  <2> HIDE DEF chunk
  <2>3. \A k \in DOMAIN Merged(chunk) : EndNodes(k) \subseteq DOMAIN Merged(chunk)
    BY <1>4, <2>1, MergeKeepsEnds
  <2>4. Closed'
    BY <1>4, <2>2, <2>3
  <2> QED BY <1>3, <2>2, <2>4 DEF Results
<1>9. CASE Crash
  <2>1. writer.running /\ Answer("none") /\ UNCHANGED graph
    BY <1>9 DEF Crash
  <2> QED BY <1>3, <1>4, <2>1 DEF Results
<1> QED BY <1>1, <1>2, <1>5, <1>6, <1>7, <1>8, <1>9 DEF Next, Step

\* Type correctness of the writer for any batches, and that no relationship of
\* the graph ever lacks one of its ends, whatever failed in between
\* (neo4j.rs: every edge statement MATCHes its ends before it MERGEs).
THEOREM WriterTypeOK == Spec => []TypeOK
BY InitTypeOK, NextTypeOK, PTL DEF Spec

-----------------------------------------------------------------------------
(* What the graph holds *)

\* The image of a batch gives a key the properties of a row that no other row
\* of that key comes after.
LEMMA ImageIsLast ==
  ASSUME NEW b \in Batch, NEW k \in Keys(b)
  PROVE  \E u \in DOMAIN Plan[b] : \E i \in DOMAIN Plan[b][u] :
           /\ Plan[b][u][i].key = k /\ Image[b][k] = Plan[b][u][i].props
           /\ \A v \in DOMAIN Plan[b] : \A j \in DOMAIN Plan[b][v] :
                Plan[b][v][j].key = k => v <= u /\ (v = u => j <= i)
<1> DEFINE U == {u \in DOMAIN Plan[b] : RowsOf(b, u, k) # {}}
           u == LastUpsert(b, k)
           R == RowsOf(b, u, k)
           i == Max(R)
<1>1. /\ DOMAIN Plan[b] = 1..Len(Plan[b]) /\ Len(Plan[b]) \in Nat
      /\ \A v \in DOMAIN Plan[b] : Len(Plan[b][v]) \in Nat /\ DOMAIN Plan[b][v] = 1..Len(Plan[b][v])
  BY PlanIsLists
<1>2. PICK w \in DOMAIN Plan[b] : \E j \in DOMAIN Plan[b][w] : Plan[b][w][j].key = k
  BY DEF Keys
<1>3. U \subseteq 1..Len(Plan[b]) /\ U # {}
  <2>1. w \in U
    BY <1>2 DEF RowsOf
  <2> QED BY <1>1, <2>1
<1>4. Max(U) \in U /\ \A v \in U : Max(U) >= v
  <2> HIDE DEF U
  <2> QED BY <1>1, <1>3, MaxIsGreatest
<1>5. u = Max(U)
  BY DEF LastUpsert
<1>6. u \in DOMAIN Plan[b] /\ R # {} /\ \A v \in U : v <= u
  <2> HIDE DEF u
  <2>1. u \in U
    BY <1>4, <1>5
  <2>2. u \in DOMAIN Plan[b] /\ R # {}
    BY <2>1
  <2>3. ASSUME NEW v \in U PROVE v <= u
    <3>1. v \in Nat /\ u \in Nat /\ Max(U) >= v
      <4> HIDE DEF U
      <4>1. U \subseteq Nat
        BY <1>1, <1>3
      <4> QED BY <1>4, <2>1, <4>1
    <3> QED BY <1>5, <3>1
  <2> QED BY <2>2, <2>3
<1>7. R \subseteq 1..Len(Plan[b][u]) /\ Len(Plan[b][u]) \in Nat
  BY <1>1, <1>6 DEF RowsOf
<1>8. i \in R /\ \A j \in R : i >= j
  <2> HIDE DEF R, u
  <2> QED BY <1>6, <1>7, MaxIsGreatest
<1>9. i \in DOMAIN Plan[b][u] /\ Plan[b][u][i].key = k
  BY <1>8 DEF RowsOf
<1>10. Image[b][k] = Plan[b][u][i].props
  BY DEF Image, LastRow
<1>11. ASSUME NEW v \in DOMAIN Plan[b], NEW j \in DOMAIN Plan[b][v], Plan[b][v][j].key = k
       PROVE  v <= u /\ (v = u => j <= i)
  <2>1. j \in RowsOf(b, v, k) /\ v \in U
    BY <1>11 DEF RowsOf
  <2>2. v <= u
    BY <1>6, <2>1
  <2>3. ASSUME v = u PROVE j <= i
    <3>1. j \in R /\ j \in Nat /\ i \in Nat
      BY <1>7, <1>8, <2>1, <2>3
    <3>2. i >= j
      BY <1>8, <3>1
    <3> HIDE DEF i
    <3> QED BY <3>1, <3>2
  <2> QED BY <2>2, <2>3
<1> HIDE DEF u, i
<1> QED BY <1>6, <1>9, <1>10, <1>11

LEMMA ImageKeys == ASSUME NEW b \in Batch PROVE DOMAIN Image[b] = Keys(b)
BY DEF Image

\* A statement touches the keys of its batch only.
LEMMA MergeIsContained ==
  ASSUME TypeOK, FailureIsContained, writer.batch # None,
         NEW chunk, Len(chunk) \in Nat, DOMAIN chunk = 1..Len(chunk),
         \A i \in DOMAIN chunk : chunk[i].key \in Keys(writer.batch)
  PROVE  /\ DOMAIN before \subseteq DOMAIN Merged(chunk)
         /\ \A k \in DOMAIN Merged(chunk) \ DOMAIN Image[writer.batch] :
               k \in DOMAIN before /\ Merged(chunk)[k] = before[k]
<1>1. /\ DOMAIN Merged(chunk) = DOMAIN graph \cup {chunk[i].key : i \in BoundRows(chunk)}
      /\ \A k \in DOMAIN graph :
           (\A i \in BoundRows(chunk) : chunk[i].key # k) => Merged(chunk)[k] = graph[k]
  BY MergeEffect
<1>2. \A i \in BoundRows(chunk) : chunk[i].key \in DOMAIN Image[writer.batch]
  BY ImageKeys, WriterPlace DEF BoundRows
<1>3. /\ DOMAIN before \subseteq DOMAIN graph
      /\ \A k \in DOMAIN graph \ DOMAIN Image[writer.batch] : k \in DOMAIN before /\ graph[k] = before[k]
  BY DEF FailureIsContained
<1> QED BY <1>1, <1>2, <1>3

\* After a whole chunk the last of the rows sent is what the graph holds.
LEMMA SentStep ==
  ASSUME TypeOK, SentRowsHold, writer.running, writer.batch # None, writer.sent < Len(Rows),
         NEW chunk, Len(chunk) \in Nat \ {0}, DOMAIN chunk = 1..Len(chunk),
         writer.sent + Len(chunk) <= Len(Rows),
         \A i \in DOMAIN chunk : chunk[i] = Rows[writer.sent + i],
         AllMerged(chunk), graph' = Merged(chunk),
         writer' = [writer EXCEPT !.sent = @ + Len(chunk)]
  PROVE  SentRowsHold'
<1>1. /\ Len(chunk) \in Nat \ {0} /\ DOMAIN chunk = 1..Len(chunk)
      /\ writer.sent + Len(chunk) <= Len(Rows)
      /\ \A i \in DOMAIN chunk : chunk[i] = Rows[writer.sent + i]
  OBVIOUS
<1>2. BoundRows(chunk) = DOMAIN chunk
  BY DEF AllMerged, BoundRows
<1>3. /\ DOMAIN Merged(chunk) = DOMAIN graph \cup {chunk[i].key : i \in DOMAIN chunk}
      /\ \A k \in DOMAIN graph :
           (\A i \in DOMAIN chunk : chunk[i].key # k) => Merged(chunk)[k] = graph[k]
      /\ \A i \in DOMAIN chunk : (\A j \in DOMAIN chunk : chunk[j].key = chunk[i].key => j <= i)
           => Merged(chunk)[chunk[i].key] = chunk[i].props
  <2>1. /\ DOMAIN Merged(chunk) = DOMAIN graph \cup {chunk[i].key : i \in BoundRows(chunk)}
        /\ \A k \in DOMAIN graph :
             (\A i \in BoundRows(chunk) : chunk[i].key # k) => Merged(chunk)[k] = graph[k]
        /\ \A i \in BoundRows(chunk) :
             (\A j \in BoundRows(chunk) : chunk[j].key = chunk[i].key => j <= i)
             => Merged(chunk)[chunk[i].key] = chunk[i].props
    <3>1. Len(chunk) \in Nat
      BY <1>1
    <3> QED BY <3>1, MergeEffect
  <2> QED BY <1>2, <2>1
<1>4. /\ writer.upsert \in DOMAIN Upserts /\ writer.upsert \in Nat /\ writer.sent \in Nat
      /\ DOMAIN Upserts \subseteq Nat /\ \A u \in DOMAIN Upserts : DOMAIN Upserts[u] \subseteq Nat
      /\ Len(Rows) \in Nat /\ DOMAIN Rows = 1..Len(Rows) /\ Rows = Upserts[writer.upsert]
  BY WriterPlace DEF Rows
<1>5. /\ writer'.batch = writer.batch /\ writer'.upsert = writer.upsert
      /\ writer'.sent = writer.sent + Len(chunk)
  BY DEF TypeOK
<1>6. Upserts' = Upserts
  BY <1>5 DEF Upserts
<1> DEFINE Now(v, j) == v < writer.upsert \/ (v = writer.upsert /\ j <= writer.sent + Len(chunk))
<1>7. ASSUME NEW u \in DOMAIN Upserts, NEW i \in DOMAIN Upserts[u], Now(u, i),
             \A v \in DOMAIN Upserts : \A j \in DOMAIN Upserts[v] : Now(v, j) => ~Overrides(u, i, v, j)
      PROVE  /\ Upserts[u][i].key \in DOMAIN Merged(chunk)
             /\ Merged(chunk)[Upserts[u][i].key] = Upserts[u][i].props
  <2>1. \A v \in DOMAIN Upserts : \A j \in DOMAIN Upserts[v] : Sent(v, j) => Now(v, j)
    BY <1>1, <1>4 DEF Sent
  \* The rows of the chunk are among those sent now.
  <2>2. \A c \in DOMAIN chunk :
          /\ writer.sent + c \in DOMAIN Upserts[writer.upsert] /\ writer.sent + c \in Nat
          /\ Now(writer.upsert, writer.sent + c)
          /\ chunk[c] = Upserts[writer.upsert][writer.sent + c]
    BY <1>1, <1>4
  <2>3. \A c \in DOMAIN chunk : ~Overrides(u, i, writer.upsert, writer.sent + c)
    BY <1>4, <1>7, <2>2
  <2>4. CASE u = writer.upsert /\ i > writer.sent
    <3> DEFINE c == i - writer.sent
    <3>1. i \in Nat /\ i <= writer.sent + Len(chunk)
      BY <1>4, <1>7, <2>4
    <3>2. c \in DOMAIN chunk /\ writer.sent + c = i
      BY <1>1, <1>4, <2>4, <3>1
    <3>3. chunk[c] = Upserts[u][i]
      BY <2>2, <2>4, <3>2
    <3>4. ASSUME NEW j \in DOMAIN chunk, chunk[j].key = chunk[c].key PROVE j <= c
      <4>1. ~ (i < writer.sent + j)
        BY <2>2, <2>3, <2>4, <3>3, <3>4 DEF Overrides
      <4> QED BY <1>1, <1>4, <3>1, <4>1
    <3> HIDE DEF c
    <3> QED BY <1>3, <3>2, <3>3, <3>4
  <2>5. CASE ~ (u = writer.upsert /\ i > writer.sent)
    <3>1. Sent(u, i)
      BY <1>4, <1>7, <2>5 DEF Sent
    <3>2. /\ Upserts[u][i].key \in DOMAIN graph
          /\ graph[Upserts[u][i].key] = Upserts[u][i].props
      BY <1>7, <2>1, <3>1 DEF SentRowsHold
    <3>3. \A c \in DOMAIN chunk : u < writer.upsert \/ (u = writer.upsert /\ i < writer.sent + c)
      BY <1>1, <1>4, <2>5, <3>1 DEF Sent
    <3>4. \A c \in DOMAIN chunk : chunk[c].key # Upserts[u][i].key
      BY <2>2, <2>3, <3>3 DEF Overrides
    <3> QED BY <1>3, <3>2, <3>4
  <2> QED BY <2>4, <2>5
<1>8. \A u, i, v, j : Overrides(u, i, v, j)' <=> Overrides(u, i, v, j)
  BY <1>6 DEF Overrides
<1>9. \A v, j : Sent(v, j)' <=> Now(v, j)
  BY <1>5 DEF Sent
<1> HIDE DEF Now
<1> QED BY <1>6, <1>7, <1>8, <1>9 DEF SentRowsHold

\* To go on to the next upsert sends nothing.
LEMMA NextUpsertSendsNothing ==
  ASSUME TypeOK, writer.batch # None, writer.sent = Len(Rows),
         writer' = [writer EXCEPT !.upsert = @ + 1, !.sent = 0],
         NEW u \in DOMAIN Upserts, NEW i \in DOMAIN Upserts[u]
  PROVE  Sent(u, i)' <=> Sent(u, i)
<1>1. /\ u \in Nat /\ i \in Nat /\ i > 0 /\ writer.upsert \in Nat
      /\ Rows = Upserts[writer.upsert] /\ DOMAIN Upserts[u] = 1..Len(Upserts[u])
      /\ Len(Upserts[u]) \in Nat
  BY WriterPlace DEF Rows
<1>2. u = writer.upsert => i <= writer.sent
  BY <1>1
<1>3. writer'.upsert = writer.upsert + 1 /\ writer'.sent = 0
  BY DEF TypeOK
<1> QED BY <1>1, <1>2, <1>3 DEF Sent

\* Once every row is sent, the batch's image lies over what was there before.
LEMMA AllSent ==
  ASSUME TypeOK, SentRowsHold, FailureIsContained, writer.batch # None,
         graph = [k \in DOMAIN graph |-> graph[k]],
         writer.sent = Len(Rows), writer.upsert = Len(Upserts)
  PROVE  graph = Over(Image[writer.batch], before)
<1> DEFINE b == writer.batch
<1>1. /\ b \in Batch /\ Upserts = Plan[b]
      /\ DOMAIN Upserts = 1..Len(Upserts) /\ Len(Upserts) \in Nat
      /\ \A u \in DOMAIN Upserts : Len(Upserts[u]) \in Nat /\ DOMAIN Upserts[u] = 1..Len(Upserts[u])
  BY WriterPlace DEF Upserts
<1>2. \A u \in DOMAIN Upserts : \A i \in DOMAIN Upserts[u] : Sent(u, i)
  BY <1>1 DEF Sent, Rows
<1>3. ASSUME NEW k \in Keys(b) PROVE k \in DOMAIN graph /\ graph[k] = Image[b][k]
  <2> DEFINE IsLast(u, i) ==
               /\ Plan[b][u][i].key = k /\ Image[b][k] = Plan[b][u][i].props
               /\ \A v \in DOMAIN Plan[b] : \A j \in DOMAIN Plan[b][v] :
                    Plan[b][v][j].key = k => v <= u /\ (v = u => j <= i)
  <2>0. PICK u \in DOMAIN Plan[b] : \E i \in DOMAIN Plan[b][u] : IsLast(u, i)
    BY <1>1, ImageIsLast
  <2>1. PICK i \in DOMAIN Plan[b][u] : IsLast(u, i)
    BY <2>0
  <2>2. ASSUME NEW v \in DOMAIN Upserts, NEW j \in DOMAIN Upserts[v] PROVE ~Overrides(u, i, v, j)
    <3>1. v \in Nat /\ j \in Nat /\ u \in Nat /\ i \in Nat
      BY <1>1, <2>1
    <3>2. Upserts[v][j].key = Upserts[u][i].key => v <= u /\ (v = u => j <= i)
      BY <1>1, <2>1
    <3> QED BY <3>1, <3>2 DEF Overrides
  <2>3. u \in DOMAIN Upserts /\ i \in DOMAIN Upserts[u] /\ Upserts[u][i].key = k
        /\ Upserts[u][i].props = Image[b][k]
    BY <1>1, <2>1
  <2>4. /\ Upserts[u][i].key \in DOMAIN graph
        /\ graph[Upserts[u][i].key] = Upserts[u][i].props
    BY <1>2, <2>2, <2>3 DEF SentRowsHold
  <2> QED BY <2>3, <2>4
<1>4. DOMAIN Image[b] = Keys(b)
  BY <1>1, ImageKeys
<1>5. /\ DOMAIN before \subseteq DOMAIN graph
      /\ \A k \in DOMAIN graph \ DOMAIN Image[b] : k \in DOMAIN before /\ graph[k] = before[k]
  BY DEF FailureIsContained
<1>6. DOMAIN graph = DOMAIN Image[b] \cup DOMAIN before
  BY <1>3, <1>4, <1>5
<1>7. \A k \in DOMAIN graph :
        graph[k] = IF k \in DOMAIN Image[b] THEN Image[b][k] ELSE before[k]
  BY <1>3, <1>4, <1>5
<1>8. [k \in DOMAIN graph |-> graph[k]] =
        [k \in DOMAIN Image[b] \cup DOMAIN before |->
           IF k \in DOMAIN Image[b] THEN Image[b][k] ELSE before[k]]
  BY <1>6, <1>7
<1> QED BY <1>8 DEF Over

LEMMA InitWriterInv == Init => WriterInv
BY DEF Init, WriterInv, Converges, FailureIsContained

\* A call that ends with anything but Ok leaves what it has done.
LEMMA GivesUp ==
  ASSUME TypeOK, WriterInv, NEW result, result # "ok", Answer(result), UNCHANGED before,
         graph' = [k \in DOMAIN graph' |-> graph'[k]],
         writer.batch # None =>
           /\ DOMAIN before \subseteq DOMAIN graph'
           /\ \A k \in DOMAIN graph' \ DOMAIN Image[writer.batch] :
                 k \in DOMAIN before /\ graph'[k] = before[k]
  PROVE  WriterInv'
<1>1. writer'.batch = writer.batch /\ ~writer'.running /\ writer'.result # "ok"
  BY DEF Answer, TypeOK
<1> QED BY <1>1 DEF WriterInv, Converges, FailureIsContained

LEMMA NextWriterInv == TypeOK /\ WriterInv /\ [Next]_vars => WriterInv'
<1> SUFFICES ASSUME TypeOK, WriterInv, [Next]_vars PROVE WriterInv'
  OBVIOUS
<1>1. /\ graph = [k \in DOMAIN graph |-> graph[k]]
      /\ writer.running => SentRowsHold
      /\ FailureIsContained
      /\ writer.running => writer.batch # None
  BY DEF WriterInv, TypeOK
<1>2. CASE UNCHANGED vars
  BY <1>2 DEF vars, WriterInv, SentRowsHold, Sent, Overrides, Upserts, Converges, FailureIsContained
<1>3. ASSUME NEW batch \in Batch, BeginWrite(batch) PROVE WriterInv'
  <2>1. /\ writer'.running /\ writer'.batch = batch /\ writer'.upsert = 1 /\ writer'.sent = 0
        /\ graph' = graph /\ before' = IF batch = writer.batch THEN before ELSE graph
        /\ batch # None
    BY <1>3, BatchAssumption DEF BeginWrite
  <2>2. SentRowsHold'
    <3>1. \A u \in DOMAIN Upserts' : \A i \in DOMAIN Upserts'[u] : ~Sent(u, i)'
      BY <2>1, PlanIsLists DEF Sent, Upserts
    <3> QED BY <3>1 DEF SentRowsHold
  <2>3. FailureIsContained'
    BY <1>1, <2>1 DEF FailureIsContained
  <2> QED BY <1>1, <2>1, <2>2, <2>3 DEF WriterInv, Converges
\* What a statement may do to the graph, whether or not its answer is Ok.
<1>4. ASSUME writer.running, writer.sent < Len(Rows), NEW chunk, chunk = chunk_rows(Rows, writer.sent)
      PROVE  /\ Len(chunk) \in Nat \ {0} /\ DOMAIN chunk = 1..Len(chunk)
             /\ writer.sent + Len(chunk) <= Len(Rows)
             /\ \A i \in DOMAIN chunk : chunk[i] = Rows[writer.sent + i]
             /\ Merged(chunk) = [k \in DOMAIN Merged(chunk) |-> Merged(chunk)[k]]
             /\ DOMAIN before \subseteq DOMAIN Merged(chunk)
             /\ \A k \in DOMAIN Merged(chunk) \ DOMAIN Image[writer.batch] :
                   k \in DOMAIN before /\ Merged(chunk)[k] = before[k]
  <2>1. /\ Len(chunk) \in Nat \ {0} /\ DOMAIN chunk = 1..Len(chunk)
        /\ writer.sent + Len(chunk) <= Len(Rows)
        /\ \A i \in DOMAIN chunk : chunk[i] = Rows[writer.sent + i]
    BY <1>1, <1>4, ChunkIsNext
  <2>2. \A i \in DOMAIN chunk : chunk[i].key \in Keys(writer.batch)
    BY <1>1, <1>4, ChunkKeys
  <2>3. Len(chunk) \in Nat
    BY <2>1
  <2>4. Merged(chunk) = [k \in DOMAIN Merged(chunk) |-> Merged(chunk)[k]]
    BY <2>1, <2>3, MergeEffect
  <2>5. /\ DOMAIN before \subseteq DOMAIN Merged(chunk)
        /\ \A k \in DOMAIN Merged(chunk) \ DOMAIN Image[writer.batch] :
              k \in DOMAIN before /\ Merged(chunk)[k] = before[k]
    BY <1>1, <1>4, <2>1, <2>2, <2>3, MergeIsContained
  <2> QED BY <2>1, <2>4, <2>5
<1>5. CASE RunChunk
  <2> DEFINE chunk == chunk_rows(Rows, writer.sent)
  <2>1. writer.running /\ writer.sent < Len(Rows) /\ graph' = Merged(chunk) /\ UNCHANGED before
    BY <1>5 DEF RunChunk
  <2>2. CASE AllMerged(chunk)
    <3>1. writer' = [writer EXCEPT !.sent = @ + Len(chunk)]
      BY <1>5, <2>2 DEF RunChunk
    <3>2. writer'.running /\ writer'.batch = writer.batch
      BY <2>1, <3>1 DEF TypeOK
    <3>3. FailureIsContained' /\ graph' = [k \in DOMAIN graph' |-> graph'[k]]
      BY <1>4, <2>1, <3>2 DEF FailureIsContained
    <3>4. SentRowsHold'
      BY <1>1, <1>4, <2>1, <2>2, <3>1, SentStep
    <3> QED BY <3>2, <3>3, <3>4 DEF WriterInv, Converges
  <2>3. CASE ~AllMerged(chunk)
    <3>1. Answer("unresolved_endpoint")
      BY <1>5, <2>3 DEF RunChunk
    <3> QED BY <1>4, <2>1, <3>1, GivesUp
  <2> QED BY <2>2, <2>3
<1>6. CASE NextUpsert
  <2>1. writer.running /\ writer.sent = Len(Rows) /\ UNCHANGED <<graph, before>>
    BY <1>6 DEF NextUpsert
  <2>2. CASE writer.upsert < Len(Upserts)
    <3>1. writer' = [writer EXCEPT !.upsert = @ + 1, !.sent = 0]
      BY <1>6, <2>2 DEF NextUpsert
    <3>2. /\ writer'.running /\ writer'.batch = writer.batch
          /\ writer'.upsert = writer.upsert + 1 /\ writer'.sent = 0
      BY <2>1, <3>1 DEF TypeOK
    <3>3. Upserts' = Upserts /\ \A u, i, v, j : Overrides(u, i, v, j)' <=> Overrides(u, i, v, j)
      BY <3>2 DEF Upserts, Overrides
    <3>4. ASSUME NEW u \in DOMAIN Upserts, NEW i \in DOMAIN Upserts[u]
          PROVE  Sent(u, i)' <=> Sent(u, i)
      BY <1>1, <2>1, <3>1, NextUpsertSendsNothing
    <3>5. SentRowsHold'
      <4>1. SentRowsHold
        BY <1>1, <2>1
      <4> QED BY <2>1, <3>3, <3>4, <4>1 DEF SentRowsHold
    <3>6. FailureIsContained'
      BY <1>1, <2>1, <3>2 DEF FailureIsContained
    <3> QED BY <1>1, <2>1, <3>2, <3>5, <3>6 DEF WriterInv, Converges
  <2>3. CASE ~ (writer.upsert < Len(Upserts))
    <3>1. Answer("ok")
      BY <1>6, <2>3 DEF NextUpsert
    <3>2. writer'.batch = writer.batch /\ ~writer'.running
      BY <3>1 DEF Answer, TypeOK
    <3>3. writer.upsert = Len(Upserts)
      BY <1>1, <2>1, <2>3, WriterPlace
    <3>4. graph = Over(Image[writer.batch], before)
      BY <1>1, <2>1, <3>3, AllSent
    <3> QED BY <1>1, <2>1, <3>2, <3>4 DEF WriterInv, Converges, FailureIsContained, Over
  <2> QED BY <2>2, <2>3
<1>7. CASE RefuseRoutes
  <2>1. Answer("inconsistent") /\ UNCHANGED <<graph, before>>
    BY <1>7 DEF RefuseRoutes
  <2> QED BY <1>1, <2>1, GivesUp DEF FailureIsContained
<1>8. CASE DriverFails
  <2> DEFINE chunk == chunk_rows(Rows, writer.sent)
  <2>1. /\ writer.running /\ writer.sent < Len(Rows) /\ UNCHANGED before
        /\ Answer("driver") /\ graph' \in {graph, Merged(chunk)}
    BY <1>8 DEF DriverFails
  <2>2. CASE graph' = graph
    BY <1>1, <2>1, <2>2, GivesUp DEF FailureIsContained
  <2>3. CASE graph' = Merged(chunk)
    BY <1>4, <2>1, <2>3, GivesUp
  <2> QED BY <2>1, <2>2, <2>3
<1>9. CASE Crash
  <2>1. Answer("none") /\ UNCHANGED <<graph, before>>
    BY <1>9 DEF Crash
  <2> QED BY <1>1, <2>1, GivesUp DEF FailureIsContained
<1> QED BY <1>2, <1>3, <1>5, <1>6, <1>7, <1>8, <1>9 DEF Next, Step

\* For any batches, failures and crashes: while a call runs, the last of its
\* rows sent is what the graph holds, and so the two that follow.
THEOREM WriterCorrect == Spec => []WriterInv
<1>1. TypeOK /\ WriterInv /\ [Next]_vars => TypeOK' /\ WriterInv'
  BY NextTypeOK, NextWriterInv
<1> QED BY <1>1, InitTypeOK, InitWriterInv, PTL DEF Spec

\* Idempotent re-ingestion (schema.md; ports.rs: calling twice must not create
\* duplicates): whatever attempts came before it, a write that answers Ok
\* leaves what a single undisturbed write would have left.
THEOREM WritesConverge == Spec => []Converges
BY WriterCorrect, PTL DEF WriterInv

\* A failed or crashed write touches nothing that its batch does not name.
THEOREM FailuresAreContained == Spec => []FailureIsContained
BY WriterCorrect, PTL DEF WriterInv

-----------------------------------------------------------------------------
(* The rules of security groups *)

\* Two rules that become one relationship have the same flag: only a rule that
\* names its own group points where an unresolved one does.
LEMMA OneEdgeOneFlag ==
  ASSUME NEW batch, WellFormed(batch), NEW e \in ToSet(batch.edges), NEW f \in ToSet(batch.edges),
         IsSgRule(e), IsSgRule(f), RuleEdge(e) = RuleEdge(f)
  PROVE  e.resolved = f.resolved
<1>1. /\ e.kind \in {"cidr", "security_group_ref"} /\ e.resolved \in BOOLEAN
      /\ e.kind = "cidr" \/ e.to = e.from => e.resolved
  BY DEF WellFormed
<1>2. /\ f.kind \in {"cidr", "security_group_ref"} /\ f.resolved \in BOOLEAN
      /\ f.kind = "cidr" \/ f.to = f.from => f.resolved
  BY DEF WellFormed
<1> DEFINE To(g) == IF g.kind = "security_group_ref" /\ g.resolved THEN SgKey(g.to) ELSE SgKey(g.from)
<1>3. \A g : RuleEdge(g) = <<g.type, SgKey(g.from), To(g), <<g.match, g.kind, g.to>> >>
  BY DEF RuleEdge, EdgeKey, SgKey
<1> HIDE DEF To
<1>4. SgKey(e.from) = SgKey(f.from) /\ To(e) = To(f)
      /\ <<e.match, e.kind, e.to>> = <<f.match, f.kind, f.to>>
  BY <1>3
<1>5. e.from = f.from /\ e.kind = f.kind /\ e.to = f.to
  BY <1>4 DEF SgKey, NodeKey
<1>6. \A g : SgKey(g.to) = SgKey(g.from) => g.to = g.from
  BY DEF SgKey, NodeKey
<1>7. CASE e.kind = "cidr"
  BY <1>1, <1>2, <1>5, <1>7
<1>8. CASE e.kind = "security_group_ref"
  <2>1. e.resolved /\ ~f.resolved => FALSE
    BY <1>2, <1>4, <1>5, <1>6, <1>8 DEF To
  <2>2. f.resolved /\ ~e.resolved => FALSE
    BY <1>1, <1>4, <1>5, <1>6, <1>8 DEF To
  <2> QED BY <1>1, <1>2, <2>1, <2>2
<1> QED BY <1>1, <1>7, <1>8

\* Rules of one direction are rows of three upserts, and of no other.
LEMMA RuleUpserts ==
  ASSUME NEW b \in Batch, NEW type \in {"ALLOWS_INGRESS", "ALLOWS_EGRESS"}
  PROVE  /\ \A list \in {"cidr", "sg_ref_resolved", "sg_ref_unresolved"} :
              \E u \in DOMAIN Plan[b] : Plan[b][u] = sg_rule_rows(Content[b], type, list)
         /\ \A u \in DOMAIN Plan[b] : \A i \in DOMAIN Plan[b][u] :
              Len(Plan[b][u][i].key) = 4 /\ Plan[b][u][i].key[1] = type =>
                \E list \in {"cidr", "sg_ref_resolved", "sg_ref_unresolved"} :
                   Plan[b][u] = sg_rule_rows(Content[b], type, list)
<1> DEFINE batch == Content[b]
<1>1. DOMAIN Plan[b] = 1..19 /\ \A u \in 7..19 : Plan[b][u] = EdgeUpserts(batch)[u - 6]
  BY PlanUpserts
<1>2. /\ Plan[b][13] = sg_rule_rows(batch, "ALLOWS_INGRESS", "cidr")
      /\ Plan[b][14] = sg_rule_rows(batch, "ALLOWS_INGRESS", "sg_ref_resolved")
      /\ Plan[b][15] = sg_rule_rows(batch, "ALLOWS_INGRESS", "sg_ref_unresolved")
      /\ Plan[b][16] = sg_rule_rows(batch, "ALLOWS_EGRESS", "cidr")
      /\ Plan[b][17] = sg_rule_rows(batch, "ALLOWS_EGRESS", "sg_ref_resolved")
      /\ Plan[b][18] = sg_rule_rows(batch, "ALLOWS_EGRESS", "sg_ref_unresolved")
  BY <1>1 DEF EdgeUpserts
<1> HIDE DEF batch
<1>3. ASSUME NEW list \in {"cidr", "sg_ref_resolved", "sg_ref_unresolved"}
      PROVE  \E u \in DOMAIN Plan[b] : Plan[b][u] = sg_rule_rows(batch, type, list)
  <2>1. 13 \in DOMAIN Plan[b] /\ 14 \in DOMAIN Plan[b] /\ 15 \in DOMAIN Plan[b]
        /\ 16 \in DOMAIN Plan[b] /\ 17 \in DOMAIN Plan[b] /\ 18 \in DOMAIN Plan[b]
    BY <1>1
  <2> QED BY <1>2, <2>1, Zenon
<1>4. ASSUME NEW u \in DOMAIN Plan[b], NEW i \in DOMAIN Plan[b][u],
             Len(Plan[b][u][i].key) = 4, Plan[b][u][i].key[1] = type
      PROVE  \E list \in {"cidr", "sg_ref_resolved", "sg_ref_unresolved"} :
                Plan[b][u] = sg_rule_rows(batch, type, list)
  <2>1. u \notin 1..6
    <3>1. SUFFICES ASSUME u \in 1..6 PROVE FALSE
      OBVIOUS
    <3>2. \E l, x : Plan[b][u][i].key = NodeKey(l, x)
      BY <3>1, PlanRows
    <3>3. Len(Plan[b][u][i].key) = 2
      BY <3>2 DEF NodeKey
    <3> QED BY <1>4, <3>3
  <2>2. u \in 7..19 /\ u - 6 \in 1..13
    BY <1>1, <2>1
  <2>3. EdgeTypes[u - 6] = type
    <3>1. IsEdgeKey(Plan[b][u][i].key, EdgeTypes[u - 6])
      BY <2>2, PlanRows DEF EdgeRows
    <3> QED BY <1>4, <3>1, EdgeKeyParts
  <2>4. u \in 13..18 /\ type = IF u <= 15 THEN "ALLOWS_INGRESS" ELSE "ALLOWS_EGRESS"
    BY <2>2, <2>3 DEF EdgeTypes
  <2>5. CASE u <= 15
    <3>1. type = "ALLOWS_INGRESS" /\ (u = 13 \/ u = 14 \/ u = 15)
      BY <2>4, <2>5
    <3> QED BY <1>2, <3>1, Zenon
  <2>6. CASE ~ (u <= 15)
    <3>1. type = "ALLOWS_EGRESS" /\ (u = 16 \/ u = 17 \/ u = 18)
      BY <2>4, <2>6
    <3> QED BY <1>2, <3>1, Zenon
  <2> QED BY <2>5, <2>6
<1> QED BY <1>3, <1>4 DEF batch

\* What the image of a batch says of a rule of one of its security groups.
LEMMA ImageOfRule ==
  ASSUME NEW b \in Batch, NEW e \in ToSet(Content[b].edges), IsSgRule(e)
  PROVE  RuleEdge(e) \in Keys(b) /\ Image[b][RuleEdge(e)] = e.resolved
<1> DEFINE batch == Content[b]
           k == RuleEdge(e)
           Lists == {"cidr", "sg_ref_resolved", "sg_ref_unresolved"}
           Taken(list) == RulesTaken(batch, e.type, list)
<1>1. WellFormed(batch) /\ e.type \in {"ALLOWS_INGRESS", "ALLOWS_EGRESS"}
  BY WellFormedAssumption DEF IsSgRule
<1>2. \A f \in ToSet(batch.edges) : f.type = e.type =>
         /\ IsSgRule(f)
         /\ split_sg_rule_rows(f) \in Lists /\ RuleEdge(f) = SgRowKey(f, split_sg_rule_rows(f))
  BY <1>1, RuleEdgeIsItsRow DEF IsSgRule, WellFormed
<1>3. ASSUME NEW list \in Lists
      PROVE  /\ \A i \in DOMAIN sg_rule_rows(batch, e.type, list) : \E f \in Taken(list) :
                  /\ sg_rule_rows(batch, e.type, list)[i].key = SgRowKey(f, list)
                  /\ sg_rule_rows(batch, e.type, list)[i].props = f.resolved
             /\ \A f \in Taken(list) : \E i \in DOMAIN sg_rule_rows(batch, e.type, list) :
                  sg_rule_rows(batch, e.type, list)[i].key = SgRowKey(f, list)
  BY <1>1, SgRuleRows
<1>4. k \in Keys(b) /\ Len(k) = 4 /\ k[1] = e.type
  <2> DEFINE list == split_sg_rule_rows(e)
  <2>1. list \in Lists /\ e \in Taken(list) /\ k = SgRowKey(e, list)
    BY <1>2 DEF RulesTaken
  <2>2. PICK u \in DOMAIN Plan[b] : Plan[b][u] = sg_rule_rows(batch, e.type, list)
    BY <1>1, <2>1, RuleUpserts
  <2>3. \E i \in DOMAIN Plan[b][u] : Plan[b][u][i].key = k
    <3> HIDE DEF list, k, Taken, Lists
    <3>1. \E i \in DOMAIN sg_rule_rows(batch, e.type, list) : sg_rule_rows(batch, e.type, list)[i].key = SgRowKey(e, list)
      BY <1>3, <2>1
    <3> QED BY <2>1, <2>2, <3>1
  <2>4. Len(k) = 4 /\ k[1] = e.type
    BY DEF RuleEdge, EdgeKey
  <2> QED BY <2>2, <2>3, <2>4 DEF Keys
<1> HIDE DEF k
<1>5. PICK u \in DOMAIN Plan[b] : \E i \in DOMAIN Plan[b][u] :
         Plan[b][u][i].key = k /\ Image[b][k] = Plan[b][u][i].props
  BY <1>4, ImageIsLast
<1>6. PICK i \in DOMAIN Plan[b][u] : Plan[b][u][i].key = k /\ Image[b][k] = Plan[b][u][i].props
  BY <1>5
<1>7. PICK list \in Lists : Plan[b][u] = sg_rule_rows(batch, e.type, list)
  <2>1. Len(Plan[b][u][i].key) = 4 /\ Plan[b][u][i].key[1] = e.type
    BY <1>4, <1>6
  <2> QED BY <1>1, <2>1, RuleUpserts
<1>8. PICK f \in Taken(list) : k = SgRowKey(f, list) /\ Image[b][k] = f.resolved
  <2>1. \E f \in Taken(list) : sg_rule_rows(batch, e.type, list)[i].key = SgRowKey(f, list)
                               /\ sg_rule_rows(batch, e.type, list)[i].props = f.resolved
    <3>1. i \in DOMAIN sg_rule_rows(batch, e.type, list)
      BY <1>6, <1>7
    <3> HIDE DEF Taken, Lists
    <3> QED BY <1>3, <1>7, <3>1
  <2> HIDE DEF Taken
  <2> QED BY <1>6, <1>7, <2>1
<1>9. f \in ToSet(batch.edges) /\ IsSgRule(f) /\ RuleEdge(f) = k
  BY <1>2, <1>8 DEF RulesTaken
<1>10. e.resolved = f.resolved
  BY <1>1, <1>9, OneEdgeOneFlag DEF k
<1> QED BY <1>4, <1>8, <1>10 DEF k

\* Whoever reads the graph after an Ok finds every security group rule of the
\* batch with its own flag and its own target, the unresolved ones too
\* (ports.rs: "must still be written, never dropped").
THEOREM RulesAreWritten == Spec => []SgRulesWritten
<1>1. TypeOK /\ WriterInv => SgRulesWritten
  <2> SUFFICES ASSUME TypeOK, WriterInv, NEW b \in Batch, Wrote(b), NEW e \in Edges(Content[b]), IsSgRule(e)
               PROVE  RuleEdge(e) \in DOMAIN graph /\ graph[RuleEdge(e)] = e.resolved
    BY DEF SgRulesWritten
  <2>1. graph = Over(Image[b], before)
    BY DEF WriterInv, Converges, Wrote
  <2>2. RuleEdge(e) \in DOMAIN Image[b] /\ Image[b][RuleEdge(e)] = e.resolved
    BY ImageOfRule, ImageKeys DEF Edges, ToSet
  <2> QED BY <2>1, <2>2 DEF Over
<1> QED BY <1>1, WriterTypeOK, WriterCorrect, PTL

-----------------------------------------------------------------------------
(* Ends that are missing *)

\* A row whose ends are not found names an end that its batch does not have:
\* all nodes of the batch are in the graph before a relationship is sent.
LEMMA UnboundIsMissing ==
  ASSUME TypeOK, SentKeysThere, writer.batch # None, NEW j \in DOMAIN Rows, ~Bound(Rows[j])
  PROVE  \E end \in EndNodes(Rows[j].key) : end[2] \notin Ids(Content[writer.batch], end[1])
<1> DEFINE b == writer.batch
           batch == Content[b]
<1>1. /\ b \in Batch /\ Upserts = Plan[b] /\ Rows = Plan[b][writer.upsert]
      /\ writer.upsert \in DOMAIN Plan[b] /\ DOMAIN Plan[b] = 1..19
  BY WriterPlace, PlanUpserts DEF Upserts, Rows
<1>2. PICK end \in EndNodes(Rows[j].key) : end \notin DOMAIN graph
  BY DEF Bound
<1>3. writer.upsert \in 7..19
  <2>1. SUFFICES ASSUME writer.upsert \in 1..6 PROVE FALSE
    BY <1>1
  <2>2. \E l, x : Rows[j].key = NodeKey(l, x)
    BY <1>1, <2>1, PlanRows
  <2>3. EndNodes(Rows[j].key) = {}
    BY <2>2 DEF NodeKey, EndNodes, IsEdge
  <2> QED BY <1>2, <2>3
<1>4. end[1] \in ToSet(Labels) /\ end = NodeKey(end[1], end[2])
  <2>1. IsEdgeKey(Rows[j].key, EdgeTypes[writer.upsert - 6])
    BY <1>1, <1>3, PlanRows DEF EdgeRows
  <2> QED BY <1>2, <2>1, EdgeKeyParts
<1>5. ASSUME end[2] \in Ids(batch, end[1]) PROVE FALSE
  <2>1. PICK u \in 1..6 : Labels[u] = end[1]
    BY <1>4, LabelSet DEF ToSet
  <2>2. PICK i \in DOMAIN batch.nodes[Labels[u]] : batch.nodes[Labels[u]][i].id = end[2]
    BY <1>5, <2>1 DEF Ids
  <2>3. i \in DOMAIN Plan[b][u] /\ Plan[b][u][i].key = NodeKey(Labels[u], batch.nodes[Labels[u]][i].id)
    BY <1>1, <2>2, PlanRows
  <2>4. Plan[b][u][i].key = end
    BY <1>4, <2>1, <2>2, <2>3
  <2>5. Sent(u, i)
    BY <1>3 DEF Sent
  <2>6. Plan[b][u][i].key \in DOMAIN graph
    BY <1>1, <2>3, <2>5 DEF SentKeysThere
  <2> QED BY <1>2, <2>4, <2>6
<1> QED BY <1>2, <1>5

LEMMA InitEndpointsInv == Init => EndpointsInv
BY DEF Init, EndpointsInv, EndpointErrorsAreReal

LEMMA NextEndpointsInv == TypeOK /\ EndpointsInv /\ [Next]_vars => EndpointsInv'
<1> SUFFICES ASSUME TypeOK, EndpointsInv, [Next]_vars PROVE EndpointsInv'
  OBVIOUS
<1>1. /\ writer.running => SentKeysThere /\ writer.batch # None
      /\ EndpointErrorsAreReal
  BY DEF EndpointsInv, TypeOK
\* A call that ends for any other reason says nothing of ends.
<1>2. ASSUME NEW result, result # "unresolved_endpoint", Answer(result) PROVE EndpointsInv'
  <2>1. ~writer'.running /\ writer'.result = result
    BY <1>2 DEF Answer, TypeOK
  <2> QED BY <1>2, <2>1 DEF EndpointsInv, EndpointErrorsAreReal
<1>3. CASE UNCHANGED vars
  BY <1>3 DEF vars, EndpointsInv, SentKeysThere, Sent, Upserts, EndpointErrorsAreReal
<1>4. ASSUME NEW batch \in Batch, BeginWrite(batch) PROVE EndpointsInv'
  <2>1. writer'.running /\ writer'.batch = batch /\ writer'.upsert = 1 /\ writer'.sent = 0
    BY <1>4 DEF BeginWrite
  <2>2. \A u \in DOMAIN Upserts' : \A i \in DOMAIN Upserts'[u] : ~Sent(u, i)'
    BY <2>1, PlanIsLists DEF Sent, Upserts
  <2> QED BY <2>1, <2>2 DEF EndpointsInv, SentKeysThere, EndpointErrorsAreReal
<1>5. CASE RunChunk
  <2> DEFINE chunk == chunk_rows(Rows, writer.sent)
  <2>1. writer.running /\ writer.sent < Len(Rows) /\ graph' = Merged(chunk)
    BY <1>5 DEF RunChunk
  <2>2. /\ Len(chunk) \in Nat \ {0} /\ DOMAIN chunk = 1..Len(chunk)
        /\ writer.sent + Len(chunk) <= Len(Rows)
        /\ \A c \in DOMAIN chunk : chunk[c] = Rows[writer.sent + c]
    BY <1>1, <2>1, ChunkIsNext
  <2>3. /\ writer.upsert \in DOMAIN Upserts /\ writer.upsert \in Nat /\ writer.sent \in Nat
        /\ DOMAIN Upserts \subseteq Nat /\ \A u \in DOMAIN Upserts : DOMAIN Upserts[u] \subseteq Nat
        /\ Len(Rows) \in Nat /\ DOMAIN Rows = 1..Len(Rows) /\ Rows = Upserts[writer.upsert]
    BY <1>1, <2>1, WriterPlace DEF Rows
  <2>4. CASE AllMerged(chunk)
    <3>1. writer' = [writer EXCEPT !.sent = @ + Len(chunk)]
      BY <1>5, <2>4 DEF RunChunk
    <3>2. DOMAIN Merged(chunk) = DOMAIN graph \cup {chunk[c].key : c \in DOMAIN chunk}
      <4>1. BoundRows(chunk) = DOMAIN chunk
        BY <2>4 DEF AllMerged, BoundRows
      <4>2. DOMAIN Merged(chunk) = DOMAIN graph \cup {chunk[c].key : c \in BoundRows(chunk)}
        BY <2>2, MergeEffect
      <4> QED BY <4>1, <4>2
    <3> HIDE DEF chunk
    <3>3. /\ writer'.running /\ writer'.batch = writer.batch /\ writer'.upsert = writer.upsert
          /\ writer'.sent = writer.sent + Len(chunk)
      BY <2>1, <3>1 DEF TypeOK
    <3>4. Upserts' = Upserts
      BY <3>3 DEF Upserts
    <3>5. ASSUME NEW u \in DOMAIN Upserts, NEW i \in DOMAIN Upserts[u], Sent(u, i)'
          PROVE  Upserts[u][i].key \in DOMAIN Merged(chunk)
      <4>1. CASE u = writer.upsert /\ i > writer.sent
        <5> DEFINE c == i - writer.sent
        <5>1. c \in DOMAIN chunk /\ writer.sent + c = i
          BY <2>2, <2>3, <3>3, <3>5, <4>1 DEF Sent
        <5>2. chunk[c] = Upserts[u][i]
          BY <2>2, <2>3, <4>1, <5>1
        <5> HIDE DEF c
        <5> QED BY <3>2, <5>1, <5>2
      <4>2. CASE ~ (u = writer.upsert /\ i > writer.sent)
        <5>1. Sent(u, i)
          BY <2>3, <3>3, <3>5, <4>2 DEF Sent
        <5>2. Upserts[u][i].key \in DOMAIN graph
          BY <1>1, <2>1, <5>1 DEF SentKeysThere
        <5> QED BY <3>2, <5>2
      <4> QED BY <4>1, <4>2
    <3> QED BY <2>1, <3>3, <3>4, <3>5 DEF EndpointsInv, SentKeysThere, EndpointErrorsAreReal
  <2>5. CASE ~AllMerged(chunk)
    <3>1. Answer("unresolved_endpoint")
      BY <1>5, <2>5 DEF RunChunk
    <3>2. PICK c \in DOMAIN chunk : ~Bound(chunk[c])
      BY <2>5 DEF AllMerged
    <3> DEFINE j == writer.sent + c
    <3> HIDE DEF chunk
    <3>3. j \in DOMAIN Rows /\ Rows[j] = chunk[c]
      BY <2>2, <2>3, <3>2
    <3>4. \E end \in EndNodes(Rows[j].key) : end[2] \notin Ids(Content[writer.batch], end[1])
      BY <1>1, <2>1, <3>2, <3>3, UnboundIsMissing
    <3>5. ~writer'.running /\ writer'.batch = writer.batch
      BY <3>1 DEF Answer, TypeOK
    <3>6. Upserts' = Upserts
      BY <3>5 DEF Upserts
    <3> QED BY <2>3, <3>3, <3>4, <3>5, <3>6 DEF EndpointsInv, EndpointErrorsAreReal
  <2> QED BY <2>4, <2>5
<1>6. CASE NextUpsert
  <2>1. writer.running /\ writer.sent = Len(Rows) /\ UNCHANGED graph
    BY <1>6 DEF NextUpsert
  <2>2. CASE writer.upsert < Len(Upserts)
    <3>1. writer' = [writer EXCEPT !.upsert = @ + 1, !.sent = 0]
      BY <1>6, <2>2 DEF NextUpsert
    <3>2. writer'.running /\ writer'.batch = writer.batch
      BY <2>1, <3>1 DEF TypeOK
    <3>3. Upserts' = Upserts
      BY <3>2 DEF Upserts
    <3>4. \A u \in DOMAIN Upserts : \A i \in DOMAIN Upserts[u] : Sent(u, i)' <=> Sent(u, i)
      BY <1>1, <2>1, <3>1, NextUpsertSendsNothing
    <3>5. SentKeysThere
      BY <1>1, <2>1
    <3> QED BY <2>1, <3>2, <3>3, <3>4, <3>5 DEF EndpointsInv, SentKeysThere, EndpointErrorsAreReal
  <2>3. CASE ~ (writer.upsert < Len(Upserts))
    BY <1>2, <1>6, <2>3 DEF NextUpsert
  <2> QED BY <2>2, <2>3
<1>7. CASE RefuseRoutes
  BY <1>2, <1>7 DEF RefuseRoutes
<1>8. CASE DriverFails
  BY <1>2, <1>8 DEF DriverFails
<1>9. CASE Crash
  BY <1>2, <1>9 DEF Crash
<1> QED BY <1>3, <1>4, <1>5, <1>6, <1>7, <1>8, <1>9 DEF Next, Step

\* run_edge_upsert's count check reports an end that the batch itself does not
\* have, never one that a later statement of the same write would have brought.
THEOREM MissingEndsAreReal == Spec => []EndpointErrorsAreReal
<1>1. TypeOK /\ EndpointsInv /\ [Next]_vars => TypeOK' /\ EndpointsInv'
  BY NextTypeOK, NextEndpointsInv
<1> QED BY <1>1, InitTypeOK, InitEndpointsInv, PTL DEF Spec, EndpointsInv

(* What was read *)

LEMMA HistoryIs ==
  ASSUME NEW states, states \subseteq Account, NEW kind \in Kinds, NEW h
  PROVE  h \in Histories(kind, states) <=>
           /\ IsList(h) /\ \A i \in DOMAIN h : h[i] \in states
           /\ Len(h) \in {0, 1} \/ \E s \in states : Len(h) <= Len(Listing[s][kind])
<1> DEFINE Lengths == {0, 1} \cup UNION {1..Len(Listing[s][kind]) : s \in states}
<1>1. h \in Histories(kind, states) <=> \E n \in Lengths : h \in [1..n -> states]
  BY DEF Histories
<1>2. \A s \in states : Len(Listing[s][kind]) \in Nat
  <2>1. \A s \in states : IsList(Listing[s][kind])
    BY ListingAssumption
  <2> QED BY <2>1, ListDomain
<1>3. \A n : n \in Lengths <=> \/ n \in {0, 1}
                               \/ \E s \in states : n \in Nat /\ n >= 1 /\ n <= Len(Listing[s][kind])
  <2> SUFFICES ASSUME NEW n
               PROVE  n \in Lengths <=> \/ n \in {0, 1}
                                        \/ \E s \in states : n \in Nat /\ n >= 1 /\ n <= Len(Listing[s][kind])
    OBVIOUS
  <2>1. n \in Lengths <=> n \in {0, 1} \/ \E s \in states : n \in 1..Len(Listing[s][kind])
    OBVIOUS
  <2>2. \A s \in states : n \in 1..Len(Listing[s][kind]) <=> n \in Nat /\ n >= 1 /\ n <= Len(Listing[s][kind])
    BY <1>2
  <2> HIDE DEF Lengths
  <2> QED BY <2>1, <2>2
<1> HIDE DEF Lengths
<1>4. ASSUME h \in Histories(kind, states)
      PROVE  /\ IsList(h) /\ \A i \in DOMAIN h : h[i] \in states
             /\ Len(h) \in {0, 1} \/ \E s \in states : Len(h) <= Len(Listing[s][kind])
  <2>1. PICK n \in Lengths : h \in [1..n -> states]
    BY <1>1, <1>4
  <2>2. n \in Nat
    BY <1>3
  <2>3. h \in Seq(states) /\ Len(h) = n /\ DOMAIN h = 1..n
    BY <2>1, <2>2, ListOf
  <2>4. IsList(h) /\ \A i \in DOMAIN h : h[i] \in states
    BY <2>1, <2>3, SeqIsList
  <2>5. Len(h) \in {0, 1} \/ \E s \in states : Len(h) <= Len(Listing[s][kind])
    BY <1>3, <2>3
  <2> QED BY <2>4, <2>5
<1>5. ASSUME IsList(h), \A i \in DOMAIN h : h[i] \in states,
             Len(h) \in {0, 1} \/ \E s \in states : Len(h) <= Len(Listing[s][kind])
      PROVE  h \in Histories(kind, states)
  <2>1. Len(h) \in Nat /\ DOMAIN h = 1..Len(h) /\ h = [i \in 1..Len(h) |-> h[i]]
    BY <1>5, ListDomain
  <2>2. Len(h) \in Lengths
    BY <1>3, <1>5, <2>1
  <2>3. h \in [1..Len(h) -> states]
    BY <1>5, <2>1
  <2> QED BY <1>1, <2>2, <2>3
<1> QED BY <1>4, <1>5

LEMMA ReadsAre ==
  ASSUME NEW states, NEW read
  PROVE  read \in Reads(states) <=>
           /\ read = [kind \in Kinds |-> read[kind]]
           /\ \A kind \in Kinds : read[kind] \in Histories(kind, states)
<1>1. ASSUME read \in Reads(states)
      PROVE  /\ read = [kind \in Kinds |-> read[kind]]
             /\ \A kind \in Kinds : read[kind] \in Histories(kind, states)
  BY <1>1 DEF Reads, Kinds
<1>2. ASSUME read = [kind \in Kinds |-> read[kind]], \A kind \in Kinds : read[kind] \in Histories(kind, states)
      PROVE  read \in Reads(states)
  BY <1>2 DEF Reads, Kinds
<1> QED BY <1>1, <1>2

LEMMA ReadsGrow ==
  ASSUME NEW S, NEW T, S \subseteq T, T \subseteq Account
  PROVE  Reads(S) \subseteq Reads(T)
<1> SUFFICES ASSUME NEW read \in Reads(S) PROVE read \in Reads(T)
  OBVIOUS
<1>1. read = [kind \in Kinds |-> read[kind]] /\ \A kind \in Kinds : read[kind] \in Histories(kind, S)
  BY ReadsAre
<1>2. ASSUME NEW kind \in Kinds PROVE read[kind] \in Histories(kind, T)
  BY <1>1, HistoryIs
<1> QED BY <1>1, <1>2, ReadsAre

\* The members of the pages of a history, in order.
LEMMA CollectedAre ==
  ASSUME NEW states, states \subseteq Account, NEW read \in Reads(states), NEW kind \in Kinds
  PROVE  /\ IsList(Collected(read)[kind])
         /\ \A item : item \in ToSet(Collected(read)[kind]) <=>
              \E i \in DOMAIN read[kind] : item \in ToSet(Page(read[kind][i], kind, i))
         /\ \A item \in ToSet(Collected(read)[kind]) : ItemFits(kind, item)
<1> DEFINE h == read[kind]
           f == [i \in DOMAIN h |-> Page(h[i], kind, i)]
<1>1. IsList(h) /\ \A i \in DOMAIN h : h[i] \in states
  BY ReadsAre, HistoryIs
<1>2. DOMAIN h = 1..Len(h) /\ Len(h) \in Nat
  BY <1>1, ListDomain
<1>3. Collected(read)[kind] = FlattenSeq(f)
  BY DEF Collected
<1>4. f = [i \in DOMAIN h |-> f[i]] /\ \A i \in DOMAIN h : f[i] = Page(h[i], kind, i)
  OBVIOUS
<1> HIDE DEF f, h
<1>5. ASSUME NEW i \in DOMAIN h
      PROVE  IsList(Page(h[i], kind, i)) /\ \A item \in ToSet(Page(h[i], kind, i)) : ItemFits(kind, item)
  <2> DEFINE pages == Listing[h[i]][kind]
  <2>1. h[i] \in Account /\ i \in Nat \ {0}
    BY <1>1, <1>2
  <2>2. /\ IsList(pages)
        /\ \A page \in ToSet(pages) : IsList(page) /\ \A item \in ToSet(page) : ItemFits(kind, item)
    BY <2>1, ListingAssumption DEF ItemFits
  <2>3. IsList(<<>>) /\ ToSet(<<>>) = {}
    BY DEF IsList, ToSet
  <2>4. Page(h[i], kind, i) = IF i <= Len(pages) THEN pages[i] ELSE <<>>
    BY DEF Page
  <2>5. i <= Len(pages) => pages[i] \in ToSet(pages)
    <3>1. DOMAIN pages = 1..Len(pages) /\ Len(pages) \in Nat
      BY <2>2, ListDomain
    <3> QED BY <2>1, <3>1 DEF ToSet
  <2> HIDE DEF pages
  <2> QED BY <2>2, <2>3, <2>4, <2>5
<1>6. /\ IsList(FlattenSeq(f))
      /\ \A e : e \in ToSet(FlattenSeq(f)) <=> \E i \in DOMAIN h : e \in ToSet(f[i])
  BY <1>1, <1>4, <1>5, FlatMap
<1>7. \A item : item \in ToSet(FlattenSeq(f)) <=> \E i \in DOMAIN h : item \in ToSet(Page(h[i], kind, i))
  BY <1>4, <1>6
<1>8. \A item \in ToSet(FlattenSeq(f)) : ItemFits(kind, item)
  BY <1>5, <1>7
<1> QED BY <1>3, <1>6, <1>7, <1>8 DEF h

\* However torn the reads are, what was collected is what the mapping takes.
THEOREM CollectedIsRaw ==
  ASSUME NEW states, states \subseteq Account, NEW read \in Reads(states)
  PROVE  IsRaw(Collected(read))
BY CollectedAre DEF IsRaw

\* What an account may become includes what it is, and what may come of that.
LEMMA LaterIsClosed ==
  ASSUME NEW start \in Account
  PROVE  /\ start \in Later[start] /\ Later[start] \subseteq Account
         /\ \A s \in Later[start] : Succ[s] \subseteq Later[start]
<1>1. \A s : s \in Later[start] <=> s \in Account /\ \A closed \in SUBSET Account :
        start \in closed /\ (\A t \in closed : Succ[t] \subseteq closed) => s \in closed
  BY DEF Later
<1>2. ASSUME NEW s \in Later[start], NEW t \in Succ[s] PROVE t \in Later[start]
  <2>1. s \in Account /\ t \in Account
    BY <1>1, <1>2, AccountAssumption
  <2>2. ASSUME NEW closed \in SUBSET Account, start \in closed, \A u \in closed : Succ[u] \subseteq closed
        PROVE  t \in closed
    BY <1>1, <1>2, <2>2
  <2> QED BY <1>1, <2>1, <2>2
<1> QED BY <1>1, <1>2
-----------------------------------------------------------------------------
(* Every step keeps IngestInv *)

LEMMA WhatWasWitnessed ==
  ASSUME IngestInv
  PROVE  /\ account \in Account /\ witnessed \subseteq Account
         /\ \E start \in Account : witnessed \cup {account} \subseteq Later[start]
         /\ ingest.read \in Reads(witnessed)
         /\ ingest.read = [kind \in Kinds |-> ingest.read[kind]]
         /\ \A kind \in Kinds :
              /\ IsList(ingest.read[kind]) /\ Len(ingest.read[kind]) \in Nat
              /\ DOMAIN ingest.read[kind] = 1..Len(ingest.read[kind])
              /\ \A i \in DOMAIN ingest.read[kind] : ingest.read[kind][i] \in witnessed
<1>1. account \in Account /\ \E start \in Account : witnessed \cup {account} \subseteq Later[start]
  BY DEF IngestInv, Witnesses
<1>2. witnessed \subseteq Account
  BY <1>1, LaterIsClosed
<1>3. ingest.read \in Reads(witnessed)
  BY DEF IngestInv
<1>4. ingest.read = [kind \in Kinds |-> ingest.read[kind]]
      /\ \A kind \in Kinds : ingest.read[kind] \in Histories(kind, witnessed)
  BY <1>3, ReadsAre
<1>5. \A kind \in Kinds : IsList(ingest.read[kind]) /\ \A i \in DOMAIN ingest.read[kind] : ingest.read[kind][i] \in witnessed
  BY <1>2, <1>4, HistoryIs
<1>6. \A kind \in Kinds : Len(ingest.read[kind]) \in Nat /\ DOMAIN ingest.read[kind] = 1..Len(ingest.read[kind])
  BY <1>5, ListDomain
<1> QED BY <1>1, <1>2, <1>3, <1>4, <1>5, <1>6

LEMMA CollectedIsBatch ==
  ASSUME IngestInv, BatchMaps(Collected(ingest.read))
  PROVE  Collected(ingest.read) \in Batch
<1>1. PICK start \in Account : witnessed \subseteq Later[start]
  BY WhatWasWitnessed
<1>2. Later[start] \subseteq Account
  BY LaterIsClosed
<1>3. ingest.read \in Reads(Later[start])
  BY <1>1, <1>2, WhatWasWitnessed, ReadsGrow
<1> QED BY <1>3, BatchesAssumption

\* To the writer, an ingestion is one of its callers.
LEMMA IngestIsNext ==
  ASSUME IngestInv, [IngestNext]_allVars
  PROVE  [Next]_vars
<1>1. CASE MapAndWrite
  <2>1. Collected(ingest.read) \in Batch /\ BeginWrite(Collected(ingest.read))
    BY <1>1, CollectedIsBatch DEF MapAndWrite
  <2> QED BY <2>1 DEF Next
<1>2. CASE Writes
  BY <1>2 DEF Writes, Next
<1>3. CASE Killed
  BY <1>3 DEF Killed, Next
<1>4. CASE ~MapAndWrite /\ ~Writes /\ ~Killed
  BY <1>4 DEF IngestNext, allVars, BeginIngest, FetchPage, FetchFails, MappingFails, Change
<1> QED BY <1>1, <1>2, <1>3, <1>4

LEMMA StepsOfWriter ==
  ASSUME TypeOK, Step \/ DriverFails \/ Crash
  PROVE  /\ writer'.batch = writer.batch /\ writer'.running \in BOOLEAN
         /\ writer.running
         /\ ~writer'.running /\ writer'.result = "inconsistent" => Inconsistent(Content[writer.batch])
<1>1. writer \in [running : BOOLEAN, batch : Batch \cup {None}, upsert : Nat, sent : Nat, result : Results]
  BY DEF TypeOK
<1>2. CASE RunChunk
  BY <1>1, <1>2 DEF RunChunk, Answer
<1>3. CASE NextUpsert
  BY <1>1, <1>3 DEF NextUpsert, Answer
<1>4. CASE RefuseRoutes
  BY <1>1, <1>4 DEF RefuseRoutes, Refused, Answer
<1>5. CASE DriverFails
  BY <1>1, <1>5 DEF DriverFails, Answer
<1>6. CASE Crash
  BY <1>1, <1>6 DEF Crash, Answer
<1> QED BY <1>2, <1>3, <1>4, <1>5, <1>6 DEF Step

LEMMA InitIngestInv == IngestInit => IngestInv
<1> SUFFICES ASSUME IngestInit PROVE IngestInv
  OBVIOUS
<1> USE DEF IngestInit, Init
<1>1. ingest = [phase |-> "idle", read |-> [kind \in Kinds |-> <<>>], done |-> {}, result |-> "none", report |-> NoReport]
      /\ account \in Account /\ witnessed = {} /\ ~writer.running /\ writer.result = "none"
  OBVIOUS
<1>2. IsList(<<>>) /\ Len(<<>>) = 0 /\ DOMAIN <<>> = {}
  BY DEF IsList, ToSet
<1>3. [kind \in Kinds |-> <<>>] \in Reads(witnessed)
  <2> DEFINE read == [kind \in Kinds |-> <<>>]
  <2>1. read = [kind \in Kinds |-> read[kind]] /\ \A kind \in Kinds : read[kind] = <<>>
    OBVIOUS
  <2>2. \A kind \in Kinds : <<>> \in Histories(kind, witnessed)
    BY <1>1, <1>2, HistoryIs
  <2> HIDE DEF read
  <2>3. read \in Reads(witnessed)
    BY <2>1, <2>2, ReadsAre
  <2> QED BY <2>3 DEF read
<1>4. ingest \in [phase : {"idle", "collecting", "writing"}, read : Reads(witnessed), done : SUBSET Kinds,
                  result : Outcomes, report : Reports]
  BY <1>1, <1>3 DEF Outcomes, Reports
<1>5. Witnesses
  BY <1>1, LaterIsClosed DEF Witnesses
<1>6. Progress
  BY <1>1 DEF Progress
<1>7. Outcome
  BY <1>1 DEF Outcome, Ended
<1>8. RefusalIsReal
  BY <1>1 DEF RefusalIsReal
<1> QED BY <1>4, <1>5, <1>6, <1>7, <1>8 DEF IngestInv
LEMMA ShapeOf ==
  ASSUME IngestInv
  PROVE  ingest \in [phase : {"idle", "collecting", "writing"}, read : Reads(witnessed), done : SUBSET Kinds,
                     result : Outcomes, report : Reports]
BY DEF IngestInv

LEMMA KeepsBegin == ASSUME TypeOK, IngestInv, BeginIngest PROVE IngestInv'
<1> DEFINE empty == [kind \in Kinds |-> <<>>]
<1>1. /\ ingest.phase = "idle" /\ witnessed' = {account} /\ UNCHANGED <<account, vars>>
      /\ ingest' = [phase |-> "collecting", read |-> empty, done |-> {}, result |-> "none", report |-> NoReport]
  BY DEF BeginIngest
<1>2. account \in Account /\ \E start \in Account : account \in Later[start]
  BY WhatWasWitnessed
<1>3. empty \in Reads({account})
  <2>1. empty = [kind \in Kinds |-> empty[kind]] /\ \A kind \in Kinds : empty[kind] = <<>>
    OBVIOUS
  <2>2. IsList(<<>>) /\ Len(<<>>) = 0 /\ DOMAIN <<>> = {}
    BY DEF IsList, ToSet
  <2>3. \A kind \in Kinds : <<>> \in Histories(kind, {account})
    BY <1>2, <2>2, HistoryIs
  <2> HIDE DEF empty
  <2>4. \A kind \in Kinds : empty[kind] \in Histories(kind, {account})
    BY <2>1, <2>3
  <2>5. \A states : (\A kind \in Kinds : empty[kind] \in Histories(kind, states)) => empty \in Reads(states)
    BY <2>1, ReadsAre
  <2> QED BY <2>4, <2>5
<1> HIDE DEF empty
<1>4. (ingest \in [phase : {"idle", "collecting", "writing"}, read : Reads(witnessed), done : SUBSET Kinds,
                   result : Outcomes, report : Reports])'
  BY <1>1, <1>3 DEF Outcomes, Reports
<1>5. Witnesses'
  BY <1>1, <1>2 DEF Witnesses
<1>6. Progress'
  BY <1>1 DEF Progress, empty
<1>7. Outcome'
  BY <1>1 DEF Outcome, Ended, IngestInv, vars
<1>8. RefusalIsReal'
  BY <1>1 DEF RefusalIsReal, IngestInv, vars
<1> QED BY <1>4, <1>5, <1>6, <1>7, <1>8 DEF IngestInv

\* The page that is asked for next is at most one more than the account had
\* pages when the one before was asked for.
LEMMA KeepsFetch == ASSUME TypeOK, IngestInv, NEW kind \in Kinds, FetchPage(kind) PROVE IngestInv'
<1> DEFINE old == ingest.read[kind]
           new == Append(old, account)
           last == LastPage(account, kind, Len(new))
<1>1. /\ ingest.phase = "collecting" /\ kind \notin ingest.done
      /\ ingest' = [ingest EXCEPT !.read[kind] = new, !.done = IF last THEN @ \cup {kind} ELSE @]
      /\ UNCHANGED <<account, runs, witnessed, vars>>
  BY DEF FetchPage
<1>2. /\ IsList(old) /\ Len(old) \in Nat /\ DOMAIN old = 1..Len(old)
      /\ \A i \in DOMAIN old : old[i] \in witnessed
      /\ ingest.read = [k \in Kinds |-> ingest.read[k]]
      /\ account \in witnessed /\ witnessed \subseteq Account
  BY <1>1, WhatWasWitnessed DEF IngestInv, Witnesses
<1>3. ingest \in [phase : {"idle", "collecting", "writing"}, read : Reads(witnessed), done : SUBSET Kinds,
                  result : Outcomes, report : Reports]
  BY ShapeOf
<1>4. /\ ingest'.phase = "collecting" /\ ingest'.result = ingest.result /\ ingest'.report = ingest.report
      /\ ingest'.read = [ingest.read EXCEPT ![kind] = new]
      /\ ingest'.done = IF last THEN ingest.done \cup {kind} ELSE ingest.done
      /\ ingest' = [phase |-> ingest'.phase, read |-> ingest'.read, done |-> ingest'.done,
                    result |-> ingest'.result, report |-> ingest'.report]
  <2> HIDE DEF new, last, old
  <2> QED BY <1>1, <1>3
<1>5. /\ Len(new) = Len(old) + 1 /\ DOMAIN new = 1..Len(new) /\ new[Len(new)] = account /\ new # <<>>
      /\ new \in Seq(witnessed)
  <2>1. old \in Seq(witnessed)
    <3>1. old = [i \in 1..Len(old) |-> old[i]]
      BY <1>2, ListDomain
    <3> HIDE DEF old
    <3> QED BY <1>2, <3>1, ListOf
  <2> HIDE DEF old
  <2> QED BY <1>2, <2>1
<1>6. \A i \in DOMAIN new : new[i] \in witnessed
  <2> HIDE DEF new
  <2> QED BY <1>5
<1>7. Progress
  BY DEF IngestInv
<1>8. old = <<>> \/ Len(old) < Len(Listing[old[Len(old)]][kind])
  BY <1>1, <1>7 DEF Progress
<1>9. new \in Histories(kind, witnessed)
  <2>1. IsList(new)
    BY <1>5, SeqIsList
  <2>2. CASE old = <<>>
    <3>1. Len(new) = 1
      BY <1>5, <2>2
    <3> QED BY <1>2, <1>6, <2>1, <3>1, HistoryIs
  <2>3. CASE old # <<>> /\ Len(old) < Len(Listing[old[Len(old)]][kind])
    <3> DEFINE s == old[Len(old)]
    <3>1. s \in witnessed
      <4>1. Len(old) # 0
        BY <1>2, <2>3, EmptySeq DEF IsList
      <4> QED BY <1>2, <4>1
    <3>2. Len(Listing[s][kind]) \in Nat
      BY <1>2, <3>1, ListingAssumption, ListDomain
    <3>3. Len(new) <= Len(Listing[s][kind])
      BY <1>2, <1>5, <2>3, <3>2
    <3> HIDE DEF s, new, old
    <3> QED BY <1>2, <1>6, <2>1, <3>1, <3>3, HistoryIs
  <2> QED BY <1>8, <2>2, <2>3
<1> HIDE DEF new, old, last
<1>10. ingest'.read = [k \in Kinds |-> ingest'.read[k]] /\ ingest'.read[kind] = new
       /\ \A k \in Kinds \ {kind} : ingest'.read[k] = ingest.read[k]
  BY <1>2, <1>4
<1>11. ingest'.read \in Reads(witnessed')
  <2>1. \A k \in Kinds : ingest'.read[k] \in Histories(k, witnessed)
    BY <1>9, <1>10, WhatWasWitnessed, ReadsAre
  <2>2. ingest'.read \in Reads(witnessed)
    BY <1>10, <2>1, ReadsAre
  <2> QED BY <1>1, <2>2
<1>12. (ingest \in [phase : {"idle", "collecting", "writing"}, read : Reads(witnessed), done : SUBSET Kinds,
                    result : Outcomes, report : Reports])'
  <2>1. ingest'.done \in SUBSET Kinds /\ ingest'.result \in Outcomes /\ ingest'.report \in Reports
    BY <1>3, <1>4
  <2>2. Reports' = Reports
    BY DEF Reports
  <2> QED BY <1>4, <1>11, <2>1, <2>2
<1>13. Witnesses'
  BY <1>1, <1>4 DEF IngestInv, Witnesses
<1>14. Progress'
  <2> SUFFICES ASSUME NEW k \in Kinds
               PROVE  LET read == ingest'.read[k]
                          pages == Len(Listing[read[Len(read)]][k])
                      IN  IF k \in ingest'.done THEN read # <<>> /\ Len(read) >= pages
                          ELSE read = <<>> \/ Len(read) < pages
    BY DEF Progress
  <2>1. CASE k # kind
    <3>1. ingest'.read[k] = ingest.read[k] /\ (k \in ingest'.done <=> k \in ingest.done)
      BY <1>4, <1>10, <2>1
    <3> QED BY <1>7, <3>1 DEF Progress
  <2>2. CASE k = kind
    <3>1. ingest'.read[k] = new /\ new[Len(new)] = account /\ (k \in ingest'.done <=> last)
      BY <1>1, <1>4, <1>5, <1>10, <2>2
    <3>2. last <=> Len(new) >= Len(Listing[account][k])
      BY <2>2 DEF last, LastPage
    <3>3. Len(Listing[account][k]) \in Nat /\ Len(new) \in Nat
      BY <1>2, <1>5, ListingAssumption, ListDomain
    <3> QED BY <1>5, <3>1, <3>2, <3>3
  <2> QED BY <2>1, <2>2
<1>15. Outcome'
  BY <1>1, <1>4 DEF Outcome, Ended, IngestInv, vars
<1>16. RefusalIsReal'
  BY <1>1 DEF RefusalIsReal, IngestInv, vars
<1> QED BY <1>12, <1>13, <1>14, <1>15, <1>16 DEF IngestInv
LEMMA KeepsFails ==
  ASSUME TypeOK, IngestInv, (\E kind \in Kinds : FetchFails(kind)) \/ MappingFails
  PROVE  IngestInv'
<1>1. /\ ingest.phase = "collecting" /\ UNCHANGED <<account, runs, witnessed, vars>>
      /\ End("describe") \/ (End("mapping") /\ ingest.done = Kinds /\ ~BatchMaps(Collected(ingest.read)))
  BY DEF FetchFails, MappingFails
<1>2. ingest \in [phase : {"idle", "collecting", "writing"}, read : Reads(witnessed), done : SUBSET Kinds,
                  result : Outcomes, report : Reports]
  BY ShapeOf
<1>3. /\ ingest'.phase = "idle" /\ ingest'.result \in {"describe", "mapping"}
      /\ ingest'.result = "mapping" => ingest.done = Kinds /\ ~BatchMaps(Collected(ingest.read))
      /\ ingest'.read = ingest.read /\ ingest'.done = ingest.done
      /\ ingest' \in [phase : {"idle", "collecting", "writing"}, read : Reads(witnessed), done : SUBSET Kinds,
                      result : Outcomes, report : Reports]
  BY <1>1, <1>2 DEF End, Outcomes
<1>4. (ingest \in [phase : {"idle", "collecting", "writing"}, read : Reads(witnessed), done : SUBSET Kinds,
                   result : Outcomes, report : Reports])'
  BY <1>1, <1>3 DEF Reports
<1>5. Witnesses'
  BY <1>1, <1>3 DEF IngestInv, Witnesses
<1>6. Progress'
  BY <1>3 DEF IngestInv, Progress
<1>7. Outcome'
  BY <1>1, <1>3 DEF Outcome, Ended, IngestInv, vars
<1>8. RefusalIsReal'
  BY <1>1 DEF RefusalIsReal, IngestInv, vars
<1> QED BY <1>4, <1>5, <1>6, <1>7, <1>8 DEF IngestInv

LEMMA KeepsMapAndWrite == ASSUME TypeOK, IngestInv, MapAndWrite PROVE IngestInv'
<1> DEFINE raw == Collected(ingest.read)
<1>1. /\ ingest.phase = "collecting" /\ ingest.done = Kinds /\ BatchMaps(raw) /\ BeginWrite(raw)
      /\ ingest' = [ingest EXCEPT !.phase = "writing"] /\ UNCHANGED <<account, runs, witnessed>>
  BY DEF MapAndWrite
<1>2. ingest \in [phase : {"idle", "collecting", "writing"}, read : Reads(witnessed), done : SUBSET Kinds,
                  result : Outcomes, report : Reports]
  BY ShapeOf
<1>3. raw \in Batch
  BY <1>1, CollectedIsBatch
<1>4. /\ ingest'.phase = "writing" /\ ingest'.read = ingest.read /\ ingest'.done = Kinds
      /\ ingest' \in [phase : {"idle", "collecting", "writing"}, read : Reads(witnessed), done : SUBSET Kinds,
                      result : Outcomes, report : Reports]
  BY <1>1, <1>2
<1>5. writer' = [running |-> TRUE, batch |-> raw, upsert |-> 1, sent |-> 0, result |-> "none"]
  BY <1>1 DEF BeginWrite
<1>6. writer'.running /\ writer'.batch = raw
  <2> HIDE DEF raw
  <2> QED BY <1>5
<1>7. (ingest \in [phase : {"idle", "collecting", "writing"}, read : Reads(witnessed), done : SUBSET Kinds,
                   result : Outcomes, report : Reports])'
  BY <1>1, <1>4 DEF Reports
<1>8. Witnesses'
  BY <1>1, <1>4 DEF IngestInv, Witnesses
<1>9. Progress'
  BY <1>1, <1>4 DEF IngestInv, Progress
<1>10. Outcome'
  BY <1>3, <1>4, <1>6 DEF Outcome, Ended
<1>11. RefusalIsReal'
  BY <1>6 DEF RefusalIsReal
<1> QED BY <1>7, <1>8, <1>9, <1>10, <1>11 DEF IngestInv

LEMMA KeepsWrites == ASSUME TypeOK, IngestInv, Writes PROVE IngestInv'
<1>1. /\ ingest.phase = "writing" /\ UNCHANGED <<account, runs, witnessed>>
      /\ IF writer'.running THEN UNCHANGED ingest
         ELSE IF writer'.result = "ok"
         THEN ingest' = [ingest EXCEPT !.phase = "idle", !.result = "ok", !.report = Report(writer.batch)]
         ELSE End("write")
  BY DEF Writes
<1>2. ingest \in [phase : {"idle", "collecting", "writing"}, read : Reads(witnessed), done : SUBSET Kinds,
                  result : Outcomes, report : Reports]
  BY ShapeOf
<1>3. /\ writer'.batch = writer.batch /\ writer'.running \in BOOLEAN
      /\ ~writer'.running /\ writer'.result = "inconsistent" => Inconsistent(Content[writer.batch])
  BY StepsOfWriter DEF Writes
<1>4. ingest.done = Kinds /\ writer.batch = Collected(ingest.read) /\ writer.batch \in Batch
  BY <1>1 DEF IngestInv, Outcome
<1>5. /\ ingest'.read = ingest.read /\ ingest'.done = ingest.done
      /\ ingest' \in [phase : {"idle", "collecting", "writing"}, read : Reads(witnessed), done : SUBSET Kinds,
                      result : Outcomes, report : Reports]
      /\ \/ writer'.running /\ ingest'.phase = "writing"
         \/ /\ ~writer'.running /\ ingest'.phase = "idle" /\ ingest'.result = "ok"
            /\ writer'.result = "ok" /\ ingest'.report = Report(writer.batch)
         \/ ~writer'.running /\ ingest'.phase = "idle" /\ ingest'.result = "write"
  <2>1. Report(writer.batch) \in Reports /\ "ok" \in Outcomes /\ "write" \in Outcomes
    BY <1>4 DEF Reports, Outcomes
  <2>2. CASE writer'.running
    BY <1>1, <1>2, <2>2
  <2>3. CASE ~writer'.running /\ writer'.result = "ok"
    BY <1>1, <1>2, <2>1, <2>3
  <2>4. CASE ~writer'.running /\ writer'.result # "ok"
    BY <1>1, <1>2, <2>1, <2>4 DEF End
  <2> QED BY <2>2, <2>3, <2>4
<1>6. (ingest \in [phase : {"idle", "collecting", "writing"}, read : Reads(witnessed), done : SUBSET Kinds,
                   result : Outcomes, report : Reports])'
  BY <1>1, <1>5 DEF Reports
<1>7. Witnesses'
  BY <1>1, <1>5 DEF IngestInv, Witnesses
<1>8. Progress'
  BY <1>5 DEF IngestInv, Progress
<1>9. Outcome'
  BY <1>3, <1>4, <1>5 DEF Outcome, Ended
<1>10. RefusalIsReal'
  BY <1>3 DEF RefusalIsReal
<1> QED BY <1>6, <1>7, <1>8, <1>9, <1>10 DEF IngestInv

LEMMA KeepsKilled == ASSUME TypeOK, IngestInv, Killed PROVE IngestInv'
<1>1. /\ ingest.phase # "idle" /\ End("none") /\ UNCHANGED <<account, runs, witnessed>>
      /\ IF ingest.phase = "writing" THEN Crash ELSE UNCHANGED vars
  BY DEF Killed
<1>2. ingest \in [phase : {"idle", "collecting", "writing"}, read : Reads(witnessed), done : SUBSET Kinds,
                  result : Outcomes, report : Reports]
  BY ShapeOf
<1>3. /\ ingest'.phase = "idle" /\ ingest'.result = "none"
      /\ ingest'.read = ingest.read /\ ingest'.done = ingest.done
      /\ ingest' \in [phase : {"idle", "collecting", "writing"}, read : Reads(witnessed), done : SUBSET Kinds,
                      result : Outcomes, report : Reports]
  BY <1>1, <1>2 DEF End, Outcomes
<1>4. ~writer'.running /\ writer'.batch = writer.batch
  <2>1. writer \in [running : BOOLEAN, batch : Batch \cup {None}, upsert : Nat, sent : Nat, result : Results]
    BY DEF TypeOK
  <2>2. CASE Crash
    BY <2>1, <2>2 DEF Crash, Answer
  <2>3. CASE ingest.phase # "writing"
    BY <1>1, <2>3 DEF vars, IngestInv, Outcome
  <2> QED BY <1>1, <2>2, <2>3
<1>5. (ingest \in [phase : {"idle", "collecting", "writing"}, read : Reads(witnessed), done : SUBSET Kinds,
                   result : Outcomes, report : Reports])'
  BY <1>1, <1>3 DEF Reports
<1>6. Witnesses'
  BY <1>1, <1>3 DEF IngestInv, Witnesses
<1>7. Progress'
  BY <1>3 DEF IngestInv, Progress
<1>8. Outcome'
  BY <1>3, <1>4 DEF Outcome, Ended
<1>9. RefusalIsReal'
  <2>1. CASE Crash
    BY <2>1, StepsOfWriter DEF RefusalIsReal
  <2>2. CASE ingest.phase # "writing"
    BY <1>1, <2>2 DEF vars, RefusalIsReal, IngestInv
  <2> QED BY <1>1, <2>1, <2>2
<1> QED BY <1>5, <1>6, <1>7, <1>8, <1>9 DEF IngestInv

LEMMA KeepsChange == ASSUME TypeOK, IngestInv, Change PROVE IngestInv'
<1>1. account' \in Succ[account] /\ witnessed' = witnessed \cup {account'} /\ UNCHANGED <<ingest, runs, vars>>
  BY DEF Change
<1>2. PICK start \in Account : witnessed \cup {account} \subseteq Later[start]
  BY WhatWasWitnessed
<1>3. witnessed' \cup {account'} \subseteq Later[start] /\ Later[start] \subseteq Account
  BY <1>1, <1>2, LaterIsClosed
<1>4. ingest.read \in Reads(witnessed')
  <2>1. witnessed \subseteq witnessed' /\ witnessed' \subseteq Account
    BY <1>1, <1>3
  <2> QED BY <2>1, WhatWasWitnessed, ReadsGrow
<1>5. (ingest \in [phase : {"idle", "collecting", "writing"}, read : Reads(witnessed), done : SUBSET Kinds,
                   result : Outcomes, report : Reports])'
  <2>1. ingest \in [phase : {"idle", "collecting", "writing"}, read : Reads(witnessed), done : SUBSET Kinds,
                    result : Outcomes, report : Reports]
    BY ShapeOf
  <2> QED BY <1>1, <1>4, <2>1 DEF Reports
<1>6. Witnesses'
  <2>1. account' \in Account /\ account' \in witnessed'
    BY <1>1, <1>3
  <2> QED BY <1>3, <2>1 DEF Witnesses
<1>7. Progress'
  BY <1>1 DEF IngestInv, Progress
<1>8. Outcome'
  BY <1>1 DEF IngestInv, Outcome, Ended, vars
<1>9. RefusalIsReal'
  BY <1>1 DEF IngestInv, RefusalIsReal, vars
<1> QED BY <1>5, <1>6, <1>7, <1>8, <1>9 DEF IngestInv

LEMMA NextIngestInv == TypeOK /\ IngestInv /\ [IngestNext]_allVars => IngestInv'
<1> SUFFICES ASSUME TypeOK, IngestInv, [IngestNext]_allVars PROVE IngestInv'
  OBVIOUS
<1>1. CASE UNCHANGED allVars
  BY <1>1 DEF allVars, vars, ingestVars, IngestInv, Witnesses, Progress, Outcome, RefusalIsReal, Ended, Reports
<1> QED BY <1>1, KeepsBegin, KeepsFetch, KeepsFails, KeepsMapAndWrite, KeepsWrites, KeepsKilled, KeepsChange
        DEF IngestNext
-----------------------------------------------------------------------------
(* What a run reads, writes and says *)

AllInv == TypeOK /\ WriterInv /\ EndpointsInv /\ IngestInv

\* The whole inductive invariant: what was read is of states the account was
\* in, page after page; the writer writes what was mapped from it; the outcome
\* and the report are the writer's.
THEOREM IngestCorrect == IngestSpec => []AllInv
<1>1. IngestInit => AllInv
  BY InitTypeOK, InitWriterInv, InitEndpointsInv, InitIngestInv DEF IngestInit, AllInv
<1>2. AllInv /\ [IngestNext]_allVars => AllInv'
  BY IngestIsNext, NextTypeOK, NextWriterInv, NextEndpointsInv, NextIngestInv DEF AllInv
<1> QED BY <1>1, <1>2, PTL DEF IngestSpec

\* What is written was read to the last page of every collector (collect.rs),
\* whatever the account became meanwhile.
THEOREM ReadsAreComplete == IngestSpec => []OnlyCompleteReads
<1>1. IngestInv => OnlyCompleteReads
  BY DEF IngestInv, Outcome, Progress, OnlyCompleteReads
<1> QED BY <1>1, IngestCorrect, PTL DEF AllInv

\* A batch that a run wrote is well-formed, and its image is in the graph.
LEMMA WhatWasWritten ==
  ASSUME AllInv, Ended("ok")
  PROVE  /\ writer.batch = Collected(ingest.read) /\ writer.batch \in Batch /\ IsRaw(writer.batch)
         /\ Content[writer.batch] = build_graph_batch(writer.batch)
         /\ ingest.report = Report(writer.batch)
         /\ DOMAIN Image[writer.batch] = Keys(writer.batch)
         /\ \A k \in Keys(writer.batch) : k \in DOMAIN graph /\ graph[k] = Image[writer.batch][k]
<1>1. /\ writer.batch = Collected(ingest.read) /\ writer.batch \in Batch
      /\ ingest.report = Report(writer.batch) /\ ~writer.running /\ writer.result = "ok"
  BY DEF AllInv, IngestInv, Outcome, Ended
<1>2. IsRaw(writer.batch)
  BY <1>1, WhatWasWitnessed, CollectedIsRaw DEF AllInv
<1>3. graph = Over(Image[writer.batch], before)
  BY <1>1 DEF AllInv, WriterInv, Converges
<1>4. DOMAIN Image[writer.batch] = Keys(writer.batch)
  BY <1>1, ImageKeys
<1>5. \A k \in Keys(writer.batch) : k \in DOMAIN graph /\ graph[k] = Image[writer.batch][k]
  BY <1>3, <1>4 DEF Over
<1> QED BY <1>1, <1>2, <1>4, <1>5, ContentAssumption

\* A report that counts none found none.
LEMMA NoneUnresolved ==
  ASSUME NEW raw \in Batch, IsRaw(raw), Report(raw).unresolved_references = 0,
         NEW e \in ToSet(Content[raw].edges), e.type \in {"ROUTES_TO", "ALLOWS_INGRESS", "ALLOWS_EGRESS"}
  PROVE  e.resolved = TRUE
<1> DEFINE edges == Content[raw].edges
           S == {f \in ToSet(edges) : Unresolved(f)}
<1>1. Content[raw] = build_graph_batch(raw)
  BY ContentAssumption
<1>2. e.resolved
  <2>1. Len(Only(edges, S)) = 0
    BY DEF Report, count_unresolved
  <2>2. IsList(Only(edges, S)) /\ ToSet(Only(edges, S)) = ToSet(edges) \cap S
    <3>1. IsList(edges)
      BY <1>1, BatchEdges
    <3> HIDE DEF edges, S
    <3> QED BY <3>1, OnlyOf
  <2>3. DOMAIN Only(edges, S) = {}
    <3> HIDE DEF edges, S
    <3>1. DOMAIN Only(edges, S) = 1..0
      BY <2>1, <2>2, ListDomain
    <3> QED BY <3>1
  <2>4. ToSet(Only(edges, S)) = {}
    BY <2>3 DEF ToSet
  <2>5. ~Unresolved(e)
    BY <2>2, <2>4
  <2> QED BY <2>5 DEF Unresolved
<1>3. e.resolved \in BOOLEAN
  <2>1. CASE IsSgRule(e)
    BY <1>1, <2>1, MappedIsWellFormed DEF WellFormed
  <2>2. CASE e.type = "ROUTES_TO"
    <3>1. FromTable(e, raw)
      BY <1>1, <2>2, EdgeOrigins, OriginTypes
    <3>2. \A a, b : Edge("USES_ROUTE_TABLE", a, b).type = "USES_ROUTE_TABLE"
      BY DEF Edge
    <3>3. PICK table \in ToSet(Tables(raw)) : \E route \in ToSet(table.routes) : e = RouteEdge(table, route, Peerings(raw))
      BY <2>2, <3>1, <3>2 DEF FromTable
    <3>4. PICK route \in ToSet(table.routes) : e = RouteEdge(table, route, Peerings(raw))
      BY <3>3
    <3>5. e.resolved = resolve_route_target(table.vpc, route, Peerings(raw)).resolved
      BY <3>4 DEF RouteEdge
    <3> QED BY <3>5, TargetAndMark
  <2> QED BY <2>1, <2>2 DEF IsSgRule
<1> QED BY <1>2, <1>3

\* A relationship of the batch is as its edge is.
LEMMA ImageOfEdge ==
  ASSUME NEW b \in Batch, NEW k \in Keys(b), IsEdge(k), k[1] \in {"ROUTES_TO", "ALLOWS_INGRESS", "ALLOWS_EGRESS"}
  PROVE  \E e \in ToSet(Content[b].edges) : e.type = k[1] /\ Image[b][k] = e.resolved
<1>1. PICK u \in DOMAIN Plan[b] : \E i \in DOMAIN Plan[b][u] : Plan[b][u][i].key = k /\ Image[b][k] = Plan[b][u][i].props
  BY ImageIsLast
<1>2. PICK i \in DOMAIN Plan[b][u] : Plan[b][u][i].key = k /\ Image[b][k] = Plan[b][u][i].props
  BY <1>1
<1>3. u \in 7..19
  <2>1. u \in 1..6 \/ u \in 7..19
    BY PlanUpserts
  <2>2. ASSUME u \in 1..6 PROVE FALSE
    <3>1. PICK l, id : k = NodeKey(l, id)
      BY <1>2, <2>2, PlanRows
    <3>2. Len(k) = 2
      BY <3>1 DEF NodeKey
    <3> QED BY <3>2 DEF IsEdge
  <2> QED BY <2>1, <2>2
<1>4. PICK e \in ToSet(Content[b].edges) : RowOf(Plan[b][u][i], e)
  BY <1>3, PlanRowsOfEdges
<1>5. \A type, x, y, z : EdgeKey(type, x, y, z)[1] = type
  BY DEF EdgeKey
<1>6. e.type = k[1]
  <2>1. TopologyKey(e)[1] = e.type /\ RouteKey(e)[1] = "ROUTES_TO" /\ RuleEdge(e)[1] = e.type /\ NaclRuleKey(e)[1] = "HAS_RULE"
    BY <1>5 DEF TopologyKey, RouteKey, RuleEdge, NaclRuleKey
  <2> QED BY <1>2, <1>4, <2>1 DEF RowOf
<1>7. Plan[b][u][i].props = e.resolved
  BY <1>4, <1>6 DEF RowOf, TopologyTypes
<1> QED BY <1>2, <1>6, <1>7

\* Zero unresolved references on the report means that every route and rule of
\* the batch is in the graph as resolved (IngestReport).
THEOREM ZeroIsResolved == IngestSpec => []ZeroMeansResolved
<1>1. AllInv => ZeroMeansResolved
  <2> SUFFICES ASSUME AllInv, Ended("ok"), ingest.report.unresolved_references = 0,
                      NEW k \in DOMAIN Image[writer.batch], IsEdge(k),
                      k[1] \in {"ROUTES_TO", "ALLOWS_INGRESS", "ALLOWS_EGRESS"}
               PROVE  graph[k] = TRUE
    BY DEF ZeroMeansResolved
  <2>1. /\ writer.batch \in Batch /\ IsRaw(writer.batch) /\ Report(writer.batch).unresolved_references = 0
        /\ k \in Keys(writer.batch) /\ graph[k] = Image[writer.batch][k]
    BY WhatWasWritten
  <2>2. PICK e \in ToSet(Content[writer.batch].edges) : e.type = k[1] /\ Image[writer.batch][k] = e.resolved
    BY <2>1, ImageOfEdge
  <2>3. e.resolved = TRUE
    BY <2>1, <2>2, NoneUnresolved
  <2> QED BY <2>1, <2>2, <2>3
<1> QED BY <1>1, IngestCorrect, PTL
\* Every item without a node is an error of its own.
LEMMA ErrorsAreReported ==
  ASSUME NEW raw, IsRaw(raw), NEW kind \in DOMAIN Required, NEW item \in ToSet(raw[kind]), ~Maps(kind, item)
  PROVE  item \in ToSet(node_mapping_errors(raw))
<1> DEFINE kinds == <<"NetworkInterface", "SecurityGroup", "NetworkAcl", "RouteTable">>
           wrong(k) == {x \in ToSet(raw[k]) : ~Maps(k, x)}
           f == [i \in 1..4 |-> Only(raw[kinds[i]], wrong(kinds[i]))]
<1>1. node_mapping_errors(raw) = FlattenSeq(f)
  BY DEF node_mapping_errors
<1>2. IsList(kinds) /\ DOMAIN kinds = 1..4 /\ \A i \in 1..4 : kinds[i] \in DOMAIN Required /\ kinds[i] \in Kinds
  BY DEF IsList, ToSet, Required, Kinds
<1>3. \E i \in 1..4 : kinds[i] = kind
  <2>1. kind \in {"NetworkInterface", "SecurityGroup", "NetworkAcl", "RouteTable"}
    BY DEF Required
  <2> QED BY <2>1
<1>4. f = [i \in DOMAIN kinds |-> f[i]] /\ \A i \in DOMAIN kinds : f[i] = Only(raw[kinds[i]], wrong(kinds[i]))
  BY <1>2
<1> HIDE DEF f, kinds, wrong
<1>5. ASSUME NEW i \in DOMAIN kinds
      PROVE  IsList(f[i]) /\ ToSet(f[i]) = ToSet(raw[kinds[i]]) \cap wrong(kinds[i])
  <2>1. IsList(raw[kinds[i]])
    BY <1>2 DEF IsRaw
  <2> QED BY <1>4, <2>1, OnlyOf
<1>6. \A e : e \in ToSet(FlattenSeq(f)) <=> \E i \in DOMAIN kinds : e \in ToSet(f[i])
  BY <1>2, <1>4, <1>5, FlatMap
<1>7. PICK i \in DOMAIN kinds : kinds[i] = kind
  BY <1>2, <1>3
<1>8. item \in ToSet(f[i])
  BY <1>5, <1>7 DEF wrong
<1> QED BY <1>1, <1>6, <1>8

LEMMA LabelsOfKinds ==
  ASSUME NEW kind \in Kinds \ {"VpcPeeringConnection"}
  PROVE  kind \in DOMAIN Required /\ LabelOf[kind] \in ToSet(Labels)
BY LabelSet DEF Kinds, Required, LabelOf

\* An accepted item has its node.
LEMMA AcceptedHasNode ==
  ASSUME NEW raw, IsRaw(raw), NEW kind \in Kinds \ {"VpcPeeringConnection"},
         NEW item \in ToSet(raw[kind]), Maps(kind, item)
  PROVE  item.id \in Ids(build_graph_batch(raw), LabelOf[kind])
<1>1. item \in ToSet(Mapped(raw)[kind])
  BY MappedItems
<1>2. HasId(Mapped(raw)[kind], item.id)
  BY <1>1 DEF HasId
<1>3. CASE kind = "NetworkInterface"
  BY <1>2, <1>3, BatchIds DEF Enis, LabelOf
<1>4. CASE kind = "SecurityGroup"
  BY <1>2, <1>4, BatchIds DEF Groups, LabelOf
<1>5. CASE kind = "NetworkAcl"
  BY <1>2, <1>5, BatchIds DEF Acls, LabelOf
<1>6. CASE kind = "RouteTable"
  BY <1>2, <1>6, BatchIds DEF Tables, LabelOf
<1> QED BY <1>3, <1>4, <1>5, <1>6 DEF Kinds

\* After an Ok every resource that was read is a node or a warning, and every
\* membership a relationship, however the reads were torn (pipeline.rs).
THEOREM NothingIsDropped == IngestSpec => []NothingSilentlyDropped
<1>1. AllInv => NothingSilentlyDropped
  <2> SUFFICES ASSUME AllInv, Ended("ok") PROVE NothingSilentlyDropped
    BY DEF NothingSilentlyDropped
  <2> DEFINE raw == Collected(ingest.read)
             warned == ToSet(ingest.report.non_fatal)
  <2>1. /\ writer.batch = raw /\ raw \in Batch /\ IsRaw(raw) /\ Content[raw] = build_graph_batch(raw)
        /\ \A k \in Keys(raw) : k \in DOMAIN graph
    BY WhatWasWritten
  <2>2. warned = ToSet(node_mapping_errors(raw))
    BY <2>1, WhatWasWritten DEF Report
  <2> HIDE DEF raw, warned
  <2>3. ASSUME NEW kind \in Kinds \ {"VpcPeeringConnection"}, NEW item \in ToSet(raw[kind]), item \notin warned
        PROVE  Maps(kind, item)
    BY <2>1, <2>2, <2>3, ErrorsAreReported, LabelsOfKinds
  <2>4. ASSUME NEW kind \in Kinds \ {"VpcPeeringConnection"}, NEW item \in ToSet(raw[kind]), item \notin warned
        PROVE  NodeKey(LabelOf[kind], item.id) \in DOMAIN graph
    <3>1. item.id \in Ids(Content[raw], LabelOf[kind])
      BY <2>1, <2>3, <2>4, AcceptedHasNode
    <3>2. NodeKey(LabelOf[kind], item.id) \in Keys(raw)
      BY <2>1, <3>1, NodesHaveKeys, LabelsOfKinds
    <3> QED BY <2>1, <3>2
  <2>5. ASSUME NEW eni \in ToSet(raw["NetworkInterface"]) \ warned, NEW g \in ToSet(eni.groups)
        PROVE  EdgeKey("HAS_SG", NodeKey("ENI", eni.id), NodeKey("SecurityGroup", g), <<>>) \in DOMAIN graph
    <3> DEFINE e == Edge("HAS_SG", eni.id, g)
    <3>1. "NetworkInterface" \in Kinds \ {"VpcPeeringConnection"}
      BY DEF Kinds
    <3>2. eni \in ToSet(Enis(raw))
      BY <2>1, <2>3, <3>1, MappedItems DEF Enis
    <3>3. e \in ToSet(has_sg_edges(Enis(raw)))
      BY <2>1, <3>2, RawLists, HasSgEdges
    <3>4. e \in ToSet(Content[raw].edges)
      BY <2>1, <3>3, BatchEdges
    <3>5. e.type = "HAS_SG" /\ e.from = eni.id /\ e.to = g
      BY DEF Edge
    <3> HIDE DEF e
    <3>6. TopologyKey(e) \in Keys(raw)
      BY <2>1, <3>4, <3>5, MembershipsHaveKeys DEF TopologyTypes
    <3>7. TopologyKey(e) = EdgeKey("HAS_SG", NodeKey("ENI", eni.id), NodeKey("SecurityGroup", g), <<>>)
      BY <3>5 DEF TopologyKey, Ends
    <3> QED BY <2>1, <3>6, <3>7
  <2> QED BY <2>4, <2>5 DEF NothingSilentlyDropped, raw, warned
<1> QED BY <1>1, IngestCorrect, PTL

-----------------------------------------------------------------------------
(* Runs that nothing disturbs *)

\* The whole account is input that the mapping is defined for.
LEMMA WholeIs ==
  ASSUME account \in Account
  PROVE  /\ IsRaw(Whole)
         /\ \A kind \in Kinds : \A item : item \in ToSet(Whole[kind]) <=>
              \E i \in DOMAIN Listing[account][kind] : item \in ToSet(Listing[account][kind][i])
<1>1. ASSUME NEW kind \in Kinds
      PROVE  /\ IsList(Whole[kind])
             /\ \A item : item \in ToSet(Whole[kind]) <=>
                  \E i \in DOMAIN Listing[account][kind] : item \in ToSet(Listing[account][kind][i])
             /\ \A item \in ToSet(Whole[kind]) : ItemFits(kind, item)
  <2> DEFINE pages == Listing[account][kind]
  <2>1. /\ IsList(pages)
        /\ \A page \in ToSet(pages) : IsList(page) /\ \A item \in ToSet(page) : ItemFits(kind, item)
    BY ListingAssumption DEF ItemFits
  <2>2. Whole[kind] = FlattenSeq(pages)
    BY DEF Whole
  <2> HIDE DEF pages
  <2>3. \A i \in DOMAIN pages : pages[i] \in ToSet(pages)
    BY DEF ToSet
  <2>4. pages = [i \in DOMAIN pages |-> pages[i]] /\ \A i \in DOMAIN pages : IsList(pages[i])
    BY <2>1, <2>3 DEF IsList
  <2>5. /\ IsList(FlattenSeq(pages))
        /\ \A item : item \in ToSet(FlattenSeq(pages)) <=> \E i \in DOMAIN pages : item \in ToSet(pages[i])
    BY <2>1, <2>4, FlatMap
  <2>6. \A item \in ToSet(FlattenSeq(pages)) : ItemFits(kind, item)
    BY <2>1, <2>3, <2>5
  <2> QED BY <2>2, <2>5, <2>6 DEF pages
<1> QED BY <1>1 DEF IsRaw

\* While the account stays as it is, what was collected is what it has.
LEMMA QuietCollects ==
  ASSUME IngestInv, witnessed = {account}, ingest.done = Kinds, NEW kind \in Kinds
  PROVE  ToSet(Collected(ingest.read)[kind]) = ToSet(Whole[kind])
<1> DEFINE h == ingest.read[kind]
           pages == Listing[account][kind]
<1>1. /\ account \in Account /\ IsList(h) /\ Len(h) \in Nat /\ DOMAIN h = 1..Len(h)
      /\ \A i \in DOMAIN h : h[i] = account
  BY WhatWasWitnessed
<1>2. h # <<>> /\ Len(h) >= Len(Listing[h[Len(h)]][kind])
  BY DEF IngestInv, Progress
<1>3. Len(h) # 0
  BY <1>1, <1>2, EmptySeq DEF IsList
<1>4. Len(h) >= Len(pages) /\ Len(pages) \in Nat /\ DOMAIN pages = 1..Len(pages)
  <2>1. h[Len(h)] = account
    BY <1>1, <1>3
  <2>2. IsList(pages)
    BY <1>1, ListingAssumption
  <2> QED BY <1>2, <2>1, <2>2, ListDomain
<1>5. \A item : item \in ToSet(Collected(ingest.read)[kind]) <=> \E i \in DOMAIN h : item \in ToSet(Page(h[i], kind, i))
  BY WhatWasWitnessed, CollectedAre
<1>6. \A i \in DOMAIN h : Page(h[i], kind, i) = IF i <= Len(pages) THEN pages[i] ELSE <<>>
  BY <1>1 DEF Page
<1>7. \A item : item \in ToSet(Whole[kind]) <=> \E i \in DOMAIN pages : item \in ToSet(pages[i])
  BY <1>1, WholeIs
<1>8. ToSet(<<>>) = {}
  BY DEF ToSet
<1> HIDE DEF h, pages
<1>9. ASSUME NEW item PROVE (\E i \in DOMAIN h : item \in ToSet(Page(h[i], kind, i))) <=> \E i \in DOMAIN pages : item \in ToSet(pages[i])
  <2>1. ASSUME NEW i \in DOMAIN h, item \in ToSet(Page(h[i], kind, i))
        PROVE  \E j \in DOMAIN pages : item \in ToSet(pages[j])
    <3>1. i <= Len(pages) /\ item \in ToSet(pages[i])
      BY <1>6, <1>8, <2>1
    <3>2. i \in DOMAIN pages
      BY <1>1, <1>4, <3>1
    <3> QED BY <3>1, <3>2
  <2>2. ASSUME NEW i \in DOMAIN pages, item \in ToSet(pages[i])
        PROVE  \E j \in DOMAIN h : item \in ToSet(Page(h[j], kind, j))
    <3>1. i \in DOMAIN h /\ i <= Len(pages)
      BY <1>1, <1>4
    <3>2. Page(h[i], kind, i) = pages[i]
      BY <1>6, <3>1
    <3> QED BY <2>2, <3>1, <3>2
  <2> QED BY <2>1, <2>2
<1> QED BY <1>5, <1>7, <1>9

\* Whether collections map, and whether the groups they name are there, does not
\* depend on the order of their items.
LEMMA SameItems ==
  ASSUME NEW raw, IsRaw(raw), NEW other, IsRaw(other), \A kind \in Kinds : ToSet(raw[kind]) = ToSet(other[kind])
  PROVE  /\ BatchMaps(raw) <=> BatchMaps(other)
         /\ GroupsThere(raw) <=> GroupsThere(other)
<1>1. \A kind \in Kinds : ToSet(Mapped(raw)[kind]) = ToSet(Mapped(other)[kind])
  BY MappedItems
<1>2. /\ ToSet(Enis(raw)) = ToSet(Enis(other)) /\ ToSet(Groups(raw)) = ToSet(Groups(other))
  BY <1>1 DEF Enis, Groups, Kinds
<1>3. \A id : HasId(Groups(raw), id) <=> HasId(Groups(other), id)
  BY <1>2 DEF HasId
<1>4. BatchMaps(raw) <=> BatchMaps(other)
  BY <1>1 DEF BatchMaps
<1>5. GroupsThere(raw) <=> GroupsThere(other)
  BY <1>2, <1>3 DEF GroupsThere
<1> QED BY <1>4, <1>5

\* A run that nothing disturbs fails on what it read only if the account has a
\* resource with a malformed part, or names a group of its own that has no node.
THEOREM QuietFailuresHaveCause == IngestSpec => []QuietRunsFailForCause
<1>1. AllInv => QuietRunsFailForCause
  <2> SUFFICES ASSUME AllInv, Quiet, Ended("mapping") \/ Ended("write")
               PROVE  /\ Ended("mapping") => ~BatchMaps(Whole)
                      /\ Ended("write") => /\ writer.result # "inconsistent"
                                           /\ writer.result = "unresolved_endpoint" => ~GroupsThere(Whole)
    BY DEF QuietRunsFailForCause
  <2>0. ingest.done = Kinds
    BY DEF AllInv, IngestInv, Outcome
  <2> DEFINE raw == Collected(ingest.read)
  <2>1. IsRaw(raw) /\ IsRaw(Whole)
    BY WhatWasWitnessed, CollectedIsRaw, WholeIs DEF AllInv
  <2>2. \A kind \in Kinds : ToSet(raw[kind]) = ToSet(Whole[kind])
    BY <2>0, QuietCollects DEF Quiet, AllInv
  <2>3. (BatchMaps(raw) <=> BatchMaps(Whole)) /\ (GroupsThere(raw) <=> GroupsThere(Whole))
    <3> HIDE DEF raw
    <3> QED BY <2>1, <2>2, SameItems
  <2>4. ASSUME Ended("mapping") PROVE ~BatchMaps(Whole)
    BY <2>3, <2>4 DEF AllInv, IngestInv, Outcome
  <2>5. ASSUME Ended("write") PROVE writer.batch = raw /\ raw \in Batch /\ ~writer.running
    BY <2>5 DEF AllInv, IngestInv, Outcome, Ended
  <2>6. raw \in Batch => Content[raw] = build_graph_batch(raw)
    BY ContentAssumption
  <2> HIDE DEF raw
  <2>7. ASSUME Ended("write"), writer.result = "inconsistent" PROVE FALSE
    <3>1. Inconsistent(Content[raw])
      BY <2>5, <2>7 DEF AllInv, IngestInv, RefusalIsReal
    <3> QED BY <2>1, <2>5, <2>6, <2>7, <3>1, NeverRefused
  <2>8. ASSUME Ended("write"), writer.result = "unresolved_endpoint", GroupsThere(Whole) PROVE FALSE
    <3>1. PICK u \in DOMAIN Plan[raw] : \E i \in DOMAIN Plan[raw][u] :
            \E end \in EndNodes(Plan[raw][u][i].key) : end[2] \notin Ids(Content[raw], end[1])
      BY <2>5, <2>8 DEF AllInv, EndpointsInv, EndpointErrorsAreReal, Upserts
    <3>2. PICK i \in DOMAIN Plan[raw][u] :
            \E end \in EndNodes(Plan[raw][u][i].key) : end[2] \notin Ids(Content[raw], end[1])
      BY <3>1
    <3>3. PICK end \in EndNodes(Plan[raw][u][i].key) : end[2] \notin Ids(Content[raw], end[1])
      BY <3>2
    <3>4. u \in 1..6 \/ u \in 7..19
      BY <2>5, <2>8, <3>1, PlanUpserts
    <3>5. CASE u \in 1..6
      <4>1. PICK l, id : Plan[raw][u][i].key = NodeKey(l, id)
        BY <2>5, <2>8, <3>2, <3>5, PlanRows
      <4>2. Len(Plan[raw][u][i].key) = 2
        BY <4>1 DEF NodeKey
      <4> QED BY <3>3, <4>2 DEF EndNodes, IsEdge
    <3>6. CASE u \in 7..19
      <4>1. PICK e \in ToSet(Content[raw].edges) : RowOf(Plan[raw][u][i], e)
        BY <2>5, <2>8, <3>2, <3>6, PlanRowsOfEdges
      <4>2. GroupsThere(raw) /\ Content[raw] = build_graph_batch(raw)
        BY <2>3, <2>5, <2>6, <2>8
      <4> QED BY <2>1, <3>3, <4>1, <4>2, EndsAreThere
    <3> QED BY <3>4, <3>5, <3>6
  <2> QED BY <2>4, <2>7, <2>8
<1> QED BY <1>1, IngestCorrect, PTL
=============================================================================
