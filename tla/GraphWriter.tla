---------------------------- MODULE GraphWriter ----------------------------
(***************************************************************************)
(* write_batch of ingest/pipeline.rs over Neo4jGraphWriter: one batch      *)
(* written as a fixed order of upserts, each sent in chunks, each chunk a  *)
(* statement that commits by itself.  Nothing spans two chunks, so a       *)
(* failure or a crash leaves the chunks before it, and the remedy is to    *)
(* ingest again: with the same batch or, the account having changed, with  *)
(* another.  The database outlives the process.                            *)
(***************************************************************************)
EXTENDS GraphBatch, FiniteSets

CONSTANTS
    Batch,      \* the batches a run may be given, by name
    Content,    \* name -> GraphBatch
    BATCH_SIZE  \* rows in a statement

ASSUME BatchSizeAssumption == BATCH_SIZE \in Nat \ {0}
ASSUME BatchAssumption == None \notin Batch

ASSUME WellFormedAssumption == \A b \in Batch : WellFormed(Content[b])

VARIABLES
    graph,      \* key -> properties, the database's content
    writer,     \* the call of write_batch, under way or the last one
    before      \* history: the graph before the first attempt at writer.batch

vars == <<graph, writer, before>>

Results == {"none", "ok", "unresolved_endpoint", "inconsistent", "driver"}

\* The upserts a batch becomes, each a sequence of rows.
Plan == [b \in Batch |-> write_batch(Content[b])]

Upserts == Plan[writer.batch]
Rows == Upserts[writer.upsert]
-----------------------------------------------------------------------------
(* One statement over one chunk *)

\* Mutant: no statement takes the last, shorter chunk.
chunk_rows_Exact(rows, sent) ==
  IF sent + BATCH_SIZE <= Len(rows) THEN SubSeq(rows, sent + 1, sent + BATCH_SIZE) ELSE <<>>

\* The next chunk of rows, after the first "sent" of them.
chunk_rows(rows, sent) ==
  SubSeq(rows, sent + 1, IF sent + BATCH_SIZE <= Len(rows) THEN sent + BATCH_SIZE ELSE Len(rows))

\* Mutant: only the start of a relationship is looked up.
Bound_StartOnly(row) == IsEdge(row.key) => row.key[2] \in DOMAIN graph

\* MATCH finds the ends of a row; a node has none.
Bound(row) == EndNodes(row.key) \subseteq DOMAIN graph

\* Mutant: properties are set when MERGE creates, and left alone otherwise.
Merged_OnCreate(chunk) ==
  LET rows(k) == {i \in DOMAIN chunk : chunk[i].key = k /\ Bound(chunk[i])}
      keys == {chunk[i].key : i \in {j \in DOMAIN chunk : Bound(chunk[j])}}
  IN  [k \in DOMAIN graph \cup keys |->
         IF k \in DOMAIN graph THEN graph[k] ELSE chunk[Max(rows(k))].props]

\* UNWIND rows: MERGE on the key, then SET; of two rows with one key the
\* second finds what the first created and overwrites its properties.
Merged(chunk) ==
  LET rows(k) == {i \in DOMAIN chunk : chunk[i].key = k /\ Bound(chunk[i])}
      keys == {chunk[i].key : i \in {j \in DOMAIN chunk : Bound(chunk[j])}}
  IN  [k \in DOMAIN graph \cup keys |->
         IF k \in keys THEN chunk[Max(rows(k))].props ELSE graph[k]]

\* Mutant: the count is held against the size a chunk usually has.
AllMerged_FullChunk(chunk) ==
  Cardinality({i \in DOMAIN chunk : Bound(chunk[i])}) = BATCH_SIZE

\* count(r) against chunk.len(): it counts rows, not relationships.
AllMerged(chunk) == \A i \in DOMAIN chunk : Bound(chunk[i])

Answer(result) == writer' = [writer EXCEPT !.running = FALSE, !.result = result]
-----------------------------------------------------------------------------
(* Actions *)

Init ==
  /\ graph = << >>
  /\ writer = [running |-> FALSE, batch |-> None, upsert |-> 1, sent |-> 0, result |-> "none"]
  /\ before = << >>

\* Mutant: every ingestion starts from an empty graph.
BeginWrite_Clears(batch) ==
  /\ ~writer.running
  /\ writer' = [running |-> TRUE, batch |-> batch, upsert |-> 1, sent |-> 0, result |-> "none"]
  /\ before' = IF batch = writer.batch THEN before ELSE graph
  /\ graph' = << >>

\* A run reaches write_batch.  Writing the batch of the run before is a
\* further attempt at it, whatever became of the last one.
BeginWrite(batch) ==
  /\ ~writer.running
  /\ writer' = [running |-> TRUE, batch |-> batch, upsert |-> 1, sent |-> 0, result |-> "none"]
  /\ before' = IF batch = writer.batch THEN before ELSE graph
  /\ UNCHANGED graph

Refused == writer.upsert = RoutesTo /\ writer.sent = 0 /\ Inconsistent(Content[writer.batch])

RunChunk ==
  /\ writer.running /\ ~Refused
  /\ writer.sent < Len(Rows)
  /\ LET chunk == chunk_rows(Rows, writer.sent) IN
       /\ graph' = Merged(chunk)
       /\ IF AllMerged(chunk)
          THEN writer' = [writer EXCEPT !.sent = @ + Len(chunk)]
          ELSE Answer("unresolved_endpoint")
  /\ UNCHANGED before

NextUpsert ==
  /\ writer.running /\ ~Refused
  /\ writer.sent = Len(Rows)
  /\ IF writer.upsert < Len(Upserts)
     THEN writer' = [writer EXCEPT !.upsert = @ + 1, !.sent = 0]
     ELSE Answer("ok")
  /\ UNCHANGED <<graph, before>>

RefuseRoutes ==
  /\ writer.running /\ Refused
  /\ Answer("inconsistent")
  /\ UNCHANGED <<graph, before>>

\* The driver reports an error: the statement failed, or its answer was lost.
DriverFails ==
  /\ writer.running /\ ~Refused
  /\ writer.sent < Len(Rows)
  /\ graph' \in {graph, Merged(chunk_rows(Rows, writer.sent))}
  /\ Answer("driver")
  /\ UNCHANGED before

\* The process ends between two statements, with no answer to anyone.
Crash ==
  /\ writer.running
  /\ Answer("none")
  /\ UNCHANGED <<graph, before>>

Step == RunChunk \/ NextUpsert \/ RefuseRoutes

Next ==
  \/ \E batch \in Batch : BeginWrite(batch)
  \/ Step
  \/ DriverFails
  \/ Crash

\* write_batch is one sequence of awaited calls: it goes on to its answer.
Spec == Init /\ [][Next]_vars /\ WF_vars(Step)
-----------------------------------------------------------------------------
(* What must hold *)

Wrote(batch) == ~writer.running /\ writer.result = "ok" /\ writer.batch = batch
Edges(batch) == {batch.edges[i] : i \in DOMAIN batch.edges}
Relationships(type) == {k \in DOMAIN graph : IsEdge(k) /\ k[1] = type}

\* The writer stays inside its batch, and no relationship has lost an end
\* (neo4j.rs: every edge statement MATCHes its ends before it MERGEs).
TypeOK ==
  /\ writer \in [running : BOOLEAN, batch : Batch \cup {None}, upsert : Nat, sent : Nat, result : Results]
  /\ IF writer.batch = None THEN ~writer.running
     ELSE /\ writer.upsert \in 1..Len(Upserts)
          /\ writer.sent \in 0..Len(Rows)
  /\ \A k \in DOMAIN graph : EndNodes(k) \subseteq DOMAIN graph

\* What a batch says of the graph: for every key its last row, in the last
\* upsert that has one.
Keys(b) == UNION {{Plan[b][u][i].key : i \in DOMAIN Plan[b][u]} : u \in DOMAIN Plan[b]}
RowsOf(b, u, k) == {i \in DOMAIN Plan[b][u] : Plan[b][u][i].key = k}
LastUpsert(b, k) == Max({u \in DOMAIN Plan[b] : RowsOf(b, u, k) # {}})
LastRow(b, k) == Plan[b][LastUpsert(b, k)][Max(RowsOf(b, LastUpsert(b, k), k))]
Image == [b \in Batch |-> [k \in Keys(b) |-> LastRow(b, k).props]]

\* Idempotent re-ingestion (schema.md, ports.rs: calling twice must not
\* create duplicates): after any number of attempts at a batch, failed,
\* crashed or complete, one that answers Ok leaves exactly what a single
\* undisturbed write would have made of the graph before the first.
Converges ==
  ~writer.running /\ writer.result = "ok" => graph = Over(Image[writer.batch], before)

\* A failed or crashed attempt only adds or updates what its batch names: any
\* other node or relationship is as it was before the first attempt.
FailureIsContained ==
  writer.batch # None =>
    /\ DOMAIN before \subseteq DOMAIN graph
    /\ \A k \in DOMAIN graph \ DOMAIN Image[writer.batch] :
          k \in DOMAIN before /\ graph[k] = before[k]

\* Why: whatever earlier attempts left, the last of the rows sent so far that
\* has some key is what the graph holds for it.
Sent(u, i) == u < writer.upsert \/ (u = writer.upsert /\ i <= writer.sent)
Overrides(u, i, v, j) == Upserts[v][j].key = Upserts[u][i].key /\ (u < v \/ (u = v /\ i < j))
SentRowsHold ==
  \A u \in DOMAIN Upserts : \A i \in DOMAIN Upserts[u] :
     /\ Sent(u, i)
     /\ \A v \in DOMAIN Upserts : \A j \in DOMAIN Upserts[v] : Sent(v, j) => ~Overrides(u, i, v, j)
     => /\ Upserts[u][i].key \in DOMAIN graph
        /\ graph[Upserts[u][i].key] = Upserts[u][i].props
WriterInv ==
  /\ graph = [k \in DOMAIN graph |-> graph[k]]
  /\ writer.running => SentRowsHold
  /\ Converges
  /\ FailureIsContained

\* Whoever reads the graph after an Ok finds every security group rule of
\* the batch, the unresolved ones too (ports.rs: "must still be written,
\* never dropped"), with its own flag and its own target.
SgRulesWritten ==
  \A b \in Batch : Wrote(b) =>
     \A e \in Edges(Content[b]) : IsSgRule(e) =>
        RuleEdge(e) \in DOMAIN graph /\ graph[RuleEdge(e)] = e.resolved

\* The count check of run_edge_upsert reports an end that is missing from
\* the batch, never one that a later statement would have brought.
EndpointErrorsAreReal ==
  ~writer.running /\ writer.result = "unresolved_endpoint" =>
    \E u \in DOMAIN Upserts : \E i \in DOMAIN Upserts[u] :
       \E end \in EndNodes(Upserts[u][i].key) : end[2] \notin Ids(Content[writer.batch], end[1])

\* Why: the nodes of a batch are there before its first relationship is sent.
SentKeysThere ==
  \A u \in DOMAIN Upserts : \A i \in DOMAIN Upserts[u] : Sent(u, i) => Upserts[u][i].key \in DOMAIN graph
EndpointsInv == (writer.running => SentKeysThere) /\ EndpointErrorsAreReal

\* What neo4j.rs says of HAS_RULE: two rules to the same ACL must never
\* collapse into one.  Refuted: ingress and egress rules of an ACL are
\* numbered apart, and the merge key leaves the direction out.
NaclRulesNeverCollapse ==
  \A b \in Batch : Wrote(b) =>
     \A e \in Edges(Content[b]) : e.type = "HAS_RULE" =>
        \E k \in Relationships("HAS_RULE") :
           k[2] = NodeKey("NetworkACL", e.from) /\ graph[k] = <<e.direction, e.rule>>

\* Every call of write_batch comes to an end, whatever its batch holds.
EveryWriteEnds == writer.running ~> ~writer.running
=============================================================================
