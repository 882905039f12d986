--------------------------- MODULE MigrationsProofs ---------------------------
(***************************************************************************)
(* The migration runner keeps its promise for any number of processes,     *)
(* versions and statements, whichever calls fail.  LedgerInv says what a   *)
(* process knows at each point of its call; the rest is that what it knows *)
(* stays true while the other processes move.                              *)
(***************************************************************************)
EXTENDS Migrations, TLAPS

LEMMA NextUnique ==
  ASSUME TypeOK, NEW r \in Runner, NEW v, IsNext(r, v), NEW u, IsNext(r, u)
  PROVE  u = v /\ v \in Version
BY VersionAssumption DEF TypeOK, IsNext

-----------------------------------------------------------------------------
(* Type correctness *)

LEMMA InitType == Init => TypeOK
<1> SUFFICES ASSUME Init PROVE TypeOK
  OBVIOUS
<1>1. runs \in [Runner -> 0 .. MaxRuns]
  BY RunsAssumption DEF Init
<1>2. \A r \in Runner : pc[r] # "statements"
  BY DEF Init
<1>3. summary \in [Runner -> [applied : SUBSET Version, skipped : SUBSET Version]]
  BY DEF Init
<1>4. QED
  BY <1>1, <1>2, <1>3 DEF Init, TypeOK, Ended, Working

\* The last conjunct of TypeOK, for a process that does not move
LEMMA IndexStays ==
  ASSUME TypeOK, NEW q \in Runner, NEW v \in Version,
         pc'[q] = pc[q], todo'[q] = todo[q],
         statement_index'[q] = statement_index[q],
         pc'[q] = "statements", IsNext(q, v)'
  PROVE  statement_index'[q] <= Len(Statements[v])
BY DEF TypeOK, IsNext

LEMMA NextType == TypeOK /\ [Next]_vars => TypeOK'
<1> SUFFICES ASSUME TypeOK, [Next]_vars PROVE TypeOK'
  OBVIOUS
<1> DEFINE Types ==
      /\ unique \in BOOLEAN
      /\ schema \subseteq Statement
      /\ nodes \in [Version -> Nat]
      /\ pc \in [Runner -> Ended \cup Working]
      /\ already_applied \in [Runner -> SUBSET Version]
      /\ todo \in [Runner -> SUBSET Version]
      /\ statement_index \in [Runner -> Nat]
      /\ creates \in [Runner -> BOOLEAN]
      /\ summary \in [Runner -> [applied : SUBSET Version, skipped : SUBSET Version]]
      /\ runs \in [Runner -> 0 .. MaxRuns]
    Bounded(q) == \A v \in Version : pc[q] = "statements" /\ IsNext(q, v) =>
                    statement_index[q] <= Len(Statements[v])
<1>0. Types
  BY DEF TypeOK
<1> USE DEF Ended, Working, Goto, database
<1>1. ASSUME NEW r \in Runner, Call(r) PROVE TypeOK'
  <2>1. Types'
    BY <1>0, <1>1, RunsAssumption DEF Call
  <2>2. ASSUME NEW q \in Runner PROVE Bounded(q)'
    BY <1>0, <1>1, IndexStays DEF Call
  <2>3. QED
    BY <2>1, <2>2 DEF TypeOK
<1>2. ASSUME NEW r \in Runner, bootstrap_schema_migration_constraint(r) PROVE TypeOK'
  <2>1. Types'
    BY <1>0, <1>2 DEF bootstrap_schema_migration_constraint
  <2>2. ASSUME NEW q \in Runner PROVE Bounded(q)'
    BY <1>0, <1>2, IndexStays DEF bootstrap_schema_migration_constraint
  <2>3. QED
    BY <2>1, <2>2 DEF TypeOK
<1>3. ASSUME NEW r \in Runner, BeginRead(r) \/ EndRead(r) PROVE TypeOK'
  <2>1. Types'
    BY <1>0, <1>3 DEF BeginRead, EndRead, recorded
  <2>2. ASSUME NEW q \in Runner PROVE Bounded(q)'
    BY <1>0, <1>3, IndexStays DEF BeginRead, EndRead
  <2>3. QED
    BY <2>1, <2>2 DEF TypeOK
<1>4. ASSUME NEW r \in Runner, NEW v \in Version, Skip(r, v) PROVE TypeOK'
  <2>1. Types'
    BY <1>0, <1>4 DEF Skip
  <2>2. ASSUME NEW q \in Runner PROVE Bounded(q)'
    BY <1>0, <1>4, IndexStays DEF Skip
  <2>3. QED
    BY <2>1, <2>2 DEF TypeOK
<1>5. ASSUME NEW r \in Runner, NEW v \in Version, StartTransaction(r, v) PROVE TypeOK'
  <2>1. Types'
    BY <1>0, <1>5 DEF StartTransaction
  <2>2. ASSUME NEW q \in Runner PROVE Bounded(q)'
    <3>1. CASE q = r
      <4>1. \A u \in Version : Len(Statements[u]) \in Nat
        BY StatementsAssumption
      <4>2. QED
        BY <1>0, <1>5, <3>1, <4>1 DEF StartTransaction
    <3>2. CASE q # r
      BY <1>0, <1>5, <3>2, IndexStays DEF StartTransaction
    <3>3. QED
      BY <3>1, <3>2
  <2>3. QED
    BY <2>1, <2>2 DEF TypeOK
<1>6. ASSUME NEW r \in Runner, NEW v \in Version, RunStatement(r, v) PROVE TypeOK'
  <2>1. Types'
    BY <1>0, <1>6 DEF RunStatement
  <2>2. ASSUME NEW q \in Runner PROVE Bounded(q)'
    <3>1. CASE q = r
      <4>1. \A u \in Version : IsNext(r, u)' => u = v
        BY <1>6, NextUnique DEF RunStatement, IsNext
      <4>2. Len(Statements[v]) \in Nat
        BY StatementsAssumption
      <4>3. statement_index'[r] <= Len(Statements[v])
        BY <1>0, <1>6, <4>2 DEF RunStatement
      <4>4. QED
        BY <3>1, <4>1, <4>3
    <3>2. CASE q # r
      BY <1>0, <1>6, <3>2, IndexStays DEF RunStatement
    <3>3. QED
      BY <3>1, <3>2
  <2>3. QED
    BY <2>1, <2>2 DEF TypeOK
<1>7. ASSUME NEW r \in Runner, NEW v \in Version, CommitStatements(r, v) PROVE TypeOK'
  <2>1. {Statements[v][i] : i \in 1 .. statement_index[r]} \subseteq Statement
    <3>1. Statements[v] \in Seq(Statement)
      BY StatementsAssumption
    <3>2. statement_index[r] = Len(Statements[v])
      BY <1>7 DEF CommitStatements
    <3>3. QED
      BY <3>1, <3>2
  <2>2. Types'
    BY <1>0, <1>7, <2>1 DEF CommitStatements
  <2>3. ASSUME NEW q \in Runner PROVE Bounded(q)'
    BY <1>0, <1>7, IndexStays DEF CommitStatements
  <2>4. QED
    BY <2>2, <2>3 DEF TypeOK
<1>8. ASSUME NEW r \in Runner, NEW v \in Version, MergeRecord(r, v) PROVE TypeOK'
  <2>1. Types'
    BY <1>0, <1>8 DEF MergeRecord
  <2>2. ASSUME NEW q \in Runner PROVE Bounded(q)'
    BY <1>0, <1>8, IndexStays DEF MergeRecord
  <2>3. QED
    BY <2>1, <2>2 DEF TypeOK
<1>9. ASSUME NEW r \in Runner, NEW v \in Version, CommitRecord(r, v) PROVE TypeOK'
  <2>1. nodes' \in [Version -> Nat]
    <3>1. nodes' = [nodes EXCEPT ![v] = nodes[v] + IF creates[r] THEN 1 ELSE 0]
      BY <1>9 DEF CommitRecord
    <3>2. CASE creates[r]
      BY <1>0, <3>1, <3>2
    <3>3. CASE ~creates[r]
      BY <1>0, <3>1, <3>3
    <3>4. QED
      BY <3>2, <3>3
  <2>2. /\ pc' \in [Runner -> Ended \cup Working]
        /\ todo' \in [Runner -> SUBSET Version]
        /\ summary' \in [Runner -> [applied : SUBSET Version, skipped : SUBSET Version]]
    <3>1. CASE UNCHANGED <<todo, summary>>
      BY <1>0, <1>9, <3>1 DEF CommitRecord
    <3>2. CASE /\ todo' = [todo EXCEPT ![r] = @ \ {v}]
               /\ summary' = [summary EXCEPT ![r].applied = @ \cup {v}]
      <4>1. summary' \in [Runner -> [applied : SUBSET Version, skipped : SUBSET Version]]
        BY <1>0, <3>2
      <4>2. QED
        BY <1>0, <1>9, <3>2, <4>1 DEF CommitRecord
    <3>3. QED
      BY <1>9, <3>1, <3>2 DEF CommitRecord
  <2>3. Types'
    BY <1>0, <1>9, <2>1, <2>2 DEF CommitRecord
  <2>4. ASSUME NEW q \in Runner PROVE Bounded(q)'
    BY <1>0, <1>9, IndexStays DEF CommitRecord
  <2>5. QED
    BY <2>3, <2>4 DEF TypeOK
<1>10. ASSUME NEW r \in Runner, Return(r) \/ Fail(r) PROVE TypeOK'
  <2>1. Types'
    BY <1>0, <1>10 DEF Return, Fail
  <2>2. ASSUME NEW q \in Runner PROVE Bounded(q)'
    BY <1>0, <1>10, IndexStays DEF Return, Fail
  <2>3. QED
    BY <2>1, <2>2 DEF TypeOK
<1>11. CASE UNCHANGED vars
  BY <1>11 DEF vars, TypeOK, IsNext
<1>12. QED
  BY <1>1, <1>2, <1>3, <1>4, <1>5, <1>6, <1>7, <1>8, <1>9, <1>10, <1>11
    DEF Next, Step

\* Every variable of the runner keeps its type, and a transaction never runs
\* more statements than its file holds (migrations.rs, apply_version).
THEOREM TypeCorrect == Spec => []TypeOK
BY InitType, NextType, PTL DEF Spec

-----------------------------------------------------------------------------
(* What a step leaves alone *)

Unmoved(q) ==
  /\ pc'[q] = pc[q]
  /\ already_applied'[q] = already_applied[q]
  /\ todo'[q] = todo[q]
  /\ creates'[q] = creates[q]
  /\ summary'[q] = summary[q]

LEMMA NextStays ==
  ASSUME NEW q, NEW v, todo'[q] = todo[q]
  PROVE  IsNext(q, v)' <=> IsNext(q, v)
BY DEF IsNext

\* What a process knows stays true while the database only grows, except by a
\* record it was about to create itself.
LEMMA KnowledgeStays ==
  ASSUME NEW q \in Runner, RunnerInv(q), Unmoved(q),
         recorded \subseteq recorded', schema \subseteq schema', unique => unique',
         \A v \in Version :
           pc[q] = "recording" /\ IsNext(q, v) /\ v \in recorded' => v \in recorded
  PROVE  RunnerInv(q)'
<1>1. \A v : IsNext(q, v)' <=> IsNext(q, v)
  BY NextStays DEF Unmoved
<1>2. \A v : Effects(v)' = Effects(v)
  BY DEF Effects
<1>3. QED
  BY <1>1, <1>2 DEF RunnerInv, Unmoved

LEMMA MergersStay ==
  ASSUME OneMerges,
         \A q \in Runner : pc'[q] = "recording" =>
           pc[q] = "recording" /\ todo'[q] = todo[q]
  PROVE  OneMerges'
<1>1. \A q \in Runner, v \in Version : pc'[q] = "recording" /\ IsNext(q, v)'
        => pc[q] = "recording" /\ IsNext(q, v)
  BY NextStays
<1>2. QED
  BY <1>1 DEF OneMerges

LEMMA DatabaseStays ==
  ASSUME RecordedComplete, RecordedInOrder, RecordedOnce,
         UNCHANGED nodes, schema \subseteq schema'
  PROVE  /\ RecordedComplete' /\ RecordedInOrder' /\ RecordedOnce'
         /\ recorded' = recorded
<1>1. recorded' = recorded
  BY DEF recorded
<1>2. \A v : Effects(v)' = Effects(v)
  BY DEF Effects
<1>3. QED
  BY <1>1, <1>2 DEF RecordedComplete, RecordedInOrder, RecordedOnce

\* A process that moves on without touching the records, and without a MERGE
LEMMA LocalStep ==
  ASSUME TypeOK, LedgerInv, NEW r \in Runner, UNCHANGED nodes,
         schema \subseteq schema', unique => unique',
         \A q \in Runner \ {r} : Unmoved(q),
         pc'[r] # "recording", RunnerInv(r)'
  PROVE  LedgerInv'
<1>1. /\ RecordedComplete' /\ RecordedInOrder' /\ RecordedOnce'
      /\ recorded' = recorded
  BY DatabaseStays DEF LedgerInv
<1>2. OneMerges'
  BY MergersStay DEF LedgerInv, Unmoved
<1>3. \A q \in Runner : RunnerInv(q)'
  BY <1>1, KnowledgeStays DEF LedgerInv
<1>4. QED
  BY <1>1, <1>2, <1>3 DEF LedgerInv

-----------------------------------------------------------------------------
(* The invariant *)

LEMMA InitLedger == Init => LedgerInv
BY DEF Init, LedgerInv, RecordedComplete, RecordedInOrder, RecordedOnce,
  OneMerges, RunnerInv, recorded, InLoop

LEMMA NextLedger == TypeOK /\ LedgerInv /\ [Next]_vars => LedgerInv'
<1> SUFFICES ASSUME TypeOK, LedgerInv, [Next]_vars PROVE LedgerInv'
  OBVIOUS
<1> USE DEF Goto, database, InLoop
<1>0. /\ pc \in [Runner -> Ended \cup Working]
      /\ nodes \in [Version -> Nat]
      /\ already_applied \in [Runner -> SUBSET Version]
      /\ todo \in [Runner -> SUBSET Version]
      /\ statement_index \in [Runner -> Nat]
      /\ creates \in [Runner -> BOOLEAN]
      /\ summary \in [Runner -> [applied : SUBSET Version, skipped : SUBSET Version]]
  BY DEF TypeOK
<1>1. ASSUME NEW r \in Runner, Call(r) PROVE LedgerInv'
  <2>1. RunnerInv(r)'
    BY <1>0, <1>1 DEF Call, RunnerInv
  <2>2. QED
    BY <1>0, <1>1, <2>1, LocalStep DEF Call, Unmoved
<1>2. ASSUME NEW r \in Runner, bootstrap_schema_migration_constraint(r)
      PROVE  LedgerInv'
  <2>1. RunnerInv(r)'
    BY <1>0, <1>2 DEF bootstrap_schema_migration_constraint, RunnerInv, LedgerInv
  <2>2. QED
    BY <1>0, <1>2, <2>1, LocalStep DEF bootstrap_schema_migration_constraint, Unmoved
<1>3. ASSUME NEW r \in Runner, BeginRead(r) PROVE LedgerInv'
  <2>1. recorded' = recorded
    BY <1>3 DEF BeginRead, recorded
  <2>2. RunnerInv(r)'
    BY <1>0, <1>3, <2>1 DEF BeginRead, RunnerInv, LedgerInv
  <2>3. QED
    BY <1>0, <1>3, <2>2, LocalStep DEF BeginRead, Unmoved
<1>4. ASSUME NEW r \in Runner, EndRead(r) PROVE LedgerInv'
  <2>1. recorded' = recorded
    BY <1>4 DEF EndRead, recorded
  <2>2. already_applied'[r] \subseteq recorded /\ pc'[r] = "loop"
    BY <1>0, <1>4 DEF EndRead
  <2>3. /\ todo'[r] = Version /\ unique'
        /\ summary'[r] = [applied |-> {}, skipped |-> {}]
    BY <1>4 DEF EndRead, RunnerInv, LedgerInv
  <2>4. RunnerInv(r)'
    BY <2>1, <2>2, <2>3 DEF RunnerInv
  <2>5. QED
    BY <1>0, <1>4, <2>4, LocalStep DEF EndRead, Unmoved
<1>5. ASSUME NEW r \in Runner, NEW v \in Version, Skip(r, v) PROVE LedgerInv'
  <2>1. recorded' = recorded
    BY <1>5 DEF Skip, recorded
  <2>2. /\ todo'[r] = todo[r] \ {v} /\ pc'[r] = "loop" /\ pc[r] = "loop"
        /\ summary'[r].skipped = summary[r].skipped \cup {v}
        /\ summary'[r].applied = summary[r].applied
        /\ already_applied'[r] = already_applied[r]
        /\ unique' = unique
    BY <1>0, <1>5 DEF Skip
  <2>3. v \in recorded /\ v \in todo[r] /\ \A u \in todo[r] \ {v} : v < u
    BY <1>5, <2>2 DEF Skip, IsNext, RunnerInv, LedgerInv
  <2>4. Version \ todo'[r] = (Version \ todo[r]) \cup {v}
    BY <1>0, <2>2, <2>3
  <2>5. RunnerInv(r)'
    BY <2>1, <2>2, <2>3, <2>4 DEF RunnerInv, LedgerInv
  <2>6. QED
    BY <1>0, <1>5, <2>5, LocalStep DEF Skip, Unmoved
<1>6. ASSUME NEW r \in Runner, NEW v \in Version, StartTransaction(r, v)
      PROVE  LedgerInv'
  <2>1. recorded' = recorded
    BY <1>6 DEF StartTransaction, recorded
  <2>2. IsNext(r, v)'
    BY <1>6, NextStays DEF StartTransaction
  <2>3. RunnerInv(r)'
    BY <1>0, <1>6, <2>1, <2>2 DEF StartTransaction, RunnerInv, LedgerInv
  <2>4. QED
    BY <1>0, <1>6, <2>3, LocalStep DEF StartTransaction, Unmoved
<1>7. ASSUME NEW r \in Runner, NEW v \in Version, RunStatement(r, v)
      PROVE  LedgerInv'
  <2>1. recorded' = recorded
    BY <1>7 DEF RunStatement, recorded
  <2>2. Unmoved(r)
    BY <1>7 DEF RunStatement, Unmoved
  <2>3. RunnerInv(r)'
    BY <1>7, <2>1, <2>2, KnowledgeStays DEF RunStatement, LedgerInv
  <2>4. QED
    BY <1>0, <1>7, <2>3, LocalStep DEF RunStatement, Unmoved
<1>8. ASSUME NEW r \in Runner, NEW v \in Version, CommitStatements(r, v)
      PROVE  LedgerInv'
  <2>1. recorded' = recorded
    BY <1>8 DEF CommitStatements, recorded
  <2>2. Effects(v) \subseteq schema'
    <3>1. DOMAIN Statements[v] = 1 .. statement_index[r]
      BY <1>8, StatementsAssumption DEF CommitStatements
    <3>2. QED
      BY <1>8, <3>1 DEF CommitStatements, Effects
  <2>3. \A u \in Version : IsNext(r, u)' => u = v
    BY <1>8, NextStays, NextUnique DEF CommitStatements
  <2>4. \A u \in Version : IsNext(r, u)' => Effects(u)' \subseteq schema'
    BY <2>2, <2>3 DEF Effects
  <2>5. IsNext(r, v)'
    BY <1>8, NextStays DEF CommitStatements
  <2>6. pc'[r] \in {"record", "failed"} /\ pc[r] = "statements"
    BY <1>0, <1>8 DEF CommitStatements
  <2>7. RunnerInv(r)'
    BY <1>8, <2>1, <2>4, <2>5, <2>6 DEF CommitStatements, RunnerInv, LedgerInv
  <2>8. QED
    BY <1>0, <1>8, <2>6, <2>7, LocalStep DEF CommitStatements, Unmoved
<1>9. ASSUME NEW r \in Runner, NEW v \in Version, MergeRecord(r, v)
      PROVE  LedgerInv'
  <2>1. /\ RecordedComplete' /\ RecordedInOrder' /\ RecordedOnce'
        /\ recorded' = recorded
    BY <1>9, DatabaseStays DEF MergeRecord, LedgerInv
  <2>2. \A q \in Runner : \A u : IsNext(q, u)' <=> IsNext(q, u)
    BY <1>9, NextStays DEF MergeRecord
  <2>3. \A q \in Runner \ {r} : Unmoved(q)
    BY <1>0, <1>9 DEF MergeRecord, Unmoved
  <2>4. \A q \in Runner : ~(pc[q] = "recording" /\ IsNext(q, v))
    BY <1>9 DEF MergeRecord, RunnerInv, LedgerInv
  <2>5. OneMerges'
    <3>1. \A u : IsNext(r, u) => u = v
      BY <1>9, NextUnique DEF MergeRecord
    <3>2. QED
      BY <2>2, <2>3, <2>4, <3>1 DEF OneMerges, LedgerInv, Unmoved
  <2>6. RunnerInv(r)'
    <3>1. \A u \in Version : IsNext(r, u) => u = v
      BY <1>9, NextUnique DEF MergeRecord
    <3>2. creates'[r] <=> v \notin recorded
      BY <1>0, <1>9 DEF MergeRecord
    <3>3. pc[r] = "record" /\ pc'[r] = "recording" /\ UNCHANGED <<unique, schema, todo,
            already_applied, summary>>
      BY <1>0, <1>9 DEF MergeRecord
    <3>4. \A u : Effects(u)' = Effects(u)
      BY DEF Effects
    <3>5. QED
      BY <2>1, <2>2, <3>1, <3>2, <3>3, <3>4 DEF RunnerInv, LedgerInv
  <2>7. \A q \in Runner : RunnerInv(q)'
    BY <1>9, <2>1, <2>3, <2>6, KnowledgeStays DEF MergeRecord, LedgerInv
  <2>8. QED
    BY <2>1, <2>5, <2>7 DEF LedgerInv
<1>10. ASSUME NEW r \in Runner, NEW v \in Version, CommitRecord(r, v)
       PROVE  LedgerInv'
  <2>1. /\ pc[r] = "recording" /\ IsNext(r, v)
        /\ pc'[r] \in {"loop", "failed"}
        /\ nodes' = [nodes EXCEPT ![v] = nodes[v] + IF creates[r] THEN 1 ELSE 0]
        /\ UNCHANGED <<unique, schema, already_applied, creates>>
    BY <1>0, <1>10 DEF CommitRecord
  <2>2. /\ Effects(v) \subseteq schema
        /\ \A u \in Version : u < v => u \in recorded
        /\ creates[r] <=> v \notin recorded
        /\ unique
    <3>1. \A u \in Version : u < v => u \notin todo[r]
      BY <1>0, <2>1, VersionAssumption DEF IsNext
    <3>2. QED
      BY <2>1, <3>1 DEF RunnerInv, LedgerInv
  <2>3. /\ recorded \subseteq recorded'
        /\ recorded' \subseteq recorded \cup {v}
        /\ RecordedOnce'
    <3>1. CASE creates[r]
      <4>1. nodes' = [nodes EXCEPT ![v] = nodes[v] + 1]
        BY <2>1, <3>1
      <4>2. nodes[v] = 0
        BY <1>0, <2>2, <3>1 DEF recorded
      <4>3. QED
        BY <1>0, <4>1, <4>2 DEF recorded, RecordedOnce, LedgerInv
    <3>2. CASE ~creates[r]
      <4>1. nodes' = nodes
        BY <1>0, <2>1, <3>2
      <4>2. QED
        BY <4>1 DEF recorded, RecordedOnce, LedgerInv
    <3>3. QED
      BY <3>1, <3>2
  <2>4. RecordedComplete' /\ RecordedInOrder'
    <3>1. \A u : Effects(u)' = Effects(u)
      BY DEF Effects
    <3>2. RecordedComplete'
      BY <2>1, <2>2, <2>3, <3>1 DEF RecordedComplete, LedgerInv
    <3>3. RecordedInOrder'
      BY <2>2, <2>3 DEF RecordedInOrder, LedgerInv
    <3>4. QED
      BY <3>2, <3>3
  <2>5. \A q \in Runner \ {r} : Unmoved(q)
    BY <1>0, <1>10 DEF CommitRecord, Unmoved
  <2>6. OneMerges'
    BY <2>1, <2>5, MergersStay DEF LedgerInv, Unmoved
  <2>7. ASSUME NEW q \in Runner \ {r} PROVE RunnerInv(q)'
    <3>1. ~(pc[q] = "recording" /\ IsNext(q, v))
      BY <2>1 DEF OneMerges, LedgerInv
    <3>2. QED
      BY <2>1, <2>3, <2>5, <3>1, KnowledgeStays DEF LedgerInv
  <2>8. RunnerInv(r)'
    <3>1. CASE pc'[r] = "failed"
      BY <3>1 DEF RunnerInv
    <3>2. CASE pc'[r] # "failed"
      <4>1. /\ pc'[r] = "loop"
            /\ todo'[r] = todo[r] \ {v}
            /\ summary'[r].applied = summary[r].applied \cup {v}
            /\ summary'[r].skipped = summary[r].skipped
        BY <1>0, <1>10, <3>2 DEF CommitRecord
      <4>2. v \in todo[r] /\ \A u \in todo[r] \ {v} : v < u
        BY <2>1 DEF IsNext
      <4>3. Version \ todo'[r] = (Version \ todo[r]) \cup {v}
        BY <1>0, <4>1, <4>2
      <4>4. v \in recorded'
        <5>1. CASE creates[r]
          BY <1>0, <2>1, <5>1 DEF recorded
        <5>2. CASE ~creates[r]
          BY <2>2, <2>3, <5>2
        <5>3. QED
          BY <5>1, <5>2
      <4>5. /\ already_applied[r] \subseteq recorded
            /\ Version \ todo[r] \subseteq recorded
            /\ \A w \in Version \ todo[r], u \in todo[r] : w < u
            /\ summary[r].applied \cup summary[r].skipped = Version \ todo[r]
            /\ summary[r].applied \cap summary[r].skipped = {}
        BY <2>1 DEF RunnerInv, LedgerInv
      <4>6. QED
        BY <2>1, <2>2, <2>3, <4>1, <4>2, <4>3, <4>4, <4>5 DEF RunnerInv
    <3>3. QED
      BY <3>1, <3>2
  <2>9. QED
    BY <2>3, <2>4, <2>6, <2>7, <2>8 DEF LedgerInv
<1>11. ASSUME NEW r \in Runner, Return(r) PROVE LedgerInv'
  <2>1. recorded' = recorded
    BY <1>11 DEF Return, recorded
  <2>2. RunnerInv(r)'
    BY <1>0, <1>11, <2>1 DEF Return, RunnerInv, LedgerInv
  <2>3. QED
    BY <1>0, <1>11, <2>2, LocalStep DEF Return, Unmoved
<1>12. ASSUME NEW r \in Runner, Fail(r) PROVE LedgerInv'
  <2>1. RunnerInv(r)'
    BY <1>0, <1>12 DEF Fail, RunnerInv
  <2>2. QED
    BY <1>0, <1>12, <2>1, LocalStep DEF Fail, Unmoved
<1>13. CASE UNCHANGED vars
  <2>1. /\ RecordedComplete' /\ RecordedInOrder' /\ RecordedOnce'
        /\ recorded' = recorded
    BY <1>13, DatabaseStays DEF vars, LedgerInv
  <2>2. OneMerges'
    BY <1>13, MergersStay DEF vars, LedgerInv
  <2>3. \A q \in Runner : RunnerInv(q)'
    BY <1>13, <2>1, KnowledgeStays DEF vars, LedgerInv, Unmoved
  <2>4. QED
    BY <2>1, <2>2, <2>3 DEF LedgerInv
<1>14. QED
  BY <1>1, <1>2, <1>3, <1>4, <1>5, <1>6, <1>7, <1>8, <1>9, <1>10, <1>11,
    <1>12, <1>13 DEF Next, Step

-----------------------------------------------------------------------------
\* What the processes know, and what the database holds, is right throughout.
THEOREM LedgerCorrect == Spec => [](TypeOK /\ LedgerInv)
<1>1. Init => TypeOK /\ LedgerInv
  BY InitType, InitLedger
<1>2. TypeOK /\ LedgerInv /\ [Next]_vars => (TypeOK /\ LedgerInv)'
  BY NextType, NextLedger
<1>3. QED
  BY <1>1, <1>2, PTL DEF Spec

\* No version is recorded whose statements did not all commit
\* (migrations.rs:71).
THEOREM RecordsAreComplete == Spec => []RecordedComplete
<1>1. TypeOK /\ LedgerInv => RecordedComplete
  BY DEF LedgerInv
<1>2. QED
  BY <1>1, LedgerCorrect, PTL

\* No version is recorded before an earlier one, whichever runner records it
\* (migrations.rs, run: ascending order).
THEOREM RecordsAreInOrder == Spec => []RecordedInOrder
<1>1. TypeOK /\ LedgerInv => RecordedInOrder
  BY DEF LedgerInv
<1>2. QED
  BY <1>1, LedgerCorrect, PTL

\* No version is recorded twice, whoever records it side by side: the
\* bootstrap constraint comes before any MERGE (migrations.rs, run).
THEOREM RecordsAreUnique == Spec => []RecordedOnce
<1>1. TypeOK /\ LedgerInv => RecordedOnce
  BY DEF LedgerInv
<1>2. QED
  BY <1>1, LedgerCorrect, PTL

\* A call that returns Ok leaves the whole schema in place and tells what it
\* applied and what it skipped (migrations.rs, run).
THEOREM SummaryIsTruthful == Spec => []SummaryTruthful
<1>1. TypeOK /\ LedgerInv => SummaryTruthful
  <2> SUFFICES ASSUME TypeOK, LedgerInv, NEW r \in Runner, pc[r] = "ok"
               PROVE  /\ summary[r].applied \cup summary[r].skipped = Version
                      /\ summary[r].applied \cap summary[r].skipped = {}
                      /\ recorded = Version
                      /\ \A v \in Version : Effects(v) \subseteq schema
    BY DEF SummaryTruthful
  <2>1. Version \ todo[r] = Version
    BY DEF LedgerInv, RunnerInv
  <2>2. recorded = Version
    BY <2>1 DEF LedgerInv, RunnerInv, InLoop, recorded
  <2>3. QED
    BY <2>1, <2>2 DEF LedgerInv, RunnerInv, InLoop, RecordedComplete
<1>2. QED
  BY <1>1, LedgerCorrect, PTL

\* Every step of every process is a step of the ledger or leaves it alone:
\* migrations take effect whole, in order, and before their record.
THEOREM RefinesLedger == Spec => ImplementsLedger
<1>1. Init => Ledger!Init
  BY DEF Init, Ledger!Init, recorded
<1>2. TypeOK /\ LedgerInv /\ LedgerInv' /\ [Next]_vars => [Ledger!Next]_(Ledger!vars)
  <2> SUFFICES ASSUME TypeOK, LedgerInv, LedgerInv', [Next]_vars,
                      ~UNCHANGED <<schema, recorded>>
               PROVE  Ledger!Next
    BY DEF Ledger!vars
  <2>1. PICK r \in Runner, v \in Version :
          CommitStatements(r, v) \/ CommitRecord(r, v)
    BY DEF Next, Step, Call, bootstrap_schema_migration_constraint, BeginRead,
      EndRead, Skip, StartTransaction, RunStatement, MergeRecord, Return, Fail,
      vars, database, recorded
  <2>2. \A u \in Version : u < v => u \in recorded
    <3>1. \A u \in Version : u < v => u \notin todo[r]
      BY <2>1, VersionAssumption DEF CommitStatements, CommitRecord, IsNext, TypeOK
    <3>2. QED
      BY <2>1, <3>1 DEF CommitStatements, CommitRecord, LedgerInv, RunnerInv, InLoop
  <2>3. CASE CommitStatements(r, v)
    <3>1. DOMAIN Statements[v] = 1 .. statement_index[r]
      BY <2>3, StatementsAssumption DEF CommitStatements
    <3>2. schema' = schema \cup Effects(v) /\ recorded' = recorded
      BY <2>3, <3>1 DEF CommitStatements, Effects, recorded
    <3>3. QED
      BY <2>2, <3>2 DEF Ledger!Next, Ledger!Apply, Ledger!PredecessorsRecorded
  <2>4. CASE CommitRecord(r, v)
    <3>1. schema' = schema /\ Effects(v) \subseteq schema
      BY <2>4 DEF CommitRecord, LedgerInv, RunnerInv
    <3>2. nodes \in [Version -> Nat] /\ creates[r] \in BOOLEAN
      BY DEF TypeOK
    <3>3. nodes' = [nodes EXCEPT ![v] = nodes[v] + IF creates[r] THEN 1 ELSE 0]
      BY <2>4 DEF CommitRecord
    <3>4. creates[r]
      BY <3>1, <3>2, <3>3 DEF recorded
    <3>5. recorded' = recorded \cup {v}
      BY <3>2, <3>3, <3>4 DEF recorded
    <3>6. QED
      BY <2>2, <3>1, <3>5 DEF Ledger!Next, Ledger!Record, Ledger!PredecessorsRecorded
  <2>5. QED
    BY <2>1, <2>3, <2>4
<1>3. QED
  BY <1>1, <1>2, LedgerCorrect, PTL DEF Spec, ImplementsLedger, Ledger!Spec
=============================================================================
