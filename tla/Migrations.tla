------------------------------ MODULE Migrations ------------------------------
(***************************************************************************)
(* The cypher migration runner of migrations.rs: any number of processes   *)
(* call run on the same database, each may fail or die at any point and be *)
(* run again.  One migration is two transactions, its statements and then  *)
(* its record, because Neo4j refuses a data write after a schema change.   *)
(*                                                                         *)
(* The database is modelled from how the runner uses it: a transaction's   *)
(* writes appear at its commit, all or none; an abandoned transaction is   *)
(* dropped; MERGE under a uniqueness constraint locks the value.           *)
(***************************************************************************)
EXTENDS Integers, Sequences

CONSTANTS
  Runner,        \* processes that call run
  Version,       \* the numeric prefixes of the migration files
  Statement,     \* schema elements the statements create IF NOT EXISTS
  Statements,    \* Statements[v]: the statements of version v, in file order
  MaxRuns        \* bound on the calls of run made by one process

ASSUME VersionAssumption == Version \subseteq Nat
ASSUME StatementsAssumption == Statements \in [Version -> Seq(Statement)]
ASSUME RunsAssumption == MaxRuns \in Nat

VARIABLES
  \* the database
  unique,            \* schema_migration_version_unique exists
  schema,            \* constraints and indexes committed
  nodes,             \* nodes[v]: number of SchemaMigration nodes of version v
  \* the call of run in progress in each process
  pc,
  already_applied,   \* versions read from the database, once
  todo,              \* versions the loop has not dealt with
  statement_index,   \* statements run in the open transaction
  creates,           \* MERGE found no node: its transaction will create one
  summary,           \* what run returns: versions applied, versions skipped
  runs               \* calls made so far

database == <<unique, schema, nodes>>
vars == <<unique, schema, nodes, pc, already_applied, todo, statement_index,
          creates, summary, runs>>

Effects(v) == {Statements[v][i] : i \in DOMAIN Statements[v]}
recorded == {v \in Version : nodes[v] > 0}

Ended == {"idle", "ok", "failed"}
Working == {"bootstrap", "read", "reading", "loop", "statements",
            "record", "recording"}

Init ==
  /\ unique = FALSE
  /\ schema = {}
  /\ nodes = [v \in Version |-> 0]
  /\ pc = [r \in Runner |-> "idle"]
  /\ already_applied = [r \in Runner |-> {}]
  /\ todo = [r \in Runner |-> {}]
  /\ statement_index = [r \in Runner |-> 0]
  /\ creates = [r \in Runner |-> FALSE]
  /\ summary = [r \in Runner |-> [applied |-> {}, skipped |-> {}]]
  /\ runs = [r \in Runner |-> 0]

Goto(r, label) == pc' = [pc EXCEPT ![r] = label]

\* Mutant: the versions are taken in the order of the table, that is any.
IsNext_TableOrder(r, v) == v \in todo[r]

\* ordered_migrations: the loop goes through the versions in numeric order
\* whatever the order of the table.
IsNext(r, v) == v \in todo[r] /\ \A u \in todo[r] \ {v} : v < u

-----------------------------------------------------------------------------
Call(r) ==
  /\ pc[r] \in Ended
  /\ runs[r] < MaxRuns
  /\ Goto(r, "bootstrap")
  /\ runs' = [runs EXCEPT ![r] = @ + 1]
  /\ already_applied' = [already_applied EXCEPT ![r] = {}]
  /\ todo' = [todo EXCEPT ![r] = Version]
  /\ statement_index' = [statement_index EXCEPT ![r] = 0]
  /\ creates' = [creates EXCEPT ![r] = FALSE]
  /\ summary' = [summary EXCEPT ![r] = [applied |-> {}, skipped |-> {}]]
  /\ UNCHANGED database

\* Mutant: migrations start without the constraint.
NoBootstrap(r) ==
  /\ pc[r] = "bootstrap"
  /\ Goto(r, "read")
  /\ UNCHANGED <<database, already_applied, todo, statement_index,
                 creates, summary, runs>>

bootstrap_schema_migration_constraint(r) ==
  /\ pc[r] = "bootstrap"
  /\ unique' = TRUE
  /\ Goto(r, "read")
  /\ UNCHANGED <<schema, nodes, already_applied, todo, statement_index,
                 creates, summary, runs>>

\* The rows are streamed: every version recorded when the query starts is
\* read, and any number of those recorded before it ends.
BeginRead(r) ==
  /\ pc[r] = "read"
  /\ already_applied' = [already_applied EXCEPT ![r] = recorded]
  /\ Goto(r, "reading")
  /\ UNCHANGED <<database, todo, statement_index, creates, summary, runs>>

EndRead(r) ==
  /\ pc[r] = "reading"
  /\ \E seen \in SUBSET recorded :
       /\ already_applied[r] \subseteq seen
       /\ already_applied' = [already_applied EXCEPT ![r] = seen]
  /\ Goto(r, "loop")
  /\ UNCHANGED <<database, todo, statement_index, creates, summary, runs>>

-----------------------------------------------------------------------------
(* The loop of run, and apply_version *)

\* Mutant: the loop stays at a version it skips.
Skip_Stays(r, v) ==
  /\ pc[r] = "loop"
  /\ IsNext(r, v)
  /\ v \in already_applied[r]
  /\ summary' = [summary EXCEPT ![r].skipped = @ \cup {v}]
  /\ UNCHANGED <<database, pc, already_applied, todo, statement_index,
                 creates, runs>>

Skip(r, v) ==
  /\ pc[r] = "loop"
  /\ IsNext(r, v)
  /\ v \in already_applied[r]
  /\ todo' = [todo EXCEPT ![r] = @ \ {v}]
  /\ summary' = [summary EXCEPT ![r].skipped = @ \cup {v}]
  /\ UNCHANGED <<database, pc, already_applied, statement_index, creates, runs>>

StartTransaction(r, v) ==
  /\ pc[r] = "loop"
  /\ IsNext(r, v)
  /\ v \notin already_applied[r]
  /\ statement_index' = [statement_index EXCEPT ![r] = 0]
  /\ Goto(r, "statements")
  /\ UNCHANGED <<database, already_applied, todo, creates, summary, runs>>

\* Mutant: each statement commits by itself.
RunStatement_AutoCommit(r, v) ==
  /\ pc[r] = "statements"
  /\ IsNext(r, v)
  /\ statement_index[r] < Len(Statements[v])
  /\ statement_index' = [statement_index EXCEPT ![r] = @ + 1]
  /\ schema' = schema \cup {Statements[v][statement_index[r] + 1]}
  /\ UNCHANGED <<unique, nodes, pc, already_applied, todo, creates, summary, runs>>

RunStatement(r, v) ==
  /\ pc[r] = "statements"
  /\ IsNext(r, v)
  /\ statement_index[r] < Len(Statements[v])
  /\ statement_index' = [statement_index EXCEPT ![r] = @ + 1]
  /\ UNCHANGED <<database, pc, already_applied, todo, creates, summary, runs>>

\* Mutant: a failed statement is passed over and the rest committed.
CommitStatements_Partial(r, v) ==
  /\ pc[r] = "statements"
  /\ IsNext(r, v)
  /\ schema' = schema \cup {Statements[v][i] : i \in 1 .. statement_index[r]}
  /\ Goto(r, "record") \/ Goto(r, "failed")
  /\ UNCHANGED <<unique, nodes, already_applied, todo, statement_index,
                 creates, summary, runs>>

\* The commit, whose answer may be lost: the call has failed, and the
\* statements have taken effect.
CommitStatements(r, v) ==
  /\ pc[r] = "statements"
  /\ IsNext(r, v)
  /\ statement_index[r] = Len(Statements[v])
  /\ schema' = schema \cup {Statements[v][i] : i \in 1 .. statement_index[r]}
  /\ Goto(r, "record") \/ Goto(r, "failed")
  /\ UNCHANGED <<unique, nodes, already_applied, todo, statement_index,
                 creates, summary, runs>>

\* MERGE: with the constraint, whoever comes second waits for the first
\* transaction to end; without it both would find no node.
MergeRecord(r, v) ==
  /\ pc[r] = "record"
  /\ IsNext(r, v)
  /\ unique => \A q \in Runner : ~(pc[q] = "recording" /\ IsNext(q, v))
  /\ creates' = [creates EXCEPT ![r] = v \notin recorded]
  /\ Goto(r, "recording")
  /\ UNCHANGED <<database, already_applied, todo, statement_index, summary, runs>>

CommitRecord(r, v) ==
  /\ pc[r] = "recording"
  /\ IsNext(r, v)
  /\ nodes' = [nodes EXCEPT ![v] = @ + IF creates[r] THEN 1 ELSE 0]
  /\ \/ /\ Goto(r, "loop")
        /\ todo' = [todo EXCEPT ![r] = @ \ {v}]
        /\ summary' = [summary EXCEPT ![r].applied = @ \cup {v}]
     \/ /\ Goto(r, "failed")
        /\ UNCHANGED <<todo, summary>>
  /\ UNCHANGED <<unique, schema, already_applied, statement_index, creates, runs>>

Return(r) ==
  /\ pc[r] = "loop"
  /\ todo[r] = {}
  /\ Goto(r, "ok")
  /\ UNCHANGED <<database, already_applied, todo, statement_index, creates,
                 summary, runs>>

\* Mutant: the error is swallowed and run returns what it has.
Fail_Swallowed(r) ==
  /\ pc[r] \in Working
  /\ Goto(r, "ok")
  /\ UNCHANGED <<database, already_applied, todo, statement_index, creates,
                 summary, runs>>

\* A call of the driver fails, and run returns the error; or the process
\* dies.  An open transaction is rolled back, by the code or by the server.
Fail(r) ==
  /\ pc[r] \in Working
  /\ Goto(r, "failed")
  /\ UNCHANGED <<database, already_applied, todo, statement_index, creates,
                 summary, runs>>

-----------------------------------------------------------------------------
Step(r) ==
  \/ bootstrap_schema_migration_constraint(r)
  \/ BeginRead(r)
  \/ EndRead(r)
  \/ \E v \in Version :
       \/ Skip(r, v)
       \/ StartTransaction(r, v)
       \/ RunStatement(r, v)
       \/ CommitStatements(r, v)
       \/ MergeRecord(r, v)
       \/ CommitRecord(r, v)
  \/ Return(r)

Next == \E r \in Runner : Call(r) \/ Step(r) \/ Fail(r)

\* A call in progress goes on: the runner awaits one driver call at a time.
\* Nothing obliges an operator to run it again.
Spec == Init /\ [][Next]_vars /\ \A r \in Runner : WF_vars(Step(r))

-----------------------------------------------------------------------------
(* Correctness *)

Ledger == INSTANCE MigrationLedger

\* Every variable keeps its type, and no transaction counts more statements
\* than its file holds.
TypeOK ==
  /\ unique \in BOOLEAN
  /\ schema \subseteq Statement
  /\ nodes \in [Version -> Nat]
  /\ pc \in [Runner -> Ended \cup Working]
  /\ already_applied \in [Runner -> SUBSET Version]
  /\ todo \in [Runner -> SUBSET Version]
  /\ statement_index \in [Runner -> Nat]
  /\ creates \in [Runner -> BOOLEAN]
  /\ summary \in [Runner -> [applied : SUBSET Version, skipped : SUBSET Version]]
  /\ runs \in [Runner -> 0 .. MaxRuns]
  /\ \A r \in Runner, v \in Version :
       pc[r] = "statements" /\ IsNext(r, v) =>
         statement_index[r] <= Len(Statements[v])

\* A recorded version has taken effect whole, although record and statements
\* are two transactions (migrations.rs:71 "never records a version whose
\* statements didn't fully commit").
RecordedComplete == \A v \in recorded : Effects(v) \subseteq schema

\* Versions are recorded without gaps, in numeric order, also when several
\* processes migrate at once and some of them fail.
RecordedInOrder ==
  \A v \in recorded, u \in Version : u < v => u \in recorded

\* Two processes that record the same version leave one node: the bootstrap
\* constraint comes before any MERGE.
RecordedOnce == \A v \in Version : nodes[v] <= 1

\* A call that returns Ok has dealt with every version, either applied or
\* skipped, and then the whole schema is there.
SummaryTruthful ==
  \A r \in Runner : pc[r] = "ok" =>
    /\ summary[r].applied \cup summary[r].skipped = Version
    /\ summary[r].applied \cap summary[r].skipped = {}
    /\ recorded = Version
    /\ \A v \in Version : Effects(v) \subseteq schema

-----------------------------------------------------------------------------
(* The inductive invariant of the proofs *)

InLoop == {"loop", "statements", "record", "recording", "ok"}

\* What process r knows at each point of its call: the versions it has dealt
\* with come before the others and are recorded, those it will skip are
\* recorded, and a version about to be recorded has taken effect.
RunnerInv(r) ==
  LET dealtWith == Version \ todo[r] IN
  /\ pc[r] \in InLoop \cup {"reading"} => already_applied[r] \subseteq recorded
  /\ pc[r] \in InLoop \cup {"read", "reading"} => unique
  /\ pc[r] \in {"bootstrap", "read", "reading"} =>
       /\ todo[r] = Version
       /\ summary[r] = [applied |-> {}, skipped |-> {}]
  /\ pc[r] \in InLoop =>
       /\ dealtWith \subseteq recorded
       /\ \A v \in dealtWith, u \in todo[r] : v < u
       /\ summary[r].applied \cup summary[r].skipped = dealtWith
       /\ summary[r].applied \cap summary[r].skipped = {}
  /\ pc[r] = "ok" => todo[r] = {}
  /\ pc[r] \in {"statements", "record", "recording"} =>
       \E v \in Version : IsNext(r, v)
  /\ pc[r] \in {"record", "recording"} =>
       \A v \in Version : IsNext(r, v) => Effects(v) \subseteq schema
  /\ pc[r] = "recording" =>
       \A v \in Version : IsNext(r, v) => (creates[r] <=> v \notin recorded)

\* At most one process at a time is between the MERGE of a version and its
\* commit.
OneMerges ==
  \A q, r \in Runner, v \in Version :
    /\ pc[q] = "recording" /\ IsNext(q, v)
    /\ pc[r] = "recording" /\ IsNext(r, v)
    => q = r

LedgerInv ==
  /\ RecordedComplete
  /\ RecordedInOrder
  /\ RecordedOnce
  /\ OneMerges
  /\ \A r \in Runner : RunnerInv(r)

-----------------------------------------------------------------------------
\* Concurrent, failing and repeated runs only ever do what the ledger allows.
ImplementsLedger == Ledger!Spec

\* A call of run comes to an end: no version is retried or waited for
\* for ever.
EveryRunReturns == \A r \in Runner : pc[r] \in Working ~> pc[r] \in Ended
=============================================================================
