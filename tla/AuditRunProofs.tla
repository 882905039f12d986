--------------------------- MODULE AuditRunProofs ---------------------------
(***************************************************************************)
(* For any number of processes, configs, migrations and candidates, and    *)
(* whatever fails: a run's exit code keeps its promise.  RunInv says what  *)
(* a run has done to the database at each of its stages; other runs cannot *)
(* undo it, since the database only grows and no two runs share a number.  *)
(***************************************************************************)
EXTENDS AuditRun, FiniteSetTheorems, SequenceTheorems, TLAPS

\* Stages at which a run has written nothing, knows its account, has
\* migrated, has its boundary, and has ingested.
Reading == {"usage", "config", "preflight", "sdk", "account", "connect", "migrate", "boundary", "collect"}
Identified == {"connect", "migrate", "boundary", "collect", "write", "assemble", "evaluate"}
Constrained == {"boundary", "collect", "write", "assemble", "evaluate"}
Bounded == {"collect", "write", "assemble", "evaluate"}
Ingested == {"assemble", "evaluate"}

Written(p) == db.ingested[run[p].id]

RunInv(p) ==
  /\ run[p].stage \in Reading => Written(p) = "none"
  /\ run[p].stage \in Identified => run[p].account = AccountOf[AWS_PROFILE]
  /\ run[p].stage \in Constrained => Migrated
  /\ run[p].stage \in Bounded => run[p].account \in db.boundaries
  /\ run[p].stage = "write" => Written(p) # "all"
  /\ run[p].stage \in Ingested => Written(p) = "all"
  /\ Exits(p, "0") \/ Exits(p, "2") => Gathered(p)

AuditInv ==
  /\ \A p \in Proc : RunInv(p)
  /\ \A p, q \in Proc : run[p].id = run[q].id => p = q \/ run[p].id = 0
  /\ \A i \in 1..MaxRuns : i > begun => db.ingested[i] = "none"
  /\ db.boundaries # {} \/ (\E i \in 1..MaxRuns : db.ingested[i] # "none") => Migrated

\* What a step of p leaves alone.
OnlyRun(p) == \A q \in Proc \ {p} : run'[q] = run[q]
DbGrows(p) ==
  /\ db' \in Database
  /\ Migrated => Migrated'
  /\ db.boundaries \subseteq db.boundaries'
  /\ \A i \in 1..MaxRuns : i # run[p].id => db'.ingested[i] = db.ingested[i]

-----------------------------------------------------------------------------
(* Type correctness *)

LEMMA BegunIsTyped ==
  ASSUME NEW stage \in Stages, NEW id \in 0..MaxRuns, NEW command \in Commands, NEW config \in Configs
  PROVE  New(stage, id, command, config) \in RunRecord
<1>1. <<>> \in Seq(Verdict)
  OBVIOUS
<1>2. QED
  BY <1>1 DEF New, RunRecord

LEMMA NewFields ==
  ASSUME NEW stage, NEW id, NEW command, NEW config
  PROVE  LET r == New(stage, id, command, config) IN
         /\ r.stage = stage /\ r.id = id /\ r.command = command /\ r.account = None
         /\ r.open = 0 /\ r.findings = <<>> /\ r.code = None
BY DEF New

LEMMA InitType == Init => TypeOK
<1> SUFFICES ASSUME Init PROVE TypeOK
  OBVIOUS
<1>1. (CHOOSE c \in Configs : TRUE) \in Configs
  BY ConfigAssumption
<1>0. 0 \in 0..MaxRuns
  BY BoundsAssumption
<1>2. Idle \in RunRecord
  BY <1>0, <1>1, BegunIsTyped DEF Idle, Stages, Commands
<1>3. run \in [Proc -> RunRecord] /\ \A p \in Proc : run[p] = Idle
  BY <1>2 DEF Init
<1>4. db \in Database
  BY DEF Init, Database
<1>5. Idle.stage = "idle" /\ Idle.code = None
  BY DEF Idle, New
<1>6. begun \in 0..MaxRuns
  BY <1>0 DEF Init
<1>7. QED
  BY <1>3, <1>4, <1>5, <1>6 DEF TypeOK, RunTyped, AfterPreflight, Stages

\* A run that only moves to another stage.
LEMMA StageMoves ==
  ASSUME TypeOK, NEW p \in Proc, NEW to \in Stages, run' = [run EXCEPT ![p].stage = to]
  PROVE  /\ run' \in [Proc -> RunRecord] /\ OnlyRun(p)
         /\ run'[p] = [run[p] EXCEPT !.stage = to]
<1>1. run \in [Proc -> RunRecord]
  BY DEF TypeOK
<1>2. run' = [run EXCEPT ![p] = [run[p] EXCEPT !.stage = to]]
  OBVIOUS
<1>3. run[p] \in RunRecord
  BY <1>1
<1>4. [run[p] EXCEPT !.stage = to] \in RunRecord
  BY <1>3 DEF RunRecord
<1>5. QED
  BY <1>1, <1>2, <1>4 DEF OnlyRun

\* A run that ends with an exit code.
LEMMA RunEnds ==
  ASSUME TypeOK, NEW p \in Proc, NEW c \in {"0", "1", "2", "killed"},
         run' = [run EXCEPT ![p].stage = "ended", ![p].code = c]
  PROVE  /\ run' \in [Proc -> RunRecord] /\ OnlyRun(p)
         /\ run'[p] = [run[p] EXCEPT !.stage = "ended", !.code = c]
<1>1. run \in [Proc -> RunRecord]
  BY DEF TypeOK
<1>2. run' = [run EXCEPT ![p] = [run[p] EXCEPT !.stage = "ended", !.code = c]]
  BY <1>1 DEF RunRecord
<1>3. run[p] \in RunRecord
  BY <1>1
<1>4. [run[p] EXCEPT !.stage = "ended", !.code = c] \in RunRecord
  BY <1>3 DEF RunRecord, Stages
<1>5. QED
  BY <1>1, <1>2, <1>4 DEF OnlyRun

-----------------------------------------------------------------------------
(* What one process does to the others: nothing *)

LEMMA IdsBegun ==
  ASSUME TypeOK, NEW p \in Proc
  PROVE  /\ run[p].id \in 0..begun
         /\ run[p].stage # "idle" => run[p].id \in 1..MaxRuns
<1>1. Idle.id = 0
  BY DEF Idle, New
<1>2. QED
  BY <1>1, BoundsAssumption DEF TypeOK, RunTyped

LEMMA OtherRuns ==
  ASSUME TypeOK, AuditInv, NEW p \in Proc, OnlyRun(p), DbGrows(p), NEW q \in Proc \ {p}
  PROVE  RunInv(q)'
<1>1. run'[q] = run[q] /\ RunInv(q)
  BY DEF OnlyRun, AuditInv
<1>2. CASE run[q].stage = "idle"
  BY <1>1, <1>2 DEF RunInv, Reading, Identified, Constrained, Bounded, Ingested, Exits
<1>3. CASE run[q].stage # "idle"
  <2>1. run[q].id \in 1..MaxRuns /\ run[q].id # run[p].id
    BY <1>3, IdsBegun DEF AuditInv
  <2>2. Written(q)' = Written(q) /\ run[q].id \in DOMAIN db.ingested /\ run[q].id \in DOMAIN db'.ingested
    BY <1>1, <2>1 DEF DbGrows, Written, TypeOK, Database
  <2>3. QED
    BY <1>1, <2>1, <2>2 DEF RunInv, DbGrows, Exits, Gathered, Written
<1>4. QED
  BY <1>2, <1>3

\* A step of a run that leaves the database alone.
LEMMA LocalStep ==
  ASSUME TypeOK, AuditInv, NEW p \in Proc, OnlyRun(p), run' \in [Proc -> RunRecord],
         db' = db, begun' = begun, run'[p].id = run[p].id, RunTyped(p)', RunInv(p)'
  PROVE  TypeOK' /\ AuditInv'
<1>1. TypeOK'
  BY DEF TypeOK, RunTyped, OnlyRun
<1>2. DbGrows(p)
  BY DEF DbGrows, Migrated, TypeOK
<1>3. \A q \in Proc : RunInv(q)'
  BY <1>2, OtherRuns
<1>4. QED
  BY <1>1, <1>3 DEF AuditInv, OnlyRun, Migrated

LEMMA FailureStep ==
  ASSUME TypeOK, AuditInv, NEW p \in Proc, run[p].stage # "idle", NEW c \in {"1", "killed"},
         run' = [run EXCEPT ![p].stage = "ended", ![p].code = c], db' = db, begun' = begun
  PROVE  TypeOK' /\ AuditInv'
<1>1. /\ run' \in [Proc -> RunRecord] /\ OnlyRun(p)
      /\ run'[p] = [run[p] EXCEPT !.stage = "ended", !.code = c]
  BY RunEnds
<1>2. run[p] \in RunRecord
  BY DEF TypeOK
<1>3. run'[p].stage = "ended" /\ run'[p].code = c /\ run'[p].id = run[p].id
  BY <1>1, <1>2 DEF RunRecord
<1>4. RunTyped(p)'
  BY <1>3 DEF TypeOK, RunTyped, AfterPreflight
<1>5. RunInv(p)'
  BY <1>3 DEF RunInv, Reading, Identified, Constrained, Bounded, Ingested, Exits
<1>6. QED
  BY <1>1, <1>3, <1>4, <1>5, LocalStep

LEMMA MoveStep ==
  ASSUME TypeOK, AuditInv, NEW p \in Proc, NEW to \in Stages \ {"idle", "ended", "usage"},
         run[p].stage \notin {"idle", "ended"}, to = "preflight" \/ run[p].command = "run",
         run' = [run EXCEPT ![p].stage = to], db' = db, begun' = begun, RunInv(p)'
  PROVE  TypeOK' /\ AuditInv'
<1>1. /\ run' \in [Proc -> RunRecord] /\ OnlyRun(p)
      /\ run'[p] = [run[p] EXCEPT !.stage = to]
  BY StageMoves
<1>2. run[p] \in RunRecord
  BY DEF TypeOK
<1>3. /\ run'[p].stage = to /\ run'[p].code = run[p].code
      /\ run'[p].id = run[p].id /\ run'[p].command = run[p].command
  BY <1>1, <1>2 DEF RunRecord
<1>4. RunTyped(p)'
  BY <1>3 DEF TypeOK, RunTyped, AfterPreflight
<1>5. QED
  BY <1>1, <1>3, <1>4, LocalStep

-----------------------------------------------------------------------------
(* The actions *)

LEMMA StartStep ==
  ASSUME TypeOK, AuditInv, NEW p \in Proc, NEW command \in DOMAIN FirstStage, NEW config \in Configs,
         Start(p, command, config)
  PROVE  TypeOK' /\ AuditInv'
<1>1. begun + 1 \in 1..MaxRuns /\ begun' = begun + 1 /\ db' = db
  BY BoundsAssumption DEF Start, TypeOK
<1>2. FirstStage[command] \in {"config", "preflight", "usage"} /\ command \in Commands
      /\ (FirstStage[command] = "config" => command = "run")
      /\ (FirstStage[command] = "usage" => command = "usage")
  BY DEF FirstStage, Commands
<1>3. New(FirstStage[command], begun + 1, command, config) \in RunRecord
  BY <1>1, <1>2, BegunIsTyped DEF Stages
<1>4. /\ run' \in [Proc -> RunRecord] /\ OnlyRun(p)
      /\ run'[p] = New(FirstStage[command], begun + 1, command, config)
  BY <1>3 DEF Start, TypeOK, OnlyRun
<1>5. /\ run'[p].stage = FirstStage[command] /\ run'[p].id = begun + 1
      /\ run'[p].command = command /\ run'[p].code = None
  BY <1>4, NewFields
<1>6. \A q \in Proc : RunTyped(q)'
  <2>1. RunTyped(p)'
    BY <1>1, <1>2, <1>5 DEF RunTyped, AfterPreflight
  <2>2. ASSUME NEW q \in Proc \ {p} PROVE RunTyped(q)'
    BY <1>1, <1>4, <2>2 DEF RunTyped, TypeOK, OnlyRun
  <2>3. QED
    BY <2>1, <2>2
<1>7. TypeOK'
  BY <1>1, <1>4, <1>6, BoundsAssumption DEF TypeOK
<1>8. \A q \in Proc : RunInv(q)'
  <2>1. DbGrows(p)
    BY <1>1 DEF DbGrows, Migrated, TypeOK
  <2>2. RunInv(p)'
    <3>1. Written(p)' = "none"
      BY <1>1, <1>5 DEF AuditInv, Written, TypeOK
    <3>2. QED
      BY <1>2, <1>5, <3>1 DEF RunInv, Identified, Constrained, Bounded, Ingested, Exits
  <2>3. QED
    BY <1>4, <2>1, <2>2, OtherRuns
<1>9. \A q \in Proc \ {p} : run'[q].id = run[q].id /\ run[q].id \in 0..begun
  BY <1>4, IdsBegun DEF OnlyRun
<1>10. \A q, r \in Proc : run'[q].id = run'[r].id => q = r \/ run'[q].id = 0
  BY <1>1, <1>5, <1>9 DEF AuditInv, TypeOK
<1>11. QED
  BY <1>1, <1>7, <1>8, <1>10 DEF AuditInv, Migrated, TypeOK

LEMMA Failures ==
  ASSUME TypeOK, AuditInv, NEW p \in Proc, run[p].stage # "idle", NEW f, FailsWith(p, f),
         db' = db, begun' = begun
  PROVE  TypeOK' /\ AuditInv'
BY FailureStep DEF FailsWith

LEMMA IngestFailures ==
  ASSUME NEW p, NEW operation, NEW variant,
         IngestFails(p, operation, variant) \/ CallFails(p, operation, variant)
  PROVE  \E f : FailsWith(p, f)
BY DEF IngestFails, CallFails, IngestStageFails

LEMMA ExitStep ==
  ASSUME TypeOK, AuditInv, NEW p \in Proc, NEW c \in {"0", "1", "2", "killed"}, run[p].stage # "idle",
         run' = [run EXCEPT ![p].stage = "ended", ![p].code = c], db' = db, begun' = begun,
         run[p].command = "run" => Gathered(p)
  PROVE  TypeOK' /\ AuditInv'
<1>1. /\ run' \in [Proc -> RunRecord] /\ OnlyRun(p)
      /\ run'[p] = [run[p] EXCEPT !.stage = "ended", !.code = c]
  BY RunEnds
<1>2. run[p] \in RunRecord
  BY DEF TypeOK
<1>3. /\ run'[p].stage = "ended" /\ run'[p].id = run[p].id
      /\ run'[p].command = run[p].command /\ run'[p].account = run[p].account
  BY <1>1, <1>2 DEF RunRecord
<1>4. RunTyped(p)'
  BY <1>3 DEF TypeOK, RunTyped, AfterPreflight
<1>5. RunInv(p)'
  BY <1>3 DEF RunInv, Reading, Identified, Constrained, Bounded, Ingested, Exits, Gathered
<1>6. QED
  BY <1>1, <1>3, <1>4, <1>5, LocalStep

\* One case for each stage; what a stage does to the database, and then to
\* the other runs, is DbGrows.
LEMMA MigrateStep ==
  ASSUME TypeOK, AuditInv, NEW p \in Proc, migrate(p)
  PROVE  TypeOK' /\ AuditInv'
<1>0. begun' = begun
  BY DEF migrate
<1>1. CASE db.schema < Versions /\ db' = [db EXCEPT !.schema = @ + 1] /\ UNCHANGED <<run, failure>>
  <2>1. db' \in Database /\ db'.boundaries = db.boundaries /\ db'.ingested = db.ingested
    BY <1>1, BoundsAssumption DEF TypeOK, Database
  <2>2. begun' = begun /\ run' = run
    BY <1>0, <1>1
  <2>3. ~Migrated
    BY <1>1, BoundsAssumption DEF Migrated, TypeOK, Database
  <2>4. \A q \in Proc : RunInv(q)'
    BY <2>1, <2>2, <2>3 DEF AuditInv, RunInv, Written, Gathered, Exits
  <2>5. QED
    BY <2>1, <2>2, <2>3, <2>4 DEF TypeOK, RunTyped, AuditInv
<1>2. CASE db.schema = Versions /\ Moves(p, "migrate", "boundary") /\ UNCHANGED db
  <2>1. /\ run[p].stage = "migrate" /\ run' = [run EXCEPT ![p].stage = "boundary"]
        /\ db' = db /\ Migrated
    BY <1>2 DEF Moves, Migrated
  <2>2. run[p].command = "run" /\ "boundary" \in Stages \ {"idle", "ended", "usage"}
    BY <2>1 DEF TypeOK, RunTyped, AfterPreflight, Stages
  <2>3. run[p] \in RunRecord /\ run'[p] = [run[p] EXCEPT !.stage = "boundary"]
    BY <2>1, <2>2, StageMoves DEF TypeOK
  <2>4. /\ run'[p].stage = "boundary" /\ run'[p].id = run[p].id /\ run'[p].account = run[p].account
    BY <2>3 DEF RunRecord
  <2>5. RunInv(p)'
    BY <2>1, <2>4 DEF AuditInv, RunInv, Written, Migrated, Exits,
      Reading, Identified, Constrained, Bounded, Ingested
  <2>6. QED
    BY <1>0, <2>1, <2>2, <2>5, MoveStep
<1>3. CASE Fails(p, "stage: migrate") /\ UNCHANGED db
  BY <1>0, <1>3, Failures DEF migrate, Fails
<1>4. QED
  BY <1>1, <1>2, <1>3 DEF migrate

\* A move that neither reads nor writes the database.
LEMMA PlainMove ==
  ASSUME TypeOK, AuditInv, NEW p \in Proc,
         NEW from, NEW to, Moves(p, from, to), db' = db, begun' = begun,
         run[p].command = "run",
         <<from, to>> \in {<<"config", "preflight">>, <<"preflight", "sdk">>, <<"connect", "migrate">>,
                          <<"collect", "write">>}
  PROVE  TypeOK' /\ AuditInv'
<1>1. /\ run[p].stage = from /\ run' = [run EXCEPT ![p].stage = to]
      /\ from \in {"config", "preflight", "connect", "collect"} /\ to \in Stages \ {"idle", "ended", "usage"}
  BY DEF Moves, Stages
<1>2. run[p] \in RunRecord /\ run'[p] = [run[p] EXCEPT !.stage = to]
  BY <1>1, StageMoves DEF TypeOK
<1>3. /\ run'[p].stage = to /\ run'[p].id = run[p].id /\ run'[p].account = run[p].account
  BY <1>2 DEF RunRecord
<1>4. RunInv(p)'
  BY <1>1, <1>3 DEF AuditInv, RunInv, Written, Migrated, Exits,
    Reading, Identified, Constrained, Bounded, Ingested
<1>5. QED
  BY <1>1, <1>4, MoveStep

\* A run that writes to the database, and may move on or fail.
LEMMA WritingStep ==
  ASSUME TypeOK, AuditInv, NEW p \in Proc, run[p].stage \in {"boundary", "write"},
         OnlyRun(p), run' \in [Proc -> RunRecord], run'[p].id = run[p].id, begun' = begun,
         RunTyped(p)', RunInv(p)', DbGrows(p), db'.schema = db.schema
  PROVE  TypeOK' /\ AuditInv'
<1>1. TypeOK'
  BY DEF TypeOK, RunTyped, OnlyRun, DbGrows
<1>2. \A q \in Proc : RunInv(q)'
  BY OtherRuns
<1>3. Migrated /\ Migrated'
  BY DEF AuditInv, RunInv, Constrained, DbGrows
<1>4. run[p].id \in 1..begun
  BY DEF TypeOK, RunTyped
<1>5. \A i \in 1..MaxRuns : i > begun => db'.ingested[i] = "none"
  BY <1>4 DEF AuditInv, DbGrows, TypeOK
<1>6. QED
  BY <1>1, <1>2, <1>3, <1>5 DEF AuditInv, OnlyRun

LEMMA BoundaryStep ==
  ASSUME TypeOK, AuditInv, NEW p \in Proc, upsert_regulated_boundaries(p)
  PROVE  TypeOK' /\ AuditInv'
<1>1. run[p].stage = "boundary" /\ begun' = begun
  BY DEF upsert_regulated_boundaries
<1>2. run[p].account = AccountOf[AWS_PROFILE] /\ run[p].command = "run" /\ Migrated /\ Written(p) = "none"
  BY <1>1 DEF AuditInv, RunInv, Identified, Constrained, Reading, TypeOK, RunTyped, AfterPreflight, Stages
<1>3. CASE /\ db' = [db EXCEPT !.boundaries = @ \cup {run[p].account}]
           /\ Moves(p, "boundary", "collect") \/ Fails(p, "stage: boundary")
  <2>1. /\ db' \in Database /\ db'.schema = db.schema /\ db'.ingested = db.ingested
        /\ db'.boundaries = db.boundaries \cup {run[p].account}
    BY <1>2, <1>3 DEF TypeOK, Database
  <2>2. DbGrows(p)
    BY <2>1 DEF DbGrows, Migrated
  <2>3. CASE Moves(p, "boundary", "collect")
    <3>1. /\ run' \in [Proc -> RunRecord] /\ OnlyRun(p)
          /\ run[p] \in RunRecord /\ run'[p] = [run[p] EXCEPT !.stage = "collect"]
      BY <2>3, StageMoves DEF Moves, TypeOK, Stages
    <3>2. /\ run'[p].stage = "collect" /\ run'[p].id = run[p].id /\ run'[p].account = run[p].account
          /\ run'[p].command = run[p].command /\ run'[p].code = run[p].code
      BY <3>1 DEF RunRecord
    <3>3. RunTyped(p)'
      BY <1>1, <1>2, <3>2 DEF TypeOK, RunTyped
    <3>4. RunInv(p)'
      BY <1>2, <2>1, <3>2 DEF RunInv, Written, Migrated, Exits, Ingested
    <3>5. QED
      BY <1>1, <2>1, <2>2, <3>1, <3>2, <3>3, <3>4, WritingStep
  <2>4. CASE Fails(p, "stage: boundary")
    <3>1. /\ run' \in [Proc -> RunRecord] /\ OnlyRun(p)
          /\ run[p] \in RunRecord /\ run'[p] = [run[p] EXCEPT !.stage = "ended", !.code = "1"]
      BY <2>4, RunEnds DEF Fails, FailsWith, TypeOK
    <3>2. /\ run'[p].stage = "ended" /\ run'[p].id = run[p].id /\ run'[p].code = "1"
      BY <3>1 DEF RunRecord
    <3>3. RunTyped(p)'
      BY <1>1, <3>2 DEF TypeOK, RunTyped, AfterPreflight
    <3>4. RunInv(p)'
      BY <3>2 DEF RunInv, Exits, Reading, Identified, Constrained, Bounded, Ingested
    <3>5. QED
      BY <1>1, <2>1, <2>2, <3>1, <3>2, <3>3, <3>4, WritingStep
  <2>5. QED
    BY <1>3, <2>3, <2>4
<1>4. CASE Fails(p, "stage: boundary") /\ UNCHANGED db
  BY <1>1, <1>4, Failures DEF Fails
<1>5. QED
  BY <1>3, <1>4 DEF upsert_regulated_boundaries

LEMMA WriteStep ==
  ASSUME TypeOK, AuditInv, NEW p \in Proc, Write(p)
  PROVE  TypeOK' /\ AuditInv'
<1>1. run[p].stage = "write" /\ begun' = begun
  BY DEF Write
<1>2. /\ run[p].account = AccountOf[AWS_PROFILE] /\ run[p].account \in db.boundaries
      /\ run[p].command = "run" /\ Migrated /\ run[p].id \in 1..MaxRuns
  BY <1>1, IdsBegun DEF AuditInv, RunInv, Identified, Bounded, Constrained, TypeOK, RunTyped, AfterPreflight, Stages
<1>3. ASSUME NEW amount \in {"some", "all"}, db' = [db EXCEPT !.ingested[run[p].id] = amount]
      PROVE  DbGrows(p) /\ db'.schema = db.schema /\ db'.ingested[run[p].id] = amount
  <2>1. db' = [db EXCEPT !.ingested = [db.ingested EXCEPT ![run[p].id] = amount]]
    BY <1>3
  <2>2. [db.ingested EXCEPT ![run[p].id] = amount] \in [1..MaxRuns -> {"none", "some", "all"}]
    BY <1>2 DEF TypeOK, Database
  <2>3. /\ db' \in Database /\ db'.schema = db.schema /\ db'.boundaries = db.boundaries
        /\ db'.ingested = [db.ingested EXCEPT ![run[p].id] = amount]
    BY <2>1, <2>2 DEF TypeOK, Database
  <2>4. QED
    BY <1>2, <2>3 DEF DbGrows, Migrated, TypeOK, Database
<1>4. CASE /\ Written(p) = "none" /\ db' = [db EXCEPT !.ingested[run[p].id] = "some"]
           /\ UNCHANGED <<run, failure>>
  <2>1. DbGrows(p) /\ db'.schema = db.schema /\ db'.ingested[run[p].id] = "some"
    BY <1>3, <1>4
  <2>2. run' = run /\ OnlyRun(p) /\ RunTyped(p)'
    BY <1>1, <1>4 DEF OnlyRun, TypeOK, RunTyped
  <2>3. RunInv(p)'
    BY <1>1, <1>2, <2>1, <2>2 DEF RunInv, Written, Migrated, Exits, Reading, Ingested, DbGrows
  <2>4. QED
    BY <1>1, <2>1, <2>2, <2>3, WritingStep DEF TypeOK
<1>5. CASE db' = [db EXCEPT !.ingested[run[p].id] = "all"] /\ Moves(p, "write", "assemble")
  <2>1. DbGrows(p) /\ db'.schema = db.schema /\ db'.ingested[run[p].id] = "all"
    BY <1>3, <1>5
  <2>2. /\ run' \in [Proc -> RunRecord] /\ OnlyRun(p)
        /\ run[p] \in RunRecord /\ run'[p] = [run[p] EXCEPT !.stage = "assemble"]
    BY <1>5, StageMoves DEF Moves, TypeOK, Stages
  <2>3. /\ run'[p].stage = "assemble" /\ run'[p].id = run[p].id /\ run'[p].account = run[p].account
        /\ run'[p].command = run[p].command /\ run'[p].code = run[p].code
    BY <2>2 DEF RunRecord
  <2>4. RunTyped(p)'
    BY <1>1, <1>2, <2>3 DEF TypeOK, RunTyped
  <2>5. RunInv(p)'
    BY <1>2, <2>1, <2>3 DEF RunInv, Written, Migrated, Exits, Reading, DbGrows
  <2>6. QED
    BY <1>1, <2>1, <2>2, <2>3, <2>4, <2>5, WritingStep
<1>6. CASE IngestFails(p, "ingest", "Write") /\ UNCHANGED db
  BY <1>1, <1>6, IngestFailures, Failures
<1>7. QED
  BY <1>4, <1>5, <1>6 DEF Write, Written

LEMMA SdkStep ==
  ASSUME TypeOK, AuditInv, NEW p \in Proc, build_sdk_config(p)
  PROVE  TypeOK' /\ AuditInv'
<1>1. run[p].stage = "sdk" /\ begun' = begun /\ db' = db /\ run[p] \in RunRecord /\ run[p].command = "run"
  BY DEF build_sdk_config, TypeOK, RunTyped, AfterPreflight, Stages
<1>2. PICK region : region = resolve_region(run[p].config.region)
  OBVIOUS
<1>3. CASE IngestFails(p, "BuildSdkConfig", "RegionNotResolved")
  BY <1>1, <1>3, IngestFailures, Failures
<1>4. CASE run' = [run EXCEPT ![p].stage = "account", ![p].region = region]
  <2>1. region \in {""} \cup {resolve_region(c.region) : c \in Configs}
    BY <1>1, <1>2 DEF RunRecord
  <2>2. [run[p] EXCEPT !.stage = "account", !.region = region] \in RunRecord
    BY <1>1, <2>1 DEF RunRecord, Stages
  <2>3. /\ run' \in [Proc -> RunRecord] /\ OnlyRun(p)
        /\ run'[p] = [run[p] EXCEPT !.stage = "account", !.region = region]
    BY <1>4, <2>2 DEF TypeOK, OnlyRun
  <2>4. /\ run'[p].stage = "account" /\ run'[p].id = run[p].id
        /\ run'[p].command = run[p].command /\ run'[p].code = run[p].code
    BY <1>1, <2>3 DEF RunRecord
  <2>5. RunTyped(p)'
    BY <1>1, <2>4 DEF TypeOK, RunTyped
  <2>6. RunInv(p)'
    BY <1>1, <2>4 DEF AuditInv, RunInv, Written, Exits, Reading, Identified, Constrained, Bounded, Ingested
  <2>7. QED
    BY <1>1, <2>3, <2>4, <2>5, <2>6, LocalStep
<1>5. QED
  BY <1>2, <1>3, <1>4 DEF build_sdk_config

LEMMA AccountStep ==
  ASSUME TypeOK, AuditInv, NEW p \in Proc, resolve_account_id(p)
  PROVE  TypeOK' /\ AuditInv'
<1>1. run[p].stage = "account" /\ begun' = begun /\ db' = db /\ run[p] \in RunRecord /\ run[p].command = "run"
  BY DEF resolve_account_id, TypeOK, RunTyped, AfterPreflight, Stages
<1>2. CASE run' = [run EXCEPT ![p].stage = "connect", ![p].account = AccountOf[AWS_PROFILE]]
  <2>1. [run[p] EXCEPT !.stage = "connect", !.account = AccountOf[AWS_PROFILE]] \in RunRecord
    BY <1>1 DEF RunRecord, Stages
  <2>2. /\ run' \in [Proc -> RunRecord] /\ OnlyRun(p)
        /\ run'[p] = [run[p] EXCEPT !.stage = "connect", !.account = AccountOf[AWS_PROFILE]]
    BY <1>2, <2>1 DEF TypeOK, OnlyRun
  <2>3. /\ run'[p].stage = "connect" /\ run'[p].id = run[p].id /\ run'[p].account = AccountOf[AWS_PROFILE]
        /\ run'[p].command = run[p].command /\ run'[p].code = run[p].code
    BY <1>1, <2>2 DEF RunRecord
  <2>4. RunTyped(p)'
    BY <1>1, <2>3 DEF TypeOK, RunTyped
  <2>5. RunInv(p)'
    BY <1>1, <2>3 DEF AuditInv, RunInv, Written, Exits, Reading, Constrained, Bounded, Ingested
  <2>6. QED
    BY <1>1, <2>2, <2>3, <2>4, <2>5, LocalStep
<1>3. CASE \/ CallFails(p, "GetCallerIdentity", "AccountIdResolution")
           \/ IngestFails(p, "GetCallerIdentity", "AccountIdMissing")
  BY <1>1, <1>3, IngestFailures, Failures
<1>4. QED
  BY <1>2, <1>3 DEF resolve_account_id

LEMMA AssembleStep ==
  ASSUME TypeOK, AuditInv, NEW p \in Proc, assemble_candidates(p)
  PROVE  TypeOK' /\ AuditInv'
<1>1. run[p].stage = "assemble" /\ begun' = begun /\ db' = db /\ run[p] \in RunRecord /\ run[p].command = "run"
  BY DEF assemble_candidates, TypeOK, RunTyped, AfterPreflight, Stages
<1>2. ASSUME NEW n \in 0..MaxCandidates, run' = [run EXCEPT ![p].stage = "evaluate", ![p].open = n]
      PROVE  TypeOK' /\ AuditInv'
  <2>1. n \in Nat
    BY BoundsAssumption
  <2>2. [run[p] EXCEPT !.stage = "evaluate", !.open = n] \in RunRecord
    BY <1>1, <2>1 DEF RunRecord, Stages
  <2>3. /\ run' \in [Proc -> RunRecord] /\ OnlyRun(p)
        /\ run'[p] = [run[p] EXCEPT !.stage = "evaluate", !.open = n]
    BY <1>2, <2>2 DEF TypeOK, OnlyRun
  <2>4. /\ run'[p].stage = "evaluate" /\ run'[p].id = run[p].id /\ run'[p].account = run[p].account
        /\ run'[p].command = run[p].command /\ run'[p].code = run[p].code
    BY <1>1, <2>3 DEF RunRecord
  <2>5. RunTyped(p)'
    BY <1>1, <2>4 DEF TypeOK, RunTyped
  <2>6. RunInv(p)'
    BY <1>1, <2>4 DEF AuditInv, RunInv, Written, Migrated, Exits, Reading, Identified, Constrained, Bounded, Ingested
  <2>7. QED
    BY <1>1, <2>3, <2>4, <2>5, <2>6, LocalStep
<1>3. CASE Fails(p, "stage: evaluate (candidate assembly)")
  BY <1>1, <1>3, Failures DEF Fails
<1>4. QED
  BY <1>2, <1>3 DEF assemble_candidates

LEMMA EvaluateStep ==
  ASSUME TypeOK, AuditInv, NEW p \in Proc, evaluate(p)
  PROVE  TypeOK' /\ AuditInv'
<1>1. /\ run[p].stage = "evaluate" /\ begun' = begun /\ db' = db /\ run[p] \in RunRecord
      /\ run[p].open > 0
  BY DEF evaluate, TypeOK
<1>2. PICK verdict \in Verdict :
        run' = [run EXCEPT ![p].open = @ - 1, ![p].findings = Append(@, verdict)]
  BY DEF evaluate
<1>3. run[p].open \in Nat /\ run[p].findings \in Seq(Verdict)
  BY <1>1 DEF RunRecord
<1>4. run[p].open - 1 \in Nat /\ Append(run[p].findings, verdict) \in Seq(Verdict)
  BY <1>1, <1>3
<1>5. [run[p] EXCEPT !.open = @ - 1, !.findings = Append(@, verdict)] \in RunRecord
  BY <1>1, <1>4 DEF RunRecord
<1>6. /\ run' \in [Proc -> RunRecord] /\ OnlyRun(p)
      /\ run'[p] = [run[p] EXCEPT !.open = @ - 1, !.findings = Append(@, verdict)]
  BY <1>2, <1>5 DEF TypeOK, OnlyRun
<1>7. /\ run'[p].stage = "evaluate" /\ run'[p].id = run[p].id /\ run'[p].account = run[p].account
      /\ run'[p].command = run[p].command /\ run'[p].code = run[p].code
  BY <1>1, <1>6 DEF RunRecord
<1>8. RunTyped(p)'
  BY <1>1, <1>7 DEF TypeOK, RunTyped
<1>9. RunInv(p)'
  BY <1>1, <1>7 DEF AuditInv, RunInv, Written, Migrated, Exits, Reading, Identified, Constrained, Bounded, Ingested
<1>10. QED
  BY <1>1, <1>6, <1>7, <1>8, <1>9, LocalStep

LEMMA FinishStep ==
  ASSUME TypeOK, AuditInv, NEW p \in Proc, Finish(p)
  PROVE  TypeOK' /\ AuditInv'
<1>1. run[p].stage = "evaluate" /\ begun' = begun /\ db' = db
  BY DEF Finish
<1>2. PICK c \in {"0", "2"} : run' = [run EXCEPT ![p].stage = "ended", ![p].code = c]
  BY DEF Finish, Ends, exit_code
<1>3. run[p].id \in DOMAIN db.ingested
  BY <1>1, IdsBegun DEF TypeOK, Database
<1>4. Gathered(p)
  BY <1>1, <1>3 DEF AuditInv, RunInv, Bounded, Ingested, Written, Gathered
<1>5. QED
  BY <1>1, <1>2, <1>4, ExitStep

LEMMA NextAudit == TypeOK /\ AuditInv /\ [Next]_vars => TypeOK' /\ AuditInv'
<1> SUFFICES ASSUME TypeOK, AuditInv, [Next]_vars PROVE TypeOK' /\ AuditInv'
  OBVIOUS
<1>1. ASSUME NEW p \in Proc, NEW command \in DOMAIN FirstStage, NEW config \in Configs,
             Start(p, command, config)
      PROVE  TypeOK' /\ AuditInv'
  BY <1>1, StartStep
<1>2. ASSUME NEW p \in Proc, UsageError(p) PROVE TypeOK' /\ AuditInv'
  <2>1. run[p].stage = "usage" /\ run[p].stage # "idle" /\ db' = db /\ begun' = begun
        /\ run' = [run EXCEPT ![p].stage = "ended", ![p].code = "2"]
    BY <1>2 DEF UsageError, Ends
  <2>2. run[p].command # "run"
    BY <2>1 DEF TypeOK, RunTyped
  <2>3. QED
    BY <2>1, <2>2, ExitStep
<1>3. ASSUME NEW p \in Proc, LoadConfig(p) PROVE TypeOK' /\ AuditInv'
  <2>1. run[p].stage = "config" /\ db' = db /\ begun' = begun
    BY <1>3 DEF LoadConfig, Moves
  <2>2. run[p].command = "run"
    BY <2>1 DEF TypeOK, RunTyped
  <2>3. CASE Moves(p, "config", "preflight")
    BY <2>1, <2>2, <2>3, PlainMove
  <2>4. CASE Fails(p, "config")
    BY <2>1, <2>4, Failures DEF Fails
  <2>5. QED
    BY <1>3, <2>3, <2>4 DEF LoadConfig
<1>4. ASSUME NEW p \in Proc, Preflight(p) PROVE TypeOK' /\ AuditInv'
  <2>1. run[p].stage = "preflight" /\ db' = db /\ begun' = begun
    BY <1>4 DEF Preflight
  <2>2. CASE run[p].command = "run" /\ Moves(p, "preflight", "sdk")
    BY <2>1, <2>2, PlainMove
  <2>3. CASE run[p].command # "run" /\ Ends(p, "0")
    BY <2>1, <2>3, ExitStep DEF Ends
  <2>4. CASE Fails(p, "stage: preflight")
    BY <2>1, <2>4, Failures DEF Fails
  <2>5. QED
    BY <1>4, <2>2, <2>3, <2>4 DEF Preflight
<1>5. ASSUME NEW p \in Proc, connect(p) PROVE TypeOK' /\ AuditInv'
  <2>1. run[p].stage = "connect" /\ db' = db /\ begun' = begun
    BY <1>5 DEF connect, Moves
  <2>2. run[p].command = "run"
    BY <2>1 DEF TypeOK, RunTyped, AfterPreflight, Stages
  <2>3. CASE Moves(p, "connect", "migrate")
    BY <2>1, <2>2, <2>3, PlainMove
  <2>4. CASE Fails(p, "stage: connect")
    BY <2>1, <2>4, Failures DEF Fails
  <2>5. QED
    BY <1>5, <2>3, <2>4 DEF connect
<1>6. ASSUME NEW p \in Proc, Collect(p) PROVE TypeOK' /\ AuditInv'
  <2>1. run[p].stage = "collect" /\ db' = db /\ begun' = begun
    BY <1>6 DEF Collect
  <2>2. run[p].command = "run"
    BY <2>1 DEF TypeOK, RunTyped, AfterPreflight, Stages
  <2>3. CASE Moves(p, "collect", "write")
    BY <2>1, <2>2, <2>3, PlainMove
  <2>4. CASE \/ \E operation \in DescribeOperations : CallFails(p, operation, "Describe")
             \/ IngestFails(p, "ingest", "Mapping")
    BY <2>1, <2>4, IngestFailures, Failures
  <2>5. QED
    BY <1>6, <2>3, <2>4 DEF Collect
<1>7. ASSUME NEW p \in Proc, Killed(p) PROVE TypeOK' /\ AuditInv'
  BY <1>7, FailureStep DEF Killed, Ends
<1>8. ASSUME NEW p \in Proc, Step(p) PROVE TypeOK' /\ AuditInv'
  BY <1>2, <1>3, <1>4, <1>5, <1>6, <1>8, SdkStep, AccountStep, MigrateStep, BoundaryStep, WriteStep,
    AssembleStep, EvaluateStep, FinishStep DEF Step
<1>9. CASE UNCHANGED vars
  BY <1>9 DEF vars, TypeOK, RunTyped, AuditInv, RunInv, Written, Migrated, Exits, Gathered
<1>10. QED
  BY <1>1, <1>7, <1>8, <1>9 DEF Next

LEMMA InitAudit == Init => AuditInv
<1> SUFFICES ASSUME Init PROVE AuditInv
  OBVIOUS
<1>1. \A p \in Proc : run[p].stage = "idle" /\ run[p].id = 0
  BY NewFields DEF Init, Idle
<1>2. \A p \in Proc : RunInv(p)
  BY <1>1 DEF RunInv, Exits, Reading, Identified, Constrained, Bounded, Ingested
<1>3. db.boundaries = {} /\ \A i \in 1..MaxRuns : db.ingested[i] = "none"
  BY DEF Init
<1>4. QED
  BY <1>1, <1>2, <1>3 DEF AuditInv

-----------------------------------------------------------------------------
\* What a run knows of the database is right throughout, and every variable
\* has its type.
THEOREM AuditCorrect == Spec => [](TypeOK /\ AuditInv)
<1>1. Init => TypeOK /\ AuditInv
  BY InitType, InitAudit
<1>2. TypeOK /\ AuditInv /\ [Next]_vars => (TypeOK /\ AuditInv)'
  BY NextAudit
<1>3. QED
  BY <1>1, <1>2, PTL DEF Spec

\* Every run under way has a number of its own, and only an audit gets past
\* preflight (lib.rs, dispatch).
THEOREM AuditTypeOK == Spec => []TypeOK
BY AuditCorrect, PTL

\* Nothing is written without the constraints, and nothing is asked of a graph
\* that the run has not written to the end (run.rs:4-8).
THEOREM OrderingHolds == Spec => []OrderingIsLoadBearing
<1>1. TypeOK /\ AuditInv => OrderingIsLoadBearing
  <2> SUFFICES ASSUME TypeOK, AuditInv PROVE OrderingIsLoadBearing
    OBVIOUS
  <2>1. DOMAIN db.ingested = 1..MaxRuns
    BY DEF TypeOK, Database
  <2>2. ASSUME NEW p \in Proc, run[p].stage \in {"assemble", "evaluate"} PROVE Gathered(p)
    BY <2>1, <2>2, IdsBegun DEF AuditInv, RunInv, Bounded, Ingested, Gathered, Written
  <2>3. QED
    BY <2>1, <2>2 DEF OrderingIsLoadBearing, AuditInv, RunInv
<1>2. QED
  BY <1>1, AuditCorrect, PTL

-----------------------------------------------------------------------------
(* Refinement.  Under the invariant a run's status depends on its own stage *)
(* alone, so a step of one run changes the image of that run only.          *)

Phase(r) ==
  IF r.command # "run" THEN "idle"
  ELSE IF r.stage = "ended" THEN "ended"
  ELSE IF r.stage = "evaluate" THEN "checking"
  ELSE IF r.stage = "assemble" THEN "gathered" ELSE "begun"
Open(r) == IF r.command = "run" THEN r.open ELSE 0
Verdicts(r) == IF r.command = "run" THEN {r.findings[i] : i \in DOMAIN r.findings} ELSE {}
Code(r) == IF r.command = "run" THEN r.code ELSE None

PhaseInv == \A p \in Proc : Status(p) = Phase(run[p])

LEMMA PhaseHolds == TypeOK /\ AuditInv => PhaseInv
<1> SUFFICES ASSUME TypeOK, AuditInv, NEW p \in Proc, run[p].command = "run",
                    run[p].stage \notin {"ended", "evaluate"}
             PROVE  Gathered(p) <=> run[p].stage = "assemble"
  BY DEF PhaseInv, Status, Phase
<1>1. run[p].stage # "idle"
  <2>1. Idle.command = "none"
    BY NewFields DEF Idle, None
  <2>2. QED
    BY <2>1 DEF TypeOK, RunTyped
<1>2. run[p].id \in 1..MaxRuns /\ DOMAIN db.ingested = 1..MaxRuns /\ run[p].stage \in Stages
  BY <1>1, IdsBegun DEF TypeOK, Database, RunRecord
<1>3. CASE run[p].stage = "assemble"
  BY <1>2, <1>3 DEF AuditInv, RunInv, Bounded, Ingested, Gathered, Written
<1>4. CASE run[p].stage \in Reading \cup {"write"}
  BY <1>4 DEF AuditInv, RunInv, Gathered, Written, Reading
<1>5. QED
  BY <1>1, <1>2, <1>3, <1>4 DEF Stages, Reading

bStatus == [q \in Proc |-> Status(q)]
bOpen == [q \in Proc |-> Audited(q, run[q].open, 0)]
bFound == [q \in Proc |-> Audited(q, Found(q), {})]
bCode == [q \in Proc |-> Audited(q, run[q].code, None)]

\* The image of a step that changes the run of p alone.
LEMMA ImageOfStep ==
  ASSUME PhaseInv, PhaseInv', NEW p \in Proc, OnlyRun(p)
  PROVE  /\ bStatus' = [bStatus EXCEPT ![p] = Phase(run'[p])] /\ bStatus[p] = Phase(run[p])
         /\ bOpen' = [bOpen EXCEPT ![p] = Open(run'[p])] /\ bOpen[p] = Open(run[p])
         /\ bFound' = [bFound EXCEPT ![p] = Verdicts(run'[p])] /\ bFound[p] = Verdicts(run[p])
         /\ bCode' = [bCode EXCEPT ![p] = Code(run'[p])] /\ bCode[p] = Code(run[p])
<1>1. \A q \in Proc \ {p} : run'[q] = run[q]
  BY DEF OnlyRun
<1>2. bStatus' = [bStatus EXCEPT ![p] = Phase(run'[p])] /\ bStatus[p] = Phase(run[p])
  BY <1>1 DEF PhaseInv, bStatus
<1>3. bOpen' = [bOpen EXCEPT ![p] = Open(run'[p])] /\ bOpen[p] = Open(run[p])
  BY <1>1 DEF bOpen, Audited, Open
<1>4. bFound' = [bFound EXCEPT ![p] = Verdicts(run'[p])] /\ bFound[p] = Verdicts(run[p])
  BY <1>1 DEF bFound, Audited, Found, Verdicts
<1>5. bCode' = [bCode EXCEPT ![p] = Code(run'[p])] /\ bCode[p] = Code(run[p])
  BY <1>1 DEF bCode, Audited, Code
<1>6. QED
  BY <1>2, <1>3, <1>4, <1>5

Unseen == UNCHANGED <<Migrated, bStatus, bOpen, bFound, bCode>>

\* A step that leaves the image of its run as it is.
LEMMA UnseenStep ==
  ASSUME PhaseInv, PhaseInv', NEW p \in Proc, OnlyRun(p), Migrated' = Migrated,
         Phase(run'[p]) = Phase(run[p]), Open(run'[p]) = Open(run[p]),
         Verdicts(run'[p]) = Verdicts(run[p]), Code(run'[p]) = Code(run[p])
  PROVE  Unseen
<1>1. bStatus' = bStatus
  BY ImageOfStep DEF bStatus
<1>2. bOpen' = bOpen
  BY ImageOfStep DEF bOpen
<1>3. bFound' = bFound
  BY ImageOfStep DEF bFound
<1>4. bCode' = bCode
  BY ImageOfStep DEF bCode
<1>5. QED
  BY <1>1, <1>2, <1>3, <1>4 DEF Unseen

LEMMA AppendFound ==
  ASSUME NEW s \in Seq(Verdict), NEW v \in Verdict
  PROVE  {Append(s, v)[i] : i \in DOMAIN Append(s, v)} = {s[i] : i \in DOMAIN s} \cup {v}
<1>1. /\ DOMAIN s = 1..Len(s) /\ Len(s) \in Nat /\ DOMAIN Append(s, v) = 1..Len(s) + 1
      /\ Append(s, v)[Len(s) + 1] = v /\ \A i \in 1..Len(s) : Append(s, v)[i] = s[i]
  OBVIOUS
<1>2. 1..Len(s) + 1 = 1..Len(s) \cup {Len(s) + 1}
  BY <1>1
<1>3. QED
  BY <1>1, <1>2

\* The counts of findings_to_outcome, as sets.
LEMMA OutcomeOfFindings ==
  ASSUME NEW s \in Seq(Verdict)
  PROVE  exit_code(findings_to_outcome(s)) =
           IF {s[i] : i \in DOMAIN s} \cap {"reachable", "indeterminate"} = {} THEN "0" ELSE "2"
<1>1. ASSUME NEW v PROVE Count(s, v) = 0 <=> v \notin {s[i] : i \in DOMAIN s}
  <2>1. IsFiniteSet({i \in DOMAIN s : s[i] = v})
    <3>1. DOMAIN s = 1..Len(s) /\ Len(s) \in Nat
      OBVIOUS
    <3>2. IsFiniteSet(1..Len(s))
      BY <3>1, FS_Interval
    <3>3. {i \in DOMAIN s : s[i] = v} \subseteq 1..Len(s)
      BY <3>1
    <3>4. QED
      BY <3>2, <3>3, FS_Subset
  <2>2. Count(s, v) = 0 <=> {i \in DOMAIN s : s[i] = v} = {}
    BY <2>1, FS_EmptySet DEF Count
  <2>3. QED
    BY <2>2
<1>2. /\ Count(s, "reachable") = 0 <=> "reachable" \notin {s[i] : i \in DOMAIN s}
      /\ Count(s, "indeterminate") = 0 <=> "indeterminate" \notin {s[i] : i \in DOMAIN s}
  BY <1>1
<1>3. CASE Count(s, "reachable") = 0 /\ Count(s, "indeterminate") = 0
  BY <1>2, <1>3 DEF exit_code, findings_to_outcome
<1>4. CASE ~(Count(s, "reachable") = 0 /\ Count(s, "indeterminate") = 0)
  BY <1>2, <1>4 DEF exit_code, findings_to_outcome
<1>5. QED
  BY <1>3, <1>4

LEMMA EndFields ==
  ASSUME NEW r \in RunRecord, NEW c
  PROVE  LET e == [r EXCEPT !.stage = "ended", !.code = c] IN
         /\ e.stage = "ended" /\ e.code = c /\ e.command = r.command
         /\ e.open = r.open /\ e.findings = r.findings
BY DEF RunRecord

LEMMA MoveFields ==
  ASSUME NEW r \in RunRecord, NEW to
  PROVE  LET m == [r EXCEPT !.stage = to] IN
         /\ m.stage = to /\ m.code = r.code /\ m.command = r.command
         /\ m.open = r.open /\ m.findings = r.findings
BY DEF RunRecord

\* A run that fails, or is killed, is an audit that stops, or no audit.
LEMMA StopSeen ==
  ASSUME TypeOK, PhaseInv, PhaseInv', NEW p \in Proc, run[p].stage \notin {"idle", "ended"},
         NEW c \in {"1", "killed"}, run' = [run EXCEPT ![p].stage = "ended", ![p].code = c],
         Migrated' = Migrated
  PROVE  Promise!Next \/ Unseen
<1>1. OnlyRun(p) /\ run[p] \in RunRecord /\ run'[p] = [run[p] EXCEPT !.stage = "ended", !.code = c]
  BY RunEnds DEF TypeOK
<1>2. /\ run'[p].stage = "ended" /\ run'[p].code = c /\ run'[p].command = run[p].command
      /\ run'[p].open = run[p].open /\ run'[p].findings = run[p].findings
  <2>1. ASSUME NEW r \in RunRecord, NEW e, e = [r EXCEPT !.stage = "ended", !.code = c]
        PROVE  /\ e.stage = "ended" /\ e.code = c /\ e.command = r.command
               /\ e.open = r.open /\ e.findings = r.findings
    BY <2>1, EndFields
  <2>2. QED
    BY <1>1, <2>1
<1>3. CASE run[p].command # "run"
  BY <1>1, <1>2, <1>3, UnseenStep DEF Phase, Open, Verdicts, Code
<1>4. CASE run[p].command = "run"
  <2>1. /\ Phase(run'[p]) = "ended" /\ Phase(run[p]) \in {"begun", "gathered", "checking"}
        /\ Open(run'[p]) = Open(run[p]) /\ Verdicts(run'[p]) = Verdicts(run[p]) /\ Code(run'[p]) = c
    BY <1>2, <1>4 DEF Phase, Open, Verdicts, Code
  <2>2. /\ bStatus' = [bStatus EXCEPT ![p] = "ended"] /\ bStatus[p] \in {"begun", "gathered", "checking"}
        /\ bCode' = [bCode EXCEPT ![p] = c]
    BY <1>1, <2>1, ImageOfStep
  <2>3. bOpen' = bOpen
    <3>1. bOpen' = [bOpen EXCEPT ![p] = Open(run'[p])] /\ bOpen[p] = Open(run[p])
      BY <1>1, ImageOfStep
    <3>2. Open(run'[p]) = bOpen[p]
      BY <2>1, <3>1
    <3>3. QED
      BY <3>1, <3>2 DEF bOpen
  <2>4. bFound' = bFound
    <3>1. bFound' = [bFound EXCEPT ![p] = Verdicts(run'[p])] /\ bFound[p] = Verdicts(run[p])
      BY <1>1, ImageOfStep
    <3>2. Verdicts(run'[p]) = bFound[p]
      BY <2>1, <3>1
    <3>3. QED
      BY <3>1, <3>2 DEF bFound
  <2>5. Promise!Stop(p)
    BY <2>2, <2>3, <2>4 DEF Promise!Stop, bStatus, bOpen, bFound, bCode
  <2>6. QED
    BY <2>5 DEF Promise!Next
<1>5. QED
  BY <1>3, <1>4

LEMMA FailSeen ==
  ASSUME TypeOK, PhaseInv, PhaseInv', NEW p \in Proc, run[p].stage \notin {"idle", "ended"},
         NEW f, FailsWith(p, f), Migrated' = Migrated
  PROVE  Promise!Next \/ Unseen
BY StopSeen DEF FailsWith

\* A run that moves between two stages of the same phase.
LEMMA MoveUnseen ==
  ASSUME TypeOK, PhaseInv, PhaseInv', NEW p \in Proc, NEW from, NEW to, Moves(p, from, to),
         from \notin {"assemble", "evaluate", "ended"}, to \in Stages \ {"assemble", "evaluate", "ended"},
         Migrated' = Migrated
  PROVE  Unseen
<1>1. OnlyRun(p) /\ run[p] \in RunRecord /\ run'[p] = [run[p] EXCEPT !.stage = to] /\ run[p].stage = from
  BY StageMoves DEF TypeOK, Moves
<1>2. /\ run'[p].stage = to /\ run'[p].code = run[p].code /\ run'[p].command = run[p].command
      /\ run'[p].open = run[p].open /\ run'[p].findings = run[p].findings
  BY <1>1, MoveFields
<1>3. /\ Phase(run'[p]) = Phase(run[p]) /\ Open(run'[p]) = Open(run[p])
      /\ Verdicts(run'[p]) = Verdicts(run[p]) /\ Code(run'[p]) = Code(run[p])
  BY <1>1, <1>2 DEF Phase, Open, Verdicts, Code
<1>4. QED
  BY <1>1, <1>3, UnseenStep

LEMMA StartSeen ==
  ASSUME TypeOK, PhaseInv, PhaseInv', NEW p \in Proc, NEW command \in DOMAIN FirstStage,
         NEW config \in Configs, Start(p, command, config)
  PROVE  Promise!Next \/ Unseen
<1>1. /\ OnlyRun(p) /\ run[p].stage \in {"idle", "ended"} /\ Migrated' = Migrated
      /\ run'[p] = New(FirstStage[command], begun + 1, command, config)
  BY DEF Start, TypeOK, OnlyRun, Migrated
<1>2. /\ FirstStage[command] \in {"config", "preflight", "usage"}
      /\ run'[p].stage = FirstStage[command] /\ run'[p].command = command
      /\ run'[p].open = 0 /\ run'[p].findings = <<>> /\ run'[p].code = None
  BY <1>1, NewFields DEF FirstStage
<1>3. run[p].command = "run" => Phase(run[p]) = "ended"
  <2>1. Idle.command = "none"
    BY NewFields DEF Idle, None
  <2>2. QED
    BY <1>1, <2>1 DEF Phase, TypeOK, RunTyped
<1>4. /\ Open(run'[p]) = 0 /\ Verdicts(run'[p]) = {} /\ Code(run'[p]) = None
  BY <1>2 DEF Open, Verdicts, Code
<1>5. CASE command = "run"
  <2>1. Phase(run'[p]) = "begun" /\ Phase(run[p]) \in {"idle", "ended"}
    BY <1>2, <1>3, <1>5 DEF Phase
  <2>2. Promise!Begin(p)
    BY <1>1, <1>4, <2>1, ImageOfStep DEF Promise!Begin, bStatus, bOpen, bFound, bCode, None
  <2>3. QED
    BY <2>2 DEF Promise!Next
<1>6. CASE command # "run" /\ run[p].command = "run"
  <2>1. Phase(run'[p]) = "idle" /\ Phase(run[p]) = "ended"
    BY <1>2, <1>3, <1>6 DEF Phase
  <2>2. Promise!Leave(p)
    BY <1>1, <1>4, <2>1, ImageOfStep DEF Promise!Leave, bStatus, bOpen, bFound, bCode, None
  <2>3. QED
    BY <2>2 DEF Promise!Next
<1>7. CASE command # "run" /\ run[p].command # "run"
  BY <1>1, <1>2, <1>7, UnseenStep DEF Phase, Open, Verdicts, Code
<1>8. QED
  BY <1>5, <1>6, <1>7

\* What a step that leaves a run's paths, findings and exit code alone
\* shows of it.
LEMMA QuietStep ==
  ASSUME PhaseInv, PhaseInv', NEW p \in Proc, OnlyRun(p),
         Open(run'[p]) = Open(run[p]), Verdicts(run'[p]) = Verdicts(run[p]), Code(run'[p]) = Code(run[p])
  PROVE  /\ bStatus' = [bStatus EXCEPT ![p] = Phase(run'[p])] /\ bStatus[p] = Phase(run[p])
         /\ bOpen' = bOpen /\ bFound' = bFound /\ bCode' = bCode
<1>1. bStatus' = [bStatus EXCEPT ![p] = Phase(run'[p])] /\ bStatus[p] = Phase(run[p])
  BY ImageOfStep
<1>2. bOpen' = bOpen
  BY ImageOfStep DEF bOpen
<1>3. bFound' = bFound
  BY ImageOfStep DEF bFound
<1>4. bCode' = bCode
  BY ImageOfStep DEF bCode
<1>5. QED
  BY <1>1, <1>2, <1>3, <1>4

LEMMA WriteSeen ==
  ASSUME TypeOK, AuditInv, PhaseInv, PhaseInv', NEW p \in Proc, Write(p)
  PROVE  Promise!Next \/ Unseen
<1>1. run[p].stage = "write" /\ run[p].command = "run" /\ run[p] \in RunRecord
  BY DEF Write, TypeOK, RunTyped, AfterPreflight, Stages
<1>2. Migrated /\ Migrated' = Migrated
  <2>1. Migrated
    BY <1>1 DEF AuditInv, RunInv, Constrained
  <2>2. db'.schema = db.schema
    BY DEF Write, TypeOK, Database
  <2>3. QED
    BY <2>1, <2>2 DEF Migrated
<1>3. CASE run' = run
  <2>1. OnlyRun(p)
    BY <1>3 DEF OnlyRun
  <2>2. QED
    BY <1>2, <1>3, <2>1, UnseenStep
<1>4. CASE Moves(p, "write", "assemble")
  <2>1. OnlyRun(p) /\ run'[p] = [run[p] EXCEPT !.stage = "assemble"]
    BY <1>4, StageMoves DEF Moves, Stages
  <2>2. /\ run'[p].stage = "assemble" /\ run'[p].code = run[p].code /\ run'[p].command = "run"
        /\ run'[p].open = run[p].open /\ run'[p].findings = run[p].findings
    BY <1>1, <2>1, MoveFields
  <2>3. /\ Phase(run'[p]) = "gathered" /\ Phase(run[p]) = "begun" /\ Open(run'[p]) = Open(run[p])
        /\ Verdicts(run'[p]) = Verdicts(run[p]) /\ Code(run'[p]) = Code(run[p])
    BY <1>1, <2>2 DEF Phase, Open, Verdicts, Code
  <2>4. /\ bStatus' = [bStatus EXCEPT ![p] = "gathered"] /\ bStatus[p] = "begun"
        /\ bOpen' = bOpen /\ bFound' = bFound /\ bCode' = bCode
    BY <2>1, <2>3, QuietStep
  <2>5. Promise!Gather(p)
    BY <1>2, <2>4 DEF Promise!Gather, Promise!Moves, bStatus, bOpen, bFound, bCode
  <2>6. QED
    BY <2>5 DEF Promise!Next
<1>5. CASE IngestFails(p, "ingest", "Write")
  BY <1>1, <1>2, <1>5, IngestFailures, FailSeen
<1>6. QED
  BY <1>3, <1>4, <1>5 DEF Write

LEMMA AssembleSeen ==
  ASSUME TypeOK, PhaseInv, PhaseInv', NEW p \in Proc, assemble_candidates(p)
  PROVE  Promise!Next \/ Unseen
<1>1. run[p].stage = "assemble" /\ run[p].command = "run" /\ run[p] \in RunRecord /\ Migrated' = Migrated
  BY DEF assemble_candidates, TypeOK, RunTyped, AfterPreflight, Stages, Migrated
<1>2. ASSUME NEW n \in 0..MaxCandidates, run' = [run EXCEPT ![p].stage = "evaluate", ![p].open = n]
      PROVE  Promise!FindPaths(p)
  <2>1. n \in Nat
    BY BoundsAssumption
  <2>2. OnlyRun(p) /\ run'[p] = [run[p] EXCEPT !.stage = "evaluate", !.open = n]
    BY <1>2 DEF TypeOK, OnlyRun
  <2>3. /\ run'[p].stage = "evaluate" /\ run'[p].open = n /\ run'[p].command = "run"
        /\ run'[p].findings = run[p].findings /\ run'[p].code = run[p].code
    BY <1>1, <2>2 DEF RunRecord
  <2>4. /\ Phase(run'[p]) = "checking" /\ Phase(run[p]) = "gathered" /\ Open(run'[p]) = n
        /\ Verdicts(run'[p]) = Verdicts(run[p]) /\ Code(run'[p]) = Code(run[p])
    BY <1>1, <2>3 DEF Phase, Open, Verdicts, Code
  <2>5. /\ bStatus' = [bStatus EXCEPT ![p] = "checking"] /\ bStatus[p] = "gathered"
        /\ bOpen' = [bOpen EXCEPT ![p] = n]
    BY <2>2, <2>4, ImageOfStep
  <2>6. bFound' = bFound
    BY <2>2, <2>4, ImageOfStep DEF bFound
  <2>7. bCode' = bCode
    BY <2>2, <2>4, ImageOfStep DEF bCode
  <2>8. bOpen'[p] = n
    BY <2>5 DEF bOpen
  <2>9. QED
    BY <1>1, <2>1, <2>5, <2>6, <2>7, <2>8
      DEF Promise!FindPaths, Promise!Moves, bStatus, bOpen, bFound, bCode
<1>3. CASE Fails(p, "stage: evaluate (candidate assembly)")
  BY <1>1, <1>3, FailSeen DEF Fails
<1>4. QED
  BY <1>2, <1>3 DEF assemble_candidates, Promise!Next

LEMMA EvaluateSeen ==
  ASSUME TypeOK, PhaseInv, PhaseInv', NEW p \in Proc, evaluate(p)
  PROVE  Promise!Next
<1>1. /\ run[p].stage = "evaluate" /\ run[p].command = "run" /\ run[p] \in RunRecord
      /\ run[p].open > 0 /\ Migrated' = Migrated
  BY DEF evaluate, TypeOK, RunTyped, AfterPreflight, Stages, Migrated
<1>2. PICK verdict \in Verdict :
        run' = [run EXCEPT ![p].open = @ - 1, ![p].findings = Append(@, verdict)]
  BY DEF evaluate
<1>3. run[p].open \in Nat /\ run[p].findings \in Seq(Verdict)
  BY <1>1 DEF RunRecord
<1>4. OnlyRun(p) /\ run'[p] = [run[p] EXCEPT !.open = @ - 1, !.findings = Append(@, verdict)]
  BY <1>2 DEF TypeOK, OnlyRun
<1>5. /\ run'[p].stage = "evaluate" /\ run'[p].open = run[p].open - 1 /\ run'[p].command = "run"
      /\ run'[p].findings = Append(run[p].findings, verdict) /\ run'[p].code = run[p].code
  BY <1>1, <1>4 DEF RunRecord
<1>6. Verdicts(run'[p]) = Verdicts(run[p]) \cup {verdict}
  <2> DEFINE s == run[p].findings
  <2>1. {Append(s, verdict)[i] : i \in DOMAIN Append(s, verdict)} = {s[i] : i \in DOMAIN s} \cup {verdict}
    BY <1>3, AppendFound
  <2>2. Verdicts(run[p]) = {s[i] : i \in DOMAIN s}
    BY <1>1 DEF Verdicts
  <2>3. Verdicts(run'[p]) = {Append(s, verdict)[i] : i \in DOMAIN Append(s, verdict)}
    BY <1>5 DEF Verdicts
  <2>4. QED
    BY <2>1, <2>2, <2>3
<1>7. /\ Phase(run'[p]) = "checking" /\ Phase(run[p]) = "checking" /\ Open(run[p]) = run[p].open
      /\ Open(run'[p]) = Open(run[p]) - 1 /\ Code(run'[p]) = Code(run[p])
  BY <1>1, <1>5 DEF Phase, Open, Code
<1>8. bStatus' = bStatus /\ bStatus[p] = "checking"
  <2>1. bStatus' = [bStatus EXCEPT ![p] = bStatus[p]] /\ bStatus[p] = "checking"
    BY <1>4, <1>7, ImageOfStep
  <2>2. QED
    BY <2>1 DEF bStatus
<1>9. bOpen' = [bOpen EXCEPT ![p] = bOpen[p] - 1] /\ bOpen[p] > 0
  BY <1>1, <1>4, <1>7, ImageOfStep
<1>10. bFound' = [bFound EXCEPT ![p] = bFound[p] \cup {verdict}]
  BY <1>4, <1>6, ImageOfStep
<1>11. bCode' = bCode
  BY <1>4, <1>7, ImageOfStep DEF bCode
<1>12. Promise!Check(p, verdict)
  BY <1>1, <1>8, <1>9, <1>10, <1>11 DEF Promise!Check, bStatus, bOpen, bFound, bCode
<1>13. QED
  BY <1>12 DEF Promise!Next

LEMMA FinishSeen ==
  ASSUME TypeOK, PhaseInv, PhaseInv', NEW p \in Proc, Finish(p)
  PROVE  Promise!Next
<1>1. /\ run[p].stage = "evaluate" /\ run[p].command = "run" /\ run[p] \in RunRecord
      /\ run[p].open = 0 /\ Migrated' = Migrated
  BY DEF Finish, TypeOK, RunTyped, AfterPreflight, Stages, Migrated
<1>2. PICK c \in {"0", "2"} :
        /\ c = exit_code(findings_to_outcome(run[p].findings))
        /\ run' = [run EXCEPT ![p].stage = "ended", ![p].code = c]
  BY DEF Finish, Ends, exit_code
<1>3. run[p].findings \in Seq(Verdict)
  BY <1>1 DEF RunRecord
<1>4. c = IF Verdicts(run[p]) \cap {"reachable", "indeterminate"} = {} THEN "0" ELSE "2"
  BY <1>1, <1>2, <1>3, OutcomeOfFindings DEF Verdicts
<1>5. OnlyRun(p) /\ run'[p] = [run[p] EXCEPT !.stage = "ended", !.code = c]
  BY <1>2, RunEnds
<1>6. /\ run'[p].stage = "ended" /\ run'[p].code = c /\ run'[p].command = "run"
      /\ run'[p].open = run[p].open /\ run'[p].findings = run[p].findings
  <2>1. ASSUME NEW r \in RunRecord, NEW e, e = [r EXCEPT !.stage = "ended", !.code = c]
        PROVE  /\ e.stage = "ended" /\ e.code = c /\ e.command = r.command
               /\ e.open = r.open /\ e.findings = r.findings
    BY <2>1, EndFields
  <2>2. QED
    BY <1>1, <1>5, <2>1
<1>7. /\ Phase(run'[p]) = "ended" /\ Phase(run[p]) = "checking" /\ Open(run[p]) = 0
      /\ Open(run'[p]) = Open(run[p]) /\ Verdicts(run'[p]) = Verdicts(run[p]) /\ Code(run'[p]) = c
  BY <1>1, <1>6 DEF Phase, Open, Verdicts, Code
<1>8. /\ bStatus' = [bStatus EXCEPT ![p] = "ended"] /\ bStatus[p] = "checking"
      /\ bOpen[p] = 0 /\ bFound[p] = Verdicts(run[p]) /\ bCode' = [bCode EXCEPT ![p] = c]
  BY <1>5, <1>7, ImageOfStep
<1>9. bOpen' = bOpen
  BY <1>5, <1>7, ImageOfStep DEF bOpen
<1>10. bFound' = bFound
  BY <1>5, <1>7, ImageOfStep DEF bFound
<1>11. Promise!Finish(p)
  BY <1>1, <1>4, <1>8, <1>9, <1>10 DEF Promise!Finish, Promise!Moves, bStatus, bOpen, bFound, bCode
<1>12. QED
  BY <1>11 DEF Promise!Next

LEMMA MigrateSeen ==
  ASSUME TypeOK, PhaseInv, PhaseInv', NEW p \in Proc, migrate(p)
  PROVE  Promise!Next \/ Unseen
<1>1. run[p].stage = "migrate"
  BY DEF migrate
<1>2. CASE db' = db
  <2>1. Migrated' = Migrated
    BY <1>2 DEF Migrated
  <2>2. CASE Moves(p, "migrate", "boundary")
    BY <2>1, <2>2, MoveUnseen DEF Stages
  <2>3. CASE Fails(p, "stage: migrate")
    BY <1>1, <2>1, <2>3, FailSeen DEF Fails
  <2>4. CASE run' = run
    BY <2>1, <2>4, UnseenStep DEF OnlyRun
  <2>5. QED
    BY <2>2, <2>3, <2>4 DEF migrate
<1>3. CASE db.schema < Versions /\ db' = [db EXCEPT !.schema = @ + 1] /\ run' = run
  <2>1. /\ ~Migrated /\ bStatus' = bStatus /\ bOpen' = bOpen /\ bFound' = bFound /\ bCode' = bCode
    <3>1. ~Migrated
      BY <1>3, BoundsAssumption DEF Migrated, TypeOK, Database
    <3>2. bStatus' = bStatus
      BY <1>3 DEF bStatus, PhaseInv
    <3>3. bOpen' = bOpen /\ bFound' = bFound /\ bCode' = bCode
      BY <1>3 DEF bOpen, bFound, bCode, Audited, Found
    <3>4. QED
      BY <3>1, <3>2, <3>3
  <2>2. CASE Migrated' = TRUE
    <3>1. Promise!Migrate
      BY <2>1, <2>2 DEF Promise!Migrate, bStatus, bOpen, bFound, bCode
    <3>2. QED
      BY <3>1 DEF Promise!Next
  <2>3. CASE Migrated' = FALSE
    <3>1. Migrated' = Migrated
      BY <2>1, <2>3 DEF Migrated
    <3>2. QED
      BY <2>1, <3>1 DEF Unseen
  <2>4. QED
    BY <2>2, <2>3 DEF Migrated
<1>4. QED
  BY <1>2, <1>3 DEF migrate

\* A run that only learns something on its way, or fails.
LEMMA LearnUnseen ==
  ASSUME PhaseInv, PhaseInv', NEW p \in Proc, OnlyRun(p), Migrated' = Migrated,
         run[p].stage \in {"sdk", "account"}, run'[p].stage \in {"account", "connect"},
         run'[p].command = run[p].command, run'[p].open = run[p].open,
         run'[p].findings = run[p].findings, run'[p].code = run[p].code
  PROVE  Unseen
<1>1. /\ Phase(run'[p]) = Phase(run[p]) /\ Open(run'[p]) = Open(run[p])
      /\ Verdicts(run'[p]) = Verdicts(run[p]) /\ Code(run'[p]) = Code(run[p])
  BY DEF Phase, Open, Verdicts, Code
<1>2. QED
  BY <1>1, UnseenStep

LEMMA SdkSeen ==
  ASSUME TypeOK, PhaseInv, PhaseInv', NEW p \in Proc, build_sdk_config(p)
  PROVE  Promise!Next \/ Unseen
<1>1. run[p].stage = "sdk" /\ Migrated' = Migrated /\ run[p] \in RunRecord
  BY DEF build_sdk_config, Migrated, TypeOK
<1>2. PICK region : region = resolve_region(run[p].config.region)
  OBVIOUS
<1>3. CASE IngestFails(p, "BuildSdkConfig", "RegionNotResolved")
  BY <1>1, <1>3, IngestFailures, FailSeen
<1>4. CASE run' = [run EXCEPT ![p].stage = "account", ![p].region = region]
  <2>1. OnlyRun(p) /\ run'[p] = [run[p] EXCEPT !.stage = "account", !.region = region]
    BY <1>4 DEF TypeOK, OnlyRun
  <2>2. /\ run'[p].stage = "account" /\ run'[p].command = run[p].command /\ run'[p].open = run[p].open
        /\ run'[p].findings = run[p].findings /\ run'[p].code = run[p].code
    BY <1>1, <2>1 DEF RunRecord
  <2>3. QED
    BY <1>1, <2>1, <2>2, LearnUnseen
<1>5. QED
  BY <1>2, <1>3, <1>4 DEF build_sdk_config

LEMMA AccountSeen ==
  ASSUME TypeOK, PhaseInv, PhaseInv', NEW p \in Proc, resolve_account_id(p)
  PROVE  Promise!Next \/ Unseen
<1>1. run[p].stage = "account" /\ Migrated' = Migrated /\ run[p] \in RunRecord
  BY DEF resolve_account_id, Migrated, TypeOK
<1>2. CASE \/ CallFails(p, "GetCallerIdentity", "AccountIdResolution")
           \/ IngestFails(p, "GetCallerIdentity", "AccountIdMissing")
  BY <1>1, <1>2, IngestFailures, FailSeen
<1>3. CASE run' = [run EXCEPT ![p].stage = "connect", ![p].account = AccountOf[AWS_PROFILE]]
  <2>1. OnlyRun(p) /\ run'[p] = [run[p] EXCEPT !.stage = "connect", !.account = AccountOf[AWS_PROFILE]]
    BY <1>3 DEF TypeOK, OnlyRun
  <2>2. /\ run'[p].stage = "connect" /\ run'[p].command = run[p].command /\ run'[p].open = run[p].open
        /\ run'[p].findings = run[p].findings /\ run'[p].code = run[p].code
    BY <1>1, <2>1 DEF RunRecord
  <2>3. QED
    BY <1>1, <2>1, <2>2, LearnUnseen
<1>4. QED
  BY <1>2, <1>3 DEF resolve_account_id

\* A use of the program that audits nothing shows nothing.
LEMMA OtherUseUnseen ==
  ASSUME TypeOK, PhaseInv, PhaseInv', NEW p \in Proc, run[p].command # "run",
         NEW c \in {"0", "2"}, Ends(p, c), Migrated' = Migrated
  PROVE  Unseen
<1>1. OnlyRun(p) /\ run[p] \in RunRecord /\ run'[p] = [run[p] EXCEPT !.stage = "ended", !.code = c]
  BY RunEnds DEF TypeOK, Ends
<1>2. run'[p].command = run[p].command
  <2>1. ASSUME NEW r \in RunRecord, NEW e, e = [r EXCEPT !.stage = "ended", !.code = c]
        PROVE  e.command = r.command
    BY <2>1, EndFields
  <2>2. QED
    BY <1>1, <2>1
<1>3. QED
  BY <1>1, <1>2, UnseenStep DEF Phase, Open, Verdicts, Code

-----------------------------------------------------------------------------
LEMMA NextRefines ==
  ASSUME TypeOK, AuditInv, PhaseInv, PhaseInv', [Next]_vars
  PROVE  Promise!Next \/ Unseen
<1>1. ASSUME NEW p \in Proc, NEW command \in DOMAIN FirstStage, NEW config \in Configs,
             Start(p, command, config)
      PROVE  Promise!Next \/ Unseen
  BY <1>1, StartSeen
<1>2. ASSUME NEW p \in Proc, UsageError(p) PROVE Promise!Next \/ Unseen
  <2>1. run[p].command # "run" /\ Ends(p, "2") /\ Migrated' = Migrated
    BY <1>2 DEF UsageError, TypeOK, RunTyped, Migrated
  <2>2. QED
    BY <2>1, OtherUseUnseen
<1>3. ASSUME NEW p \in Proc, LoadConfig(p) PROVE Promise!Next \/ Unseen
  <2>1. run[p].stage = "config" /\ Migrated' = Migrated
    BY <1>3 DEF LoadConfig, Moves, Migrated
  <2>2. CASE Moves(p, "config", "preflight")
    BY <2>1, <2>2, MoveUnseen DEF Stages
  <2>3. CASE Fails(p, "config")
    BY <2>1, <2>3, FailSeen DEF Fails
  <2>4. QED
    BY <1>3, <2>2, <2>3 DEF LoadConfig
<1>4. ASSUME NEW p \in Proc, Preflight(p) PROVE Promise!Next \/ Unseen
  <2>1. run[p].stage = "preflight" /\ Migrated' = Migrated
    BY <1>4 DEF Preflight, Migrated
  <2>2. CASE Moves(p, "preflight", "sdk")
    BY <2>1, <2>2, MoveUnseen DEF Stages
  <2>3. CASE run[p].command # "run" /\ Ends(p, "0")
    BY <2>1, <2>3, OtherUseUnseen
  <2>4. CASE Fails(p, "stage: preflight")
    BY <2>1, <2>4, FailSeen DEF Fails
  <2>5. QED
    BY <1>4, <2>2, <2>3, <2>4 DEF Preflight
<1>5. ASSUME NEW p \in Proc, connect(p) PROVE Promise!Next \/ Unseen
  <2>1. run[p].stage = "connect" /\ Migrated' = Migrated
    BY <1>5 DEF connect, Moves, Migrated
  <2>2. CASE Moves(p, "connect", "migrate")
    BY <2>1, <2>2, MoveUnseen DEF Stages
  <2>3. CASE Fails(p, "stage: connect")
    BY <2>1, <2>3, FailSeen DEF Fails
  <2>4. QED
    BY <1>5, <2>2, <2>3 DEF connect
<1>6. ASSUME NEW p \in Proc, upsert_regulated_boundaries(p) PROVE Promise!Next \/ Unseen
  <2>1. run[p].stage = "boundary" /\ Migrated' = Migrated
    BY <1>6 DEF upsert_regulated_boundaries, Migrated, TypeOK, Database
  <2>2. CASE Moves(p, "boundary", "collect")
    BY <2>1, <2>2, MoveUnseen DEF Stages
  <2>3. CASE Fails(p, "stage: boundary")
    BY <2>1, <2>3, FailSeen DEF Fails
  <2>4. QED
    BY <1>6, <2>2, <2>3 DEF upsert_regulated_boundaries
<1>7. ASSUME NEW p \in Proc, Collect(p) PROVE Promise!Next \/ Unseen
  <2>1. run[p].stage = "collect" /\ Migrated' = Migrated
    BY <1>7 DEF Collect, Migrated
  <2>2. CASE Moves(p, "collect", "write")
    BY <2>1, <2>2, MoveUnseen DEF Stages
  <2>3. CASE \/ \E operation \in DescribeOperations : CallFails(p, operation, "Describe")
             \/ IngestFails(p, "ingest", "Mapping")
    BY <2>1, <2>3, IngestFailures, FailSeen
  <2>4. QED
    BY <1>7, <2>2, <2>3 DEF Collect
<1>8. ASSUME NEW p \in Proc, Killed(p) PROVE Promise!Next \/ Unseen
  <2>1. Migrated' = Migrated
    BY <1>8 DEF Killed, Migrated
  <2>2. QED
    BY <1>8, <2>1, StopSeen DEF Killed, Ends
<1>9. ASSUME NEW p \in Proc, Step(p) PROVE Promise!Next \/ Unseen
  BY <1>2, <1>3, <1>4, <1>5, <1>6, <1>7, <1>9, SdkSeen, AccountSeen, MigrateSeen, WriteSeen,
    AssembleSeen, EvaluateSeen, FinishSeen DEF Step
<1>10. CASE UNCHANGED vars
  BY <1>10 DEF vars, Unseen, Migrated, PhaseInv, bStatus, bOpen, bFound, bCode, Audited, Found
<1>11. QED
  BY <1>1, <1>8, <1>9, <1>10 DEF Next

LEMMA InitRefines == Init => Promise!Init
<1> SUFFICES ASSUME Init PROVE Promise!Init
  OBVIOUS
<1>1. \A p \in Proc : run[p].command = None
  BY NewFields DEF Init, Idle
<1>2. \A p \in Proc : run[p].command # "run"
  BY <1>1 DEF None
<1>3. /\ [p \in Proc |-> Status(p)] = [p \in Proc |-> "idle"]
      /\ [p \in Proc |-> Audited(p, run[p].open, 0)] = [p \in Proc |-> 0]
      /\ [p \in Proc |-> Audited(p, Found(p), {})] = [p \in Proc |-> {}]
      /\ [p \in Proc |-> Audited(p, run[p].code, None)] = [p \in Proc |-> "none"]
  BY <1>2 DEF Status, Audited, None
<1>4. Migrated \in BOOLEAN
  BY DEF Migrated
<1>5. QED
  BY <1>3, <1>4 DEF Promise!Init

\* The exit code keeps its promise: no 0 and no 2 without a whole audit, and
\* no 0 with a verdict left to look at (lib.rs, Outcome; run.rs,
\* findings_to_outcome).
THEOREM AuditRefined == Spec => ImplementsAudit
<1>1. Init => Promise!Init
  BY InitRefines
<1>2. TypeOK /\ AuditInv /\ PhaseInv /\ PhaseInv' /\ [Next]_vars => [Promise!Next]_(Promise!vars)
  <2> SUFFICES ASSUME TypeOK, AuditInv, PhaseInv, PhaseInv', [Next]_vars
               PROVE  Promise!Next \/ UNCHANGED Promise!vars
    OBVIOUS
  <2>1. CASE Promise!Next
    BY <2>1
  <2>2. CASE Unseen
    BY <2>2 DEF Unseen, Promise!vars, bStatus, bOpen, bFound, bCode
  <2>3. QED
    BY <2>1, <2>2, NextRefines
<1>3. QED
  BY <1>1, <1>2, AuditCorrect, PhaseHolds, PTL DEF Spec, ImplementsAudit, Promise!Spec
-----------------------------------------------------------------------------
(* What the operator is told.  Of the causes in a chain of the SDK one, and *)
(* one alone, has a class, however deep it is.                              *)

Truthful(f) ==
  f.reason \in DOMAIN ReasonClass =>
    /\ f.told.class = ReasonClass[f.reason]
    /\ f.told.class = "AccessDenied" => f.told.detail[2] = f.operation

Callable == DescribeOperations \cup {"GetCallerIdentity"}

\* What is found in a chain that has one cause with a class.
LEMMA OneCauseCounts ==
  ASSUME NEW operation, NEW chain, NEW k \in Nat, k \in DOMAIN chain,
         Recognised(operation, chain[k]) # Other,
         \A i \in DOMAIN chain : i # k => Recognised(operation, chain[i]) = Other
  PROVE  classify(operation, chain) = Recognised(operation, chain[k])
<1> DEFINE found == {i \in DOMAIN chain : Recognised(operation, chain[i]) # Other}
<1>1. found = {k}
  OBVIOUS
<1>2. Min(found) = k
  BY <1>1 DEF Min
<1>3. classify(operation, chain) =
        IF found = {} THEN Other ELSE Recognised(operation, chain[Min(found)])
  BY DEF classify
<1>4. QED
  BY <1>1, <1>2, <1>3

LEMMA CauseFields ==
  ASSUME NEW type, NEW of, NEW code
  PROVE  /\ Cause(type, of, code).type = type
         /\ Cause(type, of, code).of = of
         /\ Cause(type, of, code).code = code
BY DEF Cause

\* A wrapper, or a cause further down that repeats what the SDK said, has none.
LEMMA UnclassifiedCauses ==
  ASSUME NEW operation, NEW of, NEW code, NEW type \in {"IngestError", "ServiceError", "ConnectorError"}
  PROVE  Recognised(operation, Cause(type, of, code)) = Other
<1>1. Cause(type, of, code).type \notin {"CredentialsError", "SdkError"}
  BY CauseFields
<1>2. QED
  BY <1>1 DEF Recognised, classify_describe_error

LEMMA SdkErrorClass ==
  ASSUME NEW operation \in Callable, NEW code
  PROVE  Recognised(operation, Cause("SdkError", operation, code)) = classify_code(operation, code)
BY CauseFields DEF Recognised, classify_describe_error, Callable

LEMMA CodeClass ==
  ASSUME NEW operation \in Callable, NEW reason \in DOMAIN Codes, NEW code \in Codes[reason]
  PROVE  /\ classify_code(operation, code) # Other
         /\ classify_code(operation, code).class = ReasonClass[reason]
         /\ reason = "denied" => classify_code(operation, code).detail[2] = operation
         /\ reason \in {"expired", "denied", "throttled"}
<1>1. CASE reason = "expired"
  <2>1. code \in {"ExpiredToken", "RequestExpired", "ExpiredTokenException"}
    BY <1>1, CodesAssumption
  <2>2. QED
    BY <1>1, <2>1 DEF classify_code, Class, Other, ReasonClass
<1>2. CASE reason = "denied"
  <2>1. code \in {"UnauthorizedOperation", "AccessDenied", "AccessDeniedException", "AuthFailure"}
    BY <1>2, CodesAssumption
  <2>2. classify_code(operation, code) = Class("AccessDenied", iam_action_for(operation))
    BY <2>1 DEF classify_code
  <2>3. iam_action_for(operation)[2] = operation
    BY DEF iam_action_for, Callable, DescribeOperations
  <2>4. QED
    BY <1>2, <2>2, <2>3 DEF Class, Other, ReasonClass
<1>3. CASE reason = "throttled"
  <2>1. code \in {"RequestLimitExceeded", "Throttling", "ThrottlingException"}
    BY <1>3, CodesAssumption
  <2>2. QED
    BY <1>3, <2>1 DEF classify_code, Class, Other, ReasonClass
<1>4. reason \in {"expired", "denied", "throttled"}
  BY CodesAssumption
<1>5. QED
  BY <1>1, <1>2, <1>3, <1>4

\* A call that AWS refused with a code: the second cause has the class.
LEMMA RefusedCall ==
  ASSUME NEW operation \in Callable, NEW reason \in DOMAIN Codes, NEW code \in Codes[reason],
         NEW variant
  PROVE  classify(operation, <<Cause("IngestError", variant, None), Cause("SdkError", operation, code),
                               Cause("ServiceError", operation, code)>>) = classify_code(operation, code)
<1> DEFINE chain == <<Cause("IngestError", variant, None), Cause("SdkError", operation, code),
                      Cause("ServiceError", operation, code)>>
<1>1. DOMAIN chain = {1, 2, 3} /\ 2 \in Nat
  OBVIOUS
<1>2. /\ chain[1] = Cause("IngestError", variant, None)
      /\ chain[2] = Cause("SdkError", operation, code)
      /\ chain[3] = Cause("ServiceError", operation, code)
  OBVIOUS
<1>3. Recognised(operation, chain[1]) = Other /\ Recognised(operation, chain[3]) = Other
  BY <1>2, UnclassifiedCauses
<1>4. Recognised(operation, chain[2]) = classify_code(operation, code)
  BY <1>2, SdkErrorClass
<1>5. classify_code(operation, code) # Other
  BY CodeClass
<1>6. \A i \in DOMAIN chain : i # 2 => Recognised(operation, chain[i]) = Other
  BY <1>1, <1>3
<1>7. QED
  BY <1>1, <1>4, <1>5, <1>6, OneCauseCounts

\* A call that was never sent, for want of credentials: the fourth.
LEMMA UnsentCall ==
  ASSUME NEW operation \in Callable, NEW variant, NEW kind \in {"CredentialsNotLoaded", "InvalidConfiguration"},
         NEW chain,
         chain = <<Cause("IngestError", variant, None), Cause("SdkError", operation, None),
                   Cause("ConnectorError", operation, None), Cause("CredentialsError", kind, None)>>
  PROVE  classify(operation, chain) = classify_credentials_error(kind)
<1>1. DOMAIN chain = {1, 2, 3, 4} /\ 4 \in Nat
  OBVIOUS
<1>2. /\ chain[1] = Cause("IngestError", variant, None)
      /\ chain[2] = Cause("SdkError", operation, None)
      /\ chain[3] = Cause("ConnectorError", operation, None)
      /\ chain[4] = Cause("CredentialsError", kind, None)
  OBVIOUS
<1>3. Recognised(operation, chain[1]) = Other /\ Recognised(operation, chain[3]) = Other
  BY <1>2, UnclassifiedCauses
<1>4. Recognised(operation, chain[2]) = Other
  BY <1>2, SdkErrorClass DEF classify_code, None
<1>5. Recognised(operation, chain[4]) = classify_credentials_error(kind)
  BY <1>2, CauseFields DEF Recognised
<1>6. classify_credentials_error(kind) # Other
  BY DEF classify_credentials_error, Class, Other
<1>7. \A i \in DOMAIN chain : i # 4 => Recognised(operation, chain[i]) = Other
  BY <1>1, <1>3, <1>4
<1>8. QED
  BY <1>1, <1>5, <1>6, <1>7, OneCauseCounts

LEMMA ConsTwo ==
  ASSUME NEW a, NEW b
  PROVE  <<a>> \o <<b>> = <<a, b>>
<1> DEFINE S == {a, b}
           s == <<a>>
           t == <<b>>
           u == <<a, b>>
<1>1. s \in Seq(S) /\ t \in Seq(S) /\ u \in Seq(S)
  OBVIOUS
<1>2. Len(s) = 1 /\ Len(t) = 1 /\ Len(u) = 2 /\ s[1] = a /\ t[1] = b /\ u[1] = a /\ u[2] = b
  OBVIOUS
<1> HIDE DEF S, s, t, u
<1>3. s \o t \in Seq(S) /\ Len(s \o t) = 2 /\ (s \o t)[1] = a /\ (s \o t)[2] = b
  BY <1>1, <1>2, ConcatProperties
<1>4. s \o t = u
  BY <1>1, <1>2, <1>3, SeqEqual
<1>5. QED
  BY <1>4 DEF s, t, u

LEMMA ConsThree ==
  ASSUME NEW a, NEW b, NEW c
  PROVE  <<a>> \o <<b, c>> = <<a, b, c>>
<1> DEFINE S == {a, b, c}
           s == <<a>>
           t == <<b, c>>
           u == <<a, b, c>>
<1>1. s \in Seq(S) /\ t \in Seq(S) /\ u \in Seq(S)
  OBVIOUS
<1>2. /\ Len(s) = 1 /\ Len(t) = 2 /\ Len(u) = 3 /\ s[1] = a /\ t[1] = b /\ t[2] = c
      /\ u[1] = a /\ u[2] = b /\ u[3] = c
  OBVIOUS
<1> HIDE DEF S, s, t, u
<1>3. /\ s \o t \in Seq(S) /\ Len(s \o t) = 3
      /\ (s \o t)[1] = a /\ (s \o t)[2] = b /\ (s \o t)[3] = c
  <2>1. /\ s \o t \in Seq(S) /\ Len(s \o t) = Len(s) + Len(t)
        /\ \A i \in 1..Len(s) + Len(t) : (s \o t)[i] = IF i <= Len(s) THEN s[i] ELSE t[i - Len(s)]
    BY <1>1, ConcatProperties, Zenon
  <2>2. QED
    BY <1>2, <2>1
<1>4. s \o t = u
  BY <1>1, <1>2, <1>3, SeqEqual
<1>5. QED
  BY <1>4 DEF s, t, u

LEMMA ConsFour ==
  ASSUME NEW a, NEW b, NEW c, NEW d
  PROVE  <<a>> \o <<b, c, d>> = <<a, b, c, d>>
<1> DEFINE S == {a, b, c, d}
           s == <<a>>
           t == <<b, c, d>>
           u == <<a, b, c, d>>
<1>1. s \in Seq(S) /\ t \in Seq(S) /\ u \in Seq(S)
  OBVIOUS
<1>2. /\ Len(s) = 1 /\ Len(t) = 3 /\ Len(u) = 4 /\ s[1] = a /\ t[1] = b /\ t[2] = c /\ t[3] = d
      /\ u[1] = a /\ u[2] = b /\ u[3] = c /\ u[4] = d
  OBVIOUS
<1> HIDE DEF S, s, t, u
<1>3. /\ s \o t \in Seq(S) /\ Len(s \o t) = 4
      /\ (s \o t)[1] = a /\ (s \o t)[2] = b /\ (s \o t)[3] = c /\ (s \o t)[4] = d
  <2>1. /\ s \o t \in Seq(S) /\ Len(s \o t) = Len(s) + Len(t)
        /\ \A i \in 1..Len(s) + Len(t) : (s \o t)[i] = IF i <= Len(s) THEN s[i] ELSE t[i - Len(s)]
    BY <1>1, ConcatProperties, Zenon
  <2>2. QED
    BY <1>2, <2>1
<1>4. s \o t = u
  BY <1>1, <1>2, <1>3, SeqEqual
<1>5. QED
  BY <1>4 DEF s, t, u

LEMMA CallFailureIsTruthful ==
  ASSUME NEW operation \in Callable, NEW variant, NEW reason \in Reasons,
         NEW sdk \in SdkChains(operation, reason), NEW chain,
         chain = <<Cause("IngestError", variant, None)>> \o sdk,
         NEW f, f.told = classify(operation, chain), f.operation = operation, f.reason = reason
  PROVE  Truthful(f)
<1>0. DOMAIN Codes = {"expired", "denied", "throttled"}
  BY CodesAssumption
<1>1. CASE reason \in DOMAIN Codes
  <2>1. PICK code \in Codes[reason] :
          sdk = <<Cause("SdkError", operation, code)>> \o <<Cause("ServiceError", operation, code)>>
    <3>1. SdkChains(operation, reason) =
            {<<Cause("SdkError", operation, code)>> \o <<Cause("ServiceError", operation, code)>> :
               code \in Codes[reason]}
      BY <1>0, <1>1 DEF SdkChains
    <3>2. QED
      BY <3>1
  <2>2. chain = <<Cause("IngestError", variant, None), Cause("SdkError", operation, code),
                  Cause("ServiceError", operation, code)>>
    BY <2>1, ConsTwo, ConsThree
  <2>3. classify(operation, chain) = classify_code(operation, code)
    <3>1. classify(operation, <<Cause("IngestError", variant, None), Cause("SdkError", operation, code),
                                Cause("ServiceError", operation, code)>>) = classify_code(operation, code)
      BY <1>1, RefusedCall
    <3>2. QED
      BY <2>2, <3>1
  <2>4. QED
    BY <1>0, <1>1, <2>3, CodeClass DEF Truthful, ReasonClass
<1>2. ASSUME NEW kind \in {"CredentialsNotLoaded", "InvalidConfiguration"},
             reason = IF kind = "CredentialsNotLoaded" THEN "no_credentials" ELSE "bad_profile"
      PROVE  Truthful(f)
  <2>1. sdk = <<Cause("SdkError", operation, None)>>
              \o <<Cause("ConnectorError", operation, None), Cause("CredentialsError", kind, None)>>
    BY <1>0, <1>2 DEF SdkChains
  <2>2. chain = <<Cause("IngestError", variant, None), Cause("SdkError", operation, None),
                  Cause("ConnectorError", operation, None), Cause("CredentialsError", kind, None)>>
    <3>1. sdk = <<Cause("SdkError", operation, None), Cause("ConnectorError", operation, None),
                  Cause("CredentialsError", kind, None)>>
      BY <2>1, ConsThree
    <3>2. QED
      BY <3>1, ConsFour
  <2>3. f.told = classify_credentials_error(kind)
    BY <2>2, UnsentCall
  <2>4. QED
    BY <1>2, <2>3 DEF Truthful, ReasonClass, classify_credentials_error, Class
<1>3. CASE reason \in {"sso_expired", "unreachable"}
  BY <1>3 DEF Truthful, ReasonClass
<1>4. QED
  BY <1>1, <1>2, <1>3 DEF Reasons

\* Other errors of the ingest stage, and those of the other stages, have no
\* reason that an operator is to be told of.
LEMMA OtherFailureIsTruthful ==
  ASSUME NEW f, f.reason \in {None, "RegionNotResolved", "AccountIdMissing", "Mapping", "Write"}
  PROVE  Truthful(f)
BY DEF Truthful, ReasonClass, None

ToldInv == DOMAIN failure = Proc /\ \A p \in Proc : Truthful(failure[p])

LEMMA FailureIsTold ==
  ASSUME ToldInv, NEW p \in Proc, NEW f, Truthful(f), failure' = [failure EXCEPT ![p] = f]
  PROVE  ToldInv'
<1>1. /\ DOMAIN failure' = Proc
      /\ \A q \in Proc : failure'[q] = IF q = p THEN f ELSE failure[q]
  BY DEF ToldInv
<1>2. \A q \in Proc : Truthful(failure'[q])
  BY <1>1 DEF ToldInv
<1>3. (\A q \in Proc : Truthful(failure[q]))' <=> \A q \in Proc : Truthful(failure'[q])
  BY DEF Truthful
<1>4. QED
  BY <1>1, <1>2, <1>3 DEF ToldInv

LEMMA CallFails_Told ==
  ASSUME ToldInv, NEW p \in Proc, NEW operation \in Callable, NEW variant, CallFails(p, operation, variant)
  PROVE  ToldInv'
<1>1. PICK reason \in Reasons : \E sdk \in SdkChains(operation, reason) :
        IngestStageFails(p, operation, <<Cause("IngestError", variant, None)>> \o sdk, reason)
  BY DEF CallFails
<1>2. PICK sdk \in SdkChains(operation, reason) :
        IngestStageFails(p, operation, <<Cause("IngestError", variant, None)>> \o sdk, reason)
  BY <1>1
<1> DEFINE chain == <<Cause("IngestError", variant, None)>> \o sdk
           f == [context |-> "stage: ingest", told |-> classify(operation, chain), chain |-> chain,
                 operation |-> operation, reason |-> reason]
<1>3. failure' = [failure EXCEPT ![p] = f]
  BY <1>2 DEF IngestStageFails, FailsWith
<1>4. f.told = classify(operation, chain) /\ f.operation = operation /\ f.reason = reason
  OBVIOUS
<1>5. Truthful(f)
  <2> HIDE DEF f
  <2>1. QED
    BY <1>4, CallFailureIsTruthful
<1> HIDE DEF f
<1>6. QED
  BY <1>3, <1>5, FailureIsTold

LEMMA IngestFails_Told ==
  ASSUME ToldInv, NEW p \in Proc, NEW operation,
         NEW variant \in {"RegionNotResolved", "AccountIdMissing", "Mapping", "Write"},
         IngestFails(p, operation, variant)
  PROVE  ToldInv'
<1> DEFINE chain == <<Cause("IngestError", variant, None)>>
           f == [context |-> "stage: ingest", told |-> classify(operation, chain), chain |-> chain,
                 operation |-> operation, reason |-> variant]
<1>1. failure' = [failure EXCEPT ![p] = f]
  BY DEF IngestFails, IngestStageFails, FailsWith
<1>2. f.reason = variant
  OBVIOUS
<1> HIDE DEF f
<1>3. Truthful(f)
  BY <1>2, OtherFailureIsTruthful
<1>4. QED
  BY <1>1, <1>3, FailureIsTold

LEMMA Fails_Told ==
  ASSUME ToldInv, NEW p \in Proc, NEW context, Fails(p, context)
  PROVE  ToldInv'
<1> DEFINE f == [NoFailure EXCEPT !.context = context]
<1>1. failure' = [failure EXCEPT ![p] = f]
  BY DEF Fails, FailsWith
<1>2. f.reason = None
  BY DEF NoFailure
<1> HIDE DEF f
<1>3. Truthful(f)
  BY <1>2, OtherFailureIsTruthful
<1>4. QED
  BY <1>1, <1>3, FailureIsTold

LEMMA NextTold == ToldInv /\ [Next]_vars => ToldInv'
<1> SUFFICES ASSUME ToldInv, [Next]_vars PROVE ToldInv'
  OBVIOUS
<1>1. ASSUME UNCHANGED failure PROVE ToldInv'
  BY <1>1 DEF ToldInv, Truthful
<1>2. ASSUME NEW p \in Proc, NEW command \in DOMAIN FirstStage, NEW config \in Configs,
             Start(p, command, config)
      PROVE  ToldInv'
  <2>1. NoFailure.reason = None
    BY DEF NoFailure
  <2>2. failure' = [failure EXCEPT ![p] = NoFailure]
    BY <1>2 DEF Start
  <2>3. Truthful(NoFailure)
    BY <2>1, OtherFailureIsTruthful
  <2>4. QED
    BY <2>2, <2>3, FailureIsTold
<1>3. ASSUME NEW p \in Proc, Step(p) PROVE ToldInv'
  <2>1. ASSUME UsageError(p) PROVE ToldInv'
    BY <1>1, <2>1 DEF UsageError, Ends
  <2>2. ASSUME LoadConfig(p) PROVE ToldInv'
    BY <1>1, <2>2, Fails_Told DEF LoadConfig, Moves
  <2>3. ASSUME Preflight(p) PROVE ToldInv'
    BY <1>1, <2>3, Fails_Told DEF Preflight, Moves, Ends
  <2>4. ASSUME build_sdk_config(p) PROVE ToldInv'
    BY <1>1, <2>4, IngestFails_Told DEF build_sdk_config
  <2>5. ASSUME resolve_account_id(p) PROVE ToldInv'
    BY <1>1, <2>5, IngestFails_Told, CallFails_Told DEF resolve_account_id, Callable
  <2>6. ASSUME connect(p) PROVE ToldInv'
    BY <1>1, <2>6, Fails_Told DEF connect, Moves
  <2>7. ASSUME migrate(p) PROVE ToldInv'
    BY <1>1, <2>7, Fails_Told DEF migrate, Moves
  <2>8. ASSUME upsert_regulated_boundaries(p) PROVE ToldInv'
    BY <1>1, <2>8, Fails_Told DEF upsert_regulated_boundaries, Moves
  <2>9. ASSUME Collect(p) PROVE ToldInv'
    BY <1>1, <2>9, IngestFails_Told, CallFails_Told DEF Collect, Moves, Callable
  <2>10. ASSUME Write(p) PROVE ToldInv'
    BY <1>1, <2>10, IngestFails_Told DEF Write, Moves
  <2>11. ASSUME assemble_candidates(p) PROVE ToldInv'
    BY <1>1, <2>11, Fails_Told DEF assemble_candidates
  <2>12. ASSUME evaluate(p) PROVE ToldInv'
    BY <1>1, <2>12 DEF evaluate
  <2>13. ASSUME Finish(p) PROVE ToldInv'
    BY <1>1, <2>13 DEF Finish, Ends
  <2>14. QED
    BY <1>3, <2>1, <2>2, <2>3, <2>4, <2>5, <2>6, <2>7, <2>8, <2>9, <2>10, <2>11, <2>12, <2>13 DEF Step
<1>4. ASSUME NEW p \in Proc, Killed(p) PROVE ToldInv'
  BY <1>1, <1>4 DEF Killed, Ends
<1>5. CASE UNCHANGED vars
  BY <1>1, <1>5 DEF vars
<1>6. QED
  BY <1>2, <1>3, <1>4, <1>5 DEF Next

\* Whatever AWS refused a run, or the SDK could not send, the operator is told
\* as what it is, and of the permission that was missing, for every operation
\* and every code that AWS documents (aws_error.rs, classify).
THEOREM FailureIsToldAsItIs == Spec => []ToldWhatFailed
<1>1. Init => ToldInv
  <2> SUFFICES ASSUME Init PROVE ToldInv
    OBVIOUS
  <2>1. failure = [p \in Proc |-> NoFailure]
    BY DEF Init
  <2>2. NoFailure.reason = None
    BY DEF NoFailure
  <2>3. Truthful(NoFailure)
    BY <2>2, OtherFailureIsTruthful
  <2>4. QED
    BY <2>1, <2>3 DEF ToldInv
<1>2. ToldInv => ToldWhatFailed
  BY DEF ToldInv, ToldWhatFailed, Truthful
<1>3. QED
  BY <1>1, <1>2, NextTold, PTL DEF Spec
=============================================================================
