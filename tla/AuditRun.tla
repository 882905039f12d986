------------------------------ MODULE AuditRun ------------------------------
(***************************************************************************)
(* audit-local: main, dispatch and run.  Several processes, in sequence or *)
(* side by side, take the stages of an audit against one database, and any *)
(* of them may fail, or be killed, at every stage with what it wrote left  *)
(* behind.  The stages that have modules of their own (Preflight,          *)
(* Migrations, GraphWriter and Ingest, Candidates, Evaluation) are taken   *)
(* here by what they leave and what they answer.                           *)
(***************************************************************************)
EXTENDS AwsFailure

CONSTANTS
    Proc, MaxRuns,        \* processes; bound on the runs they begin together
    Configs,              \* config files: records of what is read from one
    PlausibleRegions,     \* lowercase with a '-'
    Env,                  \* AWS_REGION, AWS_DEFAULT_REGION, the profile's region
    AccountOf,            \* profile -> the account its credentials belong to
    Codes,                \* what AWS refuses a call for -> the codes it may send
    Versions,             \* the number of migrations
    MaxCandidates         \* bound on the path candidates of a run

ASSUME BoundsAssumption == MaxRuns \in Nat /\ Versions \in Nat \ {0} /\ MaxCandidates \in Nat
ASSUME ConfigAssumption == Configs # {} /\ "" \notin PlausibleRegions
ASSUME AccountAssumption == AccountOf[AWS_PROFILE] # None

\* The codes that AWS documents for each of the reasons told apart.
ASSUME CodesAssumption ==
  Codes \in [expired : SUBSET {"ExpiredToken", "RequestExpired", "ExpiredTokenException"},
             denied : SUBSET {"UnauthorizedOperation", "AccessDenied", "AccessDeniedException", "AuthFailure"},
             throttled : SUBSET {"RequestLimitExceeded", "Throttling", "ThrottlingException"}]

VARIABLES
    run,     \* process -> its run, under way or the last one
    db,      \* the database: migrations, boundaries, and what each run ingested
    begun,   \* runs begun so far
    failure  \* process -> the error that its run ended with: what was being
             \* done, what failed and (history) why, and what it is told as

vars == <<run, db, begun, failure>>

Verdict == {"reachable", "not_reachable", "indeterminate"}
NoFailure ==
  [context |-> None, told |-> Other, chain |-> <<>>, operation |-> None, reason |-> None]

New(stage, id, command, config) ==
  [stage |-> stage, id |-> id, command |-> command, config |-> config,
   region |-> "", account |-> None, open |-> 0, findings |-> <<>>, code |-> None]
Idle == New("idle", 0, None, CHOOSE c \in Configs : TRUE)

Init ==
  /\ run = [p \in Proc |-> Idle]
  /\ db \in [schema : 0..Versions, boundaries : {{}}, ingested : {[i \in 1..MaxRuns |-> "none"]}]
  /\ begun = 0
  /\ failure = [p \in Proc |-> NoFailure]
-----------------------------------------------------------------------------
(* Failure and exit *)

Moves(p, from, to) ==
  /\ run[p].stage = from
  /\ run' = [run EXCEPT ![p].stage = to]
  /\ UNCHANGED failure

Ends(p, code) ==
  /\ run' = [run EXCEPT ![p].stage = "ended", ![p].code = code]
  /\ UNCHANGED failure

FailsWith(p, f) ==
  /\ run' = [run EXCEPT ![p].stage = "ended", ![p].code = "1"]
  /\ failure' = [failure EXCEPT ![p] = f]

\* An error with a context and nothing that this project classifies.
Fails(p, context) == FailsWith(p, [NoFailure EXCEPT !.context = context])

\* What the SDK answers, for each reason that a call may fail for. A provider
\* that cannot renew an expired sign-on answers ProviderError.
SdkChains(operation, reason) ==
  LET error(code) == <<Cause("SdkError", operation, code)>>
      unsent(variant) == error(None) \o <<Cause("ConnectorError", operation, None),
                                         Cause("CredentialsError", variant, None)>>
  IN  CASE reason \in DOMAIN Codes -> {error(code) \o <<Cause("ServiceError", operation, code)>> : code \in Codes[reason]}
        [] reason = "no_credentials" -> {unsent("CredentialsNotLoaded")}
        [] reason = "bad_profile" -> {unsent("InvalidConfiguration")}
        [] reason = "sso_expired" -> {unsent("ProviderError")}
        [] OTHER -> {error(None)}
Reasons == DOMAIN Codes \cup {"no_credentials", "bad_profile", "sso_expired", "unreachable"}

IngestStageFails(p, operation, chain, reason) ==
  FailsWith(p, [context |-> "stage: ingest", told |-> classify(operation, chain), chain |-> chain,
                operation |-> operation, reason |-> reason])

\* An AWS call fails in the ingest stage, wrapped as an IngestError.
CallFails(p, operation, variant) ==
  \E reason \in Reasons : \E chain \in SdkChains(operation, reason) :
    IngestStageFails(p, operation, <<Cause("IngestError", variant, None)>> \o chain, reason)

\* Any other IngestError, under the operation that run gives it.
IngestFails(p, operation, variant) ==
  IngestStageFails(p, operation, <<Cause("IngestError", variant, None)>>, variant)
-----------------------------------------------------------------------------
(* dispatch and run *)

FirstStage == [run |-> "config", preflight |-> "preflight", usage |-> "usage"]

Start(p, command, config) ==
  /\ run[p].stage \in {"idle", "ended"} /\ begun < MaxRuns
  /\ begun' = begun + 1
  /\ run' = [run EXCEPT ![p] = New(FirstStage[command], begun + 1, command, config)]
  /\ failure' = [failure EXCEPT ![p] = NoFailure]
  /\ UNCHANGED db

\* clap answers a command line that it cannot parse, and exits.
UsageError(p) ==
  /\ run[p].stage = "usage"
  /\ Ends(p, "2")
  /\ UNCHANGED <<db, begun>>

Validates(config) == config.selectors # {} /\ config.region \in PlausibleRegions

LoadConfig(p) ==
  /\ IF run[p].config.readable /\ Validates(run[p].config)
     THEN Moves(p, "config", "preflight")
     ELSE run[p].stage = "config" /\ Fails(p, "config")
  /\ UNCHANGED <<db, begun>>

\* Mutant: both subcommands go on alike.
Preflight_GoesOn(p) ==
  /\ Moves(p, "preflight", "sdk") \/ (run[p].stage = "preflight" /\ Fails(p, "stage: preflight"))
  /\ UNCHANGED <<db, begun>>

\* Module Preflight shows that it comes to an answer.
Preflight(p) ==
  /\ run[p].stage = "preflight"
  /\ \/ IF run[p].command = "run" THEN Moves(p, "preflight", "sdk") ELSE Ends(p, "0")
     \/ Fails(p, "stage: preflight")
  /\ UNCHANGED <<db, begun>>

resolve_region(explicit) ==
  LET set == SelectSeq(<<explicit, Env.AWS_REGION, Env.AWS_DEFAULT_REGION, Env.profile_region>>, LAMBDA r : r # "")
  IN  IF set = <<>> THEN None ELSE Head(set)

build_sdk_config(p) ==
  /\ run[p].stage = "sdk"
  /\ LET region == resolve_region(run[p].config.region) IN
     IF region = None THEN IngestFails(p, "BuildSdkConfig", "RegionNotResolved")
     ELSE run' = [run EXCEPT ![p].stage = "account", ![p].region = region] /\ UNCHANGED failure
  /\ UNCHANGED <<db, begun>>

\* The credentials are those of AWS_PROFILE.
resolve_account_id(p) ==
  /\ run[p].stage = "account"
  /\ \/ /\ run' = [run EXCEPT ![p].stage = "connect", ![p].account = AccountOf[AWS_PROFILE]]
        /\ UNCHANGED failure
     \/ CallFails(p, "GetCallerIdentity", "AccountIdResolution")
     \/ IngestFails(p, "GetCallerIdentity", "AccountIdMissing")
  /\ UNCHANGED <<db, begun>>

\* Mutant: a database that does not answer is waited for, from preflight on.
connect_AsksAgain(p) ==
  /\ run[p].stage = "connect"
  /\ Moves(p, "connect", "migrate") \/ Moves(p, "connect", "preflight")
  /\ UNCHANGED <<db, begun>>

\* NEO4J_PASSWORD is not set, or there is no connection to be had.
connect(p) ==
  /\ Moves(p, "connect", "migrate") \/ (run[p].stage = "connect" /\ Fails(p, "stage: connect"))
  /\ UNCHANGED <<db, begun>>

\* Mutant: the migrations are started, and not waited for.
migrate_Spawned(p) ==
  /\ Moves(p, "migrate", "boundary")
  /\ db' = [db EXCEPT !.schema = IF @ < Versions THEN @ + 1 ELSE @]
  /\ UNCHANGED begun

\* One version after the other; a failure keeps the versions before it.
migrate(p) ==
  /\ run[p].stage = "migrate"
  /\ \/ db.schema < Versions /\ db' = [db EXCEPT !.schema = @ + 1] /\ UNCHANGED <<run, failure>>
     \/ db.schema = Versions /\ Moves(p, "migrate", "boundary") /\ UNCHANGED db
     \/ Fails(p, "stage: migrate") /\ UNCHANGED db
  /\ UNCHANGED begun

\* Written or not, a lost answer is a failure.
upsert_regulated_boundaries(p) ==
  /\ run[p].stage = "boundary"
  /\ \/ /\ db' = [db EXCEPT !.boundaries = @ \cup {run[p].account}]
        /\ Moves(p, "boundary", "collect") \/ Fails(p, "stage: boundary")
     \/ Fails(p, "stage: boundary") /\ UNCHANGED db
  /\ UNCHANGED begun
-----------------------------------------------------------------------------
(* run_full_ingest_with_client *)

\* The first collector to fail ends the stage; so does a batch that cannot be mapped.
Collect(p) ==
  /\ run[p].stage = "collect"
  /\ \/ Moves(p, "collect", "write")
     \/ \E operation \in DescribeOperations : CallFails(p, operation, "Describe")
     \/ IngestFails(p, "ingest", "Mapping")
  /\ UNCHANGED <<db, begun>>

\* Mutant: the writes are started, and not waited for.
Write_Spawned(p) ==
  /\ run[p].stage = "write"
  /\ \/ db' = [db EXCEPT !.ingested[run[p].id] = "some"] /\ Moves(p, "write", "assemble")
     \/ IngestFails(p, "ingest", "Write") /\ UNCHANGED db
  /\ UNCHANGED begun

\* Statement by statement; a failure keeps the statements before it.
Write(p) ==
  /\ run[p].stage = "write"
  /\ \/ db.ingested[run[p].id] = "none" /\ db' = [db EXCEPT !.ingested[run[p].id] = "some"] /\ UNCHANGED <<run, failure>>
     \/ db' = [db EXCEPT !.ingested[run[p].id] = "all"] /\ Moves(p, "write", "assemble")
     \/ IngestFails(p, "ingest", "Write") /\ UNCHANGED db
  /\ UNCHANGED begun
-----------------------------------------------------------------------------
(* Evaluation and outcome *)

\* Only vpc_ids select anything (boundary cidrs and tags are warned of).
assemble_candidates(p) ==
  /\ run[p].stage = "assemble"
  /\ \/ \E n \in 0..MaxCandidates :
          /\ "vpc_ids" \notin run[p].config.selectors => n = 0
          /\ run' = [run EXCEPT ![p].stage = "evaluate", ![p].open = n]
          /\ UNCHANGED failure
     \/ Fails(p, "stage: evaluate (candidate assembly)")
  /\ UNCHANGED <<db, begun>>

\* Module Evaluation shows that every candidate gets its verdict.
evaluate(p) ==
  /\ run[p].stage = "evaluate" /\ run[p].open > 0
  /\ \E verdict \in Verdict :
       run' = [run EXCEPT ![p].open = @ - 1, ![p].findings = Append(@, verdict)]
  /\ UNCHANGED <<db, begun, failure>>

Count(findings, verdict) == Cardinality({i \in DOMAIN findings : findings[i] = verdict})

\* Mutant: what could not be resolved is taken to be closed.
findings_to_outcome_Resolved(findings) ==
  IF Count(findings, "reachable") = 0 THEN "Clean" ELSE "FindingsPresent"

findings_to_outcome(findings) ==
  IF Count(findings, "reachable") = 0 /\ Count(findings, "indeterminate") = 0
  THEN "Clean" ELSE "FindingsPresent"

exit_code(outcome) == IF outcome = "Clean" THEN "0" ELSE "2"

Finish(p) ==
  /\ run[p].stage = "evaluate" /\ run[p].open = 0
  /\ Ends(p, exit_code(findings_to_outcome(run[p].findings)))
  /\ UNCHANGED <<db, begun>>

Killed(p) ==
  /\ run[p].stage \notin {"idle", "ended"}
  /\ Ends(p, "killed")
  /\ UNCHANGED <<db, begun>>
-----------------------------------------------------------------------------
Step(p) ==
  \/ UsageError(p) \/ LoadConfig(p) \/ Preflight(p)
  \/ build_sdk_config(p) \/ resolve_account_id(p)
  \/ connect(p) \/ migrate(p) \/ upsert_regulated_boundaries(p)
  \/ Collect(p) \/ Write(p)
  \/ assemble_candidates(p) \/ evaluate(p) \/ Finish(p)

Next ==
  \E p \in Proc :
    \/ \E command \in DOMAIN FirstStage, config \in Configs : Start(p, command, config)
    \/ Step(p)
    \/ Killed(p)

Spec == Init /\ [][Next]_vars

\* Every call a run makes has an answer, if only an error, in the end.
FairSpec == Spec /\ \A p \in Proc : WF_vars(Step(p))
-----------------------------------------------------------------------------
(* What must hold *)

Stages ==
  {"idle", "usage", "config", "preflight", "sdk", "account", "connect", "migrate", "boundary",
   "collect", "write", "assemble", "evaluate", "ended"}
AfterPreflight == Stages \ {"idle", "usage", "config", "preflight", "ended"}
Migrated == db.schema = Versions
Exits(p, code) == run[p].stage = "ended" /\ run[p].command = "run" /\ run[p].code = code

\* The account of the run has its boundary, and all of it has been written by this run.
Gathered(p) ==
  /\ run[p].account \in db.boundaries
  /\ run[p].id \in DOMAIN db.ingested /\ db.ingested[run[p].id] = "all"

\* Every run under way has a number of its own, and only an audit gets past preflight.
Commands == {None, "run", "preflight", "usage"}
RunRecord ==
  [stage : Stages, id : 0..MaxRuns, command : Commands, config : Configs,
   region : {""} \cup {resolve_region(c.region) : c \in Configs},
   account : {None, AccountOf[AWS_PROFILE]}, open : Nat, findings : Seq(Verdict),
   code : {None, "0", "1", "2", "killed"}]
RunTyped(p) ==
  /\ run[p].stage = "idle" => run[p] = Idle
  /\ run[p].stage # "idle" => run[p].id \in 1..begun
  /\ run[p].stage \in AfterPreflight \cup {"config"} => run[p].command = "run"
  /\ run[p].stage = "usage" => run[p].command = "usage"
  /\ run[p].stage # "ended" => run[p].code = None
Database ==
  [schema : 0..Versions, boundaries : SUBSET {AccountOf[AWS_PROFILE]},
   ingested : [1..MaxRuns -> {"none", "some", "all"}]]
TypeOK ==
  /\ begun \in 0..MaxRuns
  /\ db \in Database
  /\ run \in [Proc -> RunRecord]
  /\ \A p \in Proc : RunTyped(p)

\* run.rs: "Ordering is load-bearing": nothing is written without the
\* constraints, the boundary exists before questions are asked about it, and
\* nothing is asked of a graph that this run has not written to the end,
\* whatever other runs are doing or have left unfinished.
OrderingIsLoadBearing ==
  /\ db.boundaries # {} \/ (\E i \in DOMAIN db.ingested : db.ingested[i] # "none") => Migrated
  /\ \A p \in Proc :
       run[p].stage \in {"assemble", "evaluate"} \/ Exits(p, "0") \/ Exits(p, "2") => Gathered(p)

\* The exit code keeps the promise of module Audit: no 0 and no 2 without a
\* whole audit, and no 0 with a verdict left to look at.
Status(p) ==
  IF run[p].command # "run" THEN "idle"
  ELSE IF run[p].stage = "ended" THEN "ended"
  ELSE IF run[p].stage = "evaluate" THEN "checking"
  ELSE IF Gathered(p) THEN "gathered" ELSE "begun"
Audited(p, x, none) == IF run[p].command = "run" THEN x ELSE none
Found(p) == {run[p].findings[i] : i \in DOMAIN run[p].findings}

Promise == INSTANCE Audit WITH
  Bad <- {"reachable", "indeterminate"},
  migrated <- Migrated,
  status <- [p \in Proc |-> Status(p)],
  open <- [p \in Proc |-> Audited(p, run[p].open, 0)],
  found <- [p \in Proc |-> Audited(p, Found(p), {})],
  code <- [p \in Proc |-> Audited(p, run[p].code, None)]
ImplementsAudit == Promise!Spec

\* An operator whose call was refused, or had no credentials or a bad profile,
\* is told why, wherever in the chain of causes the reason is, and which
\* permission is the missing one; an expired sign-on that the credentials
\* provider reports is Other in the code, and not among these
\* (aws_error.rs: "it names what went wrong and what to do next").
ReasonClass ==
  [expired |-> "ExpiredCredentials", denied |-> "AccessDenied", throttled |-> "Throttled",
   no_credentials |-> "CredentialsNotConfigured", bad_profile |-> "ProfileNotFound"]
ToldWhatFailed ==
  \A p \in Proc :
    LET f == failure[p] IN
    f.reason \in DOMAIN ReasonClass =>
      /\ f.told.class = ReasonClass[f.reason]
      /\ f.told.class = "AccessDenied" => f.told.detail[2] = f.operation

\* A run comes to its exit, whatever fails and whoever else is at work.
EveryRunExits == \A p \in Proc : run[p].stage # "idle" ~> run[p].stage = "ended"
=============================================================================
