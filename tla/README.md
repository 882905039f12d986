# aws-net-hound verification

TLA+ models of aws-net-hound, the TLC configurations that check them on small
instances, and TLAPS proofs of the properties that matter most. Paths such as
`evaluate/engine.rs` are relative to `src/crates/core/src/`, those with
`audit-local` to `src/crates/`.

## The system

One run of `audit-local` connects to Neo4j, migrates its schema, ingests the
network configuration of one AWS account into a graph, reads the resources of
one regulated boundary back as path candidates, and judges for each candidate
whether traffic can flow. The outcome decides the exit code.

```
config -> preflight -> region, account -> connect -> migrations -> boundary
   -> collectors -> mapping -> graph writer -> (Neo4j) -> candidate assembly
   -> evaluator -> outcome -> exit code
```

| Component | State it keeps | Operations | Hard behaviours | Correct when | Status |
|---|---|---|---|---|---|
| Reachability evaluator (`evaluate/engine.rs`, `sg.rs`, `nacl.rs`, `mod.rs`, `path.rs`) | the evidence so far, the accumulator of a fold or search | `evaluate_candidate`, one egress and one ingress evaluation per layer kind, the matchers | rules in any order, first match against union, unresolved references, early stop, mask arithmetic at /0 and at the word's width | the finding is the one the four rule sets define, and the evidence cites the rule that decided | modelled, proved |
| Migration runner (`migrations.rs`) | constraints, indexes and `SchemaMigration` nodes; the versions read once at the start | `run`, `apply_version`, `record_version`, bootstrap | two transactions per version, a crash or lost answer between them, several runners at once | records are complete, in order and unique; `Ok` means the whole schema is there | modelled, proved |
| Graph writer (`graph/neo4j.rs`, `graph/model.rs`, `write_batch` of `ingest/pipeline.rs`) | the graph | nineteen statements, each in chunks | every chunk commits alone, missing ends are found after the commit, crash and retry, merge keys | re-ingesting repairs and duplicates nothing; every rule is there after an `Ok` | modelled, proved |
| Ingestion pipeline (`ingest/pipeline.rs`, `collect.rs`) | the collections, warnings and counts | five concurrent paginated collectors, mapping, write, report | collectors run while AWS changes; one fails and the others are dropped; which errors are fatal | everything read is in the graph or in a warning; nothing is written from half a read | modelled, proved |
| Mapping (`ingest/map/*.rs`) | none | resources to nodes, edges and stubs; ports, routes and references | optional signed ports, either side of a peering, incomplete resources that edges still name | a rule admits what its permission did; a route stays in the account | modelled, proved |
| AWS client (`ingest/aws_client.rs`, `audit-local/src/aws_error.rs`) | none | region, account id, error classes | the code that names a failure is deep in a chain of causes | the operator is told the class that fits | partly: the SDK's retries are external |
| Candidate assembly (`evaluate/candidates.rs`) | the rows of two queries | interfaces, route targets, pairs | a graph that earlier ingestions have added to, an ingestion between the queries | every pair has a candidate with the rules of both ends, and its route | modelled, proved |
| Audit run (`audit-local/src/run.rs`, `lib.rs`, `main.rs`) | the stage reached | dispatch, the stages, `exit_code` | a stage fails or the process is killed after earlier ones took effect; other runs at the same time | 0 and 2 are the exits of whole audits, 0 of one with nothing to look at | modelled, proved |
| Preflight (`audit-local/src/preflight.rs`) | a deadline | Docker check, health poll | polls, health checks and the server's start, each in its own time | ends with the right answer in bounded time | modelled, proved |
| Report model (`report/model.rs`) | a report, or a file of one | constructors, deserialization | edited files, causes in any order | a report never disagrees with itself | modelled, proved |
| Configuration (`audit-local/src/config.rs`) | none | validation | a boundary that selects nothing | what passes is what the run uses | modelled with the audit run |
| Types, ports and errors (`domain/*.rs`, `ports.rs`, `error.rs`) | none | enums and traits | none of their own | | partly: as inputs and outcomes of the others |
| `aws-deploy` | none | an empty `main` | none | | not modelled |

Components talk by awaited calls in one task; the only concurrency inside a
process is the `try_join!` of the five collectors. What is shared is the
database: it outlives a run, and nothing keeps two processes from using it.

## Modules

| Module | What it is |
|---|---|
| `RuleMatching` | rules, flows and matchers: protocol, ports, CIDR masks, over `V4Bits` and `V6Bits` wide address families |
| `PathCandidate` | a candidate, the four layers and which endpoint's rules each reads |
| `LayerVerdicts` | the declarative definition of a finding, with no fold, search or sort |
| `Reachability` | the engine from outside: a one-step machine that reports the promised finding |
| `Evaluation` | the engine rule by rule; `Promise == INSTANCE Reachability` |
| `MigrationLedger` | what the runner promises of the database |
| `Migrations` | any number of processes running `migrations::run`; `Ledger == INSTANCE MigrationLedger` |
| `GraphBatch` | a batch and the rows it becomes, statement by statement |
| `GraphWriter` | writing batches chunk by chunk, with failures, crashes and retries |
| `Mapping` | `build_graph_batch`: from what EC2 lists to a `GraphBatch`; filters are `Only(list, those)` |
| `Ingest` | the pipeline, composed of `Mapping` and `GraphWriter` with the collectors and an account that changes |
| `Candidates` | assembly from a graph of `Mapping`'s batches, with ingestions before and between its queries |
| `AwsFailure` | the walk down a chain of causes to the class an operator is told |
| `Preflight` | the poll loop and Docker's health checks, second by second |
| `Audit` | what a run of the program promises |
| `AuditRun` | `main`, `dispatch` and `run` for several processes; `Promise == INSTANCE Audit` |
| `ReportModel` | a report built, saved, edited and read back |
| `EvaluationProofs`, `MigrationsProofs`, `MappingProofs`, `CandidatesProofs`, `AuditRunProofs`, `PreflightProofs`, `ReportModelProofs` | the theorems about the module each is named for, `EvaluationProofs` also those about `MCRules` |
| `PipelineProofs` | the theorems about `GraphWriter` and `Ingest`, on top of `MappingProofs` |
| `MCEvaluation`, `MCMigrations`, `MCGraphWriter`, `MCIngest`, `MCCandidates`, `MCPreflight`, `MCAuditRun`, `MCReportModel` | values of the constants for TLC |
| `MCRules` with `MCRuleMatching` and `MCMapping` | the pure functions over enumerated inputs, with their reference definitions |

Operators named `X_Something` that a comment calls a mutant are bugs the code
does not have. No specification uses them; they show that each property can
tell the code from a near miss.

### Evaluation

`candidate` is the argument; `at` is the layer being evaluated, in the order
SG egress, NACL egress, NACL ingress, SG ingress; `unseen` holds the positions
of the loop over the layer's rules still to be visited; `outcome` is the
accumulator of the fold in `sg.rs`; `steps` and `finding` are the result.

| Action | Code |
|---|---|
| `NoRoute`, `BeginLayers` | the test of `route_exists` that opens `evaluate_candidate` |
| `FoldRule`, `ReturnOutcome` | one iteration of the fold of `classify_rule` with `combine`, and its return |
| `SkipRule`, `FirstMatch`, `ImplicitDeny` | one iteration of the search in `rule_number` order, its hit, its fall-through |
| `Conclude` (in each return) | the push of a step, the early return, `finish` and `severity_for` |

The stable sort of `nacl.rs` is the order `Ahead` over the unsorted list: by
number, then by position. A rule index counts from 1 (from 0 in the code). A
malformed CIDR is one whose prefix exceeds the width: the callers treat
`Some(false)` and `None` alike. `finding.layers` stands for the list of
indeterminate layers. Timestamps, names and logging are left out.

### Migrations

`unique`, `schema` and `nodes` are the database; the other variables are, per
process, the program counter and the locals of `run`. `Call` starts a run;
`bootstrap_schema_migration_constraint`, `BeginRead` and `EndRead` (the rows are
streamed, so versions recorded meanwhile may or may not be seen), `Skip`,
`StartTransaction`, `RunStatement`, `CommitStatements`, `MergeRecord`,
`CommitRecord` and `Return` are the awaited steps; `Fail` is an error of any
driver call or the death of the process. A commit may take effect and its
answer be lost.

Statements are model values with an `IF NOT EXISTS` effect. The table of
embedded migrations is a set of versions, since `ordered_migrations` orders it
by number; the malformed file name, which that table cannot contain, and the
width of a version number are left out. Neo4j is external and modelled from
use: atomic commits, dropped transactions, `MERGE` that locks the value under a
uniqueness constraint. The model starts with an empty database, so
`RecordedInOrder` says nothing of one into which a later release inserts a
lower version.

### GraphWriter

A graph is a function from keys to properties. A node's key is its label and
id; a relationship's is its type, both ends and the properties inside the
`MERGE` pattern. The function's value is what `SET` writes. Two relationships
that a `MERGE` would tell apart are thus two keys, and two rows that it would
not are one.

| Definition | Code |
|---|---|
| `node_rows`, `topology_rows`, `routes_to_rows`, `sg_rule_rows`, `nacl_rule_rows` | the row builders with the key of the statement that takes them |
| `split_sg_rule_rows` | which of its three lists takes a rule |
| `write_batch` | the order of the nineteen statements; `group_by` orders rule rows by owner |
| `RunChunk` | one turn of the loop of `run_node_upsert` or `run_edge_upsert`: the statement commits, then the count is compared, and a missing end is an error after the fact |
| `NextUpsert`, `RefuseRoutes` | the `?` between two upserts and the final `Ok`; the check of inconsistent routes before any row is sent |
| `DriverFails`, `Crash` | an error of the driver, with or without effect; the end of the process |
| `BeginWrite` | the next run, with the same batch or another |

`before` is a history variable: the graph before the first of the current
series of attempts at one batch. A node's or a rule's other fields are one model
value. `upsert_regulated_boundaries` is a stage of `AuditRun`. Rules without
ports are left out of `MCGraphWriter`'s batches: their ports are part of the
merge key, Neo4j takes no null there, and no test of the repository writes one.

### Mapping and Ingest

A raw resource is a record whose absent fields are `None`. `Maps` says which
resources have a node (the others are warnings, `node_mapping_errors`),
`BatchMaps` what makes the whole mapping fail after that: a malformed
permission, entry or membership. `build_port_range`, `map_permission`,
`map_network_acl_rules`, `resolve_route_target`, the edge builders and the stub
collectors have the names they have in `map/*.rs`. Descriptions and whatever
else nothing reads are left out.

In `Ingest`, `account` is the state of the account, which `Change` moves at any
time; `ingest` is the run: `read[kind]` records, page by page, the state that
answered, `done` the collectors that have no further token. `FetchPage` is one
turn of `drain_pages`, `FetchFails` an error that exhausted its retries and
drops the other four, `MappingFails` and `MapAndWrite` the end of the
collection, `Writes` any step of `GraphWriter`, `Killed` the death of the process.
The batch written is named by the collections it was mapped from, and
`ContentAssumption` says that `Content` is `build_graph_batch` of that name.
`witnessed` is a history variable: the states the account had during the run.

### Candidates

`graph` is built by `Ingest(a, n)`: the first `n` statements of the batch of one
state of the account, laid over what was there, by this process or another.
`FetchEnis` and `FetchTargets` are the two queries, `QueryFails` their errors.
Patterns are joins over keys; `OrNull` is `OPTIONAL MATCH`; the grouping of
`ENI_QUERY` by interface and route table is kept, so an interface whose subnet
has two tables in the graph has two rows. The queries take the graph as an argument,
so that the proofs can speak of the graph at the first query after it has
changed. `assemble_candidates`, `route_exists` and the endpoints have the code's
names. Decoding of single properties is left out.

`ingested` is a history variable: which state was written, how much of it, and
what was in the graph afterwards (`left`). The properties speak of the state
ingested last before the first query (`Now`), if it was written completely
(`Fresh`), and exclude what the code does not decide: a resource that pages read
at two moments list twice with different content (`Once`; the writer keeps one of the two), an
ACL with one number for two rules (`Numbered`; finding 3), an interface that was in
another subnet before (`NeverMoved`; the graph keeps both memberships), and, where
a pair is to have exactly one candidate, a subnet with two tables (`OneTable`).

### Preflight, AuditRun, ReportModel

`Preflight` counts time in seconds with the numbers of `preflight.rs` and
`docker-compose.yml`. `check_docker_available`, `Looks`, `ComposePsFails`,
`UnexpectedOutput`, `Answers` and `Wakes` are the program, `CheckBegins`, `CheckEnds` and `GoesDown`
Docker and the container, `Tick` the clock. A query answers within `MaxQuery`,
which the code does not bound: `BoundedWait` and `PreflightEnds` hold under that
assumption.

`AuditRun` has one action per stage of `run`, named for what it calls; the
stages with a module of their own are taken by what they leave and answer.
`Killed` ends any of them. `failure` keeps what an operator is told, `SdkChains`
the chains of causes that the SDK builds, for the reasons that `aws_error.rs` tells
apart, an expired sign-on that a credentials provider reports, and any other. `db.ingested` counts, for each run,
whether none, some or all of its batch was written.

`ReportModel` lets a caller file any finding under any population with any list
of causes; constructors refuse or accept. The stable sort of the causes is
`InOrder`, which counts for each cause how many do not come after it. A decided
finding has no causes, and what its JSON has under that name is ignored, as serde
does. `Edit` is what a hand or a merge may do to the file, `Deserialize` the
checks on the way back. No run of the program makes a report yet.

## Checks

| Run | Bounds | What it shows |
|---|---|---|
| `evaluation` | 70,627 states; over 11,000 candidates; 2-bit addresses; up to 3 rules in a layer, in every order and both directions | the evidence names the deciding rules (`EvidenceSound`), accounts for the finding (`EvidenceExplains`), and the engine implements `Reachability` (safety and the eventual answer) |
| `rule_matching` | 448,616 states; all CIDRs, malformed ones too, of two families against all addresses; all rule shapes against all flows; permissions with every pair of ports of -1..3 or absent; a route table against every peering of three VPCs and two owners | `ContainsIsSharedPrefix`: `cidr_contains` is bitwise prefix agreement; `AllProtocolsIsBroadest`; `PermissionsKeepTheirMeaning`: a permission has a rule for each of its targets and a rule has its permission's protocol and lets through whatever that says, nothing more unless the permission gives an ICMP type and a code; `RoutesStayInAccount` |
| `migrations` | 48,656 states; 2 processes, 3 versions (2 and 10 sort differently as text), at most `MaxRuns` = 2 calls each | the record properties, the truth of the summary, the refinement of `MigrationLedger`, and every call returns |
| `graph_writer` | 110,213 states, the whole state space; 4 batches, `BATCH_SIZE` = 2, no bound on the number of runs, failures or crashes | `Converges`, `FailureIsContained`, `SgRulesWritten` (every security group rule, unresolved ones included, is readable after an `Ok`), `EndpointErrorsAreReal` (the count check never fails for an end that the same batch brings), `TypeOK` with no relationship without its ends, `EveryWriteEnds` |
| `ingest` | 274,350 states; five states of an account, one of which becomes another at any moment; groups on two pages; 2 runs | `OnlyCompleteReads`; `QuietRunsFailForCause`: while the account stays as it is, a mapping fails only if some resource has a malformed part, and a write only for the database's sake or because the account names a group that has no node; `NothingSilentlyDropped`; `ZeroMeansResolved` |
| `candidates` | 12,996 states; five states of an account, 2 ingestions of any length, complete or partial, before and between the queries | `NothingForgotten`, `FirstAccountIsExact`, `PeeredSubnetsAreRouted`, `RoutesAreTheAccounts` (with the account in the graph alone, no route but of its tables) |
| `preflight` | 2,393,157 states; the real times; a container of three ages and five times to become ready | `OkWasHealthy`, `WarmUpIsEnough`, `BoundedWait`, `PreflightEnds` |
| `audit_run` | 176,295 states; 2 processes, 2 runs in all, five configs, 2 candidates, 2 migrations | `OrderingIsLoadBearing`, `ToldWhatFailed`, the refinement of `Audit`, `EveryRunExits` |
| `report_model` | 32,738 states; 2 findings of five, two layers, 2 edits | `AgreesWithItself`, `RoundTrips`, `OneEditIsSeen` (two edits can hide each other, one cannot) |
| `denied_always_wins`, `worst_case_reachability` | as `evaluation` | findings 1 and 2 |
| `nacl_rules_never_collapse` | as `graph_writer` | finding 3 |

Why the bounds are enough. The engine visits one rule at a time and only
compares a rule with an accumulator, so three rules give every order of a
granting, an unresolved and an irrelevant rule; two NACL numbers give either
order and ties. The address widths only have to be larger than the prefixes
that matter: 0, one inside, the width, and beyond. Two processes and three
versions are enough for one process to overtake another inside a version and
between versions. Two rows a statement make the second chunk of an upsert
shorter than the first, full, or missing; `ingest` leaves chunks to
`graph_writer` and sends an upsert whole (500 rows). Its two pages of groups
are enough for an interface to be read before, between and after them. Two
ingestions give candidates every older layer under a newer one; a third adds
only older layers, which the queries do not tell apart. In `audit_run` two runs
are enough for one to build on what the other left, or to overtake it at every
stage. The proofs remove the bounds for the evaluator, the runner, the writer,
the mapping, the pipeline and the candidates, the audit run, preflight and the report.

Fairness. `Evaluation` has `WF_vars(Next)`: the engine is sequential code without
an await. `Migrations` has `WF_vars(Step(r))` for each process, `GraphWriter`
`WF_vars(Step)`, and `AuditRun` `WF_vars(Step(p))` for each process: one call is
awaited at a time, and its answer or error continues the run; failures of a
statement, kills and new calls are never fair on their own. All three assume
that Neo4j and AWS answer or report an error at last (the SDK bounds its
attempts). `Preflight` has `WF_vars(Next)`: time passes, and whatever is due
happens. `Ingest`, `Candidates` and `ReportModel` state safety only.

The deadlock check is off where the program ends: `evaluation` (the call
returns), `migrations`, `ingest`, `candidates` and `audit_run` (every run or
ingestion of the bound has been made), `preflight` (it has answered),
`rule_matching` (one probe per input).

### Findings

1. `denied_always_wins`: `engine.rs:180` says that a denial wins over an
   indeterminate layer "even when both are present across different layers"; the
   engine stops at the indeterminate layer and never sees the later denial.
2. `worst_case_reachability`: `candidates.rs:104` calls the all-protocols flow the
   broadest check; a rule for tcp alone does not match it, so a path that tcp can
   take is reported not reachable.
3. `nacl_rules_never_collapse`: `neo4j.rs:554` says that two rules of one ACL must
   never collapse into one; the merge key is the rule number, and AWS numbers
   ingress and egress rules apart, so the egress rule 100 overwrites the ingress
   rule 100 of the same ACL.

### Disagreements seen while modelling, without a run

The models follow the code in each of these.

- `map/mod.rs:62` takes an ICMP type and code, when neither is -1, for the ends of
  a range of ports; `:34` says that the numbers are type and code, and `:41` that
  the mapping loses "never the type restriction itself". Type 3 with code 4 lets
  type 4 through as well; an echo request with its code, type 8 and code 0, is an
  inverted range, and its error ends the whole ingestion.
  `PermissionsKeepTheirMeaning` says of such a permission only that nothing is
  lost.
- `pipeline.rs:164`: a malformed permission or ACL entry ends the ingestion, as
  `topology.rs:42` admits; `pipeline.rs:94` and `core/docs/ingest.md:126` say that a
  single malformed resource does not fail the run (state "broken" of `MCIngest`).
- `topology.rs:270`: a group that does not map is excluded with a warning, after
  which `pipeline.rs:94` says "the run continues"; an edge still names it for an
  interface that is its member, and the write fails (state "manned").
- `candidates.rs:172` takes any VPC that both route tables lead to as a route, so
  two VPCs that are each peered with a third have one (state "hub" of
  `MCCandidates`); `candidates.rs:9` says that cross-VPC routes yield
  "`route_exists = false` rather than a guess". `RoutesAreTheAccounts` grants the
  code the third VPC.
- `aws_error.rs:200`: an expired sign-on that a credentials provider reports before
  any call is sent is told as `Other`; `aws_error.rs:58` says of expired
  credentials "an SSO or STS session that timed out". That the SDK answers
  `ProviderError` then is taken from the SDK and not from this repository.
- `neo4j.rs:327` merges `ROUTES_TO` with its end node; `ports.rs:128` says it is
  keyed on route table and destination. A route whose target changes between two
  ingestions is there twice.
- `pipeline.rs:188` counts peering connections as collected; `pipeline.rs:71`
  says "actually written to the graph", where they have no node.
- `map/nacl.rs:52` copies the protocol as EC2 gives it, a number for all but
  "-1"; `domain/rule.rs:161` says a name or `-1`, and the matchers compare names.
- `evaluate/mod.rs:39` gives an ICMP flow a type and a code, which no matcher
  reads: `port_matches` sees a flow without a port, so a rule that is restricted
  to a type matches no ICMP flow. `PermissionsKeepTheirMeaning` is about the rule
  as `map/mod.rs` means it, not about what the evaluator makes of it. `map/nacl.rs` does not read
  the `icmp_type_code` of an ACL entry at all.
- `candidates.rs:74` returns two rows for an interface whose subnet had another
  table before; `candidates.rs:100` says one candidate per pair.
- `candidates.rs:78` joins the rules of every ACL that ever protected the subnet;
  `nacl.rs:34` says "one network ACL's rules".
- `config.rs:112` accepts a boundary of cidrs alone, which selects nothing and ends as
  clean; `config.example.yaml:18` gives a report where "nothing was checked" as
  the reason to refuse an empty boundary.
- `run.rs:35` takes the credentials of `AWS_PROFILE`, not of the config's profile
  (`config.example.yaml:13`).
- `run.rs:112` classifies every error of the ingest stage as an AWS failure, the
  database's included (`aws_error.rs:94`); `main.rs:17` prints the chain of
  causes that `aws_error.rs:25` keeps from operators.
- `main.rs:13`: a usage error exits with 2, which `lib.rs:44` keeps for findings.
- `report/model.rs:274` accepts an indeterminate finding with no layer and no
  cause; `finding.rs:56` has at least one.

## Proofs

All theorems hold for every value of the constants that satisfies the named
assumptions of the modules:

| Assumptions | What they say |
|---|---|
| `WidthAssumption`, `PortAssumption`, `CandidatesAssumption` | address families of at least one bit, a natural largest port, well typed candidates |
| `VersionAssumption`, `StatementsAssumption`, `RunsAssumption` | numbered versions, each a list of statements |
| `KeyOrderAssumption`, `BatchSizeAssumption`, `BatchAssumption` | the order of string keys is a list, chunks are not empty, no batch is called `None` |
| `WellFormedAssumption` | a batch is lists of nodes and edges; a rule belongs to a group with a key, a CIDR rule or one that names its own group is resolved. `MappedIsWellFormed` proves it of every batch that the mapping makes |
| `ListedAssumption` | each state of the account that `Candidates` writes is what EC2 may list (`IsRaw`), maps, and its groups have nodes: without them an ingestion fails before or during its write |
| `AccountAssumption` (of `Ingest`), `ListingAssumption` | what an account may become next; pages are lists of items whose lists are lists, and the ids that become keys of a map are ordered. A permission that names its own group does not give it another owner |
| `BatchesAssumption`, `ContentAssumption` | whatever can be collected and maps is a batch the writer may be given, and its content is `build_graph_batch` of it |
| `BoundsAssumption`, `ConfigAssumption`, `AccountAssumption` (of `AuditRun`), `CodesAssumption` | natural bounds, some config, the empty region is not plausible, `AWS_PROFILE` has an account, and each class of error codes holds only codes that AWS documents for it |
| `TimeAssumption`, `WarmUpAssumption` | times are natural numbers and neither interval is 0; the start period, one interval, two timeouts and one query fit into `POLL_TIMEOUT`, as the numbers of `preflight.rs` and `docker-compose.yml` do |
| `PrefixAssumption`, `PowersOfTwo` | how far beyond the width prefixes are tried is a number; `2^0 = 1`, and `2^(n+1)` is twice `2^n`, which is not 0. The latter is a hypothesis of `ContainsIsPrefix`, because the provers know nothing of a power with a variable exponent |
| `ReportAssumption` | layers are a list, what a caller hands over is well typed |

`EvaluationProofs`: `TypeCorrect`; then `ScanInv` is inductive. `EvidenceSound` is
not by itself: a returned verdict is right only if the accumulator summed up the
rules visited, so `ScanInv` adds `FoldInv` (the visited rules come before the
unvisited; an allowed outcome is the first granting one, an indeterminate one
means that none grants, a denied one that none even might) and `SearchInv` (no
rule visited matches). `FoldStep`, `SearchStep` and `ConcludeStep` carry it
through the three kinds of step. `EvidenceIsSound` and `EvidenceIsComplete`
follow, and `RefinesReachability` maps each step to a stutter or to `Judge`.

Its last part is about what `MCRules` tries on enumerated inputs, for any.
`ContainsIsPrefix` is about masks and bits of any width: two addresses have the
same mask at bit `k` exactly when their quotients by `2^k` agree (`SameMask`),
and those agree exactly when every bit from `k` on does (`SameBits`, from bit to
bit with `QuotStep`). `AllProtocolsIsTheBroadest` needs no invariant.
`PermissionsAreKept` and `RoutesAreKept` read `RulesAreThePermissions` and
`RoutesLeadHome` of `MappingProofs` in the terms of the run's properties;
`RangeSaysTheSame` compares the range that `build_port_range` makes with what EC2
says with the two numbers (`Says`: ports, or an ICMP type and code). Of a permission that gives
both a type and a code it claims only that no flow is lost, because more is false,
and of a range of ports that is open at one end, which EC2 never
lists, nothing. They say it of every `raw` that EC2 may list (`IsRaw`) with port
fields that are numbers or absent (`PortsTyped`), so of more than `RulesSpec`
ever tries.

`MigrationsProofs`: `TypeCorrect`; then `LedgerInv`. That records are complete is
not inductive: it needs to know that a process about to record a version has
committed its statements, that whatever it skipped was recorded when it read and
still is, and that at most one process holds the lock of a version between its
`MERGE` and its commit. `RunnerInv` and `OneMerges` say so. All of it is stable
under the other processes because `recorded`, `schema` and `unique` only grow
(`KnowledgeStays`, `LocalStep`). `RecordsAreComplete`, `RecordsAreInOrder`,
`RecordsAreUnique`, `SummaryIsTruthful` and `RefinesLedger` follow; the ledger
has no fairness, so that refinement is proved whole.

`PipelineProofs`, about the writer: `WriterTypeOK`, with no relationship without its ends; then
`WriterInv`. `Converges` is about the end of a call and not inductive. What makes
it so is `SentRowsHold`: whatever earlier attempts left, of the rows sent so far
the last one with some key is what the graph holds for it. `MergeEffect` says
what one statement does, `SentStep` carries the invariant over a whole chunk, and
`AllSent` draws the conclusion: once every row is sent, the batch's image
(`ImageIsLast`: each key's last row) lies over the graph from before, because
`FailureIsContained` left the rest alone. `PlanIsLists` says that the rows of
any well-formed batch are nineteen lists, from the definitions of the row
builders. `RulesAreWritten` adds what those rows are for a security group rule:
of the three lists that `split_sg_rule_rows` sorts rules into, the last one to
hold a key is the one with the rule's own flag. `MissingEndsAreReal` needs one
more invariant, `EndpointsInv`: the nodes of the batch come before any of its
relationships in the plan (`SentKeysThere`), so that a missing end is missing
from the batch itself.

`MappingProofs`: `RulesAreThePermissions` (the rules of a batch
are exactly what the permissions say), `RoutesLeadHome`,
`MappedIsWellFormed`, `NeverRefused`. They stand on what each edge builder and
stub collector returns (`BatchEdges`, `EdgeOrigins`, `VpcStubs`, `SubnetStubs`),
and `EndsAreThere`: every end that an edge names has a node, provided that the
groups map. `NeverRefused` goes through the branches of `resolve_route_target`, each
of which gives its target and its mark, and needs that a table with a node has a
VPC.

`PipelineProofs`, about the pipeline: `AllInv` is the writer's `TypeOK`, `WriterInv` and
`EndpointsInv` with `IngestInv`, whose parts say what was read so far (the type: every
page read is of a witnessed state; `Witnesses`: the witnessed states and the current
one all come after the state the run began with, and while it collects the
current one is among them; `Progress`: a collector is done exactly when it has
as many pages as the state that answered last lists),
what a run that ended leaves (`Outcome`: what is written was mapped from what
was read, and the report counts just that) and that a batch refused as
inconsistent does lack an end of one of its edges (`RefusalIsReal`). None of the four properties is inductive
without them. `ReadsAreComplete`, `ZeroIsResolved`, `NothingIsDropped` and
`QuietFailuresHaveCause` follow. The last one compares what was read with the account
itself (`Whole`): reads of an account that stayed as it is hold its items and no others
(`QuietCollects`), and whether a batch maps, and whether its groups are there,
depends on the items alone (`SameItems`). It does not say that such a run succeeds:
a malformed rule, or a group without a node that an interface names, fails it.

`CandidatesProofs`: `AssemblyInv` says that the graph is what the ingestions left,
one laid over the other, that the rows in hand are what the first query finds in
the graph as it was then, and that every route of that graph is in the answer of
the second query, whatever was written in between. `AssemblyCorrect` is its
invariance; that routes are never lost (`TargetsFound`) rests on `LeftSays`, by
induction over the ingestions: whatever the graph holds, some batch said, and
its ends are there. The three properties follow from it and from what a query
finds in such a graph. `Keeps` and `OnlyFrom` are the two halves of that: the
graph has every key of the batch written last, with something that the batch says
(`WrittenSays`, `EdgesAreWritten`), and nothing that no batch said.
`RulesKept`, `AclRulesKept`, `TableKept` and `RouteKept` take a rule, an ACL's rule, a
table and a route from the response through the mapping, the rows, the merge
keys and the query to the candidate; `OwnRules`, `OwnGroups` and `OneRow` go the
other way, from a row back to the one account that was ever written.
`SameRule` is why the last of two rows for one key does no harm: rules with one
key agree in the flag as well.

`AuditRunProofs`: `AuditTypeOK` and `AuditCorrect`, whose `AuditInv` says what a run
has done to the database when it stands at some stage (its constraints are there
from the boundary on, its boundary from the collection on, all of its batch from
assembly on), that no other run can undo it, and that runs have different
numbers. `OrderingHolds` follows. `AuditRefined` shows that every behaviour of
the program is one of `Audit`: a step per stage, each the image of one abstract
step or of none (`StopSeen`, `MoveUnseen`, `WriteSeen`, `FinishSeen`, ...), with
`OutcomeOfFindings` between the counts in `findings_to_outcome` and the set of
verdicts found.

`FailureIsToldAsItIs` needs `ToldInv`: every process's failure is `Truthful`, that is,
what is told is the class of its reason. The walk down the error chain that
each failing operation builds is followed to its end for each of them.

`PreflightProofs`: `PreflightInv` bounds, for each phase of the loop, the time by
the deadline (`OnTime`), remembers what Docker last said (`Told`) and how old the
container can be when it is still starting (`Warm`). `WarmUpSuffices` is about a
race of three clocks; `WarmsUp` is the inductive form of it: as long as the
container is in its start period, the loop has the time left that the health
check needs to come round once more.

`ReportModelProofs`: `ReportInv` says that what is in hand is `Sound`, which is that
no constructor would refuse or change it, and that the file is the saved report
until the first edit and one edit of it until the second. `Placed` shows that the
sort is a rearrangement, `Sorted` and `SortedStays` that it sorts and leaves a
sorted list alone; so `WrapSettles`, and so a report is read back as it was saved
(`ReportRoundTrips`). `EditedLists` says of each edit that it changes the length
of some list or no source; the counts then tell (`EditIsSeen`).

`ScanInv`, `LedgerInv`, `WriterInv`, `EndpointsInv`, `IngestInv`, `AssemblyInv`,
`AuditInv`, `ToldInv`, `PreflightInv` and `ReportInv` are the invariants the proofs need; they are
checked by the proofs and not listed in the configurations. So is the
`TypeOK` of `Migrations`, which the other proofs about it rest on.

Only model-checked: liveness (`EveryRunReturns`, `EveryWriteEnds`,
`EveryRunExits`, `PreflightEnds` and the liveness half of
`ImplementsReachability`), since the prover handles neither fairness nor
`ENABLED`. And `RoutesAreTheAccounts`, which is not true of every listing: a route
over a peering of two other VPCs, which EC2 does not accept, is resolved by the
first end that is not the table's VPC.

## Not modelled

- `aws-deploy`: an empty `main`.
- The SDK, Docker and Neo4j themselves: external, modelled from how the code
  uses them. In particular the SDK's own retries and attempt timeouts are taken by
  their outcome.
- What Neo4j makes of a rule without ports, whose merge key would hold a null.
- YAML syntax, command-line text, the format of a line of `docker compose ps`,
  the decoding of single Bolt properties, serde representations, logging,
  wording, timestamps and durations.
- The composition of `Candidates` with `Evaluation`. A candidate's peer address is
  the source's own, which the egress layers then match against rules about
  destinations (`candidates.rs:128`); what they make of it is in `Evaluation`, for
  any peer address.
- `Resolver` (`ports.rs`): a trait without an implementation.
