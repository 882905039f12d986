------------------------------- MODULE Ingest -------------------------------
(***************************************************************************)
(* run_full_ingest_with_client of ingest/pipeline.rs: five collectors page *)
(* through EC2 side by side while the account goes on changing, what they  *)
(* found is mapped into one batch, the batch is written, and a report says *)
(* what was.  The first error drops everything that is still under way.    *)
(***************************************************************************)
EXTENDS GraphWriter, Mapping

CONSTANTS
    Account,     \* the states the account may be in, by name
    Listing,     \* account -> kind -> the pages EC2 lists, each a sequence
    Succ,        \* account -> the states it may change into
    MaxRuns      \* bound on the runs

VARIABLES
    account,     \* the account as it is now
    ingest,      \* the run under way, or the last one
    runs,        \* runs begun so far
    witnessed    \* history: the states the account was in during the run

ingestVars == <<account, ingest, runs, witnessed>>
allVars == <<vars, ingestVars>>

Outcomes == {"none", "ok", "describe", "mapping", "write"}

\* read[kind] is, page by page, the state of the account that answered.
Page(state, kind, i) ==
  IF i <= Len(Listing[state][kind]) THEN Listing[state][kind][i] ELSE <<>>
Collected(read) ==
  [kind \in Kinds |-> FlattenSeq([i \in DOMAIN read[kind] |-> Page(read[kind][i], kind, i)])]

ASSUME AccountAssumption == Succ \in [Account -> SUBSET Account]

ASSUME ListingAssumption ==
  \A state \in Account : \A kind \in Kinds :
    /\ IsList(Listing[state][kind])
    /\ \A page \in ToSet(Listing[state][kind]) :
         /\ IsList(page)
         /\ \A item \in ToSet(page) : ItemFits(kind, item)

\* What an account may have become, and what collectors can then have read of
\* it: at most a page more than the account had when the one before was asked.
Later ==
  [state \in Account |->
     {s \in Account : \A closed \in SUBSET Account :
        state \in closed /\ (\A t \in closed : Succ[t] \subseteq closed) => s \in closed}]
Histories(kind, states) ==
  UNION {[1..n -> states] : n \in {0, 1} \cup UNION {1..Len(Listing[s][kind]) : s \in states}}
Reads(states) ==
  [SecurityGroup : Histories("SecurityGroup", states), NetworkAcl : Histories("NetworkAcl", states),
   RouteTable : Histories("RouteTable", states), NetworkInterface : Histories("NetworkInterface", states),
   VpcPeeringConnection : Histories("VpcPeeringConnection", states)]

\* A batch is known by the collections it was mapped from, and all are there.
ASSUME BatchesAssumption ==
  \A state \in Account : \A read \in Reads(Later[state]) :
    BatchMaps(Collected(read)) => Collected(read) \in Batch
ASSUME ContentAssumption == \A raw \in Batch : Content[raw] = build_graph_batch(raw)
-----------------------------------------------------------------------------
(* The report *)

\* Mutant: a rule that names a foreign group is not counted.
Unresolved_RoutesOnly(e) == e.type = "ROUTES_TO" /\ ~e.resolved

Unresolved(e) == e.type \in {"ROUTES_TO", "ALLOWS_INGRESS", "ALLOWS_EGRESS"} /\ ~e.resolved

count_unresolved(batch) == Len(Only(batch.edges, {e \in ToSet(batch.edges) : Unresolved(e)}))

\* Mutant: what was excluded is counted, and said nowhere.
Report_CountsRead(raw) ==
  [counts |-> [kind \in Kinds |-> Len(raw[kind])],
   unresolved_references |-> count_unresolved(Content[raw]),
   non_fatal |-> <<>>]

\* The peering connections are counted as they were collected.
Report(raw) ==
  LET nodes == Content[raw].nodes IN
  [counts |-> [NetworkInterface |-> Len(nodes.ENI), SecurityGroup |-> Len(nodes.SecurityGroup),
               NetworkAcl |-> Len(nodes.NetworkACL), RouteTable |-> Len(nodes.RouteTable),
               VpcPeeringConnection |-> Len(raw["VpcPeeringConnection"])],
   unresolved_references |-> count_unresolved(Content[raw]),
   non_fatal |-> node_mapping_errors(raw)]

NoReport == [counts |-> <<>>, unresolved_references |-> 0, non_fatal |-> <<>>]
End(result) == ingest' = [ingest EXCEPT !.phase = "idle", !.result = result]
-----------------------------------------------------------------------------
(* Actions *)

IngestInit ==
  /\ Init
  /\ account \in Account
  /\ ingest = [phase |-> "idle", read |-> [kind \in Kinds |-> <<>>], done |-> {},
               result |-> "none", report |-> NoReport]
  /\ runs = 0
  /\ witnessed = {}

BeginIngest ==
  /\ ingest.phase = "idle" /\ runs < MaxRuns
  /\ ingest' = [phase |-> "collecting", read |-> [kind \in Kinds |-> <<>>], done |-> {},
                result |-> "none", report |-> NoReport]
  /\ runs' = runs + 1
  /\ witnessed' = {account}
  /\ UNCHANGED <<account, vars>>

\* Mutant: only the first page is asked for.
LastPage_First(state, kind, i) == i = 1

\* No token for a further page.
LastPage(state, kind, i) == i >= Len(Listing[state][kind])

\* drain_pages: one page of one collector.
FetchPage(kind) ==
  /\ ingest.phase = "collecting" /\ kind \notin ingest.done
  /\ LET read == Append(ingest.read[kind], account) IN
     ingest' = [ingest EXCEPT !.read[kind] = read,
                  !.done = IF LastPage(account, kind, Len(read)) THEN @ \cup {kind} ELSE @]
  /\ UNCHANGED <<account, runs, witnessed, vars>>

\* Mutant: a collector that fails gives what it has.
FetchFails_Partial(kind) ==
  /\ ingest.phase = "collecting" /\ kind \notin ingest.done
  /\ ingest' = [ingest EXCEPT !.done = @ \cup {kind}]
  /\ UNCHANGED <<account, runs, witnessed, vars>>

\* A page whose attempts are exhausted: try_join! drops the other four.
FetchFails(kind) ==
  /\ ingest.phase = "collecting" /\ kind \notin ingest.done
  /\ End("describe")
  /\ UNCHANGED <<account, runs, witnessed, vars>>

MappingFails ==
  /\ ingest.phase = "collecting" /\ ingest.done = Kinds
  /\ ~BatchMaps(Collected(ingest.read))
  /\ End("mapping")
  /\ UNCHANGED <<account, runs, witnessed, vars>>

MapAndWrite ==
  /\ ingest.phase = "collecting" /\ ingest.done = Kinds
  /\ BatchMaps(Collected(ingest.read))
  /\ BeginWrite(Collected(ingest.read))
  /\ ingest' = [ingest EXCEPT !.phase = "writing"]
  /\ UNCHANGED <<account, runs, witnessed>>

\* A step of write_batch; its answer ends the run.
Writes ==
  /\ ingest.phase = "writing"
  /\ Step \/ DriverFails
  /\ IF writer'.running THEN UNCHANGED ingest
     ELSE IF writer'.result = "ok"
     THEN ingest' = [ingest EXCEPT !.phase = "idle", !.result = "ok", !.report = Report(writer.batch)]
     ELSE End("write")
  /\ UNCHANGED <<account, runs, witnessed>>

Killed ==
  /\ ingest.phase # "idle"
  /\ IF ingest.phase = "writing" THEN Crash ELSE UNCHANGED vars
  /\ End("none")
  /\ UNCHANGED <<account, runs, witnessed>>

\* Someone changes the account, whatever the run is doing.
Change ==
  /\ account' \in Succ[account]
  /\ witnessed' = witnessed \cup {account'}
  /\ UNCHANGED <<ingest, runs, vars>>

IngestNext ==
  \/ BeginIngest
  \/ \E kind \in Kinds : FetchPage(kind) \/ FetchFails(kind)
  \/ MappingFails
  \/ MapAndWrite
  \/ Writes
  \/ Killed
  \/ Change

IngestSpec == IngestInit /\ [][IngestNext]_allVars
-----------------------------------------------------------------------------
(* What must hold *)

Ended(result) == ingest.phase = "idle" /\ ingest.result = result

\* No change while the run was under way, nor since.
Quiet == runs > 0 /\ witnessed = {account}

\* The account as it is listed, all of its pages.
Whole == [kind \in Kinds |-> FlattenSeq(Listing[account][kind])]

\* What is written was read to the last page of every collector
\* (collect.rs: a first-page-only read is "structurally valid, queryable, and
\* wrong by omission"; pipeline.rs: exhausting a collector's retries is fatal).
OnlyCompleteReads ==
  ingest.phase = "writing" =>
    \A kind \in Kinds :
      LET read == ingest.read[kind] IN
      read # <<>> /\ Len(read) >= Len(Listing[read[Len(read)]][kind])

\* While nothing changes, a run fails on what it read only for a cause that is
\* in the account: a resource with a malformed part, or an interface or rule
\* that names a group of this account which has no node.  Nodes and the edges
\* that name them come from different collectors and different code, and none
\* of that must make a reference dangle or a route contradict itself.
QuietRunsFailForCause ==
  Quiet =>
    /\ Ended("mapping") => ~BatchMaps(Whole)
    /\ Ended("write") => /\ writer.result # "inconsistent"
                         /\ writer.result = "unresolved_endpoint" => ~GroupsThere(Whole)

\* After an Ok every resource that was read is a node or a warning, and every
\* membership a relationship, however the reads were torn (pipeline.rs: the
\* "false-negative failure mode this pipeline exists to prevent").
LabelOf ==
  [NetworkInterface |-> "ENI", SecurityGroup |-> "SecurityGroup", NetworkAcl |-> "NetworkACL",
   RouteTable |-> "RouteTable", VpcPeeringConnection |-> "VpcPeeringConnection"]
NothingSilentlyDropped ==
  Ended("ok") =>
    LET raw == Collected(ingest.read)
        warned == ToSet(ingest.report.non_fatal)
    IN  /\ \A kind \in Kinds \ {"VpcPeeringConnection"} : \A item \in ToSet(raw[kind]) :
             item \in warned \/ NodeKey(LabelOf[kind], item.id) \in DOMAIN graph
        /\ \A eni \in ToSet(raw["NetworkInterface"]) \ warned : \A g \in ToSet(eni.groups) :
             EdgeKey("HAS_SG", NodeKey("ENI", eni.id), NodeKey("SecurityGroup", g), <<>>) \in DOMAIN graph

\* A report without unresolved references means that all of the batch's
\* routes and rules resolved (IngestReport: "Zero here on a non-empty graph
\* means every reference resolved").
ZeroMeansResolved ==
  Ended("ok") /\ ingest.report.unresolved_references = 0 =>
    \A k \in DOMAIN Image[writer.batch] :
       IsEdge(k) /\ k[1] \in {"ROUTES_TO", "ALLOWS_INGRESS", "ALLOWS_EGRESS"} => graph[k] = TRUE

\* Why: every page was read of a state the account was in during the run, and
\* the writer, the outcome and the report are those of what was read.
Witnesses ==
  /\ account \in Account /\ \E start \in Account : witnessed \cup {account} \subseteq Later[start]
  /\ ingest.phase = "collecting" => account \in witnessed
Progress ==
  \A kind \in Kinds :
    LET read == ingest.read[kind]
        pages == Len(Listing[read[Len(read)]][kind])
    IN  IF kind \in ingest.done THEN read # <<>> /\ Len(read) >= pages
        ELSE read = <<>> \/ Len(read) < pages
Outcome ==
  /\ writer.running <=> ingest.phase = "writing"
  /\ ingest.phase = "writing" \/ Ended("ok") \/ Ended("write") =>
       ingest.done = Kinds /\ writer.batch = Collected(ingest.read) /\ writer.batch \in Batch
  /\ Ended("ok") => writer.result = "ok" /\ ingest.report = Report(writer.batch)
  /\ Ended("mapping") => ingest.done = Kinds /\ ~BatchMaps(Collected(ingest.read))
RefusalIsReal ==
  ~writer.running /\ writer.result = "inconsistent" => Inconsistent(Content[writer.batch])
Reports == {NoReport} \cup {Report(raw) : raw \in Batch}
IngestInv ==
  /\ ingest \in [phase : {"idle", "collecting", "writing"}, read : Reads(witnessed), done : SUBSET Kinds,
                 result : Outcomes, report : Reports]
  /\ Witnesses
  /\ Progress
  /\ Outcome
  /\ RefusalIsReal
=============================================================================
