----------------------------- MODULE ReportModel -----------------------------
(***************************************************************************)
(* report/model.rs: an audit report is put together from findings, saved,  *)
(* perhaps edited while it is a file, and read back through the same       *)
(* checks.  A wrapped finding is the finding and its causes, which only an *)
(* indeterminate one has.  A time is what a clock shows and its offset     *)
(* from UTC.                                                               *)
(***************************************************************************)
EXTENDS Integers, FiniteSets, SequencesExt

CONSTANTS
    Layers,        \* the layers, in evaluation order
    Causes,        \* IndeterminateCause
    Findings,      \* what a caller may hand over: the layers are a plain list
    Times, Accounts, Regions, References,
    MaxFindings, MaxEdits   \* bounds

VARIABLES
    parts,    \* population -> the findings wrapped for it so far
    report,   \* the report in hand, or NoReport (none yet, or refused)
    saved,    \* history: the report that the file was written from
    file,     \* the file's content, or NoReport
    edits     \* edits made of the file

vars == <<parts, report, saved, file, edits>>

Populations == {"reachable", "not_reachable", "indeterminate"}
NoReport == [summary |-> <<>>, findings |-> <<>>]
Rank(layer) == CHOOSE i \in DOMAIN Layers : Layers[i] = layer

\* What serde lets through before a constructor looks at it.
WireItems ==
  [finding : [source : {f.source : f \in Findings}, reachability : Populations, layers : Seq(ToSet(Layers))],
   causes : Seq([layer : ToSet(Layers), cause : Causes])]

ASSUME ReportAssumption ==
  /\ Layers \in Seq(ToSet(Layers))
  /\ \A f \in Findings : [finding |-> f, causes |-> <<>>] \in WireItems
  /\ Times \subseteq [clock : Int, offset : Int]
-----------------------------------------------------------------------------
(* Constructors *)

LayersOf(causes) == [i \in DOMAIN causes |-> causes[i].layer]

\* Mutant: compared as lists, although Wrap sorts the causes afterwards.
CausesMatch_AsLists(finding, causes) == LayersOf(causes) = finding.layers

\* One cause for each layer that is listed.
CausesMatch(finding, causes) ==
  /\ ToSet(LayersOf(causes)) = ToSet(finding.layers)
  /\ Cardinality(ToSet(LayersOf(causes))) = Len(causes)

Accepts(population, item) ==
  /\ item.finding.reachability = population
  /\ population = "indeterminate" => CausesMatch(item.finding, item.causes)

\* sort_by_key(layer): stable, so a cause's place is how many do not come after it.
Place(causes, i) ==
  Cardinality({j \in DOMAIN causes :
                 \/ Rank(causes[j].layer) < Rank(causes[i].layer)
                 \/ Rank(causes[j].layer) = Rank(causes[i].layer) /\ j <= i})

InOrder(causes) ==
  [k \in DOMAIN causes |-> causes[CHOOSE i \in DOMAIN causes : Place(causes, i) = k]]

\* Mutant: the causes keep the order they come in.
Wrap_AsGiven(item) ==
  [item EXCEPT !.causes = IF item.finding.reachability = "indeterminate" THEN @ ELSE <<>>]

\* A decided finding is wrapped without causes, whatever its JSON carries.
Wrap(item) ==
  [item EXCEPT !.causes = IF item.finding.reachability = "indeterminate" THEN InOrder(@) ELSE <<>>]

ScopeAccepted(scope) == scope.accounts # {} /\ scope.regions # {}

from_populations(findings) == [population \in Populations |-> Len(findings[population])]

to_utc(t) == [clock |-> t.clock - t.offset, offset |-> 0]

AuditReport(scope, generated_at, findings) ==
  [summary |-> [scope |-> scope, generated_at |-> to_utc(generated_at), counts |-> from_populations(findings)],
   findings |-> findings]

\* Mutant: the counts of a file are believed.
TryFrom_Believed(wire) ==
  IF /\ \A population \in Populations : \A i \in DOMAIN wire.findings[population] :
          Accepts(population, wire.findings[population][i])
     /\ ScopeAccepted(wire.summary.scope)
  THEN [summary |-> [wire.summary EXCEPT !.generated_at = to_utc(@)],
        findings |-> [population \in Populations |->
                        [i \in DOMAIN wire.findings[population] |-> Wrap(wire.findings[population][i])]]]
  ELSE NoReport

\* Deserialization runs every constructor, then compares the counts.
TryFrom(wire) ==
  IF /\ \A population \in Populations : \A i \in DOMAIN wire.findings[population] :
          Accepts(population, wire.findings[population][i])
     /\ ScopeAccepted(wire.summary.scope)
     /\ wire.summary.counts = from_populations(wire.findings)
  THEN [summary |-> [wire.summary EXCEPT !.generated_at = to_utc(@)],
        findings |-> [population \in Populations |->
                        [i \in DOMAIN wire.findings[population] |-> Wrap(wire.findings[population][i])]]]
  ELSE NoReport
-----------------------------------------------------------------------------
(* Actions *)

Init ==
  /\ parts = [population \in Populations |-> <<>>]
  /\ report = NoReport /\ saved = NoReport /\ file = NoReport /\ edits = 0

Total(findings) == Len(findings.reachable) + Len(findings.not_reachable) + Len(findings.indeterminate)

\* The caller chooses where a finding goes and what caused it; a constructor may refuse.
Add(population, item) ==
  /\ report = NoReport /\ file = NoReport /\ Total(parts) < MaxFindings
  /\ Accepts(population, item)
  /\ parts' = [parts EXCEPT ![population] = Append(@, Wrap(item))]
  /\ UNCHANGED <<report, saved, file, edits>>

New(scope, generated_at) ==
  /\ report = NoReport /\ file = NoReport
  /\ ScopeAccepted(scope)
  /\ report' = AuditReport(scope, generated_at, parts)
  /\ UNCHANGED <<parts, saved, file, edits>>

Serialize ==
  /\ report # NoReport /\ file = NoReport
  /\ file' = report /\ saved' = report
  /\ UNCHANGED <<parts, report, edits>>

\* What a hand, a merge or another tool may do to the JSON.
EditsOfItem(item) ==
  {[item EXCEPT !.finding.reachability = r] : r \in Populations}
  \cup {[item EXCEPT !.finding.layers = RemoveAt(@, i)] : i \in DOMAIN item.finding.layers}
  \cup {[item EXCEPT !.causes = RemoveAt(@, i)] : i \in DOMAIN item.causes}
  \cup {[item EXCEPT !.causes = Append(@, @[i])] : i \in DOMAIN item.causes}
  \cup {[item EXCEPT !.causes = Reverse(@)]}

EditsAt(findings, p, i) ==
  {[findings EXCEPT ![p] = ReplaceAt(@, i, item)] : item \in EditsOfItem(findings[p][i])}
  \cup {[findings EXCEPT ![p] = RemoveAt(@, i)], [findings EXCEPT ![p] = Append(@, @[i])]}
  \cup {[findings EXCEPT ![p] = RemoveAt(@, i), ![q] = Append(@, findings[p][i])] : q \in Populations \ {p}}

EditsOfFindings(findings) ==
  UNION {UNION {EditsAt(findings, p, i) : i \in DOMAIN findings[p]} : p \in Populations}

EditsOfSummary(summary) ==
  {[summary EXCEPT !.counts[p] = @ + 1] : p \in Populations}
  \cup {[summary EXCEPT !.counts[p] = @ - 1] : p \in {q \in Populations : summary.counts[q] > 0}}
  \cup {[summary EXCEPT !.scope.accounts = {}], [summary EXCEPT !.scope.regions = {}]}
  \cup {[summary EXCEPT !.generated_at = [clock |-> @.clock + 2, offset |-> @.offset + 2]]}

EditsOf(r) ==
  {[r EXCEPT !.findings = findings] : findings \in EditsOfFindings(r.findings)}
  \cup {[r EXCEPT !.summary = summary] : summary \in EditsOfSummary(r.summary)}

Edit ==
  /\ file # NoReport /\ edits < MaxEdits
  /\ file' \in EditsOf(file)
  /\ edits' = edits + 1
  /\ UNCHANGED <<parts, report, saved>>

Deserialize ==
  /\ file # NoReport
  /\ report' = TryFrom(file)
  /\ UNCHANGED <<parts, saved, file, edits>>

CauseLists == UNION {[1..n -> [layer : ToSet(Layers), cause : Causes]] : n \in 0..Len(Layers)}
Items == [finding : Findings, causes : CauseLists]
Scopes == [accounts : SUBSET Accounts, regions : SUBSET Regions, unresolved_reference_count : References]

Next ==
  \/ \E population \in Populations, item \in Items : Add(population, item)
  \/ \E scope \in Scopes, t \in Times : New(scope, t)
  \/ Serialize
  \/ Edit
  \/ Deserialize

Spec == Init /\ [][Next]_vars
-----------------------------------------------------------------------------
(* What must hold *)

InHand == report # NoReport

\* A report, built or read back from an edited file, never disagrees with
\* itself: every finding is in its own population and counted there, and an
\* indeterminate one explains each of its layers once, in evaluation order
\* (model.rs: "a report read back from disk cannot disagree with itself").
AgreesWithItself ==
  InHand =>
    \A p \in Populations :
      /\ report.summary.counts[p] = Cardinality(DOMAIN report.findings[p])
      /\ \A i \in DOMAIN report.findings[p] :
           LET item == report.findings[p][i] IN
           /\ item.finding.reachability = p
           /\ p = "indeterminate" =>
                /\ {item.causes[k].layer : k \in DOMAIN item.causes} = ToSet(item.finding.layers)
                /\ \A k \in 1..Len(item.causes) - 1 : Rank(item.causes[k].layer) < Rank(item.causes[k + 1].layer)

\* A report is read back as it was saved: no check refuses what a
\* constructor let pass, and none changes it.
RoundTrips == file # NoReport /\ edits = 0 => TryFrom(file) = saved

\* One edit of a file cannot add, lose, move or turn a verdict without the
\* report being refused.
Sources(r, p) == [i \in DOMAIN r.findings[p] |-> r.findings[p][i].finding.source]
OneEditIsSeen ==
  InHand /\ saved # NoReport /\ edits = 1 =>
    \A p \in Populations : Sources(report, p) = Sources(saved, p)
-----------------------------------------------------------------------------
(* Why it holds *)

WireReports ==
  [summary : [scope : [accounts : SUBSET Accounts, regions : SUBSET Regions, unresolved_reference_count : References],
              generated_at : [clock : Int, offset : Int],
              counts : [Populations -> Int]],
   findings : [Populations -> Seq(WireItems)]]

\* Nothing is left for a constructor to refuse or to change.
Settled(findings) ==
  \A p \in Populations : \A i \in DOMAIN findings[p] :
    Accepts(p, findings[p][i]) /\ Wrap(findings[p][i]) = findings[p][i]

Sound(r) ==
  /\ r \in WireReports
  /\ Settled(r.findings)
  /\ ScopeAccepted(r.summary.scope)
  /\ r.summary.counts = from_populations(r.findings)
  /\ to_utc(r.summary.generated_at) = r.summary.generated_at

FileInv ==
  /\ saved = NoReport <=> file = NoReport
  /\ edits \in Nat
  /\ file = NoReport => edits = 0
  /\ file # NoReport =>
       /\ Sound(saved) /\ file \in WireReports
       /\ edits = 0 => file = saved /\ report \in {saved, NoReport}
       /\ edits = 1 => file \in EditsOf(saved)

\* The inductive invariant: what is in hand has nothing left to refuse, and
\* the file is the saved report until the first edit, one edit of it until the
\* second.
ReportInv ==
  /\ parts \in [Populations -> Seq(WireItems)] /\ Settled(parts)
  /\ report # NoReport => Sound(report)
  /\ FileInv
  /\ OneEditIsSeen
=============================================================================
