------------------------------ MODULE Evaluation ------------------------------
(***************************************************************************)
(* evaluate_candidate of evaluate/engine.rs with the two rule evaluators   *)
(* it calls, rule by rule: a security group layer folds over every rule    *)
(* (evaluate/sg.rs), a network ACL layer looks for the first match in      *)
(* rule_number order (evaluate/nacl.rs), and the engine stops at the first *)
(* layer that does not allow.                                              *)
(***************************************************************************)
EXTENDS LayerVerdicts

VARIABLES
  candidate,   \* the path candidate under evaluation
  at,          \* Start, the layer being evaluated, or Done
  unseen,      \* positions of the layer's rules not yet considered
  outcome,     \* the accumulator of the security group fold
  steps,       \* the evidence: one step per layer consulted
  finding      \* the finding, pending until the last layer

vars == <<candidate, at, unseen, outcome, steps, finding>>

Start == 0
Done == 5

-----------------------------------------------------------------------------
(* Verdicts.  `rule' is the citation: rule_index of a security group rule  *)
(* (counted from 1), rule_number of a network ACL rule, and for an         *)
(* indeterminate verdict the rule whose unresolved group is named; 0 is    *)
(* DenyReason::NoMatchingRule.                                             *)

Verdict == [kind : {"allowed", "denied", "indeterminate"}, rule : Nat]

Allowed(i) == [kind |-> "allowed", rule |-> i]
Indeterminate(i) == [kind |-> "indeterminate", rule |-> i]
NoMatchingRule == [kind |-> "denied", rule |-> 0]
ExplicitDeny(n) == [kind |-> "denied", rule |-> n]

Step == [layer : Layer, resource_id : Eni \cup Subnet, verdict : Verdict]

\* Mutant: a reference nobody could resolve is taken not to match.
classify_rule_UnresolvedDenies(rule, i, traffic, groups) ==
  IF /\ Applies(rule, traffic)
     /\ \/ rule.target.kind = "cidr" /\
             cidr_contains(rule.target.cidr, traffic.peer_address)
        \/ rule.target.kind = "security_group_ref" /\ rule.resolved /\
             rule.target.group \in groups
  THEN Allowed(i) ELSE NoMatchingRule

classify_rule(rule, i, traffic, groups) ==
  IF ~Applies(rule, traffic) THEN NoMatchingRule
  ELSE IF rule.target.kind = "cidr"
  THEN IF cidr_contains(rule.target.cidr, traffic.peer_address)
       THEN Allowed(i) ELSE NoMatchingRule
  ELSE IF ~rule.resolved THEN Indeterminate(i)
  ELSE IF rule.target.group \in groups THEN Allowed(i) ELSE NoMatchingRule

\* Mutant: a later unresolved reference displaces a rule that grants.
combine_LastSpeaks(acc, next) ==
  IF next = NoMatchingRule THEN acc ELSE next

combine(acc, next) ==
  IF \/ acc.kind = "allowed"
     \/ acc.kind = "indeterminate" /\ next.kind # "allowed"
  THEN acc
  ELSE next

-----------------------------------------------------------------------------
(* Findings *)

\* Mutant: the reserved severity is handed out.
severity_for_Critical(reachability) ==
  IF reachability = "reachable" THEN "critical" ELSE "low"

severity_for(reachability) ==
  IF reachability = "reachable" THEN "high"
  ELSE IF reachability = "indeterminate" THEN "medium"
  ELSE "low"

Finding ==
  [reachability : {"pending", "reachable", "not_reachable", "indeterminate"},
   layers : SUBSET Layer, severity : {"none", "low", "medium", "high"}]

finish_with(reachability, layers) ==
  [reachability |-> reachability, layers |-> layers,
   severity |-> severity_for(reachability)]

\* Mutant: the silent false negative, an indeterminate step read as a denial.
finish_Collapsed(taken) ==
  IF \E i \in DOMAIN taken : taken[i].verdict.kind # "allowed"
  THEN finish_with("not_reachable", {})
  ELSE finish_with("reachable", {})

\* combine_verdicts over the steps taken, and the finding it ends in
finish(taken) ==
  LET of(kind) == {i \in DOMAIN taken : taken[i].verdict.kind = kind}
  IN  IF of("denied") # {} THEN finish_with("not_reachable", {})
      ELSE IF of("indeterminate") = {} THEN finish_with("reachable", {})
      ELSE finish_with("indeterminate",
                       {taken[i].layer : i \in of("indeterminate")})

-----------------------------------------------------------------------------
Init ==
  /\ candidate \in Candidates
  /\ at = Start
  /\ unseen = {}
  /\ outcome = NoMatchingRule
  /\ steps = <<>>
  /\ finding = [reachability |-> "pending", layers |-> {}, severity |-> "none"]

\* Call the evaluator of layer l: filter the rules, start the fold at Denied.
Enter(l) ==
  /\ at' = l
  /\ unseen' = InDirection(candidate, l)
  /\ outcome' = NoMatchingRule

Return(f) ==
  /\ at' = Done
  /\ unseen' = {}
  /\ outcome' = NoMatchingRule
  /\ finding' = f

\* The layer under evaluation returns v: push the step, then go on to the
\* next layer or stop.
Conclude(v) ==
  /\ steps' = Append(steps, [layer |-> at, verdict |-> v,
                             resource_id |-> ResourceId(candidate, at)])
  /\ \/ /\ v.kind = "allowed" /\ at # SgIngress
        /\ Enter(at + 1)
        /\ UNCHANGED finding
     \/ /\ v.kind # "allowed" \/ at = SgIngress
        /\ Return(finish(steps'))
  /\ UNCHANGED candidate

\* Mutant: network ACL rules are tried in the order they are listed.
IsNext_ListOrder(i) == i \in unseen /\ \A j \in unseen \ {i} : i < j

\* The unseen rule the iteration comes to next
IsNext(i) ==
  i \in unseen /\ \A j \in unseen \ {i} : Ahead(candidate, at, i, j)

-----------------------------------------------------------------------------
(* No route: nothing to intersect, and no evidence. *)
NoRoute ==
  /\ at = Start
  /\ ~candidate.route_exists
  /\ Return(finish_with("not_reachable", {}))
  /\ UNCHANGED <<candidate, steps>>

BeginLayers ==
  /\ at = Start
  /\ candidate.route_exists
  /\ Enter(SgEgress)
  /\ UNCHANGED <<candidate, steps, finding>>

(* One iteration of the security group fold, which never stops early *)
FoldRule ==
  /\ at \in {SgEgress, SgIngress}
  /\ \E i \in unseen :
       /\ IsNext(i)
       /\ outcome' = combine(outcome,
                       classify_rule(Rules(candidate, at)[i], i,
                         candidate.traffic, PeerGroups(candidate, at)))
       /\ unseen' = unseen \ {i}
  /\ UNCHANGED <<candidate, at, steps, finding>>

ReturnOutcome ==
  /\ at \in {SgEgress, SgIngress}
  /\ unseen = {}
  /\ Conclude(outcome)

(* One iteration of the search for the first matching network ACL rule *)
SkipRule ==
  /\ at \in {NaclEgress, NaclIngress}
  /\ \E i \in unseen :
       /\ IsNext(i)
       /\ ~rule_matches(Rules(candidate, at)[i], candidate.traffic)
       /\ unseen' = unseen \ {i}
  /\ UNCHANGED <<candidate, at, outcome, steps, finding>>

FirstMatch ==
  /\ at \in {NaclEgress, NaclIngress}
  /\ \E i \in unseen :
       LET rule == Rules(candidate, at)[i] IN
       /\ IsNext(i)
       /\ rule_matches(rule, candidate.traffic)
       /\ Conclude(IF rule.action = "allow" THEN Allowed(rule.rule_number)
                                            ELSE ExplicitDeny(rule.rule_number))

(* Fell through every explicit rule: the implicit deny *)
ImplicitDeny ==
  /\ at \in {NaclEgress, NaclIngress}
  /\ unseen = {}
  /\ Conclude(NoMatchingRule)

Next == \/ NoRoute \/ BeginLayers
        \/ FoldRule \/ ReturnOutcome
        \/ SkipRule \/ FirstMatch \/ ImplicitDeny

\* Plain sequential code with no await: once called, it runs to its end.
Spec == Init /\ [][Next]_vars /\ WF_vars(Next)

-----------------------------------------------------------------------------
(* Correctness *)

Promise == INSTANCE Reachability

\* Every variable keeps its type; "critical" is reserved, no finding has it
\* (engine.rs, severity_for).
TypeOK ==
  /\ candidate \in Candidates
  /\ at \in Start .. Done
  /\ unseen \subseteq IF at \in Layer THEN InDirection(candidate, at) ELSE {}
  /\ outcome \in Verdict
  /\ steps \in Seq(Step)
  /\ finding \in Finding

\* Verdict v of layer l of candidate c cites the rule that decided it: the
\* first granting rule of a security group, a rule naming an unresolved
\* group, the network ACL rule that matched first; or none, and then no rule
\* of the layer had anything to say.
Cites(c, l, v) ==
  IF IsSg(l)
  THEN /\ v.kind = "allowed" =>
            /\ v.rule \in InDirection(c, l)
            /\ Grants(c, l, Rules(c, l)[v.rule])
            /\ \A i \in InDirection(c, l) :
                 Grants(c, l, Rules(c, l)[i]) => v.rule <= i
       /\ v.kind = "indeterminate" =>
            /\ v.rule \in InDirection(c, l)
            /\ MightGrant(c, Rules(c, l)[v.rule])
       /\ v.kind = "denied" => v.rule = 0
  ELSE \/ \E i \in InDirection(c, l) :
            /\ Decides(c, l, i)
            /\ v.rule = Rules(c, l)[i].rule_number
            /\ v.kind = IF Rules(c, l)[i].action = "allow"
                        THEN "allowed" ELSE "denied"
       \/ /\ v = NoMatchingRule
          /\ \A i \in InDirection(c, l) :
               ~rule_matches(Rules(c, l)[i], c.traffic)

\* The evidence lists the layers in evaluation order, and each step holds the
\* verdict that the layer's rule set gives, whatever order the rules were
\* listed in, with the rule that decided it.
EvidenceSound ==
  \A n \in DOMAIN steps :
    /\ steps[n].layer = n
    /\ steps[n].verdict.kind = LayerVerdict(candidate, n)
    /\ Cites(candidate, n, steps[n].verdict)

\* The evidence explains the finding (path.rs, PathEvidence): every step but
\* the last allows, the last decides, and no evidence means no route.  In
\* particular an unresolved reference never ends as not reachable.
EvidenceExplains ==
  LET last == steps[Len(steps)].verdict.kind IN
  /\ \A n \in 1 .. Len(steps) - 1 : steps[n].verdict.kind = "allowed"
  /\ at = Done =>
       IF steps = <<>>
       THEN ~candidate.route_exists /\ finding = NotReachable
       ELSE /\ candidate.route_exists
            /\ last = "allowed" => finding = Reachable /\ Len(steps) = SgIngress
            /\ last = "denied" => finding = NotReachable
            /\ last = "indeterminate" => finding = IndeterminateAt({Len(steps)})

\* The engine implements its promise: rule by rule it computes the finding
\* that Reachability defines from the rule sets, and it does report one.
ImplementsReachability == Promise!Spec

-----------------------------------------------------------------------------
(* The inductive invariant of the proofs *)

Seen == InDirection(candidate, at) \ unseen

\* Half way through a security group fold the outcome sums up the rules seen,
\* and they come before the unseen ones.
FoldInv ==
  LET rule(i) == Rules(candidate, at)[i]
      grants(i) == Grants(candidate, at, rule(i))
      mightGrant(i) == MightGrant(candidate, rule(i))
  IN  /\ \A i \in Seen, j \in unseen : i < j
      /\ outcome.kind = "allowed" =>
           /\ outcome.rule \in Seen /\ grants(outcome.rule)
           /\ \A i \in Seen : grants(i) => outcome.rule <= i
      /\ outcome.kind = "indeterminate" =>
           /\ outcome.rule \in Seen /\ mightGrant(outcome.rule)
           /\ \A i \in Seen : ~grants(i)
      /\ outcome.kind = "denied" =>
           /\ outcome.rule = 0
           /\ \A i \in Seen : ~grants(i) /\ ~mightGrant(i)

\* Half way through a network ACL search no rule seen matches.
SearchInv == \A i \in Seen : ~rule_matches(Rules(candidate, at)[i], candidate.traffic)

LayerInv ==
  /\ candidate.route_exists
  /\ finding = Pending
  /\ Len(steps) = at - 1
  /\ \A n \in DOMAIN steps : steps[n].verdict.kind = "allowed"
  /\ IF IsSg(at) THEN FoldInv ELSE SearchInv

\* At every point of the loop: the evidence so far is right, every layer
\* passed allowed, and the loop's accumulators say what the rules already
\* visited amount to; after the loop the finding is the promised one.
ScanInv ==
  /\ EvidenceSound
  /\ EvidenceExplains
  /\ at = Start => steps = <<>> /\ finding = Pending
  /\ at \in Layer => LayerInv
  /\ at = Done => Promised(candidate, finding)

-----------------------------------------------------------------------------
(* What comments in the code say of the engine, and what it does instead *)

\* engine.rs:180 "Denied always wins over Indeterminate, even when both are
\* present across different layers": an indeterminate finding is never
\* reported for a path some layer definitely denies.
DeniedAlwaysWins ==
  finding.reachability = "indeterminate" =>
    \A l \in Layer : LayerVerdict(candidate, l) # "denied"

\* candidates.rs:104 "the broadest possible check ... surfacing worst-case
\* reachability": when the all-protocols flow of a candidate is not
\* reachable, no tcp or udp flow between the two endpoints gets through.
WorstCaseReachability ==
  finding.reachability = "not_reachable" /\ candidate.traffic.protocol = "all" =>
    \A protocol \in {"tcp", "udp"}, port \in Port :
      ~ /\ candidate.route_exists
        /\ \A l \in Layer :
             "allowed" = LayerVerdict(
               [candidate EXCEPT !.traffic.protocol = protocol,
                                 !.traffic.port = port], l)
=============================================================================
