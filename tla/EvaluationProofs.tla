--------------------------- MODULE EvaluationProofs ---------------------------
(***************************************************************************)
(* Evaluation is correct for every set of candidates, with any number of   *)
(* rules in each layer.  The induction over a layer's rules is the         *)
(* induction over the steps of its loop: ScanInv says at each point what   *)
(* the rules visited so far amount to.  The last part is about the rules   *)
(* that it is given: what MCRules tries on enumerated inputs, for any.     *)
(***************************************************************************)
EXTENDS Evaluation, MCRules, MappingProofs

-----------------------------------------------------------------------------
(* What the layers read of a candidate *)

LEMMA RulesType ==
  ASSUME NEW c \in PathCandidates, NEW l \in Layer
  PROVE  /\ IsSg(l) => Rules(c, l) \in Seq(SgRule)
         /\ ~IsSg(l) => Rules(c, l) \in Seq(NaclRule)
         /\ InDirection(c, l) \subseteq Nat
         /\ InDirection(c, l) \subseteq DOMAIN Rules(c, l)
         /\ ResourceId(c, l) \in Eni \cup Subnet
<1>1. Endpoint(c, l) \in EndpointCandidate
  BY DEF Endpoint, PathCandidates
<1>2. /\ IsSg(l) => Rules(c, l) \in Seq(SgRule)
      /\ ~IsSg(l) => Rules(c, l) \in Seq(NaclRule)
      /\ ResourceId(c, l) \in Eni \cup Subnet
  BY <1>1 DEF Rules, ResourceId, EndpointCandidate
<1>3. DOMAIN Rules(c, l) \subseteq Nat
  BY <1>2
<1>4. QED
  BY <1>2, <1>3 DEF InDirection

\* One rule of a security group: the evaluator's three outcomes are exactly
\* "grants", "might grant" and neither.
LEMMA ClassifySound ==
  ASSUME NEW c, NEW l, NEW i, NEW r \in SgRule
  PROVE  LET v == classify_rule(r, i, c.traffic, PeerGroups(c, l))
             grants == Grants(c, l, r)
             mightGrant == MightGrant(c, r)
         IN  \/ grants /\ ~mightGrant /\ v = Allowed(i)
             \/ ~grants /\ mightGrant /\ v = Indeterminate(i)
             \/ ~grants /\ ~mightGrant /\ v = NoMatchingRule
<1>1. r.target.kind \in {"cidr", "security_group_ref"}
  BY DEF SgRule, RuleTarget
<1>2. CASE ~Applies(r, c.traffic)
  BY <1>2 DEF classify_rule, Grants, MightGrant
<1>3. CASE Applies(r, c.traffic) /\ r.target.kind = "cidr"
  BY <1>3 DEF classify_rule, Grants, MightGrant
<1>4. CASE Applies(r, c.traffic) /\ r.target.kind = "security_group_ref"
  BY <1>4 DEF classify_rule, Grants, MightGrant
<1>5. QED
  BY <1>1, <1>2, <1>3, <1>4

LEMMA ClassifyType ==
  ASSUME NEW c, NEW l, NEW i \in Nat, NEW r \in SgRule
  PROVE  classify_rule(r, i, c.traffic, PeerGroups(c, l)) \in Verdict
<1>1. classify_rule(r, i, c.traffic, PeerGroups(c, l))
        \in {Allowed(i), Indeterminate(i), NoMatchingRule}
  BY ClassifySound
<1>2. {Allowed(i), Indeterminate(i), NoMatchingRule} \subseteq Verdict
  BY DEF Allowed, Indeterminate, NoMatchingRule, Verdict
<1>3. QED
  BY <1>1, <1>2

LEMMA CombineType ==
  ASSUME NEW acc \in Verdict, NEW next \in Verdict
  PROVE  combine(acc, next) \in {acc, next}
BY DEF combine

\* The order of a network ACL's rules is strict: of two rules at most one
\* is ahead of the other.
LEMMA AheadStrict ==
  ASSUME NEW c \in PathCandidates, NEW l \in Layer,
         NEW i \in InDirection(c, l), NEW j \in InDirection(c, l),
         Ahead(c, l, i, j)
  PROVE  ~Ahead(c, l, j, i)
<1>1. i \in Nat /\ j \in Nat /\ i \in DOMAIN Rules(c, l) /\ j \in DOMAIN Rules(c, l)
  BY RulesType
<1>2. CASE IsSg(l)
  BY <1>1, <1>2 DEF Ahead
<1>3. CASE ~IsSg(l)
  <2>1. Rules(c, l)[i] \in NaclRule /\ Rules(c, l)[j] \in NaclRule
    BY <1>1, <1>3, RulesType
  <2>2. Rules(c, l)[i].rule_number \in Nat /\ Rules(c, l)[j].rule_number \in Nat
    BY <2>1 DEF NaclRule
  <2>3. QED
    BY <1>1, <1>3, <2>2 DEF Ahead
<1>4. QED
  BY <1>2, <1>3

-----------------------------------------------------------------------------
(* The finding that a run of steps ends in *)

LEMMA FinishType ==
  ASSUME NEW taken \in Seq(Step)
  PROVE  finish(taken) \in Finding
<1>1. \A i \in DOMAIN taken : taken[i] \in Step
  OBVIOUS
<1>2. \A i \in DOMAIN taken : taken[i].layer \in Layer
  BY <1>1 DEF Step
<1>3. {taken[i].layer : i \in {j \in DOMAIN taken :
         taken[j].verdict.kind = "indeterminate"}} \in SUBSET Layer
  BY <1>2
<1>4. QED
  BY <1>3 DEF finish, finish_with, severity_for, Finding

\* When every step but the last allows, the last alone decides.
LEMMA FinishLast ==
  ASSUME NEW taken \in Seq(Step), NEW n \in Nat, n = Len(taken), n > 0,
         \A m \in 1 .. n - 1 : taken[m].verdict.kind = "allowed",
         taken[n].layer = n
  PROVE  /\ taken[n].verdict.kind = "allowed" => finish(taken) = Reachable
         /\ taken[n].verdict.kind = "denied" => finish(taken) = NotReachable
         /\ taken[n].verdict.kind = "indeterminate" =>
              finish(taken) = IndeterminateAt({n})
<1> DEFINE of(kind) == {i \in DOMAIN taken : taken[i].verdict.kind = kind}
<1>1. DOMAIN taken = 1 .. n
  OBVIOUS
<1>2. CASE taken[n].verdict.kind = "allowed"
  <2>1. of("denied") = {} /\ of("indeterminate") = {}
    BY <1>1, <1>2
  <2>2. QED
    BY <1>2, <2>1 DEF finish, finish_with, severity_for, Reachable
<1>3. CASE taken[n].verdict.kind = "denied"
  <2>1. of("denied") # {}
    BY <1>1, <1>3
  <2>2. QED
    BY <1>3, <2>1 DEF finish, finish_with, severity_for, NotReachable
<1>4. CASE taken[n].verdict.kind = "indeterminate"
  <2>1. of("denied") = {} /\ of("indeterminate") = {n}
    BY <1>1, <1>4
  <2>2. {taken[i].layer : i \in of("indeterminate")} = {n}
    BY <2>1
  <2>3. QED
    BY <1>4, <2>1, <2>2 DEF finish, finish_with, severity_for, IndeterminateAt
<1>5. QED
  BY <1>2, <1>3, <1>4

-----------------------------------------------------------------------------
(* Type correctness *)

LEMMA ConcludeType ==
  ASSUME TypeOK, at \in Layer, NEW v \in Verdict, Conclude(v)
  PROVE  TypeOK'
<1>1. candidate \in PathCandidates
  BY CandidatesAssumption DEF TypeOK
<1>2. [layer |-> at, verdict |-> v, resource_id |-> ResourceId(candidate, at)] \in Step
  BY <1>1, RulesType DEF Step
<1>3. steps' \in Seq(Step)
  BY <1>2 DEF TypeOK, Conclude
<1>4. NoMatchingRule \in Verdict
  BY DEF NoMatchingRule, Verdict
<1>5. CASE v.kind = "allowed" /\ at # SgIngress /\ Enter(at + 1) /\ UNCHANGED finding
  BY <1>3, <1>4, <1>5 DEF TypeOK, Conclude, Enter, Layer, SgIngress, Start, Done
<1>6. CASE Return(finish(steps'))
  <2>1. finding' \in Finding
    BY <1>3, <1>6, FinishType DEF Return
  <2>2. QED
    BY <1>3, <1>4, <1>6, <2>1 DEF TypeOK, Conclude, Return, Layer, Start, Done
<1>7. QED
  BY <1>5, <1>6 DEF Conclude

LEMMA InitType == Init => TypeOK
BY DEF Init, TypeOK, NoMatchingRule, Verdict, Finding, Start, Done, Layer

LEMMA NextType == TypeOK /\ [Next]_vars => TypeOK'
<1> SUFFICES ASSUME TypeOK, [Next]_vars PROVE TypeOK'
  OBVIOUS
<1> USE DEF SgEgress, NaclEgress, NaclIngress, SgIngress
<1>1. candidate \in PathCandidates
  BY CandidatesAssumption DEF TypeOK
<1>2. CASE NoRoute
  BY <1>2 DEF NoRoute, TypeOK, Return, finish_with, severity_for, Finding,
    NoMatchingRule, Verdict, Start, Done, Layer
<1>3. CASE BeginLayers
  BY <1>3 DEF BeginLayers, TypeOK, Enter, NoMatchingRule, Verdict, Start, Done, Layer
<1>4. CASE FoldRule
  <2>1. PICK i \in unseen :
          /\ outcome' = combine(outcome, classify_rule(Rules(candidate, at)[i], i,
                          candidate.traffic, PeerGroups(candidate, at)))
          /\ unseen' = unseen \ {i}
    BY <1>4 DEF FoldRule
  <2>2. at \in Layer /\ IsSg(at)
    BY <1>4 DEF FoldRule, Layer, IsSg
  <2>3. i \in Nat /\ Rules(candidate, at)[i] \in SgRule
    BY <1>1, <2>2, RulesType DEF TypeOK
  <2>4. outcome' \in Verdict
    BY <2>1, <2>3, ClassifyType, CombineType DEF TypeOK
  <2>5. QED
    BY <1>4, <2>1, <2>2, <2>4 DEF FoldRule, TypeOK
<1>5. CASE ReturnOutcome
  BY <1>5, ConcludeType DEF ReturnOutcome, TypeOK, Layer
<1>6. CASE SkipRule
  BY <1>6 DEF SkipRule, TypeOK, Layer
<1>7. CASE FirstMatch
  <2>1. PICK i \in unseen :
          LET rule == Rules(candidate, at)[i] IN
          Conclude(IF rule.action = "allow" THEN Allowed(rule.rule_number)
                                            ELSE ExplicitDeny(rule.rule_number))
    BY <1>7 DEF FirstMatch
  <2>2. at \in Layer /\ ~IsSg(at)
    BY <1>7 DEF FirstMatch, Layer, IsSg
  <2>3. Rules(candidate, at)[i] \in NaclRule
    BY <1>1, <2>2, RulesType DEF TypeOK
  <2>4. Rules(candidate, at)[i].rule_number \in Nat
    BY <2>3 DEF NaclRule
  <2>5. QED
    BY <2>1, <2>2, <2>4, ConcludeType DEF Allowed, ExplicitDeny, Verdict
<1>8. CASE ImplicitDeny
  BY <1>8, ConcludeType DEF ImplicitDeny, NoMatchingRule, Verdict, Layer
<1>9. CASE UNCHANGED vars
  BY <1>9 DEF vars, TypeOK
<1>10. QED
  BY <1>2, <1>3, <1>4, <1>5, <1>6, <1>7, <1>8, <1>9 DEF Next

\* Every variable of the engine keeps its type, whatever the candidate
\* (engine.rs, evaluate_candidate); no finding is ever critical.
THEOREM TypeCorrect == Spec => []TypeOK
BY InitType, NextType, PTL DEF Spec

-----------------------------------------------------------------------------
(* A layer that returns, returns its verdict *)

\* A security group fold that has seen every rule
LEMMA FoldReturns ==
  ASSUME TypeOK, at \in Layer, IsSg(at), unseen = {}, FoldInv
  PROVE  /\ outcome.kind = LayerVerdict(candidate, at)
         /\ Cites(candidate, at, outcome)
<1>1. Seen = InDirection(candidate, at)
  BY DEF Seen
<1>2. outcome.kind \in {"allowed", "denied", "indeterminate"}
  BY DEF TypeOK, Verdict
<1>3. QED
  BY <1>1, <1>2 DEF FoldInv, LayerVerdict, SgVerdict, Cites

\* A network ACL search at its first match
LEMMA FirstMatchDecides ==
  ASSUME TypeOK, at \in Layer, SearchInv, NEW i, IsNext(i),
         rule_matches(Rules(candidate, at)[i], candidate.traffic)
  PROVE  Decides(candidate, at, i)
BY DEF TypeOK, SearchInv, Seen, IsNext, Decides

LEMMA DecidesReturns ==
  ASSUME NEW c \in PathCandidates, NEW l \in Layer, ~IsSg(l),
         NEW i, Decides(c, l, i),
         NEW v, v = IF Rules(c, l)[i].action = "allow"
                    THEN Allowed(Rules(c, l)[i].rule_number)
                    ELSE ExplicitDeny(Rules(c, l)[i].rule_number)
  PROVE  v.kind = LayerVerdict(c, l) /\ Cites(c, l, v)
<1>1. i \in InDirection(c, l)
  BY DEF Decides
<1>2. ASSUME NEW j \in InDirection(c, l), Decides(c, l, j) PROVE j = i
  BY <1>1, <1>2, AheadStrict DEF Decides
<1>3. v.kind = IF Rules(c, l)[i].action = "allow" THEN "allowed" ELSE "denied"
  BY DEF Allowed, ExplicitDeny
<1>4. v.rule = Rules(c, l)[i].rule_number
  BY DEF Allowed, ExplicitDeny
<1>5. v.kind = LayerVerdict(c, l)
  BY <1>1, <1>2, <1>3 DEF LayerVerdict, NaclVerdict
<1>6. QED
  BY <1>1, <1>3, <1>4, <1>5 DEF Cites

\* A network ACL search that has fallen through every rule
LEMMA FallThroughReturns ==
  ASSUME TypeOK, at \in Layer, ~IsSg(at), unseen = {}, SearchInv
  PROVE  /\ NoMatchingRule.kind = LayerVerdict(candidate, at)
         /\ Cites(candidate, at, NoMatchingRule)
<1>1. Seen = InDirection(candidate, at)
  BY DEF Seen
<1>2. NoMatchingRule.kind = "denied"
  BY DEF NoMatchingRule
<1>3. \A i \in InDirection(candidate, at) :
        ~rule_matches(Rules(candidate, at)[i], candidate.traffic)
  BY <1>1 DEF SearchInv
<1>4. LayerVerdict(candidate, at) = "denied"
  BY <1>3 DEF LayerVerdict, NaclVerdict, Decides
<1>5. QED
  BY <1>2, <1>3, <1>4 DEF Cites

-----------------------------------------------------------------------------
(* The loops *)

LEMMA FoldStep ==
  ASSUME TypeOK, at \in Layer, IsSg(at), FoldInv, FoldRule
  PROVE  FoldInv'
<1> DEFINE rule(j) == Rules(candidate, at)[j]
           grants(j) == Grants(candidate, at, rule(j))
           mightGrant(j) == MightGrant(candidate, rule(j))
<1>1. PICK i \in unseen :
        /\ IsNext(i)
        /\ outcome' = combine(outcome, classify_rule(rule(i), i,
                        candidate.traffic, PeerGroups(candidate, at)))
        /\ unseen' = unseen \ {i}
  BY DEF FoldRule
<1>2. UNCHANGED <<candidate, at>>
  BY DEF FoldRule
<1>3. candidate \in PathCandidates
  BY CandidatesAssumption DEF TypeOK
<1>4. /\ unseen \subseteq InDirection(candidate, at)
      /\ InDirection(candidate, at) \subseteq Nat
  BY <1>3, RulesType DEF TypeOK
<1>5. rule(i) \in SgRule
  BY <1>3, <1>4, RulesType
<1>6. Seen' = Seen \cup {i}
  BY <1>1, <1>2, <1>4 DEF Seen
<1>7. \A j \in Seen : j < i
  BY DEF FoldInv
<1>8. \A j \in Seen', k \in unseen' : j < k
  <2>1. \A k \in unseen \ {i} : i < k
    BY <1>1 DEF IsNext, Ahead
  <2>2. QED
    BY <1>1, <1>6, <2>1 DEF FoldInv
<1> DEFINE v == classify_rule(rule(i), i, candidate.traffic, PeerGroups(candidate, at))
<1>9. \/ grants(i) /\ ~mightGrant(i) /\ v = Allowed(i)
      \/ ~grants(i) /\ mightGrant(i) /\ v = Indeterminate(i)
      \/ ~grants(i) /\ ~mightGrant(i) /\ v = NoMatchingRule
  BY <1>5, ClassifySound
<1>10. /\ v = Allowed(i) => v.kind = "allowed" /\ v.rule = i
       /\ v = Indeterminate(i) => v.kind = "indeterminate" /\ v.rule = i
       /\ v = NoMatchingRule => v.kind = "denied" /\ v.rule = 0
  BY DEF Allowed, Indeterminate, NoMatchingRule
<1>11. outcome' = IF \/ outcome.kind = "allowed"
                     \/ outcome.kind = "indeterminate" /\ v.kind # "allowed"
                  THEN outcome ELSE v
  BY <1>1 DEF combine
<1>12. outcome.kind \in {"allowed", "denied", "indeterminate"}
  BY DEF TypeOK, Verdict
<1> HIDE DEF v
<1>13. i \in Nat /\ Seen \subseteq Nat
  BY <1>4 DEF Seen
<1>14. outcome'.kind = "allowed" =>
         /\ outcome'.rule \in Seen' /\ grants(outcome'.rule)
         /\ \A j \in Seen' : grants(j) => outcome'.rule <= j
  <2>1. CASE outcome.kind = "allowed"
    <3>1. /\ outcome.rule \in Seen /\ grants(outcome.rule)
          /\ \A j \in Seen : grants(j) => outcome.rule <= j
      BY <2>1 DEF FoldInv
    <3>2. outcome.rule < i
      BY <1>7, <3>1
    <3>3. outcome' = outcome
      BY <1>11, <2>1
    <3>4. outcome.rule \in Nat
      BY <1>13, <3>1
    <3>5. outcome.rule <= i
      BY <1>13, <3>2, <3>4
    <3>6. QED
      BY <1>6, <3>1, <3>3, <3>5
  <2>2. CASE outcome.kind # "allowed"
    <3>1. \A j \in Seen : ~grants(j)
      BY <1>12, <2>2 DEF FoldInv
    <3>2. QED
      BY <1>6, <1>9, <1>10, <1>11, <1>13, <2>2, <3>1
  <2>3. QED
    BY <2>1, <2>2
<1>15. outcome'.kind = "indeterminate" =>
         /\ outcome'.rule \in Seen' /\ mightGrant(outcome'.rule)
         /\ \A j \in Seen' : ~grants(j)
  BY <1>6, <1>9, <1>10, <1>11, <1>12 DEF FoldInv
<1>16. outcome'.kind = "denied" =>
         /\ outcome'.rule = 0
         /\ \A j \in Seen' : ~grants(j) /\ ~mightGrant(j)
  BY <1>6, <1>9, <1>10, <1>11, <1>12 DEF FoldInv
<1>17. QED
  BY <1>2, <1>8, <1>14, <1>15, <1>16 DEF FoldInv

LEMMA SearchStep ==
  ASSUME TypeOK, at \in Layer, SearchInv, SkipRule
  PROVE  SearchInv'
<1>1. PICK i \in unseen :
        /\ ~rule_matches(Rules(candidate, at)[i], candidate.traffic)
        /\ unseen' = unseen \ {i}
  BY DEF SkipRule
<1>2. Seen' \subseteq Seen \cup {i}
  BY <1>1 DEF Seen, SkipRule
<1>3. QED
  BY <1>1, <1>2 DEF SearchInv, SkipRule

\* A loop starts having seen nothing.
LEMMA LoopStarts ==
  ASSUME unseen' = InDirection(candidate', at'), outcome' = NoMatchingRule
  PROVE  FoldInv' /\ SearchInv'
<1>1. Seen' = {}
  BY DEF Seen
<1>2. outcome'.kind = "denied" /\ outcome'.rule = 0
  BY DEF NoMatchingRule
<1>3. QED
  BY <1>1, <1>2 DEF FoldInv, SearchInv

-----------------------------------------------------------------------------
(* From layer to layer *)

LEMMA ConcludeStep ==
  ASSUME TypeOK, ScanInv, at \in Layer, NEW v \in Verdict,
         v.kind = LayerVerdict(candidate, at), Cites(candidate, at, v),
         Conclude(v)
  PROVE  ScanInv'
<1> USE DEF Layer, SgIngress, Start, Done
<1> DEFINE step == [layer |-> at, verdict |-> v,
                    resource_id |-> ResourceId(candidate, at)]
<1>1. /\ candidate.route_exists
      /\ finding = Pending
      /\ Len(steps) = at - 1
      /\ \A n \in DOMAIN steps : steps[n].verdict.kind = "allowed"
  BY DEF ScanInv, LayerInv
<1>2. candidate \in PathCandidates
  BY CandidatesAssumption DEF TypeOK
<1>3. step \in Step
  BY <1>2, RulesType DEF Step
<1>4. steps \in Seq(Step) /\ steps' = Append(steps, step)
  BY DEF TypeOK, Conclude
<1> HIDE DEF step
<1>5. /\ Len(steps') = at /\ steps' \in Seq(Step)
      /\ DOMAIN steps' = 1 .. at /\ steps' # <<>>
      /\ \A n \in 1 .. at - 1 : steps'[n] = steps[n] /\ n \in DOMAIN steps
      /\ steps'[at] = step
  BY <1>1, <1>3, <1>4
<1>6. step.layer = at /\ step.verdict = v
  BY DEF step
<1>7. candidate' = candidate
  BY DEF Conclude
<1>8. EvidenceSound'
  <2> SUFFICES ASSUME NEW n \in 1 .. at
               PROVE  /\ steps'[n].layer = n
                      /\ steps'[n].verdict.kind = LayerVerdict(candidate, n)
                      /\ Cites(candidate, n, steps'[n].verdict)
    BY <1>5, <1>7 DEF EvidenceSound
  <2>1. CASE n = at
    BY <1>5, <1>6, <2>1
  <2>2. CASE n \in 1 .. at - 1
    BY <1>5, <2>2 DEF ScanInv, EvidenceSound
  <2>3. QED
    BY <2>1, <2>2
<1>9. \A n \in 1 .. at - 1 : steps'[n].verdict.kind = "allowed"
  BY <1>1, <1>5
<1>10. \A n \in 1 .. at - 1 : LayerVerdict(candidate, n) = "allowed"
  BY <1>5, <1>7, <1>8, <1>9 DEF EvidenceSound
<1>11. CASE v.kind = "allowed" /\ at # SgIngress /\ Enter(at + 1) /\ UNCHANGED finding
  <2>1. at' = at + 1 /\ at' \in Layer
    BY <1>11 DEF Enter
  <2>2. \A n \in DOMAIN steps' : steps'[n].verdict.kind = "allowed"
    BY <1>5, <1>6, <1>9, <1>11
  <2>3. FoldInv' /\ SearchInv'
    BY <1>7, <1>11, <2>1, LoopStarts DEF Enter
  <2>4. LayerInv'
    BY <1>1, <1>5, <1>7, <1>11, <2>1, <2>2, <2>3 DEF LayerInv
  <2>5. EvidenceExplains'
    BY <1>5, <1>9, <2>1 DEF EvidenceExplains
  <2>6. QED
    BY <1>8, <2>1, <2>4, <2>5 DEF ScanInv
<1>12. CASE (v.kind # "allowed" \/ at = SgIngress) /\ Return(finish(steps'))
  <2>1. at' = Done /\ finding' = finish(steps')
    BY <1>12 DEF Return
  <2>2. v.kind \in {"allowed", "denied", "indeterminate"}
    BY DEF Verdict
  <2>3. /\ v.kind = "allowed" => finding' = Reachable
        /\ v.kind = "denied" => finding' = NotReachable
        /\ v.kind = "indeterminate" => finding' = IndeterminateAt({at})
    BY <1>5, <1>6, <1>9, <2>1, FinishLast
  <2>4. EvidenceExplains'
    BY <1>1, <1>5, <1>6, <1>7, <1>9, <1>12, <2>1, <2>3 DEF EvidenceExplains
  <2>5. Promised(candidate, finding')
    <3>1. CASE v.kind = "allowed"
      <4>1. at = 4
        BY <1>12, <3>1
      <4>2. \A l \in Layer : LayerVerdict(candidate, l) = "allowed"
        <5> SUFFICES ASSUME NEW l \in Layer PROVE LayerVerdict(candidate, l) = "allowed"
          OBVIOUS
        <5>1. l = at \/ l \in 1 .. at - 1
          BY <4>1
        <5>2. QED
          BY <1>10, <3>1, <5>1
      <4>3. QED
        BY <1>1, <2>3, <3>1, <4>2 DEF Promised
    <3>2. CASE v.kind # "allowed"
      <4>1. FirstObstacle(candidate, at)
        BY <1>10, <3>2 DEF FirstObstacle
      <4>2. QED
        BY <1>1, <2>2, <2>3, <3>2, <4>1 DEF Promised
    <3>3. QED
      BY <3>1, <3>2
  <2>6. QED
    BY <1>7, <1>8, <2>1, <2>4, <2>5 DEF ScanInv
<1>13. QED
  BY <1>11, <1>12 DEF Conclude

-----------------------------------------------------------------------------
(* The invariant *)

LEMMA InitScan == Init => ScanInv
BY DEF Init, ScanInv, EvidenceSound, EvidenceExplains, Start, Done, Layer, Pending

LEMMA NextScan == TypeOK /\ ScanInv /\ [Next]_vars => ScanInv'
<1> SUFFICES ASSUME TypeOK, ScanInv, [Next]_vars PROVE ScanInv'
  OBVIOUS
<1> USE DEF Layer, Start, Done
<1>1. candidate \in PathCandidates
  BY CandidatesAssumption DEF TypeOK
<1>2. CASE NoRoute
  <2>1. /\ at = Start /\ at' = Done /\ steps' = <<>> /\ candidate' = candidate
        /\ ~candidate.route_exists /\ finding' = NotReachable
    BY <1>2 DEF NoRoute, Return, ScanInv, finish_with, severity_for, NotReachable
  <2>2. EvidenceSound' /\ EvidenceExplains'
    BY <2>1 DEF EvidenceSound, EvidenceExplains
  <2>3. Promised(candidate, finding')
    BY <2>1 DEF Promised
  <2>4. QED
    BY <2>1, <2>2, <2>3 DEF ScanInv
<1>3. CASE BeginLayers
  <2>1. /\ at = Start /\ at' = SgEgress /\ steps' = <<>> /\ candidate' = candidate
        /\ candidate.route_exists /\ finding' = Pending
        /\ unseen' = InDirection(candidate', at') /\ outcome' = NoMatchingRule
    BY <1>3 DEF BeginLayers, Enter, ScanInv
  <2>2. EvidenceSound' /\ EvidenceExplains'
    BY <2>1 DEF EvidenceSound, EvidenceExplains, SgEgress
  <2>3. LayerInv'
    BY <2>1, LoopStarts DEF LayerInv, SgEgress
  <2>4. QED
    BY <2>1, <2>2, <2>3 DEF ScanInv, SgEgress
<1>4. CASE FoldRule
  <2>1. at \in Layer /\ IsSg(at)
    BY <1>4 DEF FoldRule, IsSg, SgEgress, SgIngress
  <2>2. UNCHANGED <<candidate, at, steps, finding>>
    BY <1>4 DEF FoldRule
  <2>3. FoldInv'
    BY <1>4, <2>1, FoldStep DEF ScanInv, LayerInv
  <2>4. LayerInv'
    BY <2>1, <2>2, <2>3 DEF ScanInv, LayerInv
  <2>5. EvidenceSound' /\ EvidenceExplains'
    BY <2>2 DEF ScanInv, EvidenceSound, EvidenceExplains
  <2>6. QED
    BY <2>1, <2>2, <2>4, <2>5 DEF ScanInv
<1>5. CASE ReturnOutcome
  <2>1. at \in Layer /\ IsSg(at) /\ unseen = {} /\ Conclude(outcome)
    BY <1>5 DEF ReturnOutcome, IsSg, SgEgress, SgIngress
  <2>2. outcome.kind = LayerVerdict(candidate, at) /\ Cites(candidate, at, outcome)
    BY <2>1, FoldReturns DEF ScanInv, LayerInv
  <2>3. QED
    BY <2>1, <2>2, ConcludeStep DEF TypeOK
<1>6. CASE SkipRule
  <2>1. at \in Layer /\ ~IsSg(at)
    BY <1>6 DEF SkipRule, IsSg, SgEgress, NaclEgress, NaclIngress, SgIngress
  <2>2. UNCHANGED <<candidate, at, steps, finding>>
    BY <1>6 DEF SkipRule
  <2>3. SearchInv'
    BY <1>6, <2>1, SearchStep DEF ScanInv, LayerInv
  <2>4. LayerInv'
    BY <2>1, <2>2, <2>3 DEF ScanInv, LayerInv
  <2>5. EvidenceSound' /\ EvidenceExplains'
    BY <2>2 DEF ScanInv, EvidenceSound, EvidenceExplains
  <2>6. QED
    BY <2>1, <2>2, <2>4, <2>5 DEF ScanInv
<1>7. CASE FirstMatch
  <2>1. at \in Layer /\ ~IsSg(at)
    BY <1>7 DEF FirstMatch, IsSg, SgEgress, NaclEgress, NaclIngress, SgIngress
  <2>2. PICK i \in unseen :
          LET rule == Rules(candidate, at)[i] IN
          /\ IsNext(i)
          /\ rule_matches(rule, candidate.traffic)
          /\ Conclude(IF rule.action = "allow" THEN Allowed(rule.rule_number)
                                               ELSE ExplicitDeny(rule.rule_number))
    BY <1>7 DEF FirstMatch
  <2> DEFINE rule == Rules(candidate, at)[i]
             v == IF rule.action = "allow" THEN Allowed(rule.rule_number)
                                           ELSE ExplicitDeny(rule.rule_number)
  <2>3. Decides(candidate, at, i)
    BY <2>1, <2>2, FirstMatchDecides DEF ScanInv, LayerInv
  <2>4. v.kind = LayerVerdict(candidate, at) /\ Cites(candidate, at, v)
    BY <1>1, <2>1, <2>3, DecidesReturns
  <2>5. rule \in NaclRule
    BY <1>1, <2>1, <2>3, RulesType DEF Decides
  <2>6. rule.rule_number \in Nat
    BY <2>5 DEF NaclRule
  <2>7. v \in Verdict
    BY <2>6 DEF Allowed, ExplicitDeny, Verdict
  <2>8. Conclude(v)
    BY <2>2
  <2> HIDE DEF v
  <2>9. QED
    BY <2>1, <2>4, <2>7, <2>8, ConcludeStep
<1>8. CASE ImplicitDeny
  <2>1. at \in Layer /\ ~IsSg(at) /\ unseen = {} /\ Conclude(NoMatchingRule)
    BY <1>8 DEF ImplicitDeny, IsSg, SgEgress, NaclEgress, NaclIngress, SgIngress
  <2>2. /\ NoMatchingRule.kind = LayerVerdict(candidate, at)
        /\ Cites(candidate, at, NoMatchingRule)
    BY <2>1, FallThroughReturns DEF ScanInv, LayerInv
  <2>3. NoMatchingRule \in Verdict
    BY DEF NoMatchingRule, Verdict
  <2>4. QED
    BY <2>1, <2>2, <2>3, ConcludeStep
<1>9. CASE UNCHANGED vars
  BY <1>9 DEF vars, ScanInv, EvidenceSound, EvidenceExplains, LayerInv,
    FoldInv, SearchInv, Seen
<1>10. QED
  BY <1>2, <1>3, <1>4, <1>5, <1>6, <1>7, <1>8, <1>9 DEF Next

\* The inductive invariant holds throughout: at each point of the loops the
\* accumulators sum up the rules visited (engine.rs, evaluate_candidate).
THEOREM ScanCorrect == Spec => [](TypeOK /\ ScanInv)
<1>1. Init => TypeOK /\ ScanInv
  BY InitType, InitScan
<1>2. TypeOK /\ ScanInv /\ [Next]_vars => (TypeOK /\ ScanInv)'
  BY NextType, NextScan
<1>3. QED
  BY <1>1, <1>2, PTL DEF Spec

\* Every step of the evidence holds the verdict its layer's rules give and
\* cites the rule that decided it, for any rules in any order (sg.rs,
\* nacl.rs, path.rs).
THEOREM EvidenceIsSound == Spec => []EvidenceSound
<1>1. TypeOK /\ ScanInv => EvidenceSound
  BY DEF ScanInv
<1>2. QED
  BY <1>1, ScanCorrect, PTL

\* The evidence accounts for the finding (engine.rs, combine_verdicts).
THEOREM EvidenceIsComplete == Spec => []EvidenceExplains
<1>1. TypeOK /\ ScanInv => EvidenceExplains
  BY DEF ScanInv
<1>2. QED
  BY <1>1, ScanCorrect, PTL

\* The engine, rule by rule, reports only the finding the four rule sets
\* promise: every step is the judgement of Reachability or changes nothing.
THEOREM RefinesReachability == Spec => Promise!Safety
<1>1. Init => Promise!Init
  BY DEF Init, Promise!Init, Pending
<1>2. TypeOK /\ ScanInv /\ (TypeOK /\ ScanInv)' /\ [Next]_vars
        => [Promise!Judge]_(Promise!vars)
  <2> SUFFICES ASSUME TypeOK, ScanInv, TypeOK', ScanInv', [Next]_vars,
                      ~UNCHANGED <<candidate, finding>>
               PROVE  Promise!Judge
    BY DEF Promise!vars
  <2>1. candidate' = candidate
    BY DEF Next, NoRoute, BeginLayers, FoldRule, ReturnOutcome, SkipRule,
      FirstMatch, ImplicitDeny, Conclude, vars
  <2>2. at \in Start .. Done - 1 /\ at' = Done
    <3>1. ASSUME NEW v, Conclude(v) PROVE at' = Done
      BY <2>1, <3>1 DEF Conclude, Return
    <3>2. NoRoute \/ ReturnOutcome \/ FirstMatch \/ ImplicitDeny
      BY <2>1 DEF Next, BeginLayers, FoldRule, SkipRule, vars
    <3>3. at' = Done
      BY <3>1, <3>2 DEF NoRoute, ReturnOutcome, FirstMatch, ImplicitDeny, Return
    <3>4. at \in Start .. Done - 1
      BY <3>2 DEF NoRoute, ReturnOutcome, FirstMatch, ImplicitDeny, Start, Done,
        SgEgress, NaclEgress, NaclIngress, SgIngress
    <3>5. QED
      BY <3>3, <3>4
  <2>3. finding = Pending
    BY <2>2 DEF ScanInv, LayerInv, Layer, Start, Done
  <2>4. Promised(candidate, finding')
    BY <2>1, <2>2 DEF ScanInv
  <2>5. finding' \in Judgements
    BY <2>4 DEF Promised, Judgements
  <2>6. QED
    BY <2>1, <2>3, <2>4, <2>5 DEF Promise!Judge
<1>3. QED
  BY <1>1, <1>2, ScanCorrect, PTL DEF Spec, Promise!Safety
-----------------------------------------------------------------------------
(* The rules that the engine is given, and how they match *)

\* EC2's port fields are optional numbers.
PortsTyped ==
  /\ MaxU16 \in Nat /\ None \notin [from : Int, to : Int]
  /\ \A g \in ToSet(Groups(raw)) : \A p \in ToSet(g.ingress) \cup ToSet(g.egress) :
       {p.from_port, p.to_port} \subseteq Int \cup {None}

\* Of a mapped permission: the range lets through what the two numbers say, and
\* no more than that unless they are an ICMP type and a code.
LEMMA RangeSaysTheSame ==
  ASSUME MaxU16 \in Nat, None \notin [from : Int, to : Int], NEW p, PermissionMaps(p),
         Numbers(p) \subseteq Int \cup {None}, MeansSomething(p), NEW x \in 0..MaxU16, NEW code \in 0..MaxU16,
         NEW e, e.match[2] = build_port_range(OrAll(p.protocol), p.from_port, p.to_port)
  PROVE  /\ Says(p, x, code) => Lets(e, p, x, code)
         /\ Lets(e, p, x, code) => Says(p, x, code) \/ TypeAndCode(p)
<1> DEFINE from == p.from_port
           to == p.to_port
           low == IF from < 0 THEN to ELSE from
           high == IF to < 0 THEN from ELSE to
           n == IF from < 0 THEN code ELSE x
           ports == build_port_range(OrAll(p.protocol), from, to)
           all == p.protocol \in {None, "-1"} \/ None \in Numbers(p)
<1>1. e.match[2] = ports /\ ports # Malformed
  BY DEF PermissionMaps
<1>2. OrAll(p.protocol) = "-1" <=> p.protocol \in {None, "-1"}
  BY DEF OrAll
<1>3. None \in Numbers(p) <=> from = None \/ to = None
  BY DEF Numbers
<1>4. CASE all
  <2>1. ports = None
    BY <1>2, <1>3, <1>4 DEF build_port_range
  <2>2. Lets(e, p, x, code) /\ Says(p, x, code)
    BY <1>1, <1>4, <2>1 DEF Lets, Says
  <2> QED BY <2>2
<1>5. CASE ~all
  <2>1. from \in Int /\ to \in Int
    BY <1>3, <1>5 DEF Numbers
  <2>2. CASE from < 0 /\ to < 0
    <3>1. ports = None
      BY <1>2, <1>3, <1>5, <2>2 DEF build_port_range
    <3>2. Lets(e, p, x, code)
      BY <1>1, <3>1 DEF Lets
    <3>3. Says(p, x, code)
      BY <1>5, <2>1, <2>2 DEF Says
    <3> QED BY <3>2, <3>3
  <2>3. CASE ~(from < 0 /\ to < 0)
    <3>1. ports = [from |-> low, to |-> high] /\ low <= high
      BY <1>1, <1>2, <1>3, <1>5, <2>1, <2>3 DEF build_port_range
    <3>2. ports # None /\ ports.from = low /\ ports.to = high
      BY <2>1, <3>1
    <3>3. Lets(e, p, x, code) <=> low <= n /\ n <= high
      BY <1>1, <3>2 DEF Lets
    <3>4. CASE p.protocol \in Icmp
      <4>1. Says(p, x, code) <=> (from < 0 \/ x = from) /\ (to < 0 \/ code = to)
        BY <1>5, <3>4 DEF Says
      <4>2. TypeAndCode(p) <=> from >= 0 /\ to >= 0
        BY <1>3, <1>5, <3>4 DEF TypeAndCode
      <4>3. x \in Int /\ code \in Int
        OBVIOUS
      <4>4. Says(p, x, code) => low <= n /\ n <= high
        BY <2>1, <2>3, <3>1, <4>1, <4>3
      <4>5. low <= n /\ n <= high => Says(p, x, code) \/ TypeAndCode(p)
        BY <2>1, <2>3, <3>1, <4>1, <4>2, <4>3
      <4> QED BY <3>3, <4>4, <4>5
    <3>5. CASE p.protocol \notin Icmp
      <4>1. Says(p, x, code) <=> from <= x /\ x <= to
        BY <1>5, <2>3, <3>5 DEF Says
      <4>2. from >= 0 /\ to >= 0
        BY <1>5, <2>1, <2>3, <3>5 DEF MeansSomething
      <4>3. low = from /\ high = to /\ n = x
        BY <2>1, <4>2
      <4> QED BY <3>3, <4>1, <4>3
    <3> QED BY <3>4, <3>5
  <2> QED BY <2>2, <2>3
<1> QED BY <1>4, <1>5

LEMMA RuleStandsFor ==
  ASSUME MaxU16 \in Nat, None \notin [from : Int, to : Int],
         NEW p, PermissionMaps(p), {p.from_port, p.to_port} \subseteq Int \cup {None},
         NEW type, NEW g, NEW e, IsRuleOf(e, p, type, g.id)
  PROVE  StandsFor(e, p, g, type)
<1> DEFINE ports == build_port_range(OrAll(p.protocol), p.from_port, p.to_port)
<1>1. PICK kind, to, resolved :
        e = PermissionRule(p, type, g.id, kind, to, resolved) /\ <<kind, to, resolved>> \in TargetsOf(p)
  <2>1. CASE \E r \in ToSet(p.ranges) : e = PermissionRule(p, type, g.id, "cidr", r, TRUE)
    <3>1. PICK r \in ToSet(p.ranges) : e = PermissionRule(p, type, g.id, "cidr", r, TRUE)
      BY <2>1
    <3>2. <<"cidr", r, TRUE>> \in TargetsOf(p)
      BY DEF TargetsOf
    <3> QED BY <3>1, <3>2
  <2>2. CASE \E pair \in ToSet(p.pairs) :
               e = PermissionRule(p, type, g.id, "security_group_ref", pair.group, OwnGroup(pair))
    <3>1. PICK pair \in ToSet(p.pairs) :
            e = PermissionRule(p, type, g.id, "security_group_ref", pair.group, OwnGroup(pair))
      BY <2>2
    <3>2. <<"security_group_ref", pair.group, OwnGroup(pair)>> \in TargetsOf(p)
      BY DEF TargetsOf, OwnGroup
    <3> QED BY <3>1, <3>2
  <2> QED BY <2>1, <2>2 DEF IsRuleOf
<1>2. /\ e.type = type /\ e.from = g.id /\ e.match = <<OrAll(p.protocol), ports>>
      /\ e.kind = kind /\ e.to = to /\ e.resolved = resolved
  BY <1>1 DEF PermissionRule
<1>3. e.match[2] = ports
  BY <1>2
<1>4. e.match[1] = IF p.protocol = None THEN "-1" ELSE p.protocol
  BY <1>2 DEF OrAll
<1>5. ASSUME MeansSomething(p), NEW x \in 0..MaxU16, NEW code \in 0..MaxU16
      PROVE  /\ Says(p, x, code) => Lets(e, p, x, code)
             /\ Lets(e, p, x, code) => Says(p, x, code) \/ TypeAndCode(p)
  <2>1. Numbers(p) \subseteq Int \cup {None}
    BY DEF Numbers
  <2> QED BY <1>3, <1>5, <2>1, RangeSaysTheSame
<1> QED BY <1>1, <1>2, <1>4, <1>5 DEF StandsFor

LEMMA TargetHasRule ==
  ASSUME NEW p, NEW type, NEW id, NEW t \in TargetsOf(p)
  PROVE  \E e : IsRuleOf(e, p, type, id) /\ <<e.kind, e.to, e.resolved>> = t
<1>1. \A kind, to, resolved :
        LET e == PermissionRule(p, type, id, kind, to, resolved) IN
        e.kind = kind /\ e.to = to /\ e.resolved = resolved
  BY DEF PermissionRule
<1>2. CASE \E c \in ToSet(p.ranges) : t = <<"cidr", c, TRUE>>
  <2>1. PICK c \in ToSet(p.ranges) : t = <<"cidr", c, TRUE>>
    BY <1>2
  <2> DEFINE e == PermissionRule(p, type, id, "cidr", c, TRUE)
  <2>2. IsRuleOf(e, p, type, id)
    BY DEF IsRuleOf
  <2>3. e.kind = "cidr" /\ e.to = c /\ e.resolved = TRUE
    BY DEF PermissionRule
  <2> HIDE DEF e
  <2>4. <<e.kind, e.to, e.resolved>> = t
    BY <2>1, <2>3
  <2> QED BY <2>2, <2>4
<1>3. CASE \E q \in ToSet(p.pairs) : t = <<"security_group_ref", q.group, q.owner \in {None, AccountId}>>
  <2>1. PICK q \in ToSet(p.pairs) : t = <<"security_group_ref", q.group, q.owner \in {None, AccountId}>>
    BY <1>3
  <2> DEFINE e == PermissionRule(p, type, id, "security_group_ref", q.group, OwnGroup(q))
  <2>2. IsRuleOf(e, p, type, id)
    BY DEF IsRuleOf
  <2>3. <<e.kind, e.to, e.resolved>> = t
    BY <1>1, <2>1 DEF OwnGroup
  <2> QED BY <2>2, <2>3
<1> QED BY <1>2, <1>3 DEF TargetsOf

\* Of any account's groups, each rule of the batch stands for a permission, with
\* its protocol, and each range and group of a permission has its rule: what the
\* engine is given lets through what EC2 says, and no more but for ICMP
\* permissions that give a type and a code (map/sg.rs, map/mod.rs).
THEOREM PermissionsAreKept == IsRaw(raw) /\ PortsTyped => PermissionsKeepTheirMeaning
<1> DEFINE rules == {e \in ToSet(Batch.edges) : IsSgRule(e)}
           types == {"ALLOWS_INGRESS", "ALLOWS_EGRESS"}
<1> SUFFICES ASSUME IsRaw(raw), PortsTyped, BatchMaps(raw)
             PROVE  /\ \A g \in ToSet(Groups(raw)), type \in types : \A p \in PermissionsOf(g, type) :
                         \A t \in TargetsOf(p) :
                           \E e \in rules : StandsFor(e, p, g, type) /\ <<e.kind, e.to, e.resolved>> = t
                    /\ \A e \in rules : \E g \in ToSet(Groups(raw)), type \in types :
                         \E p \in PermissionsOf(g, type) : StandsFor(e, p, g, type)
  BY DEF PermissionsKeepTheirMeaning
<1>1. \A e : e \in rules <=> \E g \in ToSet(Groups(raw)) : IsRuleOfGroup(e, g)
  BY RulesAreThePermissions DEF Batch
<1> HIDE DEF rules
<1>2. \A e, g : IsRuleOfGroup(e, g) <=> \E type \in types : \E p \in PermissionsOf(g, type) : IsRuleOf(e, p, type, g.id)
  BY DEF IsRuleOfGroup, PermissionsOf
<1>3. ASSUME NEW g \in ToSet(Groups(raw)), NEW type \in types, NEW p \in PermissionsOf(g, type),
             NEW e, IsRuleOf(e, p, type, g.id)
      PROVE  StandsFor(e, p, g, type)
  <2>1. p \in ToSet(g.ingress) \cup ToSet(g.egress)
    BY <1>3 DEF PermissionsOf
  <2>2. PermissionMaps(p)
    BY <2>1 DEF BatchMaps, Groups, Kinds
  <2>3. {p.from_port, p.to_port} \subseteq Int \cup {None} /\ MaxU16 \in Nat /\ None \notin [from : Int, to : Int]
    BY <2>1 DEF PortsTyped
  <2> QED BY <1>3, <2>2, <2>3, RuleStandsFor
<1>4. ASSUME NEW g \in ToSet(Groups(raw)), NEW type \in types, NEW p \in PermissionsOf(g, type), NEW t \in TargetsOf(p)
      PROVE  \E e \in rules : StandsFor(e, p, g, type) /\ <<e.kind, e.to, e.resolved>> = t
  <2>1. PICK e : IsRuleOf(e, p, type, g.id) /\ <<e.kind, e.to, e.resolved>> = t
    BY TargetHasRule
  <2>2. e \in rules
    BY <1>1, <1>2, <2>1
  <2> QED BY <1>3, <2>1, <2>2
<1>5. ASSUME NEW e \in rules
      PROVE  \E g \in ToSet(Groups(raw)), type \in types : \E p \in PermissionsOf(g, type) : StandsFor(e, p, g, type)
  <2>1. PICK g \in ToSet(Groups(raw)), type \in types : \E p \in PermissionsOf(g, type) : IsRuleOf(e, p, type, g.id)
    BY <1>1, <1>2
  <2> QED BY <1>3, <2>1
<1> QED BY <1>4, <1>5

\* Whatever the tables and peerings of an account are, its routes stay in it.
THEOREM RoutesAreKept == IsRaw(raw) => RoutesStayInAccount
BY RoutesLeadHome DEF RoutesStayInAccount, Batch

\* For any CIDR, ports and flow.
THEOREM AllProtocolsIsTheBroadest == RulesSpec => []AllProtocolsIsBroadest
<1>1. AllProtocolsIsBroadest
  BY DEF AllProtocolsIsBroadest, rule_matches, Applies, rule_protocol_matches
<1> QED BY <1>1, PTL
-----------------------------------------------------------------------------
(* Masks and bits *)

\* What the provers do not know of powers.
PowersOfTwo == 2 ^ 0 = 1 /\ \A n \in Nat : 2 ^ n \in Nat \ {0} /\ 2 ^ (n + 1) = 2 * 2 ^ n

LEMMA DivMod == \A x, P \in Int : P > 0 => x % P = x - P * (x \div P)
OBVIOUS

LEMMA Euclid ==
  ASSUME NEW x \in Nat, NEW P \in Nat \ {0}
  PROVE  \E q \in Nat, r \in 0..P - 1 : q = x \div P /\ r = x % P /\ x = P * q + r
<1> DEFINE q == x \div P
           r == x % P
<1>1. x \in Int /\ P \in Int /\ P > 0
  OBVIOUS
<1>2. x % P = x - P * (x \div P)
  BY <1>1, DivMod
<1>3. r \in 0..P - 1 /\ q \in Int
  OBVIOUS
<1>4. r = x - P * q
  BY <1>2
<1> HIDE DEF q, r
<1>5. P * q \in Int
  BY <1>1, <1>3
<1>6. x = P * q + r
  BY <1>1, <1>3, <1>4, <1>5
<1>7. q >= 0
  BY <1>1, <1>3, <1>6
<1>8. q \in Nat
  BY <1>3, <1>7
<1> QED BY <1>3, <1>6, <1>8 DEF q, r

LEMMA Mult ==
  ASSUME NEW q \in Int, NEW p \in Int, NEW M \in Nat \ {0}, q < p
  PROVE  M * q + M <= M * p
<1>1. q + 1 <= p
  OBVIOUS
<1>2. M * (q+1) <= M * p
  BY <1>1
<1> QED BY <1>2

LEMMA Unique ==
  ASSUME NEW M \in Nat \ {0}, NEW q \in Nat, NEW r \in 0..M - 1, NEW p \in Nat, NEW s \in 0..M - 1,
         M * q + r = M * p + s
  PROVE  q = p
<1>1. ~(q < p)
  BY Mult
<1>2. ~(p < q)
  BY Mult
<1> QED BY <1>1, <1>2

LEMMA Half ==
  ASSUME NEW x \in Nat, NEW P \in Nat \ {0}
  PROVE  x \div (2 * P) = (x \div P) \div 2
<1> DEFINE q == x \div P
           h == q \div 2
           s == q % 2
           r == x % P
           M == 2 * P
<1>1. x = P * q + r /\ r \in 0..P - 1 /\ q \in Nat
  BY Euclid
<1> HIDE DEF q, r
<1>2. q = 2 * h + s /\ s \in 0..1 /\ h \in Nat
  BY <1>1
<1> HIDE DEF h, s
<1>3. P * (2 * h + s) = M * h + P * s
  BY <1>2
<1>4. P * s + r \in 0..M-1
  <2>1. s = 0 \/ s = 1
    BY <1>2
  <2> QED BY <1>1, <2>1
<1>5. x = M * h + (P * s + r)
  BY <1>1, <1>2, <1>3
<1> DEFINE y == x \div M
           t == x % M
           u == P * s + r
<1>6. M \in Nat \ {0}
  OBVIOUS
<1> HIDE DEF M
<1>7. x = M * y + t /\ t \in 0..M-1 /\ y \in Nat
  BY <1>6, Euclid
<1> HIDE DEF y, t, u
<1>8. u \in 0..M-1 /\ x = M * h + u
  BY <1>4, <1>5 DEF u
<1>9. y = h
  BY <1>2, <1>6, <1>7, <1>8, Unique
<1> QED BY <1>9 DEF y, M, h, q

Quot(x, b) == x \div (2 ^ b)

LEMMA QuotStep ==
  ASSUME PowersOfTwo, NEW x \in Nat, NEW b \in Nat
  PROVE  /\ Quot(x, b) \in Nat /\ Quot(x, b + 1) \in Nat
         /\ Bit(x, b) \in 0..1 /\ Quot(x, b) = 2 * Quot(x, b + 1) + Bit(x, b)
<1> DEFINE P == 2 ^ b
           M == 2 ^ (b + 1)
<1>1. P \in Nat \ {0} /\ M \in Nat \ {0} /\ M = 2 * P
  BY DEF PowersOfTwo
<1> HIDE DEF P, M
<1>2. x \div P \in Nat
  BY <1>1, Euclid
<1>3. x \div M \in Nat
  BY <1>1, Euclid
<1>4. x \div M = (x \div P) \div 2
  BY <1>1, Half
<1> DEFINE q == x \div P
<1>5. q \in Nat
  BY <1>2
<1> HIDE DEF q
<1>6. (q % 2) \in 0..1 /\ q = 2 * (q \div 2) + (q % 2)
  <2>1. PICK h \in Nat, s \in 0..2 - 1 : h = q \div 2 /\ s = q % 2 /\ q = 2 * h + s
    BY <1>5, Euclid
  <2> QED BY <2>1
<1>7. Quot(x, b) = q /\ Quot(x, b + 1) = q \div 2 /\ Bit(x, b) = q % 2
  BY <1>4 DEF Quot, Bit, q, P, M
<1> QED BY <1>3, <1>4, <1>5, <1>6, <1>7 DEF q

LEMMA QuotTop ==
  ASSUME PowersOfTwo, NEW w \in Nat, NEW x \in 0..2 ^ w - 1
  PROVE  Quot(x, w) = 0
<1> DEFINE P == 2 ^ w
<1>1. P \in Nat \ {0}
  BY DEF PowersOfTwo
<1>2. x \in 0..P - 1
  OBVIOUS
<1> HIDE DEF P
<1>3. PICK q \in Nat, r \in 0..P - 1 : q = x \div P /\ r = x % P /\ x = P * q + r
  BY <1>1, <1>2, Euclid
<1>4. P * q + r = P * 0 + x
  BY <1>1, <1>2, <1>3
<1>5. q = 0
  BY <1>1, <1>2, <1>3, <1>4, Unique
<1> QED BY <1>3, <1>5 DEF Quot, P

LEMMA SameMask ==
  ASSUME PowersOfTwo, NEW x \in Nat, NEW y \in Nat, NEW k \in Nat
  PROVE  Masked(x, k) = Masked(y, k) <=> Quot(x, k) = Quot(y, k)
<1> DEFINE P == 2 ^ k
<1>1. P \in Nat \ {0}
  BY DEF PowersOfTwo
<1> HIDE DEF P
<1>2. PICK q \in Nat, r \in 0..P - 1 : q = x \div P /\ r = x % P /\ x = P * q + r
  BY <1>1, Euclid
<1>3. PICK p \in Nat, s \in 0..P - 1 : p = y \div P /\ s = y % P /\ y = P * p + s
  BY <1>1, Euclid
<1>4. Quot(x, k) = q /\ Quot(y, k) = p
  BY <1>2, <1>3 DEF Quot, P
<1>5. Masked(x, k) = x - r /\ Masked(y, k) = y - s
  BY <1>2, <1>3 DEF Masked, P
<1>6. P * q \in Int /\ P * p \in Int
  BY <1>1
<1>7. Masked(x, k) = P * q /\ Masked(y, k) = P * p
  BY <1>2, <1>3, <1>5, <1>6
<1>8. P * q = P * p => q = p
  <2>1. 0 \in 0..P - 1
    BY <1>1
  <2>2. P * q = P * p => P * q + 0 = P * p + 0
    BY <1>6
  <2> QED BY <1>1, <2>1, <2>2, Unique
<1> QED BY <1>4, <1>7, <1>8

\* Two numbers agree above bit k exactly when they agree in every bit from k on.
LEMMA SameBits ==
  ASSUME PowersOfTwo, NEW w \in Nat, NEW k \in 0..w, NEW x \in 0..2 ^ w - 1, NEW y \in 0..2 ^ w - 1
  PROVE  Quot(x, k) = Quot(y, k) <=> \A b \in k..w - 1 : Bit(x, b) = Bit(y, b)
<1> DEFINE n == w - k + 1
<1>1. x \in Nat /\ y \in Nat /\ k \in Nat /\ n \in Nat /\ n > 0
  BY DEF PowersOfTwo
<1>2. \A b \in Nat : Quot(x, b) = Quot(y, b)
                         <=> Quot(x, b + 1) = Quot(y, b + 1) /\ Bit(x, b) = Bit(y, b)
  <2> SUFFICES ASSUME NEW b \in Nat
               PROVE  Quot(x, b) = Quot(y, b)
                      <=> Quot(x, b + 1) = Quot(y, b + 1) /\ Bit(x, b) = Bit(y, b)
    OBVIOUS
  <2>1. /\ Quot(x, b) \in Nat /\ Quot(x, b + 1) \in Nat
        /\ Bit(x, b) \in 0..1 /\ Quot(x, b) = 2 * Quot(x, b + 1) + Bit(x, b)
    BY <1>1, QuotStep
  <2>2. /\ Quot(y, b) \in Nat /\ Quot(y, b + 1) \in Nat
        /\ Bit(y, b) \in 0..1 /\ Quot(y, b) = 2 * Quot(y, b + 1) + Bit(y, b)
    BY <1>1, QuotStep
  <2> DEFINE q == Quot(x, b)
             h == Quot(x, b + 1)
             s == Bit(x, b)
             p == Quot(y, b)
             g == Quot(y, b + 1)
             t == Bit(y, b)
  <2>3. /\ q \in Nat /\ h \in Nat /\ s \in 0..1 /\ q = 2 * h + s
        /\ p \in Nat /\ g \in Nat /\ t \in 0..1 /\ p = 2 * g + t
    BY <2>1, <2>2
  <2> HIDE DEF q, h, s, p, g, t
  <2>4. q = p <=> h = g /\ s = t
    BY <2>3
  <2> QED BY <2>4 DEF q, h, s, p, g, t
<1>3. ASSUME Quot(x, k) = Quot(y, k), NEW c \in k..w - 1
      PROVE  Bit(x, c) = Bit(y, c)
  <2> DEFINE Good == {m \in 1..n : Quot(x, k + m - 1) = Quot(y, k + m - 1)}
  <2>1. 1 \in Good
    <3>1. k + 1 - 1 = k /\ 1 \in 1..n
      BY <1>1
    <3> QED BY <1>3, <3>1
  <2>2. ASSUME NEW m \in 1..n, m < n, m \in Good PROVE m + 1 \in Good
    <3>1. k + m - 1 \in Nat /\ k + (m + 1) - 1 = (k + m - 1) + 1 /\ m + 1 \in 1..n
      BY <1>1, <2>2
    <3>2. Quot(x, k + m - 1) = Quot(y, k + m - 1)
      BY <2>2
    <3>3. Quot(x, (k + m - 1) + 1) = Quot(y, (k + m - 1) + 1)
      BY <1>2, <3>1, <3>2
    <3> QED BY <3>1, <3>3
  <2> HIDE DEF Good
  <2>3. 1..n \subseteq Good
    BY <1>1, <2>1, <2>2, Positions
  <2>4. c \in Nat /\ c - k + 1 \in 1..n /\ k + (c - k + 1) - 1 = c
    BY <1>1
  <2>5. Quot(x, c) = Quot(y, c)
    BY <2>3, <2>4 DEF Good
  <2> QED BY <1>2, <2>4, <2>5
<1>4. ASSUME \A b \in k..w - 1 : Bit(x, b) = Bit(y, b)
      PROVE  Quot(x, k) = Quot(y, k)
  <2> DEFINE Good == {m \in 1..n : Quot(x, w - m + 1) = Quot(y, w - m + 1)}
  <2>1. 1 \in Good
    <3>1. w - 1 + 1 = w /\ 1 \in 1..n
      BY <1>1
    <3>2. Quot(x, w) = 0 /\ Quot(y, w) = 0
      BY QuotTop
    <3> QED BY <3>1, <3>2
  <2>2. ASSUME NEW m \in 1..n, m < n, m \in Good PROVE m + 1 \in Good
    <3>1. /\ w - m \in Nat /\ w - m \in k..w - 1 /\ w - (m + 1) + 1 = w - m
          /\ w - m + 1 = (w - m) + 1 /\ m + 1 \in 1..n
      BY <1>1, <2>2
    <3>2. Quot(x, (w - m) + 1) = Quot(y, (w - m) + 1)
      BY <2>2, <3>1
    <3>3. Quot(x, w - m) = Quot(y, w - m)
      BY <1>2, <1>4, <3>1, <3>2
    <3> QED BY <3>1, <3>3
  <2> HIDE DEF Good
  <2>3. 1..n \subseteq Good
    BY <1>1, <2>1, <2>2, Positions
  <2>4. n \in 1..n /\ w - n + 1 = k
    BY <1>1
  <2> QED BY <2>3, <2>4 DEF Good
<1> QED BY <1>3, <1>4

MatchType == cidr \in Cidrs /\ traffic.peer_address \in Addresses

LEMMA MatchTypeCorrect ==
  ASSUME PowersOfTwo PROVE RulesSpec => []MatchType
<1>1. \A f \in Family : Width(f) \in Nat /\ 0 \in Values(f)
  <2>1. \A f \in Family : Width(f) \in Nat
    BY WidthAssumption DEF Width
  <2>2. \A n \in Nat : 0 \in 0..2 ^ n - 1
    BY DEF PowersOfTwo
  <2> QED BY <2>1, <2>2 DEF Values
<1>2. RulesInit => MatchType
  <2> SUFFICES ASSUME RulesInit PROVE MatchType
    OBVIOUS
  <2>1. cidr \in Cidrs /\ traffic.peer_address = [family |-> cidr.family, value |-> 0]
    BY DEF RulesInit, MatchInit
  <2>2. cidr.family \in Family
    BY <2>1 DEF Cidrs
  <2>3. [family |-> cidr.family, value |-> 0] \in Addresses
    BY <1>1, <2>2 DEF Addresses
  <2> QED BY <2>1, <2>3 DEF MatchType
<1>3. MatchType /\ [Probe]_<<matchVars, raw>> => MatchType'
  <2> SUFFICES ASSUME MatchType, [Probe]_<<matchVars, raw>> PROVE MatchType'
    OBVIOUS
  <2>1. CASE ProbeFlow
    <3>1. cidr' = cidr /\ traffic'.peer_address \in Addresses
      BY <2>1 DEF ProbeFlow, MatchType
    <3> QED BY <3>1 DEF MatchType, Cidrs, Values, Addresses
  <2>2. CASE UNCHANGED matchVars
    BY <2>2 DEF matchVars, MatchType
  <2> QED BY <2>1, <2>2 DEF Probe, matchVars
<1> QED BY <1>2, <1>3, PTL DEF RulesSpec

\* The mask of a CIDR compares exactly the bits of its prefix, in an address
\* family of any width, at /0 and at the width as well (mod.rs, cidr_contains).
THEOREM ContainsIsPrefix ==
  ASSUME PowersOfTwo PROVE RulesSpec => []ContainsIsSharedPrefix
<1>1. MatchType => ContainsIsSharedPrefix
  <2> SUFFICES ASSUME MatchType PROVE ContainsIsSharedPrefix
    OBVIOUS
  <2> DEFINE f == cidr.family
             w == Width(f)
             p == cidr.prefix
             x == cidr.network
             a == traffic.peer_address
             y == a.value
  <2>1. f \in Family /\ w \in Nat /\ p \in Nat /\ x \in 0..2 ^ w - 1
    <3>1. PICK g \in Family : cidr \in [family : {g}, network : Values(g), prefix : 0 .. Width(g) + ExtraPrefix]
      BY DEF MatchType, Cidrs
    <3>2. Width(g) \in Nat
      BY WidthAssumption DEF Width
    <3>3. f = g /\ x \in Values(g) /\ p \in 0 .. Width(g) + ExtraPrefix
      BY <3>1
    <3> QED BY <3>2, <3>3, PrefixAssumption DEF Values
  <2>2. a.family = f => y \in 0..2 ^ w - 1
    BY DEF MatchType, Addresses, Values
  <2>3. cidr_contains(cidr, a) <=> f = a.family /\ p <= w /\ Masked(x, ClearedBits(w, p)) = Masked(y, ClearedBits(w, p))
    BY DEF cidr_contains
  <2>4. ContainsIsSharedPrefix <=> (cidr_contains(cidr, a) <=>
          f = a.family /\ p \in 0..w /\ \A b \in w - p..w - 1 : Bit(x, b) = Bit(y, b))
    BY DEF ContainsIsSharedPrefix
  <2> HIDE DEF f, w, p, x, a, y
  <2>5. ClearedBits(w, p) = w - p
    BY <2>1 DEF ClearedBits
  <2>6. ASSUME f = a.family, p <= w
        PROVE  Masked(x, w - p) = Masked(y, w - p) <=> \A b \in w - p..w - 1 : Bit(x, b) = Bit(y, b)
    <3>1. w - p \in 0..w /\ w - p \in Nat
      BY <2>1, <2>6
    <3>2. x \in 0..2 ^ w - 1 /\ y \in 0..2 ^ w - 1
      BY <2>1, <2>2, <2>6
    <3>3. x \in Nat /\ y \in Nat
      BY <2>1, <3>2 DEF PowersOfTwo
    <3> QED BY <2>1, <3>1, <3>2, <3>3, SameMask, SameBits
  <2>7. p <= w <=> p \in 0..w
    BY <2>1
  <2> QED BY <2>3, <2>4, <2>5, <2>6, <2>7
<1> QED BY <1>1, MatchTypeCorrect, PTL
=============================================================================
