----------------------------- MODULE Reachability -----------------------------
(***************************************************************************)
(* The engine seen from outside: a candidate goes in, and one judgement    *)
(* later its finding is there, the one Promised says, and stays.           *)
(***************************************************************************)
CONSTANTS
  Candidates,       \* the path candidates that may be evaluated
  Pending,          \* the finding before the judgement
  Judgements,       \* the findings it may be
  Promised(_, _)    \* Promised(c, f): f is the finding of candidate c

VARIABLES candidate, finding

vars == <<candidate, finding>>

Init == candidate \in Candidates /\ finding = Pending

Judge ==
  /\ finding = Pending
  /\ finding' \in Judgements
  /\ Promised(candidate, finding')
  /\ UNCHANGED candidate

Safety == Init /\ [][Judge]_vars
Spec == Safety /\ WF_vars(Judge)
=============================================================================
