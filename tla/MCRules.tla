------------------------------- MODULE MCRules -------------------------------
(***************************************************************************)
(* A rule's two lives, side by side: mapped from what EC2 lists, and       *)
(* matched against a flow.  The inputs of the two do not depend on each    *)
(* other; those of the mapping are tried beside one input of the matchers. *)
(***************************************************************************)
EXTENDS MCRuleMatching, MCMapping

RulesInit == MatchInit /\ MapInit

\* The one input of the matchers beside which the mapping's are tried.
Beside == EveryAddress /\ EveryFlow /\ traffic.peer_address = [family |-> "v4", value |-> 0]

Probe ==
  \/ ProbeFlow /\ raw = Nothing /\ UNCHANGED raw
  \/ Beside /\ ProbeInput /\ UNCHANGED matchVars

RulesSpec == RulesInit /\ [][Probe]_<<matchVars, raw>>
=============================================================================
