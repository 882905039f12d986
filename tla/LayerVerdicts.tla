---------------------------- MODULE LayerVerdicts ----------------------------
(***************************************************************************)
(* What the engine promises of one path candidate: the finding it reports, *)
(* as a function of the four rule sets, with no order of evaluation inside *)
(* a layer, no fold and no sort.                                           *)
(*                                                                         *)
(* A security group layer is an unordered union of allow rules; a network  *)
(* ACL layer is decided by the matching rule of lowest number; across      *)
(* layers, the first layer that does not allow decides.                    *)
(***************************************************************************)
EXTENDS PathCandidate

-----------------------------------------------------------------------------
(* One layer *)

\* Rule r certainly lets the flow of c through at security group layer l.
Grants(c, l, r) ==
  /\ Applies(r, c.traffic)
  /\ \/ /\ r.target.kind = "cidr"
        /\ cidr_contains(r.target.cidr, c.traffic.peer_address)
     \/ /\ r.target.kind = "security_group_ref"
        /\ r.resolved
        /\ r.target.group \in PeerGroups(c, l)

\* Rule r might let it through: it names a group nobody could resolve.
MightGrant(c, r) ==
  /\ Applies(r, c.traffic)
  /\ r.target.kind = "security_group_ref"
  /\ ~r.resolved

SgVerdict(c, l) ==
  IF \E i \in InDirection(c, l) : Grants(c, l, Rules(c, l)[i])
  THEN "allowed"
  ELSE IF \E i \in InDirection(c, l) : MightGrant(c, Rules(c, l)[i])
       THEN "indeterminate"
       ELSE "denied"

\* Rule i is the one that decides network ACL layer l.
Decides(c, l, i) ==
  /\ i \in InDirection(c, l)
  /\ rule_matches(Rules(c, l)[i], c.traffic)
  /\ \A j \in InDirection(c, l) \ {i} :
       rule_matches(Rules(c, l)[j], c.traffic) => Ahead(c, l, i, j)

NaclVerdict(c, l) ==
  IF \E i \in InDirection(c, l) :
       Decides(c, l, i) /\ Rules(c, l)[i].action = "allow"
  THEN "allowed"
  ELSE "denied"

LayerVerdict(c, l) == IF IsSg(l) THEN SgVerdict(c, l) ELSE NaclVerdict(c, l)

-----------------------------------------------------------------------------
(* The four layers *)

\* Layer l is the first that does not allow the flow.
FirstObstacle(c, l) ==
  /\ LayerVerdict(c, l) # "allowed"
  /\ \A k \in Layer : k < l => LayerVerdict(c, k) = "allowed"

Pending == [reachability |-> "pending", layers |-> {}, severity |-> "none"]
Reachable == [reachability |-> "reachable", layers |-> {}, severity |-> "high"]
NotReachable ==
  [reachability |-> "not_reachable", layers |-> {}, severity |-> "low"]
IndeterminateAt(layers) ==
  [reachability |-> "indeterminate", layers |-> layers, severity |-> "medium"]

Judgements ==
  {Reachable, NotReachable} \cup {IndeterminateAt({l}) : l \in Layer}

Promised(c, f) ==
  \/ ~c.route_exists /\ f = NotReachable
  \/ /\ c.route_exists
     /\ \A l \in Layer : LayerVerdict(c, l) = "allowed"
     /\ f = Reachable
  \/ /\ c.route_exists
     /\ \E l \in Layer :
          /\ FirstObstacle(c, l)
          /\ f = IF LayerVerdict(c, l) = "denied"
                 THEN NotReachable ELSE IndeterminateAt({l})
=============================================================================
