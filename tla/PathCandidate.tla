---------------------------- MODULE PathCandidate ----------------------------
(***************************************************************************)
(* A path candidate of evaluate/path.rs, the four rule layers it crosses   *)
(* and what each layer reads of it.  Layers are numbered in the order the  *)
(* engine consults them, the order EvaluationLayer derives its Ord from.   *)
(***************************************************************************)
EXTENDS RuleMatching, Sequences

SgEgress == 1
NaclEgress == 2
NaclIngress == 3
SgIngress == 4
Layer == 1 .. 4

CONSTANTS
  Eni, Subnet,   \* ids of network interfaces and of subnets
  Candidates     \* the path candidates that may be evaluated

EndpointCandidate ==
  [eni_id : Eni, peer_security_group_ids : SUBSET Group,
   security_group_rules : Seq(SgRule), subnet_id : Subnet,
   nacl_rules : Seq(NaclRule)]

PathCandidates ==
  [source : EndpointCandidate, destination : EndpointCandidate,
   route_exists : BOOLEAN, traffic : Traffic]

ASSUME CandidatesAssumption == Candidates \subseteq PathCandidates

-----------------------------------------------------------------------------
(* What evaluate_candidate hands to the evaluator of layer l *)

IsSg(l) == l \in {SgEgress, SgIngress}
DirectionOf(l) == IF l \in {SgEgress, NaclEgress} THEN "egress" ELSE "ingress"

\* The endpoint whose rules layer l consults
Endpoint(c, l) ==
  IF l \in {SgEgress, NaclEgress} THEN c.source ELSE c.destination

\* The peer of a security group layer is the other end of the path.
PeerGroups(c, l) ==
  IF l = SgEgress THEN c.destination.peer_security_group_ids
                  ELSE c.source.peer_security_group_ids

Rules(c, l) == IF IsSg(l) THEN Endpoint(c, l).security_group_rules
                          ELSE Endpoint(c, l).nacl_rules

\* Positions of the rules that survive the evaluators' direction filter
InDirection(c, l) ==
  {i \in DOMAIN Rules(c, l) : Rules(c, l)[i].direction = DirectionOf(l)}

\* The id recorded as the step's resource: the ENI or the subnet
ResourceId(c, l) == IF IsSg(l) THEN Endpoint(c, l).eni_id
                               ELSE Endpoint(c, l).subnet_id

\* The order in which layer l considers rules i and j: a security group's in
\* the order given, a network ACL's by a stable sort on rule_number.
Ahead(c, l, i, j) ==
  IF IsSg(l) THEN i < j
  ELSE LET m == Rules(c, l)[i].rule_number
           n == Rules(c, l)[j].rule_number
       IN  m < n \/ (m = n /\ i < j)
=============================================================================
