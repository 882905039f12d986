---------------------------- MODULE MCReportModel ----------------------------
(***************************************************************************)
(* Reports of up to two findings, two of the layers, files edited up to    *)
(* twice.                                                                  *)
(***************************************************************************)
EXTENDS ReportModel

MCLayers == <<"SgEgress", "NaclIngress">>
MCFindings ==
  {[source |-> "e1", reachability |-> "reachable", layers |-> <<>>],
   [source |-> "e2", reachability |-> "not_reachable", layers |-> <<>>],
   [source |-> "e3", reachability |-> "indeterminate", layers |-> <<"NaclIngress">>],
   [source |-> "e4", reachability |-> "indeterminate", layers |-> <<"SgEgress", "NaclIngress">>],
   [source |-> "e5", reachability |-> "indeterminate", layers |-> <<"NaclIngress", "SgEgress">>]}
MCTimes == {[clock |-> 12, offset |-> 0], [clock |-> 12, offset |-> 2]}
=============================================================================
