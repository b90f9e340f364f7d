---------------------------- MODULE MCAggregator ----------------------------
(* An instance of Aggregator for TLC: a signal whose query has two rows for  *)
(* its pod, and one with a rule and a row for its own, which may leave.      *)
EXTENDS Aggregator, TLC

CONSTANTS io, net, cool, tsdb

Pack == <<net, io>>
WhoReports == net :> {tsdb} @@ io :> {cool}
RowsPerPod == net :> 2 @@ io :> 1
=============================================================================
