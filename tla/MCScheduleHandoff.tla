-------------------------- MODULE MCScheduleHandoff --------------------------
(* ScheduleHandoff with the daemon's two jobs, in ScheduleWatcher's order. *)
EXTENDS ScheduleHandoff

ScanAndReport == <<"scan", "report">>
JustScan      == <<"scan">>
=============================================================================
