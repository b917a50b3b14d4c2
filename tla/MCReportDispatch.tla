-------------------------- MODULE MCReportDispatch --------------------------
(* Small instances of ReportDispatch: an hour is two instants, a day four. *)
EXTENDS ReportDispatch

CONSTANTS u1, u2, c1, c2

MCFreq   == {"hourly", "daily"}
MCPeriod == [f \in MCFreq |-> IF f = "hourly" THEN 2 ELSE 4]
=============================================================================
