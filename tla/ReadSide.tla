------------------------------ MODULE ReadSide ------------------------------
(***************************************************************************)
(* What users read: the windows of a report schedule, the sums of its      *)
(* reports, and the pages of the list of users.  They share no state, so   *)
(* each behaviour follows one of them.                                     *)
(***************************************************************************)
EXTENDS ReportCalendar, WalletReport, AdminPages

VARIABLE part

readVars == <<calendarVars, reportVars, pageVars, part>>

ReadInit ==
  /\ part \in {"calendar", "sums", "pages"}
  /\ IF part = "calendar" THEN CalendarInit ELSE
       /\ CalendarInit /\ freq = "daily" /\ month = FirstMonth /\ day = 1
  /\ IF part = "sums" THEN ReportInit ELSE
       /\ ReportInit /\ ~include /\ period = CHOOSE p \in Periods : TRUE
  /\ IF part = "pages" THEN PagesInit ELSE PagesInit /\ registered = 0

ReadNext ==
  /\ UNCHANGED part
  /\ \/ part = "calendar" /\ CalendarNext /\ UNCHANGED <<reportVars, pageVars>>
     \/ part = "sums" /\ ReportNext /\ UNCHANGED <<calendarVars, pageVars>>
     \/ part = "pages" /\ PagesNext /\ UNCHANGED <<calendarVars, reportVars>>

ReadSpec == ReadInit /\ [][ReadNext]_readVars
=============================================================================
