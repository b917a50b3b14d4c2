--------------------------- MODULE ReportCalendar ---------------------------
(***************************************************************************)
(* TimeRange and NextRunAt on the calendar, in days.  time.AddDate adds to *)
(* the month or the year and then normalises: 31 January and one month is  *)
(* 31 February, which is 3 March.  A schedule is followed from report to   *)
(* report; each may be some days late, since the bot was down.             *)
(***************************************************************************)
EXTENDS Integers, Sequences, Functions

CONSTANTS
  MonthDays,   \* the lengths of consecutive months, whole years of them
  FirstMonth, LastMonth,  \* a schedule begins in the months between them
  MaxReports, MaxLate     \* bounds

ASSUME CalendarAssumption ==
  /\ MonthDays \in Seq(28 .. 31) /\ FirstMonth \in 13 .. LastMonth
  /\ LastMonth \in 13 .. Len(MonthDays)
  /\ MaxReports \in Nat /\ MaxLate \in Nat

(* The day on which month m begins, counted from the first of all.         *)
Start ==
  [m \in 1 .. Len(MonthDays) + 1 |-> SumFunctionOnSet(MonthDays, 1 .. m - 1)]

(* Any twelve months in a row are a year.                                  *)
ASSUME YearAssumption ==
  \A m \in 1 .. Len(MonthDays) - 11 : Start[m + 12] - Start[m] \in {365, 366}

VARIABLES
  freq,     \* user_settings.report_frequency
  month, day,  \* the date of the last report
  from,     \* the window of the last report begins on this day
  reports,  \* how many have been sent
  gap,      \* days between the window before it and the last one
  late,     \* how late the last report was
  gaps,     \* history: windows that began after the one before ended
  onTime,   \* history: no report has been late
  tail      \* the report before the last was on the 29th or later

calendarVars == <<freq, month, day, from, reports, gap, late, gaps, onTime, tail>>

Ordinal(m, d) == Start[m] + d - 1

(* The normalisation: the d-th of month m, which may have fewer days.      *)
MonthOf(n) == CHOOSE m \in 1 .. Len(MonthDays) : Start[m] <= n /\ n < Start[m + 1]
DayOf(n)   == n - Start[MonthOf(n)] + 1

AddMonths(m, d, k) == Ordinal(m + k, d)

(* Mutant of WindowStart: the case of monthly is missing.                  *)
WindowStartDefault(f, m, d) ==
  IF f = "yearly" THEN AddMonths(m, d, -12) ELSE Ordinal(m, d) - 1

(* Mutant of WindowStart: a month has 30 days.                             *)
WindowStartThirty(f, m, d) ==
  CASE f = "daily"   -> Ordinal(m, d) - 1
    [] f = "monthly" -> Ordinal(m, d) - 30
    [] f = "yearly"  -> AddMonths(m, d, -12)

(* TimeRange                                                               *)
WindowStart(f, m, d) ==
  CASE f = "daily"   -> Ordinal(m, d) - 1
    [] f = "monthly" -> AddMonths(m, d, -1)
    [] f = "yearly"  -> AddMonths(m, d, -12)

(* NextRunAt                                                               *)
NextRun(f, m, d) ==
  CASE f = "daily"   -> Ordinal(m, d) + 1
    [] f = "monthly" -> AddMonths(m, d, 1)
    [] f = "yearly"  -> AddMonths(m, d, 12)

Months(f) == CASE f = "daily" -> 0 [] f = "monthly" -> 1 [] f = "yearly" -> 12

(* The next report: BuildReportText and NextRunAt at the same now, which   *)
(* MonthDays bounds.                                                       *)
Report(l) ==
  LET now == NextRun(freq, month, day) + l
      m   == MonthOf(now)
      d   == DayOf(now) IN
  /\ reports < MaxReports
  /\ month + Months(freq) <= Len(MonthDays) /\ now < Start[Len(MonthDays) + 1]
  /\ month' = m /\ day' = d
  /\ from' = WindowStart(freq, m, d)
  /\ gap' = from' - Ordinal(month, day)
  /\ late' = l
  /\ gaps' = IF gap' > 0 THEN gaps + 1 ELSE gaps
  /\ onTime' = (onTime /\ l = 0)
  /\ tail' = (day >= 29)
  /\ reports' = reports + 1
  /\ UNCHANGED freq

CalendarInit ==
  /\ freq \in {"daily", "monthly", "yearly"}
  /\ month \in FirstMonth .. LastMonth /\ day \in 1 .. MonthDays[month]
  /\ from = WindowStart(freq, month, day)
  /\ reports = 1 /\ gap = 0 /\ late = 0 /\ gaps = 0 /\ onTime = TRUE /\ tail = FALSE

CalendarNext == \E l \in 0 .. MaxLate : Report(l)

CalendarSpec == CalendarInit /\ [][CalendarNext]_calendarVars

-----------------------------------------------------------------------------
(* A schedule that is on time leaves days out of its reports once at most, *)
(* at most three, and only after a report on one of the last days of a     *)
(* month: the normalisation moves it to the first days of the next.        *)
GapOnce ==
  onTime => /\ gaps <= 1 /\ gap <= 3
            /\ gap > 0 => tail /\ freq # "daily"

(* A report leaves out no more than it is late and those three days.       *)
GapOfLateness == gap <= late + 3
=============================================================================
