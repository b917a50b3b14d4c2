---------------------------- MODULE WalletReport ----------------------------
(***************************************************************************)
(* AggregateReport: what the scheduled reports of one user add up to.      *)
(* Rows are stored some time after the time they carry.  A report sums,    *)
(* by wallet, token and direction, the rows of the last period before the  *)
(* dispatch run that sends it; the run comes at some tick after the due    *)
(* date, which is a period after the run before, so that windows need not  *)
(* meet.  An edit of the settings makes a report due at once, and a report *)
(* whose date could not be saved stays due: then windows overlap.          *)
(* A report on demand reads the same and changes nothing (handler.go:590). *)
(***************************************************************************)
EXTENDS Integers, FiniteSets, Functions

CONSTANTS
  Wallet,    \* wallets of all users
  Own,       \* those of the user
  Kind,      \* pairs of token and direction
  NoKind,    \* "-" and "-": the row of a LEFT JOIN without a match
  Amount,    \* amounts of single rows, 0 among them
  Periods,   \* the lengths of the report frequencies
  LastTick, MaxRows,  \* bounds
  MaxUpsets           \* bound: edits, failures and restarts

ASSUME ReportAssumption ==
  /\ Own \subseteq Wallet /\ NoKind \notin Kind /\ Amount \subseteq Nat
  /\ Periods \subseteq Nat \ {0} /\ LastTick \in Nat
  /\ MaxRows \in Nat /\ MaxUpsets \in Nat

Null == -1   \* a NULL next_report_at; no run, no date in hand

VARIABLES
  now,
  rows,      \* wallet_transactions
  include,   \* user_settings.include_unchanged_wallets
  period,    \* user_settings.report_frequency, by its length
  due,       \* user_settings.next_report_at
  run,       \* now of the dispatchReports that is serving the user
  next,      \* the date it has yet to save, once the report is out
  upsets,    \* edits, failures and restarts so far
  sentTo,    \* the end of the last window, 0 before the first
  lines,     \* the lines of the last report
  reported,  \* history: the sum of the lines of all reports
  known,     \* history: the sum of the rows stored before their report
  missed,    \* history: the sum of those a late report's window began after
  again      \* history: the sum of the rows of overlaps

settingsVars == <<include, period, due>>
sentVars     == <<sentTo, lines, reported, missed, again>>
reportVars   == <<now, rows, settingsVars, run, next, upsets, sentVars, known>>

Group == Wallet \X Kind

Add(sums, g, n) == [sums EXCEPT ![g] = @ + n]

Total(S) == SumFunctionOnSet([r \in S |-> r.amount], S)

-----------------------------------------------------------------------------
(* Mutant of InReport: both ends belong to a window.                       *)
InReportBothEnds(r, from, to) == from <= r.stamp /\ r.stamp <= to

InReport(r, from, to) == from <= r.stamp /\ r.stamp < to

(* LEFT JOIN, GROUP BY wallet, token and direction; lines of nothing are   *)
(* dropped unless the user wants unchanged wallets.                        *)
Matches(w, from, to) == {r \in rows : r.wallet = w /\ InReport(r, from, to)}

LinesOf(w, from, to) ==
  LET M == Matches(w, from, to) IN
  IF M = {} THEN {[wallet |-> w, kind |-> NoKind, amount |-> 0]}
  ELSE {[wallet |-> w, kind |-> k, amount |-> Total({r \in M : r.kind = k})] :
          k \in {r.kind : r \in M}}

AggregateReport(from, to) ==
  {l \in UNION {LinesOf(w, from, to) : w \in Own} : include \/ l.amount # 0}

-----------------------------------------------------------------------------
Pass ==
  /\ now < LastTick
  /\ now' = now + 1
  /\ UNCHANGED <<rows, settingsVars, run, next, upsets, sentVars, known>>

(* A poll stores a row, of any time: old when the poll is late, ahead of   *)
(* the clock for a Bitcoin block.  It misses its report when that is sent. *)
StoreRow ==
  /\ Cardinality(rows) < MaxRows
  /\ \E w \in Wallet, k \in Kind, n \in Amount, stamp \in 0 .. LastTick :
       /\ rows' = rows \cup {[id |-> Cardinality(rows), wallet |-> w, kind |-> k,
                              amount |-> n, stamp |-> stamp]}
       /\ known' = IF w \in Own /\ stamp >= sentTo THEN Add(known, <<w, k>>, n) ELSE known
  /\ UNCHANGED <<now, settingsVars, run, next, upsets, sentVars>>

Upset == upsets < MaxUpsets /\ upsets' = upsets + 1

(* freq_ and toggle_unchanged write both settings, one of them as they read *)
(* it, perhaps before another edit; UpdateSettings clears the date.        *)
UpdateSettings ==
  /\ Upset
  /\ period' \in Periods /\ include' \in BOOLEAN
  /\ due' = Null
  /\ UNCHANGED <<now, rows, run, next, sentVars, known>>

(* UsersDueForReport at the now of a dispatch run: any tick from the due   *)
(* date on, for the bot may have been down or busy at the first.           *)
StartRun ==
  /\ run = Null /\ (due = Null \/ due <= now)
  /\ run' = now
  /\ UNCHANGED <<now, rows, settingsVars, next, upsets, sentVars, known>>

(* How much longer than a period ago the last window ended.                *)
Late == run - (sentTo + period)

Between(g, from, to) ==
  {r \in rows : <<r.wallet, r.kind>> = g /\ from <= r.stamp /\ r.stamp < to}

OwnTotal(g, S) == IF g[1] \in Own THEN Total(S) ELSE 0

(* GetSettings, TimeRange, AggregateReport, and the message with its lines. *)
SendReport ==
  /\ run # Null /\ next = Null
  /\ sentTo' = run
  /\ next' = run + period
  /\ lines' = AggregateReport(run - period, run)
  /\ reported' = [g \in Group |->
        reported[g] + Total({l \in lines' : <<l.wallet, l.kind>> = g})]
  /\ missed' = [g \in Group |->
        missed[g] + OwnTotal(g, Between(g, sentTo, sentTo + Late))]
  /\ again' = [g \in Group |->
        again[g] + OwnTotal(g, Between(g, sentTo + Late, sentTo))]
  /\ UNCHANGED <<now, rows, settingsVars, run, upsets, known>>

(* SetNextReportAt, whatever has become of the settings meanwhile.         *)
SetNextReportAt ==
  /\ next # Null
  /\ due' = next /\ run' = Null /\ next' = Null
  /\ UNCHANGED <<now, rows, include, period, upsets, sentVars, known>>

(* The report, its message or the save fails, or the process ends.         *)
GiveUp ==
  /\ run # Null /\ Upset
  /\ run' = Null /\ next' = Null
  /\ UNCHANGED <<now, rows, settingsVars, sentVars, known>>

ReportInit ==
  /\ now = 0 /\ rows = {} /\ include \in BOOLEAN /\ period \in Periods
  /\ due = Null /\ run = Null /\ next = Null /\ upsets = 0 /\ sentTo = 0 /\ lines = {}
  /\ reported = [g \in Group |-> 0] /\ known = [g \in Group |-> 0]
  /\ missed = [g \in Group |-> 0] /\ again = [g \in Group |-> 0]

ReportNext ==
  \/ Pass \/ StoreRow \/ UpdateSettings
  \/ StartRun \/ SendReport \/ SetNextReportAt \/ GiveUp

ReportSpec == ReportInit /\ [][ReportNext]_reportVars

-----------------------------------------------------------------------------
(* The rows still to be reported: those from the end of the last window on. *)
Open(w, k) == Total({r \in rows : r.wallet = w /\ r.kind = k /\ r.stamp >= sentTo})

(* The reports of a user add up, whenever they are sent: what they show,   *)
(* what is still to be shown and what late reports left out is what was    *)
(* stored in time and what early reports showed of a window reported       *)
(* before.  So a row stored before its report is in exactly one of them,   *)
(* on the border of two windows too, unless its time lies in the stretch   *)
(* by which a report is late, or in the one by which it is early; rows of  *)
(* others are in none; what is dropped as unchanged adds nothing.          *)
ReportsAddUp ==
  \A w \in Wallet, k \in Kind :
    LET g == <<w, k>> IN
    reported[g] + missed[g] + (IF w \in Own THEN Open(w, k) ELSE 0) = known[g] + again[g]
=============================================================================
