--------------------------- MODULE ReportDispatch ---------------------------
(***************************************************************************)
(* Scheduled reports: Scheduler.dispatchReports, run by the scheduler's    *)
(* goroutine at each tick of its report ticker, against the chat handlers  *)
(* that edit the same rows of table user_settings.  A report covers the    *)
(* period before the instant its dispatch run began.  Periods are lengths: *)
(* the calendar arithmetic of months and years is not modelled here.       *)
(* Reports a user asks for change no state and are left out.               *)
(***************************************************************************)
EXTENDS Integers, Sequences

CONSTANTS
  User,          \* rows of table users
  Blocked,       \* users the bot cannot send to
  Worker,        \* goroutines that handle updates
  Freq,          \* report frequencies
  Period,        \* Period[f]: the length of TimeRange, and of NextRunAt
  Default,       \* the frequency of a fresh settings row ('daily')
  ReportTick,    \* period of the report ticker (10 minutes)
  MaxClock,      \* bound: the last instant
  MaxEdits,      \* bound: settings edits begun
  MaxFaults      \* bound: failed database or Telegram calls, and crashes

ASSUME ReportAssumption ==
  /\ User # {} /\ Blocked \subseteq User
  /\ Default \in Freq
  /\ Period \in [Freq -> Nat \ {0}]
  /\ ReportTick \in Nat \ {0}
  /\ MaxClock \in Nat /\ MaxEdits \in Nat /\ MaxFaults \in Nat

Null == -1   \* a NULL next_report_at
None == [at |-> Null, freq |-> Default]

VARIABLES
  clock,     \* wall time
  settings,  \* table user_settings; known: whether the user has a row
  last,      \* ghost: the last report sent to each user, None before it
  up,        \* whether the process runs
  nextTick,  \* when the report ticker fires next
  wake,      \* a tick waits in the ticker's channel
  disp,      \* local variables of dispatchReports
  edit,      \* edit[c]: local variables of a settings handler
  edits, faults

vars == <<clock, settings, last, up, nextTick, wake, disp, edit, edits, faults>>

Time == 0 .. MaxClock
Settings == [known : BOOLEAN, freq : Freq, unchanged : BOOLEAN,
             next : Nat \cup {Null}]
Report == [at : Time \cup {Null}, freq : Freq]
Dispatch == [pc : {"idle", "loop", "send", "save"}, now : Time,
             todo : SUBSET User, u : User, freq : Freq]
Edit == [pc : {"idle", "write"}, u : User, freq : Freq, unchanged : BOOLEAN]

NoDispatch == [pc |-> "idle", now |-> 0, todo |-> {},
               u |-> CHOOSE u \in User : TRUE, freq |-> Default]
NoEdit == [pc |-> "idle", u |-> CHOOSE u \in User : TRUE, freq |-> Default,
           unchanged |-> FALSE]

Fault == faults < MaxFaults /\ faults' = faults + 1

-----------------------------------------------------------------------------
(* The ticker holds one tick; the scheduler may be busy with a poll cycle. *)
Tick ==
  /\ clock < MaxClock
  /\ clock' = clock + 1
  /\ IF up /\ clock' = nextTick
     THEN wake' = TRUE /\ nextTick' = nextTick + ReportTick
     ELSE UNCHANGED <<wake, nextTick>>
  /\ UNCHANGED <<settings, last, up, disp, edit, edits, faults>>

(* UpsertUser: the first update of a user inserts its settings row.        *)
Register(u) ==
  /\ up /\ ~settings[u].known
  /\ settings' = [settings EXCEPT ![u].known = TRUE]
  /\ UNCHANGED <<clock, last, up, nextTick, wake, disp, edit, edits, faults>>

-----------------------------------------------------------------------------
(* freq_ and toggle_unchanged: GetSettings, then UpdateSettings with the   *)
(* other column as it was read.                                            *)

ReadSettings(c, u) ==
  /\ up /\ edit[c].pc = "idle" /\ settings[u].known
  /\ edits < MaxEdits /\ edits' = edits + 1
  /\ \E e \in {[pc |-> "write", u |-> u, freq |-> f, unchanged |-> settings[u].unchanged] :
                 f \in Freq}
              \cup {[pc |-> "write", u |-> u, freq |-> settings[u].freq,
                     unchanged |-> ~settings[u].unchanged]} :
       edit' = [edit EXCEPT ![c] = e]
  /\ UNCHANGED <<clock, settings, last, up, nextTick, wake, disp, faults>>

UpdateSettings(c) ==
  LET e == edit[c] IN
  /\ up /\ e.pc = "write"
  /\ settings' = [settings EXCEPT ![e.u] =
       [known |-> TRUE, freq |-> e.freq, unchanged |-> e.unchanged, next |-> Null]]
  /\ edit' = [edit EXCEPT ![c] = NoEdit]
  /\ UNCHANGED <<clock, last, up, nextTick, wake, disp, edits, faults>>

UpdateFails(c) ==
  /\ up /\ edit[c].pc = "write" /\ Fault
  /\ edit' = [edit EXCEPT ![c] = NoEdit]
  /\ UNCHANGED <<clock, settings, last, up, nextTick, wake, disp, edits>>

-----------------------------------------------------------------------------
(* dispatchReports.                                                        *)

(* Mutant of IsDue: the time is not looked at.                             *)
IsDueAlways(u, now) == settings[u].known

IsDue(u, now) ==
  settings[u].known /\ (settings[u].next = Null \/ settings[u].next <= now)

(* UsersDueForReport at now.                                               *)
StartDispatch ==
  /\ up /\ wake /\ disp.pc = "idle"
  /\ wake' = FALSE
  /\ disp' = [NoDispatch EXCEPT !.pc = "loop", !.now = clock,
                                !.todo = {u \in User : IsDue(u, clock)}]
  /\ UNCHANGED <<clock, settings, last, up, nextTick, edit, edits, faults>>

DueFails ==
  /\ up /\ wake /\ disp.pc = "idle" /\ Fault
  /\ wake' = FALSE
  /\ UNCHANGED <<clock, settings, last, up, nextTick, disp, edit, edits>>

(* GetSettings of the next user in the list.                               *)
GetSettings(u) ==
  /\ up /\ disp.pc = "loop" /\ u \in disp.todo
  /\ disp' = [disp EXCEPT !.pc = "send", !.u = u, !.todo = @ \ {u},
                          !.freq = settings[u].freq]
  /\ UNCHANGED <<clock, settings, last, up, nextTick, wake, edit, edits, faults>>

(* BuildReportText over TimeRange(now, freq), and Send.                    *)
Send ==
  LET u == disp.u IN
  /\ up /\ disp.pc = "send" /\ u \notin Blocked
  /\ last' = [last EXCEPT ![u] = [at |-> disp.now, freq |-> disp.freq]]
  /\ disp' = [disp EXCEPT !.pc = "save"]
  /\ UNCHANGED <<clock, settings, up, nextTick, wake, edit, edits, faults>>

(* Mutant of NextUser: return where the code has continue.                 *)
NextUserReturns == disp' = NoDispatch

NextUser == disp' = [NoDispatch EXCEPT !.pc = "loop", !.now = disp.now, !.todo = disp.todo]

(* The settings, the report or the message fails: on to the next user.     *)
SendFails ==
  /\ up /\ disp.pc = "send" /\ disp.u \in Blocked
  /\ NextUser
  /\ UNCHANGED <<clock, settings, last, up, nextTick, wake, edit, edits, faults>>

SendFault ==
  /\ up /\ disp.pc = "send" /\ Fault
  /\ NextUser
  /\ UNCHANGED <<clock, settings, last, up, nextTick, wake, edit, edits>>

(* Telegram delivers the message, and the answer of Send is lost.          *)
SendUnacked ==
  LET u == disp.u IN
  /\ up /\ disp.pc = "send" /\ u \notin Blocked /\ Fault
  /\ last' = [last EXCEPT ![u] = [at |-> disp.now, freq |-> disp.freq]]
  /\ NextUser
  /\ UNCHANGED <<clock, settings, up, nextTick, wake, edit, edits>>

(* Mutant of NextRunAt: one period from the wall clock, not from now.      *)
NextRunAtClock(now, freq) == clock + Period[freq]

(* Mutant of NextRunAt: the other end of the window.                       *)
NextRunAtFrom(now, freq) == now - Period[freq]

NextRunAt(now, freq) == now + Period[freq]

(* SetNextReportAt, whatever has become of the row meanwhile.              *)
SetNextReportAt ==
  /\ up /\ disp.pc = "save"
  /\ settings' = [settings EXCEPT ![disp.u].next = NextRunAt(disp.now, disp.freq)]
  /\ NextUser
  /\ UNCHANGED <<clock, last, up, nextTick, wake, edit, edits, faults>>

SetNextFails ==
  /\ up /\ disp.pc = "save" /\ Fault
  /\ NextUser
  /\ UNCHANGED <<clock, settings, last, up, nextTick, wake, edit, edits>>

EndDispatch ==
  /\ up /\ disp.pc = "loop" /\ disp.todo = {}
  /\ disp' = NoDispatch
  /\ UNCHANGED <<clock, settings, last, up, nextTick, wake, edit, edits, faults>>

-----------------------------------------------------------------------------
Crash ==
  /\ up /\ Fault
  /\ up' = FALSE /\ wake' = FALSE
  /\ disp' = NoDispatch
  /\ edit' = [c \in Worker |-> NoEdit]
  /\ UNCHANGED <<clock, settings, last, nextTick, edits>>

Restart ==
  /\ ~up /\ up' = TRUE
  /\ nextTick' = clock + ReportTick
  /\ UNCHANGED <<clock, settings, last, wake, disp, edit, edits, faults>>

Init ==
  /\ clock = 0
  /\ settings = [u \in User |-> [known |-> FALSE, freq |-> Default,
                                 unchanged |-> FALSE, next |-> Null]]
  /\ last = [u \in User |-> None]
  /\ up = TRUE /\ wake = FALSE /\ nextTick = ReportTick
  /\ disp = NoDispatch
  /\ edit = [c \in Worker |-> NoEdit]
  /\ edits = 0 /\ faults = 0

Dispatcher ==
  \/ StartDispatch \/ Send \/ SendFails \/ SetNextReportAt \/ EndDispatch
  \/ \E u \in User : GetSettings(u)

Next ==
  \/ Tick
  \/ \E u \in User : Register(u)
  \/ \E c \in Worker, u \in User : ReadSettings(c, u)
  \/ \E c \in Worker : UpdateSettings(c) \/ UpdateFails(c)
  \/ Dispatcher
  \/ DueFails \/ SendFault \/ SendUnacked \/ SetNextFails
  \/ Crash \/ Restart

Spec == Init /\ [][Next]_vars

(* The scheduler's goroutine runs on, and every call it makes returns.     *)
FairSpec == Spec /\ WF_vars(Tick) /\ WF_vars(Dispatcher)

-----------------------------------------------------------------------------
(* Type invariant.                                                         *)
TypeOK ==
  /\ clock \in Time
  /\ settings \in [User -> Settings]
  /\ last \in [User -> Report]
  /\ up \in BOOLEAN /\ wake \in BOOLEAN /\ nextTick \in Nat
  /\ disp \in Dispatch
  /\ edit \in [Worker -> Edit]
  /\ edits \in 0 .. MaxEdits /\ faults \in 0 .. MaxFaults

(* A next_report_at that is set is one period after the last report, the   *)
(* period that report was for; or it has passed when that report was sent, *)
(* and the save that follows it is still to come or has failed.  No        *)
(* interleaving of dispatch, edits, errors and restarts makes it any later *)
(* value, which would silently drop reports.                               *)
NextFollowsLast ==
  \A u \in User : settings[u].next # Null =>
    /\ last[u] # None
    /\ \/ settings[u].next = last[u].at + Period[last[u].freq]
       \/ settings[u].next <= last[u].at

(* No report comes before a full period has passed since the last one,     *)
(* although the list of due users, the settings and the clock are read at  *)
(* different times; except that an edit clears next_report_at, and a save  *)
(* that failed leaves it in the past.                                      *)
ReportsSpaced ==
  [][\A u \in User :
       /\ last'[u] # last[u]
       /\ settings[u].next # Null /\ settings[u].next > last[u].at
       => last'[u].at >= last[u].at + Period[last[u].freq]]_vars

(* A due user whose messages go through gets a report, whatever happens to *)
(* the other users of the list, unless a call fails or the process dies    *)
(* meanwhile: dispatchReports goes on to the next user after an error.     *)
DueServed ==
  \A u \in User \ Blocked, t \in 0 .. MaxClock - ReportTick, n \in 0 .. MaxFaults :
    clock = t /\ up /\ faults = n /\ IsDue(u, t)
      ~> last[u].at >= t \/ ~IsDue(u, t) \/ faults > n

(* README.md:12 "Scheduled auto reports per user settings": while no       *)
(* dispatch runs, the next report is due within one period of the          *)
(* frequency the user has chosen.                                          *)
FrequencyHonoured ==
  disp.pc = "idle" => \A u \in User :
    settings[u].next # Null =>
      settings[u].next <= last[u].at + Period[settings[u].freq]
=============================================================================
