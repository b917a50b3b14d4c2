------------------------ MODULE ReportDispatchProofs ------------------------
(***************************************************************************)
(* Proofs about ReportDispatch, for any users, workers, frequencies and    *)
(* periods.                                                                *)
(***************************************************************************)
EXTENDS ReportDispatch, TLAPS

(* The users a dispatch run has yet to serve, the one at hand included.    *)
Listed == disp.todo \cup (IF disp.pc \in {"send", "save"} THEN {disp.u} ELSE {})

(* Whoever a run still has to serve was due, and nothing but an edit, that *)
(* clears next_report_at, has touched the row since.                       *)
ListedAreDue ==
  /\ disp.pc = "idle" => disp.todo = {}
  /\ \A u \in Listed : settings[u].next # Null => settings[u].next <= disp.now
  /\ disp.pc \in {"send", "save"} => disp.u \notin disp.todo
  /\ disp.pc = "save" => last[disp.u] = [at |-> disp.now, freq |-> disp.freq]

(* The inductive invariant.                                                *)
IInv == TypeOK /\ NextFollowsLast /\ ListedAreDue
-----------------------------------------------------------------------------
LEMMA IdleTypes == NoDispatch \in Dispatch /\ NoEdit \in Edit
BY ReportAssumption DEF NoDispatch, Dispatch, NoEdit, Edit, Time

LEMMA NextUserType ==
  ASSUME disp \in Dispatch, NextUser
  PROVE  /\ disp' \in Dispatch /\ disp'.pc = "loop"
         /\ disp'.now = disp.now /\ disp'.todo = disp.todo
BY IdleTypes DEF NextUser, Dispatch

LEMMA InitIInv == Init => IInv
<1> SUFFICES ASSUME Init PROVE IInv
  OBVIOUS
<1>1. settings \in [User -> Settings] /\ \A u \in User : settings[u].next = Null
  BY ReportAssumption DEF Init, Settings, Null
<1>2. last \in [User -> Report]
  BY ReportAssumption DEF Init, None, Report
<1>3. disp \in Dispatch /\ disp.pc = "idle" /\ disp.todo = {} /\ edit \in [Worker -> Edit]
  BY IdleTypes DEF Init, NoDispatch
<1>4. TypeOK
  <2>1. up \in BOOLEAN /\ wake \in BOOLEAN
    BY DEF Init
  <2>2. clock \in Time /\ nextTick \in Nat /\ edits \in 0 .. MaxEdits
        /\ faults \in 0 .. MaxFaults
    BY ReportAssumption DEF Init, Time
  <2> QED BY <1>1, <1>2, <1>3, <2>1, <2>2 DEF TypeOK
<1> QED BY <1>1, <1>3, <1>4 DEF IInv, NextFollowsLast, ListedAreDue, Listed

-----------------------------------------------------------------------------
(* Types.                                                                  *)
LEMMA StepTypes ==
  ASSUME TypeOK, [Next]_vars
  PROVE  TypeOK'
<1> USE ReportAssumption
<1>0. /\ clock \in Time /\ settings \in [User -> Settings] /\ last \in [User -> Report]
      /\ up \in BOOLEAN /\ wake \in BOOLEAN /\ nextTick \in Nat
      /\ disp \in Dispatch /\ edit \in [Worker -> Edit]
      /\ edits \in 0 .. MaxEdits /\ faults \in 0 .. MaxFaults
  BY DEF TypeOK
<1>1. CASE Tick
  <2>1. /\ clock' = clock + 1 /\ clock < MaxClock
        /\ nextTick' \in {nextTick, nextTick + ReportTick}
        /\ UNCHANGED <<settings, last, up, disp, edit, edits, faults>>
    BY <1>1 DEF Tick
  <2>2. clock' \in Time /\ nextTick' \in Nat
    BY <1>0, <2>1 DEF Time
  <2>3. wake' \in BOOLEAN
    BY <1>0, <1>1 DEF Tick
  <2> QED BY <1>0, <2>1, <2>2, <2>3 DEF TypeOK
<1>2. ASSUME NEW u \in User, Register(u) PROVE TypeOK'
  <2>1. settings' \in [User -> Settings]
    BY <1>0, <1>2 DEF Register, Settings
  <2> QED BY <1>0, <1>2, <2>1 DEF Register, TypeOK
<1>3. ASSUME NEW c \in Worker, NEW u \in User, ReadSettings(c, u) PROVE TypeOK'
  <2>1. settings[u].freq \in Freq /\ settings[u].unchanged \in BOOLEAN
    BY <1>0 DEF Settings
  <2>2. edit' \in [Worker -> Edit]
    <3>1. \A f \in Freq : [pc |-> "write", u |-> u, freq |-> f,
                           unchanged |-> settings[u].unchanged] \in Edit
      BY <2>1 DEF Edit
    <3>2. [pc |-> "write", u |-> u, freq |-> settings[u].freq,
           unchanged |-> ~settings[u].unchanged] \in Edit
      BY <2>1 DEF Edit
    <3>3. \E e \in Edit : edit' = [edit EXCEPT ![c] = e]
      BY <1>3, <3>1, <3>2 DEF ReadSettings
    <3> QED BY <1>0, <3>3
  <2>3. edits' \in 0 .. MaxEdits
    BY <1>0, <1>3 DEF ReadSettings
  <2> QED BY <1>0, <1>3, <2>2, <2>3 DEF ReadSettings, TypeOK
<1>4. ASSUME NEW c \in Worker, UpdateSettings(c) PROVE TypeOK'
  <2>1. edit[c] \in Edit
    BY <1>0
  <2>2. [known |-> TRUE, freq |-> edit[c].freq, unchanged |-> edit[c].unchanged,
         next |-> Null] \in Settings
    BY <2>1 DEF Settings, Edit, Null
  <2>3. settings' \in [User -> Settings]
    BY <1>0, <1>4, <2>2 DEF UpdateSettings
  <2>4. edit' \in [Worker -> Edit]
    BY <1>0, <1>4, IdleTypes DEF UpdateSettings
  <2> QED BY <1>0, <1>4, <2>3, <2>4 DEF UpdateSettings, TypeOK
<1>5. ASSUME NEW c \in Worker, UpdateFails(c) PROVE TypeOK'
  <2>1. edit' \in [Worker -> Edit] /\ faults' \in 0 .. MaxFaults
    BY <1>0, <1>5, IdleTypes DEF UpdateFails, Fault
  <2> QED BY <1>0, <1>5, <2>1 DEF UpdateFails, TypeOK
<1>6. CASE StartDispatch
  <2>1. disp' \in Dispatch
    BY <1>0, <1>6, IdleTypes DEF StartDispatch, Dispatch
  <2> QED BY <1>0, <1>6, <2>1 DEF StartDispatch, TypeOK
<1>7. CASE DueFails
  <2>1. faults' \in 0 .. MaxFaults
    BY <1>0, <1>7 DEF DueFails, Fault
  <2> QED BY <1>0, <1>7, <2>1 DEF DueFails, TypeOK
<1>8. ASSUME NEW u \in User, GetSettings(u) PROVE TypeOK'
  <2>1. disp' \in Dispatch
    BY <1>0, <1>8 DEF GetSettings, Dispatch, Settings
  <2> QED BY <1>0, <1>8, <2>1 DEF GetSettings, TypeOK
<1>9. CASE Send \/ SendUnacked
  <2>1. [at |-> disp.now, freq |-> disp.freq] \in Report
    BY <1>0 DEF Report, Dispatch
  <2>2. last' \in [User -> Report]
    BY <1>0, <1>9, <2>1 DEF Send, SendUnacked
  <2>3. disp' \in Dispatch
    <3>1. CASE Send
      BY <1>0, <3>1 DEF Send, Dispatch
    <3>2. CASE SendUnacked
      BY <1>0, <3>2, NextUserType DEF SendUnacked
    <3> QED BY <1>9, <3>1, <3>2
  <2>4. faults' \in 0 .. MaxFaults
    BY <1>0, <1>9 DEF Send, SendUnacked, Fault
  <2> QED BY <1>0, <1>9, <2>2, <2>3, <2>4 DEF Send, SendUnacked, TypeOK
<1>10. CASE SendFails \/ SendFault \/ SetNextFails
  <2>1. disp' \in Dispatch /\ faults' \in 0 .. MaxFaults
    BY <1>0, <1>10, NextUserType DEF SendFails, SendFault, SetNextFails, Fault
  <2> QED BY <1>0, <1>10, <2>1 DEF SendFails, SendFault, SetNextFails, TypeOK
<1>11. CASE SetNextReportAt
  <2>1. disp.now + Period[disp.freq] \in Nat
    BY <1>0 DEF Dispatch, Time
  <2>2. settings' \in [User -> Settings]
    BY <1>0, <1>11, <2>1 DEF SetNextReportAt, NextRunAt, Settings
  <2>3. disp' \in Dispatch
    BY <1>0, <1>11, NextUserType DEF SetNextReportAt
  <2> QED BY <1>0, <1>11, <2>2, <2>3 DEF SetNextReportAt, TypeOK
<1>12. CASE EndDispatch
  BY <1>0, <1>12, IdleTypes DEF EndDispatch, TypeOK
<1>13. CASE Crash
  <2>1. edit' \in [Worker -> Edit] /\ disp' \in Dispatch /\ faults' \in 0 .. MaxFaults
    BY <1>0, <1>13, IdleTypes DEF Crash, Fault
  <2> QED BY <1>0, <1>13, <2>1 DEF Crash, TypeOK
<1>14. CASE Restart
  <2>1. nextTick' \in Nat
    BY <1>0, <1>14 DEF Restart, Time
  <2> QED BY <1>0, <1>14, <2>1 DEF Restart, TypeOK
<1>15. CASE UNCHANGED vars
  BY <1>0, <1>15 DEF vars, TypeOK
<1> QED
  BY <1>1, <1>2, <1>3, <1>4, <1>5, <1>6, <1>7, <1>8, <1>9, <1>10, <1>11, <1>12,
     <1>13, <1>14, <1>15 DEF Next, Dispatcher

-----------------------------------------------------------------------------
(* next_report_at follows the last report, and who is listed is due.       *)
LEMMA StepIInv == IInv /\ [Next]_vars => IInv'
<1> SUFFICES ASSUME IInv, [Next]_vars PROVE IInv'
  OBVIOUS
<1> USE ReportAssumption
<1>0. /\ settings \in [User -> Settings] /\ last \in [User -> Report]
      /\ disp \in Dispatch /\ edit \in [Worker -> Edit] /\ TypeOK /\ TypeOK'
      /\ NextFollowsLast /\ ListedAreDue
  BY StepTypes DEF IInv, TypeOK
<1>0a. \A u \in User : settings[u].next \in Int
  BY <1>0 DEF Settings, Null
<1> SUFFICES NextFollowsLast' /\ ListedAreDue'
  BY <1>0 DEF IInv
<1>1. ASSUME NEW u \in User, Register(u) PROVE NextFollowsLast' /\ ListedAreDue'
  <2>1. UNCHANGED <<last, disp>> /\ \A v \in User : settings'[v].next = settings[v].next
    BY <1>0, <1>1 DEF Register, Settings
  <2>2. Listed \subseteq User /\ Listed' = Listed
    BY <1>0, <2>1 DEF Listed, Dispatch
  <2> QED BY <1>0, <2>1, <2>2 DEF NextFollowsLast, ListedAreDue
<1>2. ASSUME NEW c \in Worker, UpdateSettings(c) PROVE NextFollowsLast' /\ ListedAreDue'
  <2>1. /\ UNCHANGED <<last, disp>>
        /\ \A v \in User : settings'[v].next \in {settings[v].next, Null}
    BY <1>0, <1>2 DEF UpdateSettings, Settings, Edit
  <2>2. Listed \subseteq User /\ Listed' = Listed
    BY <1>0, <2>1 DEF Listed, Dispatch
  <2> QED BY <1>0, <2>1, <2>2 DEF NextFollowsLast, ListedAreDue
<1>3. CASE StartDispatch
  <2>1. /\ disp'.pc = "loop" /\ disp'.now = clock
        /\ disp'.todo = {u \in User : IsDue(u, clock)}
        /\ UNCHANGED <<settings, last>>
    BY <1>3, IdleTypes DEF StartDispatch, Dispatch
  <2>2. Listed' = {u \in User : IsDue(u, clock)}
    BY <2>1 DEF Listed
  <2> QED BY <1>0, <2>1, <2>2 DEF NextFollowsLast, ListedAreDue, IsDue
<1>4. ASSUME NEW u \in User, GetSettings(u) PROVE NextFollowsLast' /\ ListedAreDue'
  <2>1. /\ disp.pc = "loop" /\ u \in disp.todo /\ UNCHANGED <<settings, last>>
        /\ disp'.pc = "send" /\ disp'.now = disp.now /\ disp'.u = u
        /\ disp'.todo = disp.todo \ {u}
    BY <1>0, <1>4 DEF GetSettings, Dispatch
  <2>2. Listed' = Listed
    BY <2>1 DEF Listed
  <2> QED BY <1>0, <2>1, <2>2 DEF NextFollowsLast, ListedAreDue
<1>5. CASE Send \/ SendUnacked
  <2> DEFINE r == [at |-> disp.now, freq |-> disp.freq]
  <2>1. /\ disp.pc = "send" /\ disp.u \in User /\ disp.now \in Time
        /\ UNCHANGED settings /\ last' = [last EXCEPT ![disp.u] = r]
    BY <1>0, <1>5 DEF Send, SendUnacked, Dispatch
  <2>2. disp'.now = disp.now /\ disp'.todo = disp.todo
        /\ (disp'.pc = "loop" \/ (disp'.pc = "save" /\ disp'.u = disp.u
                                                     /\ disp'.freq = disp.freq))
    <3>1. CASE Send
      BY <1>0, <3>1 DEF Send, Dispatch
    <3>2. CASE SendUnacked
      BY <1>0, <3>2, NextUserType DEF SendUnacked
    <3> QED BY <1>5, <3>1, <3>2
  <2>3. Listed' \subseteq Listed /\ disp.u \in Listed
    BY <2>1, <2>2 DEF Listed
  <2>4. last'[disp.u] = r /\ \A v \in User \ {disp.u} : last'[v] = last[v]
    BY <1>0, <2>1
  <2>5. r # None
    BY <2>1 DEF None, Null, Time
  <2>6. NextFollowsLast'
    <3>1. settings[disp.u].next # Null => settings[disp.u].next <= r.at
      BY <1>0, <2>3 DEF ListedAreDue
    <3> QED BY <1>0, <2>1, <2>4, <2>5, <3>1 DEF NextFollowsLast
  <2>7. ListedAreDue'
    BY <1>0, <2>1, <2>2, <2>3, <2>4 DEF ListedAreDue
  <2> QED BY <2>6, <2>7
<1>6. CASE SetNextReportAt
  <2>1. /\ disp.pc = "save" /\ disp.u \in User /\ UNCHANGED last
        /\ disp'.pc = "loop" /\ disp'.now = disp.now /\ disp'.todo = disp.todo
    BY <1>0, <1>6, NextUserType DEF SetNextReportAt, Dispatch
  <2>2. /\ settings'[disp.u].next = disp.now + Period[disp.freq]
        /\ \A v \in User \ {disp.u} : settings'[v] = settings[v]
    BY <1>0, <1>6, <2>1 DEF SetNextReportAt, NextRunAt, Settings
  <2>3. last[disp.u] = [at |-> disp.now, freq |-> disp.freq] /\ disp.u \notin disp.todo
    BY <1>0, <2>1 DEF ListedAreDue
  <2>4. Listed' = disp.todo /\ disp.todo \subseteq Listed /\ disp.todo \subseteq User
    BY <1>0, <2>1 DEF Listed, Dispatch
  <2>5. last[disp.u] # None
    <3>1. disp.now \in Time
      BY <1>0 DEF Dispatch
    <3> QED BY <2>3, <3>1 DEF None, Null, Time
  <2>6. NextFollowsLast'
    BY <1>0, <2>1, <2>2, <2>3, <2>5 DEF NextFollowsLast
  <2>7. ListedAreDue'
    BY <1>0, <2>1, <2>2, <2>3, <2>4 DEF ListedAreDue
  <2> QED BY <2>6, <2>7
<1>7. CASE SendFails \/ SendFault \/ SetNextFails
  <2>1. /\ UNCHANGED <<settings, last>>
        /\ disp'.pc = "loop" /\ disp'.now = disp.now /\ disp'.todo = disp.todo
    BY <1>0, <1>7, NextUserType DEF SendFails, SendFault, SetNextFails
  <2>2. Listed' \subseteq Listed
    BY <2>1 DEF Listed
  <2> QED BY <1>0, <2>1, <2>2 DEF NextFollowsLast, ListedAreDue
<1>8. CASE EndDispatch \/ Crash
  <2>1. disp' = NoDispatch /\ UNCHANGED <<settings, last>>
    BY <1>8 DEF EndDispatch, Crash
  <2>2. disp'.pc = "idle" /\ disp'.todo = {}
    BY <2>1 DEF NoDispatch
  <2>3. Listed' = {}
    BY <2>2 DEF Listed
  <2> QED BY <1>0, <2>1, <2>2, <2>3 DEF NextFollowsLast, ListedAreDue
<1>9. CASE UNCHANGED <<settings, last, disp>>
  BY <1>0, <1>9 DEF NextFollowsLast, ListedAreDue, Listed
<1> QED
  BY <1>1, <1>2, <1>3, <1>4, <1>5, <1>6, <1>7, <1>8, <1>9
     DEF Next, Dispatcher, vars, Tick, ReadSettings, UpdateFails, DueFails, Restart

THEOREM Invariance == Spec => []IInv
BY InitIInv, StepIInv, PTL DEF Spec

(* Type correctness.                                                       *)
THEOREM TypeCorrect == Spec => []TypeOK
<1>1. IInv => TypeOK
  BY DEF IInv
<1> QED BY <1>1, Invariance, PTL

(* next_report_at is never later than one period after the last report.    *)
THEOREM NextIsOnePeriodOn == Spec => []NextFollowsLast
<1>1. IInv => NextFollowsLast
  BY DEF IInv
<1> QED BY <1>1, Invariance, PTL

(* No step sends a report too early: the user was listed as due, and its   *)
(* next_report_at, if still set, is one period after the last report.      *)
THEOREM NoEarlyReport == Spec => ReportsSpaced
<1> DEFINE Spaced == \A u \in User :
             /\ last'[u] # last[u]
             /\ settings[u].next # Null /\ settings[u].next > last[u].at
             => last'[u].at >= last[u].at + Period[last[u].freq]
<1>1. ASSUME IInv, [Next]_vars PROVE Spaced \/ UNCHANGED vars
  <2>0. /\ last \in [User -> Report] /\ disp \in Dispatch /\ NextFollowsLast
        /\ ListedAreDue /\ settings \in [User -> Settings]
    BY <1>1 DEF IInv, TypeOK
  <2>1. CASE Send \/ SendUnacked
    <3>1. /\ disp.pc = "send" /\ disp.u \in User
          /\ last' = [last EXCEPT ![disp.u] = [at |-> disp.now, freq |-> disp.freq]]
      BY <2>0, <2>1 DEF Send, SendUnacked, Dispatch
    <3>2. disp.u \in Listed
      BY <3>1 DEF Listed
    <3>3. ASSUME NEW u \in User, last'[u] # last[u],
                 settings[u].next # Null, settings[u].next > last[u].at
          PROVE  last'[u].at >= last[u].at + Period[last[u].freq]
      <4>1. u = disp.u /\ last'[u].at = disp.now
        BY <2>0, <3>1, <3>3
      <4>2. settings[u].next <= disp.now
        BY <2>0, <3>2, <3>3, <4>1 DEF ListedAreDue
      <4>3. settings[u].next = last[u].at + Period[last[u].freq]
        <5>1. settings[u].next \in Int /\ last[u].at \in Int
          BY <2>0 DEF Settings, Report, Time, Null
        <5> QED BY <2>0, <3>3, <5>1 DEF NextFollowsLast
      <4> QED BY <4>1, <4>2, <4>3
    <3> QED BY <3>3
  <2>2. CASE UNCHANGED last
    BY <2>2
  <2> QED
    BY <1>1, <2>1, <2>2
       DEF Next, Dispatcher, vars, Tick, Register, ReadSettings, UpdateSettings,
           UpdateFails, StartDispatch, DueFails, GetSettings, SendFails, SendFault,
           SetNextReportAt, SetNextFails, EndDispatch, Crash, Restart
<1>2. IInv /\ [Next]_vars => [Spaced]_vars
  BY <1>1
<1> QED BY <1>2, Invariance, PTL DEF Spec, ReportsSpaced
=============================================================================
