----------------------------- MODULE BotProcess -----------------------------
(***************************************************************************)
(* The bot's process from exec to exit, and the first part of every        *)
(* handler.  main loads the configuration, makes the superuser one, checks *)
(* the providers, and then takes updates from Telegram and starts a        *)
(* goroutine for each, at most Workers at a time.  A handler registers the *)
(* user, gives the superuser the role, announces a new user, writes the    *)
(* activity, and answers admin commands to superusers.  What the dialogs   *)
(* then do with the message is in WalletDialog.                            *)
(*                                                                         *)
(* Telegram keeps an update until a later getUpdates confirms it: after a  *)
(* restart it sends those again that were not confirmed, handled or not,   *)
(* and those that were confirmed and not handled are lost.                 *)
(***************************************************************************)
EXTENDS ContainerStart, FiniteSets

CONSTANTS
  Chat,        \* Telegram ids
  Super,       \* values SUPERUSER_TELEGRAM_ID may have
  NoSuper,     \* 0, its default
  Handler,     \* goroutines that handle updates
  Capacities,  \* sizes of updateWorkers to look at (32 in the code)
  MaxUpdates, MaxFaults   \* bounds

ASSUME ProcessAssumption ==
  /\ NoSuper \notin Chat /\ Super \subseteq Chat \cup {NoSuper}
  /\ IsFiniteSet(Handler) /\ Capacities \subseteq 1 .. Cardinality(Handler)
  /\ MaxUpdates \in Nat /\ MaxFaults \in Nat

Zero == ""   \* the role of a User that was not read

VARIABLES
  super,      \* cfg.SuperUserTelegram
  phase,      \* where main is
  signalled,  \* ctx is done
  mail,       \* updates sent to the bot so far: the chat of each
  confirmed,  \* those before it Telegram has forgotten
  fetched,    \* those up to it the process has got
  taken,      \* those up to it main has taken from the channel
  capacity,   \* cap(updateWorkers)
  slots,      \* len(updateWorkers)
  handler,    \* local variables of handleMessage and handleCallback
  role,       \* users: the role of a registered chat
  settled,    \* chats with a row in user_settings
  activities, \* user_activities: the chats on record as superuser
  notices,    \* history: signups announced, per chat
  granted,    \* history: who has been configured as superuser
  handled,    \* history: updates a handler was started for
  faults

botVars ==
  <<super, phase, signalled, mail, confirmed, fetched, taken, capacity, slots, handler,
    role, settled, activities, notices, granted, handled, faults>>
allVars == <<startVars, botVars>>

Idle == [pc |-> "idle", chat |-> NoSuper, role |-> Zero,
         new |-> FALSE, failed |-> FALSE]

Registered(c) == role[c] # Zero

(* A call to the database fails, as every call does once ctx is done.      *)
Fault == IF signalled THEN UNCHANGED faults
                      ELSE faults < MaxFaults /\ faults' = faults + 1

users == <<role, settled>>
past  == <<activities, notices, granted, handled>>
queue == <<mail, confirmed, fetched, taken, capacity>>

-----------------------------------------------------------------------------
(* main before its loop.                                                   *)

Launch ==
  /\ step = "run" /\ phase = "off"
  /\ phase' = "load"
  /\ \E id \in Super :
       /\ super' = id
       /\ granted' = granted \cup ({id} \ {NoSuper})
  /\ UNCHANGED <<startVars, signalled, queue, slots, handler, users, activities,
                 notices, handled, faults>>

(* config.Load succeeds, the database and Telegram answer.                 *)
Load ==
  /\ phase = "load"
  /\ phase' = "ensure"
  /\ UNCHANGED <<startVars, super, signalled, queue, slots, handler, users, past, faults>>

(* Mutant of Ensured: the UPDATE has no WHERE.                             *)
EnsuredAll(id) == [c \in Chat |-> IF Registered(c) THEN "superuser" ELSE Zero]

(* EnsureSuperUserByTelegramID.                                            *)
Ensured(id) ==
  [c \in Chat |-> IF c = id /\ Registered(c) THEN "superuser" ELSE role[c]]

EnsureAtStart ==
  /\ phase = "ensure"
  /\ phase' = "validate"
  /\ \/ role' = (IF super = NoSuper THEN role ELSE Ensured(super)) /\ UNCHANGED faults
     \/ super # NoSuper /\ Fault /\ UNCHANGED role
  /\ UNCHANGED <<startVars, super, signalled, queue, slots, handler, settled, past>>

(* The RPC URL is there; ValidateAll, healthy or not: the bot goes on, in  *)
(* degraded mode.                                                          *)
Validate ==
  /\ phase = "validate"
  /\ phase' = "loop"
  /\ UNCHANGED <<startVars, super, signalled, queue, slots, handler, users, past, faults>>

-----------------------------------------------------------------------------
(* The update loop.                                                        *)

(* One sent while the bot is off waits, like one sent as the loop begins.  *)
Send(c) ==
  /\ phase \in {"loop", "slot"} /\ Len(mail) < MaxUpdates
  /\ mail' = Append(mail, c)
  /\ UNCHANGED <<startVars, super, phase, signalled, confirmed, fetched, taken, capacity,
                 slots, handler, users, past, faults>>

(* getUpdates of GetUpdatesChan: its offset confirms what it got before.   *)
GetUpdates ==
  /\ phase \in {"loop", "slot"}
  /\ confirmed < fetched \/ fetched < Len(mail)
  /\ confirmed' = fetched
  /\ fetched' = Len(mail)
  /\ UNCHANGED <<startVars, super, phase, signalled, mail, taken, capacity, slots, handler,
                 users, past, faults>>

(* Mutant of Take: an update that finds no slot free is dropped.           *)
TakeOrDrop ==
  /\ phase = "loop" /\ taken < fetched
  /\ taken' = taken + 1
  /\ phase' = IF slots < capacity THEN "slot" ELSE "loop"
  /\ UNCHANGED <<startVars, super, signalled, mail, confirmed, fetched, capacity, slots,
                 handler, users, past, faults>>

Take ==
  /\ phase = "loop" /\ taken < fetched
  /\ taken' = taken + 1
  /\ phase' = "slot"
  /\ UNCHANGED <<startVars, super, signalled, mail, confirmed, fetched, capacity, slots,
                 handler, users, past, faults>>

(* A slot is free: the handler starts.                                     *)
Spawn ==
  /\ phase = "slot" /\ slots < capacity
  /\ phase' = "loop" /\ slots' = slots + 1
  /\ handler' = [handler EXCEPT ![CHOOSE h \in Handler : handler[h] = Idle] =
       [Idle EXCEPT !.pc = "upsert", !.chat = mail[taken]]]
  /\ handled' = handled \cup {taken}
  /\ UNCHANGED <<startVars, super, signalled, queue, users, activities, notices,
                 granted, faults>>

Signal ==
  /\ phase # "off" /\ ~signalled
  /\ signalled' = TRUE
  /\ UNCHANGED <<startVars, super, phase, queue, slots, handler, users, past, faults>>

(* The process is gone, with its channel and its goroutines.               *)
Gone ==
  /\ phase' = "off" /\ signalled' = FALSE /\ super' = NoSuper
  /\ fetched' = confirmed /\ taken' = confirmed
  /\ slots' = 0 /\ handler' = [h \in Handler |-> Idle]
  /\ UNCHANGED <<mail, confirmed, capacity, users, past, faults>>

(* select takes ctx.Done().                                                *)
Exit == phase = "loop" /\ signalled /\ Stop /\ Gone

(* log.Fatal: a value is missing or is no number, the database or Telegram *)
(* do not answer; after the superuser's role is set, the RPC URL is bad.   *)
(* docker starts the container again.                                      *)
Refuse == phase \in {"load", "validate"} /\ Stop /\ Gone

(* A panic or a kill; in the script, a call that fails.                    *)
Down == Stop /\ Gone

-----------------------------------------------------------------------------
(* A handler.                                                              *)

At(h, pc) == handler[h].pc = pc
Set(h, r) == handler' = [handler EXCEPT ![h] = r]

(* Mutant of Release: the slot is kept.                                    *)
ReleaseNot(h) == Set(h, Idle) /\ UNCHANGED slots

(* The deferred receive from updateWorkers.                                *)
Release(h) == Set(h, Idle) /\ slots' = slots - 1

AfterUser(r) == IF r.new THEN "notify" ELSE "audit"

(* Mutant of Inserted: by the row of user_settings.                        *)
InsertedSettings(c) == c \notin settled

(* xmax = 0                                                                *)
Inserted(c) == ~Registered(c)

(* UpsertUser: a new user gets the role user, a known one keeps the role;  *)
(* an error of the second INSERT is dropped.                               *)
Upsert(h) ==
  LET c   == handler[h].chat
      now == IF Registered(c) THEN role[c] ELSE "user"
      r   == [handler[h] EXCEPT !.role = now, !.new = Inserted(c)] IN
  /\ At(h, "upsert")
  /\ role' = [role EXCEPT ![c] = now]
  /\ \/ settled' = settled \cup {c} /\ UNCHANGED faults
     \/ Fault /\ UNCHANGED settled
  /\ Set(h, [r EXCEPT !.pc = IF c = super THEN "ensure" ELSE AfterUser(r)])
  /\ UNCHANGED slots

(* It fails, or only its answer is lost: "Could not initialize user."      *)
UpsertFails(h) ==
  LET c == handler[h].chat IN
  /\ At(h, "upsert") /\ Fault
  /\ \/ UNCHANGED role
     \/ role' = [role EXCEPT ![c] = IF Registered(c) THEN @ ELSE "user"]
  /\ Release(h)
  /\ UNCHANGED settled

Ensure(h) ==
  /\ At(h, "ensure")
  /\ \/ /\ role' = Ensured(handler[h].chat)
        /\ Set(h, [handler[h] EXCEPT !.pc = "reread"]) /\ UNCHANGED faults
     \/ /\ Fault /\ UNCHANGED role
        /\ Set(h, [handler[h] EXCEPT !.pc = "reread", !.failed = TRUE])
  /\ UNCHANGED <<slots, settled>>

(* Mutant of Reread: the role UpsertUser returned stays.                   *)
RereadNot(h) ==
  /\ At(h, "reread")
  /\ Set(h, [handler[h] EXCEPT !.pc = AfterUser(handler[h])])
  /\ UNCHANGED <<slots, users, faults>>

(* GetUserByTelegramID; after an error the zero User.                      *)
Reread(h) ==
  LET r == handler[h] IN
  /\ At(h, "reread")
  /\ \/ Set(h, [r EXCEPT !.pc = AfterUser(r), !.role = role[r.chat]]) /\ UNCHANGED faults
     \/ Fault /\ Set(h, [r EXCEPT !.pc = AfterUser(r), !.role = Zero, !.failed = TRUE])
  /\ UNCHANGED <<slots, users>>

LoadUser(h) ==
  /\ Upsert(h) \/ UpsertFails(h) \/ Ensure(h) \/ Reread(h)
  /\ UNCHANGED <<activities, notices>>

(* notifySuperuserNewSignup; when Send fails the notice is lost.           *)
Notify(h) ==
  LET c == handler[h].chat IN
  /\ At(h, "notify")
  /\ \/ notices' = (IF super = NoSuper THEN notices ELSE [notices EXCEPT ![c] = @ + 1])
        /\ UNCHANGED faults
     \/ Fault /\ UNCHANGED notices
  /\ Set(h, [handler[h] EXCEPT !.pc = "audit"])
  /\ UNCHANGED <<slots, users, activities>>

(* AddUserActivity; an error, as the CHECK gives for the zero role, is     *)
(* only logged.                                                            *)
Logged(r) ==
  \/ /\ activities' = IF r.role = "superuser" THEN activities \cup {r.chat} ELSE activities
     /\ UNCHANGED faults
  \/ Fault /\ UNCHANGED activities

(* The message is an admin command or a page button, or it is not.         *)
Audit(h) ==
  /\ At(h, "audit") /\ Logged(handler[h])
  /\ \/ Set(h, [handler[h] EXCEPT !.pc = "command"]) /\ UNCHANGED slots
     \/ Release(h)
  /\ UNCHANGED <<users, notices>>

(* /admin, /admin_users, /admin_activity: the page, or "Superuser only."   *)
AdminCommand(h) ==
  /\ At(h, "command")
  /\ IF handler[h].role = "superuser"
     THEN Set(h, [handler[h] EXCEPT !.pc = "shown"]) /\ UNCHANGED slots
     ELSE Release(h)
  /\ UNCHANGED <<users, activities, notices, faults>>

AdminLog(h) ==
  /\ At(h, "shown") /\ Logged(handler[h])
  /\ Release(h)
  /\ UNCHANGED <<users, notices>>

HandlerStep(h) ==
  /\ LoadUser(h) \/ Notify(h) \/ Audit(h) \/ AdminCommand(h) \/ AdminLog(h)
  /\ UNCHANGED <<startVars, super, phase, signalled, queue, granted, handled>>

-----------------------------------------------------------------------------
BotInit ==
  /\ super = NoSuper /\ phase = "off" /\ signalled = FALSE
  /\ mail = <<>> /\ confirmed = 0 /\ fetched = 0 /\ taken = 0
  /\ capacity \in Capacities /\ slots = 0 /\ handler = [h \in Handler |-> Idle]
  /\ role = [c \in Chat |-> Zero] /\ settled = {}
  /\ activities = {} /\ notices = [c \in Chat |-> 0]
  /\ granted = {} /\ handled = {} /\ faults = 0

Init == StartInit /\ BotInit

Main ==
  \/ StartStep /\ UNCHANGED botVars
  \/ Launch \/ Load \/ EnsureAtStart \/ Validate
  \/ GetUpdates \/ Take \/ Spawn

Next ==
  \/ Main
  \/ \E c \in Chat : Send(c)
  \/ Signal \/ Exit \/ Refuse \/ Down
  \/ \E h \in Handler : HandlerStep(h)

Spec == Init /\ [][Next]_allVars

(* The calls of main and of the handlers return; select is fair between    *)
(* its two cases.                                                          *)
FairSpec ==
  /\ Spec
  /\ WF_allVars(Main) /\ SF_allVars(Exit)
  /\ \A h \in Handler : WF_allVars(HandlerStep(h))

-----------------------------------------------------------------------------
(* A signup is announced at most once, for all handlers that register the  *)
(* chat at the same time, updates delivered again, failed calls and        *)
(* restarts.                                                               *)
NoticeOnce == \A c \in Chat : notices[c] <= 1

(* Admin pages go to chats only that were the configured superuser at some *)
(* start, and only those are on record with that role, however handlers    *)
(* and restarts with another id interleave.                                *)
AdminOnlyGranted ==
  /\ \A h \in Handler : At(h, "shown") => handler[h].chat \in granted
  /\ activities \subseteq granted

(* The configured superuser is refused only when a call about the role     *)
(* failed in that very handler: also with the first message ever.          *)
SuperuserServed ==
  \A h \in Handler :
    handler[h].pc = "command" /\ handler[h].chat = super /\ ~handler[h].failed
    => handler[h].role = "superuser"

(* Once told to stop the process ends, also when main waits for a slot.    *)
ShutdownEnds == signalled ~> phase = "off"

(* An update that Telegram has not forgotten is handled while the process  *)
(* goes on, in a burst longer than the slots as well.                      *)
UpdatesHandled ==
  \A i \in 1 .. MaxUpdates :
    phase = "loop" /\ i \in confirmed + 1 .. Len(mail)
      ~> i \in handled \/ phase = "off"
=============================================================================
