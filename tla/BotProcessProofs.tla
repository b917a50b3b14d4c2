--------------------------- MODULE BotProcessProofs ---------------------------
(* For any migrations, chats, superusers, handlers and bounds: the bot     *)
(* runs on the whole schema, a signup is announced at most once, admin     *)
(* pages go to configured superusers, and the superuser is not refused.    *)
EXTENDS BotProcess, TLAPS

(* The script: what is recorded is applied, and so is everything before    *)
(* the statement at hand.  SchemaReady alone does not say how step came to *)
(* be "run".                                                               *)
SchemaOK ==
  /\ file \in Nat \ {0} /\ at \in Nat \ {0}
  /\ recorded \subseteq Files /\ schema \in [Files -> SUBSET Nat]
  /\ \A f \in Files : schema[f] \subseteq AllOf(f)
  /\ \A f \in recorded : schema[f] = AllOf(f)

ScriptOK ==
  /\ step \in {"file", "apply", "record", "run"} => tracked = TRUE
  /\ step \in {"file", "apply", "record"} => \A f \in Files : f < file => f \in recorded
  /\ step = "file" => at = 1
  /\ step \in {"apply", "record"} => file \in Files
  /\ step = "apply" => at \in AllOf(file) /\ 1 .. at - 1 \subseteq schema[file]
  /\ step = "record" => schema[file] = AllOf(file)
  /\ step = "run" => recorded = Files

-----------------------------------------------------------------------------
LEMMA FilesAre ==
  /\ Len(Stmts) \in Nat
  /\ \A f \in Files : f \in Nat \ {0} /\ f <= Len(Stmts) /\ Stmts[f] \in Nat \ {0}
  /\ \A f \in Nat \ {0} : f <= Len(Stmts) => f \in Files
  BY StartAssumption DEF Files

LEMMA ScriptInit == StartInit => SchemaOK /\ ScriptOK
<1> SUFFICES ASSUME StartInit PROVE SchemaOK /\ ScriptOK
  OBVIOUS
<1>1. PICK n \in 0 .. Len(Stmts) :
        /\ schema = [f \in Files |-> IF f <= n THEN AllOf(f) ELSE {}]
        /\ recorded \in {{}, 1 .. n}
  BY DEF StartInit
<1>2. recorded \subseteq Files /\ \A f \in recorded : f <= n
  BY <1>1, FilesAre DEF Files
<1>3. \A f \in Files : AllOf(f) \subseteq Nat
  BY FilesAre DEF AllOf
<1> QED
  BY <1>1, <1>2, <1>3, FilesAre DEF StartInit, SchemaOK, ScriptOK

(* One statement more: at is the next one of the file.                     *)
LEMMA ApplyKeeps == SchemaOK /\ ScriptOK /\ Apply => SchemaOK' /\ ScriptOK'
<1> SUFFICES ASSUME SchemaOK, ScriptOK, Apply PROVE SchemaOK' /\ ScriptOK'
  OBVIOUS
<1>1. file \in Files /\ Stmts[file] \in Nat /\ at \in 1 .. Stmts[file]
      /\ 1 .. at - 1 \subseteq schema[file]
  BY FilesAre DEF Apply, ScriptOK, AllOf
<1>2. /\ schema'[file] = schema[file] \cup {at}
      /\ \A f \in Files : f # file => schema'[f] = schema[f]
      /\ schema' \in [Files -> SUBSET Nat]
  BY <1>1 DEF Apply, SchemaOK
<1>3. schema'[file] \subseteq AllOf(file) /\ 1 .. at \subseteq schema'[file]
  BY <1>1, <1>2 DEF SchemaOK, AllOf
<1>4. file \in recorded => schema'[file] = AllOf(file)
  BY <1>2, <1>3 DEF SchemaOK
<1>5. SchemaOK'
  <2>1. at + 1 \in Nat \ {0} /\ at' = at + 1 /\ file' = file /\ recorded' = recorded
    BY DEF Apply, SchemaOK
  <2>2. \A f \in Files : schema'[f] \subseteq AllOf(f)
    BY <1>2, <1>3 DEF SchemaOK
  <2>3. \A f \in recorded : schema'[f] = AllOf(f)
    BY <1>2, <1>4 DEF SchemaOK
  <2> QED
    BY <1>2, <2>1, <2>2, <2>3 DEF SchemaOK, Files, AllOf
<1>6. CASE at < Stmts[file]
  <2>1. step' = "apply" /\ file' = file /\ recorded' = recorded /\ tracked' = tracked
        /\ at' = at + 1
    BY <1>6 DEF Apply
  <2>2. at + 1 \in AllOf(file) /\ (at + 1) - 1 = at
    BY <1>1, <1>6 DEF AllOf
  <2>3. step = "apply"
    BY DEF Apply
  <2> QED
    BY <1>1, <1>3, <1>5, <2>1, <2>2, <2>3 DEF ScriptOK, AllOf, Files
<1>7. CASE ~(at < Stmts[file])
  <2>1. at = Stmts[file]
    BY <1>1, <1>7
  <2>2. schema'[file] = AllOf(file)
    BY <1>3, <2>1 DEF AllOf
  <2>3. step' = "record" /\ file' = file /\ recorded' = recorded /\ tracked' = tracked
        /\ step = "apply"
    BY <1>7 DEF Apply
  <2> QED
    BY <1>1, <1>5, <2>2, <2>3 DEF ScriptOK, AllOf, Files
<1> QED
  BY <1>5, <1>6, <1>7

LEMMA ScriptKeeps ==
  SchemaOK /\ ScriptOK /\ (StartStep \/ Stop \/ UNCHANGED startVars)
  => SchemaOK' /\ ScriptOK'
<1> SUFFICES ASSUME SchemaOK, ScriptOK, StartStep \/ Stop \/ UNCHANGED startVars
             PROVE SchemaOK' /\ ScriptOK'
  OBVIOUS
<1> USE DEF SchemaOK, ScriptOK, AllOf, Files
<1>1. CASE Boot \/ Connected \/ Stop
  BY <1>1 DEF Boot, Connected, Stop
<1>2. CASE CreateTable
  BY <1>2, FilesAre DEF CreateTable
<1>3. CASE NextFile
  <2>1. file \in Files
    BY <1>3, FilesAre DEF NextFile
  <2>2. CASE file \in recorded
    BY <1>3, <2>1, <2>2, FilesAre DEF NextFile
  <2>3. CASE file \notin recorded
    BY <1>3, <2>1, <2>3, FilesAre DEF NextFile
  <2> QED
    BY <2>2, <2>3
<1>4. CASE Apply
  BY <1>4, ApplyKeeps
<1>5. CASE Record
  BY <1>5, FilesAre DEF Record
<1>6. CASE Exec
  <2>1. Files \subseteq recorded
    BY <1>6, FilesAre DEF Exec
  <2> QED
    BY <1>6, <2>1 DEF Exec
<1>7. CASE UNCHANGED startVars
  BY <1>7 DEF startVars
<1> QED
  BY <1>1, <1>2, <1>3, <1>4, <1>5, <1>6, <1>7 DEF StartStep

-----------------------------------------------------------------------------
(* The bot.  Telegram's queue: an update main has taken is one it has got. *)
MailOK ==
  /\ mail \in Seq(Chat)
  /\ confirmed \in 0 .. Len(mail) /\ fetched \in 0 .. Len(mail) /\ taken \in Nat
  /\ phase = "slot" => taken \in 1 .. Len(mail)

Roles == {Zero, "user", "superuser"}

(* A superuser is one that has been configured.                            *)
RolesOK ==
  /\ role \in [Chat -> Roles]
  /\ super \in Chat \cup {NoSuper}
  /\ super # NoSuper => super \in granted
  /\ \A c \in Chat : role[c] = "superuser" => c \in granted
  /\ activities \subseteq granted

Local ==
  [pc : {"idle", "upsert", "ensure", "reread", "notify", "audit", "command", "shown"},
   chat : Chat \cup {NoSuper}, role : Roles, new : BOOLEAN, failed : BOOLEAN]

(* A handler's local variables r against the roles in the database, the    *)
(* configured id and those that ever were configured.                      *)
HandlerOK(r, roles, id, ever) ==
  /\ r.pc # "idle" => r.chat \in Chat
  /\ r.role = "superuser" \/ r.pc \in {"ensure", "reread"} => r.chat \in ever
  /\ r.pc = "shown" => r.role = "superuser"
  /\ r.pc = "notify" => r.new
  /\ r.pc \notin {"idle", "upsert"} => roles[r.chat] # Zero
  /\ r.pc = "reread" /\ ~r.failed => roles[r.chat] = "superuser"
  /\ r.pc \in {"notify", "audit", "command"} /\ r.chat = id /\ ~r.failed
     => r.role = "superuser"

HandlersOK ==
  /\ handler \in [Handler -> Local]
  /\ \A h \in Handler : HandlerOK(handler[h], role, super, granted)
  /\ phase = "off" => handler = [h \in Handler |-> Idle]

(* The handler with local variables r is about to announce c.              *)
Announces(r, c) ==
  r.chat = c /\ r.new /\ r.pc \in {"ensure", "reread", "notify"}

(* One handler registers a chat, and only a chat that nobody announced.    *)
NoticesOK ==
  /\ notices \in [Chat -> Nat]
  /\ \A c \in Chat : notices[c] # 0 =>
       /\ notices[c] = 1 /\ role[c] # Zero
       /\ \A h \in Handler : ~Announces(handler[h], c)
  /\ \A c \in Chat : \A g, h \in Handler :
       Announces(handler[g], c) /\ Announces(handler[h], c) => g = h

BotOK == MailOK /\ RolesOK /\ HandlersOK /\ NoticesOK

IInv == SchemaOK /\ ScriptOK /\ BotOK

-----------------------------------------------------------------------------
(* The database never forgets a user or takes the role away.               *)
RoleGrows ==
  /\ role' \in [Chat -> Roles]
  /\ \A c \in Chat : /\ role[c] # Zero => role'[c] # Zero
                     /\ role[c] = "superuser" => role'[c] = "superuser"
                     /\ role'[c] = "superuser" => c \in granted

LEMMA IdleOK ==
  /\ Idle \in Local /\ Idle.pc = "idle"
  /\ \A c : ~Announces(Idle, c)
  /\ \A roles, id, ever : HandlerOK(Idle, roles, id, ever)
  BY DEF Idle, Local, Roles, Zero, Announces, HandlerOK

(* One handler comes to r, the others see a database that has grown.       *)
LEMMA HandlersKeep ==
  ASSUME NEW h \in Handler, NEW r \in Local, HandlersOK, RolesOK, RoleGrows,
         handler' = [handler EXCEPT ![h] = r], HandlerOK(r, role', super, granted),
         handler[h].pc # "idle",
         UNCHANGED <<phase, super, granted>>
  PROVE  HandlersOK'
<1>1. handler' \in [Handler -> Local] /\ handler'[h] = r
      /\ \A g \in Handler : g # h => handler'[g] = handler[g]
  BY DEF HandlersOK
<1>2. ASSUME NEW g \in Handler PROVE HandlerOK(handler[g], role', super, granted)
  BY DEF HandlersOK, RoleGrows, HandlerOK
<1>3. phase # "off"
  BY IdleOK DEF HandlersOK
<1> QED
  BY <1>1, <1>2, <1>3 DEF HandlersOK

(* A handler comes to r and announces no chat it would not have announced. *)
LEMMA NoticesKeep ==
  ASSUME NEW h \in Handler, NEW r, HandlersOK, NoticesOK, RoleGrows,
         handler' = [handler EXCEPT ![h] = r],
         \A c \in Chat : Announces(r, c) => Announces(handler[h], c),
         UNCHANGED notices
  PROVE  NoticesOK'
<1>1. handler'[h] = r /\ \A g \in Handler : g # h => handler'[g] = handler[g]
  BY DEF HandlersOK
<1>2. \A g \in Handler : \A c \in Chat :
        Announces(handler'[g], c) => Announces(handler[g], c)
  BY <1>1
<1> QED
  BY <1>2 DEF NoticesOK, RoleGrows

LEMMA StepKeeps ==
  ASSUME NEW h \in Handler, NEW r \in Local, BotOK, RoleGrows,
         handler' = [handler EXCEPT ![h] = r], HandlerOK(r, role', super, granted),
         handler[h].pc # "idle",
         UNCHANGED <<super, phase, granted, queue>>, activities' \subseteq granted,
         NoticesOK'
  PROVE  BotOK'
<1>1. HandlersOK'
  BY HandlersKeep DEF BotOK
<1>2. MailOK'
  BY DEF BotOK, MailOK, queue
<1>3. RolesOK'
  BY DEF BotOK, RolesOK, RoleGrows
<1> QED
  BY <1>1, <1>2, <1>3 DEF BotOK

LEMMA RoleStays == RolesOK /\ UNCHANGED role => RoleGrows
  BY DEF RolesOK, RoleGrows

LEMMA EnsuredGrows ==
  ASSUME RolesOK, NEW c \in granted, role' = Ensured(c)
  PROVE  RoleGrows
  BY DEF RolesOK, RoleGrows, Ensured, Registered, Zero, Roles

-----------------------------------------------------------------------------
(* The steps of a handler, one lemma each.                                 *)
HandlerFrame == UNCHANGED <<startVars, super, phase, signalled, queue, granted, handled>>

LEMMA UpsertKeeps ==
  ASSUME NEW h \in Handler, BotOK, HandlerFrame,
         Upsert(h), UNCHANGED <<activities, notices>>
  PROVE  BotOK'
<1> DEFINE c   == handler[h].chat
           now == IF Registered(c) THEN role[c] ELSE "user"
           q   == [handler[h] EXCEPT !.role = now, !.new = Inserted(c)]
           r   == [q EXCEPT !.pc = IF c = super THEN "ensure" ELSE AfterUser(q)]
<1>1. /\ handler[h].pc = "upsert" /\ role' = [role EXCEPT ![c] = now]
      /\ handler' = [handler EXCEPT ![h] = r]
  BY DEF Upsert, At, Set
<1>2. c \in Chat /\ handler[h] \in Local
  BY <1>1 DEF BotOK, HandlersOK, HandlerOK
<1>3. now \in {"user", "superuser"} /\ (now = "superuser" => c \in granted)
  BY <1>2 DEF BotOK, RolesOK, Registered, Roles
<1>4. RoleGrows /\ role'[c] = now
  BY <1>1, <1>2, <1>3 DEF BotOK, RolesOK, RoleGrows, Roles, Zero, Registered
<1>5. /\ r.chat = c /\ r.role = now /\ r.new = (role[c] = Zero)
      /\ r.pc \in {"ensure", "notify", "audit"} /\ (r.pc = "notify" => r.new)
      /\ c = super <=> r.pc = "ensure"
      /\ r \in Local
  BY <1>2, <1>3 DEF Local, AfterUser, Inserted, Registered, Roles
<1>6. HandlerOK(r, role', super, granted)
  <2>1. c = super => c \in granted
    BY <1>2, ProcessAssumption DEF BotOK, RolesOK
  <2> HIDE DEF c, now, r
  <2> QED
    BY <2>1, <1>2, <1>3, <1>4, <1>5 DEF HandlerOK, Zero
<1>7. NoticesOK'
  <2>1. handler'[h] = r /\ \A g \in Handler : g # h => handler'[g] = handler[g]
    BY <1>1 DEF BotOK, HandlersOK
  <2>2. \A g \in Handler, d \in Chat : Announces(handler[g], d) => role[d] # Zero
    BY DEF BotOK, HandlersOK, HandlerOK, Announces
  <2>3. \A d \in Chat : Announces(r, d) => d = c /\ role[d] = Zero
    BY <1>5 DEF Announces
  <2>4. \A d \in Chat : role[d] # Zero => role'[d] # Zero
    BY <1>4 DEF RoleGrows
  <2> HIDE DEF r
  <2> QED
    BY <2>1, <2>2, <2>3, <2>4 DEF BotOK, NoticesOK
<1>8. activities' \subseteq granted
  BY DEF BotOK, RolesOK
<1> HIDE DEF r
<1> QED
  BY <1>1, <1>4, <1>5, <1>6, <1>7, <1>8, StepKeeps DEF HandlerFrame

(* Any step that ends the handler.                                         *)
LEMMA ReleaseKeeps ==
  ASSUME NEW h \in Handler, BotOK, RoleGrows, handler[h].pc # "idle",
         HandlerFrame, Release(h), activities' \subseteq granted, UNCHANGED notices
  PROVE  BotOK'
<1>1. handler' = [handler EXCEPT ![h] = Idle]
  BY DEF Release, Set
<1>2. NoticesOK'
  BY <1>1, IdleOK, NoticesKeep DEF BotOK
<1> QED
  BY <1>1, <1>2, IdleOK, StepKeeps DEF HandlerFrame

LEMMA UpsertFailsKeeps ==
  ASSUME NEW h \in Handler, BotOK, HandlerFrame,
         UpsertFails(h), UNCHANGED <<activities, notices>>
  PROVE  BotOK'
<1>1. handler[h].pc = "upsert" /\ handler[h].chat \in Chat
  BY DEF UpsertFails, At, BotOK, HandlersOK, HandlerOK
<1>2. RoleGrows
  BY <1>1 DEF UpsertFails, BotOK, RolesOK, RoleGrows, Roles, Zero, Registered
<1> QED
  BY <1>1, <1>2, ReleaseKeeps DEF UpsertFails, BotOK, RolesOK

LEMMA EnsureKeeps ==
  ASSUME NEW h \in Handler, BotOK, HandlerFrame,
         Ensure(h), UNCHANGED <<activities, notices>>
  PROVE  BotOK'
<1>1. handler[h].pc = "ensure" /\ handler[h] \in Local
  BY DEF Ensure, At, BotOK, HandlersOK
<1>2. /\ handler[h].chat \in granted /\ handler[h].chat \in Chat
      /\ role[handler[h].chat] # Zero
  BY <1>1 DEF BotOK, HandlersOK, HandlerOK
<1>3. activities' \subseteq granted /\ RolesOK /\ HandlersOK /\ NoticesOK
  BY DEF BotOK, RolesOK
<1>4. CASE role' = Ensured(handler[h].chat)
           /\ Set(h, [handler[h] EXCEPT !.pc = "reread"])
  <2> DEFINE r == [handler[h] EXCEPT !.pc = "reread"]
  <2>1. handler' = [handler EXCEPT ![h] = r]
    BY <1>4 DEF Set
  <2>2. /\ r \in Local /\ r.pc = "reread" /\ r.chat = handler[h].chat
        /\ r.role = handler[h].role /\ r.new = handler[h].new
    BY <1>1 DEF Local
  <2>3. RoleGrows
    BY <1>2, <1>3, <1>4, EnsuredGrows
  <2>4. role'[r.chat] = "superuser"
    BY <1>2, <1>4, <2>2 DEF Ensured, Registered
  <2> HIDE DEF r
  <2>5. HandlerOK(r, role', super, granted)
    BY <1>2, <2>2, <2>4 DEF HandlerOK, Zero
  <2>6. \A c \in Chat : Announces(r, c) => Announces(handler[h], c)
    BY <1>1, <2>2 DEF Announces
  <2>7. NoticesOK'
    BY <1>3, <2>1, <2>3, <2>6, NoticesKeep
  <2> QED
    BY <1>1, <1>3, <2>1, <2>2, <2>3, <2>5, <2>7, StepKeeps DEF HandlerFrame
<1>5. CASE UNCHANGED role
           /\ Set(h, [handler[h] EXCEPT !.pc = "reread", !.failed = TRUE])
  <2> DEFINE r == [handler[h] EXCEPT !.pc = "reread", !.failed = TRUE]
  <2>1. handler' = [handler EXCEPT ![h] = r]
    BY <1>5 DEF Set
  <2>2. /\ r \in Local /\ r.pc = "reread" /\ r.chat = handler[h].chat /\ r.failed
        /\ r.role = handler[h].role /\ r.new = handler[h].new
    BY <1>1 DEF Local
  <2>3. RoleGrows
    BY <1>3, <1>5, RoleStays
  <2> HIDE DEF r
  <2>5. HandlerOK(r, role', super, granted)
    BY <1>2, <1>5, <2>2 DEF HandlerOK
  <2>6. \A c \in Chat : Announces(r, c) => Announces(handler[h], c)
    BY <1>1, <2>2 DEF Announces
  <2>7. NoticesOK'
    BY <1>3, <2>1, <2>3, <2>6, NoticesKeep
  <2> QED
    BY <1>1, <1>3, <2>1, <2>2, <2>3, <2>5, <2>7, StepKeeps DEF HandlerFrame
<1> QED
  BY <1>4, <1>5 DEF Ensure

(* A step that leaves the roles alone and announces nothing.               *)
LEMMA MoveKeeps ==
  ASSUME NEW h \in Handler, NEW r \in Local, BotOK, HandlerFrame,
         handler[h].pc # "idle", UNCHANGED <<role, notices>>, Set(h, r),
         HandlerOK(r, role, super, granted), activities' \subseteq granted,
         \A c \in Chat : Announces(r, c) => Announces(handler[h], c)
  PROVE  BotOK'
<1>1. handler' = [handler EXCEPT ![h] = r] /\ RoleGrows
  BY RoleStays DEF Set, BotOK
<1>2. NoticesOK'
  BY <1>1, NoticesKeep DEF BotOK
<1> QED
  BY <1>1, <1>2, StepKeeps DEF HandlerFrame

LEMMA RereadKeeps ==
  ASSUME NEW h \in Handler, BotOK, HandlerFrame,
         Reread(h), UNCHANGED <<activities, notices>>
  PROVE  BotOK'
<1> DEFINE old == handler[h]
<1>1. old.pc = "reread" /\ old \in Local /\ UNCHANGED role
  BY DEF Reread, At, BotOK, HandlersOK, users
<1>2. /\ old.chat \in granted /\ old.chat \in Chat /\ role[old.chat] \in Roles \ {Zero}
      /\ ~old.failed => role[old.chat] = "superuser"
  BY <1>1 DEF BotOK, HandlersOK, HandlerOK, RolesOK
<1>3. PICK r : /\ Set(h, r)
               /\ \/ r = [old EXCEPT !.pc = AfterUser(old), !.role = role[old.chat]]
                  \/ r = [old EXCEPT !.pc = AfterUser(old), !.role = Zero,
                                     !.failed = TRUE]
  BY DEF Reread
<1>4. AfterUser(old) = (IF old.new THEN "notify" ELSE "audit")
  BY DEF AfterUser
<1>5. /\ r \in Local /\ r.chat = old.chat /\ r.new = old.new
      /\ r.pc = (IF old.new THEN "notify" ELSE "audit")
      /\ r.failed \/ (r.role = role[old.chat] /\ ~old.failed)
      /\ r.role \in {Zero, role[old.chat]}
  <2>1. CASE r = [old EXCEPT !.pc = AfterUser(old), !.role = role[old.chat]]
    BY <1>1, <1>2, <1>4, <2>1 DEF Local, Roles, Zero
  <2>2. CASE r = [old EXCEPT !.pc = AfterUser(old), !.role = Zero, !.failed = TRUE]
    BY <1>1, <1>2, <1>4, <2>2 DEF Local, Roles
  <2> QED
    BY <1>3, <2>1, <2>2
<1> HIDE DEF old
<1>6. HandlerOK(r, role, super, granted)
  BY <1>2, <1>5 DEF HandlerOK
<1>7. \A c \in Chat : Announces(r, c) => Announces(old, c)
  BY <1>1, <1>5 DEF Announces
<1>8. activities' \subseteq granted
  BY DEF BotOK, RolesOK
<1> QED
  BY <1>1, <1>3, <1>5, <1>6, <1>7, <1>8, MoveKeeps DEF old

LEMMA NotifyKeeps ==
  ASSUME NEW h \in Handler, BotOK, HandlerFrame, Notify(h)
  PROVE  BotOK'
<1> DEFINE c == handler[h].chat
           r == [handler[h] EXCEPT !.pc = "audit"]
<1>1. /\ handler[h].pc = "notify" /\ handler[h] \in Local /\ UNCHANGED <<role, activities>>
      /\ handler' = [handler EXCEPT ![h] = r]
  BY DEF Notify, At, Set, BotOK, HandlersOK, users
<1>2. /\ r \in Local /\ r.pc = "audit" /\ r.chat = c /\ r.role = handler[h].role
      /\ r.failed = handler[h].failed
  BY <1>1 DEF Local
<1>3. c \in Chat /\ role[c] # Zero /\ HandlerOK(handler[h], role, super, granted)
  BY <1>1 DEF BotOK, HandlersOK, HandlerOK
<1>4. RoleGrows /\ activities' \subseteq granted
  BY <1>1, RoleStays DEF BotOK, RolesOK
<1>5. NoticesOK'
  <2>1. handler'[h] = r /\ \A g \in Handler : g # h => handler'[g] = handler[g]
    BY <1>1 DEF BotOK, HandlersOK
  <2>2. \A d : ~Announces(r, d)
    BY <1>2 DEF Announces
  <2>3. \A g \in Handler, d \in Chat : Announces(handler'[g], d) =>
          g # h /\ Announces(handler[g], d)
    BY <2>1, <2>2
  <2>4. CASE UNCHANGED notices
    BY <1>1, <2>3, <2>4 DEF BotOK, NoticesOK
  <2>5. CASE notices' = [notices EXCEPT ![c] = @ + 1]
    <3>1. Announces(handler[h], c)
      BY <1>1, <1>3 DEF Announces, HandlerOK
    <3>2. notices[c] = 0 /\ notices \in [Chat -> Nat]
      BY <1>3, <3>1 DEF BotOK, NoticesOK
    <3>3. /\ notices' \in [Chat -> Nat] /\ notices'[c] = 1
          /\ \A d \in Chat : d # c => notices'[d] = notices[d]
      BY <1>3, <2>5, <3>2
    <3>4. \A g \in Handler : ~Announces(handler'[g], c)
      BY <1>3, <2>3, <3>1 DEF BotOK, NoticesOK
    <3> HIDE DEF c, r
    <3> QED
      BY <1>1, <1>3, <2>3, <3>3, <3>4 DEF BotOK, NoticesOK
  <2> QED
    BY <2>4, <2>5 DEF Notify
<1> HIDE DEF r
<1>6. HandlerOK(r, role', super, granted)
  BY <1>1, <1>2, <1>3 DEF HandlerOK
<1> QED
  BY <1>1, <1>2, <1>4, <1>5, <1>6, StepKeeps DEF HandlerFrame

(* The activity is logged with the role the handler has.                   *)
LEMMA LoggedGranted ==
  ASSUME NEW h \in Handler, BotOK, Logged(handler[h]), handler[h].pc # "idle"
  PROVE  activities' \subseteq granted
  BY DEF BotOK, HandlersOK, HandlerOK, RolesOK, Logged

LEMMA AuditKeeps ==
  ASSUME NEW h \in Handler, BotOK, HandlerFrame, Audit(h)
  PROVE  BotOK'
<1> DEFINE r == [handler[h] EXCEPT !.pc = "command"]
<1>1. /\ handler[h].pc = "audit" /\ handler[h] \in Local /\ UNCHANGED <<role, notices>>
      /\ HandlerOK(handler[h], role, super, granted)
  BY DEF Audit, At, BotOK, HandlersOK, users
<1>2. activities' \subseteq granted
  BY <1>1, LoggedGranted DEF Audit
<1>3. CASE Set(h, r)
  <2>1. /\ r \in Local /\ r.pc = "command" /\ r.chat = handler[h].chat
        /\ r.role = handler[h].role /\ r.failed = handler[h].failed
    BY <1>1 DEF Local
  <2> HIDE DEF r
  <2>2. HandlerOK(r, role, super, granted) /\ \A c : ~Announces(r, c)
    BY <1>1, <2>1 DEF HandlerOK, Announces
  <2> QED
    BY <1>1, <1>2, <1>3, <2>1, <2>2, MoveKeeps
<1>4. CASE Release(h)
  BY <1>1, <1>2, <1>4, RoleStays, ReleaseKeeps DEF BotOK
<1> QED
  BY <1>3, <1>4 DEF Audit

LEMMA AdminCommandKeeps ==
  ASSUME NEW h \in Handler, BotOK, HandlerFrame, AdminCommand(h)
  PROVE  BotOK'
<1> DEFINE r == [handler[h] EXCEPT !.pc = "shown"]
<1>1. /\ handler[h].pc = "command" /\ handler[h] \in Local /\ UNCHANGED <<role, notices>>
      /\ HandlerOK(handler[h], role, super, granted) /\ activities' \subseteq granted
  BY DEF AdminCommand, At, BotOK, HandlersOK, RolesOK, users
<1>2. CASE handler[h].role = "superuser" /\ Set(h, r)
  <2>1. /\ r \in Local /\ r.pc = "shown" /\ r.chat = handler[h].chat
        /\ r.role = "superuser" /\ r.failed = handler[h].failed
    BY <1>1, <1>2 DEF Local
  <2> HIDE DEF r
  <2>2. HandlerOK(r, role, super, granted) /\ \A c : ~Announces(r, c)
    BY <1>1, <1>2, <2>1 DEF HandlerOK, Announces
  <2> QED
    BY <1>1, <1>2, <2>1, <2>2, MoveKeeps
<1>3. CASE Release(h)
  BY <1>1, <1>3, RoleStays, ReleaseKeeps DEF BotOK
<1> QED
  BY <1>2, <1>3 DEF AdminCommand

LEMMA AdminLogKeeps ==
  ASSUME NEW h \in Handler, BotOK, HandlerFrame, AdminLog(h)
  PROVE  BotOK'
<1>1. handler[h].pc = "shown" /\ UNCHANGED <<role, notices>>
  BY DEF AdminLog, At, users
<1>2. activities' \subseteq granted
  BY <1>1, LoggedGranted DEF AdminLog
<1> QED
  BY <1>1, <1>2, RoleStays, ReleaseKeeps DEF AdminLog, BotOK

LEMMA HandlerKeeps ==
  ASSUME NEW h \in Handler, BotOK, HandlerStep(h)
  PROVE  BotOK'
<1>1. HandlerFrame
  BY DEF HandlerStep, HandlerFrame
<1>2. CASE LoadUser(h)
  BY <1>1, <1>2, UpsertKeeps, UpsertFailsKeeps, EnsureKeeps, RereadKeeps DEF LoadUser
<1> QED
  BY <1>1, <1>2, NotifyKeeps, AuditKeeps, AdminCommandKeeps, AdminLogKeeps
     DEF HandlerStep

-----------------------------------------------------------------------------
(* The steps of main, of Telegram and of docker.                           *)
LEMMA GoneKeeps == BotOK /\ Gone => BotOK'
<1> SUFFICES ASSUME BotOK, Gone PROVE BotOK'
  OBVIOUS
<1>1. /\ UNCHANGED <<mail, confirmed, role, activities, notices, granted>>
      /\ phase' = "off" /\ super' = NoSuper /\ fetched' = confirmed /\ taken' = confirmed
      /\ handler' = [h \in Handler |-> Idle]
  BY DEF Gone, users, past
<1>2. MailOK'
  BY <1>1 DEF BotOK, MailOK
<1>3. RolesOK'
  BY <1>1 DEF BotOK, RolesOK
<1>4. HandlersOK'
  BY <1>1, IdleOK DEF HandlersOK
<1>5. NoticesOK'
  <2>1. \A h \in Handler, c \in Chat : ~Announces(handler'[h], c)
    BY <1>1, IdleOK
  <2> QED
    BY <1>1, <2>1 DEF BotOK, NoticesOK
<1> QED
  BY <1>2, <1>3, <1>4, <1>5 DEF BotOK

(* A new configuration may name another superuser: no handler runs yet.    *)
LEMMA LaunchKeeps == BotOK /\ Launch => BotOK'
<1> SUFFICES ASSUME BotOK, Launch PROVE BotOK'
  OBVIOUS
<1>1. PICK id \in Super : super' = id /\ granted' = granted \cup ({id} \ {NoSuper})
  BY DEF Launch
<1>2. /\ UNCHANGED <<mail, confirmed, fetched, taken, handler, role, activities, notices>>
      /\ phase = "off" /\ phase' = "load"
  BY DEF Launch, queue, users
<1>3. MailOK' /\ NoticesOK'
  BY <1>2 DEF BotOK, MailOK, NoticesOK
<1>4. RolesOK'
  BY <1>1, <1>2, ProcessAssumption DEF BotOK, RolesOK
<1>5. HandlersOK'
  BY <1>2, IdleOK DEF BotOK, HandlersOK
<1> QED
  BY <1>3, <1>4, <1>5 DEF BotOK

LEMMA EnsureAtStartKeeps == BotOK /\ EnsureAtStart => BotOK'
<1> SUFFICES ASSUME BotOK, EnsureAtStart PROVE BotOK'
  OBVIOUS
<1>1. /\ UNCHANGED <<super, mail, confirmed, fetched, taken, handler, activities,
                     notices, granted>>
      /\ phase = "ensure" /\ phase' = "validate"
  BY DEF EnsureAtStart, queue, past
<1>2. RoleGrows
  <2>1. UNCHANGED role \/ (super # NoSuper /\ role' = Ensured(super))
    BY DEF EnsureAtStart
  <2> QED
    BY <2>1, RoleStays, EnsuredGrows DEF BotOK, RolesOK
<1>3. MailOK'
  BY <1>1 DEF BotOK, MailOK
<1>4. RolesOK' /\ NoticesOK'
  BY <1>1, <1>2 DEF BotOK, RolesOK, NoticesOK, RoleGrows
<1>5. HandlersOK'
  <2>1. ASSUME NEW h \in Handler PROVE HandlerOK(handler[h], role', super, granted)
    BY <1>2 DEF BotOK, HandlersOK, RoleGrows, HandlerOK
  <2> QED
    BY <1>1, <2>1 DEF BotOK, HandlersOK
<1> QED
  BY <1>3, <1>4, <1>5 DEF BotOK

(* The handler that starts has read nothing yet.                           *)
LEMMA SpawnKeeps == BotOK /\ Spawn => BotOK'
<1> SUFFICES ASSUME BotOK, Spawn PROVE BotOK'
  OBVIOUS
<1> DEFINE h == CHOOSE g \in Handler : handler[g] = Idle
           r == [Idle EXCEPT !.pc = "upsert", !.chat = mail[taken]]
<1>1. /\ UNCHANGED <<super, mail, confirmed, fetched, taken, role, activities,
                     notices, granted>>
      /\ phase = "slot" /\ phase' = "loop" /\ handler' = [handler EXCEPT ![h] = r]
  BY DEF Spawn, queue, users
<1>2. mail[taken] \in Chat
  BY <1>1 DEF BotOK, MailOK
<1>3. r \in Local /\ r.pc = "upsert" /\ r.chat = mail[taken] /\ r.role = Zero
  BY <1>2 DEF Idle, Local, Roles
<1> HIDE DEF h, r
<1>4. HandlerOK(r, role, super, granted) /\ \A c : ~Announces(r, c)
  BY <1>2, <1>3 DEF HandlerOK, Announces, Zero
<1>5. \A g \in Handler : handler'[g] \in {r, handler[g]}
  BY <1>1 DEF BotOK, HandlersOK
<1>6. MailOK' /\ RolesOK'
  BY <1>1 DEF BotOK, MailOK, RolesOK
<1>7. HandlersOK'
  BY <1>1, <1>3, <1>4, <1>5 DEF BotOK, HandlersOK
<1>8. NoticesOK'
  <2>1. \A g \in Handler : \A c \in Chat :
          Announces(handler'[g], c) => Announces(handler[g], c)
    BY <1>4, <1>5
  <2> QED
    BY <1>1, <2>1 DEF BotOK, NoticesOK
<1> QED
  BY <1>6, <1>7, <1>8 DEF BotOK

(* Main waits, reads its configuration, or takes updates from Telegram.    *)
LEMMA QueueKeeps ==
  ASSUME BotOK, Load \/ Validate \/ GetUpdates \/ Take \/ Signal \/ \E c \in Chat : Send(c)
  PROVE  BotOK'
<1> DEFINE same == <<super, handler, role, activities, notices, granted>>
<1>1. UNCHANGED same /\ phase # "off" /\ phase' # "off"
  BY DEF Load, Validate, GetUpdates, Take, Signal, Send, users, past
<1>2. RolesOK' /\ HandlersOK' /\ NoticesOK'
  BY <1>1 DEF BotOK, RolesOK, HandlersOK, NoticesOK
<1>3. MailOK'
  <2>1. MailOK
    BY DEF BotOK
  <2>2. CASE Load \/ Validate
    BY <2>1, <2>2 DEF MailOK, Load, Validate, queue
  <2>3. CASE Signal
    BY <2>1, <2>3 DEF MailOK, Signal, queue
  <2>4. CASE GetUpdates
    BY <2>1, <2>4 DEF MailOK, GetUpdates
  <2>5. CASE Take
    BY <2>1, <2>5 DEF MailOK, Take
  <2>6. ASSUME NEW c \in Chat, Send(c) PROVE MailOK'
    <3>1. mail' \in Seq(Chat) /\ Len(mail) \in Nat /\ Len(mail') = Len(mail) + 1
      BY <2>1, <2>6 DEF MailOK, Send
    <3>2. UNCHANGED <<confirmed, fetched, taken, phase>>
      BY <2>6 DEF Send
    <3> QED
      BY <2>1, <3>1, <3>2 DEF MailOK
  <2> QED
    BY <2>2, <2>3, <2>4, <2>5, <2>6
<1> QED
  BY <1>2, <1>3 DEF BotOK

-----------------------------------------------------------------------------
LEMMA InitInv == Init => IInv
<1> SUFFICES ASSUME Init PROVE IInv
  OBVIOUS
<1>1. SchemaOK /\ ScriptOK
  BY ScriptInit DEF Init
<1>2. MailOK
  BY DEF Init, BotInit, MailOK
<1>3. RolesOK
  BY DEF Init, BotInit, RolesOK, Roles, Zero
<1>4. HandlersOK
  BY IdleOK DEF Init, BotInit, HandlersOK
<1>5. NoticesOK
  BY IdleOK DEF Init, BotInit, NoticesOK
<1> QED
  BY <1>1, <1>2, <1>3, <1>4, <1>5 DEF IInv, BotOK

LEMMA NextInv == IInv /\ [Next]_allVars => IInv'
<1> SUFFICES ASSUME IInv, [Next]_allVars PROVE IInv'
  OBVIOUS
<1>1. SchemaOK' /\ ScriptOK'
  <2>1. StartStep \/ Stop \/ UNCHANGED startVars
    BY DEF Next, Main, Launch, Load, EnsureAtStart, Validate, GetUpdates, Take, Spawn,
           Send, Signal, Exit, Refuse, Down, HandlerStep, allVars
  <2> QED
    BY <2>1, ScriptKeeps DEF IInv
<1>2. CASE Launch \/ EnsureAtStart \/ Spawn
  BY <1>1, <1>2, LaunchKeeps, EnsureAtStartKeeps, SpawnKeeps DEF IInv
<1>3. CASE Load \/ Validate \/ GetUpdates \/ Take \/ Signal \/ \E c \in Chat : Send(c)
  BY <1>1, <1>3, QueueKeeps DEF IInv
<1>4. CASE Exit \/ Refuse \/ Down
  BY <1>1, <1>4, GoneKeeps DEF IInv, Exit, Refuse, Down
<1>5. CASE \E h \in Handler : HandlerStep(h)
  BY <1>1, <1>5, HandlerKeeps DEF IInv
<1>6. CASE UNCHANGED botVars
  BY <1>1, <1>6 DEF IInv, BotOK, MailOK, RolesOK, HandlersOK, NoticesOK, botVars
<1> QED
  BY <1>2, <1>3, <1>4, <1>5, <1>6 DEF Next, Main, allVars

(* The invariant holds through every start, stop, signal and handler.      *)
THEOREM Invariance == Spec => []IInv
  BY InitInv, NextInv, PTL DEF Spec

(* The bot never runs on a part of the schema: entrypoint.sh.              *)
THEOREM SchemaIsReady == Spec => []SchemaReady
<1>1. IInv => SchemaReady
  BY DEF IInv, SchemaOK, ScriptOK, SchemaReady
<1> QED
  BY <1>1, Invariance, PTL

(* notifySuperuserNewSignup is called once per chat at most.               *)
THEOREM SignupAnnouncedOnce == Spec => []NoticeOnce
<1>1. IInv => NoticeOnce
  BY DEF IInv, BotOK, NoticesOK, NoticeOnce
<1> QED
  BY <1>1, Invariance, PTL

(* The admin pages and the activity log know only configured superusers.   *)
THEOREM AdminIsGranted == Spec => []AdminOnlyGranted
<1>1. IInv => AdminOnlyGranted
  BY DEF IInv, BotOK, HandlersOK, HandlerOK, RolesOK, AdminOnlyGranted, At
<1> QED
  BY <1>1, Invariance, PTL

(* handleMessage refuses the configured superuser after a failed call only. *)
THEOREM SuperuserIsServed == Spec => []SuperuserServed
<1>1. IInv => SuperuserServed
  BY DEF IInv, BotOK, HandlersOK, HandlerOK, SuperuserServed
<1> QED
  BY <1>1, Invariance, PTL
=============================================================================
