------------------------- MODULE WalletDialogProofs -------------------------
(* For every number of goroutines, chains, coins and texts: the dialogs    *)
(* keep their types, and no overlap of updates and no old button fills in  *)
(* the fields of a setup out of order.                                     *)
EXTENDS WalletDialog, TLAPS

(* What the step of a setup says of its fields.  InOrder alone is not      *)
(* inductive: ChooseChain looks at the step, not at name and address.      *)
Reached(s) ==
  /\ s.step >= 2 => s.name # Unset
  /\ s.step >= 3 => s.address # Unset
  /\ s.step >= 4 => s.chain # Unset
  /\ InOrder(s)

SetupsOK == setup \in [SetupId -> Setup] /\ \A i \in SetupId : Reached(setup[i])

TaskOK(t) == t \in Task /\ Held(t) /\ (t.pc = "insert" => InOrder(t.row))
TasksOK   == task \in [Worker -> Task] /\ \A k \in Worker : TaskOK(task[k])

ChatOK ==
  /\ current \in SetupId \cup {Unset}
  /\ removal \in Text \cup {Unset}
  /\ shown \subseteq Update

WalletsOK == wallets \subseteq Rows /\ \A w \in wallets : w.name \in Text

(* An update that was let through still finds, when it assigns its field,  *)
(* what its check relied on, although others may have acted in between.    *)
Ready(t, s) ==
  /\ t.pc = "setaddress" => s.name # Unset
  /\ t.pc = "set" /\ t.do.op = "chain" => s.name # Unset /\ s.address # Unset
  /\ t.pc = "set" /\ t.do.op \in {"coin", "toggle"} => s.chain # Unset

ReadyOK == \A k \in Worker :
  task[k].pc \in {"setaddress", "set"} => Ready(task[k], The(k))

Shape == SetupsOK /\ TasksOK /\ ChatOK /\ WalletsOK
IInv  == Shape /\ ReadyOK

-----------------------------------------------------------------------------
(* A fresh setup and an idle goroutine are well formed.                    *)
LEMMA FreshOK ==
  /\ NewSetup \in Setup /\ Reached(NewSetup)
  /\ TaskOK(Idle) /\ NoRow \in Rows
<1> USE DialogAssumption
<1>1. NewSetup \in Setup /\ Reached(NewSetup)
  BY DEF NewSetup, Setup, Reached, InOrder
<1>2. NoRow \in Rows
  BY DEF NoRow, Row, NewSetup, Rows
<1>3. Button("text", Blank) \in Update
  BY DEF Update, Message
<1>4. Idle \in Task
  BY <1>2, <1>3 DEF Idle, Task, Place
<1> QED
  BY <1>1, <1>2, <1>4 DEF TaskOK, Held, Idle, Setting

(* What an update carries follows from its kind.                           *)
LEMMA UpdateArgs ==
  ASSUME NEW u \in Update
  PROVE  /\ u.op = "text" => u.arg \in Text
         /\ u.op = "chain" => u.arg \in Chain
         /\ u.op = "coin" => u.arg \in Coin
         /\ u.op = "toggle" => u.arg \in Token
<1> USE DialogAssumption
<1>1. CASE u \in Message
  BY <1>1 DEF Message, Button
<1>2. CASE u \in Menu \cup Confirm
  BY <1>2 DEF Menu, Confirm, Button
<1>3. CASE u \in Chains
  BY <1>3 DEF Chains, Button
<1>4. ASSUME NEW c \in Chain, u \in Coins(c) \cup Tokens(c)
      PROVE  /\ u.op \notin {"text", "chain"}
             /\ u.op = "coin" => u.arg \in Coin
             /\ u.op = "toggle" => u.arg \in Token
  <2>1. CASE u \in Coins(c)
    BY <2>1 DEF Coins, Button
  <2>2. CASE u \in {Button("toggle", t) : t \in Options[c]}
    <3>1. PICK t \in Options[c] : u = Button("toggle", t)
      BY <2>2
    <3>2. t \in Token
      OBVIOUS
    <3> QED
      BY <3>1, <3>2 DEF Button
  <2>3. CASE u \in {Button("done", Unset), Button("skip", Unset), Button("custom", Unset)}
    BY <2>3 DEF Button
  <2> QED
    BY <1>4, <2>1, <2>2, <2>3 DEF Tokens
<1> QED
  BY <1>1, <1>2, <1>3, <1>4 DEF Update

(* Every keyboard the handler sends consists of known buttons.             *)
LEMMA KeyboardsKnown ==
  /\ Menu \subseteq Update /\ Chains \subseteq Update /\ Confirm \subseteq Update
  /\ Button("cancel", Unset) \in Update
  /\ \A c \in Chain : Coins(c) \subseteq Update /\ Tokens(c) \subseteq Update
  BY DEF Update, Menu

-----------------------------------------------------------------------------
(* Changing one setup, or one goroutine, leaves the others well formed.    *)
LEMMA AssignOK ==
  ASSUME SetupsOK, NEW i \in SetupId, NEW s \in Setup, Reached(s),
         setup' = [setup EXCEPT ![i] = s]
  PROVE  SetupsOK'
  BY DEF SetupsOK, Reached, InOrder

LEMMA TaskStepOK ==
  ASSUME TasksOK, NEW k \in Worker, NEW t, TaskOK(t),
         task' = [task EXCEPT ![k] = t]
  PROVE  TasksOK'
  BY DEF TasksOK, TaskOK, Held, InOrder

LEMMA ReturnOK ==
  ASSUME TasksOK, NEW k \in Worker, Return(k)
  PROVE  TasksOK'
  BY FreshOK, TaskStepOK DEF Return

(* The goroutine that acts holds a setup, and its row is that of the setup. *)
LEMMA HoldsSetup ==
  ASSUME IInv, NEW k \in Worker, task[k].pc \in Setting \cup {"act", "insert", "clear"}
  PROVE  /\ task[k].ptr \in SetupId
         /\ The(k) \in Setup /\ Reached(The(k)) /\ Ready(task[k], The(k))
<1>1. task[k].ptr \in SetupId
  BY DEF IInv, Shape, TasksOK, TaskOK, Held, Task
<1>2. The(k) \in Setup /\ Reached(The(k))
  BY <1>1 DEF IInv, Shape, SetupsOK, The
<1>3. Ready(task[k], The(k))
  BY DEF IInv, ReadyOK, Ready
<1> QED BY <1>1, <1>2, <1>3

(* Only the step changes.                                                  *)
LEMMA StepOK ==
  ASSUME NEW m \in Setup, NEW p \in 1 .. 5
  PROVE  LET n == [m EXCEPT !.step = p]
         IN  /\ n \in Setup /\ n.step = p /\ n.name = m.name
             /\ n.address = m.address /\ n.chain = m.chain /\ n.coin = m.coin
             /\ n.saved = m.saved
<1> DEFINE n == [m EXCEPT !.step = p]
<1>1. n \in Setup
  BY DEF Setup
<1>2. n.step = p
  BY DEF Setup
<1>3. n.name = m.name /\ n.address = m.address /\ n.chain = m.chain /\ n.coin = m.coin
      /\ n.saved = m.saved
  BY DEF Setup
<1> QED
  BY <1>1, <1>2, <1>3

(* What the answers make of a setup keeps its shape.                       *)
LEMMA AnsweredOK ==
  ASSUME NEW s \in Setup, Reached(s)
  PROVE  /\ \A t \in Text :
              LET n == [s EXCEPT !.name = t, !.step = 2]
              IN  n \in Setup /\ Reached(n)
         /\ \A t \in Text : s.name # Unset =>
              LET n == [s EXCEPT !.address = t, !.step = 3]
              IN  n \in Setup /\ Reached(n)
         /\ \A c \in Chain : s.name # Unset /\ s.address # Unset =>
              LET n == [s EXCEPT !.chain = c, !.step = 4]
              IN  n \in Setup /\ Reached(n)
         /\ \A c \in Coin : s.chain # Unset =>
              LET n == [s EXCEPT !.coin = c, !.step = 5]
              IN  n \in Setup /\ Reached(n)
<1>1. /\ Unset \notin Text /\ Unset \notin Chain /\ Unset \notin Coin
      /\ s.step \in Nat
  BY DialogAssumption DEF Setup
<1>2. ASSUME NEW t \in Text
      PROVE  LET n == [s EXCEPT !.name = t, !.step = 2]
             IN  n \in Setup /\ Reached(n)
  <2> DEFINE m == [s EXCEPT !.name = t]
             n == [m EXCEPT !.step = 2]
  <2>1. m \in Setup /\ m.name = t /\ m.address = s.address /\ m.chain = s.chain /\ m.coin = s.coin
    BY DEF Setup
  <2>3. 2 \in 1 .. 5
    OBVIOUS
  <2> HIDE DEF m
  <2>2. /\ n \in Setup /\ n.step = 2 /\ n.name = t /\ n.address = s.address
        /\ n.chain = s.chain /\ n.coin = s.coin
    BY <2>1, <2>3, StepOK
  <2> HIDE DEF n
  <2>4. Reached(n)
    BY <1>1, <2>2 DEF Reached, InOrder
  <2> QED
    BY <2>2, <2>4 DEF n, m
<1>3. ASSUME NEW t \in Text, s.name # Unset
      PROVE  LET n == [s EXCEPT !.address = t, !.step = 3]
             IN  n \in Setup /\ Reached(n)
  <2> DEFINE m == [s EXCEPT !.address = t]
             n == [m EXCEPT !.step = 3]
  <2>1. m \in Setup /\ m.address = t /\ m.name = s.name /\ m.chain = s.chain /\ m.coin = s.coin
    BY DEF Setup
  <2>3. 3 \in 1 .. 5
    OBVIOUS
  <2> HIDE DEF m
  <2>2. /\ n \in Setup /\ n.step = 3 /\ n.name = s.name /\ n.address = t
        /\ n.chain = s.chain /\ n.coin = s.coin
    BY <2>1, <2>3, StepOK
  <2> HIDE DEF n
  <2>4. Reached(n)
    BY <1>1, <1>3, <2>2 DEF Reached, InOrder
  <2> QED
    BY <2>2, <2>4 DEF n, m
<1>4. ASSUME NEW c \in Chain, s.name # Unset, s.address # Unset
      PROVE  LET n == [s EXCEPT !.chain = c, !.step = 4]
             IN  n \in Setup /\ Reached(n)
  <2> DEFINE m == [s EXCEPT !.chain = c]
             n == [m EXCEPT !.step = 4]
  <2>1. m \in Setup /\ m.chain = c /\ m.name = s.name /\ m.address = s.address /\ m.coin = s.coin
    BY DEF Setup
  <2>3. 4 \in 1 .. 5
    OBVIOUS
  <2> HIDE DEF m
  <2>2. /\ n \in Setup /\ n.step = 4 /\ n.name = s.name /\ n.address = s.address
        /\ n.chain = c /\ n.coin = s.coin
    BY <2>1, <2>3, StepOK
  <2> HIDE DEF n
  <2>4. Reached(n)
    BY <1>1, <1>4, <2>2 DEF Reached, InOrder
  <2> QED
    BY <2>2, <2>4 DEF n, m
<1>5. ASSUME NEW c \in Coin, s.chain # Unset
      PROVE  LET n == [s EXCEPT !.coin = c, !.step = 5]
             IN  n \in Setup /\ Reached(n)
  <2> DEFINE m == [s EXCEPT !.coin = c]
             n == [m EXCEPT !.step = 5]
  <2>1. m \in Setup /\ m.coin = c /\ m.name = s.name /\ m.address = s.address /\ m.chain = s.chain
    BY DEF Setup
  <2>3. 5 \in 1 .. 5
    OBVIOUS
  <2> HIDE DEF m
  <2>2. /\ n \in Setup /\ n.step = 5 /\ n.name = s.name /\ n.address = s.address
        /\ n.chain = s.chain /\ n.coin = c
    BY <2>1, <2>3, StepOK
  <2> HIDE DEF n
  <2>4. Reached(n)
    BY <1>1, <1>5, <2>2 DEF Reached, InOrder
  <2> QED
    BY <2>2, <2>4 DEF n, m
<1> QED
  BY <1>2, <1>3, <1>4, <1>5

LEMMA RowOK ==
  ASSUME NEW s \in Setup, Reached(s)
  PROVE  Row(s) \in Rows /\ InOrder(Row(s))
  BY DEF Setup, Reached, InOrder, Row, Rows

(* A goroutine about to save has a row in order.                           *)
LEMMA GoInsertOK ==
  ASSUME IInv, NEW k \in Worker, task[k].pc \in {"act", "settokens"},
         NEW s \in Setup, Reached(s),
         task' = [task EXCEPT ![k].pc = "insert", ![k].row = Row(s)]
  PROVE  TasksOK'
<1> DEFINE t == [task[k] EXCEPT !.pc = "insert", !.row = Row(s)]
<1>1. task' = [task EXCEPT ![k] = t]
  BY DEF IInv, Shape, TasksOK, Task
<1>2. Row(s) \in Rows /\ InOrder(Row(s))
  BY RowOK
<1>3. task[k] \in Task /\ task[k].ptr # Unset
  BY DEF IInv, Shape, TasksOK, TaskOK, Held, Setting
<1>4. t \in Task /\ t.pc = "insert" /\ t.row = Row(s) /\ t.ptr # Unset
  BY <1>2, <1>3 DEF Task, Place, Setting
<1>5. TaskOK(t)
  BY <1>2, <1>4 DEF TaskOK, Held
<1> QED
  BY <1>1, <1>5, TaskStepOK DEF IInv, Shape

(* A goroutine that goes on to a place that needs nothing new.             *)
LEMMA GotoOK ==
  ASSUME IInv, NEW k \in Worker, NEW pc \in Setting \cup {"removal", "name", "clear"},
         pc \in Setting \cup {"clear"} => task[k].pc \in {"act", "insert"}, Goto(k, pc)
  PROVE  TasksOK'
<1> DEFINE t == [task[k] EXCEPT !.pc = pc]
<1>1. task' = [task EXCEPT ![k] = t]
  BY DEF IInv, Shape, TasksOK, Task, Goto
<1>2. task[k] \in Task /\ Held(task[k])
  BY DEF IInv, Shape, TasksOK, TaskOK
<1>3. t \in Task /\ t.pc = pc /\ t.ptr = task[k].ptr
  BY <1>2 DEF Task, Place
<1>4. TaskOK(t)
  BY <1>2, <1>3 DEF TaskOK, Held, Setting
<1> QED
  BY <1>1, <1>4, TaskStepOK DEF IInv, Shape

-----------------------------------------------------------------------------
THEOREM DialogInit == Init => IInv
<1> SUFFICES ASSUME Init PROVE IInv
  OBVIOUS
<1>1. SetupsOK
  BY FreshOK DEF Init, SetupsOK
<1>2. TasksOK
  BY FreshOK DEF Init, TasksOK, TaskOK
<1>3. ChatOK
  BY KeyboardsKnown DEF Init, ChatOK
<1>4. ReadyOK
  BY DEF Init, Idle, ReadyOK
<1> QED
  BY <1>1, <1>2, <1>3, <1>4 DEF Init, IInv, Shape, WalletsOK

(* The steps by which a goroutine takes up an update.                      *)
LEMMA ArrivalKeeps ==
  ASSUME IInv, NEW k \in Worker,
         Receive(k) \/ LookupSetup(k) \/ LookupRemoval(k)
  PROVE  Shape'
<1>1. CASE Receive(k)
  <2>1. PICK u \in Message \cup shown :
          task' = [task EXCEPT ![k] = [Idle EXCEPT !.pc = "start", !.do = u]]
    BY <1>1 DEF Receive
  <2>2. u \in Update
    BY DEF Update, IInv, Shape, ChatOK
  <2>3. [Idle EXCEPT !.pc = "start", !.do = u] \in Task
    BY <2>2, FreshOK DEF TaskOK, Task, Place
  <2>4. TaskOK([Idle EXCEPT !.pc = "start", !.do = u])
    BY <2>3, FreshOK DEF TaskOK, Held, Idle, Setting
  <2>5. TasksOK'
    BY <2>1, <2>4, TaskStepOK DEF IInv, Shape
  <2> QED
    BY <1>1, <2>5 DEF Receive, IInv, Shape, SetupsOK, ChatOK, WalletsOK
<1>2. CASE LookupSetup(k)
  <2>1. TasksOK'
    <3>1. CASE current # Unset
      <4> DEFINE t == [task[k] EXCEPT !.pc = "act", !.ptr = current]
      <4>1. task' = [task EXCEPT ![k] = t]
        BY <1>2, <3>1 DEF LookupSetup, IInv, Shape, TasksOK, Task
      <4>2. task[k] \in Task /\ current \in SetupId
        BY <3>1 DEF IInv, Shape, TasksOK, TaskOK, ChatOK
      <4>3. t \in Task /\ t.pc = "act" /\ t.ptr = current
        BY <4>2 DEF Task, Place
      <4>4. TaskOK(t)
        BY <3>1, <4>3 DEF TaskOK, Held
      <4> QED
        BY <4>1, <4>4, TaskStepOK DEF IInv, Shape
    <3>2. CASE current = Unset
      BY <1>2, <3>2, GotoOK, ReturnOK DEF LookupSetup, IInv, Shape, Setting
    <3> QED
      BY <3>1, <3>2
  <2> QED
    BY <1>2, <2>1 DEF LookupSetup, IInv, Shape, SetupsOK, ChatOK, WalletsOK
<1>3. CASE LookupRemoval(k)
  <2>1. TasksOK'
    BY <1>3, GotoOK, ReturnOK DEF LookupRemoval, IInv, Shape, Setting
  <2> QED
    BY <1>3, <2>1 DEF LookupRemoval, IInv, Shape, SetupsOK, ChatOK, WalletsOK
<1> QED
  BY <1>1, <1>2, <1>3

(* The texts the setup takes: cancel, name, address, tokens, or nothing.   *)
LEMMA TextKeeps ==
  ASSUME IInv, NEW k \in Worker,
         \/ CancelByText(k) \/ CheckText(k) \/ GiveName(k) \/ GiveAddress(k)
         \/ GiveTokens(k)
  PROVE  Shape'
<1> USE DialogAssumption
<1> DEFINE s == The(k)
<1>1. /\ task[k].pc \in Setting \cup {"act"} /\ task[k].do.op = "text"
      /\ task[k].ptr \in SetupId /\ s \in Setup /\ Reached(s) /\ Ready(task[k], s)
  <2>1. task[k].pc \in Setting \cup {"act"} /\ task[k].do.op = "text"
    BY DEF CancelByText, GiveName, GiveAddress, GiveTokens, CheckText, At, Setting
  <2> QED
    BY <2>1, HoldsSetup
<1>2. Arg(k) \in Text
  <2>1. task[k].do \in Update
    BY DEF IInv, Shape, TasksOK, Task
  <2> QED
    BY <1>1, <2>1, UpdateArgs DEF Arg
<1>3. CASE CancelByText(k)
  <2>1. TasksOK'
    BY <1>3, ReturnOK DEF CancelByText, IInv, Shape
  <2> QED
    BY <1>3, <2>1 DEF CancelByText, IInv, Shape, SetupsOK, ChatOK, WalletsOK
<1>4. CASE GiveName(k)
  <2> DEFINE n == [s EXCEPT !.name = Arg(k), !.step = 2]
  <2>1. n \in Setup /\ Reached(n)
    BY <1>1, <1>2, AnsweredOK
  <2>2. SetupsOK'
    BY <1>1, <1>4, <2>1, AssignOK DEF GiveName, Assign, IInv, Shape
  <2>3. TasksOK'
    BY <1>4, ReturnOK DEF GiveName, IInv, Shape
  <2> QED
    BY <1>4, <2>2, <2>3 DEF GiveName, IInv, Shape, ChatOK, WalletsOK
<1>5. CASE GiveAddress(k)
  <2> DEFINE n == [s EXCEPT !.address = Arg(k), !.step = 3]
  <2>1. n \in Setup /\ Reached(n)
    BY <1>1, <1>2, <1>5, AnsweredOK DEF GiveAddress, At, Ready
  <2>2. SetupsOK'
    BY <1>1, <1>5, <2>1, AssignOK DEF GiveAddress, Assign, IInv, Shape
  <2>3. TasksOK'
    BY <1>5, ReturnOK DEF GiveAddress, IInv, Shape
  <2> QED
    BY <1>5, <2>2, <2>3, KeyboardsKnown DEF GiveAddress, Show, IInv, Shape, ChatOK, WalletsOK
<1>6. CASE GiveTokens(k)
  <2> DEFINE n == [s EXCEPT !.custom = FALSE, !.tokens = @ \cup Csv[Arg(k)]]
  <2>1. n \in Setup /\ Reached(n)
    <3>1. s.tokens \cup Csv[Arg(k)] \in SUBSET Token
      BY <1>1, <1>2 DEF Setup
    <3> QED
      BY <1>1, <3>1 DEF Setup, Reached, InOrder
  <2>2. SetupsOK'
    BY <1>1, <1>6, <2>1, AssignOK DEF GiveTokens, Assign, IInv, Shape
  <2>3. TasksOK'
    BY <1>1, <1>6, <2>1, GoInsertOK DEF GiveTokens, At
  <2> QED
    BY <1>6, <2>2, <2>3 DEF GiveTokens, IInv, Shape, ChatOK, WalletsOK
<1>7. CASE CheckText(k)
  <2>1. TasksOK'
    BY <1>7, GotoOK, ReturnOK DEF CheckText, At, Setting, IInv, Shape
  <2> QED
    BY <1>7, <2>1 DEF CheckText, IInv, Shape, SetupsOK, ChatOK, WalletsOK
<1> QED
  BY <1>3, <1>4, <1>5, <1>6, <1>7

(* A press of a setup's button: it is checked, then changes the setup and  *)
(* sends a keyboard, or saves the setup.                                   *)
LEMMA PressKeeps ==
  ASSUME IInv, NEW k \in Worker,
         \/ CheckPress(k) \/ ChooseChain(k) \/ ChooseCoin(k) \/ ToggleToken(k)
         \/ CustomTokens(k) \/ Finish(k)
  PROVE  Shape'
<1> USE DialogAssumption
<1> DEFINE s == The(k)
<1>1. /\ task[k].pc \in {"act", "set"}
      /\ task[k].ptr \in SetupId /\ s \in Setup /\ Reached(s) /\ Ready(task[k], s)
  <2>1. task[k].pc \in {"act", "set"}
    BY DEF CheckPress, ChooseChain, ChooseCoin, ToggleToken, CustomTokens, Finish, At
  <2> QED
    BY <2>1, HoldsSetup DEF Setting
<1>2. task[k].do \in Update
  BY DEF IInv, Shape, TasksOK, Task
<1>3. s.chain # Unset => s.chain \in Chain
  BY <1>1 DEF Setup
<1>4. ASSUME NEW n \in Setup, Reached(n), Assign(k, n), Return(k),
             shown' \subseteq Update, UNCHANGED <<current, removal, wallets>>
      PROVE  Shape'
  <2>1. SetupsOK'
    BY <1>1, <1>4, AssignOK DEF Assign, IInv, Shape
  <2>2. TasksOK'
    BY <1>4, ReturnOK DEF IInv, Shape
  <2> QED
    BY <1>4, <2>1, <2>2 DEF IInv, Shape, ChatOK, WalletsOK
<1>5. shown \subseteq Update
  BY DEF IInv, Shape, ChatOK
<1>6. CASE CheckPress(k)
  <2>1. TasksOK'
    BY <1>6, GotoOK, ReturnOK DEF CheckPress, At, Setting, IInv, Shape
  <2> QED
    BY <1>6, <2>1 DEF CheckPress, IInv, Shape, SetupsOK, ChatOK, WalletsOK
<1>7. CASE ChooseChain(k)
  <2> DEFINE n == [s EXCEPT !.chain = Arg(k), !.step = 4]
  <2>1. Arg(k) \in Chain
    BY <1>2, <1>7, UpdateArgs DEF ChooseChain, At, Arg
  <2>2. n \in Setup /\ Reached(n)
    BY <1>1, <1>7, <2>1, AnsweredOK DEF ChooseChain, At, Ready
  <2>3. shown' \subseteq Update
    BY <1>5, <1>7, <2>1, KeyboardsKnown DEF ChooseChain, Show
  <2> QED
    BY <1>4, <1>7, <2>2, <2>3 DEF ChooseChain
<1>8. CASE ChooseCoin(k)
  <2> DEFINE n == [s EXCEPT !.coin = Arg(k), !.step = 5]
  <2>1. Arg(k) \in Coin /\ s.chain # Unset
    BY <1>1, <1>2, <1>8, UpdateArgs DEF ChooseCoin, At, Arg, Ready
  <2>2. n \in Setup /\ Reached(n)
    BY <1>1, <2>1, AnsweredOK
  <2>3. shown' \subseteq Update
    BY <1>3, <1>5, <1>8, <2>1, KeyboardsKnown DEF ChooseCoin, Show
  <2> QED
    BY <1>4, <1>8, <2>2, <2>3 DEF ChooseCoin
<1>9. CASE ToggleToken(k)
  <2> DEFINE n == [s EXCEPT !.tokens = Toggled(@, Arg(k))]
  <2>1. Arg(k) \in Token /\ s.chain # Unset
    BY <1>1, <1>2, <1>9, UpdateArgs DEF ToggleToken, At, Arg, Ready
  <2>2. Toggled(s.tokens, Arg(k)) \in SUBSET Token
    BY <1>1, <2>1 DEF Setup, Toggled
  <2>3. n \in Setup /\ Reached(n)
    BY <1>1, <2>2 DEF Setup, Reached, InOrder
  <2>4. shown' \subseteq Update
    BY <1>3, <1>5, <1>9, <2>1, KeyboardsKnown DEF ToggleToken, Show
  <2> QED
    BY <1>4, <1>9, <2>3, <2>4 DEF ToggleToken
<1>10. CASE CustomTokens(k)
  <2> DEFINE n == [s EXCEPT !.custom = TRUE]
  <2>1. n \in Setup /\ Reached(n)
    BY <1>1 DEF Setup, Reached, InOrder
  <2> QED
    BY <1>4, <1>5, <1>10, <2>1 DEF CustomTokens
<1>11. CASE Finish(k)
  <2>1. TasksOK'
    BY <1>1, <1>11, GoInsertOK DEF Finish, At
  <2> QED
    BY <1>11, <2>1 DEF Finish, IInv, Shape, SetupsOK, ChatOK, WalletsOK
<1> QED
  BY <1>6, <1>7, <1>8, <1>9, <1>10, <1>11

(* What AddWallet leaves in the table are rows with a name.                *)
LEMMA UpsertOK ==
  ASSUME WalletsOK, NEW r \in Rows
  PROVE  /\ Upsert(Stored(r)) \subseteq Rows
         /\ \A w \in Upsert(Stored(r)) : w.name \in Text
<1> USE DialogAssumption
<1> DEFINE nm == IF r.name = Unset THEN Blank ELSE r.name
           ad == IF r.address = Unset THEN Blank ELSE r.address
           q  == Stored(r)
           same == {w \in wallets : SameKey(w, q)}
           tk == q.tokens \cup UNION {w.tokens : w \in same}
           v  == [q EXCEPT !.tokens = tk]
<1>1. nm \in Text /\ ad \in Text
  BY DEF Rows
<1>2. q = [[r EXCEPT !.name = nm] EXCEPT !.address = ad]
  BY DEF Stored
<1> HIDE DEF nm, ad
<1>3. [r EXCEPT !.name = nm] \in Rows /\ [r EXCEPT !.name = nm].name = nm
  BY <1>1 DEF Rows
<1>4. q \in Rows /\ q.name = nm
  <2> DEFINE m == [r EXCEPT !.name = nm]
  <2>1. m \in Rows /\ m.name = nm
    BY <1>3
  <2>2. q = [m EXCEPT !.address = ad]
    BY <1>2
  <2> HIDE DEF m, q
  <2> QED
    BY <1>1, <2>1, <2>2 DEF Rows
<1> HIDE DEF q
<1>5. tk \in SUBSET Token
  BY <1>4 DEF WalletsOK, Rows
<1> HIDE DEF tk
<1>6. v \in Rows /\ v.name = nm
  BY <1>4, <1>5 DEF Rows
<1>7. Upsert(q) = (wallets \ same) \cup {v}
  BY DEF Upsert, tk
<1> HIDE DEF v, same
<1>8. Upsert(q) \subseteq Rows /\ \A w \in Upsert(q) : w.name \in Text
  BY <1>1, <1>6, <1>7 DEF WalletsOK
<1> QED
  BY <1>8 DEF q

(* Saving a setup and forgetting it.                                       *)
LEMMA SaveKeeps ==
  ASSUME IInv, NEW k \in Worker, Insert(k) \/ InsertFails(k) \/ Clear(k)
  PROVE  Shape'
<1>1. CASE Insert(k)
  <2> DEFINE n == [The(k) EXCEPT !.saved = TRUE]
  <2>1. /\ task[k].ptr \in SetupId /\ The(k) \in Setup /\ Reached(The(k))
        /\ task[k].row \in Rows
    BY <1>1, HoldsSetup DEF Insert, IInv, Shape, TasksOK, Task
  <2>2. n \in Setup /\ Reached(n)
    BY <2>1 DEF Setup, Reached, InOrder
  <2>3. SetupsOK'
    BY <1>1, <2>1, <2>2, AssignOK DEF Insert, Assign, IInv, Shape
  <2>4. TasksOK'
    BY <1>1, GotoOK DEF Insert
  <2>5. WalletsOK'
    BY <1>1, <2>1, UpsertOK DEF Insert, IInv, Shape, WalletsOK
  <2> QED
    BY <1>1, <2>3, <2>4, <2>5 DEF Insert, IInv, Shape, ChatOK
<1>2. CASE InsertFails(k)
  <2>1. TasksOK'
    BY <1>2, GotoOK DEF InsertFails
  <2> QED
    BY <1>2, <2>1 DEF InsertFails, IInv, Shape, SetupsOK, ChatOK, WalletsOK
<1>3. CASE Clear(k)
  <2>1. TasksOK'
    BY <1>3, ReturnOK DEF Clear, IInv, Shape
  <2> QED
    BY <1>3, <2>1 DEF Clear, IInv, Shape, SetupsOK, ChatOK, WalletsOK
<1> QED
  BY <1>1, <1>2, <1>3

(* The buttons of the menu and of the confirmation.                        *)
LEMMA MenuKeeps ==
  ASSUME IInv, NEW k \in Worker,
         \/ AddPressed(k) \/ CancelPressed(k) \/ RemovePressed(k) \/ KeepPressed(k)
  PROVE  Shape'
<1>1. TasksOK'
  BY ReturnOK DEF AddPressed, CancelPressed, RemovePressed, KeepPressed, IInv, Shape
<1>2. CASE AddPressed(k)
  <2>1. PICK i \in SetupId : setup' = [setup EXCEPT ![i] = NewSetup] /\ current' = i
    BY <1>2 DEF AddPressed
  <2>2. SetupsOK'
    BY <2>1, FreshOK, AssignOK DEF IInv, Shape
  <2> QED
    BY <1>1, <1>2, <2>1, <2>2, KeyboardsKnown
    DEF AddPressed, Show, IInv, Shape, ChatOK, WalletsOK
<1>3. CASE CancelPressed(k)
  BY <1>1, <1>3 DEF CancelPressed, IInv, Shape, SetupsOK, ChatOK, WalletsOK
<1>4. CASE RemovePressed(k)
  BY <1>1, <1>4, DialogAssumption DEF RemovePressed, IInv, Shape, SetupsOK, ChatOK, WalletsOK
<1>5. CASE KeepPressed(k)
  BY <1>1, <1>5 DEF KeepPressed, IInv, Shape, SetupsOK, ChatOK, WalletsOK
<1> QED
  BY <1>2, <1>3, <1>4, <1>5

(* Naming the wallets to remove, and removing them.                        *)
LEMMA RemovalKeeps ==
  ASSUME IInv, NEW k \in Worker,
         \/ NameRemoval(k) \/ ConfirmPressed(k) \/ Delete(k) \/ DeleteFails(k)
  PROVE  Shape'
<1> USE DialogAssumption
<1>1. CASE NameRemoval(k)
  <2>1. TasksOK'
    BY <1>1, ReturnOK DEF NameRemoval, IInv, Shape
  <2>2. Arg(k) \in Text
    <3>1. task[k].do \in Update
      BY DEF IInv, Shape, TasksOK, Task
    <3> QED
      BY <1>1, <3>1, UpdateArgs DEF Arg, NameRemoval, At
  <2> QED
    BY <1>1, <2>1, <2>2, KeyboardsKnown
    DEF NameRemoval, Show, IInv, Shape, SetupsOK, ChatOK, WalletsOK
<1>2. CASE ConfirmPressed(k)
  <2>1. TasksOK'
    <3>1. CASE removal \in {Unset, Blank}
      BY <1>2, <3>1, ReturnOK DEF ConfirmPressed, IInv, Shape
    <3>2. CASE removal \notin {Unset, Blank}
      <4> DEFINE r == [task[k].row EXCEPT !.name = removal]
                 t == [[task[k] EXCEPT !.pc = "delete"] EXCEPT !.row = r]
      <4>1. task' = [task EXCEPT ![k] = t]
        BY <1>2, <3>2 DEF ConfirmPressed, IInv, Shape, TasksOK, Task
      <4>2. task[k] \in Task /\ task[k].row \in Rows /\ removal \in Text \ {Blank}
        BY <3>2 DEF IInv, Shape, TasksOK, TaskOK, Task, ChatOK
      <4>3. r \in Rows /\ r.name = removal
        BY <4>2 DEF Rows
      <4> HIDE DEF r
      <4>4. t \in Task /\ t.pc = "delete" /\ t.row = r
        BY <4>2, <4>3 DEF Task, Place
      <4>5. TaskOK(t)
        BY <4>2, <4>3, <4>4 DEF TaskOK, Held, Setting
      <4> QED
        BY <4>1, <4>5, TaskStepOK DEF IInv, Shape
    <3> QED
      BY <3>1, <3>2
  <2> QED
    BY <1>2, <2>1 DEF ConfirmPressed, IInv, Shape, SetupsOK, ChatOK, WalletsOK
<1>3. CASE Delete(k)
  <2>1. TasksOK'
    BY <1>3, ReturnOK DEF Delete, IInv, Shape
  <2> QED
    BY <1>3, <2>1 DEF Delete, IInv, Shape, SetupsOK, ChatOK, WalletsOK
<1>4. CASE DeleteFails(k)
  <2>1. TasksOK'
    BY <1>4, ReturnOK DEF DeleteFails, IInv, Shape
  <2> QED
    BY <1>4, <2>1 DEF DeleteFails, IInv, Shape, SetupsOK, ChatOK, WalletsOK
<1> QED
  BY <1>1, <1>2, <1>3, <1>4

(* A restart loses the setups and the goroutines, not the keyboards.       *)
LEMMA RestartKeeps ==
  ASSUME IInv, Restart
  PROVE  Shape'
<1>1. SetupsOK'
  BY FreshOK DEF Restart, SetupsOK
<1>2. TasksOK'
  BY FreshOK DEF Restart, TasksOK, TaskOK
<1> QED
  BY <1>1, <1>2 DEF Restart, IInv, Shape, ChatOK, WalletsOK

-----------------------------------------------------------------------------
(* The coin of a setup is that of its chain, and was when it was checked.  *)
PairOK(s) == s.step = 5 => s.chain \in Chain /\ s.coin = BaseCoin[s.chain]
Matches(k) == The(k).chain \in Chain /\ BaseCoin[The(k).chain] = Arg(k)

(* A field that is filled in stays so.                                     *)
Grows(s, n) ==
  /\ s.name # Unset => n.name # Unset
  /\ s.address # Unset => n.address # Unset
  /\ s.chain # Unset => n.chain # Unset

(* What a step does to the setups: nothing, a new one where no goroutine   *)
(* holds one, or an edit of the one in hand, which empties no field, saves *)
(* nothing unless it is the insert, and keeps a coin of its chain as long  *)
(* as a coin that is taken still matches.                                  *)
Edits(k, n) ==
  /\ setup' = [setup EXCEPT ![task[k].ptr] = n]
  /\ Grows(The(k), n)
  /\ PairOK(The(k)) /\ (ChooseCoin(k) => Matches(k)) => PairOK(n)
  /\ ~Insert(k) => n.saved = The(k).saved

Renews(i) ==
  /\ setup' = [setup EXCEPT ![i] = NewSetup] /\ current' = i
  /\ \A j \in Worker : task[j].ptr # i

LEMMA EditsAre ==
  ASSUME IInv, NEW k \in Worker, SetupStep(k)
  PROVE  \/ UNCHANGED setup
         \/ \E i \in SetupId : Renews(i)
         \/ /\ task[k].pc \in Setting \cup {"insert"} /\ task[k].ptr \in SetupId
            /\ \E n \in Setup : Edits(k, n)
<1> DEFINE s == The(k)
<1>1. CASE task[k].pc \in Setting \cup {"insert"}
  <2>0. /\ task[k].ptr \in SetupId /\ s \in Setup /\ Reached(s)
        /\ task[k].do \in Update
    BY <1>1, HoldsSetup DEF IInv, Shape, TasksOK, Task
  <2>1. CASE GiveName(k)
    <3> DEFINE m == [s EXCEPT !.name = Arg(k)]
           n == [m EXCEPT !.step = 2]
    <3>1. Arg(k) \in Text
      BY <2>0, <2>1, UpdateArgs DEF Arg, GiveName, At
    <3>2. m \in Setup /\ m.saved = s.saved /\ m.name = Arg(k) /\ m.address = s.address /\ m.chain = s.chain
      BY <2>0, <3>1 DEF Setup
    <3>3. 2 \in 1 .. 5
      OBVIOUS
    <3>4. /\ n \in Setup /\ n.step = 2 /\ n.saved = s.saved /\ n.name = Arg(k)
          /\ n.address = s.address /\ n.chain = s.chain
      <4> HIDE DEF m
      <4> QED BY <3>2, <3>3, StepOK
    <3>5. setup' = [setup EXCEPT ![task[k].ptr] = n]
      BY <2>1 DEF GiveName, Assign
    <3>6. Grows(s, n)
      <4> HIDE DEF n, m
      <4> QED BY <3>1, <3>4, DialogAssumption DEF Grows
    <3> HIDE DEF n, m
    <3>7. PairOK(n)
      BY <3>4 DEF PairOK
    <3> QED BY <1>1, <2>0, <3>4, <3>5, <3>6, <3>7 DEF Edits
  <2>2. CASE GiveAddress(k)
    <3> DEFINE m == [s EXCEPT !.address = Arg(k)]
           n == [m EXCEPT !.step = 3]
    <3>1. Arg(k) \in Text
      BY <2>0, <2>2, UpdateArgs DEF Arg, GiveAddress, At
    <3>2. m \in Setup /\ m.saved = s.saved /\ m.address = Arg(k) /\ m.name = s.name /\ m.chain = s.chain
      BY <2>0, <3>1 DEF Setup
    <3>3. 3 \in 1 .. 5
      OBVIOUS
    <3>4. /\ n \in Setup /\ n.step = 3 /\ n.saved = s.saved /\ n.address = Arg(k)
          /\ n.name = s.name /\ n.chain = s.chain
      <4> HIDE DEF m
      <4> QED BY <3>2, <3>3, StepOK
    <3>5. setup' = [setup EXCEPT ![task[k].ptr] = n]
      BY <2>2 DEF GiveAddress, Assign
    <3>6. Grows(s, n)
      <4> HIDE DEF n, m
      <4> QED BY <3>1, <3>4, DialogAssumption DEF Grows
    <3> HIDE DEF n, m
    <3>7. PairOK(n)
      BY <3>4 DEF PairOK
    <3> QED BY <1>1, <2>0, <3>4, <3>5, <3>6, <3>7 DEF Edits
  <2>3. CASE GiveTokens(k)
    <3> DEFINE n == [s EXCEPT !.custom = FALSE, !.tokens = @ \cup Csv[Arg(k)]]
    <3>1. Arg(k) \in Text
      BY <2>0, <2>3, UpdateArgs DEF Arg, GiveTokens, At
    <3>2. s.tokens \cup Csv[Arg(k)] \in SUBSET Token
      BY <2>0, <3>1, DialogAssumption DEF Setup
    <3>3. /\ n \in Setup /\ n.step = s.step /\ n.chain = s.chain /\ n.coin = s.coin
          /\ n.saved = s.saved /\ n.name = s.name /\ n.address = s.address
      BY <2>0, <3>2 DEF Setup
    <3>4. setup' = [setup EXCEPT ![task[k].ptr] = n]
      BY <2>3 DEF GiveTokens, Assign
    <3> HIDE DEF n
    <3> QED BY <1>1, <2>0, <3>3, <3>4 DEF Edits, PairOK, Grows
  <2>4. CASE ChooseChain(k)
    <3> DEFINE m == [s EXCEPT !.chain = Arg(k)]
           n == [m EXCEPT !.step = 4]
    <3>1. Arg(k) \in Chain
      BY <2>0, <2>4, UpdateArgs DEF Arg, ChooseChain, At
    <3>2. m \in Setup /\ m.saved = s.saved /\ m.chain = Arg(k) /\ m.name = s.name /\ m.address = s.address
      BY <2>0, <3>1 DEF Setup
    <3>3. 4 \in 1 .. 5
      OBVIOUS
    <3>4. /\ n \in Setup /\ n.step = 4 /\ n.saved = s.saved /\ n.chain = Arg(k)
          /\ n.name = s.name /\ n.address = s.address
      <4> HIDE DEF m
      <4> QED BY <3>2, <3>3, StepOK
    <3>5. setup' = [setup EXCEPT ![task[k].ptr] = n]
      BY <2>4 DEF ChooseChain, Assign
    <3>6. Grows(s, n)
      <4> HIDE DEF n, m
      <4> QED BY <3>1, <3>4, DialogAssumption DEF Grows
    <3> HIDE DEF n, m
    <3>7. PairOK(n)
      BY <3>4 DEF PairOK
    <3> QED BY <1>1, <2>0, <3>4, <3>5, <3>6, <3>7 DEF Edits
  <2>5. CASE ChooseCoin(k)
    <3> DEFINE m == [s EXCEPT !.coin = Arg(k)]
           n == [m EXCEPT !.step = 5]
    <3>1. Arg(k) \in Coin
      BY <2>0, <2>5, UpdateArgs DEF Arg, ChooseCoin, At
    <3>2. m \in Setup /\ m.saved = s.saved /\ m.coin = Arg(k) /\ m.name = s.name /\ m.address = s.address /\ m.chain = s.chain
      BY <2>0, <3>1 DEF Setup
    <3>3. 5 \in 1 .. 5
      OBVIOUS
    <3>4. /\ n \in Setup /\ n.step = 5 /\ n.saved = s.saved /\ n.coin = Arg(k)
          /\ n.name = s.name /\ n.address = s.address /\ n.chain = s.chain
      <4> HIDE DEF m
      <4> QED BY <3>2, <3>3, StepOK
    <3>5. setup' = [setup EXCEPT ![task[k].ptr] = n]
      BY <2>5 DEF ChooseCoin, Assign
    <3>6. Grows(s, n)
      <4> HIDE DEF n, m
      <4> QED BY <3>1, <3>4, DialogAssumption DEF Grows
    <3>7. Matches(k) => PairOK(n)
      <4> HIDE DEF n, m
      <4> QED BY <3>4 DEF PairOK, Matches
    <3> HIDE DEF n, m
    <3> QED BY <1>1, <2>0, <2>5, <3>4, <3>5, <3>6, <3>7 DEF Edits
  <2>6. CASE ToggleToken(k)
    <3> DEFINE n == [s EXCEPT !.tokens = Toggled(@, Arg(k))]
    <3>1. Arg(k) \in Token
      BY <2>0, <2>6, UpdateArgs DEF Arg, ToggleToken, At
    <3>2. Toggled(s.tokens, Arg(k)) \in SUBSET Token
      BY <2>0, <3>1 DEF Setup, Toggled
    <3>3. /\ n \in Setup /\ n.step = s.step /\ n.chain = s.chain /\ n.coin = s.coin
          /\ n.saved = s.saved /\ n.name = s.name /\ n.address = s.address
      BY <2>0, <3>2 DEF Setup
    <3>4. setup' = [setup EXCEPT ![task[k].ptr] = n]
      BY <2>6 DEF ToggleToken, Assign
    <3> HIDE DEF n
    <3> QED BY <1>1, <2>0, <3>3, <3>4 DEF Edits, PairOK, Grows
  <2>7. CASE CustomTokens(k)
    <3> DEFINE n == [s EXCEPT !.custom = TRUE]
    <3>1. /\ n \in Setup /\ n.step = s.step /\ n.chain = s.chain /\ n.coin = s.coin
          /\ n.saved = s.saved /\ n.name = s.name /\ n.address = s.address
      BY <2>0 DEF Setup
    <3>2. setup' = [setup EXCEPT ![task[k].ptr] = n]
      BY <2>7 DEF CustomTokens, Assign
    <3> HIDE DEF n
    <3> QED BY <1>1, <2>0, <3>1, <3>2 DEF Edits, PairOK, Grows
  <2>8. CASE Insert(k)
    <3> DEFINE n == [s EXCEPT !.saved = TRUE]
    <3>1. /\ n \in Setup /\ n.step = s.step /\ n.chain = s.chain /\ n.coin = s.coin
          /\ n.name = s.name /\ n.address = s.address
      BY <2>0 DEF Setup
    <3>2. setup' = [setup EXCEPT ![task[k].ptr] = n]
      BY <2>8 DEF Insert, Assign
    <3> HIDE DEF n
    <3> QED BY <1>1, <2>0, <2>8, <3>1, <3>2 DEF Edits, PairOK, Grows
  <2>9. CASE ~(\/ GiveName(k) \/ GiveAddress(k) \/ GiveTokens(k) \/ ChooseChain(k)
               \/ ChooseCoin(k) \/ ToggleToken(k) \/ CustomTokens(k) \/ Insert(k))
    BY <1>1, <2>9 DEF SetupStep, LookupSetup, CancelByText, CheckText, CheckPress, Finish,
             InsertFails, Clear, AddPressed, CancelPressed, At, Setting
  <2> QED BY <2>1, <2>2, <2>3, <2>4, <2>5, <2>6, <2>7, <2>8, <2>9
<1>2. CASE task[k].pc \notin Setting \cup {"insert"}
  <2>1. CASE AddPressed(k)
    <3>1. PICK i \in SetupId \ {task[j].ptr : j \in Worker} :
            setup' = [setup EXCEPT ![i] = NewSetup] /\ current' = i
      BY <2>1 DEF AddPressed
    <3> QED BY <3>1 DEF Renews
  <2>2. CASE ~AddPressed(k)
    BY <1>2, <2>2 DEF SetupStep, LookupSetup, CancelByText, CheckText, GiveName,
              GiveAddress, GiveTokens, CheckPress, ChooseChain, ChooseCoin, ToggleToken,
              CustomTokens, Finish, Insert, InsertFails, Clear, CancelPressed, At, Setting
  <2> QED BY <2>1, <2>2
<1> QED BY <1>1, <1>2

(* A step moves one goroutine, and to a place where a field is assigned    *)
(* only by the check for it, which changes nothing else.                   *)
LEMMA Moves ==
  ASSUME IInv, NEW k \in Worker, Receive(k) \/ SetupStep(k) \/ RemovalStep(k)
  PROVE  /\ \A j \in Worker : j # k => task'[j] = task[j]
         /\ task'[k].pc \in Setting =>
              \/ CheckText(k) /\ task' = [task EXCEPT ![k] = [task[k] EXCEPT !.pc = task'[k].pc]]
              \/ CheckPress(k) /\ task' = [task EXCEPT ![k] = [task[k] EXCEPT !.pc = "set"]]
<1>0. task \in [Worker -> Task] /\ task[k] \in Task /\ Idle.pc = "idle"
  BY DEF IInv, Shape, TasksOK, Idle
<1>1. ASSUME NEW t, task' = [task EXCEPT ![k] = t], t.pc \notin Setting
      PROVE  (\A j \in Worker : j # k => task'[j] = task[j]) /\ task'[k].pc \notin Setting
  BY <1>0, <1>1
<1>2. CASE Return(k)
  BY <1>0, <1>1, <1>2 DEF Return, Setting
<1>3. ASSUME NEW p \in {"removal", "name", "clear"}, Goto(k, p)
      PROVE  (\A j \in Worker : j # k => task'[j] = task[j]) /\ task'[k].pc \notin Setting
  <2> DEFINE t == [task[k] EXCEPT !.pc = p]
  <2>1. task' = [task EXCEPT ![k] = t] /\ t.pc = p
    BY <1>0, <1>3 DEF Goto, Task
  <2>2. p \notin Setting
    BY DEF Setting
  <2> HIDE DEF t
  <2> QED BY <1>1, <2>1, <2>2
<1>4. ASSUME NEW p \in {"insert", "delete"}, NEW r,
             task' = [task EXCEPT ![k].pc = p, ![k].row = r]
      PROVE  (\A j \in Worker : j # k => task'[j] = task[j]) /\ task'[k].pc \notin Setting
  <2> DEFINE t == [[task[k] EXCEPT !.pc = p] EXCEPT !.row = r]
  <2>1. task' = [task EXCEPT ![k] = t] /\ t.pc = p
    BY <1>0, <1>4 DEF Task
  <2>2. p \notin Setting
    BY DEF Setting
  <2> HIDE DEF t
  <2> QED BY <1>1, <2>1, <2>2
<1>5. CASE Receive(k)
  <2>1. PICK u : task' = [task EXCEPT ![k] = [Idle EXCEPT !.pc = "start", !.do = u]]
    BY <1>5 DEF Receive
  <2>2. [Idle EXCEPT !.pc = "start", !.do = u].pc = "start" /\ "start" \notin Setting
    BY DEF Idle, Setting
  <2> QED BY <1>1, <2>1, <2>2
<1>6. CASE LookupSetup(k)
  <2>1. CASE current # Unset
    <3> DEFINE t == [[task[k] EXCEPT !.pc = "act"] EXCEPT !.ptr = current]
    <3>1. task' = [task EXCEPT ![k] = t] /\ t.pc = "act" /\ "act" \notin Setting
      BY <1>0, <1>6, <2>1 DEF LookupSetup, Task, Setting
    <3> HIDE DEF t
    <3> QED BY <1>1, <3>1
  <2>2. CASE current = Unset
    BY <1>2, <1>3, <1>6, <2>2 DEF LookupSetup
  <2> QED BY <2>1, <2>2
<1>7. CASE GiveTokens(k) \/ Finish(k) \/ ConfirmPressed(k)
  BY <1>2, <1>4, <1>7 DEF GiveTokens, Finish, ConfirmPressed
<1>8. CASE Insert(k) \/ InsertFails(k) \/ LookupRemoval(k)
  BY <1>2, <1>3, <1>8 DEF Insert, InsertFails, LookupRemoval
<1>9. CASE CheckText(k)
  <2>1. CASE Return(k)
    BY <1>2, <2>1
  <2>2. CASE ~Return(k)
    <3>1. PICK p \in Setting : task' = [task EXCEPT ![k].pc = p]
      BY <1>9, <2>2 DEF CheckText, Goto, Setting
    <3> DEFINE t == [task[k] EXCEPT !.pc = p]
    <3>2. task' = [task EXCEPT ![k] = t] /\ t.pc = p
      BY <1>0, <3>1 DEF Task
    <3>3. \A j \in Worker : j # k => task'[j] = task[j]
      BY <1>0, <3>1
    <3>4. task'[k].pc = p
      <4> HIDE DEF t
      <4> QED BY <1>0, <3>2
    <3> QED BY <1>9, <3>2, <3>3, <3>4
  <2> QED BY <2>1, <2>2
<1>10. CASE CheckPress(k)
  <2>1. CASE Return(k)
    BY <1>2, <2>1
  <2>2. CASE Goto(k, "set")
    BY <1>0, <1>10, <2>2 DEF Goto
  <2> QED BY <1>10, <2>1, <2>2 DEF CheckPress
<1> QED
  BY <1>2, <1>5, <1>6, <1>7, <1>8, <1>9, <1>10
  DEF SetupStep, CancelByText, GiveName, GiveAddress, ChooseChain, ChooseCoin, ToggleToken,
      CustomTokens, Clear, AddPressed, CancelPressed, RemovalStep, RemovePressed,
      KeepPressed, NameRemoval, Delete, DeleteFails

(* What a check relied on is still there when the field is assigned: a     *)
(* setup that a goroutine holds is not taken for a new one, and its fields *)
(* are never emptied.                                                      *)
LEMMA ReadyKeeps ==
  ASSUME IInv, NEW k \in Worker, Receive(k) \/ SetupStep(k) \/ RemovalStep(k)
  PROVE  ReadyOK'
<1>1. ASSUME NEW j \in Worker, task[j].pc \in {"setaddress", "set"}
      PROVE  Ready(task[j], setup'[task[j].ptr])
  <2>1. task[j].ptr \in SetupId /\ Ready(task[j], setup[task[j].ptr])
    BY <1>1, HoldsSetup DEF The, Setting
  <2>2. setup \in [SetupId -> Setup]
    BY DEF IInv, Shape, SetupsOK
  <2>3. CASE UNCHANGED setup
    BY <2>1, <2>3
  <2>4. CASE \E i \in SetupId : Renews(i)
    BY <2>1, <2>2, <2>4 DEF Renews
  <2>5. CASE task[k].ptr \in SetupId /\ \E n \in Setup : Edits(k, n)
    BY <2>1, <2>2, <2>5 DEF Edits, Grows, The, Ready
  <2>6. CASE Receive(k) \/ RemovalStep(k)
    BY <2>3, <2>6
       DEF Receive, RemovalStep, RemovePressed, KeepPressed, LookupRemoval, NameRemoval,
           ConfirmPressed, Delete, DeleteFails
  <2> QED BY <2>3, <2>4, <2>5, <2>6, EditsAre
<1>2. ASSUME task'[k].pc \in {"setaddress", "set"}
      PROVE  Ready(task'[k], setup'[task'[k].ptr])
  <2> DEFINE t == [task[k] EXCEPT !.pc = task'[k].pc]
  <2>1. /\ CheckText(k) \/ CheckPress(k)
        /\ task' = [task EXCEPT ![k] = t]
    <3>1. task \in [Worker -> Task] /\ task[k] \in Task
      BY DEF IInv, Shape, TasksOK
    <3> QED BY <1>2, <3>1, Moves DEF Setting, Task
  <2>2. UNCHANGED setup /\ task[k].pc = "act" /\ task[k] \in Task /\ task \in [Worker -> Task]
    BY <2>1 DEF CheckText, CheckPress, At, IInv, Shape, TasksOK
  <2>3. task'[k].ptr = task[k].ptr /\ task'[k].do = task[k].do
    BY <2>1, <2>2 DEF Task
  <2>4. The(k) \in Setup /\ Reached(The(k))
    BY <2>2, HoldsSetup
  <2>5. CASE task'[k].pc = "setaddress"
    <3>1. The(k).step = 2
      BY <2>1, <2>2, <2>5 DEF CheckText, CheckPress, Goto, Return, Idle, Task
    <3> QED BY <2>2, <2>3, <2>4, <2>5, <3>1 DEF Ready, Reached, The
  <2>6. CASE task'[k].pc = "set"
    <3>1. CheckPress(k) /\ Allowed(k)
      BY <2>1, <2>2, <2>6 DEF CheckText, CheckPress, Goto, Return, Idle, Task
    <3>2. /\ task[k].do.op = "chain" => The(k).step >= 3
          /\ task[k].do.op = "coin" => The(k).step >= 4
          /\ task[k].do.op = "toggle" => The(k).step >= 5
      BY <3>1 DEF Allowed, NeededStep
    <3>3. The(k).step \in Nat
      BY <2>4 DEF Setup
    <3>4. /\ task[k].do.op = "chain" => The(k).name # Unset /\ The(k).address # Unset
          /\ task[k].do.op \in {"coin", "toggle"} => The(k).chain # Unset
      BY <2>4, <3>2, <3>3 DEF Reached
    <3> QED BY <2>2, <2>3, <2>6, <3>4 DEF Ready, The
  <2> QED BY <1>2, <2>5, <2>6
<1> QED BY <1>1, <1>2, Moves DEF ReadyOK, The

THEOREM DialogStep == IInv /\ [Next]_vars => IInv'
<1> SUFFICES ASSUME IInv, [Next]_vars PROVE IInv'
  OBVIOUS
<1>1. ASSUME NEW k \in Worker, Receive(k) \/ SetupStep(k) \/ RemovalStep(k)
      PROVE  IInv'
  <2>1. Shape'
    BY <1>1, ArrivalKeeps, TextKeeps, PressKeeps, SaveKeeps, MenuKeeps, RemovalKeeps
    DEF SetupStep, RemovalStep
  <2>2. ReadyOK'
    BY <1>1, ReadyKeeps
  <2> QED BY <2>1, <2>2 DEF IInv
<1>2. CASE Restart
  <2>1. ReadyOK'
    BY <1>2 DEF Restart, Idle, ReadyOK
  <2> QED BY <1>2, <2>1, RestartKeeps DEF IInv
<1>3. CASE UNCHANGED vars
  BY <1>3 DEF vars, IInv, Shape, SetupsOK, TasksOK, TaskOK, Held, Reached, InOrder,
              ChatOK, WalletsOK, ReadyOK, Ready, The
<1> QED
  BY <1>1, <1>2, <1>3 DEF Next

THEOREM Invariance == Spec => []IInv
  BY DialogInit, DialogStep, PTL DEF Spec

(* The dialogs keep their types: a goroutine that acts on a setup holds    *)
(* one, and only a name that is not blank is ever removed.                 *)
THEOREM TypeCorrect == Spec => []TypeOK
<1>1. IInv => TypeOK
  BY DEF IInv, Shape, SetupsOK, TasksOK, TaskOK, ChatOK, WalletsOK, TypeOK
<1> QED
  BY <1>1, Invariance, PTL

(* No overlap of updates and no old button makes a setup, or a wallet      *)
(* about to be saved, have a chain before a name and an address, or a coin *)
(* before a chain.                                                         *)
THEOREM NoFieldSkipped == Spec => []FieldsInOrder
<1>1. IInv => FieldsInOrder
  BY DEF IInv, Shape, SetupsOK, TasksOK, TaskOK, Reached, FieldsInOrder
<1> QED
  BY <1>1, Invariance, PTL

-----------------------------------------------------------------------------
-----------------------------------------------------------------------------
(* One update at a time: the user waits for each answer.                   *)
OneAtATime == \A j, k \in Worker : j = k

(* A coin that was let through still matches the chain when it is taken.   *)
(* With two goroutines another chain may be taken in between.              *)
CoinChecked ==
  \A k \in Worker : task[k].pc = "set" /\ task[k].do.op = "coin" => Matches(k)

LEMMA PairsStep ==
  ASSUME OneAtATime, IInv, IInv', CoinOfItsChain, CoinChecked, [Next]_vars
  PROVE  CoinOfItsChain' /\ CoinChecked'
<1> USE DEF CoinOfItsChain, PairOK
<1>0. setup \in [SetupId -> Setup] /\ task \in [Worker -> Task]
  BY DEF IInv, Shape, SetupsOK, TasksOK
<1>1. NewSetup.step = 1 /\ Idle.pc = "idle"
  BY DEF NewSetup, Idle
<1>2. ASSUME NEW k \in Worker, Receive(k) \/ SetupStep(k) \/ RemovalStep(k)
      PROVE  CoinOfItsChain'
  <2>1. CASE UNCHANGED setup
    BY <2>1
  <2>2. CASE \E i \in SetupId : Renews(i)
    BY <1>0, <1>1, <2>2 DEF Renews
  <2>3. CASE task[k].ptr \in SetupId /\ \E n \in Setup : Edits(k, n)
    <3>1. ChooseCoin(k) => Matches(k)
      BY DEF ChooseCoin, At, CoinChecked
    <3> QED BY <1>0, <2>3, <3>1 DEF Edits, The
  <2>4. CASE Receive(k) \/ RemovalStep(k)
    BY <2>1, <2>4
       DEF Receive, RemovalStep, RemovePressed, KeepPressed, LookupRemoval, NameRemoval,
           ConfirmPressed, Delete, DeleteFails
  <2> QED BY <1>2, <2>1, <2>2, <2>3, <2>4, EditsAre
<1>3. ASSUME NEW k \in Worker, Receive(k) \/ SetupStep(k) \/ RemovalStep(k)
      PROVE  CoinChecked'
  <2>1. SUFFICES ASSUME task'[k].pc = "set", task'[k].do.op = "coin"
                 PROVE  Matches(k)'
    BY DEF CoinChecked, OneAtATime
  <2>2. /\ CheckPress(k) /\ Allowed(k)
        /\ task' = [task EXCEPT ![k] = [task[k] EXCEPT !.pc = "set"]]
    <3>1. task[k] \in Task
      BY <1>0
    <3>2. ~CheckText(k)
      BY <1>0, <1>1, <2>1, <3>1 DEF CheckText, Goto, Return, Task
    <3>3. CheckPress(k) /\ task' = [task EXCEPT ![k] = [task[k] EXCEPT !.pc = "set"]]
      BY <1>3, <2>1, <3>2, Moves DEF Setting
    <3>4. ~Return(k)
      BY <1>0, <1>1, <2>1 DEF Return
    <3> QED BY <3>3, <3>4 DEF CheckPress
  <2>3. /\ UNCHANGED setup /\ task[k].pc = "act"
        /\ task'[k].ptr = task[k].ptr /\ task'[k].do = task[k].do
    BY <1>0, <2>2 DEF CheckPress, At, Task
  <2>4. The(k) \in Setup /\ Reached(The(k))
    BY <2>3, HoldsSetup
  <2>5. /\ The(k).step >= 4
        /\ The(k).chain \in Chain => BaseCoin[The(k).chain] = Arg(k)
    BY <2>1, <2>2, <2>3 DEF Allowed, NeededStep
  <2>6. The(k).chain \in Chain
    BY <2>4, <2>5 DEF Setup, Reached
  <2> QED BY <2>3, <2>5, <2>6 DEF Matches, The, Arg
<1>4. CASE Restart
  BY <1>1, <1>4 DEF Restart, CoinChecked
<1>5. CASE UNCHANGED vars
  BY <1>5 DEF vars, CoinChecked, Matches, The, Arg
<1> QED
  BY <1>2, <1>3, <1>4, <1>5 DEF Next

(* For a user who waits for each answer, a setup that shows the token      *)
(* picker has the coin of its chain, whatever chain and coin buttons of    *)
(* older keyboards were pressed again (handler.go:440-471).                *)
THEOREM CoinsOfTheirChains == OneAtATime => (Spec => []CoinOfItsChain)
<1> SUFFICES ASSUME OneAtATime PROVE Spec => []CoinOfItsChain
  OBVIOUS
<1>1. Init => CoinOfItsChain /\ CoinChecked
  BY DEF Init, NewSetup, Idle, CoinOfItsChain, CoinChecked
<1>2. IInv /\ IInv' /\ (CoinOfItsChain /\ CoinChecked) /\ [Next]_vars
        => (CoinOfItsChain /\ CoinChecked)'
  BY PairsStep
<1> QED BY <1>1, <1>2, Invariance, PTL DEF Spec

-----------------------------------------------------------------------------
(* Between updates the setup in progress is not saved: who saves it goes   *)
(* on to forget it.  SavedOnce alone does not say so.                      *)
SavingOK ==
  /\ \A k \in Worker : task[k].pc \in Setting \cup {"act", "insert"} =>
       task[k].ptr = current /\ ~The(k).saved
  /\ current # Unset =>
       ~setup[current].saved \/ \E k \in Worker : task[k].pc = "clear"

LEMMA SavingStep ==
  ASSUME OneAtATime, IInv, IInv', SavingOK, [Next]_vars
  PROVE  SavingOK'
<1>0. /\ setup \in [SetupId -> Setup] /\ task \in [Worker -> Task]
      /\ current \in SetupId \cup {Unset}
  BY DEF IInv, Shape, SetupsOK, TasksOK, ChatOK
<1>1. Idle.pc = "idle" /\ Idle \in Task /\ NewSetup.saved = FALSE
  BY FreshOK DEF Idle, NewSetup, TaskOK
<1>2. ASSUME NEW k \in Worker, Receive(k) \/ SetupStep(k) \/ RemovalStep(k)
      PROVE  SavingOK'
  <2>0. /\ \A j \in Worker : j = k
        /\ task[k] \in Task
        /\ task[k].pc \in Setting \cup {"act", "insert"} =>
             task[k].ptr = current /\ ~The(k).saved
        /\ current # Unset /\ task[k].pc # "clear" => ~setup[current].saved
    BY <1>0 DEF OneAtATime, SavingOK
  <2>1. SUFFICES /\ task'[k].pc \in Setting \cup {"act", "insert"} =>
                      task'[k].ptr = current' /\ ~setup'[task'[k].ptr].saved
                 /\ current' # Unset /\ task'[k].pc # "clear" =>
                      ~setup'[current'].saved
    BY <2>0 DEF SavingOK, The
  <2>2. CASE Insert(k) \/ InsertFails(k)
    <3>1. task' = [task EXCEPT ![k] = [task[k] EXCEPT !.pc = "clear"]]
      BY <1>0, <2>2 DEF Insert, InsertFails, Goto
    <3>2. task'[k].pc = "clear"
      BY <1>0, <2>0, <3>1 DEF Task
    <3> QED BY <3>2 DEF Setting
  <2>3. CASE Clear(k) \/ CancelByText(k) \/ CancelPressed(k)
    <3>1. task'[k] = Idle /\ current' = Unset
      BY <1>0, <2>3 DEF Clear, CancelByText, CancelPressed, Return
    <3> QED BY <1>1, <3>1 DEF Setting
  <2>4. CASE AddPressed(k)
    <3>1. task'[k] = Idle
      BY <1>0, <2>4 DEF AddPressed, Return
    <3>2. ~setup'[current'].saved
      BY <1>0, <1>1, <2>4 DEF AddPressed
    <3> QED BY <1>1, <3>1, <3>2 DEF Setting
  <2>5. CASE LookupSetup(k)
    <3>1. UNCHANGED <<setup, current>> /\ task[k].pc = "start"
      BY <2>5 DEF LookupSetup, At
    <3>2. CASE current # Unset
      <4>1. task'[k] = [task[k] EXCEPT !.pc = "act", !.ptr = current]
        BY <1>0, <2>5, <3>2 DEF LookupSetup
      <4>2. task'[k].pc = "act" /\ task'[k].ptr = current
        BY <2>0, <4>1 DEF Task
      <4> QED BY <2>0, <3>1, <3>2, <4>2
    <3>3. CASE current = Unset
      <4>1. task'[k] = Idle \/ task'[k] = [task[k] EXCEPT !.pc = "removal"]
        BY <1>0, <2>5, <3>3 DEF LookupSetup, Goto, Return
      <4>2. task'[k].pc \in {"idle", "removal"}
        BY <1>1, <2>0, <4>1 DEF Task
      <4> QED BY <3>1, <3>3, <4>2 DEF Setting
    <3> QED BY <3>2, <3>3
  <2>6. CASE \/ CheckText(k) \/ GiveName(k) \/ GiveAddress(k) \/ GiveTokens(k)
             \/ CheckPress(k) \/ ChooseChain(k) \/ ChooseCoin(k) \/ ToggleToken(k)
             \/ CustomTokens(k) \/ Finish(k)
    <3>1. /\ task[k].pc \in Setting \cup {"act"} /\ UNCHANGED current /\ ~Insert(k)
          /\ task[k].ptr = current /\ ~The(k).saved
      BY <2>0, <2>6 DEF CheckText, GiveName, GiveAddress, GiveTokens, CheckPress,
               ChooseChain, ChooseCoin, ToggleToken, CustomTokens, Finish, At, Insert, Setting
    <3>2. current \in SetupId
      BY <3>1, HoldsSetup
    <3>3. ~setup'[current].saved
      <4>1. CASE UNCHANGED setup
        BY <3>1, <4>1 DEF The
      <4>2. CASE \E i \in SetupId : Renews(i)
        BY <1>0, <1>1, <3>1, <4>2 DEF Renews
      <4>3. CASE \E n \in Setup : Edits(k, n)
        BY <1>0, <3>1, <3>2, <4>3 DEF Edits
      <4> QED BY <2>6, <4>1, <4>2, <4>3, EditsAre DEF SetupStep
    <3>4. \/ task'[k] = Idle
          \/ \E p : task'[k] = [task[k] EXCEPT !.pc = p]
          \/ \E r : task'[k] = [[task[k] EXCEPT !.pc = "insert"] EXCEPT !.row = r]
      <4>1. CASE GiveTokens(k)
        <5>1. PICK r : task' = [task EXCEPT ![k].pc = "insert", ![k].row = r]
          BY <4>1 DEF GiveTokens
        <5> QED BY <1>0, <5>1
      <4>2. CASE Finish(k)
        <5>1. PICK r : task' = [task EXCEPT ![k].pc = "insert", ![k].row = r]
          BY <4>2 DEF Finish
        <5> QED BY <1>0, <5>1
      <4>3. CASE CheckText(k) \/ CheckPress(k)
        <5>1. Return(k) \/ \E p : Goto(k, p)
          BY <4>3 DEF CheckText, CheckPress
        <5> QED BY <1>0, <5>1 DEF Return, Goto
      <4>4. CASE \/ GiveName(k) \/ GiveAddress(k) \/ ChooseChain(k) \/ ChooseCoin(k)
                 \/ ToggleToken(k) \/ CustomTokens(k)
        BY <1>0, <4>4 DEF GiveName, GiveAddress, ChooseChain, ChooseCoin, ToggleToken,
                          CustomTokens, Return
      <4> QED BY <2>6, <4>1, <4>2, <4>3, <4>4
    <3>5. task'[k].pc = "idle" \/ task'[k].ptr = current
      BY <1>1, <2>0, <3>1, <3>4 DEF Task
    <3>6. "idle" \notin Setting \cup {"act", "insert"}
      BY DEF Setting
    <3> QED BY <3>1, <3>3, <3>5, <3>6
  <2>7. CASE Receive(k) \/ RemovalStep(k)
    <3>1. task[k].pc # "clear" /\ UNCHANGED <<setup, current>>
      BY <1>1, <2>7 DEF Receive, RemovalStep, RemovePressed, KeepPressed, LookupRemoval,
                   NameRemoval, ConfirmPressed, Delete, DeleteFails, At
    <3>2. task'[k].pc \in {"idle", "start", "name", "delete"}
      <4>1. CASE Receive(k)
        <5>1. PICK u : task' = [task EXCEPT ![k] = [Idle EXCEPT !.pc = "start", !.do = u]]
          BY <4>1 DEF Receive
        <5> QED BY <1>0, <5>1 DEF Idle
      <4>2. CASE ConfirmPressed(k)
        <5>1. \/ task'[k] = Idle
              \/ \E r : task'[k] = [[task[k] EXCEPT !.pc = "delete"] EXCEPT !.row = r]
          BY <1>0, <4>2 DEF ConfirmPressed, Return
        <5> QED BY <1>1, <2>0, <5>1 DEF Task
      <4>3. CASE LookupRemoval(k)
        <5>1. task'[k] = Idle \/ task'[k] = [task[k] EXCEPT !.pc = "name"]
          BY <1>0, <4>3 DEF LookupRemoval, Goto, Return
        <5> QED BY <1>1, <2>0, <5>1 DEF Task
      <4>4. CASE \/ RemovePressed(k) \/ KeepPressed(k) \/ NameRemoval(k) \/ Delete(k)
                 \/ DeleteFails(k)
        BY <1>0, <1>1, <4>4 DEF RemovePressed, KeepPressed, NameRemoval, Delete,
                                DeleteFails, Return
      <4> QED BY <2>7, <4>1, <4>2, <4>3, <4>4 DEF RemovalStep
    <3> QED BY <2>0, <3>1, <3>2 DEF Setting
  <2> QED BY <1>2, <2>2, <2>3, <2>4, <2>5, <2>6, <2>7 DEF SetupStep
<1>3. CASE Restart
  <2>1. current' = Unset /\ \A k \in Worker : task'[k] = Idle
    BY <1>3 DEF Restart
  <2> QED BY <1>1, <2>1 DEF SavingOK, Setting
<1>4. CASE UNCHANGED vars
  BY <1>4 DEF vars, SavingOK, The
<1> QED BY <1>2, <1>3, <1>4 DEF Next

(* For a user who waits for each answer, only the setup in progress is     *)
(* saved, and only once: finished, cancelled and replaced ones are not.    *)
THEOREM SavedOnceInTurn == OneAtATime => (Spec => []SavedOnce)
<1> SUFFICES ASSUME OneAtATime PROVE Spec => []SavedOnce
  OBVIOUS
<1>1. Init => SavingOK
  BY FreshOK DEF Init, SavingOK, Idle, Setting
<1>2. IInv /\ IInv' /\ SavingOK /\ [Next]_vars => SavingOK'
  BY SavingStep
<1>3. SavingOK => SavedOnce
  BY DEF SavingOK, SavedOnce
<1> QED BY <1>1, <1>2, <1>3, Invariance, PTL DEF Spec
=============================================================================
