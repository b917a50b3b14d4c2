---------------------------- MODULE WalletDialog ----------------------------
(* The add-wallet and remove-wallet dialogs of one chat                    *)
(* (src/internal/bot/handler.go): what the handler remembers of the chat   *)
(* between updates, the keyboards it has sent, and the wallets it saves.   *)
(* Every update runs in a goroutine of its own (src/cmd/bot/main.go:143),  *)
(* so two updates of one chat may be handled at the same time: they share  *)
(* the setup behind a pointer that the lock does not protect.  Each step   *)
(* below ends where the code takes or releases h.mu, calls the database,   *)
(* or has checked an update against the setup that it is about to change;  *)
(* the assignments that follow a check are one step.  Nothing else is      *)
(* shared between chats.  A message Telegram did not accept shows no       *)
(* keyboard: its buttons are then simply never pressed.                    *)
EXTENDS Naturals, FiniteSets

CONSTANTS
  Worker,      \* goroutines handling updates of this chat
  SetupId,     \* walletCreateState objects on the heap
  Text,        \* what a user can type, trimmed
  Cancel,      \* the text that cancels a dialog
  Blank,       \* the empty text (a photo, a sticker)
  Lower,       \* the name under which DeleteWalletsByName compares a text
  Csv,         \* the token symbols splitCSV finds in a text
  Chain,       \* supportedChains
  Coin,        \* supportedBaseCoins
  BaseCoin,    \* chainBaseCoinMap
  Token,       \* token symbols
  Options,     \* tokenOptionsForChain
  Plain,       \* the chains without custom tokens
  Unset,       \* a field nobody has filled in yet
  MaxWallets   \* bound: wallets the user has at a time

ASSUME DialogAssumption ==
  /\ Cancel \in Text /\ Blank \in Text /\ Unset \notin Text \cup Chain \cup Coin
  /\ Lower \in [Text -> Text] /\ Csv \in [Text -> SUBSET Token]
  /\ BaseCoin \in [Chain -> Coin] /\ Options \in [Chain -> SUBSET Token]
  /\ Plain \subseteq Chain /\ MaxWallets \in Nat

VARIABLES
  setup,     \* the heap: the setups in progress, by object
  current,   \* h.states[chat]: the object, or Unset
  removal,   \* h.removal[chat]: the name, Blank before it is sent, or Unset
  shown,     \* the buttons of all the keyboards in the chat
  task,      \* what each goroutine is doing
  wallets    \* the wallets table and its token filters

vars == <<setup, current, removal, shown, task, wallets>>

-----------------------------------------------------------------------------
Setup ==
  [step : 1 .. 5, name : Text \cup {Unset}, address : Text \cup {Unset},
   chain : Chain \cup {Unset}, coin : Coin \cup {Unset},
   tokens : SUBSET Token, custom : BOOLEAN,
   saved : BOOLEAN]   \* history: a wallet was saved from this setup

NewSetup ==
  [step |-> 1, name |-> Unset, address |-> Unset, chain |-> Unset,
   coin |-> Unset, tokens |-> {}, custom |-> FALSE, saved |-> FALSE]

Button(op, arg) == [op |-> op, arg |-> arg]
Menu      == {Button("add", Unset), Button("remove", Unset), Button("cancel", Unset)}
Chains    == {Button("chain", c) : c \in Chain}
Coins(c)  == {Button("coin", BaseCoin[c])}
Confirm   == {Button("confirm", Unset), Button("keep", Unset)}
Tokens(c) ==
  {Button("toggle", t) : t \in Options[c]}
  \cup {Button("done", Unset), Button("skip", Unset)}
  \cup (IF c \in Plain THEN {} ELSE {Button("custom", Unset)})

Message == {Button("text", t) : t \in Text}
Update  == Message \cup Menu \cup Chains \cup Confirm
           \cup UNION {Coins(c) \cup Tokens(c) : c \in Chain}

Row(s) == [name |-> s.name, address |-> s.address, chain |-> s.chain,
           coin |-> s.coin, tokens |-> s.tokens]
NoRow  == Row(NewSetup)

Idle == [pc |-> "idle", do |-> Button("text", Blank), ptr |-> Unset, row |-> NoRow]

(* Goroutine k is at pc with an update that is one of ops.                 *)
At(k, pc, ops) == task[k].pc = pc /\ task[k].do.op \in ops
Goto(k, pc)    == task' = [task EXCEPT ![k].pc = pc]
Return(k)      == task' = [task EXCEPT ![k] = Idle]
The(k)         == setup[task[k].ptr]
Assign(k, s)   == setup' = [setup EXCEPT ![task[k].ptr] = s]
Show(buttons)  == shown' = shown \cup buttons
Arg(k)         == task[k].do.arg

-----------------------------------------------------------------------------
(* An update of the chat arrives: a text, or the press of a button of any  *)
(* keyboard it still shows, however old.                                   *)
Receive(k) ==
  /\ task[k] = Idle
  /\ \E u \in Message \cup shown :
       task' = [task EXCEPT ![k] = [Idle EXCEPT !.pc = "start", !.do = u]]
  /\ UNCHANGED <<setup, current, removal, shown, wallets>>

SetupOps == {"text", "chain", "coin", "toggle", "custom", "done", "skip"}

(* The setup of the chat is looked up under the lock; from here on the     *)
(* goroutine holds the pointer without the lock.                           *)
LookupSetup(k) ==
  /\ At(k, "start", SetupOps)
  /\ IF current # Unset
       THEN task' = [task EXCEPT ![k].pc = "act", ![k].ptr = current]
       ELSE IF task[k].do.op = "text" THEN Goto(k, "removal") ELSE Return(k)
  /\ UNCHANGED <<setup, current, removal, shown, wallets>>

(* handleWalletWizard: cancel, name, address, custom tokens.  The step of  *)
(* the setup says which; by the time the field is assigned another         *)
(* goroutine may have taken the setup further.                             *)
CancelByText(k) ==
  /\ At(k, "act", {"text"}) /\ Arg(k) = Cancel
  /\ current' = Unset /\ Return(k)
  /\ UNCHANGED <<setup, removal, shown, wallets>>

CheckText(k) ==
  /\ At(k, "act", {"text"}) /\ Arg(k) # Cancel
  /\ \/ The(k).step = 1 /\ Goto(k, "setname")
     \/ The(k).step = 2 /\ Goto(k, "setaddress")
     \/ The(k).step = 5 /\ The(k).custom /\ Goto(k, "settokens")
     \/ The(k).step \in 3 .. 5 /\ (The(k).step = 5 => ~The(k).custom) /\ Return(k)
  /\ UNCHANGED <<setup, current, removal, shown, wallets>>

GiveName(k) ==
  /\ At(k, "setname", {"text"})
  /\ Assign(k, [The(k) EXCEPT !.name = Arg(k), !.step = 2])
  /\ Return(k)
  /\ UNCHANGED <<current, removal, shown, wallets>>

GiveAddress(k) ==
  /\ At(k, "setaddress", {"text"})
  /\ Assign(k, [The(k) EXCEPT !.address = Arg(k), !.step = 3])
  /\ Show(Chains) /\ Return(k)
  /\ UNCHANGED <<current, removal, wallets>>

(* The fields are read for AddWallet as the tokens are taken in.           *)
GiveTokens(k) ==
  /\ At(k, "settokens", {"text"})
  /\ LET s == [The(k) EXCEPT !.custom = FALSE, !.tokens = @ \cup Csv[Arg(k)]]
     IN  /\ Assign(k, s)
         /\ task' = [task EXCEPT ![k].pc = "insert", ![k].row = Row(s)]
  /\ UNCHANGED <<current, removal, shown, wallets>>

(* The buttons of the setup.  A press the setup does not allow is answered *)
(* with a hint and changes nothing.                                        *)
NeededStep == [chain |-> 3, coin |-> 4, toggle |-> 5, custom |-> 5]

AllowedAnyStep(k) ==   \* mutant: no step check, as Done and Skip have none
  task[k].do.op = "coin" /\ The(k).chain \in Chain => BaseCoin[The(k).chain] = Arg(k)

Allowed(k) ==
  /\ The(k).step >= NeededStep[task[k].do.op]
  /\ task[k].do.op = "coin" /\ The(k).chain \in Chain => BaseCoin[The(k).chain] = Arg(k)

CheckPress(k) ==
  /\ At(k, "act", DOMAIN NeededStep)
  /\ IF Allowed(k) THEN Goto(k, "set") ELSE Return(k)
  /\ UNCHANGED <<setup, current, removal, shown, wallets>>

ChooseChainKeepsStep(k) ==   \* mutant: a setup past the coin stays there
  /\ At(k, "set", {"chain"})
  /\ Assign(k, [The(k) EXCEPT !.chain = Arg(k), !.step = IF @ = 5 THEN 5 ELSE 4])
  /\ Show(Coins(Arg(k))) /\ Return(k)
  /\ UNCHANGED <<current, removal, wallets>>

ChooseChain(k) ==
  /\ At(k, "set", {"chain"})
  /\ Assign(k, [The(k) EXCEPT !.chain = Arg(k), !.step = 4])
  /\ Show(Coins(Arg(k))) /\ Return(k)
  /\ UNCHANGED <<current, removal, wallets>>

ChooseCoin(k) ==
  /\ At(k, "set", {"coin"})
  /\ Assign(k, [The(k) EXCEPT !.coin = Arg(k), !.step = 5])
  /\ Show(Tokens(The(k).chain)) /\ Return(k)
  /\ UNCHANGED <<current, removal, wallets>>

Toggled(tokens, t) == IF t \in tokens THEN tokens \ {t} ELSE tokens \cup {t}

ToggleToken(k) ==
  /\ At(k, "set", {"toggle"})
  /\ Assign(k, [The(k) EXCEPT !.tokens = Toggled(@, Arg(k))])
  /\ Show(Tokens(The(k).chain)) /\ Return(k)
  /\ UNCHANGED <<current, removal, wallets>>

CustomTokens(k) ==
  /\ At(k, "set", {"custom"})
  /\ Assign(k, [The(k) EXCEPT !.custom = TRUE])
  /\ Return(k)
  /\ UNCHANGED <<current, removal, shown, wallets>>

(* Done and Skip save what there is, at whatever step the setup stands.    *)
Finish(k) ==
  /\ At(k, "act", {"done", "skip"})
  /\ task' = [task EXCEPT ![k].pc = "insert", ![k].row = Row(The(k))]
  /\ UNCHANGED <<setup, current, removal, shown, wallets>>

-----------------------------------------------------------------------------
(* finishWalletCreate: AddWallet's transaction, then the chat's setup is   *)
(* forgotten, whichever it is by then and whether or not the save worked.  *)
(* An unset field is stored as the empty string.                           *)
Stored(row) ==
  [row EXCEPT !.name    = IF @ = Unset THEN Blank ELSE @,
              !.address = IF @ = Unset THEN Blank ELSE @]

SameKey(v, w) == v.address = w.address /\ v.chain = w.chain

(* One row for an address and chain: a second save renames it and adds its *)
(* token filters to those it has.                                          *)
Upsert(row) ==
  LET same == {w \in wallets : SameKey(w, row)}
  IN  (wallets \ same)
      \cup {[row EXCEPT !.tokens = @ \cup UNION {w.tokens : w \in same}]}

Insert(k) ==
  /\ task[k].pc = "insert"
  /\ wallets' = Upsert(Stored(task[k].row))
  /\ Cardinality(wallets') <= MaxWallets
  /\ Assign(k, [The(k) EXCEPT !.saved = TRUE])
  /\ Goto(k, "clear")
  /\ UNCHANGED <<current, removal, shown>>

InsertFails(k) ==
  /\ task[k].pc = "insert"
  /\ Goto(k, "clear")
  /\ UNCHANGED <<setup, current, removal, shown, wallets>>

ClearMissing(k) ==   \* mutant: the setup is not forgotten
  /\ task[k].pc = "clear"
  /\ Return(k)
  /\ UNCHANGED <<setup, current, removal, shown, wallets>>

Clear(k) ==
  /\ task[k].pc = "clear"
  /\ current' = Unset /\ Return(k)
  /\ UNCHANGED <<setup, removal, shown, wallets>>

-----------------------------------------------------------------------------
(* Add Wallet starts a new setup, in place of one that may be in progress; *)
(* an object no goroutine holds any more is free to be used again.         *)
AddPressed(k) ==
  /\ At(k, "start", {"add"})
  /\ \E i \in SetupId \ {task[j].ptr : j \in Worker} :
       /\ setup' = [setup EXCEPT ![i] = NewSetup]
       /\ current' = i
  /\ Show({Button("cancel", Unset)}) /\ Return(k)
  /\ UNCHANGED <<removal, wallets>>

CancelPressed(k) ==
  /\ At(k, "start", {"cancel"})
  /\ current' = Unset /\ Return(k)
  /\ UNCHANGED <<setup, removal, shown, wallets>>

RemovePressed(k) ==
  /\ At(k, "start", {"remove"})
  /\ removal' = Blank /\ Return(k)
  /\ UNCHANGED <<setup, current, shown, wallets>>

KeepPressed(k) ==
  /\ At(k, "start", {"keep"})
  /\ removal' = Unset /\ Return(k)
  /\ UNCHANGED <<setup, current, shown, wallets>>

(* handleWalletRemovalInput sees only texts no setup has taken.            *)
LookupRemoval(k) ==
  /\ task[k].pc = "removal"
  /\ IF removal # Unset THEN Goto(k, "name") ELSE Return(k)
  /\ UNCHANGED <<setup, current, removal, shown, wallets>>

NameRemoval(k) ==
  /\ At(k, "name", {"text"})
  /\ \/ Arg(k) = Cancel /\ removal' = Unset /\ UNCHANGED shown
     \/ Arg(k) = Blank /\ UNCHANGED <<removal, shown>>
     \/ /\ Arg(k) \notin {Cancel, Blank}
        /\ removal' = Arg(k) /\ Show(Confirm)
  /\ Return(k)
  /\ UNCHANGED <<setup, current, wallets>>

ConfirmUnchecked(k) ==   \* mutant: a missing request is not noticed
  /\ At(k, "start", {"confirm"})
  /\ removal' = Unset
  /\ task' = [task EXCEPT ![k].pc = "delete",
                               ![k].row = [@ EXCEPT !.name = removal]]
  /\ UNCHANGED <<setup, current, shown, wallets>>

ConfirmPressed(k) ==
  /\ At(k, "start", {"confirm"})
  /\ removal' = Unset
  /\ IF removal \in {Unset, Blank} THEN Return(k)
     ELSE task' = [task EXCEPT ![k].pc = "delete",
                               ![k].row = [@ EXCEPT !.name = removal]]
  /\ UNCHANGED <<setup, current, shown, wallets>>

(* DeleteWalletsByName removes every wallet of that name, in any case.     *)
Delete(k) ==
  /\ task[k].pc = "delete"
  /\ wallets' = {w \in wallets : Lower[w.name] # Lower[task[k].row.name]}
  /\ Return(k)
  /\ UNCHANGED <<setup, current, removal, shown>>

DeleteFails(k) ==
  /\ task[k].pc = "delete" /\ Return(k)
  /\ UNCHANGED <<setup, current, removal, shown, wallets>>

(* The process dies and is started again: the maps are in memory only, the *)
(* keyboards and the wallets stay.                                         *)
Restart ==
  /\ setup' = [i \in SetupId |-> NewSetup]
  /\ current' = Unset /\ removal' = Unset
  /\ task' = [k \in Worker |-> Idle]
  /\ UNCHANGED <<shown, wallets>>

-----------------------------------------------------------------------------
Init ==
  /\ setup = [i \in SetupId |-> NewSetup]
  /\ current = Unset /\ removal = Unset
  /\ shown = Menu
  /\ task = [k \in Worker |-> Idle]
  /\ wallets = {}

SetupStep(k) ==
  \/ LookupSetup(k) \/ CancelByText(k)
  \/ CheckText(k) \/ GiveName(k) \/ GiveAddress(k) \/ GiveTokens(k)
  \/ CheckPress(k) \/ ChooseChain(k) \/ ChooseCoin(k) \/ ToggleToken(k)
  \/ CustomTokens(k) \/ Finish(k)
  \/ Insert(k) \/ InsertFails(k) \/ Clear(k) \/ AddPressed(k) \/ CancelPressed(k)

RemovalStep(k) ==
  \/ RemovePressed(k) \/ KeepPressed(k) \/ LookupRemoval(k) \/ NameRemoval(k)
  \/ ConfirmPressed(k) \/ Delete(k) \/ DeleteFails(k)

Next ==
  \/ \E k \in Worker : Receive(k) \/ SetupStep(k) \/ RemovalStep(k)
  \/ Restart

Spec == Init /\ [][Next]_vars

-----------------------------------------------------------------------------
Setting == {"setname", "setaddress", "settokens", "set"}   \* checked, not assigned
Place   == Setting
           \cup {"idle", "start", "act", "removal", "name", "insert", "clear", "delete"}

Rows ==
  [name : Text \cup {Unset}, address : Text \cup {Unset},
   chain : Chain \cup {Unset}, coin : Coin \cup {Unset}, tokens : SUBSET Token]

Task == [pc : Place, do : Update, ptr : SetupId \cup {Unset}, row : Rows]

Held(t) ==
  /\ t.pc \in Setting \cup {"act", "insert", "clear"} => t.ptr # Unset
  /\ t.pc = "delete" => t.row.name \in Text \ {Blank}

(* Type invariant; with it, a goroutine that holds no setup dereferences   *)
(* none, and nothing but a name is ever removed.                           *)
TypeOK ==
  /\ setup \in [SetupId -> Setup]
  /\ current \in SetupId \cup {Unset}
  /\ removal \in Text \cup {Unset}
  /\ shown \subseteq Update
  /\ task \in [Worker -> Task] /\ \A k \in Worker : Held(task[k])
  /\ wallets \subseteq Rows /\ \A w \in wallets : w.name \in Text

(* However the updates of a chat overlap, between a check and what follows *)
(* it too, and whatever old buttons are pressed: no chain is taken before  *)
(* name and address, no coin before a chain, neither in a setup nor in     *)
(* what is about to be saved from one.                                     *)
InOrder(s) ==
  /\ s.coin # Unset => s.chain # Unset
  /\ s.chain # Unset => s.name # Unset /\ s.address # Unset

FieldsInOrder ==
  /\ \A i \in SetupId : InOrder(setup[i])
  /\ \A k \in Worker : task[k].pc = "insert" => InOrder(task[k].row)

(* For a user who waits for each answer (one goroutine at a time): a setup *)
(* that shows the token picker has the coin of its chain, although both    *)
(* can be chosen again from older keyboards.                               *)
CoinOfItsChain ==
  \A i \in SetupId : setup[i].step = 5 =>
    setup[i].chain \in Chain /\ setup[i].coin = BaseCoin[setup[i].chain]

(* For a user who waits for each answer (one goroutine at a time): only    *)
(* the setup in progress is saved, and only once, whatever was pressed     *)
(* before it was finished, cancelled or replaced.                          *)
SavedOnce ==
  \A k \in Worker : task[k].pc = "insert" =>
    task[k].ptr = current /\ ~The(k).saved

(* handler.go:466 tells the user a chain "only supports base coin" the one *)
(* it is mapped to: no saved wallet has another.                           *)
SavedPairsMatch ==
  \A w \in wallets :
    w.chain # Unset /\ w.coin # Unset => w.coin = BaseCoin[w.chain]
=============================================================================
