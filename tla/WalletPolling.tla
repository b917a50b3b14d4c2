---------------------------- MODULE WalletPolling ----------------------------
(***************************************************************************)
(* The poll pipeline of the bot: TrackerService.PollOnce run by two        *)
(* goroutines (the scheduler and the one main starts at boot), the Polygon *)
(* provider it calls, and the tables wallets, wallet_token_filters,        *)
(* wallet_transactions and polygon_indexer_state they share with the chat  *)
(* handlers.  The chain is the environment: it mines blocks and may        *)
(* replace its last Confirmations blocks.                                  *)
(***************************************************************************)
EXTENDS Integers, Sequences, FiniteSets

CONSTANTS
  Wallet,          \* ids of table wallets (UUIDs, never used twice)
  Unsupported,     \* wallets on a chain no provider supports
  Flaky,           \* wallets whose RPC calls may fail or time out
  Transfer,        \* transfers the chain may carry
  Erc20,           \* those that are ERC20 logs, the others are native
  Hash,            \* Hash[t]: the transaction transfer t is part of
  Touches,         \* Touches[t]: the wallets t sends from or to
  Token,           \* symbols a user may pick as token filters
  Window,          \* POLL_INTERVAL_MINUTES: ticker period and poll window
  Confirmations,   \* POLYGON_CONFIRMATIONS
  ChunkSize,       \* POLYGON_CHUNK_SIZE
  StartBlock,      \* POLYGON_START_BLOCK
  Target,          \* rows a bootstrap wants (10)
  MaxRanges,       \* chunks a bootstrap scans at most (8)
  MaxClock,        \* bound: the last instant
  MaxBlocks,       \* bound: the longest chain
  MaxReorgs,       \* bound: how often the chain reorganises
  MaxFaults        \* bound: failed database calls plus process crashes

ASSUME SetsAssumption ==
  /\ Wallet # {} /\ IsFiniteSet(Wallet)
  /\ Unsupported \subseteq Wallet /\ Flaky \subseteq Wallet
  /\ Erc20 \subseteq Transfer
  /\ Touches \in [Transfer -> SUBSET Wallet]
  /\ DOMAIN Hash = Transfer
  /\ Token \subseteq STRING

ASSUME NumbersAssumption ==
  /\ Window \in Nat \ {0}
  /\ Confirmations \in Nat \ {0}
  /\ ChunkSize \in Nat \ {0}
  /\ StartBlock \in Nat \ {0}
  /\ Target \in Nat /\ MaxRanges \in Nat
  /\ MaxClock \in Nat /\ MaxBlocks \in Nat
  /\ MaxReorgs \in Nat /\ MaxFaults \in Nat

Never  == -1                        \* a NULL last_polled_at
Poller == {"startup", "scheduler"}  \* main's goroutine, the scheduler's
Label  == Token \cup {"MATIC", "ERC20"}

VARIABLES
  clock,     \* wall time
  chain,     \* the canonical chain the RPC node serves
  reorgs,    \* reorganisations so far
  wallet,    \* table wallets with its token filters
  store,     \* table wallet_transactions
  indexer,   \* polygon_indexer_state.last_indexed_block, 0 when absent
  up,        \* whether the process runs
  nextTick,  \* when the poll ticker fires next
  wake,      \* wake[p]: a poll cycle of p is due
  job,       \* job[p]: the local variables of p's PollOnce
  faults     \* database errors and crashes so far

vars == <<clock, chain, reorgs, wallet, store, indexer, up, nextTick, wake,
          job, faults>>

Time  == 0 .. MaxClock
Block == [ts : Time, txs : SUBSET Transfer]
Row   == [wallet : Wallet, transfer : Transfer, label : Label, stamp : Time]

WalletRow == [status  : {"absent", "active", "deleted"},
              created : Time,
              polled  : Time \cup {Never},
              filters : SUBSET Token]

Job == [pc      : {"idle", "cycle", "head", "scan", "insert", "mark"},
        now     : Time,                        \* now
        todo    : SUBSET Wallet,               \* rest of the wallet list
        seen    : [Wallet -> Time \cup {Never}], \* LastPolledAt as listed
        w       : Wallet,                      \* the wallet at hand
        since   : Int,                         \* since
        start   : Nat,                         \* start
        current : Nat,                         \* first block not yet scanned
        safe    : Nat,                         \* safeTo
        label   : Label,                       \* symbol for ERC20 rows
        batch   : SUBSET Row]                  \* out; then rows to insert

NoJob ==
  [pc |-> "idle", now |-> 0, todo |-> {}, seen |-> [w \in Wallet |-> Never],
   w |-> CHOOSE w \in Wallet : TRUE, since |-> 0, start |-> 0, current |-> 0,
   safe |-> 0, label |-> "ERC20", batch |-> {}]

Height        == Len(chain)
FinalHeight == IF Height > Confirmations THEN Height - Confirmations ELSE 0
Final       == UNION {chain[h].txs : h \in 1 .. FinalHeight}
Active(w)   == wallet[w].status = "active"

(* The columns of the unique index uq_wallet_transactions_dedupe.          *)
Key(r) == <<r.wallet, Hash[r.transfer], r.label, r.stamp>>

Min2(a, b) == IF a < b THEN a ELSE b
Max2(a, b) == IF a > b THEN a ELSE b

-----------------------------------------------------------------------------
(* The environment: time and the chain.                                    *)

(* The poll ticker has a buffer of one: a tick that finds it full is lost. *)
Tick ==
  /\ clock < MaxClock
  /\ clock' = clock + 1
  /\ IF up /\ clock' = nextTick
     THEN /\ wake' = [wake EXCEPT !["scheduler"] = TRUE]
          /\ nextTick' = nextTick + Window
     ELSE UNCHANGED <<wake, nextTick>>
  /\ UNCHANGED <<chain, reorgs, wallet, store, indexer, up, job, faults>>

(* Block times increase strictly; a transfer is in one block only.         *)
ValidChain(c) ==
  /\ \A h \in 2 .. Len(c) : c[h-1].ts < c[h].ts
  /\ \A g, h \in 1 .. Len(c) : g # h => c[g].txs \cap c[h].txs = {}

Mine ==
  /\ Height < MaxBlocks
  /\ \E T \in SUBSET Transfer :
       chain' = Append(chain, [ts |-> clock, txs |-> T])
  /\ ValidChain(chain')
  /\ UNCHANGED <<clock, reorgs, wallet, store, indexer, up, nextTick, wake,
                 job, faults>>

(* The last k blocks give way to others.  Confirmations bounds k: this is  *)
(* what the operator who sets it relies on.                                *)
Reorg ==
  /\ reorgs < MaxReorgs
  /\ \E k \in 1 .. Min2(Confirmations, Height) :
       \E fork \in [Height-k+1 .. Height -> [ts : 0 .. clock, txs : SUBSET Transfer]] :
         chain' = [h \in 1 .. Height |-> IF h > Height - k THEN fork[h] ELSE chain[h]]
  /\ ValidChain(chain')
  /\ reorgs' = reorgs + 1
  /\ UNCHANGED <<clock, wallet, store, indexer, up, nextTick, wake, job, faults>>

-----------------------------------------------------------------------------
(* What the chat handlers do to the wallet tables meanwhile.               *)

(* Mutant of AddWallet: the filters of the wallet give way to the new.     *)
AddWalletReplaces(w, tokens) ==
  /\ up
  /\ wallet[w].status # "deleted"
  /\ wallet' = [wallet EXCEPT ![w] =
       IF Active(w)
       THEN [wallet[w] EXCEPT !.filters = tokens]
       ELSE [status |-> "active", created |-> clock, polled |-> Never,
             filters |-> tokens]]
  /\ UNCHANGED <<clock, chain, reorgs, store, indexer, up, nextTick, wake, job,
                 faults>>

(* AddWallet: one transaction inserts the wallet, or finds the row of the  *)
(* same user, address and chain, and adds filters; it never drops any.     *)
AddWallet(w, tokens) ==
  /\ up
  /\ wallet[w].status # "deleted"
  /\ wallet' = [wallet EXCEPT ![w] =
       IF Active(w)
       THEN [wallet[w] EXCEPT !.filters = @ \cup tokens]
       ELSE [status |-> "active", created |-> clock, polled |-> Never,
             filters |-> tokens]]
  /\ UNCHANGED <<clock, chain, reorgs, store, indexer, up, nextTick, wake, job,
                 faults>>

(* Mutant of DeleteWallets: no ON DELETE CASCADE.                          *)
DeleteWalletsNoCascade(W) ==
  /\ up
  /\ W # {} /\ \A w \in W : Active(w)
  /\ wallet' = [w \in Wallet |->
       IF w \in W THEN [wallet[w] EXCEPT !.status = "deleted", !.filters = {}]
                  ELSE wallet[w]]
  /\ UNCHANGED <<clock, chain, reorgs, store, indexer, up, nextTick, wake, job,
                 faults>>

(* DeleteWalletsByName: every wallet of that name goes at once, and the    *)
(* foreign keys take its filters and transactions with it.                 *)
DeleteWallets(W) ==
  /\ up
  /\ W # {} /\ \A w \in W : Active(w)
  /\ wallet' = [w \in Wallet |->
       IF w \in W THEN [wallet[w] EXCEPT !.status = "deleted", !.filters = {}]
                  ELSE wallet[w]]
  /\ store' = {r \in store : r.wallet \notin W}
  /\ UNCHANGED <<clock, chain, reorgs, indexer, up, nextTick, wake, job, faults>>

-----------------------------------------------------------------------------
(* PollOnce.  In each action j is the local state before the step.         *)

Fault == faults < MaxFaults /\ faults' = faults + 1

(* The next iteration: what the last one computed goes out of scope.       *)
Continue(j) ==
  [NoJob EXCEPT !.pc = "cycle", !.now = j.now, !.todo = j.todo, !.seen = j.seen]

(* ListWalletsForPolling, then now.                                        *)
StartPoll(p) ==
  /\ up /\ wake[p] /\ job[p].pc = "idle"
  /\ wake' = [wake EXCEPT ![p] = FALSE]
  /\ job' = [job EXCEPT ![p] =
       [NoJob EXCEPT !.pc = "cycle", !.now = clock,
                     !.todo = {w \in Wallet : Active(w)},
                     !.seen = [w \in Wallet |->
                       IF Active(w) THEN wallet[w].polled ELSE Never]]]
  /\ UNCHANGED <<clock, chain, reorgs, wallet, store, indexer, up, nextTick,
                 faults>>

ListFails(p) ==
  /\ up /\ wake[p] /\ job[p].pc = "idle"
  /\ wake' = [wake EXCEPT ![p] = FALSE]
  /\ Fault
  /\ UNCHANGED <<clock, chain, reorgs, wallet, store, indexer, up, nextTick, job>>

Since(j, w) == Max2(j.now - Window, j.seen[w])

(* findBlockByTimestamp over StartBlock .. Height: the last block not after  *)
(* since, or StartBlock when there is none.                                *)
IsStart(start, since) ==
  /\ start >= StartBlock
  /\ start > StartBlock => start <= Height /\ chain[start].ts <= since
  /\ \A h \in start+1 .. Height : chain[h].ts > since

(* The next wallet of the list, which has no order: since, then the search *)
(* for the first block.                                                    *)
Resolve(p, w) ==
  LET j == job[p] IN
  /\ up /\ j.pc = "cycle" /\ w \in j.todo \ Unsupported
  /\ \E start \in StartBlock .. Max2(StartBlock, Height) :
       /\ IsStart(start, Since(j, w))
       /\ job' = [job EXCEPT ![p] =
            [j EXCEPT !.pc = "head", !.todo = @ \ {w}, !.w = w,
                      !.since = Since(j, w), !.start = start,
                      !.current = start, !.safe = 0, !.batch = {}]]
  /\ UNCHANGED <<clock, chain, reorgs, wallet, store, indexer, up, nextTick,
                 wake, faults>>

(* Mutant of Skip: return where the code has continue.                     *)
SkipReturns(p, w) ==
  LET j == job[p] IN
  /\ up /\ j.pc = "cycle" /\ w \in j.todo \cap (Unsupported \cup Flaky)
  /\ job' = [job EXCEPT ![p] = [j EXCEPT !.todo = {}]]
  /\ UNCHANGED <<clock, chain, reorgs, wallet, store, indexer, up, nextTick,
                 wake, faults>>

(* No provider for the chain, or the first calls fail: on to the next.     *)
Skip(p, w) ==
  LET j == job[p] IN
  /\ up /\ j.pc = "cycle" /\ w \in j.todo \cap (Unsupported \cup Flaky)
  /\ job' = [job EXCEPT ![p] = [j EXCEPT !.todo = @ \ {w}]]
  /\ UNCHANGED <<clock, chain, reorgs, wallet, store, indexer, up, nextTick,
                 wake, faults>>

(* Mutant of SafeTo: one confirmation too few.                             *)
SafeToTooHigh(latest) == latest - Confirmations + 1

SafeTo(latest) == latest - Confirmations

RowLabel(w) ==
  IF \E s \in Token : wallet[w].filters = {s}
  THEN CHOOSE s \in Token : wallet[w].filters = {s}
  ELSE "ERC20"

(* Mutant of FetchHead: no test for a chain shorter than Confirmations.    *)
FetchHeadShortChain(p) ==
  LET j == job[p] IN
  /\ up /\ j.pc = "head"
  /\ job' = [job EXCEPT ![p] =
       [j EXCEPT !.pc = IF j.start > SafeTo(Height) THEN "mark" ELSE "scan",
                 !.safe = SafeTo(Height), !.label = RowLabel(j.w)]]
  /\ UNCHANGED <<clock, chain, reorgs, wallet, store, indexer, up, nextTick,
                 wake, faults>>

(* The head is read again; nothing to scan ends the fetch with no rows,    *)
(* for a wallet never polled as well.  Then the token filters are read.    *)
FetchHead(p) ==
  LET j == job[p] IN
  /\ up /\ j.pc = "head"
  /\ job' = [job EXCEPT ![p] =
       IF Height <= Confirmations THEN [j EXCEPT !.pc = "mark"]
       ELSE [j EXCEPT !.pc = IF j.start > SafeTo(Height) THEN "mark" ELSE "scan",
                      !.safe = SafeTo(Height), !.label = RowLabel(j.w)]]
  /\ UNCHANGED <<clock, chain, reorgs, wallet, store, indexer, up, nextTick,
                 wake, faults>>

(* The transfers of w in a block, and the rows of a range of blocks.  An   *)
(* ERC20 row whose header lookup fails (t in lost) is stamped with the     *)
(* time of the lookup, and then never is before since.                     *)
Concerning(w, h) == {t \in chain[h].txs : w \in Touches[t]}

(* Mutant of RowOf: every row carries the time it was fetched at.          *)
RowOfFetchTime(j, t, h, lost) ==
  [wallet |-> j.w, transfer |-> t,
   label  |-> IF t \in Erc20 THEN j.label ELSE "MATIC", stamp |-> clock]

RowOf(j, t, h, lost) ==
  [wallet   |-> j.w, transfer |-> t,
   label    |-> IF t \in Erc20 THEN j.label ELSE "MATIC",
   stamp    |-> IF t \in lost THEN clock ELSE chain[h].ts]

(* Mutant of RangeRows: a block at since is left out.                      *)
RangeRowsAfter(j, from, to, since, lost) ==
  UNION {{RowOf(j, t, h, lost) :
            t \in {t \in Concerning(j.w, h) :
                     t \in lost \/ chain[h].ts > since}} : h \in from .. to}

RangeRows(j, from, to, since, lost) ==
  UNION {{RowOf(j, t, h, lost) :
            t \in {t \in Concerning(j.w, h) :
                     t \in lost \/ chain[h].ts >= since}} : h \in from .. to}

Lookups(j, from, to) ==
  IF j.w \in Flaky
  THEN SUBSET (Erc20 \cap UNION {Concerning(j.w, h) : h \in from .. to})
  ELSE {{}}

Bootstrap(j) == j.seen[j.w] = Never

(* One chunk of the scan, and the indexer state saved after it.            *)
ScanChunk(p) ==
  LET j  == job[p]
      to == Min2(j.current + ChunkSize - 1, j.safe)
  IN
  /\ up /\ j.pc = "scan" /\ ~Bootstrap(j)
  /\ \E lost \in Lookups(j, j.current, to) :
       job' = [job EXCEPT ![p] =
         [j EXCEPT !.batch = @ \cup RangeRows(j, j.current, to, j.since, lost),
                   !.current = to + 1,
                   !.pc = IF to = j.safe THEN "insert" ELSE "scan"]]
  /\ indexer' = to
  /\ UNCHANGED <<clock, chain, reorgs, wallet, store, up, nextTick, wake, faults>>

(* fetchLatestTen.  Chunks count back from safeTo: RangeOf(j, h) is the    *)
(* number of the one block h is in.                                        *)
RangeOf(j, h) == (j.safe - h) \div ChunkSize

(* The order rows are taken in: chunks from the newest, in a chunk the     *)
(* ERC20 rows before the native ones, and native ones newest first.  Logs  *)
(* of one transaction with one contract and direction, of which the code   *)
(* takes one, are a single transfer here.                                  *)
TakenBefore(j, s, g, t, h) ==
  \/ RangeOf(j, g) < RangeOf(j, h)
  \/ /\ RangeOf(j, g) = RangeOf(j, h)
     /\ t \notin Erc20
     /\ s \in Erc20 \/ g > h

LatestTen(p) ==
  LET j     == job[p]
      low   == Max2(StartBlock, j.safe - MaxRanges * ChunkSize + 1)
      found == {x \in Transfer \X (low .. j.safe) : x[1] \in Concerning(j.w, x[2])}
  IN
  /\ up /\ j.pc = "scan" /\ Bootstrap(j)
  /\ \E taken \in SUBSET found, lost \in Lookups(j, low, j.safe) :
       /\ Cardinality(taken) = Min2(Target, Cardinality(found))
       /\ \A x \in taken, y \in found \ taken : ~TakenBefore(j, y[1], y[2], x[1], x[2])
       /\ job' = [job EXCEPT ![p] =
            [j EXCEPT !.pc = "insert",
                      !.batch = {RowOf(j, x[1], x[2], lost) : x \in taken}]]
  /\ UNCHANGED <<clock, chain, reorgs, wallet, store, indexer, up, nextTick,
                 wake, faults>>

(* An RPC call fails, or the 45 s for this wallet are over: the rows read  *)
(* so far are dropped and the wallet is not marked.                        *)
ProviderError(p) ==
  /\ up /\ job[p].pc \in {"head", "scan"} /\ job[p].w \in Flaky
  /\ job' = [job EXCEPT ![p] = Continue(@)]
  /\ UNCHANGED <<clock, chain, reorgs, wallet, store, indexer, up, nextTick,
                 wake, faults>>

(* InsertWalletTransactions, one row: ON CONFLICT DO NOTHING.              *)
Insert(p) ==
  LET j == job[p] IN
  /\ up /\ j.pc = "insert" /\ Active(j.w)
  /\ \E r \in j.batch :
       /\ store' = IF \E s \in store : Key(s) = Key(r) THEN store ELSE store \cup {r}
       /\ job' = [job EXCEPT ![p] = [j EXCEPT !.batch = @ \ {r}]]
  /\ UNCHANGED <<clock, chain, reorgs, wallet, indexer, up, nextTick, wake, faults>>

(* The first row that fails ends the insert, and the error is only logged. *)
AbandonBatch(p) ==
  /\ up /\ job[p].pc = "insert" /\ job[p].batch # {}
  /\ job' = [job EXCEPT ![p].pc = "mark"]
  /\ UNCHANGED <<clock, chain, reorgs, wallet, store, indexer, up, nextTick, wake>>

InsertFails(p) == Fault /\ AbandonBatch(p)

(* The foreign key makes every row of a deleted wallet fail.               *)
InsertRejected(p) ==
  /\ ~Active(job[p].w) /\ AbandonBatch(p)
  /\ UNCHANGED faults

InsertDone(p) ==
  /\ up /\ job[p].pc = "insert" /\ job[p].batch = {}
  /\ job' = [job EXCEPT ![p].pc = "mark"]
  /\ UNCHANGED <<clock, chain, reorgs, wallet, store, indexer, up, nextTick,
                 wake, faults>>

(* MarkWalletPolled: an UPDATE that finds no row when the wallet is gone.  *)
Mark(p) ==
  LET j == job[p] IN
  /\ up /\ j.pc = "mark"
  /\ wallet' = IF Active(j.w) THEN [wallet EXCEPT ![j.w].polled = j.now] ELSE wallet
  /\ job' = [job EXCEPT ![p] = Continue(j)]
  /\ UNCHANGED <<clock, chain, reorgs, store, indexer, up, nextTick, wake, faults>>

MarkFails(p) ==
  /\ up /\ job[p].pc = "mark"
  /\ Fault
  /\ job' = [job EXCEPT ![p] = Continue(@)]
  /\ UNCHANGED <<clock, chain, reorgs, wallet, store, indexer, up, nextTick, wake>>

EndPoll(p) ==
  /\ up /\ job[p].pc = "cycle" /\ job[p].todo = {}
  /\ job' = [job EXCEPT ![p] = NoJob]
  /\ UNCHANGED <<clock, chain, reorgs, wallet, store, indexer, up, nextTick,
                 wake, faults>>

-----------------------------------------------------------------------------
(* The process dies, and starts again: main polls at once, and the first   *)
(* tick comes a period later.                                              *)

Crash ==
  /\ up /\ Fault
  /\ up' = FALSE
  /\ job' = [p \in Poller |-> NoJob]
  /\ wake' = [p \in Poller |-> FALSE]
  /\ UNCHANGED <<clock, chain, reorgs, wallet, store, indexer, nextTick>>

Restart ==
  /\ ~up
  /\ up' = TRUE
  /\ wake' = [wake EXCEPT !["startup"] = TRUE]
  /\ nextTick' = clock + Window
  /\ UNCHANGED <<clock, chain, reorgs, wallet, store, indexer, job, faults>>

-----------------------------------------------------------------------------
Init ==
  /\ clock = 0
  /\ chain = <<>>
  /\ reorgs = 0
  /\ wallet = [w \in Wallet |-> [status |-> "absent", created |-> 0,
                                 polled |-> Never, filters |-> {}]]
  /\ store = {}
  /\ indexer = 0
  /\ up = TRUE
  /\ nextTick = Window
  /\ wake = [p \in Poller |-> p = "startup"]
  /\ job = [p \in Poller |-> NoJob]
  /\ faults = 0

PollerStep(p) ==
  \/ StartPoll(p) \/ FetchHead(p) \/ ScanChunk(p) \/ LatestTen(p)
  \/ Insert(p) \/ InsertRejected(p) \/ InsertDone(p) \/ Mark(p) \/ EndPoll(p)
  \/ ProviderError(p)
  \/ \E w \in Wallet : Resolve(p, w) \/ Skip(p, w)

PollerFault(p) == ListFails(p) \/ InsertFails(p) \/ MarkFails(p)

Handlers ==
  \/ \E w \in Wallet, tokens \in SUBSET Token : AddWallet(w, tokens)
  \/ \E W \in SUBSET Wallet : DeleteWallets(W)

Next ==
  \/ Tick \/ Mine \/ Reorg
  \/ Handlers
  \/ \E p \in Poller : PollerStep(p) \/ PollerFault(p)
  \/ Crash \/ Restart

Spec == Init /\ [][Next]_vars

(* Go schedules every runnable goroutine, and every call of a poll ends:   *)
(* the provider's by its 45 s timeout at the latest.  Time goes on.        *)
FairSpec == Spec /\ WF_vars(Tick) /\ \A p \in Poller : WF_vars(PollerStep(p))

-----------------------------------------------------------------------------
(* Type invariant.                                                         *)
TypeOK ==
  /\ clock \in Time
  /\ chain \in Seq(Block)
  /\ reorgs \in 0 .. MaxReorgs
  /\ wallet \in [Wallet -> WalletRow]
  /\ store \subseteq Row
  /\ indexer \in Nat
  /\ up \in BOOLEAN
  /\ nextTick \in Nat
  /\ wake \in [Poller -> BOOLEAN]
  /\ job \in [Poller -> Job]
  /\ faults \in 0 .. MaxFaults

(* No reorganisation can take a stored transfer back: a row of             *)
(* wallet_transactions belongs to a wallet that exists and that the        *)
(* transfer concerns, and the transfer is in a final block, whose time a   *)
(* native row carries.  FetchWalletTransactions scans to safeTo only, and  *)
(* what it read stays true until InsertWalletTransactions writes it.       *)
StoredIsFinal ==
  \A r \in store :
    /\ Active(r.wallet)
    /\ r.wallet \in Touches[r.transfer]
    /\ \E h \in 1 .. FinalHeight :
         /\ r.transfer \in chain[h].txs
         /\ r.transfer \notin Erc20 => r.stamp = chain[h].ts

(* A native transfer is stored at most once per wallet, although the two   *)
(* pollers overlap, windows touch, and a crash between insert and mark has *)
(* the same blocks fetched again.                                          *)
NativeOnce ==
  \A r, s \in store :
    /\ r.wallet = s.wallet /\ r.transfer = s.transfer
    /\ r.transfer \notin Erc20
    => r = s

(* polygon_indexer_state never names a block a reorganisation can replace. *)
IndexedIsFinal == indexer <= FinalHeight

(* When PollOnce comes to mark a wallet, every transfer of its window that *)
(* is final is in the table, or in a batch whose insert has failed; unless *)
(* a reorganisation under way moved the window below the block the search  *)
(* had found.  Transfers of one transaction that share a label share a row *)
(* (the unique index), hence the comparison of keys.                       *)
WindowStored ==
  \A p \in Poller :
    LET j == job[p]
        Covers(r, t, h) ==
          /\ r.wallet = j.w /\ Hash[r.transfer] = Hash[t]
          /\ IF t \in Erc20 THEN r.label = j.label
             ELSE r.label = "MATIC" /\ r.stamp = chain[h].ts
        searchHolds == \A h \in StartBlock .. Min2(j.start - 1, j.safe) :
                         chain[h].ts < j.since
    IN  j.pc = "mark" /\ Active(j.w) /\ ~Bootstrap(j) /\ searchHolds =>
          \A h \in StartBlock .. j.safe : \A t \in Concerning(j.w, h) :
            chain[h].ts >= j.since =>
              \E r \in store \cup j.batch : Covers(r, t, h)

(* The ERC20 rows of a wallet have two labels at most, "ERC20" and its      *)
(* first filter, whenever filters are added while a poll goes on: the      *)
(* label is the filter while there is one only, and filters never go.      *)
(* A transfer fetched under both is stored under both.                     *)
LabelsOfAWallet ==
  \A r, s \in store :
    /\ r.transfer \in Erc20 /\ s.transfer \in Erc20 /\ r.wallet = s.wallet
    /\ r.label # "ERC20" /\ s.label # "ERC20"
    => r.label = s.label /\ r.label \in wallet[r.wallet].filters

(* The pipeline keeps the promise of TransferLedger.                       *)
Ledger == INSTANCE TransferLedger WITH
            tracked <- {w \in Wallet : Active(w)},
            settled <- Final,
            ledger  <- {<<r.wallet, r.transfer>> : r \in store}

ImplementsLedger == Ledger!LedgerSpec

(* A wallet that a provider serves without errors is polled again within   *)
(* the next period or so, whatever happens to the other wallets of the     *)
(* list: PollOnce goes on to the next wallet after an error.               *)
EveryWalletPolled ==
  \A w \in Wallet \ (Unsupported \cup Flaky) : \A t \in 0 .. MaxClock - Window :
    clock = t /\ Active(w) ~> wallet[w].polled >= t \/ ~Active(w)

(* README.md:5 "track wallet transactions": a transfer that happened while *)
(* the wallet was tracked is in the table once it is final and no later    *)
(* poll can fetch it, which scans from last_polled_at at the earliest.     *)
NoTransferMissed ==
  (\A p \in Poller : job[p].pc = "idle") =>
    \A w \in Wallet : Active(w) =>
      \A h \in StartBlock .. FinalHeight : \A t \in Concerning(w, h) :
        wallet[w].created <= chain[h].ts /\ chain[h].ts < wallet[w].polled
        => \E r \in store : r.wallet = w /\ r.transfer = t
=============================================================================
