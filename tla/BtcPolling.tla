------------------------------ MODULE BtcPolling ------------------------------
(***************************************************************************)
(* Poll cycles of one btc-mainnet wallet: TrackerService.PollOnce with the *)
(* BTC provider, which asks a public API for the latest transactions of    *)
(* the address in one request and keeps those not before since.  There are *)
(* no confirmations and no bootstrap, and a block carries the time its     *)
(* miner gave it.  The two goroutines that poll are one here: that they    *)
(* overlap is in WalletPolling.                                            *)
(***************************************************************************)
EXTENDS Integers, Sequences, FiniteSets

CONSTANTS
  Tx,         \* transactions of the address
  Paid,       \* Paid[t]: satoshi that outputs of t pay to it
  Spent,      \* Spent[t]: satoshi that inputs of t take from it
  PageSize,   \* confirmed transactions in one answer of the API
  Period,     \* POLL_INTERVAL_MINUTES: the poll window
  Skew,       \* how far a block's time lies before its arrival
  LastInstant, MaxTxReorgs, MaxErrors   \* bounds

ASSUME BtcAssumption ==
  /\ Paid \in [Tx -> Nat] /\ Spent \in [Tx -> Nat]
  /\ PageSize \in Nat /\ Period \in Nat \ {0} /\ Skew \in Nat
  /\ LastInstant \in Nat /\ MaxTxReorgs \in Nat /\ MaxErrors \in Nat

Unsent == -1
Never  == 0                   \* last_polled_at is NULL
Born   == Period + Skew + 1   \* when the wallet is added, long after 1970

VARIABLES
  clock,
  blockTime,  \* blockTime[t]: status.block_time, 0 when not in a block
  mined,      \* the transactions in blocks, in chain order
  rows,       \* rows of wallet_transactions
  polled,     \* last_polled_at
  poll,       \* local variables of PollOnce
  excused,    \* history: transactions the code itself gives up
  txReorgs, errors

btcVars == <<clock, blockTime, mined, rows, polled, poll, excused, txReorgs, errors>>

Idle == [pc |-> "idle", now |-> 0, since |-> 0, batch |-> {}]

Error == errors < MaxErrors /\ errors' = errors + 1

-----------------------------------------------------------------------------
(* The network.                                                            *)

ClockTick ==
  /\ clock < LastInstant /\ clock' = clock + 1
  /\ UNCHANGED <<blockTime, mined, rows, polled, poll, excused, txReorgs, errors>>

Broadcast(t) ==
  /\ blockTime[t] = Unsent
  /\ blockTime' = [blockTime EXCEPT ![t] = 0]
  /\ UNCHANGED <<clock, mined, rows, polled, poll, excused, txReorgs, errors>>

(* No request to come asks for a time before this one.                     *)
NextSince ==
  CASE poll.pc = "fetch" -> poll.since
    [] poll.pc \in {"insert", "mark"} -> poll.now
    [] OTHER -> polled

Mine(t) ==
  /\ blockTime[t] = 0
  /\ mined' = Append(mined, t)
  /\ \E stamp \in clock - Skew .. clock :
       /\ blockTime' = [blockTime EXCEPT ![t] = stamp]
       /\ excused' = IF stamp < NextSince THEN excused \cup {t} ELSE excused \ {t}
  /\ UNCHANGED <<clock, rows, polled, poll, txReorgs, errors>>

(* The last block gives way to others, and its transaction waits again.    *)
TxReorg ==
  /\ txReorgs < MaxTxReorgs /\ mined # <<>>
  /\ blockTime' = [blockTime EXCEPT ![mined[Len(mined)]] = 0]
  /\ mined' = SubSeq(mined, 1, Len(mined) - 1)
  /\ txReorgs' = txReorgs + 1
  /\ UNCHANGED <<clock, rows, polled, poll, excused, errors>>

-----------------------------------------------------------------------------
InBlock(t) == blockTime[t] > 0

(* Mutant of InWindow: strictly after since.                               *)
InWindowAfter(t, since) == blockTime[t] > since

(* Mutant of InWindow: unconfirmed transactions as well.                   *)
InWindowOrWaiting(t, since) == blockTime[t] >= since \/ blockTime[t] = 0

InWindow(t, since) == blockTime[t] >= since

(* Mutant of BtcRow: the time of the request.                              *)
BtcRowFetchTime(t) == [tx |-> t, stamp |-> clock, net |-> Paid[t] - Spent[t]]

(* One row per transaction, of the net amount: its sign is the direction.  *)
BtcRow(t) == [tx |-> t, stamp |-> blockTime[t], net |-> Paid[t] - Spent[t]]

(* What the API answers: what waits, and the newest in blocks.             *)
Page ==
  {t \in Tx : blockTime[t] = 0}
  \cup {mined[i] : i \in {i \in 1 .. Len(mined) : i > Len(mined) - PageSize}}

(* PollOnce begins; a last poll longer ago than Period, or none, leaves a  *)
(* stretch before the window.                                              *)
BtcStart ==
  /\ poll.pc = "idle"
  /\ LET since == IF polled > clock - Period THEN polled ELSE clock - Period IN
       /\ poll' = [Idle EXCEPT !.pc = "fetch", !.now = clock, !.since = since]
       /\ excused' = excused \cup {t \in Tx : InBlock(t) /\ blockTime[t] \in polled .. since - 1}
  /\ UNCHANGED <<clock, blockTime, mined, rows, polled, txReorgs, errors>>

BtcFetch ==
  /\ poll.pc = "fetch"
  /\ poll' = [poll EXCEPT !.pc = "insert",
                          !.batch = {BtcRow(t) : t \in {t \in Page : InWindow(t, poll.since)}}]
  /\ excused' = excused \cup {t \in Tx \ Page : InWindow(t, poll.since)}
  /\ UNCHANGED <<clock, blockTime, mined, rows, polled, txReorgs, errors>>

(* The request fails: the wallet is not marked.                            *)
BtcFetchFails ==
  /\ poll.pc = "fetch" /\ Error
  /\ poll' = Idle
  /\ UNCHANGED <<clock, blockTime, mined, rows, polled, excused, txReorgs>>

SameRow(r, s) == r.tx = s.tx /\ r.stamp = s.stamp

(* InsertWalletTransactions: ON CONFLICT DO NOTHING.                       *)
BtcInsert ==
  /\ poll.pc = "insert"
  /\ rows' = rows \cup {r \in poll.batch : \A s \in rows : ~SameRow(r, s)}
  /\ poll' = [poll EXCEPT !.pc = "mark"]
  /\ UNCHANGED <<clock, blockTime, mined, polled, excused, txReorgs, errors>>

(* A row fails, and those after it are dropped; the wallet is marked.      *)
BtcInsertFails ==
  /\ poll.pc = "insert" /\ Error
  /\ \E kept \in SUBSET poll.batch :
       /\ rows' = rows \cup {r \in kept : \A s \in rows : ~SameRow(r, s)}
       /\ excused' = excused \cup {r.tx : r \in poll.batch \ kept}
  /\ poll' = [poll EXCEPT !.pc = "mark"]
  /\ UNCHANGED <<clock, blockTime, mined, polled, txReorgs>>

BtcMark ==
  /\ poll.pc = "mark"
  /\ polled' = poll.now /\ poll' = Idle
  /\ UNCHANGED <<clock, blockTime, mined, rows, excused, txReorgs, errors>>

(* The process dies, or the mark fails.                                    *)
BtcCrash ==
  /\ poll.pc # "idle" /\ Error
  /\ poll' = Idle
  /\ UNCHANGED <<clock, blockTime, mined, rows, polled, excused, txReorgs>>

BtcInit ==
  /\ clock = Born /\ polled = Never
  /\ blockTime = [t \in Tx |-> Unsent] /\ mined = <<>>
  /\ rows = {} /\ excused = {} /\ poll = Idle
  /\ txReorgs = 0 /\ errors = 0

BtcNext ==
  \/ ClockTick \/ TxReorg
  \/ \E t \in Tx : Broadcast(t) \/ Mine(t)
  \/ BtcStart \/ BtcFetch \/ BtcInsert \/ BtcMark
  \/ BtcFetchFails \/ BtcInsertFails \/ BtcCrash

BtcSpec == BtcInit /\ [][BtcNext]_btcVars

-----------------------------------------------------------------------------
(* A transaction that is in no block is never stored: the API gives it no  *)
(* block time, which decodes to 1970 and is before every since.            *)
OnlyMinedStored == \A r \in rows : r.stamp > 0

(* Without reorganisations a transaction is stored once, however often a   *)
(* poll that failed or died has it fetched again; each reorganisation may  *)
(* add one row under another time, since the provider waits for no         *)
(* confirmations.                                                          *)
BtcStoredOnce ==
  \A t \in Tx : Cardinality({r \in rows : r.tx = t}) <= 1 + txReorgs

(* A transaction that is not stored when a poll is marked later than its   *)
(* block has been missed for one of four reasons: its block came with a    *)
(* time a request had already passed; the poll before was longer ago than  *)
(* the window, or there was none; the answer was full; or an insert        *)
(* failed.  No order of polls, errors and restarts adds a fifth.           *)
MissedForAReason ==
  poll.pc = "idle" =>
    \A t \in Tx \ excused :
      InBlock(t) /\ blockTime[t] < polled
      => \E r \in rows : r.tx = t /\ r.stamp = blockTime[t]
=============================================================================
