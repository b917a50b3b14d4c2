--------------------------- MODULE ProvidersProofs ---------------------------
(***************************************************************************)
(* For any transactions, amounts, page size, period, skew and bounds: what *)
(* the polls of a btc-mainnet wallet store and what they may miss; and     *)
(* what both providers promise holds where the one that is asked depends   *)
(* on the chain of the wallet.                                             *)
(***************************************************************************)
EXTENDS Providers, ProviderFetchProofs

(* The rows of the table and those about to be.                            *)
Known == rows \cup poll.batch

RowType == [tx : Tx, stamp : Int, net : Int]

BtcTypeOK ==
  /\ clock \in Nat /\ Born <= clock
  /\ blockTime \in [Tx -> Int]
  /\ mined \in Seq(Tx)
  /\ rows \subseteq RowType
  /\ polled \in Nat
  /\ poll \in [pc : {"idle", "fetch", "insert", "mark"}, now : Nat, since : Int,
               batch : SUBSET RowType]
  /\ txReorgs \in Nat

(* A poll asks for a time after 1970 and no earlier than the last mark.    *)
PollOK ==
  /\ poll.now <= clock /\ polled <= clock
  /\ poll.pc # "idle" => 0 < poll.since /\ polled <= poll.since /\ poll.since <= poll.now

(* A row holds a time of a block and the net amount of its transaction.    *)
RowsOK == \A r \in Known : r.stamp > 0 /\ r.net = Paid[r.tx] - Spent[r.tx]

(* The times a transaction is known under, or will be if it is fetched     *)
(* now.  A reorganisation frees the time of the block it takes back for    *)
(* another one; nothing else adds to them but the first block.             *)
Times(t) ==
  {r.stamp : r \in {r \in Known : r.tx = t}}
  \cup (IF InBlock(t) THEN {blockTime[t]} ELSE {})

TimesOK ==
  \A t \in Tx :
    /\ IsFiniteSet(Times(t))
    /\ Cardinality(Times(t)) <= txReorgs + (IF InBlock(t) THEN 1 ELSE 0)

(* What each point of a poll owes the transactions it has not given up.    *)
Stored(t)  == \E r \in rows : r.tx = t /\ r.stamp = blockTime[t]
Fetched(t) == \E r \in poll.batch : r.tx = t /\ r.stamp = blockTime[t]

OwedOK ==
  \A t \in Tx \ excused : InBlock(t) =>
    /\ blockTime[t] < polled => Stored(t)
    /\ poll.pc = "fetch" /\ blockTime[t] < poll.since => Stored(t)
    /\ poll.pc = "insert" /\ blockTime[t] < poll.now => Stored(t) \/ Fetched(t)
    /\ poll.pc = "mark" /\ blockTime[t] < poll.now => Stored(t)

BtcInv == BtcTypeOK /\ PollOK /\ RowsOK /\ TimesOK /\ OwedOK

-----------------------------------------------------------------------------
LEMMA BtcNumbers ==
  /\ Period \in Nat \ {0} /\ Skew \in Nat /\ Born \in Nat /\ Born = Period + Skew + 1
  /\ \A t \in Tx : Paid[t] - Spent[t] \in Int
BY BtcAssumption DEF Born

LEMMA BtcRowIs ==
  ASSUME NEW t \in Tx, blockTime \in [Tx -> Int]
  PROVE  /\ BtcRow(t) \in RowType /\ BtcRow(t).tx = t /\ BtcRow(t).stamp = blockTime[t]
         /\ BtcRow(t).net = Paid[t] - Spent[t]
BY BtcNumbers DEF BtcRow, RowType

LEMMA PageIs ==
  ASSUME mined \in Seq(Tx)
  PROVE  Page \subseteq Tx
<1>1. \A i \in 1 .. Len(mined) : mined[i] \in Tx
  OBVIOUS
<1> QED BY <1>1 DEF Page

(* A poll that ends, well or not, leaves the table as it is.               *)
LEMMA IdlePoll ==
  /\ Idle \in [pc : {"idle", "fetch", "insert", "mark"}, now : Nat, since : Int,
               batch : SUBSET RowType]
  /\ Idle.pc = "idle" /\ Idle.batch = {} /\ Idle.now = 0
BY DEF Idle

(* Fewer times known, and the bound no lower.                              *)
LEMMA TimesFewer ==
  ASSUME NEW S, NEW T, IsFiniteSet(S), T \subseteq S, NEW n \in Nat, NEW m \in Nat,
         Cardinality(S) <= n, n <= m
  PROVE  IsFiniteSet(T) /\ Cardinality(T) <= m
<1>1. T \in SUBSET S
  OBVIOUS
<1>2. IsFiniteSet(T) /\ Cardinality(T) <= Cardinality(S) /\ Cardinality(S) \in Nat
      /\ Cardinality(T) \in Nat
  BY <1>1, FS_Subset, FS_CardinalityType
<1> QED BY <1>2

-----------------------------------------------------------------------------
(* The network.                                                            *)
LEMMA BtcTickInv == BtcInv /\ ClockTick => BtcInv'
<1> SUFFICES ASSUME BtcInv, ClockTick PROVE BtcInv'
  OBVIOUS
<1>1. UNCHANGED <<blockTime, mined, rows, polled, poll, excused, txReorgs>>
      /\ clock' = clock + 1
  BY DEF ClockTick
<1>2. BtcTypeOK' /\ PollOK'
  BY <1>1, BtcNumbers DEF BtcInv, BtcTypeOK, PollOK
<1>3. RowsOK' /\ TimesOK' /\ OwedOK'
  BY <1>1 DEF BtcInv, RowsOK, TimesOK, Times, Known, InBlock, OwedOK, Stored, Fetched
<1> QED BY <1>2, <1>3 DEF BtcInv

LEMMA BtcBroadcastInv ==
  ASSUME BtcInv, NEW t \in Tx, Broadcast(t)
  PROVE  BtcInv'
<1>0. BtcTypeOK /\ TimesOK
  BY DEF BtcInv
<1>1. /\ UNCHANGED <<clock, mined, rows, polled, poll, excused, txReorgs>>
      /\ blockTime[t] = -1 /\ blockTime' = [blockTime EXCEPT ![t] = 0]
  BY DEF Broadcast, Unsent
<1>2. /\ blockTime' \in [Tx -> Int] /\ blockTime'[t] = 0
      /\ \A u \in Tx : u # t => blockTime'[u] = blockTime[u]
  BY <1>0, <1>1 DEF BtcTypeOK
<1>3. ~InBlock(t) /\ ~InBlock(t)' /\ \A u \in Tx : u # t => InBlock(u)' = InBlock(u)
  BY <1>1, <1>2 DEF InBlock
<1>4. BtcTypeOK' /\ PollOK' /\ RowsOK'
  BY <1>1, <1>2 DEF BtcInv, BtcTypeOK, PollOK, RowsOK, Known
<1>5. \A u \in Tx : Times(u)' = Times(u)
  BY <1>1, <1>2, <1>3 DEF Times, Known
<1>6. TimesOK'
  BY <1>0, <1>1, <1>3, <1>5 DEF TimesOK
<1>7. OwedOK'
  BY <1>1, <1>2, <1>3 DEF BtcInv, OwedOK, Stored, Fetched
<1> QED BY <1>4, <1>6, <1>7 DEF BtcInv

(* A block's time is one no poll to come asks for, or excuses the          *)
(* transaction.                                                            *)
LEMMA BtcMineInv ==
  ASSUME BtcInv, NEW t \in Tx, Mine(t)
  PROVE  BtcInv'
<1>0. BtcTypeOK /\ PollOK /\ TimesOK /\ OwedOK
  BY DEF BtcInv
<1>1. PICK stamp \in clock - Skew .. clock :
        /\ blockTime' = [blockTime EXCEPT ![t] = stamp]
        /\ excused' = IF stamp < NextSince THEN excused \cup {t} ELSE excused \ {t}
  BY DEF Mine
<1>2. /\ UNCHANGED <<clock, rows, polled, poll, txReorgs>>
      /\ blockTime[t] = 0 /\ mined' = Append(mined, t)
  BY DEF Mine
<1>3. stamp \in Int /\ stamp > 0
  BY <1>0, <1>1, BtcNumbers DEF BtcTypeOK
<1>4. /\ blockTime' \in [Tx -> Int] /\ blockTime'[t] = stamp
      /\ \A u \in Tx : u # t => blockTime'[u] = blockTime[u]
  BY <1>0, <1>1, <1>3 DEF BtcTypeOK
<1>5. ~InBlock(t) /\ InBlock(t)' /\ \A u \in Tx : u # t => InBlock(u)' = InBlock(u)
  BY <1>2, <1>3, <1>4 DEF InBlock
<1>6. BtcTypeOK' /\ PollOK' /\ RowsOK'
  BY <1>2, <1>4 DEF BtcInv, BtcTypeOK, PollOK, RowsOK, Known
<1>7. TimesOK'
  <2>1. ASSUME NEW u \in Tx, u # t
        PROVE  Times(u)' = Times(u)
    BY <1>2, <1>4, <1>5, <2>1 DEF Times, Known
  <2>2. Times(t)' = Times(t) \cup {stamp}
    BY <1>2, <1>4, <1>5 DEF Times, Known
  <2>3. /\ IsFiniteSet(Times(t)) /\ Cardinality(Times(t)) <= txReorgs + 0
        /\ txReorgs \in Nat
    BY <1>0, <1>5 DEF TimesOK, BtcTypeOK
  <2>4. /\ IsFiniteSet(Times(t) \cup {stamp}) /\ Cardinality(Times(t)) \in Nat
        /\ Cardinality(Times(t) \cup {stamp}) =
             IF stamp \in Times(t) THEN Cardinality(Times(t)) ELSE Cardinality(Times(t)) + 1
    BY <2>3, FS_AddElement, FS_CardinalityType
  <2>5. Cardinality(Times(t) \cup {stamp}) <= txReorgs + 1
    BY <2>3, <2>4
  <2> QED BY <1>0, <1>2, <1>5, <2>1, <2>2, <2>4, <2>5 DEF TimesOK
<1>8. OwedOK'
  <2>1. ASSUME NEW u \in Tx \ excused', u # t, InBlock(u)'
        PROVE  /\ blockTime'[u] < polled' => Stored(u)'
               /\ poll'.pc = "fetch" /\ blockTime'[u] < poll'.since => Stored(u)'
               /\ poll'.pc = "insert" /\ blockTime'[u] < poll'.now => Stored(u)' \/ Fetched(u)'
               /\ poll'.pc = "mark" /\ blockTime'[u] < poll'.now => Stored(u)'
    <3>1. u \notin excused /\ InBlock(u) /\ blockTime'[u] = blockTime[u]
      BY <1>1, <1>4, <1>5, <2>1
    <3> QED BY <1>0, <1>2, <3>1 DEF OwedOK, Stored, Fetched
  <2>2. ASSUME t \notin excused'
        PROVE  /\ ~(blockTime'[t] < polled')
               /\ poll'.pc = "fetch" => ~(blockTime'[t] < poll'.since)
               /\ poll'.pc \in {"insert", "mark"} => ~(blockTime'[t] < poll'.now)
    <3>1. ~(stamp < NextSince) /\ poll \in [pc : {"idle", "fetch", "insert", "mark"},
                                   now : Nat, since : Int, batch : SUBSET RowType]
          /\ polled \in Nat
      BY <1>0, <1>1, <2>2 DEF BtcTypeOK
    <3>2. CASE poll.pc = "fetch"
      BY <1>0, <1>2, <1>3, <1>4, <3>1, <3>2 DEF NextSince, PollOK
    <3>3. CASE poll.pc \in {"insert", "mark"}
      BY <1>0, <1>2, <1>3, <1>4, <3>1, <3>3 DEF NextSince, PollOK
    <3>4. CASE poll.pc = "idle"
      BY <1>0, <1>2, <1>3, <1>4, <3>1, <3>4 DEF NextSince
    <3> QED BY <3>1, <3>2, <3>3, <3>4
  <2> QED BY <2>1, <2>2 DEF OwedOK
<1> QED BY <1>6, <1>7, <1>8 DEF BtcInv

(* The time of the block that is taken back stays known, if it is in a     *)
(* row; the transaction can get one more.                                  *)
LEMMA BtcReorgInv == BtcInv /\ TxReorg => BtcInv'
<1> SUFFICES ASSUME BtcInv, TxReorg PROVE BtcInv'
  OBVIOUS
<1>0. BtcTypeOK /\ TimesOK /\ OwedOK /\ mined \in Seq(Tx) /\ mined # <<>> /\ txReorgs \in Nat
  BY DEF BtcInv, BtcTypeOK, TxReorg
<1>1. /\ UNCHANGED <<clock, rows, polled, poll, excused>>
      /\ txReorgs' = txReorgs + 1
      /\ mined' = SubSeq(mined, 1, Len(mined) - 1)
      /\ blockTime' = [blockTime EXCEPT ![mined[Len(mined)]] = 0]
  BY DEF TxReorg
<1>2. mined' \in Seq(Tx) /\ mined[Len(mined)] \in Tx
  <2>1. Len(mined) \in Nat \ {0}
    BY <1>0
  <2>2. \A i \in 1 .. Len(mined) : mined[i] \in Tx
    BY <1>0
  <2> QED BY <1>0, <1>1, <2>1, <2>2
<1>3. PICK t \in Tx : t = mined[Len(mined)]
  BY <1>2
<1>4. /\ blockTime' \in [Tx -> Int] /\ blockTime'[t] = 0
      /\ \A u \in Tx : u # t => blockTime'[u] = blockTime[u]
  BY <1>0, <1>1, <1>3 DEF BtcTypeOK
<1>5. ~InBlock(t)' /\ \A u \in Tx : u # t => InBlock(u)' = InBlock(u)
  BY <1>4 DEF InBlock
<1>6. BtcTypeOK' /\ PollOK' /\ RowsOK'
  BY <1>0, <1>1, <1>2, <1>4 DEF BtcInv, BtcTypeOK, PollOK, RowsOK, Known
<1>7. TimesOK'
  <2>1. ASSUME NEW u \in Tx
        PROVE  Times(u)' \subseteq Times(u)
    BY <1>1, <1>4, <1>5 DEF Times, Known
  <2>2. ASSUME NEW u \in Tx
        PROVE  IsFiniteSet(Times(u)') /\ Cardinality(Times(u)') <= txReorgs + (IF InBlock(u) THEN 1 ELSE 0)
    <3>1. IsFiniteSet(Times(u))
          /\ Cardinality(Times(u)) <= txReorgs + (IF InBlock(u) THEN 1 ELSE 0)
      BY <1>0 DEF TimesOK
    <3>2. txReorgs + (IF InBlock(u) THEN 1 ELSE 0) \in Nat
      BY <1>0
    <3> QED BY <2>1, <3>1, <3>2, TimesFewer
  <2>3. ASSUME NEW u \in Tx
        PROVE  Cardinality(Times(u)') <= txReorgs' + (IF InBlock(u)' THEN 1 ELSE 0)
    <3>1. Cardinality(Times(u)') \in Nat
      BY <2>2, FS_CardinalityType
    <3>2. CASE u = t
      BY <1>0, <1>1, <1>5, <2>2, <3>1, <3>2
    <3>3. CASE u # t
      BY <1>0, <1>1, <1>5, <2>2, <3>1, <3>3
    <3> QED BY <3>2, <3>3
  <2> QED BY <2>2, <2>3 DEF TimesOK
<1>8. OwedOK'
  <2>1. \A u \in Tx : InBlock(u)' => u # t /\ InBlock(u) /\ blockTime'[u] = blockTime[u]
    BY <1>4, <1>5
  <2> QED BY <1>0, <1>1, <2>1 DEF OwedOK, Stored, Fetched
<1> QED BY <1>6, <1>7, <1>8 DEF BtcInv

-----------------------------------------------------------------------------
(* The poll.                                                               *)

(* A step that only forgets rows about to be written, or writes them,      *)
(* knows no more times.                                                    *)
LEMMA KnownFewer ==
  ASSUME BtcInv, Known' \subseteq Known, UNCHANGED <<blockTime, txReorgs>>
  PROVE  RowsOK' /\ TimesOK'
<1>0. txReorgs \in Nat /\ TimesOK /\ RowsOK
  BY DEF BtcInv, BtcTypeOK
<1>1. \A t \in Tx : Times(t)' \subseteq Times(t) /\ InBlock(t)' = InBlock(t)
  BY DEF Times, InBlock
<1>2. ASSUME NEW t \in Tx
      PROVE  /\ IsFiniteSet(Times(t)')
             /\ Cardinality(Times(t)') <= txReorgs + (IF InBlock(t) THEN 1 ELSE 0)
  <2>1. txReorgs + (IF InBlock(t) THEN 1 ELSE 0) \in Nat
    BY <1>0
  <2> QED BY <1>0, <1>1, <2>1, TimesFewer DEF TimesOK
<1>3. TimesOK'
  BY <1>1, <1>2 DEF TimesOK
<1> QED BY <1>0, <1>3 DEF RowsOK

LEMMA BtcStartInv == BtcInv /\ BtcStart => BtcInv'
<1> SUFFICES ASSUME BtcInv, BtcStart PROVE BtcInv'
  OBVIOUS
<1>0. BtcTypeOK /\ PollOK /\ OwedOK /\ poll.pc = "idle"
  BY DEF BtcInv, BtcStart
<1>1. PICK since : since = IF polled > clock - Period THEN polled ELSE clock - Period
  OBVIOUS
<1>2. /\ UNCHANGED <<clock, blockTime, mined, rows, polled, txReorgs>>
      /\ poll' = [Idle EXCEPT !.pc = "fetch", !.now = clock, !.since = since]
      /\ excused' = excused \cup {t \in Tx : InBlock(t) /\ blockTime[t] \in polled .. since - 1}
  BY <1>1 DEF BtcStart
<1>3. /\ poll'.pc = "fetch" /\ poll'.now = clock /\ poll'.since = since
      /\ poll'.batch = {}
  BY <1>2 DEF Idle
<1>4. since \in Int /\ 0 < since /\ polled <= since /\ since <= clock
  BY <1>0, <1>1, BtcNumbers DEF BtcTypeOK, PollOK
<1>5. poll' \in [pc : {"idle", "fetch", "insert", "mark"}, now : Nat, since : Int,
                 batch : SUBSET RowType]
  BY <1>0, <1>2, <1>4 DEF Idle, BtcTypeOK
<1>6. BtcTypeOK' /\ PollOK'
  BY <1>0, <1>2, <1>3, <1>4, <1>5 DEF BtcTypeOK, PollOK
<1>7. Known' \subseteq Known
  BY <1>2, <1>3 DEF Known
<1>8. RowsOK' /\ TimesOK'
  BY <1>2, <1>7, KnownFewer
<1>9. OwedOK'
  <2>1. ASSUME NEW t \in Tx \ excused', InBlock(t)
        PROVE  /\ t \notin excused /\ blockTime[t] < polled => Stored(t)
               /\ blockTime[t] < since => Stored(t)
    <3>1. t \notin excused /\ ~(blockTime[t] \in polled .. since - 1)
      BY <1>2, <2>1
    <3>2. blockTime[t] \in Int /\ polled \in Int
      BY <1>0 DEF BtcTypeOK
    <3>3. blockTime[t] < since => blockTime[t] < polled
      BY <1>4, <3>1, <3>2
    <3> QED BY <1>0, <2>1, <3>1, <3>3 DEF OwedOK
  <2>2. \A t \in Tx : InBlock(t)' = InBlock(t) /\ Stored(t)' = Stored(t)
                      /\ blockTime'[t] = blockTime[t]
    BY <1>2 DEF InBlock, Stored
  <2>3. \A t \in Tx \ excused' : t \in Tx \ excused
    BY <1>2
  <2> QED BY <1>0, <1>2, <1>3, <2>1, <2>2, <2>3 DEF OwedOK
<1> QED BY <1>6, <1>8, <1>9 DEF BtcInv

(* Every time fetched is that of a block.                                  *)
LEMMA BtcFetchInv == BtcInv /\ BtcFetch => BtcInv'
<1> SUFFICES ASSUME BtcInv, BtcFetch PROVE BtcInv'
  OBVIOUS
<1>0. /\ BtcTypeOK /\ PollOK /\ RowsOK /\ TimesOK /\ OwedOK /\ poll.pc = "fetch"
      /\ 0 < poll.since /\ poll.since \in Int /\ blockTime \in [Tx -> Int]
  BY DEF BtcInv, BtcTypeOK, PollOK, BtcFetch
<1>1. PICK batch : batch = {BtcRow(t) : t \in {t \in Page : InWindow(t, poll.since)}}
  OBVIOUS
<1>2. /\ UNCHANGED <<clock, blockTime, mined, rows, polled, txReorgs>>
      /\ poll' = [poll EXCEPT !.pc = "insert", !.batch = batch]
      /\ excused' = excused \cup {t \in Tx \ Page : InWindow(t, poll.since)}
  BY <1>1 DEF BtcFetch
<1>3. \A r \in batch : \E t \in Tx :
        /\ InBlock(t) /\ r = BtcRow(t) /\ r \in RowType /\ r.tx = t
        /\ r.stamp = blockTime[t] /\ r.net = Paid[t] - Spent[t] /\ blockTime[t] > 0
  <2>1. \A t \in Tx : InWindow(t, poll.since) => InBlock(t) /\ blockTime[t] > 0
    BY <1>0 DEF InWindow, InBlock
  <2>2. Page \subseteq Tx
    BY <1>0, PageIs DEF BtcTypeOK
  <2> QED BY <1>0, <1>1, <2>1, <2>2, BtcRowIs
<1>4. /\ poll'.pc = "insert" /\ poll'.now = poll.now /\ poll'.since = poll.since
      /\ poll'.batch = batch
      /\ poll' \in [pc : {"idle", "fetch", "insert", "mark"}, now : Nat, since : Int,
                    batch : SUBSET RowType]
  <2>1. batch \in SUBSET RowType
    BY <1>3
  <2> QED BY <1>0, <1>2, <2>1 DEF BtcTypeOK
<1>5. BtcTypeOK' /\ PollOK'
  BY <1>0, <1>2, <1>4 DEF BtcTypeOK, PollOK
<1>6. RowsOK'
  BY <1>0, <1>2, <1>3, <1>4 DEF RowsOK, Known
<1>7. TimesOK'
  <2>1. ASSUME NEW t \in Tx
        PROVE  Times(t)' \subseteq Times(t) /\ InBlock(t)' = InBlock(t)
    BY <1>2, <1>3, <1>4, <2>1 DEF Times, Known, InBlock
  <2>2. ASSUME NEW t \in Tx
        PROVE  /\ IsFiniteSet(Times(t)')
               /\ Cardinality(Times(t)') <= txReorgs + (IF InBlock(t) THEN 1 ELSE 0)
    <3>1. txReorgs + (IF InBlock(t) THEN 1 ELSE 0) \in Nat
      BY <1>0 DEF BtcTypeOK
    <3>2. /\ IsFiniteSet(Times(t))
          /\ Cardinality(Times(t)) <= txReorgs + (IF InBlock(t) THEN 1 ELSE 0)
      BY <1>0 DEF TimesOK
    <3>3. Times(t)' \subseteq Times(t)
      BY <2>1
    <3> QED BY <3>1, <3>2, <3>3, TimesFewer
  <2> QED BY <1>2, <2>1, <2>2 DEF TimesOK
<1>8. OwedOK'
  <2>1. ASSUME NEW t \in Tx \ excused', InBlock(t)
        PROVE  /\ blockTime[t] < polled => Stored(t)
               /\ Stored(t) \/ \E r \in batch : r.tx = t /\ r.stamp = blockTime[t]
    <3>1. t \notin excused /\ (t \in Page \/ ~InWindow(t, poll.since))
      BY <1>2, <2>1
    <3>2. CASE InWindow(t, poll.since)
      <4>1. BtcRow(t) \in batch
        BY <1>1, <3>1, <3>2
      <4>2. BtcRow(t).tx = t /\ BtcRow(t).stamp = blockTime[t]
        BY <1>0, BtcRowIs
      <4> QED BY <1>0, <2>1, <3>1, <4>1, <4>2 DEF OwedOK
    <3>3. CASE ~InWindow(t, poll.since)
      <4>1. blockTime[t] < poll.since
        BY <1>0, <3>3 DEF InWindow
      <4> QED BY <1>0, <2>1, <3>1, <4>1 DEF OwedOK
    <3> QED BY <3>2, <3>3
  <2>2. \A t \in Tx : InBlock(t)' = InBlock(t) /\ Stored(t)' = Stored(t)
                      /\ blockTime'[t] = blockTime[t]
    BY <1>2 DEF InBlock, Stored
  <2> QED BY <1>2, <1>4, <2>1, <2>2 DEF OwedOK, Fetched
<1> QED BY <1>5, <1>6, <1>7, <1>8 DEF BtcInv

(* A row the unique index turns away is there under the same time.         *)
LEMMA BtcInsertInv == BtcInv /\ (BtcInsert \/ BtcInsertFails) => BtcInv'
<1> SUFFICES ASSUME BtcInv, BtcInsert \/ BtcInsertFails PROVE BtcInv'
  OBVIOUS
<1>0. BtcTypeOK /\ PollOK /\ OwedOK /\ poll.pc = "insert"
  BY DEF BtcInv, BtcInsert, BtcInsertFails
<1>1. PICK kept \in SUBSET poll.batch :
        /\ rows' = rows \cup {r \in kept : \A s \in rows : ~SameRow(r, s)}
        /\ \/ excused' = excused /\ kept = poll.batch
           \/ excused' = excused \cup {r.tx : r \in poll.batch \ kept}
  BY DEF BtcInsert, BtcInsertFails
<1>2. /\ UNCHANGED <<clock, blockTime, mined, polled, txReorgs>>
      /\ poll' = [poll EXCEPT !.pc = "mark"]
  BY DEF BtcInsert, BtcInsertFails
<1>3. /\ poll'.pc = "mark" /\ poll'.now = poll.now /\ poll'.since = poll.since
      /\ poll'.batch = poll.batch
      /\ poll' \in [pc : {"idle", "fetch", "insert", "mark"}, now : Nat, since : Int,
                    batch : SUBSET RowType]
  BY <1>0, <1>2 DEF BtcTypeOK
<1>4. rows' \subseteq RowType
  BY <1>0, <1>1 DEF BtcTypeOK
<1>5. BtcTypeOK' /\ PollOK'
  BY <1>0, <1>2, <1>3, <1>4 DEF BtcTypeOK, PollOK
<1>6. Known' \subseteq Known
  BY <1>1, <1>3 DEF Known
<1>7. RowsOK' /\ TimesOK'
  BY <1>2, <1>6, KnownFewer
<1>8. OwedOK'
  <2>1. ASSUME NEW t \in Tx \ excused', Fetched(t)
        PROVE  Stored(t)'
    <3>1. PICK r \in poll.batch : r.tx = t /\ r.stamp = blockTime[t]
      BY <2>1 DEF Fetched
    <3>2. r \in kept
      BY <1>1, <2>1, <3>1
    <3>3. \E s \in rows' : s.tx = t /\ s.stamp = blockTime[t]
      BY <1>1, <3>1, <3>2 DEF SameRow
    <3> QED BY <1>2, <3>3 DEF Stored
  <2>2. \A t \in Tx : Stored(t) => Stored(t)'
    BY <1>1, <1>2 DEF Stored
  <2>3. \A t \in Tx \ excused' : t \in Tx \ excused
    BY <1>1
  <2>4. \A t \in Tx : InBlock(t)' = InBlock(t) /\ blockTime'[t] = blockTime[t]
    BY <1>2 DEF InBlock
  <2>5. polled' = polled
    BY <1>2
  <2> QED BY <1>0, <1>3, <2>1, <2>2, <2>3, <2>4, <2>5 DEF OwedOK
<1> QED BY <1>5, <1>7, <1>8 DEF BtcInv

(* The poll ends: what it owed up to now is stored, or it is not marked.   *)
LEMMA BtcEndInv == BtcInv /\ (BtcMark \/ BtcFetchFails \/ BtcCrash) => BtcInv'
<1> SUFFICES ASSUME BtcInv, BtcMark \/ BtcFetchFails \/ BtcCrash PROVE BtcInv'
  OBVIOUS
<1>0. BtcTypeOK /\ PollOK /\ OwedOK
  BY DEF BtcInv
<1>1. /\ UNCHANGED <<clock, blockTime, mined, rows, excused, txReorgs>> /\ poll' = Idle
      /\ polled' = polled \/ (poll.pc = "mark" /\ polled' = poll.now)
  BY DEF BtcMark, BtcFetchFails, BtcCrash
<1>2. BtcTypeOK' /\ PollOK'
  BY <1>0, <1>1, IdlePoll DEF BtcTypeOK, PollOK
<1>3. Known' \subseteq Known
  BY <1>1, IdlePoll DEF Known
<1>4. RowsOK' /\ TimesOK'
  BY <1>1, <1>3, KnownFewer
<1>5. OwedOK'
  <2>1. \A t \in Tx : InBlock(t)' = InBlock(t) /\ Stored(t)' = Stored(t)
                      /\ blockTime'[t] = blockTime[t]
    BY <1>1 DEF InBlock, Stored
  <2> QED BY <1>0, <1>1, <2>1, IdlePoll DEF OwedOK
<1> QED BY <1>2, <1>4, <1>5 DEF BtcInv

-----------------------------------------------------------------------------
LEMMA BtcInitInv == BtcInit => BtcInv
<1> SUFFICES ASSUME BtcInit PROVE BtcInv
  OBVIOUS
<1>1. /\ clock = Born /\ polled = 0 /\ blockTime = [t \in Tx |-> -1] /\ mined = <<>>
      /\ rows = {} /\ poll = Idle /\ txReorgs = 0
  BY DEF BtcInit, Never, Unsent
<1>2. BtcTypeOK /\ PollOK
  BY <1>1, BtcNumbers, IdlePoll DEF BtcTypeOK, PollOK
<1>3. Known = {} /\ \A t \in Tx : ~InBlock(t)
  BY <1>1, IdlePoll DEF Known, InBlock
<1>4. \A t \in Tx : Times(t) = {}
  BY <1>3 DEF Times
<1>5. RowsOK /\ OwedOK
  BY <1>1, <1>3 DEF RowsOK, OwedOK
<1>6. TimesOK
  <2>1. IsFiniteSet({}) /\ Cardinality({}) = 0
    BY FS_EmptySet
  <2>2. \A t \in Tx : txReorgs + (IF InBlock(t) THEN 1 ELSE 0) = 0
    BY <1>1, <1>3
  <2> QED BY <1>4, <2>1, <2>2 DEF TimesOK
<1> QED BY <1>2, <1>5, <1>6 DEF BtcInv

LEMMA BtcStepInv == BtcInv /\ [BtcNext]_btcVars => BtcInv'
<1>1. BtcInv /\ UNCHANGED btcVars => BtcInv'
  <2> SUFFICES ASSUME BtcInv, UNCHANGED btcVars PROVE BtcInv'
    OBVIOUS
  <2>1. BtcTypeOK' /\ PollOK'
    BY DEF BtcInv, BtcTypeOK, PollOK, btcVars
  <2>2. RowsOK'
    BY DEF BtcInv, RowsOK, Known, btcVars
  <2>3. TimesOK'
    BY DEF BtcInv, TimesOK, Times, Known, InBlock, btcVars
  <2>4. OwedOK'
    BY DEF BtcInv, OwedOK, InBlock, Stored, Fetched, btcVars
  <2> QED BY <2>1, <2>2, <2>3, <2>4 DEF BtcInv
<1> QED BY <1>1, BtcTickInv, BtcBroadcastInv, BtcMineInv, BtcReorgInv, BtcStartInv,
           BtcFetchInv, BtcInsertInv, BtcEndInv DEF BtcNext

THEOREM BtcInvariance == BtcSpec => []BtcInv
BY BtcStepInv, BtcInitInv, PTL DEF BtcSpec

LEMMA OnlyMinedHolds == BtcInv => OnlyMinedStored
BY DEF BtcInv, RowsOK, Known, OnlyMinedStored

(* A transaction that waits for a block is never stored.                   *)
THEOREM OnlyMinedAreStored == BtcSpec => []OnlyMinedStored
BY OnlyMinedHolds, BtcInvariance, PTL

(* The rows of a transaction have different times, and it was known under  *)
(* so many only.                                                           *)
LEMMA StoredOnceHolds == BtcInv => BtcStoredOnce
<1>1. ASSUME BtcInv, NEW t \in Tx
      PROVE  Cardinality({r \in rows : r.tx = t}) <= 1 + txReorgs
  <2> DEFINE R == {r \in rows : r.tx = t}
             stampOf == [r \in R |-> r.stamp]
  <2>1. /\ IsFiniteSet(Times(t)) /\ txReorgs \in Nat
        /\ Cardinality(Times(t)) <= txReorgs + (IF InBlock(t) THEN 1 ELSE 0)
    BY <1>1 DEF BtcInv, TimesOK, BtcTypeOK
  <2>2. \A r \in R : r.stamp \in Times(t)
    BY DEF Times, Known
  <2>3. \A r, s \in R : r.stamp = s.stamp => r = s
    <3>1. \A r \in R : r \in RowType /\ r.tx = t /\ r.net = Paid[t] - Spent[t]
      BY <1>1 DEF BtcInv, BtcTypeOK, RowsOK, Known
    <3> HIDE DEF R
    <3> QED BY <3>1 DEF RowType
  <2>4. stampOf \in Injection(R, Times(t))
    <3> HIDE DEF R
    <3> QED BY <2>2, <2>3 DEF Injection, IsInjective
  <2>5. /\ Cardinality(R) <= Cardinality(Times(t)) /\ IsFiniteSet(R)
    BY <2>1, <2>4, FS_Injection
  <2>6. Cardinality(R) \in Nat /\ Cardinality(Times(t)) \in Nat
    BY <2>1, <2>5, FS_CardinalityType
  <2> HIDE DEF R
  <2>7. Cardinality(R) <= 1 + txReorgs
    BY <2>1, <2>5, <2>6
  <2> QED BY <2>7 DEF R
<1> QED BY <1>1 DEF BtcStoredOnce

(* One row per transaction, and one more at most per reorganisation.       *)
THEOREM BtcStoredOnceEach == BtcSpec => []BtcStoredOnce
BY StoredOnceHolds, BtcInvariance, PTL

LEMMA MissedHolds == BtcInv => MissedForAReason
BY DEF BtcInv, OwedOK, Stored, MissedForAReason

(* What is not stored when a poll is marked has been given up for one of   *)
(* the four reasons, in every order of polls, blocks, errors and crashes.  *)
THEOREM NoOtherReason == BtcSpec => []MissedForAReason
BY MissedHolds, BtcInvariance, PTL

-----------------------------------------------------------------------------
(* The composition.                                                        *)

(* A provider that is not asked stays where it was, but for the error of a *)
(* chain without one.                                                      *)
ProvidersInv ==
  /\ BtcInv /\ IInv
  /\ chain = Polygon => FetchInv /\ LogsOK
  /\ chain # Polygon => pc = "search" /\ stage \in {"search", "failed"} /\ indexed = 0

LEMMA ProvidersStart == ProvidersInit => ProvidersInv
<1> SUFFICES ASSUME ProvidersInit PROVE ProvidersInv
  OBVIOUS
<1>1. BtcInv
  BY BtcInitInv DEF ProvidersInit
<1>2. FetchInit
  BY Zenon DEF ProvidersInit, NoFetch
<1>3. FetchInv /\ LogsOK
  BY <1>2, FetchInitInv, LogsStart
<1>4. pc = "search" /\ stage = "search" /\ indexed = 0
  BY <1>2 DEF FetchInit, Init
<1> QED BY <1>1, <1>3, <1>4 DEF ProvidersInv, FetchInv

(* A step is one of each provider, or the error of a chain without one.    *)
LEMMA ProvidersStep ==
  [ProvidersNext]_allVars =>
    /\ UNCHANGED chain
    /\ [BtcNext]_btcVars
    /\ chain = Polygon => [FetchNext]_<<vars, fetchVars>>
    /\ chain # Polygon => /\ UNCHANGED <<vars, indexed>>
                          /\ UNCHANGED stage \/ stage' = "failed"
<1> SUFFICES ASSUME [ProvidersNext]_allVars
             PROVE  /\ UNCHANGED chain
                    /\ [BtcNext]_btcVars
                    /\ chain = Polygon => [FetchNext]_<<vars, fetchVars>>
                    /\ chain # Polygon => /\ UNCHANGED <<vars, indexed>>
                                          /\ UNCHANGED stage \/ stage' = "failed"
  OBVIOUS
<1>1. CASE chain = Polygon /\ FetchNext /\ UNCHANGED <<btcVars, chain>>
  BY <1>1
<1>2. CASE chain = Bitcoin /\ BtcNext /\ UNCHANGED <<vars, fetchVars, chain>>
  BY <1>2 DEF Polygon, Bitcoin, fetchVars
<1>3. CASE NoProvider
  BY <1>3 DEF NoProvider
<1>4. CASE UNCHANGED allVars
  BY <1>4 DEF allVars, fetchVars
<1> QED BY <1>1, <1>2, <1>3, <1>4 DEF ProvidersNext

LEMMA ProvidersKept == ProvidersInv /\ [ProvidersNext]_allVars => ProvidersInv'
<1> SUFFICES ASSUME ProvidersInv, [ProvidersNext]_allVars PROVE ProvidersInv'
  OBVIOUS
<1>1. /\ UNCHANGED chain
      /\ [BtcNext]_btcVars
      /\ chain = Polygon => [FetchNext]_<<vars, fetchVars>>
      /\ chain # Polygon => /\ UNCHANGED <<vars, indexed>>
                            /\ UNCHANGED stage \/ stage' = "failed"
  BY ProvidersStep
<1>2. BtcInv'
  BY <1>1, BtcStepInv DEF ProvidersInv
<1>3. CASE chain = Polygon
  <2>1. FetchInv' /\ LogsOK'
    BY <1>1, <1>3, FetchStepInv, LogsKept DEF ProvidersInv
  <2> QED BY <1>1, <1>2, <1>3, <2>1 DEF ProvidersInv, FetchInv
<1>4. CASE chain # Polygon
  <2>1. IInv'
    BY <1>1, <1>4, StepIInv DEF ProvidersInv
  <2> QED BY <1>1, <1>2, <1>4, <2>1 DEF ProvidersInv, vars
<1> QED BY <1>3, <1>4

THEOREM ProvidersInvariance == ProvidersSpec => []ProvidersInv
BY ProvidersStart, ProvidersKept, PTL DEF ProvidersSpec

(* Whichever provider the chain of the wallet selects, what both promise   *)
(* holds: a fetch reads what it has to, and polls lose nothing but for a   *)
(* reason.                                                                 *)
THEOREM ProvidersKeepPromises ==
  ProvidersSpec =>
    []( /\ SearchRight /\ WindowRead /\ IndexedIsRead /\ BootstrapContiguous
        /\ OnlyMinedStored /\ BtcStoredOnce /\ MissedForAReason )
<1>1. ProvidersInv =>
        /\ SearchRight /\ WindowRead /\ IndexedIsRead /\ BootstrapContiguous
  <2> SUFFICES ASSUME ProvidersInv
               PROVE  SearchRight /\ WindowRead /\ IndexedIsRead /\ BootstrapContiguous
    OBVIOUS
  <2>1. CASE chain = Polygon
    BY <2>1, IndexedHolds DEF ProvidersInv, FetchInv, IInv
  <2>2. CASE chain # Polygon
    BY <2>2 DEF ProvidersInv, IInv, WindowRead, IndexedIsRead, BootstrapContiguous,
                Returned
  <2> QED BY <2>1, <2>2
<1>2. ProvidersInv => OnlyMinedStored /\ BtcStoredOnce /\ MissedForAReason
  BY OnlyMinedHolds, StoredOnceHolds, MissedHolds DEF ProvidersInv
<1> QED BY <1>1, <1>2, ProvidersInvariance, PTL

(* And a fetch through the dispatch makes a bounded number of calls: fewer *)
(* than five a block, and one for each Transfer log the node returns.      *)
THEOREM CallsAreBounded == ProvidersSpec => CallsRunOut
<1>1. ProvidersInv /\ [ProvidersNext]_allVars =>
        [CallsLeftBy]_<<vars, fetchVars>>
  <2> SUFFICES ASSUME ProvidersInv, [ProvidersNext]_allVars
               PROVE  [CallsLeftBy]_<<vars, fetchVars>>
    OBVIOUS
  <2>1. CASE chain = Polygon
    BY <2>1, ProvidersStep, FetchCalls DEF ProvidersInv
  <2>2. CASE chain # Polygon
    <3>1. Probe => pc' = "done" \/ 2 * (high' - low' + 1) <= high - low + 1
      BY ProbeHalves DEF ProvidersInv
    <3>2. ~FetchHead
      BY <2>2 DEF ProvidersInv, FetchHead
    <3>3. stage \in {"search", "returned", "failed"}
      BY <2>2 DEF ProvidersInv
    <3> QED BY <3>1, <3>2, <3>3 DEF CallsLeftBy
  <2> QED BY <2>1, <2>2
<1> QED BY <1>1, ProvidersInvariance, PTL DEF ProvidersSpec, CallsRunOut

(* Whatever comes before and after it, the search of a fetch is one step.  *)
THEOREM FetchImplementsChoice == ProvidersSpec => ImplementsChoice
<1>1. ProvidersInit => Choice!ChoiceInit
  <2>1. ProvidersInit => Init
    BY Zenon DEF ProvidersInit, NoFetch, FetchInit
  <2> QED BY <2>1, ChoiceStarts
<1>2. ProvidersInv /\ [ProvidersNext]_allVars =>
        [Choice!Choose \/ Choice!Fail]_(Choice!choiceVars)
  <2>1. [FetchNext]_<<vars, fetchVars>> => [Next]_vars
    BY DEF FetchNext, FetchStep, FetchFault, Next, FetchHead, GetBlock, FilterLogs,
           TooLarge, LogHeader, SaveChunk, TakeRows, FetchFails
  <2>2. [ProvidersNext]_allVars => [Next]_vars
    BY <2>1, ProvidersStep
  <2> QED BY <2>2, ChoiceKept DEF ProvidersInv
<1> QED BY <1>1, <1>2, ProvidersInvariance, PTL
     DEF ProvidersSpec, ImplementsChoice, Choice!ChoiceSpec
=============================================================================
