------------------------- MODULE WalletPollingProofs -------------------------
(***************************************************************************)
(* Proofs about WalletPolling, for every set of wallets and transfers,     *)
(* every window, number of confirmations and chunk size, and any bounds.   *)
(***************************************************************************)
EXTENDS WalletPolling, Sums

(* What a row of a batch or of the table says of the chain.                *)
RowFinal(r) ==
  /\ r.wallet \in Touches[r.transfer]
  /\ \E h \in 1 .. FinalHeight :
       /\ r.transfer \in chain[h].txs
       /\ r.transfer \notin Erc20 => r.stamp = chain[h].ts /\ r.label = "MATIC"

ChainOK ==
  /\ ValidChain(chain)
  /\ \A h \in 1 .. Len(chain) : chain[h].ts <= clock

(* The scan stays inside the final blocks, and so does what it collects.   *)
JobOK(j) ==
  /\ j.pc = "head" => j.current = j.start /\ StartBlock <= j.start
  /\ j.pc = "scan" => StartBlock <= j.current /\ j.current <= j.safe
                                              /\ j.safe <= FinalHeight
  /\ \A r \in j.batch : r.wallet = j.w /\ RowFinal(r)

StoreOK == \A r \in store : Active(r.wallet) /\ RowFinal(r)

(* The inductive invariant.                                                *)
IInv ==
  /\ TypeOK
  /\ ChainOK
  /\ \A p \in Poller : JobOK(job[p])
  /\ StoreOK
  /\ IndexedIsFinal
-----------------------------------------------------------------------------
(* The local state of an idle poller is well typed.                        *)
LEMMA NoJobType == NoJob \in Job /\ NoJob.pc = "idle" /\ NoJob.batch = {}
BY SetsAssumption, NumbersAssumption
   DEF NoJob, Job, Never, Label, Time, Row

(* A token filter or the literal ERC20: RowLabel is a label.               *)
LEMMA RowLabelType ==
  ASSUME TypeOK, NEW w \in Wallet
  PROVE  RowLabel(w) \in Label
BY DEF RowLabel, Label

(* Every step keeps the final blocks: the chain may grow, and may replace  *)
(* unconfirmed blocks only.                                                *)
LEMMA FinalPrefixStable ==
  ASSUME TypeOK, ChainOK, [Next]_vars
  PROVE  /\ chain' \in Seq(Block)
         /\ ChainOK'
         /\ FinalHeight \in Nat /\ FinalHeight' \in Nat
         /\ FinalHeight <= FinalHeight'
         /\ FinalHeight <= Len(chain) /\ FinalHeight' <= Len(chain')
         /\ \A h \in 1 .. FinalHeight : chain'[h] = chain[h]
<1> USE NumbersAssumption
<1>0. /\ clock \in Time /\ chain \in Seq(Block) /\ Len(chain) \in Nat
      /\ FinalHeight \in Nat /\ FinalHeight <= Len(chain)
  BY DEF TypeOK, FinalHeight, Height
<1>0a. \A h \in 1 .. Len(chain) : chain[h] \in Block
  BY <1>0
<1>1. CASE Tick
  <2>1. chain' = chain /\ clock' = clock + 1
    BY <1>1 DEF Tick
  <2>2. \A h \in 1 .. Len(chain) : chain[h].ts \in Time
    BY <1>0, <1>0a DEF Block
  <2>3. ChainOK'
    BY <1>0, <2>1, <2>2 DEF ChainOK, ValidChain, Time
  <2> QED BY <1>0, <2>1, <2>3 DEF FinalHeight, Height
<1>2. CASE Mine
  <2>1. PICK T \in SUBSET Transfer : chain' = Append(chain, [ts |-> clock, txs |-> T])
    BY <1>2 DEF Mine
  <2>2. [ts |-> clock, txs |-> T] \in Block
    BY <1>0 DEF Block
  <2>3. /\ chain' \in Seq(Block) /\ Len(chain') = Len(chain) + 1
        /\ \A h \in 1 .. Len(chain) : chain'[h] = chain[h]
        /\ chain'[Len(chain) + 1].ts = clock
    BY <2>1, <2>2, <1>0
  <2>4. ChainOK'
    BY <1>0, <1>2, <2>3 DEF Mine, ChainOK, Time
  <2> QED BY <1>0, <2>3, <2>4 DEF FinalHeight, Height
<1>3. CASE Reorg
  <2>1. PICK k \in 1 .. Min2(Confirmations, Height) :
        \E fork \in [Height-k+1 .. Height -> [ts : 0 .. clock, txs : SUBSET Transfer]] :
          chain' = [h \in 1 .. Height |-> IF h > Height - k THEN fork[h] ELSE chain[h]]
    BY <1>3 DEF Reorg
  <2>2. PICK fork \in [Height-k+1 .. Height -> [ts : 0 .. clock, txs : SUBSET Transfer]] :
          chain' = [h \in 1 .. Height |-> IF h > Height - k THEN fork[h] ELSE chain[h]]
    BY <2>1
  <2>3. k \in Nat /\ k <= Confirmations /\ k <= Len(chain) /\ Height = Len(chain)
    BY <1>0, <2>1 DEF Min2, Height
  <2>3a. [ts : 0 .. clock, txs : SUBSET Transfer] \subseteq Block
    BY <1>0 DEF Block, Time
  <2>3b. \A h \in Len(chain)-k+1 .. Len(chain) :
           fork[h] \in Block /\ fork[h].ts <= clock
    BY <2>3, <2>3a
  <2>4. \A h \in 1 .. Len(chain) :
          /\ h > Len(chain) - k => chain'[h] = fork[h] /\ fork[h] \in Block
                                   /\ fork[h].ts <= clock
          /\ ~(h > Len(chain) - k) => chain'[h] = chain[h] /\ chain[h] \in Block
    BY <1>0, <1>0a, <2>2, <2>3, <2>3b
  <2>5. chain' \in [1 .. Len(chain) -> Block]
    BY <2>2, <2>3, <2>4
  <2>6. chain' \in Seq(Block) /\ Len(chain') = Len(chain)
    BY <1>0, <2>5
  <2>7. ChainOK'
    BY <1>0, <1>3, <2>4, <2>6 DEF Reorg, ChainOK
  <2> QED BY <1>0, <2>3, <2>4, <2>6, <2>7 DEF FinalHeight, Height
<1>4. CASE UNCHANGED <<clock, chain>>
  BY <1>0, <1>4 DEF ChainOK, ValidChain, FinalHeight, Height
<1>5. QED
  BY <1>1, <1>2, <1>3, <1>4
     DEF Next, vars, Handlers, PollerStep, PollerFault, AddWallet, DeleteWallets,
         StartPoll, FetchHead, ScanChunk, LatestTen, Insert, InsertRejected,
         InsertDone, Mark, EndPoll, ProviderError, Resolve, Skip, ListFails,
         InsertFails, MarkFails, AbandonBatch, Crash, Restart

(* So what a row or a job says of the chain stays true.                    *)
LEMMA RowFinalStable ==
  ASSUME TypeOK, ChainOK, [Next]_vars, NEW r, RowFinal(r)
  PROVE  RowFinal(r)'
BY FinalPrefixStable DEF RowFinal

LEMMA JobOKStable ==
  ASSUME TypeOK, ChainOK, [Next]_vars, NEW j \in Job, JobOK(j)
  PROVE  JobOK(j)'
<1>1. \A r \in j.batch : r.wallet = j.w /\ RowFinal(r)'
  BY RowFinalStable DEF JobOK
<1>2. j.safe <= FinalHeight => j.safe <= FinalHeight'
  BY FinalPrefixStable DEF Job
<1> QED BY <1>1, <1>2 DEF JobOK

-----------------------------------------------------------------------------
LEMMA FinalHeightType ==
  ASSUME TypeOK
  PROVE  FinalHeight \in Nat /\ FinalHeight <= Len(chain) /\ Len(chain) \in Nat
BY NumbersAssumption DEF TypeOK, FinalHeight, Height

(* Rows made from a final block are typed and final.                       *)
LEMMA RowOfFinal ==
  ASSUME TypeOK, NEW j \in Job, NEW h \in 1 .. FinalHeight,
         NEW t \in Concerning(j.w, h), NEW lost \in SUBSET Erc20
  PROVE  /\ RowOf(j, t, h, lost) \in Row
         /\ RowOf(j, t, h, lost).wallet = j.w
         /\ RowFinal(RowOf(j, t, h, lost))
<1>1. chain[h] \in Block
  BY NumbersAssumption DEF TypeOK, FinalHeight, Height
<1>2. t \in Transfer /\ t \in chain[h].txs /\ j.w \in Touches[t] /\ chain[h].ts \in Time
  BY <1>1 DEF Concerning, Block
<1>3. clock \in Time /\ j.w \in Wallet /\ j.label \in Label /\ "MATIC" \in Label
  BY DEF TypeOK, Job, Label
<1> DEFINE r == RowOf(j, t, h, lost)
<1>4. /\ r.wallet = j.w /\ r.transfer = t
      /\ r.label = IF t \in Erc20 THEN j.label ELSE "MATIC"
      /\ r.stamp = IF t \in lost THEN clock ELSE chain[h].ts
  BY DEF RowOf
<1>5. r \in Row
  BY <1>2, <1>3 DEF RowOf, Row
<1>6. RowFinal(r)
  BY <1>2, <1>4 DEF RowFinal
<1> QED BY <1>4, <1>5, <1>6

LEMMA RangeRowsFinal ==
  ASSUME TypeOK, NEW j \in Job, NEW from \in Nat \ {0}, NEW to \in Nat,
         to <= FinalHeight, NEW since, NEW lost \in SUBSET Erc20,
         NEW r \in RangeRows(j, from, to, since, lost)
  PROVE  r \in Row /\ r.wallet = j.w /\ RowFinal(r)
<1>1. PICK h \in from .. to : \E t \in Concerning(j.w, h) : r = RowOf(j, t, h, lost)
  BY DEF RangeRows
<1>2. h \in 1 .. FinalHeight
  BY NumbersAssumption DEF TypeOK, FinalHeight, Height
<1> QED BY <1>1, <1>2, RowOfFinal

(* Header lookups are made for ERC20 logs only.                            *)
LEMMA LookupsErc20 ==
  ASSUME NEW j, NEW from, NEW to, NEW lost \in Lookups(j, from, to)
  PROVE  lost \in SUBSET Erc20
BY DEF Lookups

-----------------------------------------------------------------------------
(* What a step of a poller does to its local state.                        *)
JobStepTo(p, k) == k \in Job /\ JobOK(k) /\ job' = [job EXCEPT ![p] = k]

LEMMA ContinueOK ==
  ASSUME NEW j \in Job
  PROVE  Continue(j) \in Job /\ JobOK(Continue(j))
BY NoJobType DEF Continue, Job, JobOK

LEMMA StartPollJob ==
  ASSUME IInv, NEW p \in Poller, StartPoll(p)
  PROVE  \E k : JobStepTo(p, k)
<1> DEFINE k == [NoJob EXCEPT !.pc = "cycle", !.now = clock,
                   !.todo = {w \in Wallet : Active(w)},
                   !.seen = [w \in Wallet |->
                     IF Active(w) THEN wallet[w].polled ELSE Never]]
<1>1. \A w \in Wallet : wallet[w].polled \in Time \cup {Never}
  BY DEF IInv, TypeOK, WalletRow
<1>2. clock \in Time
  BY DEF IInv, TypeOK
<1>3. k \in Job
  BY <1>1, <1>2, NoJobType DEF Job
<1>4. JobOK(k)
  BY NoJobType DEF JobOK, Job
<1> QED BY <1>3, <1>4 DEF StartPoll, JobStepTo

LEMMA ResolveJob ==
  ASSUME IInv, NEW p \in Poller, NEW w \in Wallet, Resolve(p, w)
  PROVE  \E k : JobStepTo(p, k)
<1> DEFINE j == job[p]
           since == Since(j, w)
<1>0. j \in Job
  BY DEF IInv, TypeOK
<1>1. PICK start \in StartBlock .. Max2(StartBlock, Height) :
        job' = [job EXCEPT ![p] =
            [j EXCEPT !.pc = "head", !.todo = @ \ {w}, !.w = w,
                      !.since = since, !.start = start,
                      !.current = start, !.safe = 0, !.batch = {}]]
  BY DEF Resolve
<1>2. start \in Nat /\ StartBlock <= start
  BY NumbersAssumption DEF IInv, TypeOK, Height, Max2
<1>3. since \in Int
  BY <1>0, NumbersAssumption DEF Since, Max2, Job, Time, Never
<1> DEFINE k == [j EXCEPT !.pc = "head", !.todo = @ \ {w}, !.w = w,
                      !.since = since, !.start = start,
                      !.current = start, !.safe = 0, !.batch = {}]
<1>4. k \in Job /\ JobOK(k)
  <2> HIDE DEF since
  <2> QED BY <1>0, <1>2, <1>3 DEF Job, JobOK
<1> QED BY <1>1, <1>4 DEF JobStepTo

LEMMA FetchHeadJob ==
  ASSUME IInv, NEW p \in Poller, FetchHead(p)
  PROVE  \E k : JobStepTo(p, k)
<1> DEFINE j == job[p]
           label == RowLabel(j.w)
           low   == [j EXCEPT !.pc = "mark"]
           far   == [j EXCEPT !.pc = IF j.start > SafeTo(Height) THEN "mark" ELSE "scan",
                              !.safe = SafeTo(Height), !.label = label]
<1>0. j \in Job /\ JobOK(j) /\ j.pc = "head" /\ j.w \in Wallet /\ Height \in Nat
  BY DEF IInv, TypeOK, FetchHead, Height, Job
<1>1. label \in Label
  BY <1>0, RowLabelType DEF IInv
<1>2. CASE Height <= Confirmations
  <2>1. low \in Job /\ JobOK(low)
    BY <1>0 DEF Job, JobOK
  <2>2. job' = [job EXCEPT ![p] = low]
    BY <1>2 DEF FetchHead
  <2> QED BY <2>1, <2>2 DEF JobStepTo
<1>3. CASE ~(Height <= Confirmations)
  <2>1. SafeTo(Height) \in Nat /\ SafeTo(Height) = FinalHeight
    BY <1>0, <1>3, NumbersAssumption DEF SafeTo, FinalHeight
  <2>2. far \in Job /\ JobOK(far)
    <3>1. far \in Job
      <4> HIDE DEF label
      <4> QED BY <1>0, <1>1, <2>1 DEF Job
    <3>2. /\ far.pc = "mark" \/ (far.pc = "scan" /\ j.start <= far.safe)
          /\ far.safe = FinalHeight /\ far.current = j.current
          /\ far.batch = j.batch /\ far.w = j.w
      <4> HIDE DEF label
      <4> QED BY <1>0, <2>1 DEF Job
    <3>3. FinalHeight \in Nat /\ j.start \in Nat /\ StartBlock \in Nat
      BY <1>0, <2>1, NumbersAssumption DEF Job
    <3> HIDE DEF far
    <3> QED BY <1>0, <3>1, <3>2, <3>3 DEF JobOK
  <2>3. job' = [job EXCEPT ![p] = far]
    BY <1>3 DEF FetchHead
  <2> QED BY <2>2, <2>3 DEF JobStepTo
<1> QED BY <1>2, <1>3

LEMMA ScanChunkJob ==
  ASSUME IInv, NEW p \in Poller, ScanChunk(p)
  PROVE  (\E k : JobStepTo(p, k)) /\ indexer' \in Nat /\ indexer' <= FinalHeight
<1> DEFINE j  == job[p]
           to == Min2(j.current + ChunkSize - 1, j.safe)
<1>0a. /\ j \in Job /\ JobOK(j) /\ j.pc = "scan"
       /\ j.current \in Nat /\ j.safe \in Nat /\ FinalHeight \in Nat
       /\ StartBlock \in Nat \ {0} /\ ChunkSize \in Nat \ {0}
  <2>1. j \in Job /\ JobOK(j) /\ TypeOK
    BY DEF IInv, TypeOK
  <2>2. j.pc = "scan"
    BY DEF ScanChunk
  <2> HIDE DEF j
  <2> QED BY <2>1, <2>2, FinalHeightType, NumbersAssumption DEF Job
<1>0. /\ StartBlock <= j.current /\ j.current <= j.safe /\ j.safe <= FinalHeight
      /\ j.current \in Nat \ {0}
  BY <1>0a DEF JobOK
<1>1a. to \in Nat /\ to <= j.safe /\ j.current <= to + 1
       /\ (to # j.safe => to + 1 <= j.safe)
  BY <1>0, <1>0a DEF Min2
<1> HIDE DEF to
<1>2. PICK lost \in Lookups(j, j.current, to) :
        job' = [job EXCEPT ![p] =
          [j EXCEPT !.batch = @ \cup RangeRows(j, j.current, to, j.since, lost),
                    !.current = to + 1,
                    !.pc = IF to = j.safe THEN "insert" ELSE "scan"]]
  BY DEF ScanChunk, to
<1> DEFINE rows == RangeRows(j, j.current, to, j.since, lost)
           k == [j EXCEPT !.batch = @ \cup rows, !.current = to + 1,
                          !.pc = IF to = j.safe THEN "insert" ELSE "scan"]
<1>3. \A r \in rows : r \in Row /\ r.wallet = j.w /\ RowFinal(r)
  BY <1>0, <1>0a, <1>1a, LookupsErc20, RangeRowsFinal DEF IInv
<1> HIDE DEF rows
<1>4. k \in Job
  <2>1. j.batch \cup rows \in SUBSET Row
    BY <1>0a, <1>3 DEF Job
  <2>2. (IF to = j.safe THEN "insert" ELSE "scan") \in {"insert", "scan"}
    OBVIOUS
  <2>3. to + 1 \in Nat
    BY <1>1a
  <2> QED BY <1>0a, <2>1, <2>2, <2>3 DEF Job
<1>5. /\ k.pc = "insert" \/ (k.pc = "scan" /\ to # j.safe)
      /\ k.current = to + 1 /\ k.safe = j.safe /\ k.w = j.w
      /\ k.batch = j.batch \cup rows
  BY <1>0a DEF Job
<1>6. JobOK(k)
  <2> HIDE DEF k
  <2> QED BY <1>0, <1>0a, <1>1a, <1>3, <1>5, NumbersAssumption DEF JobOK
<1>7. indexer' = to
  BY DEF ScanChunk, to
<1>8. JobStepTo(p, k)
  BY <1>2, <1>4, <1>6 DEF JobStepTo, rows
<1> QED BY <1>0, <1>0a, <1>1a, <1>7, <1>8

LEMMA LatestTenJob ==
  ASSUME IInv, NEW p \in Poller, LatestTen(p)
  PROVE  \E k : JobStepTo(p, k)
<1> DEFINE j     == job[p]
           low   == Max2(StartBlock, j.safe - MaxRanges * ChunkSize + 1)
           found == {x \in Transfer \X (low .. j.safe) : x[1] \in Concerning(j.w, x[2])}
<1>0. /\ j \in Job /\ JobOK(j) /\ j.safe \in Nat /\ j.safe <= FinalHeight
      /\ FinalHeight \in Nat
  <2>1. j \in Job /\ JobOK(j) /\ TypeOK
    BY DEF IInv, TypeOK
  <2>2. j.pc = "scan"
    BY DEF LatestTen
  <2> HIDE DEF j
  <2>3. j.safe \in Nat /\ FinalHeight \in Nat
    BY <2>1, FinalHeightType DEF Job
  <2> QED BY <2>1, <2>2, <2>3 DEF JobOK
<1>1. low \in Nat \ {0}
  BY <1>0, NumbersAssumption DEF Max2
<1>2. PICK taken \in SUBSET found, lost \in Lookups(j, low, j.safe) :
        job' = [job EXCEPT ![p] =
            [j EXCEPT !.pc = "insert",
                      !.batch = {RowOf(j, x[1], x[2], lost) : x \in taken}]]
  BY DEF LatestTen
<1> DEFINE rows == {RowOf(j, x[1], x[2], lost) : x \in taken}
           k    == [j EXCEPT !.pc = "insert", !.batch = rows]
<1>3. \A x \in taken : x[2] \in 1 .. FinalHeight /\ x[1] \in Concerning(j.w, x[2])
  <2> HIDE DEF low
  <2> QED BY <1>0, <1>1
<1>4. \A r \in rows : r \in Row /\ r.wallet = j.w /\ RowFinal(r)
  <2> HIDE DEF found
  <2> QED BY <1>0, <1>3, LookupsErc20, RowOfFinal DEF IInv
<1> HIDE DEF rows
<1>5. k \in Job /\ JobOK(k)
  BY <1>0, <1>4 DEF Job, JobOK
<1> QED BY <1>2, <1>5 DEF JobStepTo, rows

LEMMA InsertJob ==
  ASSUME IInv, NEW p \in Poller, Insert(p)
  PROVE  \E k : JobStepTo(p, k)
<1> DEFINE j == job[p]
<1>0. j \in Job /\ JobOK(j) /\ j.pc = "insert"
  BY DEF IInv, TypeOK, Insert
<1>1. PICK r \in j.batch : job' = [job EXCEPT ![p] = [j EXCEPT !.batch = @ \ {r}]]
  BY DEF Insert
<1>2. [j EXCEPT !.batch = @ \ {r}] \in Job /\ JobOK([j EXCEPT !.batch = @ \ {r}])
  BY <1>0 DEF Job, JobOK
<1> QED BY <1>1, <1>2 DEF JobStepTo

(* The other steps only move on: to the next wallet, to the mark, or home. *)
LEMMA OtherJob ==
  ASSUME IInv, NEW p \in Poller,
         \/ \E w \in Wallet : Skip(p, w)
         \/ InsertDone(p) \/ InsertRejected(p) \/ InsertFails(p)
         \/ ProviderError(p) \/ Mark(p) \/ MarkFails(p) \/ EndPoll(p)
  PROVE  \E k : JobStepTo(p, k)
<1> DEFINE j == job[p]
<1>0. j \in Job /\ JobOK(j) /\ job \in [Poller -> Job]
  BY DEF IInv, TypeOK
<1>1. CASE \E w \in Wallet : Skip(p, w)
  <2>1. PICK w \in Wallet : job' = [job EXCEPT ![p] = [j EXCEPT !.todo = @ \ {w}]]
                            /\ j.pc = "cycle"
    BY <1>1 DEF Skip
  <2>2. [j EXCEPT !.todo = @ \ {w}] \in Job /\ JobOK([j EXCEPT !.todo = @ \ {w}])
    BY <1>0, <2>1 DEF Job, JobOK
  <2> QED BY <2>1, <2>2 DEF JobStepTo
<1>2. CASE InsertDone(p) \/ InsertRejected(p) \/ InsertFails(p)
  <2>1. job' = [job EXCEPT ![p] = [j EXCEPT !.pc = "mark"]]
    BY <1>0, <1>2 DEF InsertDone, InsertRejected, InsertFails, AbandonBatch
  <2>2. [j EXCEPT !.pc = "mark"] \in Job /\ JobOK([j EXCEPT !.pc = "mark"])
    BY <1>0 DEF Job, JobOK
  <2> QED BY <2>1, <2>2 DEF JobStepTo
<1>3. CASE ProviderError(p) \/ Mark(p) \/ MarkFails(p)
  <2>1. job' = [job EXCEPT ![p] = Continue(j)]
    BY <1>3 DEF ProviderError, Mark, MarkFails
  <2> QED BY <1>0, <2>1, ContinueOK DEF JobStepTo
<1>4. CASE EndPoll(p)
  <2>1. JobOK(NoJob)
    BY NoJobType DEF JobOK
  <2> QED BY <1>4, <2>1, NoJobType DEF EndPoll, JobStepTo
<1> QED BY <1>1, <1>2, <1>3, <1>4

-----------------------------------------------------------------------------
(* All job conjuncts of the invariant, whatever the step.                  *)
LEMMA JobsStep ==
  ASSUME IInv, [Next]_vars
  PROVE  job' \in [Poller -> Job] /\ (\A p \in Poller : JobOK(job[p]))'
<1>0. job \in [Poller -> Job] /\ TypeOK /\ ChainOK /\ \A p \in Poller : JobOK(job[p])
  BY DEF IInv, TypeOK
<1>1. ASSUME NEW p \in Poller, NEW k, JobStepTo(p, k)
      PROVE  job' \in [Poller -> Job] /\ \A q \in Poller : JobOK(job'[q])
  <2>1. k \in Job /\ JobOK(k) /\ job' = [job EXCEPT ![p] = k]
    BY <1>1 DEF JobStepTo
  <2>2. job' \in [Poller -> Job]
    BY <1>0, <2>1
  <2>3. \A q \in Poller : job'[q] = k \/ job'[q] = job[q]
    BY <1>0, <2>1
  <2> QED BY <1>0, <2>1, <2>2, <2>3
<1>2. JobOK(NoJob)
  BY NoJobType DEF JobOK
<1>3. job' \in [Poller -> Job] /\ \A q \in Poller : JobOK(job'[q])
  <2>1. CASE \E p \in Poller : PollerStep(p) \/ PollerFault(p)
    <3>1. PICK p \in Poller : PollerStep(p) \/ PollerFault(p)
      BY <2>1
    <3>2. CASE ListFails(p)
      BY <1>0, <3>2 DEF ListFails
    <3>3. CASE ~ListFails(p)
      <4>1. \E k : JobStepTo(p, k)
        BY <3>1, <3>3, StartPollJob, ResolveJob, FetchHeadJob, ScanChunkJob,
           LatestTenJob, InsertJob, OtherJob DEF PollerStep, PollerFault
      <4> QED BY <4>1, <1>1
    <3> QED BY <3>2, <3>3
  <2>2. CASE Crash
    <3>1. job' = [p \in Poller |-> NoJob]
      BY <2>2 DEF Crash
    <3>2. \A q \in Poller : job'[q] = NoJob
      BY <3>1
    <3> QED BY <1>2, <3>1, <3>2, NoJobType
  <2>3. CASE UNCHANGED job
    BY <1>0, <2>3
  <2> QED BY <2>1, <2>2, <2>3
          DEF Next, vars, Tick, Mine, Reorg, Handlers, AddWallet, DeleteWallets, Restart
<1>4. ASSUME NEW q \in Poller
      PROVE  JobOK(job[q])'
  <2>1. PICK k \in Job : k = job'[q] /\ JobOK(k)
    BY <1>3
  <2>2. JobOK(k)'
    BY <1>0, <2>1, JobOKStable
  <2> QED BY <2>1, <2>2
<1> QED BY <1>3, <1>4

-----------------------------------------------------------------------------
(* Table wallets: only DeleteWallets ends a wallet.                        *)
LEMMA WalletStep ==
  ASSUME IInv, [Next]_vars
  PROVE  /\ wallet' \in [Wallet -> WalletRow]
         /\ (\A W \in SUBSET Wallet : ~DeleteWallets(W)) =>
              \A w \in Wallet : Active(w) => Active(w)'
<1>0. wallet \in [Wallet -> WalletRow] /\ clock \in Time /\ job \in [Poller -> Job]
  BY DEF IInv, TypeOK
<1>1. ASSUME NEW w \in Wallet, NEW tokens \in SUBSET Token, AddWallet(w, tokens)
      PROVE  wallet' \in [Wallet -> WalletRow] /\ \A v \in Wallet : Active(v) => Active(v)'
  <2> DEFINE row == IF Active(w)
                    THEN [wallet[w] EXCEPT !.filters = @ \cup tokens]
                    ELSE [status |-> "active", created |-> clock, polled |-> Never,
                          filters |-> tokens]
  <2>1. wallet' = [wallet EXCEPT ![w] = row]
    BY <1>1 DEF AddWallet
  <2>2. row \in WalletRow /\ row.status = "active"
    BY <1>0 DEF WalletRow, Active
  <2> HIDE DEF row
  <2> QED BY <1>0, <2>1, <2>2 DEF Active
<1>2. ASSUME NEW W \in SUBSET Wallet, DeleteWallets(W)
      PROVE  wallet' \in [Wallet -> WalletRow]
  <2>1. \A w \in Wallet :
          [wallet[w] EXCEPT !.status = "deleted", !.filters = {}] \in WalletRow
    BY <1>0 DEF WalletRow
  <2> QED BY <1>0, <1>2, <2>1 DEF DeleteWallets
<1>3. ASSUME NEW p \in Poller, Mark(p)
      PROVE  wallet' \in [Wallet -> WalletRow] /\ \A v \in Wallet : Active(v) => Active(v)'
  <2> DEFINE j == job[p]
             row == [wallet[j.w] EXCEPT !.polled = j.now]
  <2>1. j.w \in Wallet /\ j.now \in Time
    BY <1>0 DEF Job
  <2>2. wallet' = wallet \/ wallet' = [wallet EXCEPT ![j.w] = row]
    BY <1>3 DEF Mark
  <2>3. row \in WalletRow /\ row.status = wallet[j.w].status
    BY <1>0, <2>1 DEF WalletRow
  <2> HIDE DEF row
  <2> QED BY <1>0, <2>1, <2>2, <2>3 DEF Active
<1>4. CASE UNCHANGED wallet
  BY <1>0, <1>4 DEF Active
<1> QED
  BY <1>1, <1>2, <1>3, <1>4
     DEF Next, vars, Handlers, PollerStep, PollerFault, Tick, Mine, Reorg, StartPoll,
         FetchHead, ScanChunk, LatestTen, Insert, InsertRejected, InsertDone, EndPoll,
         ProviderError, Resolve, Skip, ListFails, InsertFails, MarkFails,
         AbandonBatch, Crash, Restart

(* Table wallet_transactions: rows come from final batches, and go with    *)
(* their wallet.                                                           *)
LEMMA StoreStep ==
  ASSUME IInv, [Next]_vars
  PROVE  store' \subseteq Row /\ StoreOK'
<1>0. /\ TypeOK /\ ChainOK /\ store \subseteq Row
      /\ \A r \in store : r.wallet \in Wallet /\ Active(r.wallet) /\ RowFinal(r)
  BY DEF IInv, TypeOK, StoreOK, Row
<1>1. \A r \in Row : RowFinal(r) => RowFinal(r)'
  BY <1>0, RowFinalStable
<1>2. ASSUME NEW p \in Poller, Insert(p)
      PROVE  store' \subseteq Row /\ StoreOK'
  <2>1. PICK r \in job[p].batch : store' = store \/ store' = store \cup {r}
    BY <1>2 DEF Insert
  <2>2. r \in Row /\ RowFinal(r) /\ r.wallet \in Wallet /\ Active(r.wallet)
    BY <1>2 DEF Insert, IInv, TypeOK, Job, JobOK, Row
  <2>3. UNCHANGED wallet
    BY <1>2 DEF Insert
  <2> QED BY <1>0, <1>1, <2>1, <2>2, <2>3 DEF StoreOK, Active
<1>3. ASSUME NEW W \in SUBSET Wallet, DeleteWallets(W)
      PROVE  store' \subseteq Row /\ StoreOK'
  <2>1. store' = {r \in store : r.wallet \notin W}
    BY <1>3 DEF DeleteWallets
  <2>2. \A w \in Wallet \ W : wallet'[w] = wallet[w]
    BY <1>3 DEF DeleteWallets
  <2> QED BY <1>0, <1>1, <2>1, <2>2 DEF StoreOK, Active
<1>4. CASE UNCHANGED store /\ \A W \in SUBSET Wallet : ~DeleteWallets(W)
  BY <1>0, <1>1, <1>4, WalletStep DEF StoreOK
<1>5. \/ \E p \in Poller : Insert(p)
      \/ \E W \in SUBSET Wallet : DeleteWallets(W)
      \/ UNCHANGED store
  BY DEF Next, vars, Handlers, PollerStep, PollerFault, Tick, Mine, Reorg, AddWallet,
         StartPoll, FetchHead, ScanChunk, LatestTen, InsertRejected, InsertDone, Mark,
         EndPoll, ProviderError, Resolve, Skip, ListFails, InsertFails, MarkFails,
         AbandonBatch, Crash, Restart
<1> QED BY <1>2, <1>3, <1>4, <1>5

LEMMA IndexerStep ==
  ASSUME IInv, [Next]_vars
  PROVE  indexer' \in Nat /\ IndexedIsFinal'
<1>0. /\ TypeOK /\ ChainOK /\ indexer \in Nat /\ indexer <= FinalHeight
      /\ FinalHeight \in Nat /\ FinalHeight' \in Nat /\ FinalHeight <= FinalHeight'
  BY FinalPrefixStable DEF IInv, TypeOK, IndexedIsFinal
<1>1. CASE \E p \in Poller : ScanChunk(p)
  BY <1>0, <1>1, ScanChunkJob DEF IndexedIsFinal
<1>2. CASE UNCHANGED indexer
  BY <1>0, <1>2 DEF IndexedIsFinal
<1> QED
  BY <1>1, <1>2
     DEF Next, vars, Handlers, PollerStep, PollerFault, Tick, Mine, Reorg, AddWallet,
         DeleteWallets, StartPoll, FetchHead, LatestTen, Insert, InsertRejected,
         InsertDone, Mark, EndPoll, ProviderError, Resolve, Skip, ListFails,
         InsertFails, MarkFails, AbandonBatch, Crash, Restart

(* The counters and flags.                                                 *)
LEMMA CountersStep ==
  ASSUME TypeOK, [Next]_vars
  PROVE  /\ clock' \in Time /\ reorgs' \in 0 .. MaxReorgs
         /\ up' \in BOOLEAN /\ nextTick' \in Nat
         /\ wake' \in [Poller -> BOOLEAN] /\ faults' \in 0 .. MaxFaults
<1> USE NumbersAssumption
<1>0. /\ clock \in Time /\ reorgs \in 0 .. MaxReorgs /\ up \in BOOLEAN
      /\ nextTick \in Nat /\ wake \in [Poller -> BOOLEAN] /\ faults \in 0 .. MaxFaults
  BY DEF TypeOK
<1>1. wake' \in [Poller -> BOOLEAN]
  <2>1. \/ wake' = wake
        \/ wake' = [p \in Poller |-> FALSE]
        \/ \E p \in Poller : wake' = [wake EXCEPT ![p] = TRUE]
                              \/ wake' = [wake EXCEPT ![p] = FALSE]
    BY DEF Next, vars, Handlers, PollerStep, PollerFault, Tick, Mine, Reorg, AddWallet,
           DeleteWallets, StartPoll, FetchHead, ScanChunk, LatestTen, Insert,
           InsertRejected, InsertDone, Mark, EndPoll, ProviderError, Resolve, Skip,
           ListFails, InsertFails, MarkFails, AbandonBatch, Crash, Restart, Poller
  <2> QED BY <1>0, <2>1
<1>2. /\ clock' = clock \/ (clock < MaxClock /\ clock' = clock + 1)
      /\ reorgs' = reorgs \/ (reorgs < MaxReorgs /\ reorgs' = reorgs + 1)
      /\ up' = up \/ up' \in BOOLEAN
      /\ nextTick' \in {nextTick, nextTick + Window, clock + Window}
      /\ faults' = faults \/ (faults < MaxFaults /\ faults' = faults + 1)
  BY DEF Next, vars, Handlers, PollerStep, PollerFault, Tick, Mine, Reorg, AddWallet,
         DeleteWallets, StartPoll, FetchHead, ScanChunk, LatestTen, Insert,
         InsertRejected, InsertDone, Mark, EndPoll, ProviderError, Resolve, Skip,
         ListFails, InsertFails, MarkFails, AbandonBatch, Crash, Restart, Fault
<1>3. up' \in BOOLEAN
  BY <1>0, <1>2
<1>4. /\ clock' \in Time /\ reorgs' \in 0 .. MaxReorgs
      /\ nextTick' \in Nat /\ faults' \in 0 .. MaxFaults
  BY <1>0, <1>2 DEF Time
<1> QED BY <1>1, <1>3, <1>4

-----------------------------------------------------------------------------
LEMMA InitIInv == Init => IInv
<1> SUFFICES ASSUME Init PROVE IInv
  OBVIOUS
<1> USE NumbersAssumption
<1>1. \A w \in Wallet : wallet[w] \in WalletRow
  BY DEF Init, WalletRow, Time, Never
<1>2. wallet \in [Wallet -> WalletRow]
  BY <1>1 DEF Init
<1>3. chain = <<>> /\ Len(chain) = 0 /\ chain \in Seq(Block)
  BY DEF Init
<1>4. FinalHeight = 0
  BY <1>3 DEF FinalHeight, Height
<1>5. wake \in [Poller -> BOOLEAN]
  BY DEF Init
<1>6. job \in [Poller -> Job] /\ \A p \in Poller : job[p] = NoJob
  BY NoJobType DEF Init
<1>7. TypeOK
  <2>1. up \in BOOLEAN /\ store \subseteq Row
    BY DEF Init
  <2>2. clock \in Time /\ reorgs \in 0 .. MaxReorgs /\ indexer \in Nat
        /\ nextTick \in Nat /\ faults \in 0 .. MaxFaults
    BY DEF Init, Time
  <2> QED BY <1>2, <1>3, <1>5, <1>6, <2>1, <2>2 DEF TypeOK
<1>8. ChainOK
  BY <1>3 DEF ChainOK, ValidChain
<1>9. \A p \in Poller : JobOK(job[p])
  BY <1>6, NoJobType DEF JobOK
<1>10. StoreOK /\ IndexedIsFinal
  BY <1>4 DEF Init, StoreOK, IndexedIsFinal
<1> QED BY <1>7, <1>8, <1>9, <1>10 DEF IInv

LEMMA StepIInv == IInv /\ [Next]_vars => IInv'
<1> SUFFICES ASSUME IInv, [Next]_vars PROVE IInv'
  OBVIOUS
<1>1. TypeOK /\ ChainOK
  BY DEF IInv
<1>2. TypeOK'
  BY <1>1, FinalPrefixStable, JobsStep, WalletStep, StoreStep, IndexerStep,
     CountersStep DEF TypeOK
<1> QED BY <1>1, <1>2, FinalPrefixStable, JobsStep, StoreStep, IndexerStep DEF IInv

THEOREM Invariance == Spec => []IInv
BY InitIInv, StepIInv, PTL DEF Spec

(* Type correctness.                                                       *)
THEOREM TypeCorrect == Spec => []TypeOK
<1>1. IInv => TypeOK
  BY DEF IInv
<1> QED BY <1>1, Invariance, PTL

(* What is stored cannot be reverted: rows of wallet_transactions are of   *)
(* live wallets and final blocks, however polls, reorganisations, crashes, *)
(* failures and deletions interleave.                                      *)
THEOREM StoredAreFinal == Spec => []StoredIsFinal
<1>1. IInv => StoredIsFinal
  BY DEF IInv, StoreOK, RowFinal, StoredIsFinal
<1> QED BY <1>1, Invariance, PTL

(* The indexer state names final blocks only.                              *)
THEOREM IndexedAreFinal == Spec => []IndexedIsFinal
<1>1. IInv => IndexedIsFinal
  BY DEF IInv
<1> QED BY <1>1, Invariance, PTL

(* A native transfer has at most one row per wallet: it is in one block    *)
(* only, whose time and hash then fix the row.                             *)
THEOREM NativeStoredOnce == Spec => []NativeOnce
<1>1. ASSUME IInv, NEW r \in store, NEW s \in store,
             r.wallet = s.wallet, r.transfer = s.transfer, r.transfer \notin Erc20
      PROVE  r = s
  <2>1. r \in Row /\ s \in Row /\ RowFinal(r) /\ RowFinal(s) /\ ValidChain(chain)
        /\ TypeOK
    BY <1>1 DEF IInv, TypeOK, StoreOK, ChainOK
  <2>2. PICK g \in 1 .. FinalHeight :
          r.transfer \in chain[g].txs /\ r.stamp = chain[g].ts /\ r.label = "MATIC"
    BY <1>1, <2>1 DEF RowFinal
  <2>3. PICK h \in 1 .. FinalHeight :
          s.transfer \in chain[h].txs /\ s.stamp = chain[h].ts /\ s.label = "MATIC"
    BY <1>1, <2>1 DEF RowFinal
  <2>4. g \in 1 .. Len(chain) /\ h \in 1 .. Len(chain)
    BY <2>1, FinalHeightType
  <2>5. g = h
    BY <1>1, <2>1, <2>2, <2>3, <2>4 DEF ValidChain
  <2> QED BY <1>1, <2>1, <2>2, <2>3, <2>5 DEF Row
<1>2. IInv => NativeOnce
  BY <1>1 DEF NativeOnce
<1> QED BY <1>2, Invariance, PTL

-----------------------------------------------------------------------------
(* A second invariant, on top of the first: what a poll has scanned, and   *)
(* the labels a wallet's rows carry.                                       *)

(* A wallet of the table, or one that was deleted from it.                 *)
Listed(w) == wallet[w].status # "absent"

(* Row r stands for transfer t of block h in the poll j.                   *)
Covers(j, r, t, h) ==
  /\ r.wallet = j.w /\ Hash[r.transfer] = Hash[t]
  /\ IF t \in Erc20 THEN r.label = j.label
     ELSE r.label = "MATIC" /\ r.stamp = chain[h].ts

(* The rows stand for all of the poll's window up to a block.              *)
Scanned(j, to, rows) ==
  \A h \in j.start .. to : \A t \in Concerning(j.w, h) :
    chain[h].ts >= j.since => \E r \in rows : Covers(j, r, t, h)

ScanOK(j) ==
  /\ \A w \in j.todo : Listed(w)
  /\ j.pc \notin {"idle", "cycle"} => Listed(j.w) /\ StartBlock <= j.start
  /\ j.pc = "head" => j.batch = {} /\ j.safe = 0
  /\ j.pc \in {"insert", "mark"} => j.safe <= FinalHeight
  /\ j.pc \in {"scan", "insert"} =>
       \A r \in j.batch : r.transfer \in Erc20 => r.label = j.label
  /\ j.pc = "scan" /\ ~Bootstrap(j) => Scanned(j, j.current - 1, j.batch)
  /\ j.pc \in {"insert", "mark"} /\ ~Bootstrap(j) /\ Active(j.w) =>
       Scanned(j, j.safe, store \cup j.batch)

(* The labels of a wallet's ERC20 rows, in the table or about to be, are   *)
(* "ERC20" and one of its filters.                                         *)
OneLabel(w) ==
  \E f \in wallet[w].filters \cup {"ERC20"} :
    /\ \A r \in store :
         r.wallet = w /\ r.transfer \in Erc20 => r.label \in {"ERC20", f}
    /\ \A p \in Poller :
         job[p].w = w /\ job[p].pc \in {"scan", "insert"} =>
           job[p].label \in {"ERC20", f}

WInv ==
  /\ \A p \in Poller : ScanOK(job[p])
  /\ \A w \in Wallet : Active(w) => OneLabel(w)

(* A wallet once listed is so for good, and is never active again after    *)
(* its deletion; filters are only added.                                   *)
LEMMA WalletsKept ==
  ASSUME IInv, [Next]_vars, NEW w \in Wallet
  PROVE  /\ Listed(w) => Listed(w)'
         /\ Listed(w) /\ Active(w)' => Active(w)
         /\ Active(w) /\ Active(w)' => wallet[w].filters \subseteq wallet'[w].filters
<1>0. wallet \in [Wallet -> WalletRow] /\ job \in [Poller -> Job]
  BY DEF IInv, TypeOK
<1> USE DEF Listed, Active
<1>1. ASSUME NEW v \in Wallet, NEW tokens \in SUBSET Token, AddWallet(v, tokens)
      PROVE  /\ Listed(w) => Listed(w)'
             /\ Listed(w) /\ Active(w)' => Active(w)
             /\ Active(w) => wallet[w].filters \subseteq wallet'[w].filters
  <2> DEFINE row == IF Active(v)
                    THEN [wallet[v] EXCEPT !.filters = @ \cup tokens]
                    ELSE [status |-> "active", created |-> clock, polled |-> Never,
                          filters |-> tokens]
  <2>1. wallet' = [wallet EXCEPT ![v] = row] /\ wallet[v].status # "deleted"
    BY <1>1 DEF AddWallet
  <2>2. row.status = "active" /\ (Active(v) => wallet[v].filters \subseteq row.filters)
    BY <1>0 DEF WalletRow
  <2>3. wallet[v].status \in {"absent", "active", "deleted"}
    BY <1>0 DEF WalletRow
  <2> HIDE DEF row
  <2>4. CASE w = v
    BY <1>0, <2>1, <2>2, <2>3, <2>4
  <2>5. CASE w # v
    BY <1>0, <2>1, <2>5
  <2> QED BY <2>4, <2>5
<1>2. ASSUME NEW W \in SUBSET Wallet, DeleteWallets(W)
      PROVE  /\ Listed(w) => Listed(w)'
             /\ Listed(w) /\ Active(w)' => Active(w)
             /\ Active(w)' => wallet[w].filters \subseteq wallet'[w].filters
  <2>1. wallet'[w] = IF w \in W
                     THEN [wallet[w] EXCEPT !.status = "deleted", !.filters = {}]
                     ELSE wallet[w]
    BY <1>2 DEF DeleteWallets
  <2>2. [wallet[w] EXCEPT !.status = "deleted", !.filters = {}].status = "deleted"
    BY <1>0 DEF WalletRow
  <2> QED BY <2>1, <2>2
<1>3. ASSUME NEW p \in Poller, Mark(p)
      PROVE  wallet'[w].status = wallet[w].status /\ wallet'[w].filters = wallet[w].filters
  <2> DEFINE j == job[p]
             row == [wallet[j.w] EXCEPT !.polled = j.now]
  <2>1. j.w \in Wallet /\ j.now \in Time
    BY <1>0 DEF Job
  <2>2. wallet' = wallet \/ wallet' = [wallet EXCEPT ![j.w] = row]
    BY <1>3 DEF Mark
  <2>3. row.status = wallet[j.w].status /\ row.filters = wallet[j.w].filters
    BY <1>0, <2>1 DEF WalletRow
  <2> HIDE DEF row
  <2> QED BY <1>0, <2>1, <2>2, <2>3
<1>4. CASE UNCHANGED wallet
  BY <1>4
<1> QED
  BY <1>1, <1>2, <1>3, <1>4
     DEF Next, vars, Handlers, PollerStep, PollerFault, Tick, Mine, Reorg, StartPoll,
         FetchHead, ScanChunk, LatestTen, Insert, InsertRejected, InsertDone, EndPoll,
         ProviderError, Resolve, Skip, ListFails, InsertFails, MarkFails,
         AbandonBatch, Crash, Restart

(* The rows of a wallet that stays stay in the table.                      *)
LEMMA StoreKept ==
  ASSUME IInv, [Next]_vars, NEW r \in store, Active(r.wallet)'
  PROVE  r \in store'
<1>1. ASSUME NEW W \in SUBSET Wallet, DeleteWallets(W)
      PROVE  r \in store'
  <2>1. r.wallet \in Wallet /\ wallet[r.wallet] \in WalletRow
    BY DEF IInv, TypeOK, Row
  <2>2. r.wallet \in W => wallet'[r.wallet].status = "deleted"
    BY <1>1, <2>1 DEF DeleteWallets, WalletRow
  <2> QED BY <1>1, <2>2 DEF DeleteWallets, Active
<1>2. ASSUME NEW p \in Poller, Insert(p)
      PROVE  r \in store'
  BY <1>2 DEF Insert
<1>3. CASE UNCHANGED store
  BY <1>3
<1> QED BY <1>1, <1>2, <1>3
        DEF Next, vars, Handlers, PollerStep, PollerFault, Tick, Mine, Reorg, AddWallet,
         StartPoll, FetchHead, ScanChunk, LatestTen, InsertRejected, InsertDone, Mark,
         EndPoll, ProviderError, Resolve, Skip, ListFails, InsertFails, MarkFails,
         AbandonBatch, Crash, Restart

(* What has been scanned stays so: the blocks are final.                   *)
LEMMA ScannedStable ==
  ASSUME IInv, [Next]_vars, NEW j \in Job, NEW to \in Int, NEW rows, NEW more,
         StartBlock <= j.start, to <= FinalHeight, rows \subseteq more,
         Scanned(j, to, rows)
  PROVE  Scanned(j, to, more)'
<1>1. TypeOK /\ ChainOK /\ FinalHeight \in Nat /\ \A h \in 1 .. FinalHeight : chain'[h] = chain[h]
  BY FinalPrefixStable DEF IInv
<1>2. \A h \in j.start .. to : chain'[h] = chain[h]
  BY <1>1, NumbersAssumption DEF Job
<1> QED BY <1>2 DEF Scanned, Covers, Concerning

(* A poll that does not move keeps its part of the invariant.              *)
LEMMA ScanOKStable ==
  ASSUME IInv, IInv', [Next]_vars, NEW j \in Job, ScanOK(j), JobOK(j)
  PROVE  ScanOK(j)'
<1>0. /\ TypeOK /\ ChainOK /\ FinalHeight \in Nat /\ FinalHeight' \in Nat
      /\ FinalHeight <= FinalHeight' /\ StartBlock \in Nat
      /\ j.todo \subseteq Wallet /\ j.w \in Wallet /\ j.safe \in Nat /\ j.current \in Nat
  BY FinalPrefixStable, NumbersAssumption DEF IInv, Job
<1>1. (\A w \in j.todo : Listed(w)') /\ (Listed(j.w) => Listed(j.w)')
  BY <1>0, WalletsKept DEF ScanOK
<1>2. j.pc \in {"insert", "mark"} => j.safe <= FinalHeight'
  BY <1>0 DEF ScanOK
<1>3. ASSUME j.pc = "scan", ~Bootstrap(j)
      PROVE  Scanned(j, j.current - 1, j.batch)'
  <2>1. StartBlock <= j.start /\ Scanned(j, j.current - 1, j.batch)
        /\ j.current - 1 <= FinalHeight /\ j.current - 1 \in Int
    BY <1>0, <1>3 DEF ScanOK, JobOK
  <2> QED BY <2>1, ScannedStable
<1>4. ASSUME j.pc \in {"insert", "mark"}, ~Bootstrap(j), Active(j.w)'
      PROVE  Scanned(j, j.safe, store \cup j.batch)'
  <2>1. Active(j.w) /\ StartBlock <= j.start /\ j.safe <= FinalHeight
    BY <1>0, <1>4, WalletsKept DEF ScanOK
  <2>2. Scanned(j, j.safe, store \cup j.batch)
    BY <1>4, <2>1 DEF ScanOK
  <2>3. PICK mine : mine = {r \in store : r.wallet = j.w} \cup j.batch
    OBVIOUS
  <2>4. PICK next : next = store' \cup j.batch
    OBVIOUS
  <2>5. Scanned(j, j.safe, mine)
    BY <2>2, <2>3 DEF Scanned, Covers
  <2>6. mine \subseteq next
    BY <1>4, <2>3, <2>4, StoreKept
  <2>7. Scanned(j, j.safe, next)'
    BY <1>0, <2>1, <2>5, <2>6, ScannedStable
  <2> QED BY <2>4, <2>7 DEF Scanned, Covers
<1>5. Bootstrap(j)' = Bootstrap(j)
  BY DEF Bootstrap
<1> QED BY <1>1, <1>2, <1>3, <1>4, <1>5 DEF ScanOK

(* What a poller's step leads to.                                          *)
LabelFrom(p, k) ==
  k.pc \in {"scan", "insert"} =>
    /\ k.w = job[p].w
    /\ \/ job[p].pc \in {"scan", "insert"} /\ k.label = job[p].label
       \/ job[p].pc = "head" /\ k.label = RowLabel(job[p].w) /\ UNCHANGED wallet

ScanStepTo(p, k) == ScanOK(k)' /\ LabelFrom(p, k) /\ job' = [job EXCEPT ![p] = k]

LEMMA NoJobScan == ScanOK(NoJob)'
BY DEF ScanOK, NoJob

LEMMA ContinueScan ==
  ASSUME IInv, [Next]_vars, NEW j \in Job, ScanOK(j), NEW k, k = Continue(j)
  PROVE  ScanOK(k)'
<1>1. k.pc = "cycle" /\ k.todo = j.todo
  BY DEF Continue, NoJob
<1>2. \A w \in k.todo : Listed(w)'
  BY <1>1, WalletsKept DEF ScanOK, Job
<1> QED BY <1>1, <1>2 DEF ScanOK

LEMMA StartPollScan ==
  ASSUME IInv, NEW p \in Poller, StartPoll(p)
  PROVE  \E k : ScanStepTo(p, k)
<1>1. PICK k : k = [NoJob EXCEPT !.pc = "cycle", !.now = clock,
                     !.todo = {w \in Wallet : Active(w)},
                     !.seen = [w \in Wallet |->
                       IF Active(w) THEN wallet[w].polled ELSE Never]]
  OBVIOUS
<1>2. k.pc = "cycle" /\ k.todo = {w \in Wallet : Active(w)}
  BY <1>1 DEF NoJob
<1>3. job' = [job EXCEPT ![p] = k] /\ wallet' = wallet
  BY <1>1 DEF StartPoll
<1>4. \A w \in k.todo : Listed(w)'
  BY <1>2, <1>3 DEF Listed, Active
<1> QED BY <1>2, <1>3, <1>4 DEF ScanOK, ScanStepTo, LabelFrom

LEMMA ResolveScan ==
  ASSUME IInv, NEW p \in Poller, NEW w \in Wallet, Resolve(p, w), ScanOK(job[p])
  PROVE  \E k : ScanStepTo(p, k)
<1>0. PICK j : j = job[p]
  OBVIOUS
<1>1. j \in Job /\ ScanOK(j) /\ wallet' = wallet /\ w \in j.todo
  BY <1>0 DEF IInv, TypeOK, Resolve
<1> DEFINE since == Since(j, w)
<1>2. PICK start \in StartBlock .. Max2(StartBlock, Height) :
        job' = [job EXCEPT ![p] =
            [j EXCEPT !.pc = "head", !.todo = @ \ {w}, !.w = w,
                      !.since = since, !.start = start,
                      !.current = start, !.safe = 0, !.batch = {}]]
  BY <1>0 DEF Resolve
<1> HIDE DEF since
<1>3. PICK k : k = [j EXCEPT !.pc = "head", !.todo = @ \ {w}, !.w = w,
                      !.since = since, !.start = start,
                      !.current = start, !.safe = 0, !.batch = {}]
  OBVIOUS
<1>4. /\ k.pc = "head" /\ k.todo = j.todo \ {w} /\ k.w = w /\ k.start = start
      /\ k.safe = 0 /\ k.batch = {}
  BY <1>1, <1>3 DEF Job
<1>5. (\A v \in k.todo : Listed(v)') /\ Listed(w)'
  BY <1>1, <1>4 DEF ScanOK, Listed
<1>6. StartBlock <= start
  BY <1>2
<1>7. ScanOK(k)'
  BY <1>4, <1>5, <1>6 DEF ScanOK
<1> QED BY <1>2, <1>3, <1>4, <1>7 DEF ScanStepTo, LabelFrom

LEMMA FetchHeadScan ==
  ASSUME IInv, NEW p \in Poller, FetchHead(p), ScanOK(job[p])
  PROVE  \E k : ScanStepTo(p, k)
<1>a. PICK j : j = job[p]
  OBVIOUS
<1>b. PICK label : label = RowLabel(j.w)
  OBVIOUS
<1>0. /\ j \in Job /\ j.w \in Wallet /\ Height \in Nat
      /\ j.start \in Nat /\ StartBlock \in Nat \ {0} /\ StartBlock <= j.start
      /\ j.current = j.start /\ j.batch = {} /\ j.safe = 0
      /\ Listed(j.w) /\ (\A v \in j.todo : Listed(v))
      /\ FinalHeight \in Nat
  <2>1. /\ j \in Job /\ JobOK(j) /\ ScanOK(j) /\ j.pc = "head"
        /\ Height \in Nat /\ FinalHeight \in Nat
    BY <1>a, FinalHeightType DEF IInv, TypeOK, FetchHead, Height
  <2> QED BY <2>1, NumbersAssumption DEF Job, JobOK, ScanOK
<1>1. UNCHANGED <<wallet, chain, store>>
  BY DEF FetchHead
<1>1a. FinalHeight' = FinalHeight /\ Listed(j.w)' /\ (\A v \in j.todo : Listed(v)')
  BY <1>0, <1>1 DEF FinalHeight, Height, Listed
<1>2. CASE Height <= Confirmations
  <2>0. PICK k : k = [j EXCEPT !.pc = "mark"]
    OBVIOUS
  <2>1. /\ k.pc = "mark" /\ k.todo = j.todo /\ k.w = j.w /\ k.start = j.start
        /\ k.safe = 0 /\ k.batch = {}
    BY <1>0, <2>0 DEF Job
  <2>2. job' = [job EXCEPT ![p] = k]
    BY <1>2, <1>a, <2>0 DEF FetchHead
  <2>3. (k.start .. k.safe) = {}
    BY <1>0, <2>1
  <2>4. 0 <= FinalHeight'
    BY <1>0, <1>1a
  <2>5. ScanOK(k)'
    BY <1>0, <1>1a, <2>1, <2>3, <2>4 DEF ScanOK, Scanned
  <2> QED BY <2>1, <2>2, <2>5 DEF ScanStepTo, LabelFrom
<1>3. CASE ~(Height <= Confirmations)
  <2>0. PICK k : k = [j EXCEPT
                        !.pc = IF j.start > SafeTo(Height) THEN "mark" ELSE "scan",
                        !.safe = SafeTo(Height), !.label = label]
    OBVIOUS
  <2>1. SafeTo(Height) \in Nat /\ SafeTo(Height) = FinalHeight
    BY <1>0, <1>3, NumbersAssumption DEF SafeTo, FinalHeight
  <2>2. /\ (k.pc = "mark" /\ j.start > FinalHeight) \/ k.pc = "scan"
        /\ k.safe = FinalHeight /\ k.todo = j.todo /\ k.start = j.start
        /\ k.current = j.start /\ k.batch = {} /\ k.w = j.w /\ k.label = label
    BY <1>0, <2>0, <2>1 DEF Job
  <2>3. job' = [job EXCEPT ![p] = k]
    BY <1>3, <1>a, <1>b, <2>0 DEF FetchHead
  <2>4. (k.start .. k.current - 1) = {}
    BY <1>0, <2>2
  <2>5. k.pc = "mark" => (k.start .. k.safe) = {}
    BY <1>0, <2>2
  <2>6. k.safe <= FinalHeight'
    BY <1>0, <1>1a, <2>2
  <2>7. ScanOK(k)'
    BY <1>0, <1>1a, <2>2, <2>4, <2>5, <2>6 DEF ScanOK, Scanned
  <2>8. LabelFrom(p, k)
    BY <1>0, <1>1, <1>a, <1>b, <2>2 DEF LabelFrom, FetchHead
  <2> QED BY <2>3, <2>7, <2>8 DEF ScanStepTo
<1> QED BY <1>2, <1>3

(* Row r of the rows a scan of block h adds stands for its transfer.       *)
LEMMA RowOfCovers ==
  ASSUME NEW j \in Job, NEW h, NEW t, NEW lost \in SUBSET Erc20
  PROVE  /\ Covers(j, RowOf(j, t, h, lost), t, h)
         /\ RowOf(j, t, h, lost).transfer = t
         /\ t \in Erc20 => RowOf(j, t, h, lost).label = j.label
BY DEF RowOf, Covers

LEMMA ScanChunkScan ==
  ASSUME IInv, NEW p \in Poller, ScanChunk(p), ScanOK(job[p])
  PROVE  \E k : ScanStepTo(p, k)
<1>a. PICK j : j = job[p]
  OBVIOUS
<1>b. PICK to : to = Min2(j.current + ChunkSize - 1, j.safe)
  OBVIOUS
<1>0. /\ j \in Job /\ JobOK(j) /\ ScanOK(j) /\ j.pc = "scan" /\ ~Bootstrap(j)
      /\ FinalHeight \in Nat /\ StartBlock \in Nat \ {0} /\ ChunkSize \in Nat \ {0}
  BY <1>a, FinalHeightType, NumbersAssumption DEF IInv, TypeOK, ScanChunk
<1>0a. /\ StartBlock <= j.current /\ j.current <= j.safe /\ j.safe <= FinalHeight
       /\ j.current \in Nat /\ j.safe \in Nat /\ j.start \in Nat
  BY <1>0 DEF JobOK, Job
<1>0b. to \in Nat /\ to <= j.safe
  BY <1>0, <1>0a, <1>b DEF Min2
<1>1. PICK lost \in Lookups(j, j.current, to) :
        job' = [job EXCEPT ![p] =
          [j EXCEPT !.batch = @ \cup RangeRows(j, j.current, to, j.since, lost),
                    !.current = to + 1,
                    !.pc = IF to = j.safe THEN "insert" ELSE "scan"]]
  BY <1>a, <1>b DEF ScanChunk
<1>2. PICK rows : rows = RangeRows(j, j.current, to, j.since, lost)
  OBVIOUS
<1>3. PICK k : k = [j EXCEPT !.batch = @ \cup rows, !.current = to + 1,
                             !.pc = IF to = j.safe THEN "insert" ELSE "scan"]
  OBVIOUS
<1>4. /\ (k.pc = "insert" /\ to = j.safe) \/ k.pc = "scan"
      /\ k.current = to + 1 /\ k.safe = j.safe /\ k.w = j.w /\ k.todo = j.todo
      /\ k.batch = j.batch \cup rows /\ k.start = j.start /\ k.since = j.since
      /\ k.label = j.label
  BY <1>0, <1>3 DEF Job
<1>5. UNCHANGED <<wallet, chain, store>>
  BY DEF ScanChunk
<1>6. FinalHeight' = FinalHeight /\ Listed(j.w)' /\ (\A v \in j.todo : Listed(v)')
  BY <1>0, <1>5 DEF ScanOK, FinalHeight, Height, Listed
<1>7. \A r \in rows : r.transfer \in Erc20 => r.label = j.label
  BY <1>0, <1>2, LookupsErc20, RowOfCovers DEF RangeRows
<1>8. ASSUME NEW h \in j.start .. to, NEW t \in Concerning(j.w, h), chain[h].ts >= j.since
      PROVE  \E r \in j.batch \cup rows : Covers(j, r, t, h)
  <2>1. CASE h \in j.start .. j.current - 1
    BY <1>0, <1>8, <2>1 DEF ScanOK, Scanned
  <2>2. CASE h \in j.current .. to
    <3>1. RowOf(j, t, h, lost) \in rows
      BY <1>2, <1>8, <2>2 DEF RangeRows
    <3> QED BY <1>0, <3>1, RowOfCovers, LookupsErc20
  <2> QED BY <2>1, <2>2, <1>0a, <1>0b
<1>9. ASSUME NEW more, k.batch \subseteq more
      PROVE  Scanned(k, to, more)'
  BY <1>4, <1>5, <1>8, <1>9 DEF Scanned, Covers, Concerning
<1>10. PICK all : all = store \cup k.batch
  OBVIOUS
<1>11. Scanned(k, to, k.batch)' /\ Scanned(k, to, all)'
  BY <1>9, <1>10
<1>12. Scanned(k, to, store \cup k.batch)'
  BY <1>5, <1>10, <1>11 DEF Scanned, Covers, Concerning
<1>13. k.current - 1 = to
  BY <1>0b, <1>4
<1>14. ScanOK(k)'
  BY <1>0, <1>0a, <1>4, <1>6, <1>7, <1>11, <1>12, <1>13 DEF ScanOK
<1>15. job' = [job EXCEPT ![p] = k]
  BY <1>1, <1>2, <1>3
<1>16. LabelFrom(p, k)
  BY <1>0, <1>4, <1>a DEF LabelFrom
<1> QED BY <1>14, <1>15, <1>16 DEF ScanStepTo

LEMMA LatestTenScan ==
  ASSUME IInv, NEW p \in Poller, LatestTen(p), ScanOK(job[p])
  PROVE  \E k : ScanStepTo(p, k)
<1> DEFINE jp    == job[p]
           low   == Max2(StartBlock, jp.safe - MaxRanges * ChunkSize + 1)
           found == {x \in Transfer \X (low .. jp.safe) : x[1] \in Concerning(jp.w, x[2])}
<1>1a. PICK taken \in SUBSET found, lost \in Lookups(jp, low, jp.safe) :
        job' = [job EXCEPT ![p] =
            [jp EXCEPT !.pc = "insert",
                       !.batch = {RowOf(jp, x[1], x[2], lost) : x \in taken}]]
  BY DEF LatestTen
<1> HIDE DEF found, low
<1>a. PICK j : j = job[p]
  OBVIOUS
<1>0. j \in Job /\ JobOK(j) /\ ScanOK(j) /\ j.pc = "scan" /\ Bootstrap(j)
  BY <1>a DEF IInv, TypeOK, LatestTen
<1>1. job' = [job EXCEPT ![p] =
            [j EXCEPT !.pc = "insert",
                      !.batch = {RowOf(j, x[1], x[2], lost) : x \in taken}]]
      /\ lost \in SUBSET Erc20
  BY <1>1a, <1>a, LookupsErc20
<1>2. PICK rows : rows = {RowOf(j, x[1], x[2], lost) : x \in taken}
  OBVIOUS
<1>3. PICK k : k = [j EXCEPT !.pc = "insert", !.batch = rows]
  OBVIOUS
<1>4. /\ k.pc = "insert" /\ k.safe = j.safe /\ k.w = j.w /\ k.todo = j.todo
      /\ k.batch = rows /\ k.start = j.start /\ k.label = j.label /\ k.seen = j.seen
  BY <1>0, <1>3 DEF Job
<1>5. UNCHANGED <<wallet, chain, store>>
  BY DEF LatestTen
<1>6. FinalHeight' = FinalHeight /\ Listed(j.w)' /\ (\A v \in j.todo : Listed(v)')
  BY <1>0, <1>5 DEF ScanOK, FinalHeight, Height, Listed
<1>7. \A r \in rows : r.transfer \in Erc20 => r.label = j.label
  BY <1>0, <1>2, LookupsErc20, RowOfCovers
<1>8. Bootstrap(k)' /\ k.safe <= FinalHeight' /\ StartBlock <= k.start
  BY <1>0, <1>4, <1>6 DEF Bootstrap, JobOK, ScanOK
<1>9. ScanOK(k)'
  BY <1>4, <1>6, <1>7, <1>8 DEF ScanOK
<1>10. job' = [job EXCEPT ![p] = k]
  BY <1>1, <1>2, <1>3
<1>11. LabelFrom(p, k)
  BY <1>0, <1>4, <1>a DEF LabelFrom
<1> QED BY <1>9, <1>10, <1>11 DEF ScanStepTo

(* A row the unique index turns away has its like in the table.            *)
LEMMA InsertScan ==
  ASSUME IInv, NEW p \in Poller, Insert(p), ScanOK(job[p])
  PROVE  \E k : ScanStepTo(p, k)
<1>a. PICK j : j = job[p]
  OBVIOUS
<1>0. /\ j \in Job /\ ScanOK(j) /\ j.pc = "insert" /\ store \subseteq Row
      /\ Active(j.w)
  BY <1>a DEF IInv, TypeOK, Insert
<1>1. PICK r \in j.batch :
        /\ store' = IF \E s \in store : Key(s) = Key(r) THEN store ELSE store \cup {r}
        /\ job' = [job EXCEPT ![p] = [j EXCEPT !.batch = @ \ {r}]]
  BY <1>a DEF Insert
<1>2. PICK k : k = [j EXCEPT !.batch = @ \ {r}]
  OBVIOUS
<1>3. /\ k.pc = "insert" /\ k.safe = j.safe /\ k.w = j.w /\ k.todo = j.todo
      /\ k.batch = j.batch \ {r} /\ k.start = j.start /\ k.since = j.since
      /\ k.label = j.label /\ k.seen = j.seen
  BY <1>0, <1>2 DEF Job
<1>4. UNCHANGED <<wallet, chain>>
  BY DEF Insert
<1>5. FinalHeight' = FinalHeight /\ Listed(j.w)' /\ (\A v \in j.todo : Listed(v)')
  BY <1>0, <1>4 DEF ScanOK, FinalHeight, Height, Listed
<1>6. \E s \in store' : Key(s) = Key(r)
  BY <1>1
<1>7. ASSUME NEW h, NEW t, NEW q \in store \cup j.batch, Covers(j, q, t, h)
      PROVE  \E s \in store' \cup k.batch : Covers(j, s, t, h)
  <2>1. CASE q = r
    <3>1. PICK s \in store' : Key(s) = Key(r)
      BY <1>6
    <3>2. s.wallet = r.wallet /\ Hash[s.transfer] = Hash[r.transfer]
          /\ s.label = r.label /\ s.stamp = r.stamp
      BY <3>1 DEF Key
    <3>3. Covers(j, s, t, h)
      BY <1>7, <2>1, <3>2 DEF Covers
    <3> QED BY <3>3
  <2>2. CASE q # r
    BY <1>1, <1>3, <1>7, <2>2
  <2> QED BY <2>1, <2>2
<1>8. ASSUME ~Bootstrap(j)
      PROVE  Scanned(k, k.safe, store \cup k.batch)'
  <2>1. Scanned(j, j.safe, store \cup j.batch)
    BY <1>0, <1>8 DEF ScanOK
  <2> QED BY <1>3, <1>4, <1>7, <2>1 DEF Scanned, Covers, Concerning
<1>9. Bootstrap(k)' = Bootstrap(j)
  BY <1>3 DEF Bootstrap
<1>10. ScanOK(k)'
  BY <1>0, <1>3, <1>5, <1>8, <1>9 DEF ScanOK
<1>11. LabelFrom(p, k)
  BY <1>0, <1>3, <1>a DEF LabelFrom
<1> QED BY <1>1, <1>2, <1>10, <1>11 DEF ScanStepTo

LEMMA OtherScan ==
  ASSUME IInv, [Next]_vars, NEW p \in Poller, ScanOK(job[p]), JobOK(job[p]), IInv',
         \/ \E w \in Wallet : Skip(p, w)
         \/ InsertDone(p) \/ InsertRejected(p) \/ InsertFails(p)
         \/ ProviderError(p) \/ Mark(p) \/ MarkFails(p) \/ EndPoll(p)
  PROVE  \E k : ScanStepTo(p, k)
<1>a. PICK j : j = job[p]
  OBVIOUS
<1>0. j \in Job /\ ScanOK(j) /\ JobOK(j)
  BY <1>a DEF IInv, TypeOK
<1>0a. ScanOK(j)'
  BY <1>0, ScanOKStable
<1>1. CASE \E w \in Wallet : Skip(p, w)
  <2>1. PICK w \in Wallet : job' = [job EXCEPT ![p] = [j EXCEPT !.todo = @ \ {w}]]
                            /\ j.pc = "cycle"
    BY <1>a, <1>1 DEF Skip
  <2>2. PICK k : k = [j EXCEPT !.todo = @ \ {w}]
    OBVIOUS
  <2>3. k.pc = "cycle" /\ k.todo = j.todo \ {w}
    BY <1>0, <2>1, <2>2 DEF Job
  <2>4. ScanOK(k)'
    BY <1>0a, <2>3 DEF ScanOK
  <2> QED BY <2>1, <2>2, <2>3, <2>4 DEF ScanStepTo, LabelFrom
<1>2. CASE InsertDone(p) \/ InsertRejected(p) \/ InsertFails(p)
  <2>1. job' = [job EXCEPT ![p] = [j EXCEPT !.pc = "mark"]] /\ j.pc = "insert"
    BY <1>a, <1>0, <1>2 DEF InsertDone, InsertRejected, InsertFails, AbandonBatch, IInv, TypeOK
  <2>2. PICK k : k = [j EXCEPT !.pc = "mark"]
    OBVIOUS
  <2>3. /\ k.pc = "mark" /\ k.safe = j.safe /\ k.w = j.w /\ k.todo = j.todo
        /\ k.batch = j.batch /\ k.start = j.start /\ k.since = j.since
        /\ k.label = j.label /\ k.seen = j.seen
    BY <1>0, <2>2 DEF Job
  <2>4. ScanOK(k)'
    BY <1>0a, <2>1, <2>3 DEF ScanOK, Bootstrap, Scanned, Covers, Concerning
  <2> QED BY <2>1, <2>2, <2>3, <2>4 DEF ScanStepTo, LabelFrom
<1>3. CASE ProviderError(p) \/ Mark(p) \/ MarkFails(p)
  <2>1. PICK k : k = Continue(j)
    OBVIOUS
  <2>2. job' = [job EXCEPT ![p] = k]
    BY <1>a, <1>3, <2>1 DEF ProviderError, Mark, MarkFails
  <2>3. k.pc = "cycle"
    BY <2>1 DEF Continue, NoJob
  <2> QED BY <1>0, <2>1, <2>2, <2>3, ContinueScan DEF ScanStepTo, LabelFrom
<1>4. CASE EndPoll(p)
  <2>1. job' = [job EXCEPT ![p] = NoJob]
    BY <1>4 DEF EndPoll
  <2>2. NoJob.pc = "idle"
    BY DEF NoJob
  <2> QED BY <2>1, <2>2, NoJobScan DEF ScanStepTo, LabelFrom
<1> QED BY <1>1, <1>2, <1>3, <1>4

LEMMA ScansStep ==
  ASSUME IInv, IInv', [Next]_vars, \A p \in Poller : ScanOK(job[p]), NEW q \in Poller
  PROVE  /\ ScanOK(job[q])'
         /\ job'[q] = job[q] \/ LabelFrom(q, job'[q])
<1>0. /\ job \in [Poller -> Job] /\ job' \in [Poller -> Job]
      /\ \A p \in Poller : JobOK(job[p])
  BY DEF IInv, TypeOK
<1>1. CASE job'[q] = job[q]
  <2>1. PICK j : j = job[q]
    OBVIOUS
  <2>2. ScanOK(j)'
    BY <1>0, <2>1, ScanOKStable
  <2>3. j = job'[q]
    BY <1>1, <2>1
  <2> QED BY <1>1, <2>2, <2>3
<1>2. ASSUME NEW p \in Poller, PollerStep(p) \/ PollerFault(p), ~ListFails(p),
             job'[q] # job[q]
      PROVE  ScanOK(job[q])' /\ LabelFrom(q, job'[q])
  <2>1. ScanOK(job[p]) /\ JobOK(job[p])
    BY <1>0
  <2>2. \E k : ScanStepTo(p, k)
    BY <1>2, <2>1, StartPollScan, ResolveScan, FetchHeadScan, ScanChunkScan,
       LatestTenScan, InsertScan, OtherScan DEF PollerStep, PollerFault
  <2>3. PICK k : ScanOK(k)' /\ LabelFrom(p, k) /\ job' = [job EXCEPT ![p] = k]
    BY <2>2 DEF ScanStepTo
  <2>4. q = p /\ k = job'[q]
    BY <1>0, <1>2, <2>3
  <2> QED BY <2>3, <2>4
<1>3. CASE Crash
  <2>1. PICK k : k = NoJob
    OBVIOUS
  <2>2. k = job'[q]
    BY <1>3, <2>1 DEF Crash
  <2>3. ScanOK(k)' /\ LabelFrom(q, k)
    BY <2>1 DEF ScanOK, LabelFrom, NoJob
  <2> QED BY <2>2, <2>3
<1> QED
  BY <1>1, <1>2, <1>3
     DEF Next, vars, Tick, Mine, Reorg, Handlers, AddWallet, DeleteWallets, Restart,
         ListFails

(* Labels: a row is added to the table from a batch.                       *)
LEMMA StoreAdds ==
  ASSUME [Next]_vars, NEW r \in store', r \notin store
  PROVE  \E p \in Poller : job[p].pc = "insert" /\ r \in job[p].batch
<1>1. ASSUME NEW p \in Poller, Insert(p)
      PROVE  job[p].pc = "insert" /\ r \in job[p].batch
  BY <1>1 DEF Insert
<1> QED
  BY <1>1 DEF Next, vars, Handlers, PollerStep, PollerFault, Tick, Mine, Reorg, AddWallet,
         DeleteWallets, StartPoll, FetchHead, ScanChunk, LatestTen, InsertRejected,
         InsertDone, Mark, EndPoll, ProviderError, Resolve, Skip, ListFails,
         InsertFails, MarkFails, AbandonBatch, Crash, Restart

LEMMA LabelsStep ==
  ASSUME IInv, IInv', [Next]_vars, WInv, NEW w \in Wallet, Active(w)'
  PROVE  OneLabel(w)'
<1>0. /\ job \in [Poller -> Job] /\ wallet \in [Wallet -> WalletRow]
      /\ \A p \in Poller : ScanOK(job[p]) /\ JobOK(job[p])
      /\ \A r \in store : Active(r.wallet)
  BY DEF IInv, TypeOK, WInv, StoreOK
<1>1. ASSUME NEW p \in Poller, job[p].w = w, job[p].pc \notin {"idle", "cycle"}
      PROVE  Active(w)
  BY <1>0, <1>1, WalletsKept DEF ScanOK
<1>2. PICK f : /\ Active(w) => f \in wallet[w].filters \cup {"ERC20"}
               /\ \A r \in store :
                    r.wallet = w /\ r.transfer \in Erc20 => r.label \in {"ERC20", f}
               /\ \A p \in Poller :
                    job[p].w = w /\ job[p].pc \in {"scan", "insert"} =>
                      job[p].label \in {"ERC20", f}
  <2>1. CASE Active(w)
    BY <2>1 DEF WInv, OneLabel
  <2>2. CASE ~Active(w)
    BY <1>0, <1>1, <2>2
  <2> QED BY <2>1, <2>2
<1>3. PICK g : /\ g \in wallet'[w].filters \cup {"ERC20"}
               /\ \A r \in store :
                    r.wallet = w /\ r.transfer \in Erc20 => r.label \in {"ERC20", g}
               /\ \A p \in Poller :
                    job[p].w = w /\ job[p].pc \in {"scan", "insert"} =>
                      job[p].label \in {"ERC20", g}
               /\ wallet' = wallet => RowLabel(w) \in {"ERC20", g}
  <2>1. CASE ~Active(w)
    <3>1. wallet' # wallet
      BY <2>1 DEF Active
    <3> QED BY <1>0, <1>1, <2>1, <3>1
  <2>2. CASE Active(w) /\ ~(\E t \in Token : wallet[w].filters = {t})
    <3>1. RowLabel(w) = "ERC20"
      BY <2>2 DEF RowLabel
    <3>2. f \in wallet'[w].filters \cup {"ERC20"}
      BY <1>2, <2>2, WalletsKept
    <3> QED BY <1>2, <3>1, <3>2
  <2>3. CASE Active(w) /\ (\E t \in Token : wallet[w].filters = {t}) /\ wallet' # wallet
    <3>1. f \in wallet'[w].filters \cup {"ERC20"}
      BY <1>2, <2>3, WalletsKept
    <3> QED BY <1>2, <2>3, <3>1
  <2>4. CASE Active(w) /\ (\E t \in Token : wallet[w].filters = {t}) /\ wallet' = wallet
    <3>1. wallet[w].filters = {RowLabel(w)}
      BY <2>4 DEF RowLabel
    <3>2. f = "ERC20" \/ f = RowLabel(w)
      BY <1>2, <2>4, <3>1
    <3> QED BY <1>2, <2>4, <3>1, <3>2
  <2> QED BY <2>1, <2>2, <2>3, <2>4
<1>4. ASSUME NEW r \in store', r.wallet = w, r.transfer \in Erc20
      PROVE  r.label \in {"ERC20", g}
  <2>1. CASE r \in store
    BY <1>3, <1>4, <2>1
  <2>2. CASE r \notin store
    <3>1. PICK p \in Poller : job[p].pc = "insert" /\ r \in job[p].batch
      BY <2>2, StoreAdds
    <3>2. r.wallet = job[p].w /\ r.label = job[p].label
      BY <1>0, <1>4, <3>1 DEF ScanOK, JobOK
    <3> QED BY <1>3, <1>4, <3>1, <3>2
  <2> QED BY <2>1, <2>2
<1>5. ASSUME NEW p \in Poller, job'[p].w = w, job'[p].pc \in {"scan", "insert"}
      PROVE  job'[p].label \in {"ERC20", g}
  <2>1. job'[p] = job[p] \/ LabelFrom(p, job'[p])
    BY <1>0, ScansStep
  <2> QED BY <1>3, <1>5, <2>1 DEF LabelFrom
<1> QED BY <1>3, <1>4, <1>5 DEF OneLabel

LEMMA InitWInv == Init => WInv
<1> SUFFICES ASSUME Init PROVE WInv
  OBVIOUS
<1>1. \A p \in Poller : ScanOK(job[p])
  BY DEF Init, ScanOK, NoJob
<1> QED BY <1>1 DEF Init, WInv, Active

THEOREM WindowInvariance == Spec => []WInv
<1>1. IInv /\ IInv' /\ [Next]_vars /\ WInv => WInv'
  <2> SUFFICES ASSUME IInv, IInv', [Next]_vars, WInv PROVE WInv'
    OBVIOUS
  <2>1. (\A p \in Poller : ScanOK(job[p]))'
    BY ScansStep DEF WInv
  <2> QED BY <2>1, LabelsStep DEF WInv
<1> QED BY <1>1, InitWInv, Invariance, PTL DEF Spec

(* When PollOnce comes to mark a wallet, its window is in the table or in  *)
(* the batch whose insert failed: however polls of two goroutines, changes *)
(* of filters, deletions and failures interleave.                          *)
THEOREM WindowsAreStored == Spec => []WindowStored
<1>1. IInv /\ WInv => WindowStored
  <2> SUFFICES ASSUME IInv, WInv, NEW p \in Poller, job[p].pc = "mark",
                      Active(job[p].w), ~Bootstrap(job[p]),
                      \A h \in StartBlock .. Min2(job[p].start - 1, job[p].safe) :
                        chain[h].ts < job[p].since,
                      NEW h \in StartBlock .. job[p].safe,
                      NEW t \in Concerning(job[p].w, h), chain[h].ts >= job[p].since
               PROVE  \E r \in store \cup job[p].batch : Covers(job[p], r, t, h)
    BY DEF WindowStored, Covers
  <2>1. PICK j : j = job[p]
    OBVIOUS
  <2>2. j \in Job /\ ScanOK(j) /\ TypeOK
    BY <2>1 DEF IInv, TypeOK, WInv
  <2>3. Scanned(j, j.safe, store \cup j.batch) /\ j.safe \in Nat /\ j.start \in Nat
        /\ StartBlock \in Nat /\ j.since \in Int /\ j.safe <= FinalHeight
    BY <2>1, <2>2, NumbersAssumption DEF ScanOK, Job
  <2>4. chain[h].ts \in Int
    <3>1. h \in 1 .. Len(chain)
      BY <2>1, <2>2, <2>3, FinalHeightType, NumbersAssumption
    <3>2. chain[h] \in Block
      BY <2>2, <3>1 DEF TypeOK
    <3> QED BY <3>2 DEF Block, Time
  <2>5. ~(h \in StartBlock .. Min2(j.start - 1, j.safe))
    BY <2>1, <2>3, <2>4
  <2>6. h \in j.start .. j.safe
    BY <2>1, <2>3, <2>5 DEF Min2
  <2> QED BY <2>1, <2>3, <2>6 DEF Scanned
<1> QED BY <1>1, Invariance, WindowInvariance, PTL

(* A wallet's ERC20 rows carry "ERC20" or one and the same filter of its.  *)
THEOREM TwoLabelsAtMost == Spec => []LabelsOfAWallet
<1>1. IInv /\ WInv => LabelsOfAWallet
  <2> SUFFICES ASSUME IInv, WInv, NEW r \in store, NEW s \in store,
                      r.transfer \in Erc20, s.transfer \in Erc20, r.wallet = s.wallet,
                      r.label # "ERC20", s.label # "ERC20"
               PROVE  r.label = s.label /\ r.label \in wallet[r.wallet].filters
    BY DEF LabelsOfAWallet
  <2>1. r.wallet \in Wallet /\ Active(r.wallet)
    BY DEF IInv, TypeOK, StoreOK, Row
  <2>2. OneLabel(r.wallet)
    BY <2>1 DEF WInv
  <2> QED BY <2>2 DEF OneLabel
<1> QED BY <1>1, Invariance, WindowInvariance, PTL

-----------------------------------------------------------------------------
(* Refinement: each step settles, tracks, records or untracks, or changes  *)
(* nothing the ledger shows.                                               *)
Tracked   == {w \in Wallet : Active(w)}
Entries   == {<<r.wallet, r.transfer>> : r \in store}

LEMMA InitLedger == Init => Ledger!LedgerInit
<1> SUFFICES ASSUME Init PROVE Ledger!LedgerInit
  OBVIOUS
<1>1. FinalHeight = 0
  BY NumbersAssumption DEF Init, FinalHeight, Height
<1>2. Final = {}
  BY <1>1 DEF Final
<1> QED BY <1>2 DEF Init, Ledger!LedgerInit, Active

LEMMA FinalGrows ==
  ASSUME IInv, [Next]_vars
  PROVE  Final \subseteq Final' /\ Final' \in SUBSET Transfer
<1>1. TypeOK /\ ChainOK
  BY DEF IInv
<1>2. \A h \in 1 .. FinalHeight : h \in 1 .. FinalHeight' /\ chain'[h] = chain[h]
  BY <1>1, FinalPrefixStable
<1>3. \A h \in 1 .. FinalHeight' : chain'[h] \in Block
  BY <1>1, FinalPrefixStable
<1> QED BY <1>2, <1>3 DEF Final, Block

LEMMA StepLedger == IInv /\ [Next]_vars => [Ledger!LedgerNext]_(Ledger!vars)
<1> SUFFICES ASSUME IInv, [Next]_vars
             PROVE  Ledger!LedgerNext \/ UNCHANGED <<Tracked, Final, Entries>>
  BY DEF Ledger!vars, Tracked, Entries
<1> USE DEF Tracked, Entries
<1>1. Final \subseteq Final' /\ Final' \in SUBSET Transfer
  BY FinalGrows
<1>2. CASE UNCHANGED <<wallet, store>>
  <2>1. UNCHANGED <<Tracked, Entries>>
    BY <1>2 DEF Active
  <2> QED BY <1>1, <2>1 DEF Ledger!LedgerNext, Ledger!Settle
<1>3. ASSUME NEW w \in Wallet, NEW tokens \in SUBSET Token, AddWallet(w, tokens)
      PROVE  Ledger!LedgerNext \/ UNCHANGED <<Tracked, Final, Entries>>
  <2>1. UNCHANGED Final /\ UNCHANGED Entries
    BY <1>3 DEF AddWallet, Final, FinalHeight, Height
  <2>2. wallet \in [Wallet -> WalletRow]
    BY DEF IInv, TypeOK
  <2>3. Tracked' = Tracked \cup {w}
    BY <1>3, <2>2 DEF AddWallet, Active, WalletRow
  <2> QED BY <2>1, <2>3 DEF Ledger!LedgerNext, Ledger!Track
<1>4. ASSUME NEW W \in SUBSET Wallet, DeleteWallets(W)
      PROVE  Ledger!LedgerNext
  <2>1. UNCHANGED Final
    BY <1>4 DEF DeleteWallets, Final, FinalHeight, Height
  <2>2. wallet \in [Wallet -> WalletRow]
    BY DEF IInv, TypeOK
  <2>3. \A w \in Wallet : Active(w)' <=> (Active(w) /\ w \notin W)
    BY <1>4, <2>2 DEF DeleteWallets, Active, WalletRow
  <2>4. Tracked' = Tracked \ W
    BY <2>3
  <2>5. store' = {r \in store : r.wallet \notin W}
    BY <1>4 DEF DeleteWallets
  <2>6. Entries' = {e \in Entries : e[1] \notin W}
    BY <2>5
  <2> QED BY <2>1, <2>4, <2>6 DEF Ledger!LedgerNext, Ledger!Untrack
<1>5. ASSUME NEW p \in Poller, Insert(p)
      PROVE  Ledger!LedgerNext \/ UNCHANGED <<Tracked, Final, Entries>>
  <2>1. UNCHANGED Final /\ UNCHANGED Tracked
    BY <1>5 DEF Insert, Final, FinalHeight, Height, Active
  <2>2. PICK r \in job[p].batch : store' = store \/ store' = store \cup {r}
    BY <1>5 DEF Insert
  <2>3. r \in Row /\ RowFinal(r) /\ Active(r.wallet)
    BY <1>5 DEF Insert, IInv, TypeOK, Job, JobOK
  <2>4. r.wallet \in Tracked /\ r.transfer \in Final /\ r.transfer \in Transfer
        /\ r.wallet \in Touches[r.transfer] /\ r.wallet \in Wallet
    BY <2>3 DEF Row, RowFinal, Final
  <2>5. CASE store' = store
    BY <2>1, <2>5
  <2>6. CASE store' = store \cup {r}
    <3>1. Entries' = Entries \cup {<<r.wallet, r.transfer>>}
      BY <2>6
    <3> QED BY <2>1, <2>4, <3>1 DEF Ledger!LedgerNext, Ledger!Record
  <2> QED BY <2>2, <2>5, <2>6
<1>6. ASSUME NEW p \in Poller, Mark(p)
      PROVE  UNCHANGED <<Tracked, Final, Entries>>
  <2>1. wallet \in [Wallet -> WalletRow]
    BY DEF IInv, TypeOK
  <2>2. \A w \in Wallet : Active(w)' <=> Active(w)
    BY <1>6, <2>1 DEF Mark, Active, WalletRow
  <2> QED BY <1>6, <2>2 DEF Mark, Final, FinalHeight, Height
<1> QED
  BY <1>2, <1>3, <1>4, <1>5, <1>6
     DEF Next, vars, Handlers, PollerStep, PollerFault, Tick, Mine, Reorg, StartPoll,
         FetchHead, ScanChunk, LatestTen, InsertRejected, InsertDone, EndPoll,
         ProviderError, Resolve, Skip, ListFails, InsertFails, MarkFails,
         AbandonBatch, Crash, Restart

(* The poll pipeline implements TransferLedger.                            *)
THEOREM PollingImplementsLedger == Spec => ImplementsLedger
<1>1. Init => Ledger!LedgerInit
  BY InitLedger
<1>2. IInv /\ [Next]_vars => [Ledger!LedgerNext]_(Ledger!vars)
  BY StepLedger
<1> QED BY <1>1, <1>2, Invariance, PTL DEF Spec, ImplementsLedger, Ledger!LedgerSpec

-----------------------------------------------------------------------------
(* The first block of a scan.                                              *)

(* Numbers that are bounded have a largest one.                            *)
LEMMA LargestOf ==
  ASSUME NEW S, S \subseteq Nat, S # {}, NEW b \in Nat, \A n \in S : n <= b
  PROVE  \E n \in S : \A m \in S : m <= n
<1> DEFINE D == {d \in Nat : d <= b /\ b - d \in S}
<1>1. PICK k \in S : TRUE
  OBVIOUS
<1>2. b - k \in D
  <2>1. k \in Nat /\ k <= b
    BY <1>1
  <2>2. b - k \in Nat /\ b - k <= b /\ b - (b - k) = k
    BY <2>1
  <2> QED BY <1>1, <2>2
<1>3. PICK d \in D : \A e \in D : d <= e
  <2>1. D \subseteq Nat /\ D # {}
    BY <1>2
  <2> HIDE DEF D
  <2> QED BY <2>1, LeastOf
<1>4. ASSUME NEW m \in S PROVE m <= b - d
  <2>1. m \in Nat /\ m <= b
    BY <1>4
  <2>2. b - m \in Nat /\ b - m <= b /\ b - (b - m) = m
    BY <2>1
  <2>3. b - m \in D
    BY <1>4, <2>2
  <2>4. d <= b - m /\ d \in Nat
    BY <1>3, <2>3
  <2> QED BY <2>1, <2>4
<1>5. b - d \in S
  BY <1>3
<1> QED BY <1>4, <1>5

(* In every state and for every time the search has one result and no      *)
(* other: Resolve is never held up for want of a block, and chooses none.  *)
THEOREM StartIsUnique ==
  Spec => [](\A since \in Int :
               \E s \in StartBlock .. Max2(StartBlock, Height) :
                 \A t \in Nat : IsStart(t, since) <=> t = s)
<1>1. ASSUME TypeOK, NEW since \in Int
      PROVE  \E s \in StartBlock .. Max2(StartBlock, Height) :
               \A t \in Nat : IsStart(t, since) <=> t = s
  <2>1. /\ StartBlock \in Nat \ {0} /\ Height \in Nat
        /\ \A h \in 1 .. Height : chain[h].ts \in Int
    <3>1. Height \in Nat /\ \A h \in 1 .. Height : chain[h] \in Block
      BY <1>1 DEF TypeOK, Height
    <3> QED BY <3>1, NumbersAssumption DEF Block, Time
  <2> DEFINE S == {h \in StartBlock .. Height : chain[h].ts <= since}
  <2>2. ASSUME NEW s \in Nat, NEW t \in Nat, s < t,
               IsStart(s, since), IsStart(t, since)
        PROVE  FALSE
    <3>1. t > StartBlock /\ t <= Height /\ chain[t].ts <= since
      BY <2>1, <2>2 DEF IsStart
    <3>2. chain[t].ts > since /\ chain[t].ts \in Int
      BY <2>1, <2>2, <3>1 DEF IsStart
    <3> QED BY <3>1, <3>2
  <2>3. \A s, t \in Nat : IsStart(s, since) /\ IsStart(t, since) => s = t
    <3> SUFFICES ASSUME NEW s \in Nat, NEW t \in Nat,
                        IsStart(s, since), IsStart(t, since), s # t
                 PROVE  FALSE
      OBVIOUS
    <3> QED BY <2>2
  <2>4. \E s \in StartBlock .. Max2(StartBlock, Height) : IsStart(s, since)
    <3>1. CASE S = {}
      <4>1. IsStart(StartBlock, since)
        <5> SUFFICES ASSUME NEW h \in StartBlock + 1 .. Height
                     PROVE  chain[h].ts > since
          BY <2>1 DEF IsStart
        <5>1. h \in StartBlock .. Height /\ chain[h].ts \in Int
          BY <2>1
        <5>2. ~ (chain[h].ts <= since)
          BY <3>1, <5>1
        <5> QED BY <5>1, <5>2
      <4>2. StartBlock \in StartBlock .. Max2(StartBlock, Height)
        BY <2>1 DEF Max2
      <4> QED BY <4>1, <4>2
    <3>2. CASE S # {}
      <4>1. PICK s \in S : \A m \in S : m <= s
        <5>1. S \subseteq Nat /\ \A n \in S : n <= Height
          BY <2>1
        <5> HIDE DEF S
        <5> QED BY <2>1, <3>2, <5>1, LargestOf
      <4>2. s \in StartBlock .. Height /\ chain[s].ts <= since
        BY <4>1
      <4>3. ASSUME NEW h \in s + 1 .. Height
            PROVE  chain[h].ts > since
        <5>1. h \in StartBlock .. Height /\ chain[h].ts \in Int /\ ~ (h <= s)
          BY <2>1, <4>2
        <5>2. h \notin S
          BY <4>1, <5>1
        <5> QED BY <5>1, <5>2
      <4>4. IsStart(s, since)
        BY <2>1, <4>2, <4>3 DEF IsStart
      <4> QED BY <2>1, <4>2, <4>4 DEF Max2
    <3> QED BY <3>1, <3>2
  <2>5. \A s \in StartBlock .. Max2(StartBlock, Height) : s \in Nat
    BY <2>1 DEF Max2
  <2> QED BY <2>3, <2>4, <2>5
<1>2. TypeOK => \A since \in Int :
                  \E s \in StartBlock .. Max2(StartBlock, Height) :
                    \A t \in Nat : IsStart(t, since) <=> t = s
  BY <1>1
<1> QED BY <1>2, TypeCorrect, PTL
=============================================================================
