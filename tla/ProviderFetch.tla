---------------------------- MODULE ProviderFetch ----------------------------
(***************************************************************************)
(* FetchWalletTransactions of the Polygon provider, one call of the node   *)
(* or of the database at a time: the search of BlockSearch, the second     *)
(* look at the head, then the scan, in chunks from the block found or, for *)
(* a wallet never polled, in chunks back from the newest safe block.  Each *)
(* chunk reads its blocks, then the logs to and from the wallet, which the *)
(* provider asks for in halves when the node refuses the range, and then   *)
(* the header of the block of every log.                                   *)
(* What is read is abstracted to the numbers of the blocks it comes from.  *)
(***************************************************************************)
EXTENDS BlockSearch, Sequences, FiniteSets

CONSTANTS
  Confirmations,  \* POLYGON_CONFIRMATIONS
  ChunkSize,      \* POLYGON_SCAN_CHUNK_SIZE
  Target,         \* rows a bootstrap wants (10)
  MaxRanges,      \* chunks a bootstrap scans at most (8)
  MaxNulls,       \* bound: blocks the node answers null for
  MaxLogs         \* bound: Transfer logs of a chunk

ASSUME FetchAssumption ==
  /\ Confirmations \in Nat \ {0} /\ ChunkSize \in Nat \ {0}
  /\ Target \in Nat \ {0} /\ MaxRanges \in Nat \ {0}
  /\ MaxNulls \in Nat /\ MaxLogs \in Nat

Call == {"block", "in", "out"}   \* getRawBlock, getTransferLogs both ways

VARIABLES
  boot,      \* wallet.LastPolledAt is NULL
  stage,     \* where FetchWalletTransactions is, after the search
  safe,      \* safeTo, -1 when no block has its confirmations yet
  from, to,  \* the chunk at hand
  bn,        \* the block of it to read next
  queue,     \* ranges filterLogsChunked has still to ask for, the next first
  read,      \* read[c]: the blocks c has read, in that order
  null,      \* blocks the node answered null for
  logs,      \* Transfer logs of the chunk, their headers not yet asked for
  taken,     \* len(out) of a bootstrap
  ranges,    \* rangesScanned
  indexed    \* polygon_indexer_state.last_indexed_block, 0 before the fetch

fetchVars ==
  <<boot, stage, safe, from, to, bn, queue, read, null, logs, taken, ranges, indexed>>

Lesser(a, b)  == IF a < b THEN a ELSE b
Greater(a, b) == IF a > b THEN a ELSE b
Span(lo, hi) == [lo |-> lo, hi |-> hi]
Blocks(r)     == [i \in 1 .. r.hi - r.lo + 1 |-> r.lo + i - 1]

-----------------------------------------------------------------------------
OpenChunk(lo, hi) == from' = lo /\ bn' = lo /\ to' = hi /\ stage' = "block"

End(how) == stage' = how /\ UNCHANGED <<from, to, bn>>

(* The next chunk of the scan, if blocks are left.                         *)
Scan(current, end) ==
  IF current <= end
  THEN OpenChunk(current, Lesser(current + ChunkSize - 1, end)) /\ UNCHANGED ranges
  ELSE End("returned") /\ UNCHANGED ranges

(* fetchLatestTen: the next chunk back.                                    *)
ScanBack(currentTo, n) ==
  IF currentTo >= StartBlock /\ n < Target /\ ranges < MaxRanges
  THEN /\ OpenChunk(Greater(currentTo - ChunkSize + 1, StartBlock), currentTo)
       /\ ranges' = ranges + 1
  ELSE End("returned") /\ UNCHANGED ranges

(* The head again, perhaps of a node ahead of the first or behind it.      *)
FetchHead ==
  /\ pc = "done" /\ stage = "search"
  /\ \E head \in 0 .. MaxLatest :
       /\ safe' = IF head <= Confirmations THEN -1 ELSE head - Confirmations
       /\ IF best > safe'
          THEN End("returned") /\ UNCHANGED ranges
          ELSE IF boot THEN ScanBack(safe', 0) ELSE Scan(best, safe')
  /\ UNCHANGED <<vars, boot, queue, read, null, logs, taken, indexed>>

(* getRawBlock.  A null answer decodes to a block of 1970 without          *)
(* transactions, which is no error.                                        *)
GetBlock ==
  /\ stage = "block"
  /\ \/ read' = [read EXCEPT !["block"] = Append(@, bn)] /\ UNCHANGED null
     \/ Cardinality(null) < MaxNulls /\ null' = null \cup {bn} /\ UNCHANGED read
  /\ bn' = bn + 1
  /\ IF bn < to THEN UNCHANGED <<stage, queue>>
                ELSE stage' = "in" /\ queue' = <<Span(from, to)>>
  /\ UNCHANGED <<vars, boot, safe, from, to, logs, taken, ranges, indexed>>

(* FilterLogs answers, with some logs or none.                             *)
FilterLogs ==
  /\ stage \in {"in", "out"}
  /\ logs' \in logs .. MaxLogs
  /\ read' = [read EXCEPT ![stage] = @ \o Blocks(Head(queue))]
  /\ IF Len(queue) > 1
     THEN queue' = Tail(queue) /\ UNCHANGED stage
     ELSE IF stage = "in"
          THEN stage' = "out" /\ queue' = <<Span(from, to)>>
          ELSE stage' = "chunk" /\ queue' = <<>>
  /\ UNCHANGED <<vars, boot, safe, from, to, bn, null, taken, ranges, indexed>>

(* Mutant of Halves: the middle block is in neither.                       *)
HalvesDropMiddle(r) ==
  LET mid == (r.lo + r.hi) \div 2 IN <<Span(r.lo, mid - 1), Span(mid + 1, r.hi)>>

(* Mutant of Halves: the middle block is in both.                          *)
HalvesShareMiddle(r) ==
  LET mid == (r.lo + r.hi) \div 2 IN <<Span(r.lo, mid), Span(mid, r.hi)>>

Halves(r) ==
  LET mid == (r.lo + r.hi) \div 2 IN <<Span(r.lo, mid), Span(mid + 1, r.hi)>>

(* filterLogsChunked: "block range is too large" or "response size         *)
(* exceeded", and the range can be split.                                  *)
TooLarge ==
  /\ stage \in {"in", "out"} /\ Head(queue).lo < Head(queue).hi
  /\ queue' = Halves(Head(queue)) \o Tail(queue)
  /\ UNCHANGED <<vars, boot, stage, safe, from, to, bn, read, null, logs, taken, ranges, indexed>>

(* normalizeLogs: HeaderByNumber of a log's block.  When it fails the row  *)
(* carries the time of the clock, and the fetch goes on.                   *)
LogHeader ==
  /\ stage = "chunk" /\ logs > 0
  /\ logs' = logs - 1
  /\ UNCHANGED <<vars, boot, stage, safe, from, to, bn, queue, read, null, taken, ranges,
                 indexed>>

(* Mutant of SaveChunk: the end of the scan, not of the chunk.             *)
SaveChunkSafe ==
  /\ stage = "chunk" /\ logs = 0 /\ ~boot
  /\ indexed' = safe
  /\ UNCHANGED <<vars, boot, safe, queue, read, null, logs, taken>>
  /\ Scan(to + 1, safe)

(* UpsertPolygonIndexerState, and the next chunk.                          *)
SaveChunk ==
  /\ stage = "chunk" /\ logs = 0 /\ ~boot
  /\ indexed' = to
  /\ UNCHANGED <<vars, boot, safe, queue, read, null, logs, taken>>
  /\ Scan(to + 1, safe)

(* Mutant of TakeRows: the next chunk ends with the first block of this.   *)
TakeRowsOverlaps ==
  /\ stage = "chunk" /\ logs = 0 /\ boot
  /\ taken' \in taken .. Target
  /\ UNCHANGED <<vars, boot, safe, queue, read, null, logs, indexed>>
  /\ ScanBack(from, taken')

(* fetchLatestTen takes rows from the chunk, as many as it has and needs.  *)
TakeRows ==
  /\ stage = "chunk" /\ logs = 0 /\ boot
  /\ taken' \in taken .. Target
  /\ UNCHANGED <<vars, boot, safe, queue, read, null, logs, indexed>>
  /\ ScanBack(from - 1, taken')

(* A call fails, but for the headers of logs, the 45 s of the wallet are   *)
(* over, or a single block is too large: what was read is dropped.         *)
FetchFails ==
  /\ pc = "done" /\ stage \notin {"returned", "failed"}
  /\ stage = "chunk" => logs = 0 /\ ~boot
  /\ stage' = "failed"
  /\ UNCHANGED <<vars, boot, safe, from, to, bn, queue, read, null, logs, taken, ranges, indexed>>

FetchInit ==
  /\ Init
  /\ boot \in BOOLEAN
  /\ stage = "search" /\ safe = 0 /\ from = 0 /\ to = 0 /\ bn = 0
  /\ queue = <<>> /\ read = [c \in Call |-> <<>>] /\ null = {}
  /\ logs = 0 /\ taken = 0 /\ ranges = 0 /\ indexed = 0

(* A call that is answered, and one that fails.                            *)
FetchStep ==
  \/ (Probe \/ Finish) /\ UNCHANGED fetchVars
  \/ FetchHead \/ GetBlock \/ FilterLogs \/ TooLarge \/ LogHeader
  \/ SaveChunk \/ TakeRows
FetchFault ==
  (HeaderFails /\ UNCHANGED fetchVars) \/ FetchFails

FetchNext == FetchStep \/ FetchFault

FetchSpec == FetchInit /\ [][FetchNext]_<<vars, fetchVars>>

-----------------------------------------------------------------------------
Returned == stage = "returned"
Ended    == pc = "failed" \/ stage \in {"returned", "failed"}

(* The blocks a call has read; those of lo .. hi it can read: a null answer *)
(* hides the native transfers of a block, not its logs.                    *)
BlocksOf(s)         == {s[i] : i \in DOMAIN s}
Readable(c, lo, hi) == (lo .. hi) \ IF c = "block" THEN null ELSE {}

InOrder(s)  == \A i, j \in DOMAIN s : i < j => s[i] < s[j]
OnceEach(s) == \A i, j \in DOMAIN s : i # j => s[i] # s[j]

(* A fetch that returns has read every safe block of the window, each once *)
(* and in order, for native transfers and for the logs of both directions, *)
(* whichever ranges the node made it split; except blocks the node         *)
(* answered null for, which the code takes for empty.                      *)
WindowRead ==
  Returned /\ ~boot =>
    /\ \A h \in StartBlock .. Lesser(best - 1, safe) : time[h] < target
    /\ \A c \in Call :
         InOrder(read[c]) /\ BlocksOf(read[c]) = Readable(c, best, safe)

(* The indexer state names a block only when everything from the start of  *)
(* the scan to it has been read in order, also when a later call fails.    *)
IndexedIsRead ==
  indexed > 0 => \A c \in Call :
    /\ InOrder(read[c])
    /\ {h \in BlocksOf(read[c]) : h <= indexed} = Readable(c, best, indexed)

(* A bootstrap that returns has read the newest safe blocks, without a     *)
(* hole and none twice, and stopped for one of its three reasons only.     *)
BootstrapContiguous ==
  Returned /\ boot /\ ranges > 0 =>
    /\ \A c \in Call :
         OnceEach(read[c]) /\ BlocksOf(read[c]) = Readable(c, from, safe)
    /\ from = StartBlock \/ taken = Target
       \/ safe - from + 1 = MaxRanges * ChunkSize

-----------------------------------------------------------------------------
(* Blocks of the scan beyond the chunk at hand.                            *)
BlocksLeft ==
  IF boot THEN Lesser(from - StartBlock, (MaxRanges - ranges) * ChunkSize) ELSE safe - to

(* Logs of n blocks asked for in q ranges take 2n - q calls at most, those *)
(* the node refuses included.                                              *)
LogCalls == 2 * (to - Head(queue).lo + 1) - Len(queue)

(* The calls a scan still makes, at most, but for the headers of logs.     *)
ScanLeft ==
  CASE stage = "block" -> 5 * BlocksLeft + 4 * (to - from + 1) + to - bn
    [] stage = "in"    -> 5 * BlocksLeft + 2 * (to - from + 1) + LogCalls
    [] stage = "out"   -> 5 * BlocksLeft + LogCalls + 1
    [] stage = "chunk" -> 5 * BlocksLeft + 1
    [] OTHER           -> 0

CallsLeft == ScanLeft + logs

(* The logs a call has returned: each will have its header asked for.      *)
LogsReturned == Greater(logs' - logs, 0)

Window ==
  IF boot THEN Lesser(safe - StartBlock + 1, MaxRanges * ChunkSize) ELSE safe - best + 1

(* What a call does to the number of those left: a header of the search    *)
(* halves what is left to search; the head opens a scan of fewer than five *)
(* calls a block; each call of the scan leaves one fewer, but for the logs *)
(* it returns.                                                             *)
CallsLeftBy ==
  /\ Probe => pc' = "done" \/ 2 * (high' - low' + 1) <= high - low + 1
  /\ FetchHead => Returned' \/ CallsLeft' < 5 * Window'
  /\ FetchStep /\ stage \notin {"search", "returned", "failed"} =>
       0 <= CallsLeft' /\ CallsLeft' < CallsLeft + LogsReturned

(* A fetch makes a bounded number of calls, however the node refuses       *)
(* ranges: of getRawBlock, FilterLogs and the indexer state fewer than     *)
(* five a block of its window, that of a bootstrap being MaxRanges chunks  *)
(* at most, and of HeaderByNumber one for each Transfer log it is given,   *)
(* which no number of blocks bounds.                                       *)
CallsRunOut == [][CallsLeftBy]_<<vars, fetchVars>>
=============================================================================
