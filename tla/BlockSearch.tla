---------------------------- MODULE BlockSearch ----------------------------
(***************************************************************************)
(* findBlockByTimestamp of the Polygon provider: the binary search, one    *)
(* HeaderByNumber call at a time, that finds where the scan of a wallet    *)
(* starts.  WalletPolling takes its result in one step (IsStart there).    *)
(***************************************************************************)
EXTENDS Integers

CONSTANTS
  StartBlock,    \* POLYGON_START_BLOCK
  MaxLatest,     \* bound: the highest block
  MaxTime,       \* bound: block times and targets
  Chains         \* the chains to look at: the time of each block

(* Block times increase strictly.                                          *)
Increasing(f) ==
  \A g, h \in 0 .. MaxLatest : g < h => f[g] < f[h]

ASSUME SearchAssumption ==
  /\ StartBlock \in Nat /\ MaxLatest \in Nat /\ MaxTime \in Nat
  /\ Chains \subseteq [0 .. MaxLatest -> 0 .. MaxTime]
  /\ \A f \in Chains : Increasing(f)

VARIABLES
  time,      \* time[h]: the time of block h
  latest,    \* the head when the search begins
  target,    \* targetTS
  low, high, best,
  pc

vars == <<time, latest, target, low, high, best, pc>>

Init ==
  /\ time \in Chains
  /\ latest \in 0 .. MaxLatest
  /\ target \in 0 .. MaxTime
  /\ low = StartBlock /\ high = latest /\ best = StartBlock
  /\ pc = "search"

(* Mutant of Probe: best follows mid on both sides.                        *)
ProbeBestEitherSide ==
  LET mid == (low + high) \div 2 IN
  /\ pc = "search" /\ low <= high
  /\ best' = mid
  /\ \/ time[mid] < target /\ low' = mid + 1 /\ UNCHANGED <<high, pc>>
     \/ time[mid] > target /\ high' = mid - 1 /\ UNCHANGED <<low, pc>>
     \/ time[mid] = target /\ pc' = "done" /\ UNCHANGED <<low, high>>
  /\ UNCHANGED <<time, latest, target>>

(* Mutant of Probe: the middle stays in the range.                         *)
ProbeKeepsMiddle ==
  LET mid == (low + high) \div 2 IN
  /\ pc = "search" /\ low <= high
  /\ \/ time[mid] < target /\ best' = mid /\ low' = mid /\ UNCHANGED <<high, pc>>
     \/ time[mid] > target /\ high' = mid - 1 /\ UNCHANGED <<low, best, pc>>
     \/ time[mid] = target /\ best' = mid /\ pc' = "done" /\ UNCHANGED <<low, high>>
  /\ UNCHANGED <<time, latest, target>>

Probe ==
  LET mid == (low + high) \div 2 IN
  /\ pc = "search" /\ low <= high
  /\ \/ /\ time[mid] < target
        /\ best' = mid /\ low' = mid + 1
        /\ UNCHANGED <<high, pc>>
     \/ /\ time[mid] > target
        /\ high' = mid - 1
        /\ UNCHANGED <<low, best, pc>>
     \/ /\ time[mid] = target
        /\ best' = mid /\ pc' = "done"
        /\ UNCHANGED <<low, high>>
  /\ UNCHANGED <<time, latest, target>>

(* HeaderByNumber fails: the whole fetch fails with it.                    *)
HeaderFails ==
  /\ pc = "search" /\ low <= high
  /\ pc' = "failed"
  /\ UNCHANGED <<time, latest, target, low, high, best>>

(* Mutant of Finish: the first block after the target.                     *)
FinishAtLow ==
  /\ pc = "search" /\ low > high
  /\ pc' = "done" /\ best' = low
  /\ UNCHANGED <<time, latest, target, low, high>>

Finish ==
  /\ pc = "search" /\ low > high
  /\ pc' = "done"
  /\ UNCHANGED <<time, latest, target, low, high, best>>

Next == Probe \/ HeaderFails \/ Finish

Spec == Init /\ [][Next]_vars

-----------------------------------------------------------------------------
(* The search as one step: its result counts when it is done.              *)
Choice ==
  INSTANCE StartChoice WITH start <- IF pc = "done" THEN best ELSE StartBlock

IsStart(start) == Choice!IsStart(start)

(* The search ends on the right block for every chain and every target, at *)
(* both ends of the range and on an exact hit: one block too late, and the *)
(* scan skips transfers; one too early only costs time.                    *)
SearchRight == pc = "done" => IsStart(best)

(* However many headers the search reads, from outside it is one step: it  *)
(* fails, or names the block and stays with it.  This is what Resolve of   *)
(* WalletPolling takes it for.                                             *)
ImplementsChoice == Choice!ChoiceSpec
=============================================================================
