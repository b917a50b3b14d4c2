---------------------------- MODULE StartChoice ----------------------------
(***************************************************************************)
(* What findBlockByTimestamp promises, however it searches: in one step it *)
(* either fails or names the block a scan must start at, and it does not   *)
(* change its mind.                                                        *)
(***************************************************************************)
EXTENDS Integers

CONSTANT StartBlock   \* POLYGON_START_BLOCK

VARIABLES
  time,     \* time[h]: the time of block h
  latest,   \* the head when the search begins
  target,   \* targetTS
  start,    \* the block named
  pc

choiceVars == <<time, latest, target, start, pc>>

(* The block the scan must start at: the last one not after the target, or *)
(* StartBlock when all of them are after it or there is none.              *)
IsStart(s) ==
  /\ s >= StartBlock
  /\ s > StartBlock => s <= latest /\ time[s] <= target
  /\ \A h \in s+1 .. latest : time[h] > target

ChoiceInit == start = StartBlock /\ pc = "search"

Choose ==
  /\ pc = "search"
  /\ IsStart(start') /\ pc' = "done"
  /\ UNCHANGED <<time, latest, target>>

Fail ==
  /\ pc = "search"
  /\ pc' = "failed"
  /\ UNCHANGED <<time, latest, target, start>>

ChoiceSpec == ChoiceInit /\ [][Choose \/ Fail]_choiceVars
=============================================================================
