------------------------- MODULE ProviderFetchProofs -------------------------
(***************************************************************************)
(* The binary search of findBlockByTimestamp is right on chains of any     *)
(* length, for any block times that increase and any target; a Polygon     *)
(* fetch reads all of its window, for chains, chunks, bootstraps and       *)
(* refusals of the node of any size: the invariant says, at each call,     *)
(* which blocks each of the three calls has read so far.                   *)
(***************************************************************************)
EXTENDS ProviderFetch, Sums

TypeOK ==
  /\ time \in [0 .. MaxLatest -> 0 .. MaxTime] /\ Increasing(time)
  /\ latest \in 0 .. MaxLatest /\ target \in 0 .. MaxTime
  /\ low \in Nat /\ high \in Int /\ best \in Nat
  /\ pc \in {"search", "done", "failed"}

(* The loop invariant: blocks below low are before the target, blocks      *)
(* above high after it, and best is the block just below low.              *)
Bracket ==
  /\ StartBlock <= low /\ high <= latest
  /\ best = IF low = StartBlock THEN StartBlock ELSE low - 1
  /\ low > StartBlock => low - 1 <= latest
  /\ \A h \in StartBlock .. low-1 : time[h] < target
  /\ \A h \in high+1 .. latest : h >= StartBlock => time[h] > target
  /\ high < low => high = low - 1 \/ high < StartBlock

IInv ==
  /\ TypeOK
  /\ pc = "search" => Bracket
  /\ SearchRight
-----------------------------------------------------------------------------
LEMMA InitIInv == Init => IInv
BY SearchAssumption DEF Init, IInv, TypeOK, Bracket, SearchRight

(* The middle lies in the range, below the head.                           *)
LEMMA Middle ==
  ASSUME IInv, pc = "search", low <= high
  PROVE  /\ (low + high) \div 2 \in Nat
         /\ low <= (low + high) \div 2 /\ (low + high) \div 2 <= high
         /\ (low + high) \div 2 \in 0 .. MaxLatest
<1>1. low \in Nat /\ high \in Int /\ high <= latest /\ latest \in 0 .. MaxLatest
      /\ MaxLatest \in Nat
  BY SearchAssumption DEF IInv, TypeOK, Bracket
<1> QED BY <1>1

LEMMA StepIInv == IInv /\ [Next]_vars => IInv'
<1> SUFFICES ASSUME IInv, [Next]_vars PROVE IInv'
  OBVIOUS
<1> USE SearchAssumption
<1>0. TypeOK /\ SearchRight
  BY DEF IInv
<1>1. CASE Probe
  <2> DEFINE mid == (low + high) \div 2
  <2>1. /\ pc = "search" /\ low <= high /\ Bracket
        /\ UNCHANGED <<time, latest, target>>
    BY <1>1 DEF Probe, IInv
  <2>2. /\ mid \in Nat /\ low <= mid /\ mid <= high /\ mid \in 0 .. MaxLatest
        /\ time[mid] \in Int /\ target \in Int
    BY <1>0, <2>1, Middle DEF TypeOK
  <2>3. \A g, h \in 0 .. MaxLatest : g < h => time[g] < time[h]
    BY <1>0 DEF TypeOK, Increasing
  <2>3a. \A h \in 0 .. MaxLatest : time[h] \in Int
    BY <1>0 DEF TypeOK
  <2>4. /\ low \in Nat /\ high \in Int /\ latest \in Nat /\ latest <= MaxLatest
        /\ MaxLatest \in Nat /\ StartBlock \in Nat /\ StartBlock <= low
        /\ high <= latest
    BY <1>0, <2>1 DEF TypeOK, Bracket
  <2>5. CASE time[mid] < target
    <3>1. best' = mid /\ low' = mid + 1 /\ UNCHANGED <<high, pc>>
      BY <1>1, <2>2, <2>5 DEF Probe
    <3> HIDE DEF mid
    <3>2. TypeOK'
      BY <1>0, <2>1, <2>2, <3>1 DEF TypeOK, Increasing
    <3>3. \A h \in StartBlock .. mid : time[h] < target
      <4> TAKE h \in StartBlock .. mid
      <4>1. h \in 0 .. MaxLatest /\ (h = mid \/ h < mid)
        BY <2>2, <2>4
      <4> QED BY <2>2, <2>3, <2>3a, <2>5, <4>1
    <3>4. Bracket'
      <4>1. StartBlock <= low' /\ high' <= latest' /\ low' > StartBlock
        BY <2>1, <2>2, <2>4, <3>1
      <4>2. best' = low' - 1 /\ low' - 1 <= latest'
        BY <2>1, <2>2, <2>4, <3>1
      <4>3. \A h \in StartBlock .. low'-1 : time'[h] < target'
        BY <2>1, <2>2, <3>1, <3>3
      <4>4. \A h \in high'+1 .. latest' : h >= StartBlock => time'[h] > target'
        BY <2>1, <3>1 DEF Bracket
      <4>5. high' < low' => high' = low' - 1
        BY <2>2, <2>4, <3>1
      <4> QED BY <4>1, <4>2, <4>3, <4>4, <4>5 DEF Bracket
    <3> QED BY <2>1, <3>1, <3>2, <3>4 DEF IInv, SearchRight
  <2>6. CASE time[mid] > target
    <3>1. high' = mid - 1 /\ UNCHANGED <<low, best, pc>>
      BY <1>1, <2>2, <2>6 DEF Probe
    <3> HIDE DEF mid
    <3>2. TypeOK'
      BY <1>0, <2>1, <2>2, <3>1 DEF TypeOK, Increasing
    <3>3. \A h \in mid .. latest : time[h] > target
      <4> TAKE h \in mid .. latest
      <4>1. h \in 0 .. MaxLatest /\ (h = mid \/ mid < h)
        BY <2>2, <2>4
      <4> QED BY <2>2, <2>3, <2>3a, <2>6, <4>1
    <3>4. Bracket'
      <4>1. StartBlock <= low' /\ high' <= latest'
        BY <2>1, <2>2, <2>4, <3>1
      <4>2. /\ best' = IF low' = StartBlock THEN StartBlock ELSE low' - 1
            /\ low' > StartBlock => low' - 1 <= latest'
        BY <2>1, <3>1 DEF Bracket
      <4>3. \A h \in StartBlock .. low'-1 : time'[h] < target'
        BY <2>1, <3>1 DEF Bracket
      <4>4. \A h \in high'+1 .. latest' : h >= StartBlock => time'[h] > target'
        BY <2>1, <2>2, <3>1, <3>3
      <4>5. high' < low' => high' = low' - 1 \/ high' < StartBlock
        BY <2>2, <2>4, <3>1
      <4> QED BY <4>1, <4>2, <4>3, <4>4, <4>5 DEF Bracket
    <3> QED BY <2>1, <3>1, <3>2, <3>4 DEF IInv, SearchRight
  <2>7. CASE time[mid] = target
    <3>1. best' = mid /\ pc' = "done" /\ UNCHANGED <<low, high>>
      BY <1>1, <2>2, <2>7 DEF Probe
    <3> HIDE DEF mid
    <3>2. TypeOK'
      BY <1>0, <2>1, <2>2, <3>1 DEF TypeOK, Increasing
    <3>3. \A h \in mid+1 .. latest : time[h] > target
      <4> TAKE h \in mid+1 .. latest
      <4>1. h \in 0 .. MaxLatest /\ mid < h
        BY <2>2, <2>4
      <4> QED BY <2>2, <2>3, <2>7, <4>1
    <3>4. IsStart(best)'
      BY <2>1, <2>2, <2>4, <2>7, <3>1, <3>3 DEF IsStart, Choice!IsStart
    <3> QED BY <3>1, <3>2, <3>4 DEF IInv, SearchRight
  <2> QED BY <2>2, <2>5, <2>6, <2>7
<1>2. CASE HeaderFails
  <2>1. TypeOK'
    BY <1>0, <1>2 DEF HeaderFails, TypeOK, Increasing
  <2> QED BY <1>2, <2>1 DEF HeaderFails, IInv, SearchRight
<1>3. CASE Finish
  <2>1. TypeOK'
    BY <1>0, <1>3 DEF Finish, TypeOK, Increasing
  <2>2. Bracket /\ low > high
    BY <1>3 DEF Finish, IInv
  <2>3. low \in Nat /\ high \in Int /\ latest \in Nat /\ best \in Nat
        /\ time \in [0 .. MaxLatest -> 0 .. MaxTime] /\ latest <= MaxLatest
        /\ target \in Int
    BY <1>0 DEF TypeOK
  <2>4. best >= StartBlock /\ low <= best + 1
    BY <2>2, <2>3 DEF Bracket
  <2>5. best > StartBlock => best <= latest /\ time[best] <= target
    <3> SUFFICES ASSUME best > StartBlock
                 PROVE  best <= latest /\ time[best] <= target
      OBVIOUS
    <3>1. best = low - 1 /\ low > StartBlock /\ best \in StartBlock .. low-1
      BY <2>2, <2>3 DEF Bracket
    <3>2. best <= latest /\ time[best] < target
      BY <2>2, <3>1 DEF Bracket
    <3>3. time[best] \in Int
      BY <2>3, <3>1, <3>2
    <3> QED BY <2>3, <3>2, <3>3
  <2>6. \A h \in best+1 .. latest : time[h] > target
    <3> TAKE h \in best+1 .. latest
    <3>1. h \in high+1 .. latest /\ h >= StartBlock
      BY <2>2, <2>3, <2>4
    <3> QED BY <2>2, <3>1 DEF Bracket
  <2>7. IsStart(best)
    BY <2>4, <2>5, <2>6 DEF IsStart, Choice!IsStart
  <2> QED BY <1>3, <2>1, <2>7 DEF Finish, IInv, SearchRight, IsStart, Choice!IsStart
<1>4. CASE UNCHANGED vars
  BY <1>0, <1>4 DEF vars, IInv, TypeOK, Bracket, SearchRight, IsStart, Choice!IsStart, Increasing
<1> QED BY <1>1, <1>2, <1>3, <1>4 DEF Next

(* Whenever the search ends, it ends on the block the scan must start at.  *)
THEOREM SearchCorrect == Spec => []SearchRight
<1>1. IInv => SearchRight
  BY DEF IInv
<1> QED BY <1>1, InitIInv, StepIInv, PTL DEF Spec

LEMMA ChoiceStarts == Init => Choice!ChoiceInit
BY DEF Init, Choice!ChoiceInit

LEMMA ChoiceKept ==
  IInv /\ [Next]_vars => [Choice!Choose \/ Choice!Fail]_(Choice!choiceVars)
<1> DEFINE start == IF pc = "done" THEN best ELSE StartBlock
<1> SUFFICES ASSUME IInv, [Next]_vars
             PROVE  \/ Choice!Choose \/ Choice!Fail
                    \/ UNCHANGED <<time, latest, target, start, pc>>
  BY DEF Choice!choiceVars
<1>1. ASSUME UNCHANGED <<time, latest, target>>, pc = "search", pc' = "done"
      PROVE  Choice!Choose
  <2>1. IsStart(best)'
    BY <1>1, StepIInv DEF IInv, SearchRight
  <2>2. Choice!IsStart(best')
    BY <1>1, <2>1 DEF IsStart, Choice!IsStart
  <2> QED BY <1>1, <2>2 DEF Choice!Choose, Choice!IsStart
<1>2. CASE Probe
  <2>1. pc = "search" /\ UNCHANGED <<time, latest, target>>
    BY <1>2 DEF Probe
  <2>2. pc' = "search" \/ pc' = "done"
    BY <1>2 DEF Probe
  <2> QED BY <1>1, <2>1, <2>2
<1>3. CASE HeaderFails
  BY <1>3 DEF HeaderFails, Choice!Fail
<1>4. CASE Finish
  BY <1>1, <1>4 DEF Finish
<1>5. CASE UNCHANGED vars
  BY <1>5 DEF vars
<1> QED BY <1>2, <1>3, <1>4, <1>5 DEF Next

(* From outside the search is one step that fails or names the right block *)
(* for good, for chains of any length.                                     *)
THEOREM SearchImplementsChoice == Spec => ImplementsChoice
BY InitIInv, StepIInv, ChoiceStarts, ChoiceKept, PTL
   DEF Spec, ImplementsChoice, Choice!ChoiceSpec

-----------------------------------------------------------------------------
(* The fetch.                                                              *)

Spans == [lo : Int, hi : Int]

FetchTypeOK ==
  /\ boot \in BOOLEAN
  /\ stage \in {"search", "block", "in", "out", "chunk", "returned", "failed"}
  /\ safe \in Int /\ from \in Int /\ to \in Int /\ bn \in Int
  /\ queue \in Seq(Spans)
  /\ read \in [Call -> Seq(Int)]
  /\ null \in SUBSET Int
  /\ taken \in 0 .. Target /\ ranges \in 0 .. MaxRanges /\ indexed \in Nat

(* The search comes first, and everything before the best block so far is  *)
(* before the target.                                                      *)
SearchOK ==
  /\ pc # "done" => stage = "search"
  /\ stage = "search" =>
       /\ read = [c \in Call |-> <<>>] /\ null = {}
       /\ indexed = 0 /\ ranges = 0 /\ taken = 0
  /\ \A h \in StartBlock .. best - 1 : time[h] < target

(* What the chunks before this one covered, and how far a call is in this. *)
Before == IF boot THEN to + 1 .. safe ELSE best .. from - 1

UpTo(c) ==
  IF stage = "block" THEN IF c = "block" THEN bn - 1 ELSE from - 1
  ELSE IF c = stage THEN Head(queue).lo - 1
  ELSE IF stage = "in" /\ c = "out" THEN from - 1
  ELSE to

Unanswered(c) == IF c = "block" THEN null ELSE {}

Sorted(s) == IF boot THEN OnceEach(s) ELSE InOrder(s)

ReadOK(c) ==
  /\ Sorted(read[c])
  /\ BlocksOf(read[c]) = (Before \cup (from .. UpTo(c))) \ Unanswered(c)

(* The chunk at hand lies in the window, next to the ones before it.       *)
ChunkOK ==
  /\ StartBlock <= from /\ from <= to /\ to <= safe
  /\ boot => indexed = 0 /\ ranges >= 1
  /\ boot => from = StartBlock \/ safe - from + 1 = ranges * ChunkSize
  /\ ~boot => best <= from
  /\ ~boot => indexed = 0 \/ (best <= indexed /\ indexed < from)

(* The ranges to ask for follow each other, from where the logs end to the *)
(* end of the chunk.                                                       *)
Chained(q, end) ==
  /\ Len(q) > 0
  /\ \A i \in 1 .. Len(q) : q[i].lo <= q[i].hi /\ q[i].hi <= end
  /\ \A i \in 1 .. Len(q) - 1 : q[i].hi + 1 = q[i + 1].lo
  /\ q[Len(q)].hi = end

QueueOK == Chained(queue, to) /\ from <= Head(queue).lo

(* Null answers are for blocks asked for.                                  *)
NullOK == null \subseteq Before \cup (from .. UpTo("block"))

FetchInv ==
  /\ IInv /\ FetchTypeOK /\ SearchOK
  /\ stage \in {"block", "in", "out", "chunk"} =>
       ChunkOK /\ NullOK /\ \A c \in Call : ReadOK(c)
  /\ stage = "block" => from <= bn /\ bn <= to
  /\ stage \in {"in", "out"} => QueueOK
  /\ stage \in {"returned", "failed"} => IndexedIsRead
  /\ WindowRead /\ BootstrapContiguous
-----------------------------------------------------------------------------
(* Reading one more block.                                                 *)
LEMMA ReadOneMore ==
  ASSUME NEW s \in Seq(Int), NEW n \in Int
  PROVE  /\ Append(s, n) \in Seq(Int)
         /\ BlocksOf(Append(s, n)) = BlocksOf(s) \cup {n}
         /\ InOrder(s) /\ (\A h \in BlocksOf(s) : h < n) => InOrder(Append(s, n))
         /\ OnceEach(s) /\ n \notin BlocksOf(s) => OnceEach(Append(s, n))
<1> DEFINE t == Append(s, n)
<1>1. /\ t \in Seq(Int) /\ DOMAIN s = 1 .. Len(s) /\ Len(s) \in Nat
      /\ DOMAIN t = 1 .. Len(s) + 1
      /\ t[Len(s) + 1] = n /\ \A i \in 1 .. Len(s) : t[i] = s[i]
  OBVIOUS
<1> HIDE DEF t
<1>2. BlocksOf(t) = BlocksOf(s) \cup {n}
  <2>1. \A x \in BlocksOf(t) : x \in BlocksOf(s) \cup {n}
    <3> TAKE x \in BlocksOf(t)
    <3>1. PICK i \in 1 .. Len(s) + 1 : x = t[i]
      BY <1>1 DEF BlocksOf
    <3>2. i = Len(s) + 1 \/ i \in 1 .. Len(s)
      BY <1>1
    <3> QED BY <1>1, <3>1, <3>2 DEF BlocksOf
  <2>2. \A x \in BlocksOf(s) : x \in BlocksOf(t)
    BY <1>1 DEF BlocksOf
  <2>3. n \in BlocksOf(t)
    <3>1. Len(s) + 1 \in DOMAIN t
      BY <1>1
    <3> QED BY <1>1, <3>1 DEF BlocksOf
  <2> QED BY <2>1, <2>2, <2>3
<1>3. ASSUME InOrder(s), \A h \in BlocksOf(s) : h < n
      PROVE  InOrder(t)
  <2> SUFFICES ASSUME NEW i \in 1 .. Len(s) + 1, NEW j \in 1 .. Len(s) + 1, i < j
               PROVE  t[i] < t[j]
    BY <1>1 DEF InOrder
  <2>1. i \in 1 .. Len(s) /\ (j = Len(s) + 1 \/ j \in 1 .. Len(s))
    BY <1>1
  <2>2. s[i] \in BlocksOf(s)
    BY <1>1, <2>1 DEF BlocksOf
  <2> QED BY <1>1, <1>3, <2>1, <2>2 DEF InOrder
<1>4. ASSUME OnceEach(s), n \notin BlocksOf(s)
      PROVE  OnceEach(t)
  <2> SUFFICES ASSUME NEW i \in 1 .. Len(s) + 1, NEW j \in 1 .. Len(s) + 1, i # j
               PROVE  t[i] # t[j]
    BY <1>1 DEF OnceEach
  <2>1. /\ i = Len(s) + 1 \/ i \in 1 .. Len(s)
        /\ j = Len(s) + 1 \/ j \in 1 .. Len(s)
    BY <1>1
  <2>2. \A k \in 1 .. Len(s) : s[k] \in BlocksOf(s)
    BY <1>1 DEF BlocksOf
  <2> QED BY <1>1, <1>4, <2>1, <2>2 DEF OnceEach
<1> QED BY <1>1, <1>2, <1>3, <1>4 DEF t

(* A sequence after another.                                               *)
LEMMA Concatenation ==
  ASSUME NEW S, NEW s \in Seq(S), NEW t \in Seq(S)
  PROVE  /\ s \o t \in Seq(S) /\ Len(s \o t) = Len(s) + Len(t)
         /\ \A i \in 1 .. Len(s) : (s \o t)[i] = s[i]
         /\ \A i \in Len(s) + 1 .. Len(s) + Len(t) : (s \o t)[i] = t[i - Len(s)]
OBVIOUS

(* Reading a range.                                                        *)
LEMMA ReadRange ==
  ASSUME NEW s \in Seq(Int), NEW r \in Spans, r.lo <= r.hi
  PROVE  /\ s \o Blocks(r) \in Seq(Int)
         /\ BlocksOf(s \o Blocks(r)) = BlocksOf(s) \cup (r.lo .. r.hi)
         /\ InOrder(s) /\ (\A h \in BlocksOf(s) : h < r.lo) => InOrder(s \o Blocks(r))
         /\ OnceEach(s) /\ (\A h \in BlocksOf(s) : h \notin r.lo .. r.hi)
              => OnceEach(s \o Blocks(r))
<1> DEFINE m == r.hi - r.lo + 1
           b == Blocks(r)
           t == s \o b
           n == Len(s)
<1>1. r.lo \in Int /\ r.hi \in Int /\ m \in Nat /\ m > 0
  BY DEF Spans
<1>2. b \in Seq(Int) /\ Len(b) = m /\ \A i \in 1 .. m : b[i] = r.lo + i - 1
  <2>1. b = [i \in 1 .. m |-> r.lo + i - 1]
    BY DEF Blocks
  <2> HIDE DEF b, m
  <2>2. \A i \in 1 .. m : r.lo + i - 1 \in Int
    BY <1>1
  <2>3. b \in Seq(Int)
    BY <1>1, <2>1, <2>2
  <2>4. Len(b) = m
    BY <1>1, <2>1
  <2> QED BY <2>1, <2>3, <2>4
<1> HIDE DEF b
<1>3. /\ t \in Seq(Int) /\ n \in Nat /\ DOMAIN s = 1 .. n /\ DOMAIN t = 1 .. n + m
      /\ \A i \in 1 .. n : t[i] = s[i]
      /\ \A i \in n + 1 .. n + m : t[i] = b[i - n]
  <2>1. n \in Nat /\ DOMAIN s = 1 .. n /\ b \in Seq(Int) /\ Len(b) = m /\ m \in Nat
    BY <1>1, <1>2
  <2> HIDE DEF m
  <2>2. /\ t \in Seq(Int) /\ Len(t) = n + Len(b)
        /\ \A i \in 1 .. n : t[i] = s[i]
        /\ \A i \in n + 1 .. n + Len(b) : t[i] = b[i - n]
    BY <2>1, Concatenation
  <2>3. DOMAIN t = 1 .. n + m
    BY <2>1, <2>2
  <2> QED BY <2>1, <2>2, <2>3
<1>4. \A i \in n + 1 .. n + m : t[i] = r.lo + (i - n) - 1
  <2> TAKE i \in n + 1 .. n + m
  <2>1. i - n \in 1 .. m
    BY <1>1, <1>3
  <2> QED BY <1>2, <1>3, <2>1
<1> HIDE DEF t, n, m
<1>4a. m = r.hi - r.lo + 1
  BY DEF m
<1>5. \A i \in 1 .. n + m : i \in 1 .. n \/ i \in n + 1 .. n + m
  BY <1>1, <1>3
<1>6. BlocksOf(t) = BlocksOf(s) \cup (r.lo .. r.hi)
  <2>1. \A x \in BlocksOf(t) : x \in BlocksOf(s) \cup (r.lo .. r.hi)
    <3> TAKE x \in BlocksOf(t)
    <3>1. PICK i \in 1 .. n + m : x = t[i]
      BY <1>3 DEF BlocksOf
    <3>2. CASE i \in 1 .. n
      BY <1>3, <3>1, <3>2 DEF BlocksOf
    <3>3. CASE i \in n + 1 .. n + m
      <4>1. x = r.lo + (i - n) - 1
        BY <1>4, <3>1, <3>3
      <4> QED BY <1>1, <1>3, <1>4a, <3>3, <4>1
    <3> QED BY <1>5, <3>2, <3>3
  <2>2. \A x \in BlocksOf(s) : x \in BlocksOf(t)
    <3> TAKE x \in BlocksOf(s)
    <3>1. PICK i \in 1 .. n : x = s[i]
      BY <1>3 DEF BlocksOf
    <3>2. i \in DOMAIN t /\ x = t[i]
      BY <1>1, <1>3, <3>1
    <3> QED BY <3>2 DEF BlocksOf
  <2>3. \A x \in r.lo .. r.hi : x \in BlocksOf(t)
    <3> TAKE x \in r.lo .. r.hi
    <3>1. n + (x - r.lo + 1) \in n + 1 .. n + m
      <4>1. x \in Int /\ r.lo <= x /\ x <= r.hi
        BY <1>1
      <4>2. x - r.lo + 1 >= 1 /\ x - r.lo + 1 <= m /\ x - r.lo + 1 \in Int
        BY <1>1, <1>4a, <4>1
      <4> QED BY <1>1, <1>3, <4>2
    <3>2. PICK i \in n + 1 .. n + m : i = n + (x - r.lo + 1)
      BY <3>1
    <3>3. t[i] = r.lo + (i - n) - 1
      BY <1>4
    <3>4. r.lo + (i - n) - 1 = x
      <4>1. n \in Int /\ x \in Int /\ r.lo \in Int
        BY <1>1, <1>3
      <4>2. \A k, l, m1 \in Int : l + ((k + (m1 - l + 1)) - k) - 1 = m1
        OBVIOUS
      <4> QED BY <3>2, <4>1, <4>2
    <3>5. i \in DOMAIN t
      BY <1>1, <1>3
    <3>6. t[i] \in BlocksOf(t)
      BY <3>5 DEF BlocksOf
    <3> QED BY <3>3, <3>4, <3>6
  <2> QED BY <2>1, <2>2, <2>3
<1>7. \A i \in 1 .. n : s[i] \in BlocksOf(s) /\ s[i] \in Int
  <2>1. \A i \in 1 .. n : s[i] \in BlocksOf(s)
    BY <1>3 DEF BlocksOf
  <2>2. \A i \in 1 .. n : s[i] \in Int
    BY <1>3
  <2> QED BY <2>1, <2>2
<1>8. ASSUME InOrder(s), \A h \in BlocksOf(s) : h < r.lo
      PROVE  InOrder(t)
  <2> SUFFICES ASSUME NEW i \in 1 .. n + m, NEW j \in 1 .. n + m, i < j
               PROVE  t[i] < t[j]
    BY <1>3 DEF InOrder
  <2>1. CASE i \in 1 .. n /\ j \in 1 .. n
    BY <1>3, <1>8, <2>1 DEF InOrder
  <2>2. CASE i \in 1 .. n /\ j \in n + 1 .. n + m
    <3>1. t[i] < r.lo /\ t[i] \in Int
      BY <1>3, <1>7, <1>8, <2>2
    <3>2. t[j] = r.lo + (j - n) - 1 /\ j - n >= 1
      BY <1>3, <1>4, <2>2
    <3> QED BY <1>1, <1>3, <3>1, <3>2
  <2>3. CASE i \in n + 1 .. n + m
    <3>1. j \in n + 1 .. n + m
      BY <1>1, <1>3, <2>3
    <3> QED BY <1>1, <1>3, <1>4, <2>3, <3>1
  <2> QED BY <1>5, <2>1, <2>2, <2>3
<1>9. ASSUME OnceEach(s), \A h \in BlocksOf(s) : h \notin r.lo .. r.hi
      PROVE  OnceEach(t)
  <2> SUFFICES ASSUME NEW i \in 1 .. n + m, NEW j \in 1 .. n + m, i # j
               PROVE  t[i] # t[j]
    BY <1>3 DEF OnceEach
  <2>0. \A k \in n + 1 .. n + m : t[k] \in r.lo .. r.hi
    <3> TAKE k \in n + 1 .. n + m
    <3>1. t[k] = r.lo + (k - n) - 1
      BY <1>4
    <3>2. k - n >= 1 /\ k - n <= m /\ k - n \in Int
      BY <1>1, <1>3
    <3> QED BY <1>1, <1>4a, <3>1, <3>2
  <2>1. CASE i \in 1 .. n /\ j \in 1 .. n
    BY <1>3, <1>9, <2>1 DEF OnceEach
  <2>2. CASE i \in 1 .. n /\ j \in n + 1 .. n + m
    BY <1>3, <1>7, <1>9, <2>0, <2>2
  <2>3. CASE i \in n + 1 .. n + m /\ j \in 1 .. n
    BY <1>3, <1>7, <1>9, <2>0, <2>3
  <2>4. CASE i \in n + 1 .. n + m /\ j \in n + 1 .. n + m
    <3>1. t[i] = r.lo + (i - n) - 1 /\ t[j] = r.lo + (j - n) - 1
      BY <1>4, <2>4
    <3> QED BY <1>1, <1>3, <3>1
  <2> QED BY <1>5, <2>1, <2>2, <2>3, <2>4
<1> QED BY <1>3, <1>6, <1>8, <1>9 DEF t, b
-----------------------------------------------------------------------------
(* What is left when the first range has been answered follows it.         *)
LEMMA ChainTail ==
  ASSUME NEW q \in Seq(Spans), NEW end \in Int, Chained(q, end)
  PROVE  /\ Head(q) \in Spans /\ Head(q) = q[1] /\ Head(q).lo <= Head(q).hi
         /\ Head(q).hi <= end
         /\ Len(q) = 1 => Head(q).hi = end
         /\ Len(q) > 1 => /\ Tail(q) \in Seq(Spans) /\ Chained(Tail(q), end)
                          /\ Head(Tail(q)).lo = Head(q).hi + 1
<1>1. /\ Len(q) \in Nat /\ Head(q) = q[1]
      /\ \A i \in 1 .. Len(q) : q[i] \in Spans
  BY DEF Chained
<1>2. Head(q) \in Spans /\ Head(q).lo <= Head(q).hi /\ Head(q).hi <= end
  BY <1>1 DEF Chained
<1>3. Len(q) = 1 => Head(q).hi = end
  BY <1>1 DEF Chained
<1>4. ASSUME Len(q) > 1
      PROVE  /\ Tail(q) \in Seq(Spans) /\ Chained(Tail(q), end)
             /\ Head(Tail(q)).lo = Head(q).hi + 1
  <2> DEFINE t == Tail(q)
  <2>1. t \in Seq(Spans) /\ Len(t) = Len(q) - 1
    BY <1>1, <1>4
  <2>2. \A i \in 1 .. Len(t) : t[i] = q[i + 1]
    BY <1>1, <1>4
  <2>3. Head(t) = t[1]
    BY <1>4, <2>1
  <2> HIDE DEF t
  <2>4. \A i \in 1 .. Len(t) : t[i].lo <= t[i].hi /\ t[i].hi <= end
    BY <1>1, <2>1, <2>2 DEF Chained
  <2>5. \A i \in 1 .. Len(t) - 1 : t[i].hi + 1 = t[i + 1].lo
    <3> TAKE i \in 1 .. Len(t) - 1
    <3>1. i + 1 \in 1 .. Len(q) - 1 /\ t[i] = q[i + 1] /\ t[i + 1] = q[(i + 1) + 1]
      BY <1>1, <2>1, <2>2
    <3> QED BY <3>1 DEF Chained
  <2>6. t[Len(t)] = q[Len(q)] /\ t[1] = q[1 + 1]
    BY <1>1, <1>4, <2>1, <2>2
  <2>7. q[Len(q)].hi = end /\ q[1].hi + 1 = q[1 + 1].lo
    BY <1>1, <1>4 DEF Chained
  <2>8. Chained(t, end)
    BY <1>4, <2>1, <2>4, <2>5, <2>6, <2>7 DEF Chained
  <2> QED BY <1>1, <2>1, <2>3, <2>6, <2>7, <2>8 DEF t
<1> QED BY <1>1, <1>2, <1>3, <1>4

(* One range alone.                                                        *)
LEMMA ChainOne ==
  ASSUME NEW lo \in Int, NEW hi \in Int, lo <= hi
  PROVE  /\ <<Span(lo, hi)>> \in Seq(Spans) /\ Chained(<<Span(lo, hi)>>, hi)
         /\ Head(<<Span(lo, hi)>>).lo = lo
<1>1. Span(lo, hi) \in Spans /\ Span(lo, hi).lo = lo /\ Span(lo, hi).hi = hi
  BY DEF Span, Spans
<1> QED BY <1>1 DEF Chained

(* The halves of a range take its place.                                   *)
LEMMA ChainSplit ==
  ASSUME NEW q \in Seq(Spans), NEW end \in Int, Chained(q, end), q[1].lo < q[1].hi
  PROVE  /\ Halves(q[1]) \o Tail(q) \in Seq(Spans)
         /\ Chained(Halves(q[1]) \o Tail(q), end)
         /\ Head(Halves(q[1]) \o Tail(q)).lo = q[1].lo
<1> DEFINE mid == (q[1].lo + q[1].hi) \div 2
           a == Span(q[1].lo, mid)
           b == Span(mid + 1, q[1].hi)
           t == Tail(q)
           s == <<a, b>> \o t
<1>1. /\ Len(q) \in Nat /\ Len(q) > 0
      /\ \A i \in 1 .. Len(q) : q[i] \in Spans
      /\ q[1].lo \in Int /\ q[1].hi \in Int
  <2>1. Len(q) \in Nat /\ Len(q) > 0 /\ \A i \in 1 .. Len(q) : q[i] \in Spans
    BY DEF Chained
  <2>2. q[1] \in Spans
    BY <2>1
  <2> QED BY <2>1, <2>2 DEF Spans
<1>2. mid \in Int /\ q[1].lo <= mid /\ mid < q[1].hi
  BY <1>1
<1>3. /\ a \in Spans /\ a.lo = q[1].lo /\ a.hi = mid
      /\ b \in Spans /\ b.lo = mid + 1 /\ b.hi = q[1].hi
  BY <1>1, <1>2 DEF Span, Spans
<1>4. Halves(q[1]) = <<a, b>>
  BY DEF Halves
<1>5. t \in Seq(Spans) /\ Len(t) = Len(q) - 1 /\ \A i \in 1 .. Len(t) : t[i] = q[i + 1]
  BY <1>1
<1> HIDE DEF mid, a, b, t
<1>6. /\ <<a, b>> \in Seq(Spans) /\ Len(<<a, b>>) = 2
      /\ <<a, b>>[1] = a /\ <<a, b>>[2] = b
  BY <1>3
<1>7. /\ s \in Seq(Spans) /\ Len(s) = Len(q) + 1
      /\ s[1] = a /\ s[2] = b
      /\ \A i \in 3 .. Len(s) : s[i] = t[i - 2]
  BY <1>1, <1>5, <1>6, Concatenation
<1>8. Head(s) = s[1]
  BY <1>1, <1>7
<1> HIDE DEF s
<1>9. \A i \in 3 .. Len(s) : s[i] = q[i - 1]
  <2> TAKE i \in 3 .. Len(s)
  <2>1. i - 2 \in 1 .. Len(t) /\ (i - 2) + 1 = i - 1
    BY <1>1, <1>5, <1>7
  <2> QED BY <1>5, <1>7, <2>1
<1>10. q[1].hi <= end /\ \A i \in 1 .. Len(q) : q[i].lo <= q[i].hi /\ q[i].hi <= end
  BY <1>1 DEF Chained
<1>11. \A i \in 1 .. Len(s) : s[i].lo <= s[i].hi /\ s[i].hi <= end
  <2> TAKE i \in 1 .. Len(s)
  <2>1. CASE i \in 3 .. Len(s)
    <3>1. i - 1 \in 1 .. Len(q) /\ s[i] = q[i - 1]
      BY <1>1, <1>7, <1>9, <2>1
    <3> QED BY <1>10, <3>1
  <2>2. CASE i = 1 \/ i = 2
    BY <1>1, <1>2, <1>3, <1>7, <1>10, <2>2
  <2> QED BY <1>1, <1>7, <2>1, <2>2
<1>12. \A i \in 1 .. Len(s) - 1 : s[i].hi + 1 = s[i + 1].lo
  <2> TAKE i \in 1 .. Len(s) - 1
  <2>1. CASE i \in 3 .. Len(s) - 1
    <3>1. /\ i \in 3 .. Len(s) /\ i + 1 \in 3 .. Len(s)
          /\ i - 1 \in 1 .. Len(q) - 1 /\ (i + 1) - 1 = (i - 1) + 1
      BY <1>1, <1>7, <2>1
    <3>2. s[i] = q[i - 1] /\ s[i + 1] = q[(i - 1) + 1]
      BY <1>9, <3>1
    <3> QED BY <3>1, <3>2 DEF Chained
  <2>2. CASE i = 1
    BY <1>2, <1>3, <1>7, <2>2
  <2>3. CASE i = 2
    <3>1. 3 \in 3 .. Len(s) /\ 1 \in 1 .. Len(q) - 1
      BY <1>1, <1>7, <2>3
    <3>2. s[2 + 1] = q[1 + 1] /\ q[1].hi + 1 = q[1 + 1].lo
      BY <1>9, <3>1 DEF Chained
    <3> QED BY <1>3, <1>7, <2>3, <3>2
  <2> QED BY <1>1, <1>7, <2>1, <2>2, <2>3
<1>13. s[Len(s)].hi = end
  <2>1. q[Len(q)].hi = end
    BY DEF Chained
  <2>2. CASE Len(q) = 1
    BY <1>3, <1>7, <2>1, <2>2
  <2>3. CASE Len(q) > 1
    <3>1. Len(s) \in 3 .. Len(s) /\ Len(s) - 1 = Len(q)
      BY <1>1, <1>7, <2>3
    <3> QED BY <1>9, <2>1, <3>1
  <2>4. Len(q) = 1 \/ Len(q) > 1
    <3>1. \A n \in Nat : n > 0 => n = 1 \/ n > 1
      OBVIOUS
    <3> QED BY <1>1, <3>1
  <2> QED BY <2>2, <2>3, <2>4
<1>14. Chained(s, end) /\ Head(s).lo = q[1].lo
  BY <1>1, <1>3, <1>7, <1>8, <1>11, <1>12, <1>13 DEF Chained
<1> QED BY <1>4, <1>7, <1>14 DEF s, t
-----------------------------------------------------------------------------
(* The blocks of the chunks before lie on one side of this chunk.          *)
LEMMA BeforeIs ==
  ASSUME FetchTypeOK, TypeOK, ChunkOK
  PROVE  /\ ~boot => \A h \in Before : h < from
         /\ \A h \in Before : h \notin from .. to
         /\ Before \in SUBSET Int
<1>1. from \in Int /\ to \in Int /\ safe \in Int /\ best \in Int /\ boot \in BOOLEAN
  BY DEF FetchTypeOK, TypeOK
<1>2. CASE boot
  BY <1>1, <1>2 DEF Before
<1>3. CASE ~boot
  BY <1>1, <1>3 DEF Before
<1> QED BY <1>2, <1>3

(* The next block of the chunk extends what a call has read.               *)
LEMMA BlockExtends ==
  ASSUME FetchTypeOK, TypeOK, ChunkOK, NEW s \in Seq(Int), NEW U,
         NEW n \in Int, from <= n, n <= to, n \notin U,
         Sorted(s), BlocksOf(s) = (Before \cup (from .. n - 1)) \ U
  PROVE  /\ Append(s, n) \in Seq(Int) /\ Sorted(Append(s, n))
         /\ BlocksOf(Append(s, n)) = (Before \cup (from .. n)) \ U
<1>1. from \in Int /\ to \in Int /\ boot \in BOOLEAN
  BY DEF FetchTypeOK
<1>2. BlocksOf(Append(s, n)) = BlocksOf(s) \cup {n} /\ Append(s, n) \in Seq(Int)
  BY ReadOneMore
<1>3. from .. n = (from .. n - 1) \cup {n} /\ n \in from .. to
  BY <1>1
<1>4. n \notin from .. n - 1
  BY <1>1
<1>5. Sorted(Append(s, n))
  <2>1. CASE boot
    <3>1. n \notin BlocksOf(s)
      BY <1>3, <1>4, BeforeIs
    <3> QED BY <2>1, <3>1, ReadOneMore DEF Sorted
  <2>2. CASE ~boot
    <3>1. \A h \in from .. n - 1 : h < n
      BY <1>1
    <3>2. \A h \in Before : h < n
      BY <1>1, <2>2, BeforeIs
    <3> QED BY <2>2, <3>1, <3>2, ReadOneMore DEF Sorted
  <2> QED BY <2>1, <2>2
<1> QED BY <1>2, <1>3, <1>5

(* So does the next range of it.                                           *)
LEMMA RangeExtends ==
  ASSUME FetchTypeOK, TypeOK, ChunkOK, NEW s \in Seq(Int),
         NEW r \in Spans, from <= r.lo, r.lo <= r.hi, r.hi <= to,
         Sorted(s), BlocksOf(s) = Before \cup (from .. r.lo - 1)
  PROVE  /\ s \o Blocks(r) \in Seq(Int) /\ Sorted(s \o Blocks(r))
         /\ BlocksOf(s \o Blocks(r)) = Before \cup (from .. r.hi)
<1>1. /\ from \in Int /\ to \in Int /\ boot \in BOOLEAN
      /\ r.lo \in Int /\ r.hi \in Int
  BY DEF FetchTypeOK, Spans
<1>2. /\ BlocksOf(s \o Blocks(r)) = BlocksOf(s) \cup (r.lo .. r.hi)
      /\ s \o Blocks(r) \in Seq(Int)
  BY ReadRange
<1>3. from .. r.hi = (from .. r.lo - 1) \cup (r.lo .. r.hi)
  BY <1>1
<1>4. r.lo .. r.hi \subseteq from .. to
  BY <1>1
<1>5. Sorted(s \o Blocks(r))
  <2>1. CASE boot
    <3>1. \A h \in from .. r.lo - 1 : h \notin r.lo .. r.hi
      BY <1>1
    <3>2. \A h \in BlocksOf(s) : h \notin r.lo .. r.hi
      BY <1>4, <3>1, BeforeIs
    <3> QED BY <2>1, <3>2, ReadRange DEF Sorted
  <2>2. CASE ~boot
    <3>1. \A h \in from .. r.lo - 1 : h < r.lo
      BY <1>1
    <3>2. \A h \in Before : h < r.lo
      BY <1>1, <2>2, BeforeIs
    <3> QED BY <2>2, <3>1, <3>2, ReadRange DEF Sorted
  <2> QED BY <2>1, <2>2
<1> QED BY <1>2, <1>3, <1>5

(* What has been read up to a block the scan has passed.                   *)
LEMMA UpToIndexed ==
  ASSUME NEW b \in Int, NEW i \in Int, NEW u \in Int, i <= u, NEW U
  PROVE  {h \in (b .. u) \ U : h <= i} = (b .. i) \ U
OBVIOUS

LEMMA IndexedHolds == FetchInv => IndexedIsRead
<1> SUFFICES ASSUME FetchInv, indexed > 0, stage \notin {"returned", "failed"}
             PROVE  IndexedIsRead
  BY DEF FetchInv, IndexedIsRead
<1>1. /\ FetchTypeOK /\ TypeOK /\ stage \in {"block", "in", "out", "chunk"}
      /\ ChunkOK /\ \A c \in Call : ReadOK(c)
  BY DEF FetchInv, FetchTypeOK, IInv, SearchOK
<1>2. /\ ~boot /\ best <= indexed /\ indexed < from /\ from <= to
      /\ indexed \in Int /\ from \in Int /\ to \in Int /\ bn \in Int /\ best \in Int
  BY <1>1 DEF FetchTypeOK, TypeOK, ChunkOK
<1> SUFFICES ASSUME NEW c \in Call
             PROVE  /\ InOrder(read[c])
                    /\ {h \in BlocksOf(read[c]) : h <= indexed}
                         = Readable(c, best, indexed)
  BY DEF IndexedIsRead
<1>3. InOrder(read[c]) /\ BlocksOf(read[c])
        = ((best .. from - 1) \cup (from .. UpTo(c))) \ Unanswered(c)
  BY <1>1, <1>2 DEF ReadOK, Sorted, Before
<1>4. UpTo(c) \in Int /\ from - 1 <= UpTo(c)
  <2>1. stage = "block" => from <= bn
    BY DEF FetchInv
  <2>2. stage \in {"in", "out"} => Head(queue).lo \in Int /\ from <= Head(queue).lo
    <3> SUFFICES ASSUME stage \in {"in", "out"}
                 PROVE  Head(queue).lo \in Int /\ from <= Head(queue).lo
      OBVIOUS
    <3>1. QueueOK
      BY DEF FetchInv
    <3>2. Head(queue) \in Spans
      BY <1>1, <1>2, <3>1, ChainTail DEF QueueOK, FetchTypeOK
    <3> QED BY <3>1, <3>2 DEF QueueOK, Spans
  <2> QED BY <1>1, <1>2, <2>1, <2>2 DEF UpTo, Call
<1>5. (best .. from - 1) \cup (from .. UpTo(c)) = best .. UpTo(c)
  BY <1>2, <1>4
<1>6. {h \in (best .. UpTo(c)) \ Unanswered(c) : h <= indexed}
        = (best .. indexed) \ Unanswered(c)
  <2>1. indexed <= UpTo(c)
    BY <1>2, <1>4
  <2> QED BY <1>2, <1>4, <2>1, UpToIndexed
<1> QED BY <1>3, <1>5, <1>6 DEF Readable, Unanswered
-----------------------------------------------------------------------------
(* A chunk opens next to what has been read.                               *)
LEMMA Opens ==
  ASSUME IInv', FetchTypeOK', SearchOK', ChunkOK', stage' = "block", bn' = from',
         null' \subseteq Before',
         \A c \in Call : /\ Sorted(read[c])'
                         /\ BlocksOf(read'[c]) = Before' \ Unanswered(c)'
  PROVE  FetchInv'
<1>1. from' \in Int /\ to' \in Int /\ from' <= to'
  BY DEF FetchTypeOK, ChunkOK
<1>2. \A c \in Call : UpTo(c)' = from' - 1
  BY DEF UpTo
<1>2a. UpTo("block")' = from' - 1
  BY DEF UpTo
<1>3. Before' \cup (from' .. from' - 1) = Before'
  BY <1>1
<1>4. (\A c \in Call : ReadOK(c))'
  <2> SUFFICES ASSUME NEW c \in Call PROVE ReadOK(c)'
    OBVIOUS
  <2> QED BY <1>2, <1>3 DEF ReadOK
<1>5. NullOK'
  BY <1>2a, <1>3 DEF NullOK
<1>6. WindowRead' /\ BootstrapContiguous'
  BY DEF WindowRead, BootstrapContiguous, Returned
<1> QED BY <1>1, <1>4, <1>5, <1>6 DEF FetchInv

(* What a chunk stage gives.                                               *)
LEMMA InChunk ==
  ASSUME FetchInv, stage \in {"block", "in", "out", "chunk"}
  PROVE  /\ IInv /\ TypeOK /\ FetchTypeOK /\ SearchOK /\ ChunkOK /\ NullOK
         /\ pc = "done" /\ IndexedIsRead
         /\ from \in Int /\ to \in Int /\ bn \in Int /\ safe \in Int /\ best \in Int
         /\ StartBlock \in Int /\ from <= to
         /\ \A c \in Call : ReadOK(c) /\ read[c] \in Seq(Int)
<1>1. /\ IInv /\ TypeOK /\ FetchTypeOK /\ SearchOK /\ ChunkOK /\ NullOK
      /\ \A c \in Call : ReadOK(c)
  BY DEF FetchInv, IInv
<1>2. pc = "done"
  BY <1>1 DEF SearchOK
<1> QED BY <1>1, <1>2, IndexedHolds, SearchAssumption
     DEF FetchTypeOK, TypeOK, ChunkOK

(* Nothing the search left changes.                                        *)
LEMMA SearchKept ==
  ASSUME FetchInv, UNCHANGED vars, pc = "done", stage' # "search"
  PROVE  IInv' /\ SearchOK' /\ TypeOK'
<1>1. IInv'
  BY StepIInv DEF FetchInv
<1>2. SearchOK'
  BY DEF FetchInv, SearchOK, vars
<1> QED BY <1>1, <1>2 DEF IInv

LEMMA GetBlockStep == FetchInv /\ GetBlock => FetchInv'
<1> SUFFICES ASSUME FetchInv, GetBlock PROVE FetchInv'
  OBVIOUS
<1> USE DEF Call
<1>1. /\ stage = "block" /\ bn' = bn + 1
      /\ UNCHANGED <<vars, boot, safe, from, to, taken, ranges, indexed>>
  BY DEF GetBlock
<1>2. /\ TypeOK /\ FetchTypeOK /\ SearchOK /\ ChunkOK /\ NullOK /\ pc = "done"
      /\ \A c \in Call : ReadOK(c) /\ read[c] \in Seq(Int)
      /\ from \in Int /\ to \in Int /\ bn \in Int /\ from <= to
  BY <1>1, InChunk
<1>3. from <= bn /\ bn <= to
  BY <1>1 DEF FetchInv
<1>4. /\ null \subseteq Before \cup (from .. bn - 1)
      /\ Sorted(read["block"])
      /\ BlocksOf(read["block"]) = (Before \cup (from .. bn - 1)) \ null
      /\ \A c \in {"in", "out"} : /\ Sorted(read[c])
                                  /\ BlocksOf(read[c]) = Before \cup (from .. from - 1)
  <2>1. /\ UpTo("block") = bn - 1
        /\ \A c \in {"in", "out"} : UpTo(c) = from - 1
    BY <1>1 DEF UpTo
  <2>2. null \subseteq Before \cup (from .. bn - 1)
    BY <1>2, <2>1 DEF NullOK
  <2>3. /\ Sorted(read["block"])
        /\ BlocksOf(read["block"]) = (Before \cup (from .. bn - 1)) \ null
    <3>1. ReadOK("block")
      BY <1>2
    <3> QED BY <2>1, <3>1 DEF ReadOK, Unanswered
  <2>4. ASSUME NEW c \in {"in", "out"}
        PROVE  Sorted(read[c]) /\ BlocksOf(read[c]) = Before \cup (from .. from - 1)
    <3>1. ReadOK(c) /\ UpTo(c) = from - 1 /\ Unanswered(c) = {}
      BY <1>2, <2>1 DEF Unanswered
    <3> QED BY <3>1 DEF ReadOK
  <2> QED BY <2>2, <2>3, <2>4
<1>5. bn \notin Before /\ bn \notin from .. bn - 1 /\ bn \notin null
  <2>1. bn \in from .. to /\ bn \notin from .. bn - 1
    BY <1>2, <1>3
  <2>2. bn \notin Before
    BY <1>2, <2>1, BeforeIs
  <2> QED BY <1>4, <2>1, <2>2
<1>6. /\ read' \in [Call -> Seq(Int)] /\ null' \in SUBSET Int
      /\ null' \subseteq Before \cup (from .. bn)
      /\ Sorted(read'["block"])
      /\ BlocksOf(read'["block"]) = (Before \cup (from .. bn)) \ null'
      /\ read'["in"] = read["in"] /\ read'["out"] = read["out"]
  <2>0. from .. bn = (from .. bn - 1) \cup {bn} /\ null \in SUBSET Int
        /\ read \in [Call -> Seq(Int)]
    BY <1>2, <1>3 DEF FetchTypeOK
  <2>1. CASE read' = [read EXCEPT !["block"] = Append(@, bn)] /\ UNCHANGED null
    <3>1. /\ Append(read["block"], bn) \in Seq(Int) /\ Sorted(Append(read["block"], bn))
          /\ BlocksOf(Append(read["block"], bn)) = (Before \cup (from .. bn)) \ null
      <4>1. read["block"] \in Seq(Int)
        BY <1>2
      <4> QED BY <1>2, <1>3, <1>4, <1>5, <4>1, BlockExtends
    <3>2. /\ read'["block"] = Append(read["block"], bn)
          /\ read'["in"] = read["in"] /\ read'["out"] = read["out"]
          /\ read' \in [Call -> Seq(Int)]
      BY <2>0, <2>1, <3>1
    <3> QED BY <1>4, <2>0, <2>1, <3>1, <3>2
  <2>2. CASE null' = null \cup {bn} /\ UNCHANGED read
    BY <1>2, <1>4, <1>5, <2>0, <2>2
  <2> QED BY <2>1, <2>2 DEF GetBlock
<1>7. /\ Before' = Before /\ ChunkOK'
      /\ \A c \in Call : Sorted(read[c])' <=> Sorted(read'[c])
  <2>1. Before' = Before /\ ChunkOK'
    BY <1>1, <1>2 DEF Before, ChunkOK, vars
  <2>2. \A c \in Call : Sorted(read[c])' <=> Sorted(read'[c])
    BY <1>1 DEF Sorted, InOrder, OnceEach
  <2> QED BY <2>1, <2>2
<1>8. CASE bn < to
  <2>1. stage' = "block" /\ UNCHANGED queue
    BY <1>1, <1>8 DEF GetBlock
  <2>2. IInv' /\ SearchOK' /\ FetchTypeOK'
    BY <1>1, <1>2, <1>6, <2>1, SearchKept DEF FetchTypeOK
  <2>3. from' <= bn' /\ bn' <= to' /\ bn' - 1 = bn
    BY <1>1, <1>2, <1>3, <1>8
  <2>4. UpTo("block")' = bn /\ UpTo("in")' = from - 1 /\ UpTo("out")' = from - 1
    BY <1>1, <2>1, <2>3 DEF UpTo
  <2>5. NullOK' /\ \A c \in Call : ReadOK(c)'
    BY <1>1, <1>4, <1>6, <1>7, <2>4 DEF NullOK, ReadOK, Unanswered, Sorted
  <2>6. WindowRead' /\ BootstrapContiguous'
    BY <2>1 DEF WindowRead, BootstrapContiguous, Returned
  <2> QED BY <1>7, <2>1, <2>2, <2>3, <2>5, <2>6 DEF FetchInv
<1>9. CASE ~(bn < to)
  <2>1. stage' = "in" /\ queue' = <<Span(from, to)>> /\ bn = to
    BY <1>1, <1>2, <1>3, <1>9 DEF GetBlock
  <2>1a. /\ queue' \in Seq(Spans) /\ Chained(queue', to) /\ Head(queue').lo = from
    BY <1>2, <2>1, ChainOne
  <2>2. IInv' /\ SearchOK' /\ FetchTypeOK'
    BY <1>1, <1>2, <1>6, <2>1, <2>1a, SearchKept DEF FetchTypeOK
  <2>3. QueueOK'
    BY <1>1, <1>2, <2>1a DEF QueueOK
  <2>4. UpTo("block")' = bn /\ UpTo("in")' = from - 1 /\ UpTo("out")' = from - 1
    BY <1>1, <2>1, <2>1a DEF UpTo
  <2>5. NullOK' /\ \A c \in Call : ReadOK(c)'
    BY <1>1, <1>4, <1>6, <1>7, <2>4 DEF NullOK, ReadOK, Unanswered, Sorted
  <2>6. WindowRead' /\ BootstrapContiguous'
    BY <2>1 DEF WindowRead, BootstrapContiguous, Returned
  <2> QED BY <1>7, <2>1, <2>2, <2>3, <2>5, <2>6 DEF FetchInv
<1> QED BY <1>8, <1>9

LEMMA FilterLogsStep == FetchInv /\ FilterLogs => FetchInv'
<1> SUFFICES ASSUME FetchInv, FilterLogs PROVE FetchInv'
  OBVIOUS
<1> USE DEF Call
<1> DEFINE r == Head(queue)
<1>1. /\ stage \in {"in", "out"}
      /\ read' = [read EXCEPT ![stage] = @ \o Blocks(r)]
      /\ UNCHANGED <<vars, boot, safe, from, to, bn, null, taken, ranges, indexed>>
  BY DEF FilterLogs
<1>2. /\ TypeOK /\ FetchTypeOK /\ SearchOK /\ ChunkOK /\ NullOK /\ pc = "done"
      /\ \A c \in Call : ReadOK(c) /\ read[c] \in Seq(Int)
      /\ from \in Int /\ to \in Int /\ from <= to
  BY <1>1, InChunk
<1>3. /\ QueueOK /\ queue \in Seq(Spans) /\ Chained(queue, to) /\ from <= r.lo
      /\ r \in Spans /\ r.lo <= r.hi /\ r.hi <= to
      /\ Len(queue) = 1 => r.hi = to
      /\ Len(queue) > 1 => /\ Tail(queue) \in Seq(Spans) /\ Chained(Tail(queue), to)
                           /\ Head(Tail(queue)).lo = r.hi + 1
      /\ Len(queue) = 1 \/ Len(queue) > 1
  <2>1. QueueOK
    BY <1>1 DEF FetchInv
  <2>2. queue \in Seq(Spans) /\ Chained(queue, to) /\ from <= r.lo
    BY <1>2, <2>1 DEF QueueOK, FetchTypeOK
  <2>3. Len(queue) \in Nat /\ Len(queue) > 0
    BY <2>2 DEF Chained
  <2>4. Len(queue) = 1 \/ Len(queue) > 1
    <3>1. \A n \in Nat : n > 0 => n = 1 \/ n > 1
      OBVIOUS
    <3> QED BY <2>3, <3>1
  <2> HIDE DEF r
  <2>5. /\ r \in Spans /\ r.lo <= r.hi /\ r.hi <= to
        /\ Len(queue) = 1 => r.hi = to
        /\ Len(queue) > 1 => /\ Tail(queue) \in Seq(Spans) /\ Chained(Tail(queue), to)
                             /\ Head(Tail(queue)).lo = r.hi + 1
    BY <1>2, <2>2, ChainTail DEF r
  <2> QED BY <2>1, <2>2, <2>4, <2>5
<1>3a. r.lo \in Int /\ r.hi \in Int
  BY <1>3 DEF Spans
<1> HIDE DEF r
<1>4. /\ UpTo("block") = to
      /\ stage = "in" => UpTo("in") = r.lo - 1 /\ UpTo("out") = from - 1
      /\ stage = "out" => UpTo("in") = to /\ UpTo("out") = r.lo - 1
  BY <1>1 DEF UpTo, r
<1>5. /\ Sorted(read[stage]) /\ BlocksOf(read[stage]) = Before \cup (from .. r.lo - 1)
      /\ read[stage] \in Seq(Int)
  BY <1>1, <1>2, <1>4 DEF ReadOK, Unanswered
<1>6. /\ read' \in [Call -> Seq(Int)]
      /\ Sorted(read'[stage]) /\ BlocksOf(read'[stage]) = Before \cup (from .. r.hi)
      /\ \A c \in Call : c # stage => read'[c] = read[c]
  <2>1. /\ read[stage] \o Blocks(r) \in Seq(Int) /\ Sorted(read[stage] \o Blocks(r))
        /\ BlocksOf(read[stage] \o Blocks(r)) = Before \cup (from .. r.hi)
    BY <1>2, <1>3, <1>5, RangeExtends
  <2>2. stage \in Call /\ read \in [Call -> Seq(Int)]
    BY <1>1, <1>2 DEF FetchTypeOK
  <2>3. read'[stage] = read[stage] \o Blocks(r)
    BY <1>1, <2>2
  <2>4. read' \in [Call -> Seq(Int)] /\ \A c \in Call : c # stage => read'[c] = read[c]
    BY <1>1, <2>1, <2>2
  <2> QED BY <2>1, <2>3, <2>4
<1>7. /\ Before' = Before /\ ChunkOK'
      /\ \A c \in Call : Sorted(read[c])' <=> Sorted(read'[c])
  <2>1. Before' = Before /\ ChunkOK'
    BY <1>1, <1>2 DEF Before, ChunkOK, vars
  <2>2. \A c \in Call : Sorted(read[c])' <=> Sorted(read'[c])
    BY <1>1 DEF Sorted, InOrder, OnceEach
  <2> QED BY <2>1, <2>2
<1>8. ASSUME stage' \in {"in", "out", "chunk"}, queue' \in Seq(Spans),
             stage' \in {"in", "out"} => QueueOK',
             UpTo("block")' = to,
             \A c \in {"in", "out"} : UpTo(c)' = IF c = stage THEN r.hi ELSE UpTo(c)
      PROVE  FetchInv'
  <2>1. IInv' /\ SearchOK' /\ FetchTypeOK'
    BY <1>1, <1>2, <1>6, <1>8, SearchKept DEF FetchTypeOK
  <2>2. NullOK'
    BY <1>1, <1>2, <1>4, <1>7, <1>8 DEF NullOK
  <2>3. ReadOK("block")'
    <3>1. read'["block"] = read["block"] /\ ReadOK("block")
      BY <1>1, <1>2, <1>6
    <3> QED BY <1>1, <1>4, <1>7, <1>8, <3>1 DEF ReadOK, Unanswered, Sorted
  <2>4. \A c \in {"in", "out"} : ReadOK(c)'
    <3> TAKE c \in {"in", "out"}
    <3>1. CASE c = stage
      <4>1. UpTo(c)' = r.hi /\ Sorted(read'[c])
            /\ BlocksOf(read'[c]) = Before \cup (from .. r.hi)
        BY <1>6, <1>8, <3>1
      <4> QED BY <1>1, <1>7, <4>1 DEF ReadOK, Unanswered, Sorted
    <3>2. CASE c # stage
      <4>1. read'[c] = read[c] /\ ReadOK(c) /\ UpTo(c)' = UpTo(c)
        BY <1>2, <1>6, <1>8, <3>2
      <4> QED BY <1>1, <1>7, <4>1 DEF ReadOK, Unanswered, Sorted
    <3> QED BY <3>1, <3>2
  <2>5. (\A c \in Call : ReadOK(c))'
    BY <2>3, <2>4
  <2>6. WindowRead' /\ BootstrapContiguous' /\ stage' # "block"
    BY <1>8 DEF WindowRead, BootstrapContiguous, Returned
  <2> QED BY <1>7, <1>8, <2>1, <2>2, <2>5, <2>6 DEF FetchInv
<1>9. CASE Len(queue) > 1
  <2>1. queue' = Tail(queue) /\ stage' = stage
    BY <1>9 DEF FilterLogs
  <2>2. /\ queue' \in Seq(Spans) /\ Chained(queue', to)
        /\ Head(queue').lo = r.hi + 1
    BY <1>3, <1>9, <2>1
  <2>2a. Head(queue').lo - 1 = r.hi /\ from <= Head(queue').lo
    BY <1>2, <1>3, <1>3a, <2>2
  <2>2b. QueueOK'
    BY <1>1, <2>2, <2>2a DEF QueueOK
  <2>3. UpTo("block")' = to
    BY <1>1, <2>1 DEF UpTo
  <2>4. \A c \in {"in", "out"} : UpTo(c)' = IF c = stage THEN r.hi ELSE UpTo(c)
    BY <1>1, <2>1, <2>2a DEF UpTo
  <2> QED BY <1>1, <1>8, <2>1, <2>2, <2>2b, <2>3, <2>4
<1>10. CASE Len(queue) = 1 /\ stage = "in"
  <2>1. queue' = <<Span(from, to)>> /\ stage' = "out"
    BY <1>10 DEF FilterLogs
  <2>2. queue' \in Seq(Spans) /\ Chained(queue', to) /\ Head(queue').lo = from
    BY <1>2, <2>1, ChainOne
  <2>3. QueueOK'
    BY <1>1, <1>2, <2>2 DEF QueueOK
  <2>4. UpTo("block")' = to /\ UpTo("in")' = to /\ UpTo("out")' = from - 1
    BY <1>1, <2>1, <2>2 DEF UpTo
  <2> QED BY <1>3, <1>4, <1>8, <1>10, <2>1, <2>2, <2>3, <2>4
<1>11. CASE Len(queue) = 1 /\ stage = "out"
  <2>1. queue' = <<>> /\ stage' = "chunk"
    BY <1>11 DEF FilterLogs
  <2>2. UpTo("block")' = to /\ UpTo("in")' = to /\ UpTo("out")' = to
    BY <1>1, <2>1 DEF UpTo
  <2> QED BY <1>3, <1>4, <1>8, <1>11, <2>1, <2>2
<1> QED BY <1>1, <1>3, <1>9, <1>10, <1>11

LEMMA TooLargeStep == FetchInv /\ TooLarge => FetchInv'
<1> SUFFICES ASSUME FetchInv, TooLarge PROVE FetchInv'
  OBVIOUS
<1>1. /\ stage \in {"in", "out"} /\ Head(queue).lo < Head(queue).hi
      /\ queue' = Halves(Head(queue)) \o Tail(queue)
      /\ UNCHANGED <<vars, boot, stage, safe, from, to, bn, read, null, taken,
                     ranges, indexed>>
  BY DEF TooLarge
<1>2. /\ TypeOK /\ FetchTypeOK /\ SearchOK /\ ChunkOK /\ NullOK /\ pc = "done"
      /\ \A c \in Call : ReadOK(c)
      /\ to \in Int
  BY <1>1, InChunk
<1>3. QueueOK /\ queue \in Seq(Spans) /\ Chained(queue, to)
  BY <1>1, <1>2 DEF FetchInv, QueueOK, FetchTypeOK
<1>4. Head(queue) = queue[1]
  BY <1>2, <1>3, ChainTail
<1>5. /\ queue' \in Seq(Spans) /\ Chained(queue', to)
      /\ Head(queue').lo = Head(queue).lo
  BY <1>1, <1>2, <1>3, <1>4, ChainSplit
<1>6. IInv' /\ SearchOK' /\ FetchTypeOK' /\ QueueOK'
  BY <1>1, <1>2, <1>3, <1>5, SearchKept DEF FetchTypeOK, QueueOK
<1>7. ChunkOK' /\ Before' = Before /\ \A c : UpTo(c)' = UpTo(c)
  BY <1>1, <1>2, <1>5 DEF ChunkOK, Before, UpTo, vars
<1>8. NullOK' /\ (\A c \in Call : ReadOK(c))'
  BY <1>1, <1>2, <1>7 DEF NullOK, ReadOK, Unanswered, Sorted
<1>9. WindowRead' /\ BootstrapContiguous'
  BY <1>1 DEF WindowRead, BootstrapContiguous, Returned
<1> QED BY <1>1, <1>6, <1>7, <1>8, <1>9 DEF FetchInv

(* The forward scan goes on after the blocks read, or has read them all.   *)
LEMMA ScanStep ==
  ASSUME FetchInv, pc = "done", ~boot, stage' # "search",
         UNCHANGED <<vars, boot, queue, read, null, taken>>,
         NEW b \in Int, NEW e \in Int, safe' = e, Scan(b, e),
         StartBlock <= best, best <= b, b <= e + 1,
         FetchTypeOK, indexed' \in Nat,
         indexed' = 0 \/ (best <= indexed' /\ indexed' < b),
         null \subseteq best .. b - 1,
         \A c \in Call : /\ InOrder(read[c])
                         /\ BlocksOf(read[c]) = (best .. b - 1) \ Unanswered(c)
  PROVE  FetchInv'
<1>1. best \in Int /\ StartBlock \in Int /\ ChunkSize \in Nat \ {0} /\ target \in Int
  BY SearchAssumption, FetchAssumption DEF FetchInv, IInv, TypeOK
<1>2. IInv' /\ SearchOK'
  BY SearchKept
<1>3. CASE b <= e
  <2> DEFINE t == Lesser(b + ChunkSize - 1, e)
  <2>1. /\ from' = b /\ bn' = b /\ to' = t /\ stage' = "block" /\ ranges' = ranges
        /\ t \in Int /\ b <= t /\ t <= e
    BY <1>1, <1>3 DEF Scan, OpenChunk, Lesser
  <2> HIDE DEF t
  <2>2. FetchTypeOK'
    BY <1>1, <2>1 DEF FetchTypeOK
  <2>3. ChunkOK' /\ Before' = best .. b - 1
    BY <1>1, <2>1 DEF ChunkOK, Before, vars
  <2>4. \A c \in Call : /\ Sorted(read[c])'
                        /\ BlocksOf(read'[c]) = Before' \ Unanswered(c)'
    BY <2>3 DEF Sorted, InOrder, Unanswered
  <2> QED BY <1>2, <2>1, <2>2, <2>3, <2>4, Opens
<1>4. CASE ~(b <= e)
  <2>1. b - 1 = e /\ stage' = "returned" /\ UNCHANGED <<from, to, bn, ranges>>
    BY <1>4 DEF Scan, End
  <2>2. FetchTypeOK'
    BY <2>1 DEF FetchTypeOK
  <2>3. \A c \in Call : InOrder(read'[c]) /\ BlocksOf(read'[c]) = Readable(c, best, safe)'
    BY <2>1 DEF Readable, Unanswered, vars
  <2>4. \A h \in StartBlock .. Lesser(best - 1, e) : time[h] < target
    BY <1>1 DEF FetchInv, SearchOK, Lesser
  <2>5. WindowRead'
    BY <2>1, <2>3, <2>4 DEF WindowRead, Lesser, vars, InOrder, Readable
  <2>6. BootstrapContiguous'
    BY DEF BootstrapContiguous
  <2>7. IndexedIsRead'
    <3> SUFFICES ASSUME indexed' > 0, NEW c \in Call
                 PROVE  /\ InOrder(read'[c])
                        /\ {h \in BlocksOf(read'[c]) : h <= indexed'}
                             = (best .. indexed') \ Unanswered(c)
      BY DEF IndexedIsRead, Readable, Unanswered, vars, InOrder
    <3>1. indexed' <= b - 1 /\ indexed' \in Int /\ b - 1 \in Int
      OBVIOUS
    <3>2. {h \in (best .. b - 1) \ Unanswered(c) : h <= indexed'}
            = (best .. indexed') \ Unanswered(c)
      BY <1>1, <3>1, UpToIndexed
    <3> QED BY <3>2
  <2> QED BY <1>2, <2>1, <2>2, <2>5, <2>6, <2>7 DEF FetchInv
<1> QED BY <1>3, <1>4

(* The bootstrap goes one chunk further back, or has one of its reasons    *)
(* to stop.                                                                *)
LEMMA ScanBackStep ==
  ASSUME FetchInv, pc = "done", boot, stage' # "search",
         UNCHANGED <<vars, boot, queue, read, null, indexed>>,
         NEW b \in Int, taken' \in 0 .. Target, safe' \in Int, ScanBack(b, taken'),
         b <= safe', FetchTypeOK, indexed = 0,
         b < StartBlock => from = StartBlock /\ ranges > 0,
         ranges > 0 => from = b + 1,
         b >= StartBlock => safe' - b = ranges * ChunkSize,
         null \subseteq b + 1 .. safe',
         \A c \in Call : /\ OnceEach(read[c])
                         /\ BlocksOf(read[c]) = (b + 1 .. safe') \ Unanswered(c)
  PROVE  FetchInv'
<1>1. /\ StartBlock \in Int /\ ChunkSize \in Nat \ {0} /\ Target \in Nat \ {0}
      /\ MaxRanges \in Nat \ {0} /\ ranges \in 0 .. MaxRanges
  BY SearchAssumption, FetchAssumption DEF FetchTypeOK
<1>2. IInv' /\ SearchOK'
  BY SearchKept
<1>3. CASE b >= StartBlock /\ taken' < Target /\ ranges < MaxRanges
  <2> DEFINE f == Greater(b - ChunkSize + 1, StartBlock)
  <2>1. /\ from' = f /\ bn' = f /\ to' = b /\ stage' = "block" /\ ranges' = ranges + 1
        /\ f \in Int /\ StartBlock <= f /\ f <= b
        /\ f = StartBlock \/ b - f + 1 = ChunkSize
    BY <1>1, <1>3 DEF ScanBack, OpenChunk, Greater
  <2> HIDE DEF f
  <2>2. FetchTypeOK'
    BY <1>1, <1>3, <2>1 DEF FetchTypeOK
  <2>3. f = StartBlock \/ safe' - f + 1 = (ranges + 1) * ChunkSize
    <3> DEFINE p == ranges * ChunkSize
               q == (ranges + 1) * ChunkSize
    <3>1. p \in Int /\ q = p + ChunkSize
      BY <1>1
    <3>2. safe' - b = p
      BY <1>3
    <3> HIDE DEF p, q
    <3>3. f = StartBlock \/ safe' - f + 1 = q
      <4>1. b - f + 1 = ChunkSize => safe' - f + 1 = (safe' - b) + ChunkSize
        BY <1>1, <2>1
      <4> QED BY <2>1, <3>1, <3>2, <4>1
    <3> QED BY <3>3 DEF q
  <2>4. ChunkOK' /\ Before' = b + 1 .. safe'
    <3>1. Before' = b + 1 .. safe'
      BY <2>1 DEF Before
    <3>2. from' = StartBlock \/ safe' - from' + 1 = ranges' * ChunkSize
      BY <2>1, <2>3
    <3>3. ranges' >= 1 /\ boot' /\ indexed' = 0
      BY <1>1, <2>1
    <3>4. StartBlock <= from' /\ from' <= to' /\ to' <= safe'
      BY <2>1
    <3> QED BY <3>1, <3>2, <3>3, <3>4 DEF ChunkOK
  <2>5. \A c \in Call : /\ Sorted(read[c])'
                        /\ BlocksOf(read'[c]) = Before' \ Unanswered(c)'
    BY <2>4 DEF Sorted, OnceEach, Unanswered
  <2> QED BY <1>2, <2>1, <2>2, <2>4, <2>5, Opens
<1>4. CASE ~(b >= StartBlock /\ taken' < Target /\ ranges < MaxRanges)
  <2>1. stage' = "returned" /\ UNCHANGED <<from, to, bn, ranges>>
    BY <1>4 DEF ScanBack, End
  <2>2. FetchTypeOK'
    BY <2>1 DEF FetchTypeOK
  <2>3. WindowRead' /\ IndexedIsRead'
    BY DEF WindowRead, IndexedIsRead
  <2>4. ASSUME ranges > 0
        PROVE  /\ (from = StartBlock \/ taken' = Target
                    \/ safe' - from + 1 = MaxRanges * ChunkSize)
               /\ from = b + 1
    <3>1. CASE b < StartBlock
      BY <2>4, <3>1
    <3>2. CASE b >= StartBlock
      <4>1. taken' = Target \/ ranges = MaxRanges
        BY <1>1, <1>4, <3>2
      <4>2. safe' - from + 1 = safe' - b /\ safe' - b = ranges * ChunkSize
        BY <2>4, <3>2
      <4> QED BY <2>4, <4>1, <4>2
    <3> QED BY <1>1, <3>1, <3>2
  <2>5. BootstrapContiguous'
    <3> SUFFICES ASSUME ranges > 0
                 PROVE  BootstrapContiguous'
      BY <2>1 DEF BootstrapContiguous
    <3>1. \A c \in Call : OnceEach(read'[c])
             /\ BlocksOf(read'[c]) = Readable(c, from, safe)'
      BY <2>1, <2>4 DEF Readable, Unanswered
    <3> QED BY <2>1, <2>4, <3>1 DEF BootstrapContiguous, OnceEach, Readable
  <2> QED BY <1>2, <2>1, <2>2, <2>3, <2>5 DEF FetchInv
<1> QED BY <1>3, <1>4

LEMMA FetchHeadStep == FetchInv /\ FetchHead => FetchInv'
<1> SUFFICES ASSUME FetchInv, FetchHead PROVE FetchInv'
  OBVIOUS
<1>1. /\ pc = "done" /\ stage = "search"
      /\ UNCHANGED <<vars, boot, queue, read, null, taken, indexed>>
  BY DEF FetchHead
<1>2. /\ FetchTypeOK /\ TypeOK /\ IInv /\ boot \in BOOLEAN
      /\ read = [c \in Call |-> <<>>] /\ null = {} /\ indexed = 0 /\ ranges = 0
      /\ taken = 0 /\ best \in Int /\ StartBlock \in Int
  BY <1>1, SearchAssumption DEF FetchInv, SearchOK, IInv, TypeOK, FetchTypeOK
<1>3. StartBlock <= best /\ best \in Int /\ StartBlock \in Int
  BY <1>1, <1>2 DEF IInv, SearchRight, IsStart, Choice!IsStart
<1>4. safe' \in Int /\ \/ best > safe' /\ End("returned") /\ UNCHANGED ranges
                       \/ best <= safe' /\ boot /\ ScanBack(safe', 0)
                       \/ best <= safe' /\ ~boot /\ Scan(best, safe')
  <2>1. MaxLatest \in Nat /\ Confirmations \in Nat
    BY SearchAssumption, FetchAssumption
  <2> QED BY <1>2, <2>1 DEF FetchHead
<1>5. \A c \in Call : /\ read[c] = <<>> /\ BlocksOf(read[c]) = {}
                      /\ InOrder(read[c]) /\ OnceEach(read[c])
  BY <1>2 DEF BlocksOf, InOrder, OnceEach
<1>6. CASE best > safe' /\ End("returned") /\ UNCHANGED ranges
  <2>1. stage' = "returned" /\ UNCHANGED <<from, to, bn, ranges>>
    BY <1>6 DEF End
  <2>2. IInv' /\ SearchOK' /\ FetchTypeOK'
    BY <1>1, <1>2, <1>4, <2>1, SearchKept DEF FetchTypeOK
  <2>3. best .. safe' = {}
    BY <1>2, <1>4, <1>6
  <2>4. \A h \in StartBlock .. Lesser(best - 1, safe') : time[h] < target
    BY <1>2, <1>4 DEF FetchInv, SearchOK, Lesser
  <2>5. WindowRead'
    BY <1>1, <1>5, <2>1, <2>3, <2>4
       DEF WindowRead, Lesser, vars, InOrder, Readable, BlocksOf
  <2>6. BootstrapContiguous' /\ IndexedIsRead'
    BY <1>1, <1>2, <2>1 DEF BootstrapContiguous, IndexedIsRead
  <2> QED BY <2>1, <2>2, <2>5, <2>6 DEF FetchInv
<1>7. CASE best <= safe' /\ boot /\ ScanBack(safe', 0)
  <2>1. stage' # "search"
    BY <1>7 DEF ScanBack, End, OpenChunk
  <2>2. safe' + 1 .. safe' = {} /\ safe' - safe' = 0 * ChunkSize /\ safe' >= StartBlock
    <3>1. safe' \in Int /\ best <= safe' /\ ChunkSize \in Int
      BY <1>4, <1>7, FetchAssumption
    <3>2. \A n \in Int : n + 1 .. n = {}
      OBVIOUS
    <3>3. \A n, c \in Int : n - n = 0 * c
      OBVIOUS
    <3>4. safe' >= StartBlock
      BY <1>3, <3>1
    <3> QED BY <3>1, <3>2, <3>3, <3>4
  <2>3. taken' = 0 /\ 0 \in 0 .. Target
    BY <1>1, <1>2, FetchAssumption
  <2> QED BY <1>1, <1>2, <1>3, <1>4, <1>5, <1>7, <2>1, <2>2, <2>3, ScanBackStep
<1>8. CASE best <= safe' /\ ~boot /\ Scan(best, safe')
  <2>1. stage' # "search"
    BY <1>8 DEF Scan, End, OpenChunk
  <2>2. best .. best - 1 = {} /\ best <= safe' + 1
    <3>1. safe' \in Int /\ best <= safe'
      BY <1>4, <1>8
    <3>2. \A n \in Int : n .. n - 1 = {}
      OBVIOUS
    <3>3. best <= safe' + 1
      <4>1. \A m, n \in Int : m <= n => m <= n + 1
        OBVIOUS
      <4> QED BY <1>3, <3>1, <4>1
    <3> QED BY <1>3, <3>2, <3>3
  <2> QED BY <1>1, <1>2, <1>3, <1>4, <1>5, <1>8, <2>1, <2>2, ScanStep
<1> QED BY <1>4, <1>6, <1>7, <1>8

LEMMA SaveChunkStep == FetchInv /\ SaveChunk => FetchInv'
<1> SUFFICES ASSUME FetchInv, SaveChunk PROVE FetchInv'
  OBVIOUS
<1>1. /\ stage = "chunk" /\ ~boot /\ indexed' = to /\ Scan(to + 1, safe)
      /\ UNCHANGED <<vars, boot, safe, queue, read, null, taken>>
  BY DEF SaveChunk
<1>2. /\ FetchTypeOK /\ ChunkOK /\ NullOK /\ pc = "done"
      /\ from \in Int /\ to \in Int /\ safe \in Int /\ best \in Int
      /\ StartBlock \in Nat /\ from <= to
      /\ \A c \in Call : ReadOK(c)
  BY <1>1, InChunk, SearchAssumption
<1>3. StartBlock <= best /\ best <= from /\ to <= safe
  BY <1>1, <1>2 DEF ChunkOK, FetchInv, IInv, SearchRight, IsStart, Choice!IsStart
<1>4. (best .. from - 1) \cup (from .. to) = best .. (to + 1) - 1
  BY <1>2, <1>3
<1>5. /\ null \subseteq best .. (to + 1) - 1
      /\ \A c \in Call : /\ InOrder(read[c])
                          /\ BlocksOf(read[c]) = (best .. (to + 1) - 1) \ Unanswered(c)
  BY <1>1, <1>2, <1>4 DEF ReadOK, NullOK, UpTo, Before, Sorted, Call
<1>6. stage' # "search"
  BY <1>1 DEF Scan, End, OpenChunk
<1>7. /\ to \in Nat /\ to + 1 \in Int /\ best <= to + 1 /\ to + 1 <= safe + 1
      /\ best <= to /\ to < to + 1
  BY <1>2, <1>3
<1> QED BY <1>1, <1>2, <1>3, <1>5, <1>6, <1>7, ScanStep

LEMMA TakeRowsStep == FetchInv /\ TakeRows => FetchInv'
<1> SUFFICES ASSUME FetchInv, TakeRows PROVE FetchInv'
  OBVIOUS
<1>1. /\ stage = "chunk" /\ boot /\ taken' \in taken .. Target
      /\ ScanBack(from - 1, taken')
      /\ UNCHANGED <<vars, boot, safe, queue, read, null, indexed>>
  BY DEF TakeRows
<1>2. /\ FetchTypeOK /\ ChunkOK /\ NullOK /\ pc = "done"
      /\ from \in Int /\ to \in Int /\ safe \in Int
      /\ StartBlock \in Int /\ from <= to
      /\ \A c \in Call : ReadOK(c)
  BY <1>1, InChunk
<1>3. /\ StartBlock <= from /\ to <= safe /\ indexed = 0 /\ ranges >= 1
      /\ from = StartBlock \/ safe - from + 1 = ranges * ChunkSize
      /\ ranges \in Int /\ taken \in 0 .. Target /\ Target \in Nat
  BY <1>1, <1>2, FetchAssumption DEF ChunkOK, FetchTypeOK
<1>4. (to + 1 .. safe) \cup (from .. to) = (from - 1) + 1 .. safe
  BY <1>2, <1>3
<1>5. /\ null \subseteq (from - 1) + 1 .. safe
      /\ \A c \in Call : /\ OnceEach(read[c])
                          /\ BlocksOf(read[c]) = ((from - 1) + 1 .. safe) \ Unanswered(c)
  BY <1>1, <1>2, <1>4 DEF ReadOK, NullOK, UpTo, Before, Sorted, Call
<1>6. stage' # "search"
  BY <1>1 DEF ScanBack, End, OpenChunk
<1>7. /\ from - 1 \in Int /\ from - 1 <= safe /\ from = (from - 1) + 1
      /\ taken' \in 0 .. Target /\ ranges > 0
      /\ from - 1 < StartBlock => from = StartBlock
      /\ safe - (from - 1) = safe - from + 1
  BY <1>1, <1>2, <1>3
<1>8. from - 1 >= StartBlock => safe - (from - 1) = ranges * ChunkSize
  <2>1. from - 1 >= StartBlock => from # StartBlock
    BY <1>2
  <2> QED BY <1>3, <1>7, <2>1
<1>9. /\ safe' = safe /\ ScanBack(from - 1, taken')
  BY <1>1
<1> QED BY <1>1, <1>2, <1>3, <1>5, <1>6, <1>7, <1>8, <1>9, ScanBackStep

LEMMA FetchFailsStep == FetchInv /\ FetchFails => FetchInv'
<1> SUFFICES ASSUME FetchInv, FetchFails PROVE FetchInv'
  OBVIOUS
<1>1. /\ pc = "done" /\ stage' = "failed"
      /\ UNCHANGED <<vars, boot, safe, from, to, bn, queue, read, null, taken,
                     ranges, indexed>>
  BY DEF FetchFails
<1>2. IInv' /\ SearchOK' /\ FetchTypeOK'
  BY <1>1, SearchKept DEF FetchInv, FetchTypeOK
<1>3. IndexedIsRead'
  <2>1. IndexedIsRead
    BY IndexedHolds
  <2> QED BY <1>1, <2>1 DEF IndexedIsRead, vars, Readable
<1>4. WindowRead' /\ BootstrapContiguous'
  BY <1>1 DEF WindowRead, BootstrapContiguous, Returned
<1> QED BY <1>1, <1>2, <1>3, <1>4 DEF FetchInv

(* While the search runs, every block before its best so far is before the *)
(* target.                                                                 *)
LEMMA SearchStep ==
  FetchInv /\ (Probe \/ Finish \/ HeaderFails) /\ UNCHANGED fetchVars => FetchInv'
<1> SUFFICES ASSUME FetchInv, Probe \/ Finish \/ HeaderFails, UNCHANGED fetchVars
             PROVE  FetchInv'
  OBVIOUS
<1>1. /\ IInv /\ FetchTypeOK /\ SearchOK /\ pc = "search" /\ stage = "search"
      /\ UNCHANGED <<time, target, latest>>
  BY DEF FetchInv, SearchOK, Probe, Finish, HeaderFails
<1>2. IInv'
  BY <1>1, StepIInv DEF Next
<1>3. FetchTypeOK'
  BY <1>1 DEF FetchTypeOK, fetchVars
<1>4. \A h \in StartBlock .. best' - 1 : time[h] < target
  <2>1. CASE best' = best
    BY <1>1, <2>1 DEF SearchOK
  <2>2. CASE best' # best
    <3> DEFINE mid == (low + high) \div 2
    <3>1. low <= high /\ best' = mid /\ (time[mid] < target \/ time[mid] = target)
      BY <2>2 DEF Probe, Finish, HeaderFails
    <3>2. mid \in 0 .. MaxLatest /\ MaxLatest \in Nat /\ StartBlock \in Nat
      BY <1>1, <3>1, Middle, SearchAssumption
    <3> HIDE DEF mid
    <3>3. /\ time \in [0 .. MaxLatest -> 0 .. MaxTime] /\ target \in Int
          /\ \A g, h \in 0 .. MaxLatest : g < h => time[g] < time[h]
      BY <1>1 DEF IInv, TypeOK, Increasing
    <3> TAKE h \in StartBlock .. best' - 1
    <3>4. h \in 0 .. MaxLatest /\ h < mid
      BY <3>1, <3>2
    <3>5. time[h] < time[mid] /\ time[h] \in Int /\ time[mid] \in Int
      BY <3>2, <3>3, <3>4
    <3> QED BY <3>1, <3>3, <3>5
  <2> QED BY <2>1, <2>2
<1>5. SearchOK'
  BY <1>1, <1>4 DEF SearchOK, fetchVars
<1>6. stage' = "search"
  BY <1>1 DEF fetchVars
<1>7. WindowRead' /\ BootstrapContiguous'
  BY <1>6 DEF WindowRead, BootstrapContiguous, Returned
<1> QED BY <1>2, <1>3, <1>5, <1>6, <1>7 DEF FetchInv

LEMMA FetchInitInv == FetchInit => FetchInv
<1> SUFFICES ASSUME FetchInit PROVE FetchInv
  OBVIOUS
<1>1. IInv /\ pc = "search" /\ stage = "search" /\ best = StartBlock
  BY InitIInv DEF FetchInit, Init
<1>2. FetchTypeOK
  BY FetchAssumption DEF FetchInit, FetchTypeOK, Call
<1>3. StartBlock .. best - 1 = {}
  BY <1>1, SearchAssumption
<1>4. SearchOK
  BY <1>1, <1>3 DEF SearchOK, FetchInit
<1> QED BY <1>1, <1>2, <1>4 DEF FetchInv, WindowRead, BootstrapContiguous, Returned

(* It says nothing of the logs at hand.                                    *)
LEMMA RestKept ==
  ASSUME FetchInv, UNCHANGED <<vars, boot, stage, safe, from, to, bn, queue, read, null,
                               taken, ranges, indexed>>
  PROVE  FetchInv'
<1>1. IInv'
  BY StepIInv DEF FetchInv
<1>2. FetchTypeOK' /\ SearchOK'
  BY DEF FetchInv, FetchTypeOK, SearchOK, vars
<1>3. /\ ChunkOK' <=> ChunkOK
      /\ NullOK' <=> NullOK
      /\ QueueOK' <=> QueueOK
  BY DEF ChunkOK, NullOK, QueueOK, Before, UpTo, vars, Chained
<1>4. (\A c \in Call : ReadOK(c))' <=> \A c \in Call : ReadOK(c)
  BY DEF ReadOK, Sorted, Before, UpTo, Unanswered, vars, InOrder, OnceEach, BlocksOf
<1>5. /\ WindowRead' <=> WindowRead
      /\ IndexedIsRead' <=> IndexedIsRead
      /\ BootstrapContiguous' <=> BootstrapContiguous
  BY DEF WindowRead, IndexedIsRead, BootstrapContiguous, Returned, Readable,
         InOrder, OnceEach, BlocksOf, vars
<1> QED BY <1>1, <1>2, <1>3, <1>4, <1>5 DEF FetchInv

LEMMA FetchStepInv == FetchInv /\ [FetchNext]_<<vars, fetchVars>> => FetchInv'
<1> SUFFICES ASSUME FetchInv, [FetchNext]_<<vars, fetchVars>> PROVE FetchInv'
  OBVIOUS
<1>1. CASE LogHeader \/ UNCHANGED <<vars, fetchVars>>
  <2>1. UNCHANGED <<vars, boot, stage, safe, from, to, bn, queue, read, null, taken,
                    ranges, indexed>>
    BY <1>1 DEF LogHeader, fetchVars
  <2> QED BY <2>1, RestKept
<1>2. CASE FetchNext /\ ~LogHeader
  BY <1>2, SearchStep, FetchHeadStep, GetBlockStep, FilterLogsStep, TooLargeStep,
     SaveChunkStep, TakeRowsStep, FetchFailsStep
     DEF FetchNext, FetchStep, FetchFault
<1> QED BY <1>1, <1>2

THEOREM FetchInvariance == FetchSpec => []FetchInv
BY FetchInitInv, FetchStepInv, PTL DEF FetchSpec

(* A fetch that returns has read its whole window, whatever the length of  *)
(* the chain, the size of the chunks and the ranges the node refuses.      *)
THEOREM FetchReadsWindow == FetchSpec => []WindowRead
<1>1. FetchInv => WindowRead
  BY DEF FetchInv
<1> QED BY <1>1, FetchInvariance, PTL

(* The indexer state never runs ahead of what has been read.               *)
THEOREM IndexFollowsReading == FetchSpec => []IndexedIsRead
BY IndexedHolds, FetchInvariance, PTL

(* A bootstrap leaves no hole and reads no block twice, and stops for one  *)
(* of its three reasons, whatever their limits.                            *)
THEOREM BootstrapHasNoHole == FetchSpec => []BootstrapContiguous
<1>1. FetchInv => BootstrapContiguous
  BY DEF FetchInv
<1> QED BY <1>1, FetchInvariance, PTL

-----------------------------------------------------------------------------
(* The calls of a fetch.                                                   *)

Scanning == {"block", "in", "out", "chunk"}

(* Ranges that follow each other are no more than the blocks they cover:   *)
(* by induction over the queue, each begins a block after the one before.  *)
LEMMA ChainLength ==
  ASSUME NEW q \in Seq(Spans), NEW end \in Int, Chained(q, end)
  PROVE  Len(q) \in Nat /\ 0 < Len(q) /\ Len(q) <= end - Head(q).lo + 1
<1>1. /\ Len(q) \in Nat /\ Len(q) > 0 /\ Head(q) = q[1]
      /\ \A i \in 1 .. Len(q) : q[i].lo \in Int /\ q[i].hi \in Int
  <2>1. \A i \in 1 .. Len(q) : q[i] \in Spans
    OBVIOUS
  <2> QED BY <2>1 DEF Chained, Spans
<1> DEFINE S == {n \in Nat : n < Len(q) => q[1].lo + n <= q[n + 1].lo}
<1>2. 0 \in S
  BY <1>1
<1>3. ASSUME NEW n \in Nat, n \in S PROVE n + 1 \in S
  <2>1. SUFFICES ASSUME n + 1 < Len(q) PROVE q[1].lo + (n + 1) <= q[(n + 1) + 1].lo
    BY <1>3
  <2>2. n + 1 \in 1 .. Len(q) - 1 /\ n + 1 \in 1 .. Len(q) /\ (n + 1) + 1 \in 1 .. Len(q)
    BY <1>1, <2>1
  <2>3. q[n + 1].lo <= q[n + 1].hi /\ q[n + 1].hi + 1 = q[(n + 1) + 1].lo
    BY <2>2 DEF Chained
  <2>4. q[1].lo + n <= q[n + 1].lo
    BY <1>1, <1>3, <2>1
  <2>5. /\ q[1].lo \in Int /\ q[n + 1].lo \in Int /\ q[n + 1].hi \in Int
        /\ q[(n + 1) + 1].lo \in Int
    BY <1>1, <2>2
  <2> DEFINE a == q[1].lo
             b == q[n + 1].lo
             c == q[n + 1].hi
             d == q[(n + 1) + 1].lo
  <2>6. n \in Int /\ a \in Int /\ b \in Int /\ c \in Int /\ d \in Int
        /\ b <= c /\ c + 1 = d /\ a + n <= b
    BY <2>3, <2>4, <2>5
  <2> HIDE DEF a, b, c, d
  <2>7. a + (n + 1) <= d
    BY ONLY <2>6
  <2> QED BY <2>7 DEF a, d
<1> HIDE DEF S
<1>4. Len(q) - 1 \in S
  BY <1>1, <1>2, <1>3, NatSetInduction
<1>5. q[1].lo + (Len(q) - 1) <= q[Len(q)].lo
  BY <1>1, <1>4 DEF S
<1>6. q[Len(q)].lo <= end
  BY <1>1 DEF Chained
<1> QED BY <1>1, <1>5, <1>6

(* A header halves what is left to search.                                 *)
LEMMA ProbeHalves ==
  IInv /\ Probe => pc' = "done" \/ 2 * (high' - low' + 1) <= high - low + 1
<1> SUFFICES ASSUME IInv, Probe, pc' # "done"
             PROVE  2 * (high' - low' + 1) <= high - low + 1
  OBVIOUS
<1>1. low \in Int /\ high \in Int /\ low <= high
  BY DEF IInv, TypeOK, Probe
<1> DEFINE mid == (low + high) \div 2
<1>2. mid \in Int /\ 2 * mid <= low + high /\ low + high <= 2 * mid + 1
  BY <1>1
<1>3. \/ low' = mid + 1 /\ high' = high
      \/ low' = low /\ high' = mid - 1
  BY DEF Probe
<1> HIDE DEF mid
<1> QED BY <1>1, <1>2, <1>3

(* What a scan has to count on.                                            *)
LEMMA Counted ==
  ASSUME FetchInv, stage \in Scanning
  PROVE  /\ BlocksLeft \in Nat /\ from \in Int /\ to \in Int /\ bn \in Int
         /\ safe \in Int /\ from <= to
         /\ stage = "block" => from <= bn /\ bn <= to
         /\ stage \in {"in", "out"} =>
              /\ Head(queue).lo \in Int /\ from <= Head(queue).lo
              /\ Len(queue) \in Nat /\ 0 < Len(queue)
              /\ Len(queue) <= to - Head(queue).lo + 1
<1>1. /\ FetchTypeOK /\ ChunkOK /\ from \in Int /\ to \in Int /\ bn \in Int
      /\ safe \in Int /\ StartBlock \in Int /\ from <= to
  BY InChunk DEF Scanning
<1>2. BlocksLeft \in Nat
  <2>1. MaxRanges - ranges \in Nat /\ ChunkSize \in Nat
    BY <1>1, FetchAssumption DEF FetchTypeOK
  <2>2. (MaxRanges - ranges) * ChunkSize \in Nat
    BY <2>1
  <2> QED BY <1>1, <2>2 DEF BlocksLeft, Lesser, ChunkOK
<1>3. ASSUME stage \in {"in", "out"}
      PROVE  /\ Head(queue).lo \in Int /\ from <= Head(queue).lo
             /\ Len(queue) \in Nat /\ 0 < Len(queue)
             /\ Len(queue) <= to - Head(queue).lo + 1
  <2>1. QueueOK /\ queue \in Seq(Spans)
    BY <1>1, <1>3 DEF FetchInv, FetchTypeOK
  <2>2. Head(queue) \in Spans
    BY <1>1, <2>1, ChainTail DEF QueueOK
  <2> QED BY <1>1, <2>1, <2>2, ChainLength DEF QueueOK, Spans
<1> QED BY <1>1, <1>2, <1>3 DEF FetchInv

(* The scan forward takes five calls a block, less one.                    *)
LEMMA ScanCalls ==
  ASSUME boot' = boot, ~boot, NEW b \in Int, NEW e \in Int, safe' = e, Scan(b, e)
  PROVE  \/ stage' = "returned" /\ ScanLeft' = 0
         \/ ScanLeft' \in Nat /\ ScanLeft' = 5 * (e - b + 1) - 1
<1>1. ChunkSize \in Nat \ {0}
  BY FetchAssumption
<1>2. CASE b <= e
  <2> DEFINE t == Lesser(b + ChunkSize - 1, e)
  <2>1. t \in Int /\ b <= t /\ t <= e
    BY <1>1, <1>2 DEF Lesser
  <2>2. from' = b /\ bn' = b /\ to' = t /\ stage' = "block"
    BY <1>2 DEF Scan, OpenChunk
  <2> HIDE DEF t
  <2>3. ScanLeft' = 5 * (e - t) + 4 * (t - b + 1) + t - b
    BY <2>2 DEF ScanLeft, BlocksLeft
  <2> QED BY <2>1, <2>3
<1>3. CASE ~ (b <= e)
  BY <1>3 DEF Scan, End, ScanLeft
<1> QED BY <1>2, <1>3

(* So does the scan back, of the blocks and the chunks it may still take.  *)
LEMMA ScanBackCalls ==
  ASSUME FetchTypeOK, boot' = boot, boot, NEW b \in Int, NEW n, ScanBack(b, n),
         NEW m, m = b - StartBlock + 1
  PROVE  \/ stage' = "returned" /\ ScanLeft' = 0
         \/ /\ ScanLeft' \in Nat
            /\ ScanLeft' < 5 * Lesser(m, (MaxRanges - ranges) * ChunkSize)
<1>1. /\ StartBlock \in Int /\ ChunkSize \in Nat \ {0} /\ MaxRanges \in Nat
      /\ ranges \in 0 .. MaxRanges
  BY SearchAssumption, FetchAssumption DEF FetchTypeOK
<1>2. CASE b >= StartBlock /\ n < Target /\ ranges < MaxRanges
  <2> DEFINE f == Greater(b - ChunkSize + 1, StartBlock)
             p == (MaxRanges - (ranges + 1)) * ChunkSize
             l == Lesser(f - StartBlock, p)
  <2>1. f \in Int /\ StartBlock <= f /\ f <= b /\ b - f + 1 <= ChunkSize
    BY <1>1, <1>2 DEF Greater
  <2>2. from' = f /\ bn' = f /\ to' = b /\ stage' = "block" /\ ranges' = ranges + 1
    BY <1>2 DEF ScanBack, OpenChunk
  <2>3. p \in Nat /\ (MaxRanges - ranges) * ChunkSize = p + ChunkSize
    <3>1. MaxRanges - (ranges + 1) \in Nat
      BY <1>1, <1>2
    <3>2. \A x \in Nat : x * ChunkSize \in Nat /\ (x + 1) * ChunkSize = x * ChunkSize + ChunkSize
      BY <1>1
    <3>3. (MaxRanges - (ranges + 1)) + 1 = MaxRanges - ranges
      BY <1>1
    <3> QED BY <3>1, <3>2, <3>3
  <2>4. ScanLeft' = 5 * l + 4 * (b - f + 1) + b - f
    BY <2>2 DEF ScanLeft, BlocksLeft
  <2> HIDE DEF f, p
  <2>5. l \in Nat /\ l + (b - f + 1) <= Lesser(m, p + ChunkSize)
    BY <1>1, <2>1, <2>3 DEF Lesser
  <2> HIDE DEF l
  <2>6. Lesser(m, p + ChunkSize) \in Int
    BY <1>1, <2>3 DEF Lesser
  <2> QED BY <2>1, <2>3, <2>4, <2>5, <2>6
<1>3. CASE ~ (b >= StartBlock /\ n < Target /\ ranges < MaxRanges)
  BY <1>3 DEF ScanBack, End, ScanLeft
<1> QED BY <1>2, <1>3

LEMMA HeadCalls ==
  ASSUME FetchInv, FetchHead
  PROVE  Returned' \/ ScanLeft' < 5 * Window'
<1>1. /\ stage = "search" /\ FetchTypeOK /\ best \in Int /\ boot \in BOOLEAN
      /\ StartBlock \in Int /\ Confirmations \in Int /\ UNCHANGED <<best, boot>>
  BY SearchAssumption, FetchAssumption
     DEF FetchInv, IInv, TypeOK, FetchTypeOK, FetchHead, vars
<1>2. PICK head \in 0 .. MaxLatest :
        /\ safe' = IF head <= Confirmations THEN -1 ELSE head - Confirmations
        /\ IF best > safe'
           THEN End("returned") /\ UNCHANGED ranges
           ELSE IF boot THEN ScanBack(safe', 0) ELSE Scan(best, safe')
  BY DEF FetchHead
<1>3. safe' \in Int
  BY <1>1, <1>2, SearchAssumption
<1>4. CASE best > safe'
  BY <1>2, <1>4 DEF End, Returned
<1>5. CASE ~ (best > safe') /\ boot
  <2>1. ranges = 0 /\ MaxRanges - ranges = MaxRanges
    BY <1>1, FetchAssumption DEF FetchInv, SearchOK
  <2>2. ScanBack(safe', 0)
    BY <1>2, <1>5
  <2>3. \/ stage' = "returned"
        \/ ScanLeft' < 5 * Lesser(safe' - StartBlock + 1, (MaxRanges - ranges) * ChunkSize)
    BY <1>1, <1>3, <1>5, <2>2, ScanBackCalls
  <2>4. Window' = Lesser(safe' - StartBlock + 1, MaxRanges * ChunkSize)
    BY <1>1, <1>5 DEF Window
  <2> QED BY <2>1, <2>3, <2>4 DEF Returned
<1>6. CASE ~ (best > safe') /\ ~boot
  <2>1. Scan(best, safe')
    BY <1>2, <1>6
  <2>2. stage' = "returned" \/ ScanLeft' = 5 * (safe' - best + 1) - 1
    BY <1>1, <1>3, <1>6, <2>1, ScanCalls
  <2>3. Window' = safe' - best + 1
    BY <1>1, <1>6 DEF Window
  <2>4. 5 * (safe' - best + 1) - 1 < 5 * (safe' - best + 1)
    <3>1. \A x \in Int : 5 * x - 1 < 5 * x
      OBVIOUS
    <3>2. safe' - best + 1 \in Int
      BY <1>1, <1>3
    <3> QED BY <3>1, <3>2
  <2> QED BY <2>2, <2>3, <2>4 DEF Returned
<1> QED BY <1>4, <1>5, <1>6

(* Each call of the scan that is answered leaves one fewer.                *)
LEMMA BlockCalls ==
  ASSUME FetchInv, GetBlock
  PROVE  0 <= ScanLeft' /\ ScanLeft' < ScanLeft
<1>1. /\ stage = "block" /\ bn' = bn + 1
      /\ UNCHANGED <<vars, boot, safe, from, to, ranges>>
      /\ IF bn < to THEN UNCHANGED <<stage, queue>>
                    ELSE stage' = "in" /\ queue' = <<Span(from, to)>>
  BY DEF GetBlock
<1>2. /\ BlocksLeft \in Nat /\ from \in Int /\ to \in Int /\ bn \in Int
      /\ from <= bn /\ bn <= to /\ from <= to
  BY <1>1, Counted DEF Scanning
<1>3. BlocksLeft' = BlocksLeft
  BY <1>1 DEF BlocksLeft
<1>4. ScanLeft = 5 * BlocksLeft + 4 * (to - from + 1) + to - bn
  BY <1>1 DEF ScanLeft
<1>5. CASE bn < to
  <2>1. ScanLeft' = 5 * BlocksLeft + 4 * (to - from + 1) + to - (bn + 1)
    BY <1>1, <1>3, <1>5 DEF ScanLeft
  <2> QED BY <1>2, <1>4, <1>5, <2>1
<1>6. CASE ~ (bn < to)
  <2>1. Head(queue').lo = from /\ Len(queue') = 1
    <3>1. queue' = <<Span(from, to)>>
      BY <1>1, <1>6
    <3>2. Head(<<Span(from, to)>>).lo = from
      BY <1>2, ChainOne
    <3> QED BY <3>1, <3>2
  <2>2. ScanLeft' = 5 * BlocksLeft + 2 * (to - from + 1) + (2 * (to - from + 1) - 1)
    BY <1>1, <1>3, <1>6, <2>1 DEF ScanLeft, LogCalls
  <2> QED BY <1>2, <1>4, <1>6, <2>2
<1> QED BY <1>5, <1>6

LEMMA LogsCalls ==
  ASSUME FetchInv, FilterLogs
  PROVE  0 <= ScanLeft' /\ ScanLeft' < ScanLeft
<1>1. /\ stage \in {"in", "out"}
      /\ UNCHANGED <<vars, boot, safe, from, to, bn, ranges>>
      /\ IF Len(queue) > 1
         THEN queue' = Tail(queue) /\ UNCHANGED stage
         ELSE IF stage = "in"
              THEN stage' = "out" /\ queue' = <<Span(from, to)>>
              ELSE stage' = "chunk" /\ queue' = <<>>
  BY DEF FilterLogs
<1> DEFINE lo == Head(queue).lo
           q == Len(queue)
<1>2. /\ BlocksLeft \in Nat /\ from \in Int /\ to \in Int /\ from <= to
      /\ lo \in Int /\ from <= lo /\ q \in Nat /\ 0 < q /\ q <= to - lo + 1
  BY <1>1, Counted DEF Scanning
<1>3. BlocksLeft' = BlocksLeft
  BY <1>1 DEF BlocksLeft
<1>4. ScanLeft = 5 * BlocksLeft + (2 * (to - lo + 1) - q)
                    + IF stage = "in" THEN 2 * (to - from + 1) ELSE 1
  <2>1. LogCalls = 2 * (to - lo + 1) - q
    BY DEF LogCalls
  <2> HIDE DEF lo, q
  <2>2. CASE stage = "in"
    BY <1>2, <2>1, <2>2 DEF ScanLeft
  <2>3. CASE stage = "out"
    BY <1>2, <2>1, <2>3 DEF ScanLeft
  <2> QED BY <1>1, <2>2, <2>3
<1>5. CASE q > 1
  <2> DEFINE lo2 == Head(Tail(queue)).lo
             q2 == Len(Tail(queue))
  <2>1. QueueOK /\ queue \in Seq(Spans)
    BY <1>1 DEF FetchInv, FetchTypeOK
  <2>2. /\ Head(queue) \in Spans /\ lo <= Head(queue).hi
        /\ Tail(queue) \in Seq(Spans) /\ Chained(Tail(queue), to)
        /\ lo2 = Head(queue).hi + 1
    BY <1>2, <1>5, <2>1, ChainTail DEF QueueOK
  <2>3. lo2 \in Int /\ lo + 1 <= lo2
    <3>1. Head(queue).hi \in Int
      BY <2>2 DEF Spans
    <3> HIDE DEF lo, lo2
    <3> QED BY <1>2, <2>2, <3>1
  <2>4. q2 \in Nat /\ q2 <= to - lo2 + 1 /\ q2 = q - 1
    <3>1. q2 = q - 1
      BY <1>5, <2>1
    <3> QED BY <1>2, <2>2, <3>1, ChainLength
  <2>5. LogCalls' = 2 * (to - lo2 + 1) - q2
    BY <1>1, <1>5 DEF LogCalls
  <2> HIDE DEF lo, q, lo2, q2
  <2>6. stage' = stage
    BY <1>1, <1>5 DEF q
  <2>7. CASE stage = "in"
    <3>1. ScanLeft' = 5 * BlocksLeft + 2 * (to - from + 1) + (2 * (to - lo2 + 1) - q2)
      BY <1>1, <1>3, <2>5, <2>6, <2>7 DEF ScanLeft
    <3> QED BY <1>2, <1>4, <2>3, <2>4, <2>7, <3>1
  <2>8. CASE stage = "out"
    <3>1. ScanLeft' = 5 * BlocksLeft + (2 * (to - lo2 + 1) - q2) + 1
      BY <1>1, <1>3, <2>5, <2>6, <2>8 DEF ScanLeft
    <3> QED BY <1>2, <1>4, <2>3, <2>4, <2>8, <3>1
  <2> QED BY <1>1, <2>7, <2>8
<1>6. CASE ~ (q > 1) /\ stage = "in"
  <2>1. stage' = "out" /\ Head(queue').lo = from /\ Len(queue') = 1
    BY <1>1, <1>2, <1>6, ChainOne
  <2>2. ScanLeft' = 5 * BlocksLeft + (2 * (to - from + 1) - 1) + 1
    BY <1>1, <1>3, <2>1 DEF ScanLeft, LogCalls
  <2> HIDE DEF lo, q
  <2> QED BY <1>2, <1>4, <1>6, <2>2
<1>7. CASE ~ (q > 1) /\ stage = "out"
  <2>1. ScanLeft' = 5 * BlocksLeft + 1
    BY <1>1, <1>3, <1>7 DEF ScanLeft
  <2> HIDE DEF lo, q
  <2> QED BY <1>2, <1>4, <1>7, <2>1
<1> QED BY <1>1, <1>5, <1>6, <1>7

LEMMA TooLargeCalls ==
  ASSUME FetchInv, TooLarge
  PROVE  0 <= ScanLeft' /\ ScanLeft' < ScanLeft
<1>1. /\ stage \in {"in", "out"} /\ Head(queue).lo < Head(queue).hi
      /\ queue' = Halves(Head(queue)) \o Tail(queue)
      /\ UNCHANGED <<vars, boot, stage, safe, from, to, bn, ranges>>
  BY DEF TooLarge
<1> DEFINE lo == Head(queue).lo
           q == Len(queue)
           q2 == Len(queue')
<1>2. /\ BlocksLeft \in Nat /\ from \in Int /\ to \in Int /\ from <= to
      /\ lo \in Int /\ from <= lo /\ q \in Nat /\ 0 < q /\ q <= to - lo + 1
  BY <1>1, Counted DEF Scanning
<1>3. BlocksLeft' = BlocksLeft
  BY <1>1 DEF BlocksLeft
<1>4. QueueOK /\ queue \in Seq(Spans) /\ Head(queue) = queue[1]
  BY <1>1, <1>2 DEF FetchInv, FetchTypeOK
<1>5. queue' \in Seq(Spans) /\ Chained(queue', to) /\ Head(queue').lo = lo
  BY <1>1, <1>2, <1>4, ChainSplit DEF QueueOK
<1>6. q2 = q + 1
  <2>1. Halves(Head(queue)) \in Seq(Spans) /\ Len(Halves(Head(queue))) = 2
    <3>1. Head(queue) \in Spans
      BY <1>2, <1>4, ChainTail DEF QueueOK
    <3> QED BY <3>1 DEF Halves, Span, Spans
  <2>2. Tail(queue) \in Seq(Spans) /\ Len(Tail(queue)) = q - 1
    BY <1>2, <1>4
  <2>3. q2 = Len(Halves(Head(queue))) + Len(Tail(queue))
    BY <1>1, <2>1, <2>2, Concatenation
  <2>4. \A x \in Nat : 2 + (x - 1) = x + 1
    OBVIOUS
  <2> QED BY <1>2, <2>1, <2>2, <2>3, <2>4, Zenon
<1>7. q2 \in Nat /\ q2 <= to - lo + 1
  BY <1>2, <1>5, ChainLength
<1>8. LogCalls = 2 * (to - lo + 1) - q /\ LogCalls' = 2 * (to - lo + 1) - q2
  BY <1>1, <1>5 DEF LogCalls
<1> HIDE DEF lo, q, q2
<1>9. CASE stage = "in"
  <2>1. /\ ScanLeft = 5 * BlocksLeft + 2 * (to - from + 1) + (2 * (to - lo + 1) - q)
        /\ ScanLeft' = 5 * BlocksLeft + 2 * (to - from + 1) + (2 * (to - lo + 1) - q2)
    BY <1>1, <1>3, <1>8, <1>9 DEF ScanLeft
  <2> QED BY <1>2, <1>6, <1>7, <2>1
<1>10. CASE stage = "out"
  <2>1. /\ ScanLeft = 5 * BlocksLeft + (2 * (to - lo + 1) - q) + 1
        /\ ScanLeft' = 5 * BlocksLeft + (2 * (to - lo + 1) - q2) + 1
    BY <1>1, <1>3, <1>8, <1>10 DEF ScanLeft
  <2> QED BY <1>2, <1>6, <1>7, <2>1
<1> QED BY <1>1, <1>9, <1>10

LEMMA ChunkCalls ==
  ASSUME FetchInv, SaveChunk \/ TakeRows
  PROVE  0 <= ScanLeft' /\ ScanLeft' < ScanLeft
<1>1. /\ stage = "chunk" /\ UNCHANGED <<vars, boot, safe>>
      /\ \/ boot /\ ScanBack(from - 1, taken')
         \/ ~boot /\ Scan(to + 1, safe)
  <2>1. CASE SaveChunk
    BY <2>1 DEF SaveChunk
  <2>2. CASE TakeRows
    <3>1. /\ stage = "chunk" /\ boot /\ ScanBack(from - 1, taken')
          /\ UNCHANGED <<vars, boot, safe, queue, read, null, indexed>>
      BY <2>2 DEF TakeRows
    <3> QED BY <3>1
  <2> QED BY <2>1, <2>2
<1>2. /\ BlocksLeft \in Nat /\ from \in Int /\ to \in Int /\ safe \in Int /\ FetchTypeOK
      /\ StartBlock \in Int
  BY <1>1, Counted, SearchAssumption DEF Scanning, FetchInv
<1>3. ScanLeft = 5 * BlocksLeft + 1
  BY <1>1 DEF ScanLeft
<1>4. CASE boot /\ ScanBack(from - 1, taken')
  <2>1. BlocksLeft = Lesser(from - StartBlock, (MaxRanges - ranges) * ChunkSize)
    BY <1>4 DEF BlocksLeft
  <2>2. from - 1 \in Int /\ from - StartBlock = (from - 1) - StartBlock + 1
    BY <1>2
  <2>3. ScanLeft' = 0 \/ (ScanLeft' \in Nat /\ ScanLeft' < 5 * BlocksLeft)
    <3>1. \/ stage' = "returned" /\ ScanLeft' = 0
          \/ /\ ScanLeft' \in Nat
             /\ ScanLeft' < 5 * Lesser(from - StartBlock,
                                       (MaxRanges - ranges) * ChunkSize)
      BY <1>1, <1>2, <1>4, <2>2, ScanBackCalls
    <3> QED BY <2>1, <3>1, Zenon
  <2> QED BY <1>2, <1>3, <2>3
<1>5. CASE ~boot /\ Scan(to + 1, safe)
  <2>1. BlocksLeft = safe - to
    BY <1>5 DEF BlocksLeft
  <2>2. \/ ScanLeft' = 0
        \/ ScanLeft' \in Nat /\ ScanLeft' = 5 * (safe - (to + 1) + 1) - 1
    BY <1>1, <1>2, <1>5, ScanCalls
  <2> QED BY <1>2, <1>3, <2>1, <2>2
<1> QED BY <1>1, <1>4, <1>5

(* Logs are at hand from the first answer with some to the last header.    *)
LogsOK ==
  /\ logs \in 0 .. MaxLogs
  /\ stage \in {"search", "block", "returned"} => logs = 0

LEMMA LogsStart == FetchInit => LogsOK
BY FetchAssumption DEF FetchInit, LogsOK

LEMMA LogsKept == FetchInv /\ LogsOK /\ [FetchNext]_<<vars, fetchVars>> => LogsOK'
<1> SUFFICES ASSUME FetchInv, LogsOK, [FetchNext]_<<vars, fetchVars>> PROVE LogsOK'
  OBVIOUS
<1> USE FetchAssumption
<1>1. CASE UNCHANGED fetchVars
  BY <1>1 DEF fetchVars, LogsOK
<1>2. CASE FetchHead
  BY <1>2 DEF FetchHead, LogsOK
<1>3. CASE GetBlock
  BY <1>3 DEF GetBlock, LogsOK
<1>4. CASE FilterLogs
  <2>1. logs' \in 0 .. MaxLogs
    BY <1>4 DEF FilterLogs, LogsOK
  <2>2. stage' \in {"in", "out", "chunk"}
    BY <1>4 DEF FilterLogs
  <2> QED BY <2>1, <2>2 DEF LogsOK
<1>5. CASE TooLarge
  BY <1>5 DEF TooLarge, LogsOK
<1>6. CASE LogHeader
  BY <1>6 DEF LogHeader, LogsOK
<1>7. CASE SaveChunk
  BY <1>7 DEF SaveChunk, LogsOK
<1>8. CASE TakeRows
  BY <1>8 DEF TakeRows, LogsOK
<1>9. CASE FetchFails
  BY <1>9 DEF FetchFails, LogsOK
<1> QED BY <1>1, <1>2, <1>3, <1>4, <1>5, <1>6, <1>7, <1>8, <1>9
        DEF FetchNext, FetchStep, FetchFault

LEMMA HeaderCalls ==
  ASSUME FetchInv, LogsOK, LogHeader
  PROVE  ScanLeft \in Int /\ 0 <= ScanLeft /\ ScanLeft' = ScanLeft /\ logs' = logs - 1
<1>1. /\ stage = "chunk" /\ logs' = logs - 1
      /\ UNCHANGED <<vars, boot, stage, safe, from, to, ranges>>
  BY DEF LogHeader
<1>2. BlocksLeft \in Nat
  BY <1>1, Counted DEF Scanning
<1>3. ScanLeft = 5 * BlocksLeft + 1 /\ ScanLeft' = 5 * BlocksLeft' + 1
  BY <1>1 DEF ScanLeft
<1>4. BlocksLeft' = BlocksLeft
  BY <1>1 DEF BlocksLeft
<1> QED BY <1>1, <1>2, <1>3, <1>4

LEMMA ScanLeftIs == FetchInv => ScanLeft \in Int
<1> SUFFICES ASSUME FetchInv PROVE ScanLeft \in Int
  OBVIOUS
<1>1. CASE stage \in {"in", "out"}
  <2>1. /\ BlocksLeft \in Int /\ from \in Int /\ to \in Int
        /\ Head(queue).lo \in Int /\ Len(queue) \in Int
    BY <1>1, Counted DEF Scanning
  <2>2. LogCalls \in Int
    BY <2>1 DEF LogCalls
  <2> QED BY <1>1, <2>1, <2>2 DEF ScanLeft
<1>2. CASE stage \in {"block", "chunk"}
  <2>1. BlocksLeft \in Int /\ from \in Int /\ to \in Int /\ bn \in Int
    BY <1>2, Counted DEF Scanning
  <2> QED BY <1>2, <2>1 DEF ScanLeft
<1>3. CASE stage \notin Scanning
  BY <1>3 DEF ScanLeft, Scanning
<1> QED BY <1>1, <1>2, <1>3 DEF Scanning

LEMMA ScanLeftNextIs == FetchInv' => ScanLeft' \in Int
<1>1. (FetchInv => ScanLeft \in Int)'
  BY ScanLeftIs, PTL
<1> QED BY <1>1

LEMMA FetchCalls ==
  FetchInv /\ LogsOK /\ FetchNext => CallsLeftBy
<1> SUFFICES ASSUME FetchInv, LogsOK, FetchNext PROVE CallsLeftBy
  OBVIOUS
<1>1. Probe => pc' = "done" \/ 2 * (high' - low' + 1) <= high - low + 1
  BY ProbeHalves DEF FetchInv
<1>2. PICK n \in Int, m \in Int :
        /\ ScanLeft = n /\ CallsLeft = n + logs /\ logs \in Nat
        /\ ScanLeft' = m /\ CallsLeft' = m + logs' /\ logs' \in Nat
  <2>1. FetchInv' /\ LogsOK'
    BY FetchStepInv, LogsKept
  <2>2. logs \in Nat /\ logs' \in Nat
    BY <2>1, FetchAssumption DEF LogsOK
  <2>3. CallsLeft = ScanLeft + logs /\ CallsLeft' = ScanLeft' + logs'
    BY DEF CallsLeft
  <2> QED BY <2>1, <2>2, <2>3, ScanLeftIs, ScanLeftNextIs
<1>3. ASSUME FetchHead PROVE Returned' \/ CallsLeft' < 5 * Window'
  <2>1. logs' = 0
    BY <1>3 DEF FetchHead, LogsOK
  <2>2. Returned' \/ ScanLeft' < 5 * Window'
    BY <1>3, HeadCalls
  <2>3. CallsLeft' = ScanLeft'
    BY <1>2, <2>1
  <2> QED BY <2>2, <2>3
<1>4. ASSUME FetchStep, stage \notin {"search", "returned", "failed"}
      PROVE  0 <= CallsLeft' /\ CallsLeft' < CallsLeft + LogsReturned
  <2>1. GetBlock \/ FilterLogs \/ TooLarge \/ LogHeader \/ SaveChunk \/ TakeRows
    <3>1. pc = "done"
      BY <1>4 DEF FetchInv, SearchOK
    <3> QED BY <1>4, <3>1 DEF FetchStep, Probe, Finish, FetchHead
  <2>2. CASE LogHeader
    BY <1>2, <2>2, HeaderCalls DEF LogsReturned, Greater
  <2>3. CASE ~LogHeader
    <3>1. 0 <= ScanLeft' /\ ScanLeft' < ScanLeft
      BY <2>1, <2>3, BlockCalls, LogsCalls, TooLargeCalls, ChunkCalls
    <3>2. 0 <= m /\ m < n
      BY <1>2, <3>1
    <3>3. \A l, k \in Nat : 0 <= m + k /\ m + k < (n + l) + Greater(k - l, 0)
      BY <3>2 DEF Greater
    <3> QED BY <1>2, <3>3, Zenon DEF LogsReturned
  <2> QED BY <2>2, <2>3
<1> QED BY <1>1, <1>3, <1>4 DEF CallsLeftBy

(* A fetch makes a bounded number of calls for any chain, chunk size and   *)
(* refusals of the node: what remains of the scan is a number that each    *)
(* answer makes smaller, but for the Transfer logs it returns, each of     *)
(* which takes one header more.                                            *)
THEOREM FetchIsBounded == FetchSpec => CallsRunOut
<1>1. FetchInv /\ LogsOK /\ [FetchNext]_<<vars, fetchVars>> =>
        [CallsLeftBy]_<<vars, fetchVars>>
  BY FetchCalls
<1>2. FetchSpec => []LogsOK
  BY LogsStart, LogsKept, FetchInvariance, PTL DEF FetchSpec
<1> QED BY <1>1, <1>2, FetchInvariance, PTL DEF FetchSpec, CallsRunOut
=============================================================================
