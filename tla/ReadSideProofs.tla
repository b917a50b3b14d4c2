--------------------------- MODULE ReadSideProofs ---------------------------
(***************************************************************************)
(* What users read is right: the windows of a schedule in any calendar,    *)
(* the sums of any reports, pages of any size; and their composition,      *)
(* ReadSide, behaves as each of the three.                                 *)
(***************************************************************************)
EXTENDS ReadSide, Sums

-----------------------------------------------------------------------------
(* The calendar.                                                           *)

Length == Len(MonthDays)

LEMMA MonthLength ==
  /\ Length \in Nat /\ Length >= 13
  /\ \A m \in 1 .. Length : MonthDays[m] \in 28 .. 31
BY CalendarAssumption DEF Length

LEMMA SumOfMonths ==
  ASSUME NEW m \in 1 .. Length
  PROVE  /\ SumFunctionOnSet(MonthDays, 1 .. m - 1) \in Int
         /\ SumFunctionOnSet(MonthDays, 1 .. m)
              = MonthDays[m] + SumFunctionOnSet(MonthDays, 1 .. m - 1)
<1>1. /\ \A k \in 1 .. m : MonthDays[k] \in Int
      /\ m \in Int /\ m - 1 \in Int /\ m \notin 1 .. m - 1
      /\ (1 .. m - 1) \cup {m} = 1 .. m
  BY MonthLength
<1>2. IsFiniteSet(1 .. m - 1)
  BY <1>1, FS_Interval, 1 \in Int
<1>3. SumFunctionOnSet(MonthDays, 1 .. m - 1) \in Int
  BY <1>1, <1>2, SumInt
<1>4. SumFunctionOnSet(MonthDays, (1 .. m - 1) \cup {m})
        = MonthDays[m] + SumFunctionOnSet(MonthDays, 1 .. m - 1)
  BY <1>1, <1>2, SumAdd
<1>5. QED
  BY <1>1, <1>3, <1>4

(* A month begins where the one before it ends.                            *)
LEMMA StartStep ==
  /\ Start[1] = 0
  /\ \A m \in 1 .. Length : /\ Start[m] \in Int
                            /\ Start[m + 1] = Start[m] + MonthDays[m]
<1>1. Start[1] = 0
  <2>1. 1 .. 0 = {} /\ 1 - 1 = 0
    OBVIOUS
  <2>2. Start[1] = SumFunctionOnSet(MonthDays, 1 .. 1 - 1)
    BY MonthLength DEF Start, Length
  <2>3. QED
    BY <2>1, <2>2, SumEmpty
<1>2. ASSUME NEW m \in 1 .. Length
      PROVE  Start[m] \in Int /\ Start[m + 1] = Start[m] + MonthDays[m]
  <2>1. /\ Start[m] = SumFunctionOnSet(MonthDays, 1 .. m - 1)
        /\ Start[m + 1] = SumFunctionOnSet(MonthDays, 1 .. (m + 1) - 1)
    BY MonthLength DEF Start, Length
  <2>2. (m + 1) - 1 = m
    BY MonthLength
  <2>3. QED
    BY <2>1, <2>2, SumOfMonths, MonthLength
<1>3. QED
  BY <1>1, <1>2

LEMMA StartType ==
  \A m \in 1 .. Length + 1 : Start[m] \in Int
<1>1. ASSUME NEW m \in 1 .. Length + 1 PROVE Start[m] \in Int
  <2>1. CASE m \in 1 .. Length
    BY <2>1, StartStep
  <2>2. CASE m = Length + 1
    <3>1. Length \in 1 .. Length
      BY MonthLength
    <3>2. /\ Start[Length] \in Int /\ MonthDays[Length] \in Int
          /\ Start[Length + 1] = Start[Length] + MonthDays[Length]
      BY <3>1, StartStep, MonthLength
    <3>3. QED
      BY <2>2, <3>2
  <2>3. QED
    BY <2>1, <2>2, MonthLength
<1>2. QED
  BY <1>1

(* Months are in order, by induction on the later one.                     *)
LEMMA StartRises ==
  \A m, n \in 1 .. Length + 1 : m < n => Start[m] < Start[n]
<1> DEFINE N == {n \in Nat : n + 1 \in 1 .. Length + 1 =>
                   \A m \in 1 .. n : Start[m] < Start[n + 1]}
<1>1. 0 \in N
  OBVIOUS
<1>2. ASSUME NEW n \in Nat, n \in N PROVE n + 1 \in N
  <2>1. SUFFICES ASSUME (n + 1) + 1 \in 1 .. Length + 1, NEW m \in 1 .. n + 1
                 PROVE  Start[m] < Start[(n + 1) + 1]
    OBVIOUS
  <2>2. n + 1 \in 1 .. Length
    BY <2>1, MonthLength
  <2>3. Start[(n + 1) + 1] > Start[n + 1] /\ Start[n + 1] \in Int /\ Start[(n + 1) + 1] \in Int
    BY <2>2, StartStep, MonthLength
  <2>4. CASE m \in 1 .. n
    <3>1. Start[m] < Start[n + 1] /\ Start[m] \in Int
      BY <1>2, <2>2, <2>4, StartType, MonthLength
    <3>2. QED
      BY <2>3, <3>1
  <2>5. CASE m = n + 1
    BY <2>3, <2>5
  <2>6. QED
    BY <2>4, <2>5
<1>3. Nat \subseteq N
  <2> HIDE DEF N
  <2> QED BY <1>1, <1>2, NatSetInduction
<1>4. ASSUME NEW m \in 1 .. Length + 1, NEW n \in 1 .. Length + 1, m < n
      PROVE  Start[m] < Start[n]
  <2>1. n - 1 \in N /\ (n - 1) + 1 = n /\ m \in 1 .. n - 1
    <3> HIDE DEF N
    <3> QED BY <1>3, <1>4, MonthLength
  <2>2. QED
    BY <2>1
<1>5. QED
  BY <1>4

LEMMA EndsBefore ==
  ASSUME NEW m \in 1 .. Length, NEW n \in 1 .. Length, m < n
  PROVE  Start[m + 1] <= Start[n]
<1>1. m + 1 \in 1 .. Length + 1 /\ n \in 1 .. Length + 1
  BY MonthLength
<1>2. Start[m + 1] \in Int /\ Start[n] \in Int
  BY <1>1, StartType
<1>3. CASE m + 1 < n
  BY <1>1, <1>2, <1>3, StartRises
<1>4. CASE m + 1 = n
  BY <1>2, <1>4
<1>5. QED
  BY <1>3, <1>4, MonthLength

(* Every day belongs to a month, and to one only: normalisation finds it.  *)
LEMMA MonthExists ==
  ASSUME NEW n \in Nat, n < Start[Length + 1]
  PROVE  \E m \in 1 .. Length : Start[m] <= n /\ n < Start[m + 1]
<1> DEFINE After == {k \in Nat : k \in 1 .. Length + 1 /\ n < Start[k]}
<1>1. After # {} /\ After \subseteq Nat
  <2>1. Length + 1 \in After
    BY MonthLength
  <2>2. QED
    BY <2>1
<1>2. PICK k \in After : \A j \in After : k <= j
  <2> HIDE DEF After
  <2> QED BY <1>1, LeastOf
<1>3. k # 1
  BY StartStep
<1>4. k - 1 \in 1 .. Length /\ (k - 1) + 1 = k /\ k - 1 \in 1 .. Length + 1
  BY <1>3, MonthLength
<1>5. k - 1 \notin After
  <2>1. ~ (k <= k - 1)
    OBVIOUS
  <2>2. QED
    BY <1>2, <2>1
<1>6. ~ (n < Start[k - 1])
  BY <1>4, <1>5
<1>7. Start[k - 1] <= n
  BY <1>4, <1>6, StartType
<1>8. QED
  BY <1>4, <1>7

LEMMA MonthOfDay ==
  ASSUME NEW n \in Nat, n < Start[Length + 1]
  PROVE  /\ MonthOf(n) \in 1 .. Length
         /\ Start[MonthOf(n)] <= n /\ n < Start[MonthOf(n) + 1]
<1>1. \E m \in 1 .. Len(MonthDays) : Start[m] <= n /\ n < Start[m + 1]
  BY MonthExists DEF Length
<1>2. QED
  BY <1>1, Zenon DEF MonthOf, Length

LEMMA MonthIs ==
  ASSUME NEW n \in Nat, NEW m \in 1 .. Length, Start[m] <= n, n < Start[m + 1]
  PROVE  MonthOf(n) = m
<1>1. n < Start[Length + 1]
  <2>1. m + 1 \in 1 .. Length + 1 /\ Length + 1 \in 1 .. Length + 1
    BY MonthLength
  <2>2. m + 1 < Length + 1 => Start[m + 1] < Start[Length + 1]
    BY <2>1, StartRises
  <2>3. Start[m + 1] \in Int /\ Start[Length + 1] \in Int
    BY <2>1, StartType
  <2>4. QED
    BY <2>1, <2>2, <2>3, MonthLength
<1> DEFINE k == MonthOf(n)
<1>2. k \in 1 .. Length /\ Start[k] <= n /\ n < Start[k + 1]
  BY <1>1, MonthOfDay
<1> HIDE DEF k
<1>3. k \in 1 .. Length + 1 /\ k + 1 \in 1 .. Length + 1 /\ m + 1 \in 1 .. Length + 1
      /\ m \in 1 .. Length + 1
  BY <1>2, MonthLength
<1>4. /\ Start[k] \in Int /\ Start[k + 1] \in Int
      /\ Start[m] \in Int /\ Start[m + 1] \in Int
  BY <1>3, StartType
<1>5. ~ (k < m)
  <2>1. SUFFICES ASSUME k < m PROVE FALSE
    OBVIOUS
  <2>2. Start[k + 1] <= Start[m]
    BY <1>2, <2>1, EndsBefore
  <2>3. QED
    BY <1>2, <1>4, <2>2
<1>6. ~ (m < k)
  <2>1. SUFFICES ASSUME m < k PROVE FALSE
    OBVIOUS
  <2>2. Start[m + 1] <= Start[k]
    BY <1>2, <2>1, EndsBefore
  <2>3. QED
    BY <1>2, <1>4, <2>2
<1>7. QED
  BY <1>2, <1>5, <1>6, MonthLength DEF k

-----------------------------------------------------------------------------
(* The inductive invariant: a schedule that has left days out has moved to *)
(* the first days of a month, which every month has.                       *)
CalendarInv ==
  /\ freq \in {"daily", "monthly", "yearly"}
  /\ month \in 13 .. Length /\ day \in 1 .. MonthDays[month]
  /\ gap \in Int /\ gaps \in Nat /\ late \in Nat
  /\ onTime \in BOOLEAN /\ tail \in BOOLEAN
  /\ GapOfLateness
  /\ onTime => /\ gaps <= 1 /\ gap <= 3
               /\ gaps = 1 => day <= 28 /\ freq # "daily"
               /\ gap > 0 => tail /\ freq # "daily"

LEMMA CalendarStarts == CalendarInit => CalendarInv
<1> SUFFICES ASSUME CalendarInit PROVE CalendarInv
  OBVIOUS
<1>1. FirstMonth \in Int /\ LastMonth \in Int /\ FirstMonth >= 13 /\ LastMonth <= Length
  BY CalendarAssumption, MonthLength DEF Length
<1>2. month \in 13 .. Length /\ day \in 1 .. MonthDays[month]
  BY <1>1, MonthLength DEF CalendarInit
<1>3. onTime \in BOOLEAN /\ tail \in BOOLEAN
  BY Zenon DEF CalendarInit
<1>4. gap = 0 /\ gaps = 0 /\ late = 0 /\ freq \in {"daily", "monthly", "yearly"}
  BY DEF CalendarInit
<1>5. GapOfLateness /\ gaps <= 1 /\ gap <= 3 /\ gaps # 1 /\ ~ (gap > 0)
      /\ gap \in Int /\ gaps \in Nat /\ late \in Nat
  BY <1>4 DEF GapOfLateness
<1>6. QED
  BY <1>2, <1>3, <1>4, <1>5, Zenon DEF CalendarInv

(* What a report finds: the day it is sent on and the months around it.    *)
LEMMA SentOn ==
  ASSUME CalendarInv, NEW l \in 0 .. MaxLate, Report(l)
  PROVE  LET k == month + Months(freq)
             n == NextRun(freq, month, day) + l IN
         /\ l \in Nat /\ k \in 13 .. Length /\ n \in Nat /\ n < Start[Length + 1]
         /\ month' \in 13 .. Length /\ month' >= k
         /\ Start[month'] + day' - 1 = n /\ day' \in 1 .. MonthDays[month']
         /\ n = Start[k] + day - 1 + l + (IF freq = "daily" THEN 1 ELSE 0)
<1> DEFINE k == month + Months(freq)
           n == NextRun(freq, month, day) + l
<1>1. /\ MaxLate \in Nat /\ l \in Nat
      /\ month \in 13 .. Length /\ day \in 1 .. MonthDays[month]
      /\ month \in 1 .. Length /\ MonthDays[month] \in 28 .. 31 /\ day \in Nat
      /\ freq \in {"daily", "monthly", "yearly"}
  BY CalendarAssumption, MonthLength DEF CalendarInv
<1>2. k <= Length /\ n < Start[Length + 1] /\ month' = MonthOf(n) /\ day' = DayOf(n)
  BY DEF Report, Length
<1>3. k \in month .. Length /\ k \in 13 .. Length
  BY <1>1, <1>2, MonthLength DEF Months
<1>4. n = Start[k] + day - 1 + l + (IF freq = "daily" THEN 1 ELSE 0)
  <2>1. CASE freq = "daily"
    <3>1. k = month /\ n = (Start[month] + day - 1) + 1 + l
      BY <1>1, <2>1 DEF Months, NextRun, Ordinal
    <3>2. Start[month] \in Int
      BY <1>1, StartStep
    <3>3. QED
      BY <1>1, <2>1, <3>1, <3>2
  <2>2. CASE freq = "monthly"
    <3>1. k = month + 1 /\ n = (Start[month + 1] + day - 1) + l
      BY <2>2 DEF Months, NextRun, Ordinal, AddMonths
    <3>2. Start[k] \in Int
      BY <1>3, StartStep, MonthLength
    <3>3. QED
      BY <1>1, <2>2, <3>1, <3>2
  <2>3. CASE freq = "yearly"
    <3>1. k = month + 12 /\ n = (Start[month + 12] + day - 1) + l
      BY <2>3 DEF Months, NextRun, Ordinal, AddMonths
    <3>2. Start[k] \in Int
      BY <1>3, StartStep, MonthLength
    <3>3. QED
      BY <1>1, <2>3, <3>1, <3>2
  <2>4. QED
    BY <1>1, <2>1, <2>2, <2>3
<1> HIDE DEF k, n
<1>5. Start[k] \in Int /\ 0 <= Start[k] /\ Start[k] <= n /\ n \in Nat
  <2>1. 1 \in 1 .. Length + 1 /\ k \in 1 .. Length + 1 /\ 1 < k
    BY <1>3, MonthLength
  <2>2. 0 < Start[k] /\ Start[k] \in Int
    BY <2>1, StartRises, StartStep, StartType
  <2>3. QED
    BY <1>1, <1>4, <2>2
<1>6. /\ month' \in 1 .. Length
      /\ Start[month'] <= n /\ n < Start[month' + 1]
  BY <1>2, <1>5, MonthOfDay
<1>7. /\ Start[month'] \in Int /\ MonthDays[month'] \in 28 .. 31
      /\ Start[month' + 1] = Start[month'] + MonthDays[month']
  BY <1>6, StartStep, MonthLength
<1>8. day' = n - Start[month'] + 1
  BY <1>2 DEF DayOf
<1>9. month' >= k
  <2>1. SUFFICES ASSUME month' < k PROVE FALSE
    BY <1>3, <1>6
  <2>2. k \in 1 .. Length
    BY <1>3, MonthLength
  <2>3. Start[month' + 1] <= Start[k]
    BY <1>6, <2>1, <2>2, EndsBefore
  <2>4. QED
    BY <1>5, <1>6, <1>7, <2>3
<1>10. month' \in 13 .. Length
  BY <1>3, <1>6, <1>9
<1>11. Start[month'] + day' - 1 = n /\ day' \in 1 .. MonthDays[month']
  BY <1>5, <1>6, <1>7, <1>8
<1>12. QED
  BY <1>1, <1>2, <1>3, <1>4, <1>5, <1>9, <1>10, <1>11 DEF k, n

(* Without delay the report falls into the month it is due in, or into the *)
(* one after that, on one of its first three days.                         *)
LEMMA FallsInto ==
  ASSUME CalendarInv, NEW l \in 0 .. MaxLate, Report(l), l = 0, freq # "daily"
  PROVE  LET k == month + Months(freq) IN
         \/ month' = k /\ day' = day
         \/ /\ month' = k + 1 /\ day' \in 1 .. 3 /\ day >= 29
            /\ MonthDays[k] < day /\ day <= MonthDays[month]
<1> DEFINE k == month + Months(freq)
           n == NextRun(freq, month, day) + l
<1>1. /\ k \in 13 .. Length /\ n \in Nat /\ n < Start[Length + 1]
      /\ n = Start[k] + day - 1 + l + 0
      /\ Start[month'] + day' - 1 = n /\ month' \in 13 .. Length
  BY SentOn
<1>2. /\ month' = MonthOf(n) /\ k \in 1 .. Length /\ month \in 1 .. Length
      /\ day \in 1 .. MonthDays[month]
  BY <1>1, MonthLength DEF Report, CalendarInv
<1> HIDE DEF k, n
<1>3. /\ Start[k] \in Int /\ Start[k + 1] = Start[k] + MonthDays[k]
      /\ MonthDays[k] \in 28 .. 31 /\ MonthDays[month] \in 28 .. 31
      /\ day \in 1 .. 31
  BY <1>2, StartStep, MonthLength
<1>4. n = Start[k] + day - 1
  BY <1>1, <1>3
<1>4a. day' \in Int
  <2>1. day' = DayOf(n)
    BY DEF Report, n
  <2>2. month' \in 1 .. Length + 1
    BY <1>1, MonthLength
  <2>3. QED
    BY <1>1, <1>2, <2>1, <2>2, StartType DEF DayOf
<1>5. CASE day <= MonthDays[k]
  <2>1. month' = k
    BY <1>1, <1>2, <1>3, <1>4, <1>5, MonthIs
  <2>2. day' = day
    BY <1>1, <1>3, <1>4, <1>4a, <2>1
  <2>3. QED
    BY <2>1, <2>2 DEF k
<1>6. CASE day > MonthDays[k]
  <2>1. k # Length
    BY <1>1, <1>3, <1>4, <1>6
  <2>2. k + 1 \in 1 .. Length
    BY <1>2, <2>1, MonthLength
  <2>3. /\ Start[k + 1] \in Int /\ MonthDays[k + 1] \in 28 .. 31
        /\ Start[(k + 1) + 1] = Start[k + 1] + MonthDays[k + 1]
    BY <2>2, StartStep, MonthLength
  <2>4. Start[k + 1] <= n /\ n < Start[(k + 1) + 1]
    BY <1>3, <1>4, <1>6, <2>3
  <2>5. month' = k + 1
    BY <1>1, <1>2, <2>2, <2>4, MonthIs
  <2>6. day' = day - MonthDays[k]
    BY <1>1, <1>3, <1>4, <1>4a, <2>3, <2>5
  <2>7. QED
    BY <1>2, <1>3, <1>6, <2>5, <2>6 DEF k
<1>7. QED
  BY <1>3, <1>5, <1>6 DEF k

(* The days between two windows: the delay, and the difference between the *)
(* lengths of the months, or years, that the dates are moved by.           *)
LEMMA GapIs ==
  ASSUME CalendarInv, NEW l \in 0 .. MaxLate, Report(l)
  PROVE  LET k == month + Months(freq)
             b == month' - Months(freq) IN
         /\ gap' = l + IF freq = "daily" THEN 0
                       ELSE (Start[k] - Start[month]) - (Start[month'] - Start[b])
         /\ b \in 1 .. Length /\ k \in 1 .. Length /\ month \in 1 .. Length
         /\ month' \in 1 .. Length /\ l \in Nat
<1> DEFINE k == month + Months(freq)
           b == month' - Months(freq)
           n == NextRun(freq, month, day) + l
<1>1. /\ l \in Nat /\ k \in 13 .. Length /\ n \in Nat
      /\ month' \in 13 .. Length
      /\ Start[month'] + day' - 1 = n /\ day' \in 1 .. MonthDays[month']
      /\ n = Start[k] + day - 1 + l + (IF freq = "daily" THEN 1 ELSE 0)
  BY SentOn
<1>2. /\ freq \in {"daily", "monthly", "yearly"}
      /\ month \in 13 .. Length /\ day \in 1 .. MonthDays[month]
  BY DEF CalendarInv
<1>3. /\ k \in 1 .. Length /\ month \in 1 .. Length /\ month' \in 1 .. Length
      /\ b \in 1 .. Length
  BY <1>1, <1>2, MonthLength DEF Months
<1>4. from' = WindowStart(freq, month', day') /\ gap' = from' - Ordinal(month, day)
  BY DEF Report
<1>5. from' = Start[b] + day' - 1 - (IF freq = "daily" THEN 1 ELSE 0)
  <2>1. freq = "daily" => b = month'
    BY <1>1, MonthLength DEF Months
  <2>2. freq = "monthly" => b = month' + (-1)
    BY <1>1, MonthLength DEF Months
  <2>3. freq = "yearly" => b = month' + (-12)
    BY <1>1, MonthLength DEF Months
  <2>4. Start[b] \in Int /\ day' \in Int
    BY <1>1, <1>3, StartStep, MonthLength
  <2> HIDE DEF b
  <2>5. CASE freq = "daily"
    BY <1>4, <2>1, <2>4, <2>5 DEF WindowStart, Ordinal
  <2>6. CASE freq = "monthly"
    <3>1. from' = Start[b] + day' - 1
      BY <1>4, <2>2, <2>6 DEF WindowStart, Ordinal, AddMonths
    <3>2. QED
      BY <2>4, <2>6, <3>1
  <2>7. CASE freq = "yearly"
    <3>1. from' = Start[b] + day' - 1
      BY <1>4, <2>3, <2>7 DEF WindowStart, Ordinal, AddMonths
    <3>2. QED
      BY <2>4, <2>7, <3>1
  <2>8. QED
    BY <1>2, <2>5, <2>6, <2>7
<1>6. /\ Start[b] \in Int /\ Start[k] \in Int /\ Start[month] \in Int
      /\ Start[month'] \in Int /\ day \in Int /\ day' \in Int
  BY <1>1, <1>2, <1>3, StartStep, MonthLength
<1>7. gap' = (Start[b] + day' - 1 - (IF freq = "daily" THEN 1 ELSE 0))
             - (Start[month] + day - 1)
  BY <1>4, <1>5 DEF Ordinal
<1>8. freq = "daily" => k = month /\ b = month'
  BY <1>1, <1>2, MonthLength DEF Months
<1> HIDE DEF k, b, n
<1>9. gap' = l + IF freq = "daily" THEN 0
                 ELSE (Start[k] - Start[month]) - (Start[month'] - Start[b])
  <2>1. CASE freq = "daily"
    BY <1>1, <1>6, <1>7, <1>8, <2>1
  <2>2. CASE freq # "daily"
    BY <1>1, <1>6, <1>7, <2>2
  <2>3. QED
    BY <2>1, <2>2
<1>10. QED
  BY <1>1, <1>3, <1>9 DEF k, b

LEMMA GapAtMost ==
  ASSUME CalendarInv, NEW l \in 0 .. MaxLate, Report(l)
  PROVE  gap' \in Int /\ gap' <= l + 3 /\ (freq = "daily" => gap' = l)
<1> DEFINE k == month + Months(freq)
           b == month' - Months(freq)
<1>1. /\ gap' = l + IF freq = "daily" THEN 0
                    ELSE (Start[k] - Start[month]) - (Start[month'] - Start[b])
      /\ b \in 1 .. Length /\ k \in 1 .. Length /\ month \in 1 .. Length
      /\ month' \in 1 .. Length /\ l \in Nat
  BY GapIs
<1>2. freq \in {"daily", "monthly", "yearly"}
  BY DEF CalendarInv
<1>3. CASE freq = "daily"
  BY <1>1, <1>3
<1>4. CASE freq = "monthly"
  <2>1. k = month + 1 /\ b + 1 = month'
    BY <1>1, <1>4, MonthLength DEF Months
  <2> HIDE DEF k, b
  <2>2. /\ Start[k] = Start[month] + MonthDays[month] /\ Start[month] \in Int
        /\ Start[month'] = Start[b] + MonthDays[b] /\ Start[b] \in Int
    BY <1>1, <2>1, StartStep
  <2>3. MonthDays[month] \in 28 .. 31 /\ MonthDays[b] \in 28 .. 31
    BY <1>1, MonthLength
  <2>4. gap' = l + ((Start[k] - Start[month]) - (Start[month'] - Start[b]))
    BY <1>1, <1>4
  <2>5. QED
    BY <1>1, <1>4, <2>2, <2>3, <2>4
<1>5. CASE freq = "yearly"
  <2>1. k = month + 12 /\ b + 12 = month'
    BY <1>1, <1>5, MonthLength DEF Months
  <2> HIDE DEF k, b
  <2>2. month \in 1 .. Len(MonthDays) - 11 /\ b \in 1 .. Len(MonthDays) - 11
    BY <1>1, <2>1, MonthLength DEF Length
  <2>3. /\ Start[k] - Start[month] \in {365, 366}
        /\ Start[month'] - Start[b] \in {365, 366}
    BY <2>1, <2>2, YearAssumption
  <2>4. gap' = l + ((Start[k] - Start[month]) - (Start[month'] - Start[b]))
    BY <1>1, <1>5
  <2>5. QED
    BY <1>1, <1>5, <2>3, <2>4
<1>6. QED
  BY <1>2, <1>3, <1>4, <1>5

(* On time, only the last days of a month leave days out, and three at most. *)
LEMMA GapOnTime ==
  ASSUME CalendarInv, NEW l \in 0 .. MaxLate, Report(l), l = 0
  PROVE  \/ gap' = 0 /\ (day <= 28 => freq = "daily" \/ day' = day)
         \/ gap' \in 1 .. 3 /\ day >= 29 /\ day' \in 1 .. 3 /\ freq # "daily"
<1>0. CASE freq = "daily"
  BY <1>0, GapAtMost
<1> DEFINE k == month + Months(freq)
           b == month' - Months(freq)
<1>1. CASE freq # "daily"
  <2>1. /\ gap' = l + ((Start[k] - Start[month]) - (Start[month'] - Start[b]))
        /\ b \in 1 .. Length /\ k \in 1 .. Length /\ month \in 1 .. Length
        /\ month' \in 1 .. Length /\ l \in Nat
    BY <1>1, GapIs
  <2>2. /\ Start[b] \in Int /\ Start[k] \in Int /\ Start[month] \in Int
        /\ Start[month'] \in Int
        /\ Start[k + 1] = Start[k] + MonthDays[k]
        /\ Start[month + 1] = Start[month] + MonthDays[month]
        /\ MonthDays[k] \in 28 .. 31 /\ MonthDays[month] \in 28 .. 31
    BY <2>1, StartStep, MonthLength
  <2>3. \/ month' = k /\ day' = day
        \/ /\ month' = k + 1 /\ day' \in 1 .. 3 /\ day >= 29
           /\ MonthDays[k] < day /\ day <= MonthDays[month]
    BY <1>1, FallsInto
  <2>4. month \in Int /\ day \in Int /\ Months(freq) \in Int
    BY MonthLength, <2>1 DEF CalendarInv, Months
  <2>5. CASE month' = k /\ day' = day
    <3>1. b = month
      BY <2>4, <2>5
    <3> HIDE DEF k, b
    <3>2. QED
      BY <2>1, <2>2, <2>5, <3>1
  <2>6. CASE /\ month' = k + 1 /\ day' \in 1 .. 3 /\ day >= 29
             /\ MonthDays[k] < day /\ day <= MonthDays[month]
    <3>1. b = month + 1
      BY <2>4, <2>6
    <3> HIDE DEF k, b
    <3>2. gap' = MonthDays[month] - MonthDays[k]
      BY <2>1, <2>2, <2>6, <3>1
    <3>3. QED
      BY <1>1, <2>2, <2>4, <2>6, <3>2
  <2>7. QED
    BY <2>3, <2>5, <2>6
<1>2. QED
  BY <1>0, <1>1

LEMMA CalendarKept == CalendarInv /\ [CalendarNext]_calendarVars => CalendarInv'
<1> SUFFICES ASSUME CalendarInv, [CalendarNext]_calendarVars PROVE CalendarInv'
  OBVIOUS
<1>1. CASE UNCHANGED calendarVars
  BY <1>1, Length' = Length, MonthDays' = MonthDays
  DEF calendarVars, CalendarInv, GapOfLateness
<1>2. ASSUME NEW l \in 0 .. MaxLate, Report(l) PROVE CalendarInv'
  <2>1. month' \in 13 .. Length /\ day' \in 1 .. MonthDays[month'] /\ l \in Nat
    BY <1>2, SentOn
  <2>2. gap' \in Int /\ gap' <= l + 3 /\ late' = l /\ freq' = freq
    BY <1>2, GapAtMost DEF Report
  <2>3. /\ onTime' = (onTime /\ l = 0) /\ tail' = (day >= 29)
        /\ gaps' = IF gap' > 0 THEN gaps + 1 ELSE gaps
    BY <1>2 DEF Report
  <2>4. /\ freq \in {"daily", "monthly", "yearly"} /\ gaps \in Nat
        /\ month \in 13 .. Length /\ day \in 1 .. MonthDays[month]
        /\ onTime => gaps <= 1 /\ (gaps = 1 => day <= 28 /\ freq # "daily")
    BY DEF CalendarInv
  <2>5. onTime' \in BOOLEAN /\ tail' \in BOOLEAN
    <3>1. onTime' \in BOOLEAN
      BY <2>3, Zenon
    <3>2. (day >= 29) \in BOOLEAN
      BY <2>4, MonthLength
    <3>3. QED
      BY <2>3, <3>1, <3>2, Zenon
  <2>6. gaps' \in Nat
    BY <2>2, <2>3, <2>4
  <2>7. ASSUME onTime'
        PROVE  /\ gaps' <= 1 /\ gap' <= 3
               /\ gaps' = 1 => day' <= 28 /\ freq' # "daily"
               /\ gap' > 0 => tail' /\ freq' # "daily"
    <3>1. onTime /\ l = 0
      BY <2>3, <2>7
    <3>2. \/ gap' = 0 /\ (day <= 28 => freq = "daily" \/ day' = day)
          \/ gap' \in 1 .. 3 /\ day >= 29 /\ day' \in 1 .. 3 /\ freq # "daily"
      BY <1>2, <3>1, GapOnTime
    <3>3. day \in Int /\ (onTime => gaps <= 1 /\ (gaps = 1 => day <= 28 /\ freq # "daily"))
      BY <2>4, MonthLength
    <3>4. CASE gap' = 0 /\ (day <= 28 => freq = "daily" \/ day' = day)
      <4>1. gaps' = gaps /\ gaps' <= 1 /\ gap' <= 3 /\ ~ (gap' > 0)
        BY <2>3, <2>4, <3>1, <3>4
      <4>2. gaps' = 1 => day' <= 28 /\ freq' # "daily"
        BY <2>2, <3>1, <3>3, <3>4, <4>1
      <4>3. QED
        BY <4>1, <4>2
    <3>5. CASE gap' \in 1 .. 3 /\ day >= 29 /\ day' \in 1 .. 3 /\ freq # "daily"
      <4>1. gaps = 0
        BY <2>4, <3>1, <3>3, <3>5
      <4>2. gaps' = 1 /\ gap' <= 3 /\ day' <= 28 /\ freq' # "daily"
        BY <2>2, <2>3, <3>5, <4>1
      <4>3. tail'
        BY <2>3, <3>5
      <4>4. QED
        BY <4>2, <4>3
    <3>6. QED
      BY <3>2, <3>4, <3>5
  <2>8. GapOfLateness'
    BY <2>2 DEF GapOfLateness
  <2>9. QED
    BY <2>1, <2>2, <2>4, <2>5, <2>6, <2>7, <2>8, Zenon DEF CalendarInv
<1>3. QED
  BY <1>1, <1>2 DEF CalendarNext

(* A schedule that is on time leaves days out once at most, in any         *)
(* calendar of months of 28 to 31 days.                                    *)
THEOREM GapsOnceOnly == CalendarSpec => []GapOnce
<1>1. CalendarInit => CalendarInv
  BY CalendarStarts
<1>2. CalendarInv /\ [CalendarNext]_calendarVars => CalendarInv'
  BY CalendarKept
<1>3. CalendarInv => GapOnce
  BY Zenon DEF CalendarInv, GapOnce
<1>4. QED
  BY <1>1, <1>2, <1>3, PTL DEF CalendarSpec

(* A late report leaves out no more than its delay and three days.         *)
THEOREM GapsAsLate == CalendarSpec => []GapOfLateness
<1>1. CalendarInit => CalendarInv
  BY CalendarStarts
<1>2. CalendarInv /\ [CalendarNext]_calendarVars => CalendarInv'
  BY CalendarKept
<1>3. CalendarInv => GapOfLateness
  BY DEF CalendarInv
<1>4. QED
  BY <1>1, <1>2, <1>3, PTL DEF CalendarSpec

-----------------------------------------------------------------------------
(* Totals.                                                                 *)

Amounts(S) == IsFiniteSet(S) /\ \A r \in S : r.amount \in Int

LEMMA TotalEmpty == Total({}) = 0
BY SumEmpty DEF Total

LEMMA TotalOver ==
  ASSUME NEW S, NEW T \in SUBSET S, Amounts(S)
  PROVE  /\ Amounts(T) /\ Total(T) \in Int
         /\ Total(T) = SumFunctionOnSet([r \in S |-> r.amount], T)
<1>1. IsFiniteSet(T) /\ Amounts(T)
  BY FS_Subset DEF Amounts
<1>2. \A r \in T : [q \in T |-> q.amount][r] = [q \in S |-> q.amount][r]
  OBVIOUS
<1>3. Total(T) = SumFunctionOnSet([r \in S |-> r.amount], T)
  BY <1>1, <1>2, SumAgree DEF Total
<1>4. \A r \in T : [q \in T |-> q.amount][r] \in Int
  BY <1>1 DEF Amounts
<1>5. Total(T) \in Int
  BY <1>1, <1>4, SumInt DEF Total
<1>6. QED
  BY <1>1, <1>3, <1>5

LEMMA TotalUnion ==
  ASSUME NEW S, NEW T, Amounts(S), Amounts(T), S \cap T = {}
  PROVE  Total(S \cup T) = Total(S) + Total(T) /\ Amounts(S \cup T)
<1> DEFINE f == [r \in S \cup T |-> r.amount]
<1>1. Amounts(S \cup T)
  BY FS_Union DEF Amounts
<1>2. /\ Total(S) = SumFunctionOnSet(f, S)
      /\ Total(T) = SumFunctionOnSet(f, T)
      /\ Total(S \cup T) = SumFunctionOnSet(f, S \cup T)
  BY <1>1, TotalOver
<1>3. \A r \in S \cup T : f[r] \in Int
  BY <1>1 DEF Amounts
<1> HIDE DEF f
<1>4. SumFunctionOnSet(f, S \cup T) = SumFunctionOnSet(f, S) + SumFunctionOnSet(f, T)
  BY <1>3, SumUnion DEF Amounts
<1>5. QED
  BY <1>1, <1>2, <1>4

LEMMA TotalOne ==
  ASSUME NEW x, x.amount \in Int
  PROVE  Total({x}) = x.amount /\ Amounts({x})
<1> DEFINE f == [r \in {x} |-> r.amount]
<1>1. f[x] = x.amount /\ {} \cup {x} = {x}
  OBVIOUS
<1>2. IsFiniteSet({}) /\ IsFiniteSet({x})
  BY FS_EmptySet, FS_Singleton
<1> HIDE DEF f
<1>3. SumFunctionOnSet(f, {} \cup {x}) = f[x] + SumFunctionOnSet(f, {})
  BY <1>1, <1>2, SumAdd
<1>4. Total({x}) = x.amount
  BY <1>1, <1>3, SumEmpty DEF Total, f
<1>5. QED
  BY <1>2, <1>4 DEF Amounts

-----------------------------------------------------------------------------
(* The inductive invariant: rows have numbers of their own, so that a row  *)
(* stored is a new one; the run in hand is no older than the last report,  *)
(* so that no window ends before the one before it.                        *)
ReportInv ==
  /\ now \in Nat /\ sentTo \in Nat /\ sentTo <= now /\ period \in Nat
  /\ run # Null => run \in Nat /\ sentTo <= run /\ run <= now
  /\ IsFiniteSet(rows)
  /\ \A r \in rows : /\ r.id \in Nat /\ r.id < Cardinality(rows)
                     /\ r.amount \in Int /\ r.stamp \in Int
  /\ reported \in [Group -> Int] /\ known \in [Group -> Int]
  /\ missed \in [Group -> Int] /\ again \in [Group -> Int]
  /\ ReportsAddUp

(* The rows of a group, from a time on.                                    *)
Since(w, k, t) == {r \in rows : r.wallet = w /\ r.kind = k /\ r.stamp >= t}

LEMMA RowAmounts == ReportInv => Amounts(rows)
BY DEF ReportInv, Amounts

LEMMA OpenIs ==
  ASSUME ReportInv, NEW w, NEW k
  PROVE  Open(w, k) = Total(Since(w, k, sentTo)) /\ Open(w, k) \in Int
<1>1. Open(w, k) = Total(Since(w, k, sentTo))
  BY DEF Open, Since
<1>2. Since(w, k, sentTo) \in SUBSET rows
  BY DEF Since
<1>3. QED
  BY <1>1, <1>2, RowAmounts, TotalOver

LEMMA ReportStarts == ReportInit => ReportInv
<1> SUFFICES ASSUME ReportInit PROVE ReportInv
  OBVIOUS
<1>1. \A w, k : Open(w, k) = 0
  <2>1. \A w, k : {r \in rows : r.wallet = w /\ r.kind = k /\ r.stamp >= sentTo} = {}
    BY DEF ReportInit
  <2>2. QED
    BY <2>1, TotalEmpty DEF Open
<1>2. ReportsAddUp
  BY <1>1 DEF ReportInit, ReportsAddUp, Group
<1>3. QED
  BY <1>2, ReportAssumption, FS_EmptySet DEF ReportInit, ReportInv

(* A row stored before its report is open, one stored after it is not.     *)
LEMMA StoreRowAddsUp == ReportInv /\ StoreRow => ReportInv'
<1> SUFFICES ASSUME ReportInv, StoreRow PROVE ReportInv'
  OBVIOUS
<1>1. PICK w \in Wallet, k \in Kind, n \in Amount, stamp \in 0 .. LastTick :
        /\ rows' = rows \cup {[id |-> Cardinality(rows), wallet |-> w, kind |-> k,
                               amount |-> n, stamp |-> stamp]}
        /\ known' = IF w \in Own /\ stamp >= sentTo
                    THEN Add(known, <<w, k>>, n) ELSE known
  BY DEF StoreRow
<1> DEFINE x == [id |-> Cardinality(rows), wallet |-> w, kind |-> k,
                 amount |-> n, stamp |-> stamp]
<1>2. /\ x.id = Cardinality(rows) /\ x.wallet = w /\ x.kind = k
      /\ x.amount = n /\ x.stamp = stamp
  OBVIOUS
<1>3. /\ sentTo' = sentTo /\ reported' = reported
      /\ missed' = missed /\ again' = again
      /\ UNCHANGED <<now, period, run>> /\ sentTo \in Nat
      /\ IsFiniteSet(rows) /\ Cardinality(rows) \in Nat
      /\ n \in Int /\ stamp \in Int /\ <<w, k>> \in Group
      /\ known \in [Group -> Int] /\ reported \in [Group -> Int]
  BY ReportAssumption, FS_CardinalityType
  DEF StoreRow, settingsVars, sentVars, ReportInv, Group
<1>4. rows' = rows \cup {x}
  BY <1>1
<1> HIDE DEF x
<1>5. x \notin rows
  BY <1>2, <1>3 DEF ReportInv
<1>6. IsFiniteSet(rows') /\ Cardinality(rows') = Cardinality(rows) + 1
  BY <1>3, <1>4, <1>5, FS_AddElement, Zenon
<1>7. \A r \in rows' : /\ r.id \in Nat /\ r.id < Cardinality(rows')
                       /\ r.amount \in Int /\ r.stamp \in Int
  BY <1>2, <1>3, <1>4, <1>6 DEF ReportInv
<1>8. known' \in [Group -> Int]
  BY <1>1, <1>3 DEF Add
<1>9. ASSUME NEW v \in Wallet, NEW m \in Kind
      PROVE  reported'[<<v, m>>] + missed'[<<v, m>>]
               + (IF v \in Own THEN Open(v, m)' ELSE 0)
               = known'[<<v, m>>] + again'[<<v, m>>]
  <2> DEFINE S == Since(v, m, sentTo)
             fits == w = v /\ k = m /\ stamp >= sentTo
  <2>1. /\ reported[<<v, m>>] + missed[<<v, m>>]
             + (IF v \in Own THEN Open(v, m) ELSE 0) = known[<<v, m>>] + again[<<v, m>>]
        /\ <<v, m>> \in Group /\ reported[<<v, m>>] \in Int /\ known[<<v, m>>] \in Int
        /\ missed[<<v, m>>] \in Int /\ again[<<v, m>>] \in Int
    BY <1>3 DEF ReportInv, ReportsAddUp, Group
  <2>2. Open(v, m) = Total(S) /\ Open(v, m) \in Int
    BY OpenIs
  <2>3. Open(v, m)' = Total({r \in rows' : r.wallet = v /\ r.kind = m /\ r.stamp >= sentTo})
    BY <1>3 DEF Open
  <2>4. CASE fits
    <3>1. {r \in rows' : r.wallet = v /\ r.kind = m /\ r.stamp >= sentTo} = S \cup {x}
      BY <1>2, <1>4, <2>4 DEF Since
    <3>2. Amounts(S) /\ S \cap {x} = {}
      <4>1. S \in SUBSET rows
        BY DEF Since
      <4>2. QED
        BY <1>5, <4>1, RowAmounts, TotalOver
    <3>3. Total({x}) = n /\ Amounts({x})
      BY <1>2, <1>3, TotalOne
    <3> HIDE DEF S
    <3>4. Open(v, m)' = Open(v, m) + n
      BY <2>2, <2>3, <3>1, <3>2, <3>3, TotalUnion
    <3>5. w \in Own => known'[<<v, m>>] = known[<<v, m>>] + n
      BY <1>1, <1>3, <2>1, <2>4 DEF Add
    <3>6. w \notin Own => known' = known
      BY <1>1
    <3>7. QED
      BY <1>3, <2>1, <2>2, <2>4, <3>4, <3>5, <3>6
  <2>5. CASE ~ fits
    <3>1. {r \in rows' : r.wallet = v /\ r.kind = m /\ r.stamp >= sentTo} = S
      BY <1>2, <1>4, <2>5 DEF Since
    <3>2. Open(v, m)' = Open(v, m)
      BY <2>2, <2>3, <3>1
    <3>3. v \in Own => known'[<<v, m>>] = known[<<v, m>>]
      <4>1. CASE w \in Own /\ stamp >= sentTo
        <5>1. <<v, m>> # <<w, k>>
          BY <2>5, <4>1
        <5>2. QED
          BY <1>1, <1>3, <2>1, <4>1, <5>1 DEF Add
      <4>2. CASE ~ (w \in Own /\ stamp >= sentTo)
        BY <1>1, <4>2
      <4>3. QED
        BY <4>1, <4>2
    <3>4. v \notin Own => known'[<<v, m>>] = known[<<v, m>>]
      <4>1. CASE w \in Own /\ stamp >= sentTo
        <5>1. v \notin Own => <<v, m>> # <<w, k>>
          BY <4>1
        <5>2. QED
          BY <1>1, <1>3, <2>1, <4>1, <5>1 DEF Add
      <4>2. CASE ~ (w \in Own /\ stamp >= sentTo)
        BY <1>1, <4>2
      <4>3. QED
        BY <4>1, <4>2
    <3>5. QED
      BY <1>3, <2>1, <3>2, <3>3, <3>4
  <2>6. QED
    BY <2>4, <2>5
<1>10. ReportsAddUp'
  BY <1>9 DEF ReportsAddUp
<1>11. QED
  BY <1>3, <1>6, <1>7, <1>8, <1>10 DEF ReportInv

(* A line is of its wallet, and of a kind some row has or of none.         *)
LEMMA LineIs ==
  ASSUME NEW w, NEW lo, NEW hi, NEW l \in LinesOf(w, lo, hi)
  PROVE  /\ l.wallet = w
         /\ l.kind = NoKind \/ \E r \in Matches(w, lo, hi) : r.kind = l.kind
<1>1. CASE Matches(w, lo, hi) = {}
  <2>1. l = [wallet |-> w, kind |-> NoKind, amount |-> 0]
    BY <1>1 DEF LinesOf
  <2>2. QED
    BY <2>1
<1>2. CASE Matches(w, lo, hi) # {}
  <2> DEFINE M == Matches(w, lo, hi)
  <2>1. l \in {[wallet |-> w, kind |-> k, amount |-> Total({r \in M : r.kind = k})] :
                 k \in {r.kind : r \in M}}
    BY <1>2, Zenon DEF LinesOf
  <2>2. PICK k \in {r.kind : r \in M} :
          l = [wallet |-> w, kind |-> k, amount |-> Total({r \in M : r.kind = k})]
    BY <2>1, Zenon
  <2>3. QED
    BY <2>2
<1>3. QED
  BY <1>1, <1>2

(* What a report says of a wallet of the user and a kind is what the rows  *)
(* of its window add up to; a line that is dropped is one of nothing.      *)
LEMMA LinesAddUp ==
  ASSUME ReportInv, NEW w \in Wallet, NEW k \in Kind, NEW lo, NEW hi
  PROVE  Total({l \in AggregateReport(lo, hi) : <<l.wallet, l.kind>> = <<w, k>>})
           = IF w \in Own THEN Total({r \in Matches(w, lo, hi) : r.kind = k}) ELSE 0
<1> DEFINE G == {l \in AggregateReport(lo, hi) : <<l.wallet, l.kind>> = <<w, k>>}
           M == Matches(w, lo, hi)
           A == Total({r \in M : r.kind = k})
           line == [wallet |-> w, kind |-> k, amount |-> A]
<1>1. ASSUME NEW l \in G
      PROVE  /\ w \in Own /\ l \in LinesOf(w, lo, hi) /\ (include \/ l.amount # 0)
             /\ l.wallet = w /\ l.kind = k
  <2>1. l.wallet = w /\ l.kind = k
    OBVIOUS
  <2>2. PICK v \in Own : l \in LinesOf(v, lo, hi)
    BY DEF AggregateReport
  <2>3. l.wallet = v
    BY <2>2, LineIs
  <2>4. include \/ l.amount # 0
    BY DEF AggregateReport
  <2>5. QED
    BY <2>1, <2>2, <2>3, <2>4
<1>2. CASE w \notin Own
  <2>1. G = {}
    BY <1>1, <1>2
  <2>2. QED
    BY <1>2, <2>1, TotalEmpty
<1>3. CASE w \in Own /\ {r \in M : r.kind = k} = {}
  <2>1. ASSUME NEW l \in G PROVE FALSE
    <3>1. l \in LinesOf(w, lo, hi) /\ l.kind = k
      BY <1>1
    <3>2. k # NoKind
      BY ReportAssumption
    <3>3. \E r \in M : r.kind = k
      BY <3>1, <3>2, LineIs
    <3>4. QED
      BY <1>3, <3>3
  <2>2. G = {}
    BY <2>1
  <2>3. QED
    BY <1>3, <2>2, TotalEmpty
<1>4. CASE w \in Own /\ {r \in M : r.kind = k} # {}
  <2>1. M # {} /\ k \in {r.kind : r \in M}
    BY <1>4
  <2>2. A \in Int
    <3>1. {r \in M : r.kind = k} \in SUBSET rows
      BY DEF Matches
    <3>2. QED
      BY <3>1, RowAmounts, TotalOver
  <2>3. LinesOf(w, lo, hi) =
          {[wallet |-> w, kind |-> j, amount |-> Total({r \in M : r.kind = j})] :
             j \in {r.kind : r \in M}}
    BY <2>1, Zenon DEF LinesOf
  <2>4. line \in LinesOf(w, lo, hi) /\ line.wallet = w /\ line.kind = k
        /\ line.amount = A
    BY <2>1, <2>3
  <2>5. ASSUME NEW l \in G PROVE l = line /\ (include \/ A # 0)
    <3>1. l \in LinesOf(w, lo, hi) /\ l.kind = k /\ (include \/ l.amount # 0)
      BY <1>1
    <3>2. PICK j \in {r.kind : r \in M} :
            l = [wallet |-> w, kind |-> j, amount |-> Total({r \in M : r.kind = j})]
      BY <2>3, <3>1, Zenon
    <3>3. j = k
      BY <3>1, <3>2
    <3>4. l = line
      BY <3>2, <3>3, Zenon
    <3>5. QED
      BY <2>4, <3>1, <3>4
  <2>6. include \/ A # 0 => line \in G
    <3>1. ASSUME include \/ A # 0 PROVE line \in G
      <4>1. line \in UNION {LinesOf(v, lo, hi) : v \in Own}
        BY <1>4, <2>4
      <4>2. include \/ line.amount # 0
        BY <2>4, <3>1
      <4>3. line \in AggregateReport(lo, hi)
        BY <4>1, <4>2 DEF AggregateReport
      <4>4. QED
        BY <2>4, <4>3
    <3>2. QED
      BY <3>1
  <2>7. G = IF include \/ A # 0 THEN {line} ELSE {}
    BY <2>5, <2>6
  <2> HIDE DEF G, A, line
  <2>8. Total(G) = A
    <3>1. CASE include \/ A # 0
      <4>1. G = {line} /\ line.amount \in Int
        BY <2>2, <2>4, <2>7, <3>1
      <4>2. QED
        BY <2>4, <4>1, TotalOne
    <3>2. CASE ~ (include \/ A # 0)
      BY <2>7, <3>2, TotalEmpty
    <3>3. QED
      BY <3>1, <3>2
  <2>9. QED
    BY <1>4, <2>8 DEF G, A
<1>5. QED
  BY <1>2, <1>3, <1>4

(* The rows of an own group between two times, as a report matches them.   *)
LEMMA BetweenIs ==
  ASSUME NEW w, NEW k, NEW lo, NEW hi
  PROVE  /\ {r \in Matches(w, lo, hi) : r.kind = k} = Between(<<w, k>>, lo, hi)
         /\ Between(<<w, k>>, lo, hi) \in SUBSET rows
BY DEF Matches, InReport, Between

(* Times are cut at one between them.                                      *)
LEMMA BetweenCut ==
  ASSUME ReportInv, NEW g, NEW lo \in Int, NEW cut \in Int, NEW hi \in Int,
         lo <= cut, cut <= hi
  PROVE  /\ Total(Between(g, lo, hi)) =
              Total(Between(g, lo, cut)) + Total(Between(g, cut, hi))
         /\ Total(Between(g, lo, cut)) \in Int /\ Total(Between(g, cut, hi)) \in Int
<1> DEFINE A == Between(g, lo, cut)
           B == Between(g, cut, hi)
<1>1. \A r \in rows : r.stamp \in Int
  BY DEF ReportInv
<1>2. A \cup B = Between(g, lo, hi) /\ A \cap B = {}
  BY <1>1 DEF Between
<1>3. A \in SUBSET rows /\ B \in SUBSET rows
  BY DEF Between
<1> HIDE DEF A, B
<1>4. Amounts(A) /\ Total(A) \in Int /\ Amounts(B) /\ Total(B) \in Int
  BY <1>3, RowAmounts, TotalOver
<1>5. Total(A \cup B) = Total(A) + Total(B)
  BY <1>2, <1>4, TotalUnion
<1>6. QED
  BY <1>2, <1>4, <1>5 DEF A, B

(* What is open at one time and closed by a later one lies between them.   *)
LEMMA SinceCut ==
  ASSUME ReportInv, NEW w, NEW k, NEW lo \in Int, NEW hi \in Int, lo <= hi
  PROVE  /\ Total(Since(w, k, lo)) =
              Total(Between(<<w, k>>, lo, hi)) + Total(Since(w, k, hi))
         /\ Total(Between(<<w, k>>, lo, hi)) \in Int /\ Total(Since(w, k, hi)) \in Int
<1> DEFINE A == Between(<<w, k>>, lo, hi)
           B == Since(w, k, hi)
<1>1. \A r \in rows : r.stamp \in Int
  BY DEF ReportInv
<1>2. A \cup B = Since(w, k, lo) /\ A \cap B = {}
  BY <1>1 DEF Between, Since
<1>3. A \in SUBSET rows /\ B \in SUBSET rows
  BY DEF Between, Since
<1> HIDE DEF A, B
<1>4. Amounts(A) /\ Total(A) \in Int /\ Amounts(B) /\ Total(B) \in Int
  BY <1>3, RowAmounts, TotalOver
<1>5. Total(A \cup B) = Total(A) + Total(B)
  BY <1>2, <1>4, TotalUnion
<1>6. QED
  BY <1>2, <1>4, <1>5 DEF A, B

(* No time lies between one and an earlier one.                            *)
LEMMA BetweenNone ==
  ASSUME ReportInv, NEW g, NEW lo \in Int, NEW hi \in Int, hi <= lo
  PROVE  Total(Between(g, lo, hi)) = 0
<1>1. \A r \in rows : r.stamp \in Int
  BY DEF ReportInv
<1>2. Between(g, lo, hi) = {}
  BY <1>1 DEF Between
<1>3. QED
  BY <1>2, TotalEmpty

(* What was open is missed, in the window or still open, for a late report; *)
(* an early one shows some rows again, and the rest of its window was open. *)
LEMMA WindowAddsUp ==
  ASSUME ReportInv, NEW w, NEW k, NEW begin \in Int, NEW to \in Int,
         sentTo <= to, begin <= to
  PROVE  LET g == <<w, k>>
             inWindow == Total(Between(g, begin, to))
             left == Total(Between(g, sentTo, begin))
             twice == Total(Between(g, begin, sentTo))
         IN /\ inWindow \in Int /\ left \in Int /\ twice \in Int
            /\ Total(Since(w, k, sentTo)) \in Int /\ Total(Since(w, k, to)) \in Int
            /\ inWindow + left + Total(Since(w, k, to)) =
                 Total(Since(w, k, sentTo)) + twice
<1> DEFINE g == <<w, k>>
<1>1. sentTo \in Int
  BY DEF ReportInv
<1>2. Total(Since(w, k, sentTo)) = Total(Between(g, sentTo, to)) + Total(Since(w, k, to))
      /\ Total(Between(g, sentTo, to)) \in Int /\ Total(Since(w, k, to)) \in Int
  BY <1>1, SinceCut
<1>3. CASE sentTo <= begin
  <2>1. Total(Between(g, sentTo, to)) =
          Total(Between(g, sentTo, begin)) + Total(Between(g, begin, to))
        /\ Total(Between(g, sentTo, begin)) \in Int /\ Total(Between(g, begin, to)) \in Int
    BY <1>1, <1>3, BetweenCut
  <2>2. Total(Between(g, begin, sentTo)) = 0
    BY <1>1, <1>3, BetweenNone
  <2>3. QED
    BY <1>2, <2>1, <2>2
<1>4. CASE begin < sentTo
  <2>1. Total(Between(g, begin, to)) =
          Total(Between(g, begin, sentTo)) + Total(Between(g, sentTo, to))
        /\ Total(Between(g, begin, sentTo)) \in Int
    BY <1>1, <1>4, BetweenCut
  <2>2. Total(Between(g, sentTo, begin)) = 0
    BY <1>1, <1>4, BetweenNone
  <2>3. QED
    BY <1>2, <2>1, <2>2
<1>5. QED
  BY <1>1, <1>3, <1>4

(* A report, late, early or neither, keeps the account.                    *)
LEMMA SendReportAddsUp == ReportInv /\ SendReport => ReportInv'
<1> SUFFICES ASSUME ReportInv, SendReport PROVE ReportInv'
  OBVIOUS
<1> DEFINE begin == run - period
<1>1. /\ run \in Nat /\ sentTo <= run /\ run <= now
      /\ now \in Nat /\ sentTo \in Nat /\ period \in Nat
      /\ reported \in [Group -> Int] /\ known \in [Group -> Int]
      /\ missed \in [Group -> Int] /\ again \in [Group -> Int]
  BY DEF SendReport, ReportInv
<1>2. /\ sentTo' = run /\ UNCHANGED <<now, period, run, rows, known>>
      /\ lines' = AggregateReport(begin, run)
      /\ reported' = [g \in Group |->
            reported[g] + Total({l \in lines' : <<l.wallet, l.kind>> = g})]
  BY DEF SendReport, settingsVars
<1>3. sentTo + Late = begin /\ begin \in Int /\ begin <= run
  BY <1>1 DEF Late
<1> HIDE DEF begin
<1>4. /\ missed' = [g \in Group |-> missed[g] + OwnTotal(g, Between(g, sentTo, begin))]
      /\ again' = [g \in Group |-> again[g] + OwnTotal(g, Between(g, begin, sentTo))]
  BY <1>3 DEF SendReport
<1>5. ASSUME NEW w \in Wallet, NEW k \in Kind
      PROVE  LET g == <<w, k>> IN
             /\ reported'[g] \in Int /\ missed'[g] \in Int /\ again'[g] \in Int
             /\ reported'[g] + missed'[g] + (IF w \in Own THEN Open(w, k)' ELSE 0)
                  = known'[g] + again'[g]
  <2> DEFINE g == <<w, k>>
             inWindow == Total(Between(g, begin, run))
             left == Total(Between(g, sentTo, begin))
             twice == Total(Between(g, begin, sentTo))
  <2>1. /\ g \in Group /\ g[1] = w
        /\ reported[g] \in Int /\ known[g] \in Int /\ missed[g] \in Int /\ again[g] \in Int
        /\ reported[g] + missed[g] + (IF w \in Own THEN Open(w, k) ELSE 0)
             = known[g] + again[g]
    BY <1>1 DEF ReportInv, ReportsAddUp, Group
  <2>2. reported'[g] = reported[g] + IF w \in Own THEN inWindow ELSE 0
    <3>1. reported'[g] = reported[g]
            + Total({l \in AggregateReport(begin, run) : <<l.wallet, l.kind>> = g})
      BY <1>2, <2>1
    <3>2. Total({l \in AggregateReport(begin, run) : <<l.wallet, l.kind>> = g})
            = IF w \in Own THEN inWindow ELSE 0
      <4>1. {r \in Matches(w, begin, run) : r.kind = k} = Between(<<w, k>>, begin, run)
        BY BetweenIs
      <4>2. Total({l \in AggregateReport(begin, run) : <<l.wallet, l.kind>> = <<w, k>>})
              = IF w \in Own THEN Total({r \in Matches(w, begin, run) : r.kind = k}) ELSE 0
        BY LinesAddUp, Zenon
      <4>3. QED
        BY <4>1, <4>2
    <3>3. QED
      BY <3>1, <3>2
  <2>3. /\ missed'[g] = missed[g] + IF w \in Own THEN left ELSE 0
        /\ again'[g] = again[g] + IF w \in Own THEN twice ELSE 0
    BY <1>4, <2>1 DEF OwnTotal
  <2>4. Open(w, k) = Total(Since(w, k, sentTo)) /\ Open(w, k)' = Total(Since(w, k, run))
    BY <1>2 DEF Open, Since
  <2>5. /\ inWindow \in Int /\ left \in Int /\ twice \in Int
        /\ Open(w, k) \in Int /\ Open(w, k)' \in Int
        /\ inWindow + left + Open(w, k)' = Open(w, k) + twice
    BY <1>1, <1>3, <2>4, WindowAddsUp
  <2> HIDE DEF inWindow, left, twice, g
  <2>6. known' = known
    BY <1>2
  <2>7. /\ reported'[g] \in Int /\ missed'[g] \in Int /\ again'[g] \in Int
        /\ reported'[g] + missed'[g] + (IF w \in Own THEN Open(w, k)' ELSE 0)
             = known'[g] + again'[g]
    BY <2>1, <2>2, <2>3, <2>5, <2>6
  <2>8. QED
    BY <2>7 DEF g
<1>6. reported' \in [Group -> Int] /\ missed' \in [Group -> Int] /\ again' \in [Group -> Int]
  <2>1. \A g \in Group : reported'[g] \in Int /\ missed'[g] \in Int /\ again'[g] \in Int
    BY <1>5 DEF Group
  <2>2. QED
    BY <1>2, <1>4, <2>1
<1>7. ReportsAddUp'
  BY <1>5 DEF ReportsAddUp
<1>8. QED
  BY <1>1, <1>2, <1>6, <1>7 DEF ReportInv

LEMMA ReportKept == ReportInv /\ [ReportNext]_reportVars => ReportInv'
<1> SUFFICES ASSUME ReportInv, [ReportNext]_reportVars PROVE ReportInv'
  OBVIOUS
<1> USE DEF settingsVars, sentVars
<1>1. ASSUME UNCHANGED <<rows, sentTo, reported, known, missed, again>>,
             now' \in {now, now + 1}, period' \in {period} \cup Periods,
             run' \in {run, now, Null}
      PROVE  ReportInv'
  <2>1. ReportsAddUp'
    BY <1>1 DEF ReportInv, ReportsAddUp, Open
  <2>2. /\ now' \in Nat /\ sentTo' <= now' /\ period' \in Nat
        /\ run' # Null => run' \in Nat /\ sentTo' <= run' /\ run' <= now'
    BY <1>1, ReportAssumption DEF ReportInv
  <2>3. QED
    BY <1>1, <2>1, <2>2 DEF ReportInv
<1>2. CASE Pass
  BY <1>1, <1>2 DEF Pass
<1>3. CASE UpdateSettings
  BY <1>1, <1>3 DEF UpdateSettings
<1>4. CASE StartRun
  BY <1>1, <1>4 DEF StartRun
<1>5. CASE SetNextReportAt
  BY <1>1, <1>5 DEF SetNextReportAt
<1>6. CASE GiveUp
  BY <1>1, <1>6 DEF GiveUp
<1>7. CASE UNCHANGED reportVars
  BY <1>1, <1>7 DEF reportVars
<1>8. QED
  BY <1>2, <1>3, <1>4, <1>5, <1>6, <1>7, StoreRowAddsUp, SendReportAddsUp
  DEF ReportNext

(* Reports add up, whenever they are sent: a row of the user's wallets     *)
(* stored before its report is in one report, unless the report was late   *)
(* or early by a stretch the row's time lies in.                           *)
THEOREM NothingLostInReports == ReportSpec => []ReportsAddUp
<1>1. ReportInit => ReportInv
  BY ReportStarts
<1>2. ReportInv /\ [ReportNext]_reportVars => ReportInv'
  BY ReportKept
<1>3. ReportInv => ReportsAddUp
  BY DEF ReportInv
<1>4. QED
  BY <1>1, <1>2, <1>3, PTL DEF ReportSpec

-----------------------------------------------------------------------------
(* The pages of the list of users.                                         *)

PagesTypeOK ==
  /\ registered \in Nat /\ stage \in {"idle", "count", "list"}
  /\ asked \in Nat /\ typed \in BOOLEAN /\ total \in Nat
  /\ page \in Nat /\ pages \in Nat /\ buttons \in SUBSET Nat
  /\ walk \in BOOLEAN /\ start \in Nat /\ spilled \in BOOLEAN

(* Page p of n users is not past the end.                                  *)
Exists(p, n) == p >= 1 /\ (p = 1 \/ (p - 1) * UsersPerPage < n)

(* The count of a page is of the present or the past, and of the past only *)
(* when a signup has come in between.                                      *)
CountOK ==
  /\ stage # "idle" => asked >= 1
  /\ stage = "list" => total <= registered /\ (total = registered \/ spilled)

(* A button leads to a page that is not past the end, and users never      *)
(* leave.                                                                  *)
ButtonOK ==
  /\ \A p \in buttons : Exists(p, registered)
  /\ stage = "count" /\ ~typed => Exists(asked, registered)
  /\ stage = "list" /\ ~typed => Exists(asked, total)

(* A walk has seen whoever of the beginning is not further back now than   *)
(* its last page.                                                          *)
SeenUpTo(p) == \A u \in 1 .. start : u > registered - p * UsersPerPage => u \in seen

WalkOK ==
  /\ start <= registered
  /\ walk /\ stage = "idle" => page = asked /\ SeenUpTo(page)
  /\ walk /\ stage # "idle" => SeenUpTo(asked - 1) /\ (typed => asked = 1)

PagesInv ==
  /\ PagesTypeOK /\ CountOK /\ ButtonOK /\ WalkOK /\ ButtonsLead /\ WalkSeesAll
-----------------------------------------------------------------------------
LEMMA Products ==
  ASSUME NEW u \in Nat \ {0}, NEW a \in Int, NEW b \in Int
  PROVE  /\ a * u \in Int /\ (a <= b <=> a * u <= b * u)
         /\ (a + 1) * u = a * u + u /\ (a - 1) * u = a * u - u
OBVIOUS

(* Rounding up: the last page holds the last user and is not empty.        *)
LEMMA PagesOf ==
  ASSUME NEW n \in Nat
  PROVE  /\ Pages(n) \in Nat /\ Pages(n) >= 1 /\ n <= Pages(n) * UsersPerPage
         /\ \A p \in Nat : Exists(p, n) <=> p >= 1 /\ p <= Pages(n)
<1> DEFINE U == UsersPerPage
           q == (n + U - 1) \div U
<1>1. U \in Nat \ {0}
  BY PagesAssumption
<1>2. q \in Nat /\ q * U <= n + U - 1 /\ n + U - 1 < q * U + U
  <2> HIDE DEF U
  <2>1. n + U - 1 \in Nat
    BY <1>1
  <2> QED BY <1>1, <2>1
<1>3. Pages(n) = IF q > 1 THEN q ELSE 1
  BY DEF Pages, Larger
<1> HIDE DEF q, U
<1>4. q * U \in Int /\ n <= q * U
  BY <1>1, <1>2, Products
<1>5. 1 * U = U /\ 0 * U = 0
  BY <1>1
<1>6. Pages(n) \in Nat /\ Pages(n) >= 1 /\ q <= Pages(n)
  BY <1>2, <1>3
<1>7. n <= Pages(n) * U
  <2>1. q * U <= Pages(n) * U /\ Pages(n) * U \in Int
    BY <1>1, <1>2, <1>6, Products
  <2> QED BY <1>4, <2>1
<1>8. ASSUME NEW p \in Nat
      PROVE  Exists(p, n) <=> p >= 1 /\ p <= Pages(n)
  <2> SUFFICES ASSUME p > 1
               PROVE  (p - 1) * U < n <=> p <= Pages(n)
    BY <1>6 DEF Exists, U
  <2>1. (p - 1) * U \in Int /\ Pages(n) * U \in Int /\ (q - 1) * U = q * U - U
        /\ (q - 1) * U \in Int
    BY <1>1, <1>2, <1>6, Products
  <2>2. ASSUME p <= Pages(n) PROVE (p - 1) * U < n
    <3>1. p - 1 <= q - 1
      BY <1>2, <1>3, <2>2
    <3>2. (p - 1) * U <= (q - 1) * U
      BY <1>1, <1>2, <3>1, Products
    <3> QED BY <1>1, <1>2, <1>4, <2>1, <3>2
  <2>3. ASSUME ~(p <= Pages(n)) PROVE ~((p - 1) * U < n)
    <3>1. Pages(n) <= p - 1
      BY <1>6, <2>3
    <3>2. Pages(n) * U <= (p - 1) * U
      BY <1>1, <1>6, <3>1, Products
    <3> QED BY <1>7, <2>1, <3>2
  <2> QED BY <2>2, <2>3
<1> QED BY <1>6, <1>7, <1>8 DEF U

LEMMA MoreUsers ==
  ASSUME NEW p \in Nat, NEW m \in Nat, NEW n \in Nat, m <= n, Exists(p, m)
  PROVE  Exists(p, n)
<1>1. (p - 1) * UsersPerPage \in Int
  BY Products, PagesAssumption
<1> QED BY <1>1 DEF Exists
-----------------------------------------------------------------------------
LEMMA PagesInitInv == PagesInit => PagesInv
<1> SUFFICES ASSUME PagesInit PROVE PagesInv
  OBVIOUS
<1>1. PagesTypeOK
  <2>1. registered \in Nat
    BY PagesAssumption DEF PagesInit
  <2>2. typed \in BOOLEAN /\ walk \in BOOLEAN /\ spilled \in BOOLEAN
    BY Zenon DEF PagesInit
  <2> QED BY <2>1, <2>2 DEF PagesInit, PagesTypeOK
<1>2. CountOK /\ ButtonOK
  BY DEF PagesInit, CountOK, ButtonOK
<1>3. WalkOK
  BY <1>1 DEF PagesInit, PagesTypeOK, WalkOK
<1>4. ButtonsLead /\ WalkSeesAll
  BY DEF PagesInit, ButtonsLead, WalkSeesAll
<1> QED BY <1>1, <1>2, <1>3, <1>4 DEF PagesInv

LEMMA SignUpStep == PagesInv /\ SignUp => PagesInv'
<1> SUFFICES ASSUME PagesInv, SignUp PROVE PagesInv'
  OBVIOUS
<1>1. /\ registered' = registered + 1 /\ spilled' = (spilled \/ stage = "list")
      /\ UNCHANGED <<stage, asked, typed, total, page, pages, list, buttons, walk,
                     start, seen>>
      /\ PagesTypeOK /\ CountOK /\ ButtonOK /\ WalkOK /\ ButtonsLead /\ WalkSeesAll
  BY DEF SignUp, PagesInv
<1>2. PagesTypeOK'
  BY <1>1 DEF PagesTypeOK
<1>3. CountOK'
  <2>1. stage' # "idle" => asked' >= 1
    BY <1>1 DEF CountOK
  <2>2. ASSUME stage' = "list"
        PROVE  total' <= registered' /\ spilled'
    <3>1. total <= registered /\ total \in Nat /\ registered \in Nat /\ stage = "list"
      BY <1>1, <2>2 DEF CountOK, PagesTypeOK
    <3>2. total' <= registered'
      BY <1>1, <3>1
    <3>3. spilled'
      BY <1>1, <3>1
    <3> QED BY <3>2, <3>3
  <2> QED BY <2>1, <2>2 DEF CountOK
<1>4. ButtonOK'
  <2>1. \A p \in Nat : Exists(p, registered) => Exists(p, registered')
    <3>1. registered \in Nat /\ registered' \in Nat /\ registered <= registered'
      BY <1>1 DEF PagesTypeOK
    <3> QED BY <3>1, MoreUsers
  <2> QED BY <1>1, <2>1 DEF PagesTypeOK, ButtonOK, Exists
<1>5. WalkOK'
  <2>1. \A p \in Int : SeenUpTo(p) => SeenUpTo(p)'
    <3> SUFFICES ASSUME NEW p \in Int, SeenUpTo(p), NEW u \in 1 .. start,
                        u > registered' - p * UsersPerPage
                 PROVE  u \in seen
      BY <1>1 DEF SeenUpTo
    <3> DEFINE k == p * UsersPerPage
    <3>1. k \in Int /\ u \in Int /\ registered \in Int /\ u > (registered + 1) - k
      BY <1>1, Products, PagesAssumption DEF PagesTypeOK
    <3>2. u > registered - k => u \in seen
      BY DEF SeenUpTo
    <3> HIDE DEF k
    <3> QED BY <3>1, <3>2
  <2>2. page \in Int /\ asked - 1 \in Int /\ start <= registered'
    BY <1>1 DEF PagesTypeOK, WalkOK
  <2>3. walk /\ stage = "idle" => SeenUpTo(page)'
    <3>1. walk /\ stage = "idle" => SeenUpTo(page)
      BY <1>1 DEF WalkOK
    <3> QED BY <1>1, <2>1, <2>2, <3>1 DEF SeenUpTo
  <2>4. walk /\ stage # "idle" => SeenUpTo(asked - 1)'
    <3>1. walk /\ stage # "idle" => SeenUpTo(asked - 1)
      BY <1>1 DEF WalkOK
    <3> QED BY <1>1, <2>1, <2>2, <3>1 DEF SeenUpTo
  <2> QED BY <1>1, <2>2, <2>3, <2>4 DEF WalkOK
<1>6. ButtonsLead' /\ WalkSeesAll'
  BY <1>1 DEF ButtonsLead, WalkSeesAll
<1> QED BY <1>2, <1>3, <1>4, <1>5, <1>6 DEF PagesInv

LEMMA AskPageStep ==
  ASSUME NEW p \in 1 .. MaxUsers
  PROVE  PagesInv /\ AskPage(p) => PagesInv'
<1> SUFFICES ASSUME PagesInv, AskPage(p) PROVE PagesInv'
  OBVIOUS
<1>1. /\ stage = "idle" /\ stage' = "count" /\ asked' = p /\ typed' = TRUE
      /\ walk' = (p = 1) /\ start' = registered
      /\ UNCHANGED <<registered, total, page, pages, list, buttons, spilled>>
      /\ PagesTypeOK /\ ButtonOK
      /\ p \in Nat /\ p >= 1
  BY PagesAssumption DEF AskPage, PagesInv
<1>2. PagesTypeOK'
  BY <1>1 DEF PagesTypeOK
<1>3. CountOK' /\ ButtonOK'
  BY <1>1 DEF CountOK, ButtonOK, Exists
<1>4. WalkOK'
  <2>1. SeenUpTo(0)'
    <3> SUFFICES ASSUME NEW u \in 1 .. registered, u > registered - 0 * UsersPerPage
                 PROVE  FALSE
      BY <1>1 DEF SeenUpTo
    <3>1. registered \in Nat /\ UsersPerPage \in Nat
      BY <1>1, PagesAssumption DEF PagesTypeOK
    <3> QED BY <3>1
  <2>2. walk' => asked' - 1 = 0
    <3>1. walk' => asked' = 1
      BY <1>1
    <3> QED BY <3>1
  <2>3. start' <= registered'
    BY <1>1 DEF PagesTypeOK
  <2>4. walk' => SeenUpTo(asked - 1)'
    BY <2>1, <2>2 DEF SeenUpTo
  <2>5. walk' => asked' = 1
    BY <1>1
  <2> QED BY <1>1, <2>3, <2>4, <2>5 DEF WalkOK
<1>5. ButtonsLead' /\ WalkSeesAll'
  BY <1>1 DEF ButtonsLead, WalkSeesAll
<1> QED BY <1>2, <1>3, <1>4, <1>5 DEF PagesInv

LEMMA PressStep ==
  ASSUME NEW p \in 1 .. MaxUsers
  PROVE  PagesInv /\ Press(p) => PagesInv'
<1> SUFFICES ASSUME PagesInv, Press(p) PROVE PagesInv'
  OBVIOUS
<1>1. /\ stage = "idle" /\ p \in buttons
      /\ stage' = "count" /\ asked' = p /\ typed' = FALSE
      /\ walk' = (walk /\ p = page + 1)
      /\ UNCHANGED <<registered, total, page, pages, list, buttons, start, seen, spilled>>
      /\ PagesTypeOK /\ ButtonOK /\ WalkOK
      /\ p \in Nat /\ p >= 1
  BY PagesAssumption DEF Press, PagesInv
<1>2. PagesTypeOK'
  BY <1>1 DEF PagesTypeOK
<1>3. CountOK' /\ ButtonOK'
  BY <1>1 DEF CountOK, ButtonOK, Exists
<1>4. WalkOK'
  <2>1. ASSUME walk' PROVE SeenUpTo(asked - 1)'
    <3>1. walk /\ p = page + 1 /\ page \in Nat
      BY <1>1, <2>1 DEF PagesTypeOK
    <3>2. SeenUpTo(page) /\ asked' - 1 = page
      BY <1>1, <3>1 DEF WalkOK
    <3> QED BY <1>1, <3>2 DEF SeenUpTo
  <2>2. start' <= registered' /\ ~typed'
    BY <1>1 DEF WalkOK
  <2> QED BY <1>1, <2>1, <2>2 DEF WalkOK
<1>5. ButtonsLead' /\ WalkSeesAll'
  BY <1>1 DEF ButtonsLead, WalkSeesAll
<1> QED BY <1>2, <1>3, <1>4, <1>5 DEF PagesInv

LEMMA CountUsersStep == PagesInv /\ CountUsers => PagesInv'
<1> SUFFICES ASSUME PagesInv, CountUsers PROVE PagesInv'
  OBVIOUS
<1>1. /\ stage = "count" /\ stage' = "list" /\ total' = registered /\ spilled' = FALSE
      /\ UNCHANGED <<registered, asked, typed, page, pages, list, buttons, walk, start,
                     seen>>
      /\ PagesTypeOK /\ CountOK /\ ButtonOK /\ WalkOK
  BY DEF CountUsers, PagesInv
<1>2. PagesTypeOK'
  BY <1>1 DEF PagesTypeOK
<1>3. CountOK' /\ ButtonOK'
  BY <1>1 DEF PagesTypeOK, CountOK, ButtonOK, Exists
<1>4. WalkOK'
  BY <1>1 DEF WalkOK, SeenUpTo
<1>5. ButtonsLead' /\ WalkSeesAll'
  BY <1>1 DEF ButtonsLead, WalkSeesAll
<1> QED BY <1>2, <1>3, <1>4, <1>5 DEF PagesInv

LEMMA SendPageStep == PagesInv /\ SendPage => PagesInv'
<1> SUFFICES ASSUME PagesInv, SendPage PROVE PagesInv'
  OBVIOUS
<1>1. /\ stage = "list" /\ stage' = "idle"
      /\ list' = Slice(asked) /\ pages' = Pages(total) /\ page' = Smaller(asked, pages')
      /\ buttons' = buttons \cup {p \in {page' - 1, page' + 1} : p \in 1 .. pages'}
      /\ seen' = seen \cup list'
      /\ UNCHANGED <<registered, asked, typed, total, walk, start, spilled>>
      /\ PagesTypeOK /\ CountOK /\ ButtonOK /\ WalkOK
  BY DEF SendPage, PagesInv
<1> DEFINE a == asked * UsersPerPage
           b == (asked - 1) * UsersPerPage
<1>2. /\ registered \in Nat /\ total \in Nat /\ total <= registered
      /\ asked \in Nat /\ asked >= 1 /\ start \in Nat /\ start <= registered
      /\ total = registered \/ spilled
  BY <1>1 DEF PagesTypeOK, CountOK, WalkOK
<1>3. /\ pages' \in Nat /\ pages' >= 1 /\ total <= pages' * UsersPerPage
      /\ \A p \in Nat : Exists(p, total) <=> p >= 1 /\ p <= pages'
  BY <1>1, <1>2, PagesOf
<1>4. page' \in Nat /\ page' >= 1 /\ (asked <= pages' => page' = asked)
  BY <1>1, <1>2, <1>3 DEF Smaller
<1>5. a \in Int /\ b \in Int /\ b = a - UsersPerPage /\ UsersPerPage \in Nat \ {0}
      /\ b >= 0
  <2>1. 0 * UsersPerPage = 0 /\ 0 <= asked - 1 /\ asked - 1 \in Int
    BY <1>2, PagesAssumption
  <2> QED BY <1>2, <2>1, Products, PagesAssumption
<1>6. list' = Larger(registered - a + 1, 1) .. registered - b
  BY <1>1 DEF Slice
<1>7. PagesTypeOK'
  <2>1. {p \in {page' - 1, page' + 1} : p \in 1 .. pages'} \subseteq Nat
    <3>1. 1 .. pages' \subseteq Nat
      BY <1>3
    <3> QED BY <3>1
  <2>2. buttons' \in SUBSET Nat
    BY <1>1, <2>1 DEF PagesTypeOK
  <2> QED BY <1>1, <1>3, <1>4, <2>2 DEF PagesTypeOK
<1>8. CountOK'
  BY <1>1 DEF CountOK
<1>9. ButtonOK'
  <2>1. \A p \in buttons' : Exists(p, registered)
    <3> TAKE p \in buttons'
    <3>1. CASE p \in buttons
      BY <1>1, <3>1 DEF ButtonOK
    <3>2. CASE p \in 1 .. pages'
      <4>1. p \in Nat /\ Exists(p, total)
        BY <1>3, <3>2
      <4> QED BY <1>2, <4>1, MoreUsers
    <3> QED BY <1>1, <3>1, <3>2
  <2> QED BY <1>1, <2>1 DEF ButtonOK, Exists
<1> HIDE DEF a, b
(* Who is further back than the page before and not further than this one  *)
(* is on this one.                                                         *)
<1>10. \A u \in 1 .. start : u > registered - a => u \in seen' \/ u > registered - b
  <2> SUFFICES ASSUME NEW u \in 1 .. start, u > registered - a, ~(u > registered - b)
               PROVE  u \in list'
    BY <1>1
  <2>1. u \in Int /\ u >= 1
    BY <1>2
  <2>2. Larger(registered - a + 1, 1) <= u /\ u <= registered - b
        /\ Larger(registered - a + 1, 1) \in Int
    BY <1>2, <1>5, <2>1 DEF Larger
  <2> QED BY <1>2, <1>5, <1>6, <2>1, <2>2
<1>11. ASSUME walk
       PROVE  /\ page' = asked
              /\ \A u \in 1 .. start : u > registered - a => u \in seen'
  <2>1. Exists(asked, total)
    <3>1. CASE typed
      BY <1>1, <1>2, <1>11, <3>1 DEF WalkOK, Exists
    <3>2. CASE ~typed
      BY <1>1, <3>2 DEF ButtonOK
    <3> QED BY <3>1, <3>2
  <2>2. SeenUpTo(asked - 1)
    BY <1>1, <1>11 DEF WalkOK
  <2>3. \A u \in 1 .. start : u > registered - b => u \in seen'
    BY <1>1, <2>2 DEF SeenUpTo, b
  <2> QED BY <1>2, <1>3, <1>4, <1>10, <2>1, <2>3
<1>12. WalkOK'
  <2>1. ASSUME walk' PROVE page' = asked' /\ SeenUpTo(page)'
    BY <1>1, <1>11, <2>1 DEF SeenUpTo, a
  <2> QED BY <1>1, <1>2, <2>1 DEF WalkOK
<1>13. WalkSeesAll'
  <2> SUFFICES ASSUME walk, page' = pages', ~spilled, NEW u \in 1 .. start
               PROVE  u \in seen'
    BY <1>1 DEF WalkSeesAll
  <2>1. pages' = asked /\ total = registered
    BY <1>2, <1>11
  <2>2. registered <= a
    BY <1>3, <2>1 DEF a
  <2>3. u > registered - a
    BY <1>2, <1>5, <2>2
  <2> QED BY <1>11, <2>3
<1>14. ButtonsLead'
  <2>1. list' = {} <=> registered <= b
    <3>1. Larger(registered - a + 1, 1) \in Int
          /\ (Larger(registered - a + 1, 1) <= registered - b <=> b < registered)
      BY <1>2, <1>5 DEF Larger
    <3>2. \A m, n \in Int : m .. n = {} <=> ~(m <= n)
      OBVIOUS
    <3> QED BY <1>2, <1>5, <1>6, <3>1, <3>2
  <2>2. ASSUME list' = {} PROVE total = 0 \/ (typed /\ asked > pages')
    <3>1. registered <= b /\ total <= b
      BY <1>2, <1>5, <2>1, <2>2
    <3>2. asked > 1 => ~Exists(asked, total)
      BY <1>2, <1>5, <3>1 DEF Exists, b
    <3>3. asked = 1 => b = 0
      BY PagesAssumption DEF b
    <3>4. total = 0 \/ ~Exists(asked, total)
      BY <1>2, <3>1, <3>2, <3>3
    <3>5. ~Exists(asked, total) => asked > pages'
      BY <1>2, <1>3
    <3>6. ~Exists(asked, total) => typed
      BY <1>1 DEF ButtonOK, PagesTypeOK
    <3> QED BY <3>4, <3>5, <3>6
  <2>3. ASSUME list' # {} PROVE page' = asked \/ spilled
    <3>1. CASE total = registered
      <4>1. Exists(asked, total)
        BY <1>2, <1>5, <2>1, <2>3, <3>1 DEF Exists, b
      <4> QED BY <1>2, <1>3, <1>4, <4>1
    <3> QED BY <1>2, <3>1
  <2> QED BY <1>1, <2>2, <2>3 DEF ButtonsLead
<1> QED BY <1>7, <1>8, <1>9, <1>12, <1>13, <1>14 DEF PagesInv

LEMMA PagesStepInv == PagesInv /\ [PagesNext]_pageVars => PagesInv'
<1>1. CASE UNCHANGED pageVars
  BY <1>1 DEF pageVars, PagesInv, PagesTypeOK, CountOK, ButtonOK, WalkOK, SeenUpTo,
              Exists, ButtonsLead, WalkSeesAll
<1> QED BY <1>1, SignUpStep, AskPageStep, PressStep, CountUsersStep, SendPageStep
        DEF PagesNext

THEOREM PagesInvariance == PagesSpec => []PagesInv
BY PagesInitInv, PagesStepInv, PTL DEF PagesSpec

(* A button leads to a page that lists users under its own number, for any *)
(* page size and however many users have signed up since it was drawn.     *)
THEOREM NoDeadButton == PagesSpec => []ButtonsLead
<1>1. PagesInv => ButtonsLead
  BY DEF PagesInv
<1> QED BY <1>1, PagesInvariance, PTL

(* A walk by Next to the last page shows all who were there when it began. *)
THEOREM NobodySkipped == PagesSpec => []WalkSeesAll
<1>1. PagesInv => WalkSeesAll
  BY DEF PagesInv
<1> QED BY <1>1, PagesInvariance, PTL

-----------------------------------------------------------------------------
(* The composition.                                                        *)

LEMMA ReadStarts == ReadInit => CalendarInit /\ ReportInit /\ PagesInit
BY DEF ReadInit

LEMMA ReadStep ==
  [ReadNext]_readVars =>
    /\ [CalendarNext]_calendarVars
    /\ [ReportNext]_reportVars
    /\ [PagesNext]_pageVars
BY Zenon DEF ReadNext, readVars

(* Every behaviour of the composition is one of each of its parts.         *)
THEOREM ReadImplementsParts ==
  ReadSpec => CalendarSpec /\ ReportSpec /\ PagesSpec
<1>1. QED
  BY ReadStarts, ReadStep, PTL DEF ReadSpec, CalendarSpec, ReportSpec, PagesSpec

(* So whatever users read is right: the windows of their schedules leave   *)
(* out no more than they must, their reports add up but for the stretches  *)
(* by which they are late or early, and so do the buttons and the walk of  *)
(* the list lead where they should.                                        *)
THEOREM WhatUsersReadIsRight ==
  ReadSpec =>
    [](GapOnce /\ GapOfLateness /\ ReportsAddUp /\ ButtonsLead /\ WalkSeesAll)
BY ReadImplementsParts, GapsOnceOnly, GapsAsLate, NothingLostInReports,
   NoDeadButton, NobodySkipped, PTL

=============================================================================
