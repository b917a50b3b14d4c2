-------------------------------- MODULE Sums --------------------------------
(***************************************************************************)
(* What the sums of the models obey, for every finite set: induction over  *)
(* the natural numbers and over finite sets, in a form with a set where    *)
(* the library has a predicate, and from it the recursion SumFunctionOnSet *)
(* stands for, the sum with one more element, and the sum of a disjoint    *)
(* union.                                                                  *)
(***************************************************************************)
EXTENDS Integers, FiniteSets, Functions, FiniteSetTheorems,
        WellFoundedInduction, TLAPS

\* The order < of the naturals, as the set of pairs well-founded induction
\* speaks of.
LEMMA LessIsARelation == OpToRel(<, Nat) = {ss \in Nat \X Nat : ss[1] < ss[2]}
BY DEF OpToRel

\* Every non-empty set of naturals has a least member.
LEMMA LeastOf ==
  ASSUME NEW S, S \subseteq Nat, S # {}
  PROVE  \E n \in S : \A m \in S : n <= m
<1>1. PICK n \in S : \A m \in S : ~ (<<m, n>> \in OpToRel(<, Nat))
  BY NatLessThanWellFounded, WFMin, Zenon
<1>2. \A m \in S : ~ (m < n)
  BY <1>1, LessIsARelation
<1>3. QED
  BY <1>2

(* Induction: a set that holds 0 and, with n, n + 1, holds every number.   *)
LEMMA NatSetInduction ==
  ASSUME NEW S, 0 \in S, \A n \in Nat : n \in S => n + 1 \in S
  PROVE  Nat \subseteq S
<1>1. SUFFICES ASSUME Nat \ S # {} PROVE FALSE
  BY Zenon
<1>2. PICK n \in Nat \ S : \A m \in Nat \ S : n <= m
  BY <1>1, LeastOf, Nat \ S \subseteq Nat, Zenon
<1>3. n # 0 /\ n - 1 \in Nat
  BY <1>2
<1>4. n - 1 \in S
  BY <1>2, <1>3
<1>5. QED
  BY <1>2, <1>3, <1>4

(* Induction over the subsets of a finite set, one element at a time.      *)
LEMMA SubsetInduction ==
  ASSUME NEW S, IsFiniteSet(S), NEW W, {} \in W,
         \A T \in SUBSET S : \A x \in S \ T : T \in W => T \cup {x} \in W
  PROVE  S \in W
<1> DEFINE N == {n \in Nat : \A T \in SUBSET S : Cardinality(T) = n => T \in W}
<1>1. \A T \in SUBSET S : IsFiniteSet(T) /\ Cardinality(T) \in Nat
  BY FS_Subset, FS_CardinalityType
<1>2. 0 \in N
  BY <1>1, FS_EmptySet
<1>3. ASSUME NEW n \in Nat, n \in N PROVE n + 1 \in N
  <2>1. SUFFICES ASSUME NEW T \in SUBSET S, Cardinality(T) = n + 1 PROVE T \in W
    OBVIOUS
  <2>2. T # {}
    <3>1. Cardinality({}) = 0
      BY FS_EmptySet
    <3>2. QED
      BY <2>1, <3>1
  <2>3. PICK x \in T : TRUE
    BY <2>2
  <2>4. T \ {x} \in SUBSET S /\ Cardinality(T \ {x}) = n
    <3>1. Cardinality(T \ {x}) = Cardinality(T) - 1
      BY <1>1, <2>1, <2>3, FS_RemoveElement, Zenon
    <3>2. QED
      BY <2>1, <3>1
  <2>5. T \ {x} \in W
    BY <1>3, <2>4
  <2>6. (T \ {x}) \cup {x} = T /\ x \in S \ (T \ {x})
    BY <2>3
  <2>7. QED
    BY <2>4, <2>5, <2>6
<1>4. Nat \subseteq N
  <2> HIDE DEF N
  <2> QED BY <1>2, <1>3, NatSetInduction
<1>5. QED
  BY <1>1, <1>4

-----------------------------------------------------------------------------
Pick(S) == CHOOSE x \in S : TRUE

(* g adds the values of f up over the subsets of S.                        *)
Adds(g, f, S) ==
  g = [T \in SUBSET S |->
         IF T = {} THEN 0 ELSE f[Pick(T)] + g[T \ {Pick(T)}]]

\* A sum is what the function that Adds describes gives for the whole set.
LEMMA SumIsChosen ==
  ASSUME NEW f, NEW S
  PROVE  SumFunctionOnSet(f, S) = (CHOOSE g : Adds(g, f, S))[S]
BY Zenon DEF SumFunctionOnSet, FoldFunctionOnSet, MapThenFoldSet, Adds, Pick

\* The member picked from a set that has one is in it.
LEMMA PickIn == ASSUME NEW S, S # {} PROVE Pick(S) \in S
BY Zenon DEF Pick

\* A part of a finite set is finite, and one member less is one less to count.
LEMMA OneLess ==
  ASSUME NEW S, IsFiniteSet(S), NEW T \in SUBSET S
  PROVE  /\ IsFiniteSet(T) /\ Cardinality(T) \in Nat
         /\ \A x \in T : /\ T \ {x} \in SUBSET S
                        /\ Cardinality(T \ {x}) = Cardinality(T) - 1
<1>1. IsFiniteSet(T) /\ Cardinality(T) \in Nat
  BY FS_Subset, FS_CardinalityType, Zenon
<1>2. ASSUME NEW x \in T PROVE Cardinality(T \ {x}) = Cardinality(T) - 1
  BY <1>1, FS_RemoveElement, Zenon
<1>3. QED
  BY <1>1, <1>2

(* Subsets are added up in the order of their size.                        *)
LEMMA SumExists ==
  ASSUME NEW f, NEW S, IsFiniteSet(S)
  PROVE  \E g : Adds(g, f, S)
<1> DEFINE UpTo(n) == {T \in SUBSET S : Cardinality(T) <= n}
           Sum(g, T) == IF T = {} THEN 0 ELSE f[Pick(T)] + g[T \ {Pick(T)}]
           N == {n \in Nat : \E g : \A T \in UpTo(n) : g[T] = Sum(g, T)}
<1>1. 0 \in N
  <2>1. \A T \in UpTo(0) : T = {}
    BY OneLess, FS_EmptySet
  <2> DEFINE g == [T \in SUBSET S |-> 0]
  <2>2. \A T \in UpTo(0) : g[T] = Sum(g, T)
    BY <2>1
  <2>3. QED
    BY <2>2
<1>2. ASSUME NEW n \in Nat, n \in N PROVE n + 1 \in N
  <2>1. PICK g : \A T \in UpTo(n) : g[T] = Sum(g, T)
    BY <1>2
  <2> DEFINE h == [T \in SUBSET S |-> IF T \in UpTo(n) THEN g[T] ELSE Sum(g, T)]
  <2>2. ASSUME NEW T \in UpTo(n + 1) PROVE h[T] = Sum(h, T)
    <3>1. CASE T = {}
      <4>1. T \in UpTo(n) /\ h[T] = g[T]
        BY <3>1, FS_EmptySet
      <4>2. QED
        BY <2>1, <3>1, <4>1
    <3>2. CASE T # {}
      <4>1. Pick(T) \in T
        BY <3>2, PickIn
      <4>2. T \ {Pick(T)} \in UpTo(n)
        BY <4>1, OneLess
      <4>3. h[T \ {Pick(T)}] = g[T \ {Pick(T)}]
        BY <4>2
      <4>4. h[T] = Sum(g, T)
        BY <2>1
      <4>5. QED
        BY <3>2, <4>3, <4>4
    <3>3. QED
      BY <3>1, <3>2
  <2>3. \E k : \A T \in UpTo(n + 1) : k[T] = Sum(k, T)
    <3> HIDE DEF h, UpTo
    <3> QED BY <2>2
  <2>4. QED
    <3> HIDE DEF UpTo, Sum
    <3> QED BY <2>3
<1>3. Cardinality(S) \in N
  <2>1. Nat \subseteq N
    <3> HIDE DEF N
    <3> QED BY <1>1, <1>2, NatSetInduction
  <2>2. QED
    BY <2>1, OneLess
<1>4. PICK g : \A T \in UpTo(Cardinality(S)) : g[T] = Sum(g, T)
  BY <1>3
<1>5. \A T \in SUBSET S : T \in UpTo(Cardinality(S))
  BY FS_Subset
<1> DEFINE h == [T \in SUBSET S |-> g[T]]
<1>6. h = [T \in SUBSET S |-> Sum(h, T)]
  <2>1. ASSUME NEW T \in SUBSET S PROVE h[T] = Sum(h, T)
    BY <1>4, <1>5, PickIn
  <2>2. QED
    BY <2>1
<1>7. QED
  BY <1>6 DEF Adds

(* What Adds says of each subset.                                          *)
LEMMA AddsAt ==
  ASSUME NEW f, NEW S, NEW g, Adds(g, f, S)
  PROVE  \A T \in SUBSET S :
           g[T] = IF T = {} THEN 0 ELSE f[Pick(T)] + g[T \ {Pick(T)}]
BY Zenon DEF Adds

(* It has one solution only, whichever set the subsets are taken of.       *)
LEMMA SumUnique ==
  ASSUME NEW e, NEW f, NEW R, NEW S, IsFiniteSet(S), S \subseteq R,
         \A x \in S : e[x] = f[x],
         NEW g, Adds(g, e, R), NEW h, Adds(h, f, S)
  PROVE  g[S] = h[S]
<1> DEFINE N == {n \in Nat : \A T \in SUBSET S : Cardinality(T) = n => g[T] = h[T]}
<1>1. \A T \in SUBSET S :
        /\ g[T] = IF T = {} THEN 0 ELSE e[Pick(T)] + g[T \ {Pick(T)}]
        /\ h[T] = IF T = {} THEN 0 ELSE f[Pick(T)] + h[T \ {Pick(T)}]
  <2>1. \A T \in SUBSET R :
          g[T] = IF T = {} THEN 0 ELSE e[Pick(T)] + g[T \ {Pick(T)}]
    BY Zenon DEF Adds
  <2>2. \A T \in SUBSET S :
          h[T] = IF T = {} THEN 0 ELSE f[Pick(T)] + h[T \ {Pick(T)}]
    BY Zenon DEF Adds
  <2>3. QED
    BY <2>1, <2>2
<1>2. 0 \in N
  <2>1. \A T \in SUBSET S : Cardinality(T) = 0 => T = {}
    BY OneLess, FS_EmptySet
  <2>2. QED
    BY <1>1, <2>1
<1>3. ASSUME NEW n \in Nat, n \in N PROVE n + 1 \in N
  <2>1. SUFFICES ASSUME NEW T \in SUBSET S, Cardinality(T) = n + 1 PROVE g[T] = h[T]
    OBVIOUS
  <2>2. T # {}
    <3>1. Cardinality({}) = 0
      BY FS_EmptySet
    <3>2. QED
      BY <2>1, <3>1
  <2>3. Pick(T) \in T
    BY <2>2, PickIn
  <2>4. T \ {Pick(T)} \in SUBSET S /\ Cardinality(T \ {Pick(T)}) = n
    BY <2>1, <2>3, OneLess
  <2>5. g[T \ {Pick(T)}] = h[T \ {Pick(T)}]
    BY <1>3, <2>4
  <2>6. e[Pick(T)] = f[Pick(T)]
    BY <2>3
  <2>7. QED
    BY <1>1, <2>2, <2>5, <2>6
<1>4. Nat \subseteq N
  <2> HIDE DEF N
  <2> QED BY <1>2, <1>3, NatSetInduction
<1>5. QED
  BY <1>4, OneLess

-----------------------------------------------------------------------------
(* The sum of nothing, and of what two functions agree on.                 *)
LEMMA SumEmpty == ASSUME NEW f PROVE SumFunctionOnSet(f, {}) = 0
<1>1. Adds(CHOOSE g : Adds(g, f, {}), f, {})
  BY SumExists, FS_EmptySet, Zenon
<1>2. QED
  BY <1>1, AddsAt, SumIsChosen

\* Functions that agree on a set have the same sum over it.
LEMMA SumAgree ==
  ASSUME NEW e, NEW f, NEW S, IsFiniteSet(S), \A x \in S : e[x] = f[x]
  PROVE  SumFunctionOnSet(e, S) = SumFunctionOnSet(f, S)
<1> DEFINE g == CHOOSE g : Adds(g, e, S)
           h == CHOOSE h : Adds(h, f, S)
<1>1. Adds(g, e, S) /\ Adds(h, f, S)
  BY SumExists, Zenon
<1>2. g[S] = h[S]
  <2> HIDE DEF g, h
  <2> QED BY <1>1, SumUnique
<1>3. QED
  BY <1>2, SumIsChosen, Zenon

\* A sum is the picked member's value and the sum of the rest.
LEMMA SumPick ==
  ASSUME NEW f, NEW S, IsFiniteSet(S), S # {}
  PROVE  SumFunctionOnSet(f, S) = f[Pick(S)] + SumFunctionOnSet(f, S \ {Pick(S)})
<1> DEFINE P == S \ {Pick(S)}
           g == CHOOSE g : Adds(g, f, S)
           h == CHOOSE h : Adds(h, f, P)
<1>1. IsFiniteSet(P) /\ P \subseteq S
  BY FS_Subset
<1>2. Adds(g, f, S)
  BY SumExists, Zenon
<1>3. Adds(h, f, P)
  BY <1>1, SumExists, Zenon
<1>4. g[P] = h[P]
  <2> HIDE DEF g, h, P
  <2>1. \A x \in P : f[x] = f[x]
    OBVIOUS
  <2> QED BY <1>1, <1>2, <1>3, <2>1, SumUnique
<1>5. g[S] = f[Pick(S)] + g[P]
  BY <1>2, AddsAt, S # {}
<1>6. QED
  BY <1>4, <1>5, SumIsChosen, Zenon

(* One element more, whichever order the sum picks its elements in.        *)
LEMMA SumAddAnyOrder ==
  ASSUME NEW f, NEW S, IsFiniteSet(S), \A x \in S : f[x] \in Int
  PROVE  \A T \in SUBSET S : /\ SumFunctionOnSet(f, T) \in Int
                            /\ \A x \in T : SumFunctionOnSet(f, T) =
                                 f[x] + SumFunctionOnSet(f, T \ {x})
<1> DEFINE Sum(T) == SumFunctionOnSet(f, T)
           Fine(T) == Sum(T) \in Int /\ \A x \in T : Sum(T) = f[x] + Sum(T \ {x})
           N == {n \in Nat : \A T \in SUBSET S : Cardinality(T) <= n => Fine(T)}
<1>0. \A T \in SUBSET S : T # {} => /\ Pick(T) \in T
                                   /\ Sum(T) = f[Pick(T)] + Sum(T \ {Pick(T)})
  <2>1. ASSUME NEW T \in SUBSET S, T # {}
        PROVE  Pick(T) \in T /\ Sum(T) = f[Pick(T)] + Sum(T \ {Pick(T)})
    BY <2>1, PickIn, SumPick, OneLess
  <2>2. QED
    BY <2>1
<1>1. 0 \in N
  <2>1. \A T \in SUBSET S : Cardinality(T) <= 0 => T = {}
    BY OneLess, FS_EmptySet
  <2>2. Fine({})
    BY SumEmpty
  <2>3. QED
    BY <2>1, <2>2
<1>2. ASSUME NEW n \in Nat, n \in N PROVE n + 1 \in N
  <2>1. SUFFICES ASSUME NEW T \in SUBSET S, Cardinality(T) <= n + 1, T # {} PROVE Fine(T)
    BY SumEmpty
  <2> DEFINE p == Pick(T)
  <2>2. p \in T /\ Sum(T) = f[p] + Sum(T \ {p}) /\ f[p] \in Int
    BY <1>0, <2>1
  <2>3. \A U \in SUBSET S : Cardinality(U) <= n => Fine(U)
    BY <1>2
  <2>4. \A x \in T : Cardinality(T \ {x}) <= n /\ T \ {x} \in SUBSET S
    BY <2>1, OneLess
  <2> HIDE DEF Fine, p
  <2>5. \A x \in T : Fine(T \ {x})
    BY <2>3, <2>4
  <2>6. ASSUME NEW x \in T PROVE Sum(T) = f[x] + Sum(T \ {x})
    <3>1. CASE x = p
      BY <2>2, <3>1
    <3>2. CASE x # p
      <4>1. x \in T \ {p} /\ p \in T \ {x} /\ f[x] \in Int
        BY <2>2, <3>2
      <4>2. Sum(T \ {p}) = f[x] + Sum((T \ {p}) \ {x})
        BY <2>2, <2>5, <4>1 DEF Fine
      <4>3. Sum(T \ {x}) = f[p] + Sum((T \ {x}) \ {p})
        BY <2>5, <4>1 DEF Fine
      <4>4. (T \ {x}) \ {p} = (T \ {p}) \ {x}
        OBVIOUS
      <4>5. Sum((T \ {p}) \ {x}) \in Int
        <5> DEFINE U == (T \ {p}) \ {x}
        <5>1. T \ {p} \in SUBSET S /\ Cardinality(T \ {p}) <= n
          BY <2>2, <2>4
        <5>2. U \in SUBSET S /\ Cardinality(U) <= n
          BY <4>1, <5>1, OneLess
        <5>3. QED
          BY <2>3, <5>2 DEF Fine
      <4>6. Sum(T \ {x}) = f[p] + Sum((T \ {p}) \ {x})
        BY <4>3, <4>4
      <4> HIDE DEF Sum
      <4>7. QED
        BY <2>2, <4>1, <4>2, <4>5, <4>6
    <3>3. QED
      BY <3>1, <3>2
  <2>7. Sum(T \ {p}) \in Int
    BY <2>2, <2>5 DEF Fine
  <2>8. QED
    BY <2>2, <2>6, <2>7 DEF Fine
<1>3. Nat \subseteq N
  <2> HIDE DEF N
  <2> QED BY <1>1, <1>2, NatSetInduction
<1>4. QED
  BY <1>3, OneLess

-----------------------------------------------------------------------------
(* What the models' proofs cite: a sum is a number, it takes one element   *)
(* more in any order, and two sets that share nothing add up.              *)
LEMMA SumInt ==
  ASSUME NEW f, NEW S, IsFiniteSet(S), \A x \in S : f[x] \in Int
  PROVE  SumFunctionOnSet(f, S) \in Int
BY SumAddAnyOrder

\* A new member adds its value to the sum.
LEMMA SumAdd ==
  ASSUME NEW f, NEW S, IsFiniteSet(S), NEW y, y \notin S,
         \A x \in S \cup {y} : f[x] \in Int
  PROVE  SumFunctionOnSet(f, S \cup {y}) = f[y] + SumFunctionOnSet(f, S)
<1>1. IsFiniteSet(S \cup {y})
  BY FS_AddElement, Zenon
<1>2. (S \cup {y}) \ {y} = S
  OBVIOUS
<1>3. QED
  BY <1>1, <1>2, SumAddAnyOrder

\* The sum over two sets with nothing in common is the sum of their sums.
LEMMA SumUnion ==
  ASSUME NEW f, NEW R, NEW S, IsFiniteSet(R), IsFiniteSet(S), R \cap S = {},
         \A x \in R \cup S : f[x] \in Int
  PROVE  SumFunctionOnSet(f, R \cup S)
           = SumFunctionOnSet(f, R) + SumFunctionOnSet(f, S)
<1> DEFINE Sum(T) == SumFunctionOnSet(f, T)
           W == {T \in SUBSET S : Sum(R \cup T) = Sum(R) + Sum(T)}
<1>1. {} \in W
  <2>1. R \cup {} = R /\ Sum({}) = 0 /\ Sum(R) \in Int
    BY SumEmpty, SumInt
  <2>2. QED
    BY <2>1
<1>2. ASSUME NEW T \in SUBSET S, NEW y \in S \ T, T \in W PROVE T \cup {y} \in W
  <2>1. IsFiniteSet(T) /\ IsFiniteSet(R \cup T)
    BY FS_Subset, FS_Union, Zenon
  <2>2. Sum(T \cup {y}) = f[y] + Sum(T)
    BY <2>1, SumAdd
  <2>3. Sum((R \cup T) \cup {y}) = f[y] + Sum(R \cup T)
    BY <2>1, SumAdd
  <2>4. R \cup (T \cup {y}) = (R \cup T) \cup {y}
    OBVIOUS
  <2>5. Sum(R) \in Int /\ Sum(T) \in Int /\ f[y] \in Int
    BY <2>1, SumInt
  <2>6. Sum(R \cup (T \cup {y})) = f[y] + Sum(R \cup T)
    BY <2>3, <2>4
  <2>7. Sum(R \cup T) = Sum(R) + Sum(T)
    BY <1>2
  <2>8. T \cup {y} \in SUBSET S
    BY <1>2
  <2>9. Sum(R \cup (T \cup {y})) = Sum(R) + Sum(T \cup {y})
    <3> HIDE DEF Sum
    <3> QED BY <2>2, <2>5, <2>6, <2>7
  <2>10. QED
    BY <2>8, <2>9
<1>3. S \in W
  <2> HIDE DEF W
  <2> QED BY <1>1, <1>2, SubsetInduction
<1>4. QED
  BY <1>3
=============================================================================
