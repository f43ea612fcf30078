----------------------------- MODULE DataInduction -----------------------------
(* Induction over data, stated for sets: for a set of natural numbers that is *)
(* given by a predicate, which is what a proof by induction instantiates it   *)
(* with, no operator has to be.                                               *)
EXTENDS Integers, FiniteSetTheorems, WellFoundedInduction, TLAPS, Functions

LEMMA LeastNumber ==
  ASSUME NEW T \in SUBSET Nat, T # {}
  PROVE  \E n \in T : \A m \in T : n <= m
  <1> DEFINE R == OpToRel(<, Nat)
  <1>1. IsWellFoundedOn(R, Nat)
    BY NatLessThanWellFounded
  <1>2. \E x \in T : \A y \in T : ~(<<y, x>> \in R)
    <2> HIDE DEF R
    <2> QED BY <1>1, WFMin
  <1>3. \A x, y \in T : <<y, x>> \in R <=> y < x
    BY DEF OpToRel
  <1>4. \E x \in T : \A y \in T : ~(y < x)
    <2> HIDE DEF R
    <2> QED BY <1>2, <1>3, Zenon
  <1> QED BY <1>4

LEMMA SetInduction ==
  ASSUME NEW S, 0 \in S, \A n \in Nat : n \in S => n + 1 \in S
  PROVE  Nat \subseteq S
  <1> DEFINE T == Nat \ S
  <1> SUFFICES ASSUME T # {} PROVE FALSE
    OBVIOUS
  <1>1. PICK n \in T : \A m \in T : n <= m
    BY LeastNumber, T \in SUBSET Nat
  <1>2. n - 1 \in Nat /\ n - 1 \notin T
    BY <1>1
  <1> QED BY <1>1, <1>2

(* ... up to a number, for what is known of prefixes.                         *)
LEMMA PrefixInduction ==
  ASSUME NEW N \in Nat, NEW S, 0 \in S, \A n \in 0..(N - 1) : n \in S => n + 1 \in S
  PROVE  0..N \subseteq S
  <1> DEFINE U == {n \in Nat : n <= N => n \in S}
  <1>1. 0 \in U
    OBVIOUS
  <1>2. ASSUME NEW n \in Nat, n \in U PROVE n + 1 \in U
    BY <1>2
  <1>3. Nat \subseteq U
    <2> HIDE DEF U
    <2> QED BY <1>1, <1>2, SetInduction
  <1> QED BY <1>3

(* The least and the greatest number of a set are what their names say.       *)
LEMMA GreatestNumber ==
  ASSUME NEW N \in Nat, NEW T \in SUBSET (0..N), T # {}
  PROVE  \E n \in T : \A m \in T : m <= n
  <1> DEFINE U == {N - n : n \in T}
  <1>1. U \in SUBSET Nat /\ U # {}
    <2>1. PICK t : t \in T
      OBVIOUS
    <2>2. N - t \in U
      BY <2>1
    <2>3. \A n \in T : N - n \in Nat
      OBVIOUS
    <2> QED BY <2>2, <2>3
  <1>2. PICK u \in U : \A v \in U : u <= v
    <2> HIDE DEF U
    <2> QED BY <1>1, LeastNumber
  <1> QED BY <1>2
(* Of the values a function has on some numbers one is the greatest.          *)
LEMMA GreatestValue ==
  ASSUME NEW N \in Nat, NEW T \in SUBSET (1..N), NEW f \in [T -> Nat], T # {}
  PROVE  \E i \in T : \A j \in T : f[j] <= f[i]
  <1> DEFINE U == {n \in 0..N : \A S \in SUBSET T : S \subseteq 1..n /\ S # {} => \E i \in S : \A j \in S : f[j] <= f[i]}
  <1>1. 0 \in U
    <2>1. 1..0 = {} /\ 0 \in 0..N
      OBVIOUS
    <2> QED BY <2>1
  <1>2. ASSUME NEW n \in 0..(N - 1), n \in U PROVE n + 1 \in U
    <2> SUFFICES ASSUME NEW S \in SUBSET T, S \subseteq 1..(n + 1), S # {}
                 PROVE  \E i \in S : \A j \in S : f[j] <= f[i]
      OBVIOUS
    <2>1. CASE n + 1 \notin S
      <3>1. S \subseteq 1..n
        BY <2>1
      <3> QED BY <3>1, <1>2
    <2>2. CASE S = {n + 1}
      BY <2>2
    <2>3. CASE n + 1 \in S /\ S # {n + 1}
      <3>1. S \ {n + 1} \subseteq 1..n /\ S \ {n + 1} # {} /\ S \ {n + 1} \in SUBSET T
        BY <2>3
      <3>2. PICK i \in S \ {n + 1} : \A j \in S \ {n + 1} : f[j] <= f[i]
        BY <3>1, <1>2
      <3>3. CASE f[n + 1] <= f[i]
        BY <3>2, <3>3
      <3>4. CASE ~(f[n + 1] <= f[i])
        <4>1. \A j \in S : f[j] <= f[n + 1]
          BY <2>3, <3>2, <3>4
        <4> QED BY <4>1, <2>3
      <3> QED BY <3>3, <3>4
    <2> QED BY <2>1, <2>2, <2>3
  <1>3. N \in U
    <2> HIDE DEF U
    <2>1. 0..N \subseteq U
      BY <1>1, <1>2, PrefixInduction
    <2> QED BY <2>1
  <1> QED BY <1>3

-----------------------------------------------------------------------------
(* Sums over a finite set, which SumFunction takes one element at a time.     *)
Pick(T) == CHOOSE x \in T : TRUE

Summing(f, S, sum) ==
  sum = [T \in SUBSET S |-> IF T = {} THEN 0 ELSE f[Pick(T)] + sum[T \ {Pick(T)}]]

(* Induction over the subsets of a finite set, in the order of the sum.       *)
LEMMA Smaller ==
  ASSUME NEW S, IsFiniteSet(S)
  PROVE  \A T \in SUBSET S :
           /\ Cardinality(T) \in Nat /\ Cardinality(T) <= Cardinality(S)
           /\ Cardinality(T) = 0 <=> T = {}
           /\ T # {} => /\ Pick(T) \in T /\ T \ {Pick(T)} \in SUBSET S
                        /\ Cardinality(T \ {Pick(T)}) = Cardinality(T) - 1
<1> SUFFICES ASSUME NEW T \in SUBSET S
             PROVE  /\ Cardinality(T) \in Nat /\ Cardinality(T) <= Cardinality(S)
                    /\ Cardinality(T) = 0 <=> T = {}
                    /\ T # {} => /\ Pick(T) \in T /\ T \ {Pick(T)} \in SUBSET S
                                 /\ Cardinality(T \ {Pick(T)}) = Cardinality(T) - 1
  OBVIOUS
<1>1. IsFiniteSet(T) /\ Cardinality(T) <= Cardinality(S)
  BY FS_Subset
<1>2. Cardinality(T) \in Nat /\ (Cardinality(T) = 0 <=> T = {})
  BY <1>1, FS_CardinalityType, FS_EmptySet
<1>3. T # {} => Pick(T) \in T
  BY DEF Pick
<1>4. T # {} => Cardinality(T \ {Pick(T)}) = Cardinality(T) - 1
  BY <1>1, <1>3, FS_RemoveElement
<1> QED BY <1>1, <1>2, <1>3, <1>4

LEMMA SubsetInduction ==
  ASSUME NEW S, IsFiniteSet(S), NEW P, {} \in P,
         \A T \in SUBSET S : T # {} /\ T \ {Pick(T)} \in P => T \in P
  PROVE  SUBSET S \subseteq P
<1> DEFINE Known == {n \in Nat : \A T \in SUBSET S : Cardinality(T) <= n => T \in P}
<1>1. 0 \in Known
  <2> SUFFICES ASSUME NEW T \in SUBSET S, Cardinality(T) <= 0 PROVE T \in P
    OBVIOUS
  <2>1. T = {}
    <3>1. Cardinality(T) \in Nat /\ (Cardinality(T) = 0 <=> T = {})
      BY Smaller
    <3> QED BY <3>1
  <2> QED BY <2>1
<1>2. ASSUME NEW n \in Nat, n \in Known PROVE n + 1 \in Known
  <2> SUFFICES ASSUME NEW T \in SUBSET S, Cardinality(T) <= n + 1 PROVE T \in P
    OBVIOUS
  <2>1. CASE T = {}
    BY <2>1
  <2>2. CASE T # {}
    <3>1. T \ {Pick(T)} \in SUBSET S /\ Cardinality(T \ {Pick(T)}) <= n
      BY <2>2, Smaller
    <3> QED BY <1>2, <2>2, <3>1
  <2> QED BY <2>1, <2>2
<1>3. Nat \subseteq Known
  <2> HIDE DEF Known
  <2> QED BY <1>1, <1>2, SetInduction
<1>4. Cardinality(S) \in Known
  BY <1>3, Smaller
<1> QED BY <1>4, Smaller

Sums(f, S, sum) ==
  /\ sum \in [SUBSET S -> Int] /\ sum[{}] = 0
  /\ \A T \in SUBSET S : T # {} => sum[T] = f[Pick(T)] + sum[T \ {Pick(T)}]

(* What FoldSet, FoldFunction and FoldLeft define by recursion over subsets.  *)
Chooses(pick, S) ==
  pick \in [SUBSET S -> S \cup {S}] /\ \A T \in SUBSET S : T # {} => pick[T] \in T

Folding(base, next, pick, S, fold) ==
  fold = [T \in SUBSET S |-> IF T = {} THEN base ELSE next[pick[T]][fold[T \ {pick[T]}]]]

LEMMA FoldExists ==
  ASSUME NEW S, IsFiniteSet(S), NEW X, NEW base \in X, NEW next \in [S -> [X -> X]],
         NEW pick, Chooses(pick, S)
  PROVE  \E fold \in [SUBSET S -> X] : Folding(base, next, pick, S, fold)
<1> DEFINE Step(fold, T) == IF T = {} THEN base ELSE next[pick[T]][fold[T \ {pick[T]}]]
           Upto(n, fold) == \A T \in SUBSET S : Cardinality(T) <= n => fold[T] = Step(fold, T)
           Known == {n \in Nat : \E fold \in [SUBSET S -> X] : Upto(n, fold)}
<1>1. \A T \in SUBSET S : /\ Cardinality(T) \in Nat /\ Cardinality(T) <= Cardinality(S)
                          /\ Cardinality(T) = 0 <=> T = {}
  BY Smaller
<1>2. ASSUME NEW T \in SUBSET S, T # {}
      PROVE  /\ pick[T] \in S /\ T \ {pick[T]} \in SUBSET S
             /\ Cardinality(T \ {pick[T]}) = Cardinality(T) - 1
  <2>1. pick[T] \in T /\ IsFiniteSet(T)
    BY <1>2, FS_Subset DEF Chooses
  <2> QED BY <2>1, FS_RemoveElement
<1>3. 0 \in Known
  <2>1. [T \in SUBSET S |-> base] \in [SUBSET S -> X]
    OBVIOUS
  <2>2. Upto(0, [T \in SUBSET S |-> base])
    BY <1>1
  <2> QED BY <2>1, <2>2
<1>4. ASSUME NEW n \in Nat, n \in Known PROVE n + 1 \in Known
  <2>1. PICK fold \in [SUBSET S -> X] : Upto(n, fold)
    BY <1>4
  <2>2. ASSUME NEW T \in SUBSET S PROVE Step(fold, T) \in X
    <3>1. CASE T = {}
      BY <3>1
    <3>2. CASE T # {}
      <4>1. pick[T] \in S /\ fold[T \ {pick[T]}] \in X
        BY <1>2, <3>2
      <4>2. next[pick[T]][fold[T \ {pick[T]}]] \in X
        BY <4>1
      <4> QED BY <3>2, <4>2
    <3> QED BY <3>1, <3>2
  <2> DEFINE more == [T \in SUBSET S |-> IF Cardinality(T) <= n THEN fold[T] ELSE Step(fold, T)]
  <2>3. more \in [SUBSET S -> X]
    <3> HIDE DEF Step
    <3> QED BY <2>2
  <2>4. ASSUME NEW T \in SUBSET S, Cardinality(T) <= n + 1
        PROVE  more[T] = Step(more, T)
    <3>1. Step(more, T) = Step(fold, T)
      <4>1. CASE T = {}
        BY <4>1
      <4>2. CASE T # {}
        <5>1. /\ T \ {pick[T]} \in SUBSET S
              /\ Cardinality(T \ {pick[T]}) <= n
          BY <1>1, <1>2, <2>4, <4>2
        <5>2. more[T \ {pick[T]}] = fold[T \ {pick[T]}]
          BY <5>1
        <5> HIDE DEF more
        <5> QED BY <5>2, <4>2
      <4> QED BY <4>1, <4>2
    <3>2. Cardinality(T) <= n => fold[T] = Step(fold, T)
      BY <2>1
    <3>3. more[T] = IF Cardinality(T) <= n THEN fold[T] ELSE Step(fold, T)
      OBVIOUS
    <3> HIDE DEF more, Step
    <3> QED BY <3>1, <3>2, <3>3
  <2> HIDE DEF more
  <2>5. Upto(n + 1, more)
    BY <2>4
  <2>6. \E m \in [SUBSET S -> X] : Upto(n + 1, m)
    <3> HIDE DEF Upto
    <3> QED BY <2>3, <2>5
  <2> HIDE DEF Upto
  <2> QED BY <2>6
<1>5. Nat \subseteq Known
  <2> HIDE DEF Known
  <2> QED BY <1>3, <1>4, SetInduction
<1>6. Cardinality(S) \in Known
  BY <1>1, <1>5
<1>7. PICK fold \in [SUBSET S -> X] : Upto(Cardinality(S), fold)
  BY <1>6
<1>8. \A T \in SUBSET S : fold[T] = Step(fold, T)
  BY <1>1, <1>7
<1>9. fold = [T \in SUBSET S |-> Step(fold, T)]
  <2> HIDE DEF Step
  <2> QED BY <1>8
<1> QED BY <1>9 DEF Folding

LEMMA SumExists ==
  ASSUME NEW S, IsFiniteSet(S), NEW f \in [S -> Int]
  PROVE  \E sum \in [SUBSET S -> Int] : Summing(f, S, sum)
<1> DEFINE pick == [T \in SUBSET S |-> IF T = {} THEN S ELSE Pick(T)]
           next == [x \in S |-> [n \in Int |-> f[x] + n]]
<1>1. /\ pick \in [SUBSET S -> S \cup {S}]
      /\ \A T \in SUBSET S : T # {} => pick[T] = Pick(T) /\ pick[T] \in T
  BY DEF Pick
<1>2. next \in [S -> [Int -> Int]] /\ \A x \in S, n \in Int : next[x][n] = f[x] + n
  OBVIOUS
<1> HIDE DEF pick, next
<1>3. PICK sum \in [SUBSET S -> Int] : Folding(0, next, pick, S, sum)
  <2>1. Chooses(pick, S)
    BY <1>1 DEF Chooses
  <2> QED BY <1>2, <2>1, FoldExists, 0 \in Int, Zenon
<1>4. ASSUME NEW T \in SUBSET S
      PROVE  sum[T] = IF T = {} THEN 0 ELSE f[Pick(T)] + sum[T \ {Pick(T)}]
  <2>1. sum[T] = IF T = {} THEN 0 ELSE next[pick[T]][sum[T \ {pick[T]}]]
    BY <1>3, Zenon DEF Folding
  <2>2. T # {} => Pick(T) = pick[T] /\ Pick(T) \in S /\ sum[T \ {Pick(T)}] \in Int
    BY <1>1, <1>3
  <2> QED BY <1>2, <2>1, <2>2
<1>5. sum = [T \in SUBSET S |-> sum[T]]
  BY <1>3
<1> QED BY <1>4, <1>5, Zenon DEF Summing

LEMMA SumExpands ==
  ASSUME NEW S, NEW f
  PROVE  SumFunctionOnSet(f, S) = (CHOOSE sum : Summing(f, S, sum))[S]
BY Zenon DEF SumFunctionOnSet, FoldFunctionOnSet, FoldFunction, MapThenFoldSet, Summing, Pick

LEMMA Summed ==
  ASSUME NEW S, IsFiniteSet(S), NEW f \in [S -> Int]
  PROVE  \E sum : Sums(f, S, sum) /\ SumFunctionOnSet(f, S) = sum[S]
<1> DEFINE sum == CHOOSE sum : Summing(f, S, sum)
           P   == {T \in SUBSET S : sum[T] \in Int}
<1>1. Summing(f, S, sum)
  BY SumExists, Zenon
<1>2. SumFunctionOnSet(f, S) = sum[S]
  BY SumExpands, Zenon
<1> HIDE DEF sum
<1>3. /\ sum[{}] = 0
      /\ \A T \in SUBSET S : T # {} => sum[T] = f[Pick(T)] + sum[T \ {Pick(T)}]
  <2>1. \A T \in SUBSET S : sum[T] = IF T = {} THEN 0 ELSE f[Pick(T)] + sum[T \ {Pick(T)}]
    BY <1>1, Zenon DEF Summing
  <2>2. {} \in SUBSET S
    OBVIOUS
  <2> QED BY <2>1, <2>2, Zenon
<1>4. {} \in P
  BY <1>3
<1>5. ASSUME NEW T \in SUBSET S, T # {}, T \ {Pick(T)} \in P PROVE T \in P
  <2>1. f[Pick(T)] \in Int
    BY <1>5 DEF Pick
  <2>2. sum[T \ {Pick(T)}] \in Int
    BY <1>5
  <2>3. sum[T] = f[Pick(T)] + sum[T \ {Pick(T)}]
    BY <1>3, <1>5, Zenon
  <2> QED BY <2>1, <2>2, <2>3
<1>6. SUBSET S \subseteq P
  <2> HIDE DEF P
  <2> QED BY <1>4, <1>5, SubsetInduction
<1>7. sum = [T \in SUBSET S |-> sum[T]]
  BY <1>1, Zenon DEF Summing
<1>8. sum \in [SUBSET S -> Int]
  BY <1>6, <1>7
<1> QED BY <1>2, <1>3, <1>8 DEF Sums

(* What is asked of sums: that of zeros is zero, and one that changes in one  *)
(* place changes by as much.                                                  *)
LEMMA SumOfZeros ==
  ASSUME NEW S, IsFiniteSet(S)
  PROVE  SumFunctionOnSet([x \in S |-> 0], S) = 0
<1> DEFINE f == [x \in S |-> 0]
<1>1. PICK sum : Sums(f, S, sum) /\ SumFunctionOnSet(f, S) = sum[S]
  <2>1. f \in [S -> Int]
    OBVIOUS
  <2> HIDE DEF f
  <2> QED BY <2>1, Summed
<1> DEFINE P == {T \in SUBSET S : sum[T] = 0}
<1>2. {} \in P
  BY <1>1 DEF Sums
<1>3. ASSUME NEW T \in SUBSET S, T # {}, T \ {Pick(T)} \in P PROVE T \in P
  <2>1. f[Pick(T)] = 0
    BY <1>3 DEF Pick
  <2>2. sum[T] = f[Pick(T)] + sum[T \ {Pick(T)}]
    BY <1>1, <1>3, Zenon DEF Sums
  <2> HIDE DEF f
  <2> QED BY <1>3, <2>1, <2>2
<1>4. SUBSET S \subseteq P
  <2> HIDE DEF P
  <2> QED BY <1>2, <1>3, SubsetInduction
<1>5. sum[S] = 0
  BY <1>4
<1> QED BY <1>1, <1>5, Zenon

LEMMA SumChanges ==
  ASSUME NEW S, IsFiniteSet(S), NEW f \in [S -> Int], NEW g \in [S -> Int], NEW s \in S, NEW d \in Int,
         g[s] = f[s] + d, \A x \in S : x # s => g[x] = f[x]
  PROVE  SumFunctionOnSet(g, S) = SumFunctionOnSet(f, S) + d
<1>1. PICK a : Sums(f, S, a) /\ SumFunctionOnSet(f, S) = a[S]
  BY Summed
<1>2. PICK b : Sums(g, S, b) /\ SumFunctionOnSet(g, S) = b[S]
  BY Summed
<1> DEFINE P == {T \in SUBSET S : b[T] = IF s \in T THEN a[T] + d ELSE a[T]}
<1>3. {} \in P
  BY <1>1, <1>2 DEF Sums
<1>4. ASSUME NEW T \in SUBSET S, T # {}, T \ {Pick(T)} \in P PROVE T \in P
  <2> DEFINE x == Pick(T)
             U == T \ {x}
  <2>1. x \in T /\ x \in S /\ U \in SUBSET S
    BY <1>4 DEF Pick
  <2>2. a[T] = f[x] + a[U] /\ b[T] = g[x] + b[U]
    BY <1>1, <1>2, <1>4, Zenon DEF Sums
  <2>3. b[U] = IF s \in U THEN a[U] + d ELSE a[U]
    BY <1>4
  <2>4. a[T] \in Int /\ a[U] \in Int /\ f[x] \in Int /\ g[x] \in Int
    BY <1>1, <2>1 DEF Sums
  <2>5. CASE x = s
    <3>1. s \notin U /\ s \in T /\ g[x] = f[x] + d
      BY <2>1, <2>5
    <3> HIDE DEF x, U
    <3> QED BY <2>2, <2>3, <2>4, <3>1
  <2>6. CASE x # s
    <3>1. (s \in U <=> s \in T) /\ g[x] = f[x]
      BY <2>1, <2>6
    <3> HIDE DEF x, U
    <3> QED BY <2>2, <2>3, <2>4, <3>1
  <2> QED BY <2>5, <2>6
<1>5. SUBSET S \subseteq P
  <2> HIDE DEF P
  <2> QED BY <1>3, <1>4, SubsetInduction
<1> QED BY <1>1, <1>2, <1>5

LEMMA SumMonotone ==
  ASSUME NEW S, IsFiniteSet(S), NEW f \in [S -> Int], NEW g \in [S -> Int], \A x \in S : f[x] <= g[x]
  PROVE  SumFunctionOnSet(f, S) <= SumFunctionOnSet(g, S)
<1>1. PICK a : Sums(f, S, a) /\ SumFunctionOnSet(f, S) = a[S]
  BY Summed
<1>2. PICK b : Sums(g, S, b) /\ SumFunctionOnSet(g, S) = b[S]
  BY Summed
<1> DEFINE P == {T \in SUBSET S : a[T] <= b[T]}
<1>3. {} \in P
  BY <1>1, <1>2 DEF Sums
<1>4. ASSUME NEW T \in SUBSET S, T # {}, T \ {Pick(T)} \in P PROVE T \in P
  <2> DEFINE x == Pick(T)
             U == T \ {x}
  <2>1. x \in S /\ U \in SUBSET S /\ a[U] <= b[U]
    BY <1>4 DEF Pick
  <2>2. a[T] = f[x] + a[U] /\ b[T] = g[x] + b[U]
    BY <1>1, <1>2, <1>4, Zenon DEF Sums
  <2>3. a[U] \in Int /\ b[U] \in Int /\ f[x] \in Int /\ g[x] \in Int /\ f[x] <= g[x]
    BY <1>1, <1>2, <2>1 DEF Sums
  <2> HIDE DEF x, U
  <2>4. a[T] <= b[T]
    BY <2>1, <2>2, <2>3
  <2> QED BY <2>4
<1>5. SUBSET S \subseteq P
  <2> HIDE DEF P
  <2> QED BY <1>3, <1>4, SubsetInduction
<1> QED BY <1>1, <1>2, <1>5

(* The differences of a sequence of totals add up to the last total.          *)
LEMMA Telescope ==
  ASSUME NEW n \in Nat, NEW t \in [0..n -> Int], NEW d \in [1..n -> Int],
         \A i \in 1..n : d[i] = t[i] - t[i - 1]
  PROVE  SumFunctionOnSet(d, 1..n) = t[n] - t[0]
<1> DEFINE upto == [m \in 0..n |-> [i \in 1..n |-> IF i <= m THEN d[i] ELSE 0]]
           Sum(m) == SumFunctionOnSet(upto[m], 1..n)
           Known == {m \in 0..n : Sum(m) = t[m] - t[0]}
<1>1. IsFiniteSet(1..n)
  BY FS_Interval
<1>2. \A m \in 0..n : upto[m] \in [1..n -> Int] /\ \A i \in 1..n : upto[m][i] = IF i <= m THEN d[i] ELSE 0
  OBVIOUS
<1>3. 0 \in Known
  <2>1. upto[0] = [i \in 1..n |-> 0]
    OBVIOUS
  <2> HIDE DEF upto
  <2>2. Sum(0) = 0
    BY <1>1, <2>1, SumOfZeros
  <2>3. t[0] - t[0] = 0
    OBVIOUS
  <2> QED BY <2>2, <2>3
<1>4. upto[n] = d
  OBVIOUS
<1> HIDE DEF upto
<1>5. ASSUME NEW m \in 0..(n - 1), m \in Known PROVE m + 1 \in Known
  <2>1. m + 1 \in 1..n /\ m + 1 \in 0..n /\ m \in 0..n
    BY <1>5
  <2>2. upto[m + 1][m + 1] = upto[m][m + 1] + d[m + 1]
    BY <1>2, <2>1
  <2>3. ASSUME NEW i \in 1..n, i # m + 1 PROVE upto[m + 1][i] = upto[m][i]
    <3>1. i <= m + 1 <=> i <= m
      BY <2>3
    <3> QED BY <1>2, <2>1, <3>1
  <2>4. Sum(m + 1) = Sum(m) + d[m + 1]
    <3>1. d[m + 1] \in Int /\ upto[m] \in [1..n -> Int] /\ upto[m + 1] \in [1..n -> Int]
      BY <1>2, <2>1
    <3> DEFINE f == upto[m]
               g == upto[m + 1]
    <3>2. /\ f \in [1..n -> Int] /\ g \in [1..n -> Int] /\ g[m + 1] = f[m + 1] + d[m + 1]
          /\ \A i \in 1..n : i # m + 1 => g[i] = f[i]
      BY <2>2, <2>3, <3>1
    <3> HIDE DEF f, g
    <3>3. SumFunctionOnSet(g, 1..n) = SumFunctionOnSet(f, 1..n) + d[m + 1]
      <4> DEFINE D == 1..n
                 s == m + 1
                 e == d[s]
      <4>1. IsFiniteSet(D) /\ s \in D /\ e \in Int /\ f \in [D -> Int] /\ g \in [D -> Int]
        BY <1>1, <2>1, <3>1, <3>2
      <4>2. g[s] = f[s] + e /\ \A x \in D : x # s => g[x] = f[x]
        BY <3>2
      <4> HIDE DEF D, s, e
      <4>3. SumFunctionOnSet(g, D) = SumFunctionOnSet(f, D) + e
        BY <4>1, <4>2, SumChanges, Zenon
      <4> QED BY <4>3 DEF D, s, e
    <3> QED BY <3>3 DEF f, g
  <2>5. d[m + 1] = t[m + 1] - t[m]
    BY <2>1
  <2> QED BY <1>5, <2>1, <2>4, <2>5
<1>6. n \in Known
  <2> HIDE DEF Known
  <2>1. 0..n \subseteq Known
    BY <1>3, <1>5, PrefixInduction
  <2> QED BY <2>1
<1> QED BY <1>4, <1>6

(* What a sum of numbers is. *)
LEMMA SumIsInt ==
  ASSUME NEW S, IsFiniteSet(S), NEW f \in [S -> Int]
  PROVE  SumFunctionOnSet(f, S) \in Int
<1>1. PICK sum : Sums(f, S, sum) /\ SumFunctionOnSet(f, S) = sum[S]
  BY Summed
<1> QED BY <1>1 DEF Sums

-----------------------------------------------------------------------------
(* A finite set of numbers has a least one and a greatest. *)
LEMMA LeastInt ==
  ASSUME NEW S, IsFiniteSet(S), S \subseteq Int, S # {}
  PROVE  \E x \in S : \A y \in S : x <= y
<1> DEFINE P == {T \in SUBSET S : T # {} => \E x \in T : \A y \in T : x <= y}
<1>1. {} \in P
  OBVIOUS
<1>2. ASSUME NEW T \in SUBSET S, T # {}, T \ {Pick(T)} \in P PROVE T \in P
  <2>1. Pick(T) \in T /\ T \subseteq Int
    BY <1>2 DEF Pick
  <2>2. CASE T \ {Pick(T)} = {}
    <3>1. T = {Pick(T)}
      BY <2>1, <2>2
    <3>2. Pick(T) \in Int
      BY <2>1
    <3>3. Pick(T) <= Pick(T)
      BY <3>2
    <3> QED BY <3>1, <3>3
  <2>3. CASE T \ {Pick(T)} # {}
    <3>1. PICK x \in T \ {Pick(T)} : \A y \in T \ {Pick(T)} : x <= y
      BY <1>2, <2>3
    <3>2. CASE x <= Pick(T)
      BY <3>1, <3>2
    <3>3. CASE ~(x <= Pick(T))
      <4>1. ASSUME NEW y \in T PROVE Pick(T) <= y
        <5>1. y \in Int /\ x \in Int /\ Pick(T) \in Int
          BY <2>1
        <5>2. CASE y = Pick(T)
          BY <5>1, <5>2
        <5>3. CASE y # Pick(T)
          BY <5>1, <5>3, <3>1, <3>3
        <5> QED BY <5>2, <5>3
      <4> QED BY <2>1, <4>1
    <3> QED BY <3>2, <3>3
  <2> QED BY <2>2, <2>3
<1>3. SUBSET S \subseteq P
  <2> HIDE DEF P
  <2> QED BY <1>1, <1>2, SubsetInduction
<1>4. S \in P
  BY <1>3
<1> QED BY <1>4

LEMMA GreatestInt ==
  ASSUME NEW S, IsFiniteSet(S), S \subseteq Int, S # {}
  PROVE  \E x \in S : \A y \in S : y <= x
<1> DEFINE minus == [x \in S |-> 0 - x]
           T     == {minus[x] : x \in S}
<1>1. minus \in Surjection(S, T)
  BY DEF Surjection
<1>2. IsFiniteSet(T)
  <2> HIDE DEF minus, T
  <2> QED BY <1>1, FS_Surjection
<1>3. \A x \in S : x \in Int /\ minus[x] = 0 - x /\ minus[x] \in T
  OBVIOUS
<1>8. T \subseteq Int /\ T # {}
  <2>1. T # {} /\ \A t \in T : \E x \in S : t = minus[x]
    OBVIOUS
  <2> HIDE DEF T, minus
  <2> QED BY <1>3, <2>1
<1>4. PICK t \in T : \A u \in T : t <= u
  <2> HIDE DEF T
  <2> QED BY <1>2, <1>8, LeastInt
<1>5. PICK x \in S : t = 0 - x
  OBVIOUS
<1>6. \A y \in S : (0 - y) \in T
  OBVIOUS
<1>7. ASSUME NEW y \in S PROVE y <= x
  <2>1. t <= 0 - y /\ x \in Int /\ y \in Int
    BY <1>3, <1>4, <1>6
  <2> QED BY <1>5, <2>1
<1> QED BY <1>7

(* A sum of one number. *)
LEMMA SumOfOne ==
  ASSUME NEW s, NEW f \in [{s} -> Int]
  PROVE  SumFunctionOnSet(f, {s}) = f[s]
<1> DEFINE zeros == [x \in {s} |-> 0]
           d     == f[s]
<1>1. IsFiniteSet({s}) /\ zeros \in [{s} -> Int] /\ d \in Int
  BY FS_Singleton
<1>2. SumFunctionOnSet(zeros, {s}) = 0
  BY <1>1, SumOfZeros
<1>3. f[s] = zeros[s] + d /\ s \in {s} /\ \A x \in {s} : x # s => f[x] = zeros[x]
  BY <1>1
<1> HIDE DEF zeros, d
<1>4. SumFunctionOnSet(f, {s}) = SumFunctionOnSet(zeros, {s}) + d
  BY <1>1, <1>3, SumChanges, Zenon
<1> QED BY <1>1, <1>2, <1>4 DEF d

-----------------------------------------------------------------------------
(* A finite set of numbers can be sorted, and what is sorted is all of it.    *)
Increasing(bs, T) ==
  /\ T \subseteq Int /\ bs \in [1..Cardinality(T) -> T]
  /\ \A i, j \in 1..Cardinality(T) : i < j => bs[i] < bs[j]

LEMMA CanBeSorted ==
  ASSUME NEW S, IsFiniteSet(S), S \subseteq Int
  PROVE  \E bs : Increasing(bs, S)
<1> DEFINE Known == {n \in Nat : \A T \in SUBSET S : Cardinality(T) = n => \E bs : Increasing(bs, T)}
<1>0. \A T \in SUBSET S : IsFiniteSet(T) /\ (Cardinality(T) = 0 <=> T = {})
  BY FS_Subset, FS_EmptySet
<1>1. 0 \in Known
  <2> SUFFICES ASSUME NEW T \in SUBSET S, Cardinality(T) = 0 PROVE \E bs : Increasing(bs, T)
    OBVIOUS
  <2>1. T = {} /\ 1..0 = {}
    BY <1>0
  <2>2. Increasing([i \in 1..0 |-> 0], T)
    <3>1. [i \in 1..0 |-> 0] \in [1..0 -> T]
      BY <2>1
    <3>2. Cardinality(T) = 0
      OBVIOUS
    <3> QED BY <2>1, <3>1, <3>2 DEF Increasing
  <2> QED BY <2>2
<1>2. ASSUME NEW n \in Nat, n \in Known PROVE n + 1 \in Known
  <2> SUFFICES ASSUME NEW T \in SUBSET S, Cardinality(T) = n + 1 PROVE \E bs : Increasing(bs, T)
    OBVIOUS
  <2>1. IsFiniteSet(T) /\ T # {} /\ T \subseteq Int
    <3>1. IsFiniteSet(T) /\ (Cardinality(T) = 0 <=> T = {}) /\ n + 1 # 0
      BY <1>0
    <3> QED BY <3>1
  <2>2. PICK top \in T : \A y \in T : y <= top
    BY <2>1, GreatestInt
  <2> DEFINE U == T \ {top}
  <2>3. U \in SUBSET S /\ Cardinality(U) = n /\ \A y \in U : y \in Int /\ y < top
    <3>1. Cardinality(U) = Cardinality(T) - 1
      BY <2>1, FS_RemoveElement
    <3> QED BY <2>1, <2>2, <3>1
  <2>4. PICK bs : Increasing(bs, U)
    <3> HIDE DEF U
    <3> QED BY <1>2, <2>3
  <2> DEFINE more == [i \in 1..(n + 1) |-> IF i = n + 1 THEN top ELSE bs[i]]
  <2>5. bs \in [1..n -> U] /\ \A i, j \in 1..n : i < j => bs[i] < bs[j]
    BY <2>3, <2>4 DEF Increasing
  <2>6. \A i \in 1..(n + 1) : (i = n + 1 => more[i] = top) /\ (i # n + 1 => i \in 1..n /\ more[i] = bs[i] /\ bs[i] \in U)
    BY <2>5
  <2>7. more \in [1..(n + 1) -> T]
    <3>1. \A i \in 1..(n + 1) : more[i] \in T
      BY <2>6
    <3> QED BY <3>1
  <2> HIDE DEF more
  <2>8. ASSUME NEW i \in 1..(n + 1), NEW j \in 1..(n + 1), i < j PROVE more[i] < more[j]
    <3>1. i # n + 1
      BY <2>8
    <3> QED BY <2>3, <2>5, <2>6, <2>8, <3>1
  <2>9. Increasing(more, T)
    BY <2>7, <2>8 DEF Increasing
  <2> QED BY <2>9
<1>3. Nat \subseteq Known
  <2> HIDE DEF Known
  <2> QED BY <1>1, <1>2, SetInduction
<1>4. Cardinality(S) \in Known /\ S \in SUBSET S
  BY <1>3, FS_CardinalityType
<1> QED BY <1>4

LEMMA SortedIsAll ==
  ASSUME NEW S, IsFiniteSet(S), NEW bs, Increasing(bs, S), NEW x \in S
  PROVE  \E i \in 1..Cardinality(S) : bs[i] = x
<1> DEFINE n == Cardinality(S)
<1>1. n \in Nat /\ IsFiniteSet(1..n) /\ Cardinality(1..n) = n
  BY FS_CardinalityType, FS_Interval
<1>2. bs \in Injection(1..n, S)
  <2>1. ASSUME NEW i \in 1..n, NEW j \in 1..n, bs[i] = bs[j] PROVE i = j
    <3>1. bs[i] \in Int /\ bs[j] \in Int /\ (i < j => bs[i] < bs[j]) /\ (j < i => bs[j] < bs[i])
      BY DEF Increasing
    <3> QED BY <1>1, <2>1, <3>1
  <2> QED BY <2>1 DEF Increasing, Injection, IsInjective
<1>3. bs \in Surjection(1..n, S)
  <2> HIDE DEF n
  <2> QED BY <1>1, <1>2, FS_Injection DEF n
<1> QED BY <1>3 DEF Surjection

(* What goes through a set of numbers from the least up to the greatest.      *)
LEMMA Enumerated ==
  ASSUME NEW S, S \subseteq Int, NEW n \in Nat, NEW bs \in [1..n -> S],
         \A i, j \in 1..n : i < j => bs[i] < bs[j],
         \A x \in S : \E i \in 1..n : bs[i] = x
  PROVE  IsFiniteSet(S) /\ Cardinality(S) = n /\ Increasing(bs, S)
<1>1. bs \in Surjection(1..n, S)
  BY DEF Surjection
<1>2. bs \in Injection(1..n, S)
  <2>1. ASSUME NEW i \in 1..n, NEW j \in 1..n, bs[i] = bs[j] PROVE i = j
    <3>1. bs[i] \in Int /\ bs[j] \in Int /\ (i < j => bs[i] < bs[j]) /\ (j < i => bs[j] < bs[i])
      OBVIOUS
    <3> QED BY <2>1, <3>1
  <2> QED BY <2>1 DEF Injection, IsInjective
<1>3. IsFiniteSet(1..n) /\ Cardinality(1..n) = n
  BY FS_Interval
<1>4. IsFiniteSet(S) /\ Cardinality(S) = n
  BY <1>1, <1>2, <1>3, FS_Surjection
<1> QED BY <1>4 DEF Increasing

(* As many are no greater than the k-th as its place says.                    *)
LEMMA UptoPlace ==
  ASSUME NEW S, IsFiniteSet(S), NEW bs, Increasing(bs, S), NEW k \in 1..Cardinality(S)
  PROVE  Cardinality({x \in S : x <= bs[k]}) = k
<1> DEFINE n == Cardinality(S)
           U == {x \in S : x <= bs[k]}
<1>1. n \in Nat /\ k \in 1..n /\ S \subseteq Int /\ bs \in [1..n -> S]
      /\ \A i, j \in 1..n : i < j => bs[i] < bs[j]
  BY FS_CardinalityType DEF Increasing
<1> HIDE DEF n
<1> DEFINE cs == [i \in 1..k |-> bs[i]]
<1>2. \A i \in 1..k : i \in 1..n /\ bs[i] \in S /\ bs[i] \in Int /\ bs[k] \in Int
                      /\ (i < k => bs[i] < bs[k])
  <2> SUFFICES ASSUME NEW i \in 1..k
               PROVE  i \in 1..n /\ bs[i] \in S /\ bs[i] \in Int /\ bs[k] \in Int /\ (i < k => bs[i] < bs[k])
    OBVIOUS
  <2>1. i \in 1..n
    BY <1>1
  <2>2. bs[i] \in S /\ bs[k] \in S
    BY <1>1, <2>1
  <2> QED BY <1>1, <2>1, <2>2
<1>3. cs \in [1..k -> U]
  <2>1. \A i \in 1..k : bs[i] <= bs[k]
    <3> SUFFICES ASSUME NEW i \in 1..k PROVE bs[i] <= bs[k]
      OBVIOUS
    <3>1. CASE i = k
      BY <1>2, <3>1
    <3>2. CASE i # k
      BY <1>1, <1>2, <3>2
    <3> QED BY <3>1, <3>2
  <2> QED BY <1>2, <2>1
<1>4. \A i, j \in 1..k : i < j => cs[i] < cs[j]
  BY <1>1, <1>2
<1>5. \A x \in U : \E i \in 1..k : cs[i] = x
  <2> SUFFICES ASSUME NEW x \in U PROVE \E i \in 1..k : cs[i] = x
    OBVIOUS
  <2>1. PICK i \in 1..n : bs[i] = x
    BY SortedIsAll DEF n
  <2>2. ~(k < i)
    <3>1. bs[i] <= bs[k] /\ bs[i] \in Int /\ bs[k] \in Int /\ (k < i => bs[k] < bs[i])
      BY <1>1, <2>1
    <3> QED BY <3>1
  <2>3. i \in 1..k
    BY <1>1, <2>1, <2>2
  <2> QED BY <2>1, <2>3
<1>6. U \subseteq Int /\ k \in Nat
  <2>1. k \in Nat
    BY <1>1
  <2> QED BY <1>1, <2>1
<1> HIDE DEF cs, U
<1>7. Cardinality(U) = k
  BY <1>3, <1>4, <1>5, <1>6, Enumerated
<1> QED BY <1>7 DEF U

-----------------------------------------------------------------------------
(* In a finite set with a strict order, an element's place is the number of   *)
(* those before it.                                                           *)
StrictOrder(lt, S) ==
  /\ \A a \in S : <<a, a>> \notin lt
  /\ \A a, b \in S : a # b => <<a, b>> \in lt \/ <<b, a>> \in lt
  /\ \A a, b, c \in S : <<a, b>> \in lt /\ <<b, c>> \in lt => <<a, c>> \in lt

Earlier(lt, S, a) == {b \in S : <<b, a>> \in lt}

LEMMA PlacesInOrder ==
  ASSUME NEW S, IsFiniteSet(S), NEW lt, StrictOrder(lt, S)
  PROVE  /\ \A a \in S : Cardinality(Earlier(lt, S, a)) \in 0..(Cardinality(S) - 1)
         /\ \A a, b \in S : <<a, b>> \in lt => Cardinality(Earlier(lt, S, a)) < Cardinality(Earlier(lt, S, b))
         /\ \A n \in 0..(Cardinality(S) - 1) : \E a \in S : Cardinality(Earlier(lt, S, a)) = n
<1> DEFINE N == Cardinality(S)
           place == [a \in S |-> Cardinality(Earlier(lt, S, a))]
<1>1. N \in Nat /\ IsFiniteSet(0..(N - 1)) /\ Cardinality(0..(N - 1)) = N
  <2>1. N \in Nat
    BY FS_CardinalityType
  <2> HIDE DEF N
  <2>2. IsFiniteSet(0..(N - 1)) /\ Cardinality(0..(N - 1)) = IF 0 > N - 1 THEN 0 ELSE N - 1 - 0 + 1
    BY <2>1, FS_Interval
  <2> QED BY <2>1, <2>2
<1>2. \A a \in S : place[a] \in 0..(N - 1)
  <2> SUFFICES ASSUME NEW a \in S PROVE Cardinality(Earlier(lt, S, a)) \in 0..(N - 1)
    OBVIOUS
  <2>1. Earlier(lt, S, a) \in SUBSET S /\ a \notin Earlier(lt, S, a)
    BY DEF Earlier, StrictOrder
  <2>2. /\ IsFiniteSet(Earlier(lt, S, a)) /\ Cardinality(Earlier(lt, S, a)) <= N
        /\ N # Cardinality(Earlier(lt, S, a))
    BY <2>1, FS_Subset
  <2>3. Cardinality(Earlier(lt, S, a)) \in Nat
    BY <2>2, FS_CardinalityType
  <2> HIDE DEF N
  <2> QED BY <1>1, <2>2, <2>3
<1>3. \A a, b \in S : <<a, b>> \in lt => place[a] < place[b]
  <2> SUFFICES ASSUME NEW a \in S, NEW b \in S, <<a, b>> \in lt
               PROVE  Cardinality(Earlier(lt, S, a)) < Cardinality(Earlier(lt, S, b))
    OBVIOUS
  <2>1. /\ Earlier(lt, S, a) \in SUBSET Earlier(lt, S, b)
        /\ a \in Earlier(lt, S, b) /\ a \notin Earlier(lt, S, a)
    BY DEF Earlier, StrictOrder
  <2>2. Earlier(lt, S, b) \in SUBSET S
    BY DEF Earlier
  <2>3. IsFiniteSet(Earlier(lt, S, b))
    BY <2>2, FS_Subset
  <2>4. /\ IsFiniteSet(Earlier(lt, S, a))
        /\ Cardinality(Earlier(lt, S, a)) <= Cardinality(Earlier(lt, S, b))
        /\ Cardinality(Earlier(lt, S, a)) # Cardinality(Earlier(lt, S, b))
    BY <2>1, <2>3, FS_Subset
  <2>5. Cardinality(Earlier(lt, S, a)) \in Nat /\ Cardinality(Earlier(lt, S, b)) \in Nat
    BY <2>3, <2>4, FS_CardinalityType
  <2> QED BY <2>4, <2>5
<1> HIDE DEF N, place
<1>4. place \in Injection(S, 0..(N - 1))
  <2>1. place \in [S -> 0..(N - 1)]
    BY <1>2 DEF place
  <2>2. ASSUME NEW a \in S, NEW b \in S, place[a] = place[b] PROVE a = b
    <3>1. place[a] \in Int /\ place[b] \in Int
      BY <1>1, <1>2
    <3>2. <<a, b>> \notin lt /\ <<b, a>> \notin lt
      BY <1>3, <2>2, <3>1
    <3> QED BY <3>2 DEF StrictOrder
  <2> QED BY <2>1, <2>2 DEF Injection, IsInjective
<1>5. place \in Surjection(S, 0..(N - 1))
  BY <1>1, <1>4, FS_Injection DEF N
<1>6. \A n \in 0..(N - 1) : \E a \in S : place[a] = n
  BY <1>5 DEF Surjection
<1> QED BY <1>2, <1>3, <1>6 DEF N, place
=============================================================================
