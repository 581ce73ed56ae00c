--------------------------- MODULE NaturalRecursion ---------------------------
(***************************************************************************)
(* Powers of two, and what proofs about loops need: induction on a set of  *)
(* numbers, and that a function defined by recursion on its argument is    *)
(* the function its definition describes.                                  *)
(***************************************************************************)
EXTENDS Integers, FiniteSetTheorems, WellFoundedInduction, TLAPS


Pow2[n \in Nat] == IF n = 0 THEN 1 ELSE 2 * Pow2[n - 1]
-----------------------------------------------------------------------------
LEMMA InductionOnSet ==
  ASSUME NEW P, 0 \in P, \A n \in Nat : n \in P => n + 1 \in P
  PROVE  Nat \subseteq P
  <1> DEFINE Bad == Nat \ P
  <1>1. ASSUME Bad # {}
        PROVE  FALSE
    <2>1. PICK n \in Bad : \A y \in Bad : ~ (<<y, n>> \in OpToRel(<, Nat))
      BY <1>1, WFMin, NatLessThanWellFounded
    <2>2. n \in Nat /\ n \notin P /\ \A y \in Bad : ~ (y < n)
      BY <2>1 DEF OpToRel
    <2>3. n - 1 \in Nat /\ n - 1 < n /\ n - 1 + 1 = n
      BY <2>2
    <2>4. n - 1 \in P
      BY <2>2, <2>3
    <2> QED
      BY <2>2, <2>3, <2>4
  <1> QED
    BY <1>1

LEMMA InductionUpTo ==
  ASSUME NEW m \in Nat, NEW P, 0 \in P, \A n \in 1 .. m : n - 1 \in P => n \in P
  PROVE  0 .. m \subseteq P
  <1> DEFINE Q == {n \in Nat : n <= m => n \in P}
  <1>1. 0 \in Q
    OBVIOUS
  <1>2. ASSUME NEW n \in Nat, n \in Q
        PROVE  n + 1 \in Q
    <2>1. CASE n + 1 <= m
      <3>1. n + 1 \in 1 .. m /\ n + 1 - 1 = n /\ n \in P
        BY <1>2, <2>1
      <3> QED
        BY <3>1
    <2> QED
      BY <2>1
  <1>3. Nat \subseteq Q
    <2> HIDE DEF Q
    <2> QED
      BY <1>1, <1>2, InductionOnSet
  <1> QED
    BY <1>3

(* A set of natural numbers that is not empty has a least element.         *)
LEMMA LeastOfSet ==
  ASSUME NEW S \in SUBSET Nat, S # {}
  PROVE  \E n \in S : \A m \in S : n <= m
  <1>1. PICK n \in S : \A y \in S : ~ (<<y, n>> \in OpToRel(<, Nat))
    BY WFMin, NatLessThanWellFounded
  <1>2. \A m \in S : ~ (m < n)
    BY <1>1 DEF OpToRel
  <1> QED
    BY <1>2

(* A finite set of integers that is not empty has a largest element.       *)
LEMMA LargestOfSet ==
  ASSUME NEW S \in SUBSET Int, IsFiniteSet(S), S # {}
  PROVE  \E n \in S : \A m \in S : m <= n
  <1> DEFINE P == {k \in Nat : \A T \in SUBSET Int :
                       IsFiniteSet(T) /\ Cardinality(T) = k + 1 => \E n \in T : \A m \in T : m <= n}
  <1>1. 0 \in P
    <2> SUFFICES ASSUME NEW T \in SUBSET Int, IsFiniteSet(T), Cardinality(T) = 1
                 PROVE  \E n \in T : \A m \in T : m <= n
      OBVIOUS
    <2>1. PICK x : T = {x}
      BY FS_Singleton
    <2> QED
      BY <2>1
  <1>2. ASSUME NEW k \in Nat, k \in P
        PROVE  k + 1 \in P
    <2> SUFFICES ASSUME NEW T \in SUBSET Int, IsFiniteSet(T), Cardinality(T) = k + 1 + 1
                 PROVE  \E n \in T : \A m \in T : m <= n
      OBVIOUS
    <2>1. T # {}
      BY FS_EmptySet
    <2>2. PICK x \in T : TRUE
      BY <2>1
    <2>3. IsFiniteSet(T \ {x}) /\ Cardinality(T \ {x}) = k + 1
      BY <2>2, FS_RemoveElement
    <2>4. PICK y \in T \ {x} : \A m \in T \ {x} : m <= y
      BY <1>2, <2>3
    <2>5. CASE x <= y
      BY <2>4, <2>5
    <2>6. CASE y <= x
      BY <2>4, <2>6
    <2> QED
      BY <2>5, <2>6, <2>2, <2>4
  <1>3. Nat \subseteq P
    <2> HIDE DEF P
    <2> QED
      BY <1>1, <1>2, InductionOnSet
  <1>4. Cardinality(S) \in Nat /\ Cardinality(S) # 0
    BY FS_CardinalityType, FS_EmptySet
  <1>5. Cardinality(S) - 1 \in P /\ Cardinality(S) - 1 + 1 = Cardinality(S)
    BY <1>3, <1>4
  <1> QED
    BY <1>5
-----------------------------------------------------------------------------
(* A loop that does next[i, x] for i = 1, 2, ...: the first k values of x,  *)
(* and all of them.                                                        *)
Steps(next, D, S) == next \in [D \X S -> S]

LoopsForever(f, S, base, next) ==
    /\ f \in [Nat -> S] /\ f[0] = base
    /\ \A n \in Nat \ {0} : f[n] = next[n, f[n - 1]]

Loops(f, k, S, base, next) ==
    /\ f \in [0 .. k -> S] /\ f[0] = base
    /\ \A n \in 1 .. k : f[n] = next[n, f[n - 1]]

LEMMA LoopsExist ==
  ASSUME NEW m \in Nat, NEW S, NEW base \in S, NEW next, Steps(next, 1 .. m, S)
  PROVE  \E f : Loops(f, m, S, base, next)
  <1> DEFINE P == {k \in 0 .. m : \E f : Loops(f, k, S, base, next)}
  <1>1. 0 \in P
    <2> DEFINE f == [i \in 0 .. 0 |-> base]
    <2>1. Loops(f, 0, S, base, next)
      BY DEF Loops
    <2> QED
      BY <2>1
  <1>2. ASSUME NEW k \in 1 .. m, k - 1 \in P
        PROVE  k \in P
    <2>1. PICK g : Loops(g, k - 1, S, base, next)
      BY <1>2
    <2>2. g[k - 1] \in S
      <3>1. k - 1 \in 0 .. k - 1
        OBVIOUS
      <3> QED
        BY <2>1, <3>1 DEF Loops
    <2> DEFINE x == next[k, g[k - 1]]
               f == [i \in 0 .. k |-> IF i = k THEN x ELSE g[i]]
    <2>3. x \in S
      BY <2>2 DEF Steps
    <2>4. ASSUME NEW i \in 0 .. k - 1
          PROVE  f[i] = g[i] /\ g[i] \in S
      <3>1. g[i] \in S
        BY <2>1 DEF Loops
      <3>2. i \in 0 .. k /\ i # k
        OBVIOUS
      <3> HIDE DEF x
      <3> QED
        BY <3>1, <3>2
    <2>5. f[k] = x
      <3>1. k \in 0 .. k
        OBVIOUS
      <3> HIDE DEF x
      <3> QED
        BY <3>1
    <2>6. f \in [0 .. k -> S]
      <3> HIDE DEF x
      <3>1. \A i \in 0 .. k : (IF i = k THEN x ELSE g[i]) \in S
        <4>1. \A i \in 0 .. k : i # k => i \in 0 .. k - 1
          OBVIOUS
        <4> QED
          BY <2>3, <2>4, <4>1
      <3> QED
        BY <3>1
    <2>7. f[0] = base
      <3>1. 0 \in 0 .. k - 1
        OBVIOUS
      <3> QED
        BY <2>1, <2>4, <3>1 DEF Loops
    <2>8. ASSUME NEW n \in 1 .. k
          PROVE  f[n] = next[n, f[n - 1]]
      <3>1. n - 1 \in 0 .. k - 1
        OBVIOUS
      <3>2. f[n - 1] = g[n - 1]
        BY <2>4, <3>1
      <3>3. CASE n = k
        BY <2>5, <3>2, <3>3
      <3>4. CASE n # k
        <4>1. n \in 0 .. k - 1 /\ n \in 1 .. k - 1
          BY <3>4
        <4>2. f[n] = g[n]
          BY <2>4, <4>1
        <4>3. g[n] = next[n, g[n - 1]]
          BY <2>1, <4>1 DEF Loops
        <4> QED
          BY <3>2, <4>2, <4>3
      <3> QED
        BY <3>3, <3>4
    <2>9. Loops(f, k, S, base, next)
      <3> HIDE DEF f
      <3> QED
        BY <2>6, <2>7, <2>8 DEF Loops
    <2> HIDE DEF f
    <2>10. k \in 0 .. m
      OBVIOUS
    <2> QED
      BY <2>9, <2>10
  <1>3. 0 .. m \subseteq P
    <2> HIDE DEF P
    <2> QED
      BY <1>1, <1>2, InductionUpTo
  <1> QED
    BY <1>3

LEMMA LoopsAgree ==
  ASSUME NEW S, NEW base, NEW next, NEW j \in Nat, NEW k \in Nat, NEW f, NEW g,
         Loops(f, j, S, base, next), Loops(g, k, S, base, next), j <= k
  PROVE  \A n \in 0 .. j : f[n] = g[n]
  <1> DEFINE P == {n \in 0 .. j : f[n] = g[n]}
  <1>1. 0 \in P
    <2>1. f[0] = base /\ g[0] = base
      BY DEF Loops
    <2> QED
      BY <2>1
  <1>2. ASSUME NEW n \in 1 .. j, n - 1 \in P
        PROVE  n \in P
    <2>1. n \in 1 .. k /\ n \in 0 .. j /\ f[n - 1] = g[n - 1]
      BY <1>2
    <2>2. f[n] = next[n, f[n - 1]]
      BY DEF Loops
    <2>3. g[n] = next[n, g[n - 1]]
      BY <2>1 DEF Loops
    <2> QED
      BY <2>1, <2>2, <2>3
  <1>3. 0 .. j \subseteq P
    <2> HIDE DEF P
    <2> QED
      BY <1>1, <1>2, InductionUpTo
  <1> QED
    BY <1>3

LEMMA LoopsForeverExist ==
  ASSUME NEW S, NEW base \in S, NEW next, Steps(next, Nat \ {0}, S)
  PROVE  \E f : LoopsForever(f, S, base, next)
  <1> DEFINE upto(m) == CHOOSE f : Loops(f, m, S, base, next)
             F == [n \in Nat |-> upto(n)[n]]
  <1>1. ASSUME NEW m \in Nat
        PROVE  Loops(upto(m), m, S, base, next)
    <2> DEFINE first == [p \in (1 .. m) \X S |-> next[p]]
    <2>1. Steps(first, 1 .. m, S)
      BY DEF Steps
    <2>2. \A n \in 1 .. m, x \in S : first[n, x] = next[n, x]
      OBVIOUS
    <2>3. PICK f : Loops(f, m, S, base, first)
      <3> HIDE DEF first
      <3> QED
        BY <2>1, LoopsExist
    <2>4. Loops(f, m, S, base, next)
      <3> HIDE DEF first
      <3>1. \A n \in 1 .. m : n - 1 \in 0 .. m
        OBVIOUS
      <3>2. \A n \in 1 .. m : f[n - 1] \in S
        BY <2>3, <3>1 DEF Loops
      <3> QED
        BY <2>2, <2>3, <3>2 DEF Loops
    <2> QED
      BY <2>4
  <1> HIDE DEF upto
  <1>2. ASSUME NEW n \in Nat
        PROVE  F[n] \in S /\ F[n] = IF n = 0 THEN base ELSE next[n, F[n - 1]]
    <2>1. F[n] = upto(n)[n] /\ n \in 0 .. n
      OBVIOUS
    <2>2. upto(n)[n] \in S
      BY <1>1, <2>1 DEF Loops
    <2>3. CASE n = 0
      BY <1>1, <2>1, <2>2, <2>3 DEF Loops
    <2>4. CASE n # 0
      <3>1. n - 1 \in Nat /\ n \in 1 .. n /\ n - 1 \in 0 .. n - 1
        BY <2>4
      <3>2. upto(n)[n] = next[n, upto(n)[n - 1]]
        BY <1>1, <3>1 DEF Loops
      <3>3. upto(n - 1)[n - 1] = upto(n)[n - 1]
        BY <1>1, <3>1, LoopsAgree
      <3>4. F[n - 1] = upto(n - 1)[n - 1]
        BY <3>1
      <3> QED
        BY <2>1, <2>2, <2>4, <3>2, <3>3, <3>4
    <2> QED
      BY <2>3, <2>4
  <1>3. F \in [Nat -> S]
    BY <1>2
  <1> HIDE DEF F
  <1>4. LoopsForever(F, S, base, next)
    BY <1>2, <1>3 DEF LoopsForever
  <1> QED
    BY <1>4
-----------------------------------------------------------------------------
(* Powers of two.                                                          *)
LEMMA Pow2Defined ==
  /\ Pow2 \in [Nat -> Nat \ {0}] /\ Pow2[0] = 1
  /\ \A n \in Nat : Pow2[n + 1] = 2 * Pow2[n]
  <1> DEFINE S == Nat \ {0}
             next == [p \in (Nat \ {0}) \X S |-> 2 * p[2]]
             Is(f) == f = [n \in Nat |-> IF n = 0 THEN 1 ELSE 2 * f[n - 1]]
  <1>1. \E f : Is(f)
    <2>1. Steps(next, Nat \ {0}, S)
      BY DEF Steps
    <2>2. PICK f : LoopsForever(f, S, 1, next)
      <3>1. 1 \in S
        OBVIOUS
      <3> HIDE DEF next, S
      <3> QED
        BY <2>1, <3>1, LoopsForeverExist
    <2>3. ASSUME NEW n \in Nat
          PROVE  f[n] \in S /\ f[n] = IF n = 0 THEN 1 ELSE 2 * f[n - 1]
      <3>1. CASE n = 0
        BY <2>2, <3>1 DEF LoopsForever
      <3>2. CASE n # 0
        <4>1. n \in Nat \ {0} /\ n - 1 \in Nat
          BY <3>2
        <4>2. f[n - 1] \in S /\ f[n] \in S
          BY <2>2, <4>1 DEF LoopsForever
        <4>3. next[n, f[n - 1]] = 2 * f[n - 1]
          BY <4>1, <4>2
        <4>4. f[n] = next[n, f[n - 1]]
          <5> HIDE DEF next
          <5> QED
            BY <2>2, <4>1 DEF LoopsForever
        <4> QED
          BY <3>2, <4>2, <4>3, <4>4
      <3> QED
        BY <3>1, <3>2
    <2>4. f = [n \in Nat |-> f[n]]
      BY <2>2 DEF LoopsForever
    <2>5. Is(f)
      BY <2>3, <2>4
    <2> QED
      BY <2>5
  <1>2. Pow2 = CHOOSE f : Is(f)
    BY DEF Pow2
  <1>3. Is(Pow2)
    <2> HIDE DEF Is
    <2> QED
      BY <1>1, <1>2
  <1>4. \A n \in Nat : Pow2[n] = IF n = 0 THEN 1 ELSE 2 * Pow2[n - 1]
    BY <1>3
  <1>5. Pow2[0] = 1 /\ \A n \in Nat : Pow2[n + 1] = 2 * Pow2[n]
    <2>1. \A n \in Nat : n + 1 \in Nat /\ n + 1 # 0 /\ n + 1 - 1 = n
      OBVIOUS
    <2> QED
      BY <1>4, <2>1
  <1> DEFINE P == {n \in Nat : Pow2[n] \in Nat \ {0}}
  <1>6. Nat \subseteq P
    <2>1. 0 \in P
      BY <1>5
    <2>2. ASSUME NEW n \in Nat, n \in P
          PROVE  n + 1 \in P
      BY <1>5, <2>2
    <2> HIDE DEF P
    <2> QED
      BY <2>1, <2>2, InductionOnSet
  <1>7. Pow2 = [n \in Nat |-> Pow2[n]]
    <2>1. Pow2 = [n \in Nat |-> IF n = 0 THEN 1 ELSE 2 * Pow2[n - 1]]
      BY <1>3
    <2> QED
      BY <1>4, <2>1
  <1> QED
    BY <1>5, <1>6, <1>7

LEMMA Pow2Grows ==
  ASSUME NEW n \in Nat
  PROVE  Pow2[n] \in Nat /\ Pow2[n] > n
  <1> DEFINE P == {k \in Nat : Pow2[k] > k}
  <1>1. 0 \in P
    BY Pow2Defined
  <1>2. ASSUME NEW k \in Nat, k \in P
        PROVE  k + 1 \in P
    <2>1. Pow2[k] \in Nat /\ Pow2[k] > k /\ Pow2[k + 1] = 2 * Pow2[k]
      BY <1>2, Pow2Defined
    <2> QED
      BY <2>1
  <1>3. Nat \subseteq P
    <2> HIDE DEF P
    <2> QED
      BY <1>1, <1>2, InductionOnSet
  <1> QED
    BY <1>3, Pow2Defined

LEMMA Pow2Increases ==
  ASSUME NEW m \in Nat, NEW n \in Nat, m <= n
  PROVE  Pow2[m] <= Pow2[n]
  <1> DEFINE P == {k \in Nat : Pow2[m] <= Pow2[m + k]}
  <1>1. 0 \in P
    BY Pow2Defined
  <1>2. ASSUME NEW k \in Nat, k \in P
        PROVE  k + 1 \in P
    <2>1. /\ Pow2[m] \in Nat /\ Pow2[m + k] \in Nat /\ Pow2[m] <= Pow2[m + k]
          /\ Pow2[m + k + 1] = 2 * Pow2[m + k] /\ m + (k + 1) = m + k + 1
      BY <1>2, Pow2Defined
    <2> QED
      BY <2>1
  <1>3. Nat \subseteq P
    <2> HIDE DEF P
    <2> QED
      BY <1>1, <1>2, InductionOnSet
  <1>4. n - m \in P /\ m + (n - m) = n
    BY <1>3
  <1> QED
    BY <1>4
=============================================================================
