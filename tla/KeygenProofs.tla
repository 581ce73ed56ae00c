---------------------------- MODULE KeygenProofs ----------------------------
(***************************************************************************)
(* Proofs about what key generation collects of a circuit, for every set   *)
(* of columns and every number of rows.                                    *)
(*                                                                         *)
(* The permutation assembly: its tables are always typed, the labels and   *)
(* the cycles always agree between calls, the sizes count the classes, and *)
(* the whole implements the partition of EqualityClasses.                  *)
(*                                                                         *)
(* The three syntheses of a circuit, for every circuit: no region and no   *)
(* constant is laid over another, regions are packed, and the proof fits   *)
(* the keys.                                                               *)
(***************************************************************************)
EXTENDS PermutationAssembly, CircuitSynthesis, SequenceTheorems, FiniteSetTheorems,
        WellFoundedInduction, TLAPS

LEMMA CellsFinite == IsFiniteSet(Cells)
  <1>1. IsFiniteSet(Rows)
    BY NAssumption, FS_Interval DEF Rows
  <1> QED
    BY <1>1, ColumnsAssumption, FS_Product DEF Cells

LEMMA NoCellIsNoCell == NoCell \notin Cells /\ NoCell \notin Refs
  BY DEF NoCell, Cells, Refs

(* A reference is accepted exactly when it is a cell.                      *)
LEMMA AcceptedRefs ==
  ASSUME NEW ref \in Refs
  PROVE  (InArgument(ref) /\ InBounds(ref)) <=> ref \in Cells
  BY NAssumption DEF InArgument, InBounds, Refs, Cells, Rows

LEMMA CellsAreRefs == Cells \subseteq Refs
  BY NAssumption DEF Cells, Refs, Rows
-----------------------------------------------------------------------------
(* Orbits: they hold their start, are closed, and are the least such sets. *)
LEMMA OrbitBasics ==
  ASSUME NEW m \in [Cells -> Cells], NEW c \in Cells
  PROVE  /\ c \in OrbitOf(m, c)
         /\ OrbitOf(m, c) \subseteq Cells
         /\ ClosedUnder(m, OrbitOf(m, c))
  BY DEF OrbitOf, ClosedUnder

LEMMA OrbitLeast ==
  ASSUME NEW m, NEW c, NEW T \in SUBSET Cells, c \in T, ClosedUnder(m, T)
  PROVE  OrbitOf(m, c) \subseteq T
  BY DEF OrbitOf

LEMMA OrbitOfIdentity ==
  ASSUME NEW m, NEW c \in Cells, m[c] = c
  PROVE  OrbitOf(m, c) = {c}
  BY DEF OrbitOf, ClosedUnder

Partitioned(m) ==
  \A c, d \in Cells : d \in OrbitOf(m, c) => OrbitOf(m, d) = OrbitOf(m, c)

(***************************************************************************)
(* The step copy ends with: exchanging the successors of two cells of      *)
(* different cycles makes one cycle of the two and leaves the others as    *)
(* they were.                                                              *)
(***************************************************************************)
LEMMA SpliceJoins ==
  ASSUME NEW m \in [Cells -> Cells], Partitioned(m),
         NEW l \in Cells, NEW r \in Cells,
         OrbitOf(m, l) \cap OrbitOf(m, r) = {},
         NEW n \in [Cells -> Cells], n[l] = m[r], n[r] = m[l],
         \A d \in Cells \ {l, r} : n[d] = m[d],
         NEW c \in Cells
  PROVE  OrbitOf(n, c) = IF c \in OrbitOf(m, l) \cup OrbitOf(m, r)
                         THEN OrbitOf(m, l) \cup OrbitOf(m, r)
                         ELSE OrbitOf(m, c)
<1> DEFINE L == OrbitOf(m, l)
           R == OrbitOf(m, r)
<1>1. /\ n \in [Cells -> Cells]
      /\ l # r /\ n[l] = m[r] /\ n[r] = m[l]
      /\ \A d \in Cells \ {l, r} : n[d] = m[d]
  BY OrbitBasics
<1>2. /\ l \in L /\ r \in R /\ L \subseteq Cells /\ R \subseteq Cells
      /\ m[l] \in L /\ m[r] \in R
      /\ \A d \in L : OrbitOf(m, d) = L
      /\ \A d \in R : OrbitOf(m, d) = R
  <2>1. ClosedUnder(m, L) /\ ClosedUnder(m, R) /\ l \in L /\ r \in R
    BY OrbitBasics
  <2> QED
    BY <2>1, OrbitBasics DEF ClosedUnder, Partitioned
<1>3. ClosedUnder(m, L) /\ ClosedUnder(m, R)
  BY OrbitBasics
<1>4. CASE c \notin L \cup R
  <2> DEFINE C == OrbitOf(m, c)
  <2>1. C \cap L = {} /\ C \cap R = {}
    <3>1. ASSUME NEW d \in C PROVE OrbitOf(m, d) = C /\ d \in Cells
      BY OrbitBasics DEF Partitioned
    <3>2. c \in C
      BY OrbitBasics
    <3> QED
      BY <3>1, <3>2, <1>2, <1>4
  <2>2. c \in C /\ C \subseteq Cells /\ ClosedUnder(m, C)
    BY OrbitBasics
  <2>3. ClosedUnder(n, C)
    BY <1>1, <1>2, <2>1, <2>2 DEF ClosedUnder
  <2>4. OrbitOf(n, c) \subseteq C
    BY <2>2, <2>3, OrbitLeast
  <2>5. C \subseteq OrbitOf(n, c)
    <3> DEFINE D == C \cap OrbitOf(n, c)
    <3>1. c \in OrbitOf(n, c) /\ OrbitOf(n, c) \subseteq Cells /\ ClosedUnder(n, OrbitOf(n, c))
      BY <1>1, OrbitBasics
    <3>2. ClosedUnder(m, D)
      BY <1>1, <1>2, <2>1, <2>2, <3>1 DEF ClosedUnder
    <3>3. C \subseteq D
      <4>1. D \in SUBSET Cells /\ c \in D
        BY <2>2, <3>1
      <4> HIDE DEF D
      <4> QED
        BY <3>2, <4>1, OrbitLeast
    <3> QED
      BY <3>3
  <2> QED
    BY <1>4, <2>4, <2>5
<1>5. CASE c \in L \cup R
  <2> DEFINE T == OrbitOf(n, c)
  <2>1. c \in T /\ T \subseteq Cells /\ ClosedUnder(n, T)
    BY <1>1, OrbitBasics
  <2>2. ClosedUnder(n, L \cup R)
    BY <1>1, <1>2, <1>3 DEF ClosedUnder
  <2>3. T \subseteq L \cup R
    BY <1>2, <1>5, <2>2, OrbitLeast
  <2>4. ASSUME NEW x \in Cells, NEW y \in Cells, {x, y} = {l, r},
               T \cap OrbitOf(m, x) # {}
        PROVE  x \in T
    <3> SUFFICES ASSUME x \notin T PROVE FALSE
      OBVIOUS
    <3>0. y \notin OrbitOf(m, x)
      BY <1>2, <2>4
    <3> DEFINE D == T \cap OrbitOf(m, x)
    <3>1. PICK d \in D : TRUE
      BY <2>4
    <3>2. ClosedUnder(m, D)
      <4>1. ClosedUnder(m, OrbitOf(m, x)) /\ OrbitOf(m, x) \subseteq Cells
        BY OrbitBasics
      <4>2. \A e \in D : e \in Cells \ {l, r}
        BY <2>4, <3>0, <4>1
      <4> QED
        BY <1>1, <2>1, <4>1, <4>2 DEF ClosedUnder
    <3>3. OrbitOf(m, d) \subseteq D
      BY <2>1, <3>2, OrbitLeast
    <3>4. x \in OrbitOf(m, d)
      <4>1. x \in OrbitOf(m, x)
        BY OrbitBasics
      <4>2. d \in Cells
        BY <2>1
      <4> QED
        BY <4>1, <4>2 DEF Partitioned
    <3> QED
      BY <3>3, <3>4
  <2>5. l \in T /\ r \in T
    <3>1. CASE c \in L
      <4>1. l \in T
        BY <2>1, <2>4, <3>1
      <4>2. m[r] \in T
        BY <1>1, <2>1, <4>1 DEF ClosedUnder
      <4>3. r \in T
        BY <1>2, <2>4, <4>2
      <4> QED
        BY <4>1, <4>3
    <3>2. CASE c \in R
      <4>1. r \in T
        BY <2>1, <2>4, <3>2
      <4>2. m[l] \in T
        BY <1>1, <2>1, <4>1 DEF ClosedUnder
      <4>3. l \in T
        BY <1>2, <2>4, <4>2
      <4> QED
        BY <4>1, <4>3
    <3> QED
      BY <1>5, <3>1, <3>2
  <2>6. ClosedUnder(m, T)
    BY <1>1, <2>1, <2>5 DEF ClosedUnder
  <2>7. L \subseteq T /\ R \subseteq T
    BY <2>1, <2>5, <2>6, OrbitLeast
  <2> QED
    BY <1>5, <2>3, <2>7
<1> QED
  BY <1>4, <1>5
-----------------------------------------------------------------------------
(* The tables and the locals are always of their types.                    *)
LEMMA TypeInit == Init => TypeOK
  BY DEF Init, TypeOK, CellOrNone

LEMMA TypeStep == TypeOK /\ [Next]_vars => TypeOK'
<1> SUFFICES ASSUME TypeOK, [Next]_vars PROVE TypeOK'
  OBVIOUS
<1> USE DEF CellOrNone, assembly
<1>1. ASSUME NEW l \in Refs, NEW r \in Refs, Call(l, r) PROVE TypeOK'
  BY <1>1 DEF TypeOK, Call
<1>2. CASE RefuseColumn
  BY <1>2 DEF TypeOK, RefuseColumn, Return
<1>3. CASE RefuseBounds
  BY <1>3 DEF TypeOK, RefuseBounds, Return
<1>4. CASE AlreadyEqual
  BY <1>4 DEF TypeOK, AlreadyEqual, Return
<1>5. CASE Start
  <2>1. left \in Cells /\ right \in Cells
    BY <1>5, AcceptedRefs DEF TypeOK, Start, Accepted
  <2>2. Survivor \in Cells /\ Absorbed \in Cells
    BY <2>1 DEF TypeOK, Survivor, Absorbed
  <2> QED
    BY <1>5, <2>1, <2>2 DEF TypeOK, Start
<1>6. CASE Walk
  BY <1>6 DEF TypeOK, Walk
<1>7. CASE Splice
  BY <1>7 DEF TypeOK, Splice, Return
<1>8. CASE UNCHANGED vars
  BY <1>8 DEF TypeOK, vars
<1> QED
  BY <1>1, <1>2, <1>3, <1>4, <1>5, <1>6, <1>7, <1>8 DEF Next, Step

(***************************************************************************)
(* Whatever calls are made, the tables stay functions over the cells of    *)
(* the argument, and a call only works on cells it has accepted.           *)
(***************************************************************************)
THEOREM AssemblyTyped == Spec => []TypeOK
  BY TypeInit, TypeStep, PTL DEF Spec
-----------------------------------------------------------------------------
LEMMA InitInvariant == Init => IInv
<1> SUFFICES ASSUME Init PROVE IInv
  OBVIOUS
<1>1. TypeOK
  BY TypeInit
<1>2. \A c \in Cells : mapping[c] = c /\ aux[c] = c /\ sizes[c] = 1
  BY DEF Init
<1>3. \A c \in Cells : Orbit(c) = {c}
  BY <1>2, OrbitOfIdentity DEF Orbit
<1>4. Permutes /\ OrbitsPartition
  BY <1>2, <1>3 DEF Permutes, OrbitsPartition
<1>5. CyclesAreClasses
  BY <1>2, <1>3 DEF CyclesAreClasses, Class
<1>6. SizesCountClasses
  BY <1>2, <1>3, FS_Singleton DEF SizesCountClasses
<1>7. Merging /\ Walking /\ Relabelled
  BY DEF Init, Merging, Walking, Relabelled
<1> QED
  BY <1>1, <1>4, <1>5, <1>6, <1>7 DEF IInv

(* A step that leaves the tables alone and stays between calls.            *)
LEMMA SettledStep ==
  ASSUME IInv, TypeOK', Settled, Settled', UNCHANGED assembly
  PROVE  IInv'
<1>1. \A c : Orbit(c)' = Orbit(c) /\ Class(c)' = Class(c)
  BY DEF assembly, Orbit, Class
<1>2. Permutes' /\ OrbitsPartition'
  BY <1>1 DEF IInv, Permutes, OrbitsPartition, assembly
<1>3. CyclesAreClasses' /\ SizesCountClasses'
  BY <1>1 DEF IInv, CyclesAreClasses, SizesCountClasses, assembly
<1>4. Merging' /\ Walking' /\ Relabelled'
  BY DEF Settled, Merging, Walking, Relabelled
<1> QED
  BY <1>2, <1>3, <1>4 DEF IInv

(* Orbits of the current permutation, with the type invariant at hand.     *)
LEMMA OrbitFacts ==
  ASSUME TypeOK, OrbitsPartition
  PROVE  /\ \A c \in Cells : c \in Orbit(c) /\ Orbit(c) \subseteq Cells
         /\ \A c, d \in Cells : d \in Orbit(c) => mapping[d] \in Orbit(c)
         /\ \A c, d \in Cells : Orbit(c) \cap Orbit(d) # {} => Orbit(c) = Orbit(d)
<1>1. \A c \in Cells : /\ c \in Orbit(c) /\ Orbit(c) \subseteq Cells
                       /\ ClosedUnder(mapping, Orbit(c))
  BY OrbitBasics DEF TypeOK, Orbit
<1>2. \A c, d \in Cells : Orbit(c) \cap Orbit(d) # {} => Orbit(c) = Orbit(d)
  <2> SUFFICES ASSUME NEW c \in Cells, NEW d \in Cells,
                      NEW e \in Orbit(c), e \in Orbit(d)
               PROVE  Orbit(c) = Orbit(d)
    OBVIOUS
  <2> QED
    BY <1>1 DEF OrbitsPartition
<1> QED
  BY <1>1, <1>2 DEF ClosedUnder
-----------------------------------------------------------------------------
LEMMA StartStep == ASSUME IInv, TypeOK', Start PROVE IInv'
<1>1. /\ pc = "lookup" /\ pc' = "walk" /\ Settled
      /\ left \in Cells /\ right \in Cells /\ aux[left] # aux[right]
      /\ left' = left /\ right' = right
      /\ mapping' = mapping /\ aux' = aux
      /\ left_cycle' = Survivor /\ right_cycle' = Absorbed /\ cursor' = Absorbed
      /\ sizes' = [sizes EXCEPT ![Survivor] = @ + sizes[Absorbed]]
  BY AcceptedRefs DEF Start, Accepted, Settled, IInv, TypeOK
<1>2. \A c : Orbit(c)' = Orbit(c) /\ Class(c)' = Class(c)
  BY <1>1 DEF Orbit, Class
<1>3. TypeOK /\ OrbitsPartition /\ CyclesAreClasses /\ SizesCountClasses
  BY DEF IInv
<1>4. \A c \in Cells : Class(c) = Orbit(c) /\ aux[c] \in Orbit(c)
  BY <1>1, <1>3 DEF CyclesAreClasses
<1>5. \A c \in Cells : sizes[aux[c]] = Cardinality(Orbit(c))
  BY <1>1, <1>3 DEF SizesCountClasses
<1>6. /\ {Survivor, Absorbed} = {aux[left], aux[right]}
      /\ Survivor # Absorbed
      /\ Survivor \in Cells /\ Absorbed \in Cells
  BY <1>1, <1>3 DEF Survivor, Absorbed, TypeOK
<1>7. \A c \in Cells : aux[c] \in Cells /\ aux[aux[c]] = aux[c]
                       /\ Orbit(aux[c]) = Orbit(c)
  BY <1>3, <1>4 DEF TypeOK, Class, OrbitsPartition
<1>8. /\ aux[Survivor] = Survivor /\ aux[Absorbed] = Absorbed
  BY <1>1, <1>6, <1>7
<1>9. /\ \A c \in Orbit(Survivor) : aux[c] = Survivor
      /\ \A c \in Orbit(Absorbed) : aux[c] = Absorbed
      /\ Orbit(Survivor) \subseteq Cells /\ Orbit(Absorbed) \subseteq Cells
  BY <1>4, <1>6, <1>8 DEF Class
<1>10. Permutes' /\ OrbitsPartition'
  BY <1>1, <1>2 DEF IInv, Permutes, OrbitsPartition
<1>11. CyclesAreClasses' /\ SizesCountClasses' /\ Relabelled'
  BY <1>1 DEF CyclesAreClasses, SizesCountClasses, Relabelled, Settled
<1>12. Merging'
  <2>1. \/ left \in Orbit(Survivor) /\ right \in Orbit(Absorbed)
        \/ left \in Orbit(Absorbed) /\ right \in Orbit(Survivor)
    <3>1. left \in Orbit(aux[left]) /\ right \in Orbit(aux[right])
      BY <1>1, <1>3, <1>7, OrbitFacts
    <3> QED
      BY <3>1 DEF Survivor, Absorbed
  <2>2. Orbit(Survivor) \cap Orbit(Absorbed) = {}
    BY <1>6, <1>9
  <2>3. sizes'[Survivor] = Cardinality(Orbit(Survivor)) + Cardinality(Orbit(Absorbed))
    BY <1>1, <1>3, <1>5, <1>6, <1>8 DEF TypeOK
  <2>4. ASSUME NEW c \in Cells \ (Orbit(Survivor) \cup Orbit(Absorbed))
        PROVE  /\ aux[c] \in Orbit(c) /\ Class(c) = Orbit(c)
               /\ sizes'[aux[c]] = Cardinality(Orbit(c))
    <3>1. aux[c] # Survivor
      BY <1>3, <1>6, <1>7, OrbitFacts
    <3> QED
      BY <1>1, <1>3, <1>4, <1>5, <1>7, <3>1 DEF TypeOK
  <2> QED
    BY <1>1, <1>2, <1>9, <2>1, <2>2, <2>3, <2>4 DEF Merging
<1>13. Walking'
  <2>1. Walked' = {}
    BY <1>1, <1>2, <1>6, <1>9 DEF Walked
  <2>2. Absorbed \in Orbit(Absorbed)
    BY <1>3, <1>6, OrbitFacts
  <2> QED
    BY <1>1, <1>2, <1>8, <2>1, <2>2 DEF Walking
<1> QED
  BY <1>10, <1>11, <1>12, <1>13 DEF IInv

LEMMA WalkStep == ASSUME IInv, TypeOK', Walk PROVE IInv'
<1> DEFINE lc == left_cycle
           rc == right_cycle
<1>1. /\ pc = "walk" /\ mapping' = mapping /\ sizes' = sizes
      /\ left' = left /\ right' = right /\ left_cycle' = lc /\ right_cycle' = rc
      /\ aux' = [aux EXCEPT ![cursor] = lc] /\ cursor' = mapping[cursor]
      /\ pc' = IF mapping[cursor] = rc THEN "splice" ELSE "walk"
      /\ lc \in Cells /\ rc \in Cells /\ cursor \in Cells
      /\ aux \in [Cells -> Cells] /\ mapping \in [Cells -> Cells]
  BY DEF Walk, IInv, TypeOK
<1>2. \A c : Orbit(c)' = Orbit(c)
  BY <1>1 DEF Orbit
<1>3. TypeOK /\ Permutes /\ OrbitsPartition /\ Merging /\ Walking
  BY DEF IInv
<1>4. /\ cursor \in Orbit(rc) /\ aux[cursor] = rc
      /\ Orbit(lc) \cap Orbit(rc) = {}
      /\ \A c \in Orbit(rc) : aux[c] \in {lc, rc}
  BY <1>1, <1>3 DEF Merging, Walking
<1>5. /\ lc \in Orbit(lc) /\ rc \in Orbit(rc) /\ lc # rc
      /\ Orbit(rc) \subseteq Cells /\ mapping[cursor] \in Orbit(rc)
  BY <1>1, <1>3, <1>4, OrbitFacts
<1>6. Walked' = Walked \cup {cursor}
  BY <1>1, <1>2, <1>4, <1>5 DEF Walked
<1>7. cursor \notin Walked
  BY <1>4, <1>5 DEF Walked
<1>8. Permutes' /\ OrbitsPartition'
  BY <1>1, <1>2, <1>3 DEF Permutes, OrbitsPartition
<1>9. CyclesAreClasses' /\ SizesCountClasses'
  BY <1>1 DEF CyclesAreClasses, SizesCountClasses, Settled
<1>10. Merging'
  <2>1. \A c \in Cells \ (Orbit(lc) \cup Orbit(rc)) : c # cursor /\ aux'[c] = aux[c]
    BY <1>1, <1>4
  <2>2. /\ \A c \in Orbit(lc) : aux'[c] = lc
        /\ \A c \in Orbit(rc) : aux'[c] \in {lc, rc}
    <3>1. Orbit(lc) \subseteq Cells
      BY <1>1, <1>3, OrbitFacts
    <3> QED
      BY <1>1, <1>3, <1>4, <1>5, <3>1 DEF Merging
  <2>3. ASSUME NEW c \in Cells \ (Orbit(lc) \cup Orbit(rc))
        PROVE  aux'[c] \in Orbit(c) /\ Class(c)' = Orbit(c)
               /\ sizes[aux'[c]] = Cardinality(Orbit(c))
    <3>1. aux[c] \in Orbit(c) /\ Class(c) = Orbit(c) /\ sizes[aux[c]] = Cardinality(Orbit(c))
      BY <1>1, <1>3 DEF Merging
    <3>2. aux[c] # lc /\ aux[c] # rc
      BY <1>1, <1>3, <1>5, <3>1, OrbitFacts
    <3>3. Class(c)' = Class(c)
      BY <1>1, <1>4, <2>1, <3>2 DEF Class
    <3> QED
      BY <2>1, <3>1, <3>3
  <2> QED
    BY <1>1, <1>2, <1>3, <2>2, <2>3 DEF Merging
<1>11. CASE mapping[cursor] # rc
  <2>1. \A w \in (Walked \cup {cursor}) \ {rc} : \E v \in Walked : mapping[v] = w
    BY <1>1, <1>3, <1>4 DEF Walking
  <2>2. mapping[cursor] \notin Walked \cup {cursor}
    <3> SUFFICES ASSUME mapping[cursor] \in Walked \cup {cursor} PROVE FALSE
      OBVIOUS
    <3>1. PICK v \in Walked : mapping[v] = mapping[cursor]
      BY <1>11, <2>1
    <3>2. v \in Cells
      BY <1>5 DEF Walked
    <3> QED
      BY <1>1, <1>3, <1>7, <3>1, <3>2 DEF Permutes
  <2>3. aux'[mapping[cursor]] = rc
    <3>1. mapping[cursor] \in Orbit(rc) /\ mapping[cursor] \in Cells /\ mapping[cursor] # cursor
      BY <1>1, <1>5, <2>2
    <3>2. aux[mapping[cursor]] = rc
      BY <1>4, <2>2, <3>1 DEF Walked
    <3> QED
      BY <1>1, <3>1, <3>2
  <2>4. rc \in Walked \cup {cursor}
    BY <1>1, <1>3 DEF Walking
  <2>5. \A w \in Walked \cup {cursor} : mapping[w] \in (Walked \cup {cursor}) \cup {mapping[cursor]}
    BY <1>1, <1>3 DEF Walking
  <2>6. \A w \in ((Walked \cup {cursor}) \cup {mapping[cursor]}) \ {rc} :
           \E v \in Walked \cup {cursor} : mapping[v] = w
    BY <2>1
  <2>7. Walking'
    BY <1>1, <1>2, <1>5, <1>6, <2>3, <2>4, <2>5, <2>6 DEF Walking
  <2>8. Relabelled'
    BY <1>1, <1>11 DEF Relabelled
  <2> QED
    BY <1>8, <1>9, <1>10, <2>7, <2>8 DEF IInv
<1>12. CASE mapping[cursor] = rc
  <2>1. rc \in Walked \cup {cursor}
    BY <1>1, <1>3 DEF Walking
  <2>2. \A w \in Walked \cup {cursor} : mapping[w] \in Walked \cup {cursor}
    BY <1>1, <1>3, <1>12, <2>1 DEF Walking
  <2>3. Walked \cup {cursor} \in SUBSET Cells
    BY <1>1, <1>5 DEF Walked
  <2>4. Orbit(rc) \subseteq Walked \cup {cursor}
    <3>1. ClosedUnder(mapping, Walked \cup {cursor})
      BY <2>2 DEF ClosedUnder
    <3> QED
      BY <2>1, <2>3, <3>1, OrbitLeast DEF Orbit
  <2>5. Relabelled'
    BY <1>1, <1>2, <1>6, <2>4 DEF Relabelled, Walked
  <2>6. Walking'
    BY <1>1, <1>12 DEF Walking
  <2> QED
    BY <1>8, <1>9, <1>10, <2>5, <2>6 DEF IInv
<1> QED
  BY <1>11, <1>12

LEMMA SpliceStep == ASSUME IInv, TypeOK', Splice PROVE IInv'
<1> DEFINE lc == left_cycle
           rc == right_cycle
           L == Orbit(lc)
           R == Orbit(rc)
<1>1. /\ pc = "splice" /\ pc' = "idle" /\ aux' = aux /\ sizes' = sizes
      /\ mapping' = [mapping EXCEPT ![left] = mapping[right], ![right] = mapping[left]]
      /\ left \in Cells /\ right \in Cells /\ lc \in Cells /\ rc \in Cells
      /\ aux \in [Cells -> Cells] /\ mapping \in [Cells -> Cells]
  BY DEF Splice, Return, IInv, TypeOK
<1>2. TypeOK /\ Permutes /\ OrbitsPartition /\ Merging /\ Relabelled
  BY DEF IInv
<1>3. /\ \A c \in L \cup R : aux[c] = lc
      /\ lc \in L /\ L \cap R = {} /\ L \subseteq Cells /\ R \subseteq Cells
  BY <1>1, <1>2, OrbitFacts DEF Merging, Relabelled
<1>4. /\ {Orbit(left), Orbit(right)} = {L, R}
      /\ Orbit(left) \cap Orbit(right) = {}
  BY <1>1, <1>2 DEF Merging, OrbitsPartition
<1>5. ASSUME NEW c \in Cells
      PROVE  Orbit(c)' = IF c \in L \cup R THEN L \cup R ELSE Orbit(c)
  <2>1. Partitioned(mapping)
    BY <1>2 DEF Partitioned, OrbitsPartition, Orbit
  <2>2. OrbitOf(mapping', c) = IF c \in OrbitOf(mapping, left) \cup OrbitOf(mapping, right)
                               THEN OrbitOf(mapping, left) \cup OrbitOf(mapping, right)
                               ELSE OrbitOf(mapping, c)
    <3>1. OrbitOf(mapping, left) \cap OrbitOf(mapping, right) = {}
      BY <1>4 DEF Orbit
    <3>2. /\ mapping \in [Cells -> Cells] /\ left \in Cells /\ right \in Cells
          /\ mapping' = [mapping EXCEPT ![left] = mapping[right], ![right] = mapping[left]]
      BY <1>1
    <3> QED
      <4>1. left # right
        BY <1>1, <1>2, <3>1, OrbitBasics
      <4>2. /\ mapping' \in [Cells -> Cells]
            /\ mapping'[left] = mapping[right] /\ mapping'[right] = mapping[left]
            /\ \A d \in Cells \ {left, right} : mapping'[d] = mapping[d]
        BY <3>2, <4>1
      <4>3. PICK n : n = mapping'
        OBVIOUS
      <4>4. PICK m : m = mapping
        OBVIOUS
      <4>5. PICK l, r : l = left /\ r = right
        OBVIOUS
      <4>6. /\ m \in [Cells -> Cells] /\ n \in [Cells -> Cells] /\ l \in Cells /\ r \in Cells
            /\ n[l] = m[r] /\ n[r] = m[l]
            /\ \A d \in Cells \ {l, r} : n[d] = m[d]
            /\ Partitioned(m) /\ OrbitOf(m, l) \cap OrbitOf(m, r) = {}
        BY <2>1, <3>1, <3>2, <4>2, <4>3, <4>4, <4>5
      <4>7. OrbitOf(n, c) = IF c \in OrbitOf(m, l) \cup OrbitOf(m, r)
                            THEN OrbitOf(m, l) \cup OrbitOf(m, r)
                            ELSE OrbitOf(m, c)
        BY <4>6, SpliceJoins
      <4> QED
        BY <4>3, <4>4, <4>5, <4>7
  <2>3. Orbit(left) \cup Orbit(right) = L \cup R
    BY <1>4
  <2> QED
    BY <2>2, <2>3 DEF Orbit
<1>6. Permutes'
  BY <1>1, <1>2 DEF Permutes
<1>7. OrbitsPartition'
  <2>1. \A c, d \in Cells : d \in Orbit(c)' => Orbit(d)' = Orbit(c)'
    <3> SUFFICES ASSUME NEW c \in Cells, NEW d \in Cells, d \in Orbit(c)'
                 PROVE  Orbit(d)' = Orbit(c)'
      OBVIOUS
    <3>1. CASE c \in L \cup R
      BY <1>5, <3>1
    <3>2. CASE c \notin L \cup R
      <4>1. d \in Orbit(c) /\ Orbit(d) = Orbit(c) /\ c \in Orbit(d)
        BY <1>2, <1>5, <3>2, OrbitFacts DEF OrbitsPartition
      <4>2. d \notin L \cup R
        BY <1>1, <1>2, <3>2, <4>1 DEF OrbitsPartition
      <4> QED
        BY <1>5, <3>2, <4>1, <4>2
    <3> QED
      BY <3>1, <3>2
  <2> QED
    BY <2>1 DEF OrbitsPartition
<1>8. ASSUME NEW c \in Cells \ (L \cup R)
      PROVE  /\ aux[c] \in Orbit(c) /\ Class(c) = Orbit(c)
             /\ sizes[aux[c]] = Cardinality(Orbit(c)) /\ aux[c] # lc
  <2>1. /\ aux[c] \in Orbit(c) /\ Class(c) = Orbit(c)
        /\ sizes[aux[c]] = Cardinality(Orbit(c))
    BY <1>1, <1>2 DEF Merging
  <2>2. aux[c] # lc
    BY <1>1, <1>2, <1>8, <2>1, OrbitFacts
  <2> QED
    BY <2>1, <2>2
<1>9. \A c : Class(c)' = Class(c)
  BY <1>1 DEF Class
<1>10. CyclesAreClasses'
  <2>1. ASSUME NEW c \in L \cup R PROVE Class(c) = L \cup R /\ aux[c] \in L \cup R
    BY <1>3, <1>8 DEF Class
  <2>2. \A c \in Cells : Class(c)' = Orbit(c)' /\ aux'[c] \in Orbit(c)'
    <3> SUFFICES ASSUME NEW c \in Cells
                 PROVE  Class(c)' = Orbit(c)' /\ aux'[c] \in Orbit(c)'
      OBVIOUS
    <3>1. CASE c \in L \cup R
      BY <1>1, <1>5, <1>9, <2>1, <3>1
    <3>2. CASE c \notin L \cup R
      BY <1>1, <1>5, <1>8, <1>9, <3>2
    <3> QED
      BY <3>1, <3>2
  <2> QED
    BY <2>2 DEF CyclesAreClasses
<1>11. SizesCountClasses'
  <2>1. Cardinality(L \cup R) = Cardinality(L) + Cardinality(R)
    <3>1. IsFiniteSet(L) /\ IsFiniteSet(R)
      BY <1>3, CellsFinite, FS_Subset
    <3>2. /\ Cardinality(L \cup R) = Cardinality(L) + Cardinality(R) - Cardinality(L \cap R)
          /\ Cardinality(L) \in Nat /\ Cardinality(R) \in Nat
      BY <3>1, FS_Union, FS_CardinalityType
    <3>3. Cardinality(L \cap R) = 0
      BY <1>3, FS_EmptySet
    <3> QED
      BY <3>2, <3>3
  <2>2. sizes[lc] = Cardinality(L \cup R)
    BY <1>1, <1>2, <2>1 DEF Merging
  <2>3. \A c \in Cells : sizes'[aux'[c]] = Cardinality(Orbit(c)')
    BY <1>1, <1>3, <1>5, <1>8, <2>2
  <2> QED
    BY <2>3 DEF SizesCountClasses
<1>12. Merging' /\ Walking' /\ Relabelled'
  BY <1>1 DEF Merging, Walking, Relabelled
<1> QED
  BY <1>6, <1>7, <1>10, <1>11, <1>12 DEF IInv
-----------------------------------------------------------------------------
LEMMA NextInvariant == IInv /\ [Next]_vars => IInv'
<1> SUFFICES ASSUME IInv, [Next]_vars PROVE IInv'
  OBVIOUS
<1>0. TypeOK'
  BY TypeStep DEF IInv
<1>1. ASSUME NEW l \in Refs, NEW r \in Refs, Call(l, r) PROVE IInv'
  BY <1>0, <1>1, SettledStep DEF Call, Settled
<1>2. CASE RefuseColumn
  BY <1>0, <1>2, SettledStep DEF RefuseColumn, Return, Settled
<1>3. CASE RefuseBounds
  BY <1>0, <1>3, SettledStep DEF RefuseBounds, Return, Settled
<1>4. CASE AlreadyEqual
  BY <1>0, <1>4, SettledStep DEF AlreadyEqual, Return, Settled
<1>5. CASE Start
  BY <1>0, <1>5, StartStep
<1>6. CASE Walk
  BY <1>0, <1>6, WalkStep
<1>7. CASE Splice
  BY <1>0, <1>7, SpliceStep
<1>8. CASE UNCHANGED vars
  <2>1. \A c : Orbit(c)' = Orbit(c) /\ Class(c)' = Class(c)
    BY <1>8 DEF vars, Orbit, Class
  <2>2. Walked' = Walked
    BY <1>8, <2>1 DEF vars, Walked
  <2>3. Permutes' /\ OrbitsPartition'
    BY <1>8, <2>1 DEF vars, IInv, Permutes, OrbitsPartition
  <2>4. CyclesAreClasses' /\ SizesCountClasses'
    BY <1>8, <2>1 DEF vars, IInv, CyclesAreClasses, SizesCountClasses, Settled
  <2>5. Merging' /\ Walking' /\ Relabelled'
    BY <1>8, <2>1, <2>2 DEF vars, IInv, Merging, Walking, Relabelled
  <2> QED
    BY <1>0, <2>3, <2>4, <2>5 DEF IInv
<1> QED
  BY <1>1, <1>2, <1>3, <1>4, <1>5, <1>6, <1>7, <1>8 DEF Next, Step

LEMMA Inductive == Spec => []IInv
  BY InitInvariant, NextInvariant, PTL DEF Spec

(***************************************************************************)
(* Between any two calls, for any columns and rows and any sequence of     *)
(* copies, the cells with a common label are exactly those of one cycle.   *)
(***************************************************************************)
THEOREM LabelsAgreeWithCycles == Spec => []CyclesAreClasses
<1>1. IInv => CyclesAreClasses
  BY DEF IInv
<1> QED
  BY <1>1, Inductive, PTL

(* Likewise the size kept at a representative counts its class.            *)
THEOREM SizesAreCounts == Spec => []SizesCountClasses
<1>1. IInv => SizesCountClasses
  BY DEF IInv
<1> QED
  BY <1>1, Inductive, PTL
-----------------------------------------------------------------------------
(* The refinement mapping's relation, and when two of its pairs are in it. *)
EqualPairs == {p \in Cells \X Cells : p[2] \in Orbit(p[1])}

LEMMA EqualPairsDef ==
  ASSUME NEW a \in Cells, NEW b \in Cells
  PROVE  <<a, b>> \in EqualPairs <=> b \in Orbit(a)
  BY DEF EqualPairs

LEMMA RefineInit == Init => Abstract!Init
<1> SUFFICES ASSUME Init PROVE Abstract!Init
  OBVIOUS
<1>1. \A c \in Cells : Orbit(c) = {c}
  BY OrbitOfIdentity DEF Init, Orbit
<1>2. {p \in Cells \X Cells : p[2] \in Orbit(p[1])} = {<<c, c>> : c \in Cells}
  BY <1>1
<1> QED
  BY <1>2 DEF Init, Abstract!Init

LEMMA RefineGrant ==
  ASSUME TypeOK, pc # "idle", left \in Cells, right \in Cells,
         pc' = "idle", answer' = "Ok",
         \A c \in Cells : Orbit(c) \subseteq Cells /\ Orbit(c)' \subseteq Cells,
         \A c, d \in Cells : d \in Orbit(c)' <=>
             \/ d \in Orbit(c)
             \/ left \in Orbit(c) /\ right \in Orbit(d)
             \/ right \in Orbit(c) /\ left \in Orbit(d)
  PROVE  Abstract!Grant
<1> DEFINE merged == {p \in Cells \X Cells :
                        \/ <<p[1], left>> \in EqualPairs /\ <<p[2], right>> \in EqualPairs
                        \/ <<p[1], right>> \in EqualPairs /\ <<p[2], left>> \in EqualPairs}
<1>1. EqualPairs' = EqualPairs \cup merged
  <2>1. ASSUME NEW a \in Cells, NEW b \in Cells
        PROVE  <<a, b>> \in EqualPairs' <=> <<a, b>> \in EqualPairs \cup merged
    <3>1. <<a, b>> \in EqualPairs' <=> b \in Orbit(a)'
      BY DEF EqualPairs
    <3>2. <<a, b>> \in merged <=> \/ left \in Orbit(a) /\ right \in Orbit(b)
                                  \/ right \in Orbit(a) /\ left \in Orbit(b)
      BY EqualPairsDef
    <3> QED
      BY <3>1, <3>2, EqualPairsDef
  <2>2. EqualPairs' \subseteq Cells \X Cells /\ EqualPairs \cup merged \subseteq Cells \X Cells
    BY DEF EqualPairs
  <2> QED
    BY <2>1, <2>2
<1> QED
  BY <1>1 DEF Abstract!Grant, EqualPairs

LEMMA RefineRefuse ==
  ASSUME pc # "idle", ~(left \in Cells /\ right \in Cells),
         pc' = "idle", answer' \notin {"none", "Ok"}, UNCHANGED mapping
  PROVE  Abstract!Refuse
<1>1. \A c : Orbit(c)' = Orbit(c)
  BY DEF Orbit
<1> QED
  BY <1>1 DEF Abstract!Refuse

LEMMA RefineStutter ==
  ASSUME UNCHANGED mapping, UNCHANGED <<left, right, answer>>, pc # "idle", pc' # "idle"
  PROVE  UNCHANGED Abstract!vars
<1>1. \A c : Orbit(c)' = Orbit(c)
  BY DEF Orbit
<1> QED
  BY <1>1 DEF Abstract!vars

LEMMA RefineAlreadyEqual == ASSUME IInv, IInv', AlreadyEqual PROVE Abstract!Grant
<1>1. /\ pc = "lookup" /\ pc' = "idle" /\ answer' = "Ok" /\ mapping' = mapping
      /\ left \in Cells /\ right \in Cells /\ aux[left] = aux[right]
  BY AcceptedRefs DEF AlreadyEqual, Accepted, Return, assembly, IInv, TypeOK
<1>2. \A c : Orbit(c)' = Orbit(c)
  BY <1>1 DEF Orbit
<1>3. TypeOK /\ OrbitsPartition /\ CyclesAreClasses
  BY DEF IInv
<1>4. right \in Orbit(left)
  BY <1>1, <1>3 DEF CyclesAreClasses, Settled, Class
<1>5. Orbit(right) = Orbit(left)
  BY <1>1, <1>3, <1>4 DEF OrbitsPartition
<1>6. \A c, d \in Cells :
         (left \in Orbit(c) /\ right \in Orbit(d)) \/ (right \in Orbit(c) /\ left \in Orbit(d))
         => d \in Orbit(c)
  BY <1>1, <1>3, <1>5, OrbitFacts DEF OrbitsPartition
<1>7. \A c \in Cells : Orbit(c) \subseteq Cells
  BY <1>3, OrbitFacts
<1> QED
  BY <1>1, <1>2, <1>3, <1>6, <1>7, RefineGrant

LEMMA RefineSplice == ASSUME IInv, IInv', Splice PROVE Abstract!Grant
<1> DEFINE L == Orbit(left_cycle)
           R == Orbit(right_cycle)
<1>1. /\ pc = "splice" /\ pc' = "idle" /\ answer' = "Ok" /\ aux' = aux
      /\ left \in Cells /\ right \in Cells
      /\ left_cycle \in Cells /\ right_cycle \in Cells
  BY DEF Splice, Return, IInv, TypeOK
<1>2. TypeOK /\ OrbitsPartition /\ Merging /\ Relabelled
  BY DEF IInv
<1>3. TypeOK' /\ OrbitsPartition' /\ CyclesAreClasses'
  BY DEF IInv
<1>4. \A c \in Cells : Orbit(c)' = Class(c) /\ Orbit(c)' \subseteq Cells
  BY <1>1, <1>3 DEF CyclesAreClasses, Settled, Class
<1>5. /\ \A c \in L \cup R : aux[c] = left_cycle
      /\ left_cycle \in L /\ L \cap R = {} /\ L \subseteq Cells /\ R \subseteq Cells
      /\ \A c \in Cells : c \in Orbit(c) /\ Orbit(c) \subseteq Cells
  BY <1>1, <1>2, OrbitFacts DEF Merging, Relabelled
<1>6. ASSUME NEW c \in Cells \ (L \cup R)
      PROVE  Class(c) = Orbit(c) /\ aux[c] # left_cycle
  <2>1. Class(c) = Orbit(c) /\ aux[c] \in Orbit(c)
    BY <1>1, <1>2 DEF Merging
  <2> QED
    BY <1>1, <1>2, <1>6, <2>1, OrbitFacts
<1>7. \A c \in L \cup R : Class(c) = L \cup R
  BY <1>5, <1>6 DEF Class
<1>8. \/ Orbit(left) = L /\ Orbit(right) = R
      \/ Orbit(left) = R /\ Orbit(right) = L
  BY <1>1, <1>2 DEF Merging, OrbitsPartition
<1>9. ASSUME NEW c \in Cells
      PROVE  /\ left \in Orbit(c) <=> c \in Orbit(left)
             /\ right \in Orbit(c) <=> c \in Orbit(right)
  BY <1>1, <1>2, <1>5 DEF OrbitsPartition
<1>10. ASSUME NEW c \in Cells, NEW d \in Cells
       PROVE  d \in Class(c) <=>
                \/ d \in Orbit(c)
                \/ left \in Orbit(c) /\ right \in Orbit(d)
                \/ right \in Orbit(c) /\ left \in Orbit(d)
  <2>1. CASE c \notin L \cup R
    BY <1>6, <1>8, <1>9, <2>1
  <2>2. CASE c \in L \cup R
    <3>1. (c \in L => Orbit(c) = L) /\ (c \in R => Orbit(c) = R)
      BY <1>1, <1>2 DEF OrbitsPartition
    <3> QED
      BY <1>5, <1>7, <1>8, <1>9, <2>2, <3>1
  <2> QED
    BY <2>1, <2>2
<1> QED
  BY <1>1, <1>2, <1>4, <1>5, <1>10, RefineGrant

LEMMA RefineNext == IInv /\ IInv' /\ [Next]_vars => [Abstract!Next]_(Abstract!vars)
<1> SUFFICES ASSUME IInv, IInv', [Next]_vars
             PROVE  Abstract!Next \/ UNCHANGED Abstract!vars
  BY DEF Abstract!vars
<1>0. TypeOK
  BY DEF IInv
<1>1. ASSUME NEW l \in Refs, NEW r \in Refs, Call(l, r) PROVE Abstract!Invoke(l, r)
  <2>1. \A c : Orbit(c)' = Orbit(c)
    BY <1>1 DEF Call, assembly, Orbit
  <2> QED
    BY <1>1, <2>1 DEF Call, Abstract!Invoke
<1>2. CASE RefuseColumn
  <2>1. ~(left \in Cells /\ right \in Cells)
    BY <1>0, <1>2, AcceptedRefs DEF RefuseColumn, TypeOK
  <2> QED
    BY <1>2, <2>1, RefineRefuse DEF RefuseColumn, Return, assembly, Abstract!Next
<1>3. CASE RefuseBounds
  <2>1. ~(left \in Cells /\ right \in Cells)
    BY <1>0, <1>3, AcceptedRefs DEF RefuseBounds, TypeOK
  <2> QED
    BY <1>3, <2>1, RefineRefuse DEF RefuseBounds, Return, assembly, Abstract!Next
<1>4. CASE AlreadyEqual
  BY <1>4, RefineAlreadyEqual DEF Abstract!Next
<1>5. CASE Start
  BY <1>5, RefineStutter DEF Start
<1>6. CASE Walk
  BY <1>6, RefineStutter DEF Walk
<1>7. CASE Splice
  BY <1>7, RefineSplice DEF Abstract!Next
<1>8. CASE UNCHANGED vars
  <2>1. \A c : Orbit(c)' = Orbit(c)
    BY <1>8 DEF vars, Orbit
  <2> QED
    BY <1>8, <2>1 DEF vars, Abstract!vars
<1> QED
  BY <1>1, <1>2, <1>3, <1>4, <1>5, <1>6, <1>7, <1>8 DEF Next, Step, Abstract!Next

(***************************************************************************)
(* The builder implements the partition: copy merges exactly the classes   *)
(* of the two cells it is given, at the step that ends an accepted call,   *)
(* and nothing else ever changes which cells are equal.                    *)
(***************************************************************************)
THEOREM AssemblyImplementsClasses == Spec => ImplementsEqualityClasses
<1>1. Spec => []IInv
  BY Inductive
<1>2. Spec => [][Abstract!Next]_(Abstract!vars)
  BY <1>1, RefineNext, PTL DEF Spec
<1>3. Spec => Abstract!Init
  BY RefineInit DEF Spec
<1> QED
  BY <1>2, <1>3, PTL DEF ImplementsEqualityClasses, Abstract!Spec

-----------------------------------------------------------------------------
(* Relabelling: the smaller cycle is relabelled, and ends in one at least  *)
(* twice as long.                                                          *)
LEMMA LengthsOfOrbits ==
  ASSUME TypeOK, OrbitsPartition, NEW c \in Cells
  PROVE  Cardinality(Orbit(c)) \in Nat /\ Cardinality(Orbit(c)) >= 1
<1>1. Orbit(c) \subseteq Cells /\ c \in Orbit(c)
  BY OrbitFacts
<1> DEFINE S == Orbit(c)
<1>2. IsFiniteSet(S) /\ S # {}
  BY <1>1, CellsFinite, FS_Subset
<1> HIDE DEF S
<1>3. Cardinality(S) \in Nat /\ Cardinality(S) # 0
  BY <1>2, FS_CardinalityType, FS_EmptySet
<1> QED
  BY <1>3 DEF S

LEMMA RelabelsInit == ASSUME Init PROVE RelabelsBounded
<1>1. \A c \in Cells : mapping[c] = c /\ relabels[c] = 0
  BY DEF Init
<1>2. \A c \in Cells : Orbit(c) = {c}
  BY <1>1, OrbitOfIdentity DEF Orbit
<1>3. \A c : Cardinality({c}) = 1
  BY FS_Singleton
<1>4. Pow2[0] = 1
  BY Pow2Defined
<1>5. \A c \in Cells : Pow2[relabels[c]] <= Cardinality(Orbit(c))
  <2> SUFFICES ASSUME NEW c \in Cells PROVE Pow2[relabels[c]] <= Cardinality(Orbit(c))
    OBVIOUS
  <2>1. relabels[c] = 0 /\ Orbit(c) = {c}
    BY <1>1, <1>2
  <2>2. Pow2[relabels[c]] = 1
    BY <2>1, <1>4
  <2>3. Cardinality(Orbit(c)) = 1
    BY <2>1, <1>3
  <2> QED
    BY <2>2, <2>3
<1> QED
  BY <1>5 DEF Init, RelabelsBounded, RelabelsLogarithmic

LEMMA RelabelsSettled ==
  ASSUME RelabelsBounded, Settled, Settled', UNCHANGED <<mapping, relabels>>
  PROVE  RelabelsBounded'
<1>1. \A c : Orbit(c)' = Orbit(c)
  BY DEF Orbit
<1> QED
  BY <1>1 DEF RelabelsBounded, RelabelsLogarithmic, Settled

LEMMA RelabelsStart == ASSUME IInv, IInv', RelabelsBounded, Start PROVE RelabelsBounded'
<1>1. /\ pc = "lookup" /\ pc' = "walk" /\ Settled /\ left \in Cells /\ right \in Cells
      /\ mapping' = mapping /\ aux' = aux /\ relabels' = relabels
      /\ left_cycle' = Survivor /\ right_cycle' = Absorbed
  BY AcceptedRefs DEF Start, Accepted, Settled, IInv, TypeOK
<1>2. \A c : Orbit(c)' = Orbit(c)
  BY <1>1 DEF Orbit
<1>3. /\ TypeOK /\ OrbitsPartition
      /\ \A c \in Cells : /\ sizes[aux[c]] = Cardinality(Orbit(c)) /\ aux[c] \in Cells
                          /\ aux[c] \in Orbit(c) /\ Pow2[relabels[c]] <= Cardinality(Orbit(c))
  BY <1>1 DEF IInv, CyclesAreClasses, SizesCountClasses, RelabelsBounded, RelabelsLogarithmic,
              TypeOK
<1>4. /\ Orbit(aux[left]) = Orbit(left) /\ Orbit(aux[right]) = Orbit(right)
  BY <1>1, <1>3 DEF OrbitsPartition
<1>5. Cardinality(Orbit(left)) \in Nat /\ Cardinality(Orbit(right)) \in Nat
  BY <1>1, <1>3, LengthsOfOrbits
<1>6. Cardinality(Orbit(Absorbed)) <= Cardinality(Orbit(Survivor))
  <2>1. /\ sizes[aux[left]] = Cardinality(Orbit(left))
        /\ sizes[aux[right]] = Cardinality(Orbit(right))
    BY <1>1, <1>3
  <2> QED
    BY <1>4, <1>5, <2>1 DEF Absorbed, Survivor, SwapSides
<1>7. Walked' = {}
  <2>1. /\ right_cycle' \in Cells /\ \A c \in Orbit(right_cycle)' : aux'[c] = right_cycle'
    <3>1. Absorbed \in Cells /\ aux[Absorbed] = Absorbed /\ Class(Absorbed) = Orbit(Absorbed)
      BY <1>1, <1>3 DEF IInv, CyclesAreClasses, Absorbed, Class
    <3> QED
      BY <1>1, <1>2, <3>1 DEF Class
  <2>2. left_cycle' # right_cycle'
    BY <1>1 DEF Start, Survivor, Absorbed
  <2> QED
    BY <1>1, <1>2, <2>1, <2>2 DEF Walked
<1>8. \A c \in Cells : Pow2[relabels'[c]] <= Cardinality(Orbit(c)')
  BY <1>1, <1>2, <1>3
<1> QED
  BY <1>1, <1>2, <1>6, <1>7, <1>8 DEF RelabelsBounded, RelabelsLogarithmic, Settled

LEMMA RelabelsWalk == ASSUME IInv, IInv', RelabelsBounded, Walk PROVE RelabelsBounded'
<1> DEFINE lc == left_cycle
           rc == right_cycle
           n == Cardinality(Orbit(rc))
<1>1. /\ pc = "walk" /\ mapping' = mapping /\ left_cycle' = lc /\ right_cycle' = rc
      /\ aux' = [aux EXCEPT ![cursor] = lc] /\ relabels' = [relabels EXCEPT ![cursor] = @ + 1]
      /\ pc' \in {"walk", "splice"} /\ lc \in Cells /\ rc \in Cells /\ cursor \in Cells
      /\ aux \in [Cells -> Cells] /\ relabels \in [Cells -> Nat]
      /\ TypeOK /\ OrbitsPartition
  BY DEF Walk, IInv, TypeOK
<1>2. \A c : Orbit(c)' = Orbit(c)
  BY <1>1 DEF Orbit
<1>3. /\ cursor \in Orbit(rc) /\ aux[cursor] = rc /\ Orbit(lc) \cap Orbit(rc) = {}
  BY <1>1 DEF IInv, Merging, Walking
<1>4. lc \in Orbit(lc) /\ rc \in Orbit(rc) /\ lc # rc /\ Orbit(rc) \subseteq Cells
  BY <1>1, <1>3, OrbitFacts
<1>5. Walked' = Walked \cup {cursor} /\ cursor \notin Walked /\ Walked \subseteq Cells
  BY <1>1, <1>2, <1>3, <1>4 DEF Walked
<1>6. /\ n <= Cardinality(Orbit(lc))
      /\ \A c \in Cells \ Walked : Pow2[relabels[c]] <= Cardinality(Orbit(c))
      /\ \A c \in Walked : Pow2[relabels[c]] <= 2 * n
  BY <1>1 DEF RelabelsBounded
<1>7. Pow2[relabels'[cursor]] <= 2 * n
  <2>1. Orbit(cursor) = Orbit(rc)
    BY <1>1, <1>3 DEF OrbitsPartition
  <2>2. Pow2[relabels[cursor]] <= n
    BY <1>1, <1>5, <1>6, <2>1
  <2>3. relabels[cursor] \in Nat /\ relabels'[cursor] = relabels[cursor] + 1
    BY <1>1
  <2>4. Pow2[relabels'[cursor]] = 2 * Pow2[relabels[cursor]] /\ Pow2[relabels[cursor]] \in Nat
    BY <2>3, Pow2Defined
  <2>5. n \in Nat
    BY <1>1, LengthsOfOrbits
  <2> HIDE DEF n
  <2> QED
    BY <2>2, <2>4, <2>5
<1>8. \A c \in Cells \ {cursor} : relabels'[c] = relabels[c]
  BY <1>1
<1>9. \A c \in Cells \ Walked' : Pow2[relabels'[c]] <= Cardinality(Orbit(c)')
  BY <1>2, <1>5, <1>6, <1>8
<1>10. \A c \in Walked' : Pow2[relabels'[c]] <= 2 * n
  BY <1>5, <1>6, <1>7, <1>8
<1> QED
  BY <1>1, <1>2, <1>6, <1>9, <1>10 DEF RelabelsBounded, RelabelsLogarithmic, Settled

LEMMA RelabelsSplice == ASSUME IInv, IInv', RelabelsBounded, Splice PROVE RelabelsBounded'
<1> DEFINE lc == left_cycle
           rc == right_cycle
           n == Cardinality(Orbit(rc))
           m == Cardinality(Orbit(lc))
<1>1. /\ pc = "splice" /\ pc' = "idle" /\ aux' = aux /\ sizes' = sizes /\ relabels' = relabels
      /\ lc \in Cells /\ rc \in Cells /\ TypeOK /\ OrbitsPartition /\ relabels \in [Cells -> Nat]
  BY DEF Splice, Return, IInv, TypeOK
<1>2. \A c \in Cells : sizes[aux[c]] = Cardinality(Orbit(c)')
  BY <1>1 DEF IInv, SizesCountClasses, Settled
<1>3. /\ n <= m
      /\ \A c \in Cells \ Walked : Pow2[relabels[c]] <= Cardinality(Orbit(c))
      /\ \A c \in Walked : Pow2[relabels[c]] <= 2 * n
  BY <1>1 DEF RelabelsBounded
<1>4. /\ sizes[lc] = m + n
      /\ \A c \in Orbit(lc) \cup Orbit(rc) : aux[c] = lc
      /\ Orbit(lc) \cap Orbit(rc) = {}
      /\ \A c \in Cells \ (Orbit(lc) \cup Orbit(rc)) : sizes[aux[c]] = Cardinality(Orbit(c))
  BY <1>1 DEF IInv, Merging, Relabelled
<1>5. m \in Nat /\ n \in Nat
  BY <1>1, LengthsOfOrbits
<1>6. \A c \in Cells : Pow2[relabels[c]] \in Nat
  BY <1>1, Pow2Defined
<1>7. ASSUME NEW c \in Cells
      PROVE  Pow2[relabels[c]] <= Cardinality(Orbit(c)')
  <2>1. CASE c \in Orbit(rc)
    <3>1. Pow2[relabels[c]] <= 2 * n /\ Cardinality(Orbit(c)') = m + n
      BY <1>2, <1>3, <1>4, <2>1 DEF Walked
    <3> HIDE DEF m, n
    <3> QED
      BY <1>3, <1>5, <1>6, <3>1
  <2>2. CASE c \in Orbit(lc)
    <3>1. c \notin Walked /\ Orbit(c) = Orbit(lc)
      BY <1>1, <1>4, <2>2 DEF Walked, OrbitsPartition
    <3>2. Pow2[relabels[c]] <= m /\ Cardinality(Orbit(c)') = m + n
      BY <1>2, <1>3, <1>4, <2>2, <3>1
    <3> HIDE DEF m, n
    <3> QED
      BY <1>5, <1>6, <3>2
  <2>3. CASE c \notin Orbit(lc) \cup Orbit(rc)
    BY <1>2, <1>3, <1>4, <2>3 DEF Walked
  <2> QED
    BY <2>1, <2>2, <2>3
<1> QED
  BY <1>1, <1>7 DEF RelabelsBounded, RelabelsLogarithmic

LEMMA RelabelsNext == ASSUME IInv, IInv', RelabelsBounded, [Next]_vars PROVE RelabelsBounded'
<1>1. ASSUME NEW l \in Refs, NEW r \in Refs, Call(l, r) PROVE RelabelsBounded'
  BY <1>1, RelabelsSettled DEF Call, Settled, assembly
<1>2. CASE RefuseColumn \/ RefuseBounds \/ AlreadyEqual
  BY <1>2, RelabelsSettled DEF RefuseColumn, RefuseBounds, AlreadyEqual, Return, Settled, assembly
<1>3. CASE Start
  BY <1>3, RelabelsStart
<1>4. CASE Walk
  BY <1>4, RelabelsWalk
<1>5. CASE Splice
  BY <1>5, RelabelsSplice
<1>6. CASE UNCHANGED vars
  BY <1>6 DEF vars, RelabelsBounded, RelabelsLogarithmic, Settled, Walked, Orbit
<1> QED
  BY <1>1, <1>2, <1>3, <1>4, <1>5, <1>6 DEF Next, Step

(***************************************************************************)
(* Whatever the order of the copies, a cell relabelled k times is in a     *)
(* class of at least 2^k cells: copy relabels the smaller cycle, by sizes  *)
(* it keeps at representatives only (permutation/keygen.rs, copy).         *)
(***************************************************************************)
THEOREM RelabellingIsLogarithmic == Spec => []RelabelsLogarithmic
<1>1. Init => RelabelsBounded
  BY RelabelsInit
<1>2. IInv /\ IInv' /\ RelabelsBounded /\ [Next]_vars => RelabelsBounded'
  BY RelabelsNext
<1>3. RelabelsBounded => RelabelsLogarithmic
  BY DEF RelabelsBounded
<1> QED
  BY <1>1, <1>2, <1>3, Inductive, PTL DEF Spec
-----------------------------------------------------------------------------
Rgn(j)   == concrete.regions[j]
Total    == Len(concrete.regions)

(* Where a cell of region j lies.                                          *)
Place(starts, j, cell) == <<cell[1], starts[j] + cell[2]>>

(* No two cells of regions lie on one another.                             *)
Apart(starts) ==
    \A j, m \in 1 .. Len(starts) : \A a \in Rgn(j).cells, b \in Rgn(m).cells :
        Place(starts, j, a) = Place(starts, m, b) => j = m /\ a = b

(* The marks of the layouter are below everything that was laid out.       *)
Below(starts, marks) ==
    \A j \in 1 .. Len(starts) : \A cell \in Rgn(j).cells : starts[j] + cell[2] < marks[cell[1]]

(* What regions assigned to some columns is there.                         *)
Kept(starts, values, cols) ==
    \A j \in 1 .. Len(starts) : \A cell \in CellsOf(Rgn(j), cols) :
        /\ Place(starts, j, cell) \in DOMAIN values
        /\ values[Place(starts, j, cell)] = <<j, cell[1], cell[2]>>

(* Constants are bound, by cells above the mark of their column.           *)
BoundAt(starts, t, const, row) ==
    /\ << <<ConstantsColumn, row>>, At(starts, const.cell)>> \in t.copies
    /\ <<ConstantsColumn, row>> \in DOMAIN t.fixed
    /\ t.fixed[<<ConstantsColumn, row>>] = const.value
Bound(starts, marks, t) ==
    \A j \in 1 .. Len(starts) : \A k \in DOMAIN Rgn(j).constants :
        /\ concrete.constants # << >>
        /\ \E row \in Nat : /\ row < marks[ConstantsColumn]
                            /\ BoundAt(starts, t, Rgn(j).constants[k], row)

(* A mark, and a start, is where a region or a constant of its column ends.*)
EndsAt(starts, t, c, m, row) ==
    \/ \E u \in 1 .. m : c \in ColumnsOf(Rgn(u)) /\ starts[u] + RowCount(Rgn(u)) = row
    \/ \E p \in t.copies : p[1] = <<c, row - 1>>
Packed(starts, t) ==
    \A j \in 1 .. Len(starts) : starts[j] # 0 =>
        \E c \in ColumnsOf(Rgn(j)) : EndsAt(starts, t, c, j - 1, starts[j])
MarksPacked(starts, marks, t) ==
    \A c \in RegionColumns : marks[c] # 0 => EndsAt(starts, t, c, Len(starts), marks[c])

(* Copies and selectors are there, and copies end in cells of regions.     *)
CopiesKept(starts, t) ==
    \A j \in 1 .. Len(starts) :
        /\ \A e \in Rgn(j).equal : <<At(starts, e[1]), At(starts, e[2])>> \in t.copies
        /\ Placed(starts[j], CellsOf(Rgn(j), Selectors)) \subseteq t.enabled
IsAssigned(starts, cell) ==
    \E j \in 1 .. Len(starts) : \E a \in CellsOf(Rgn(j), Advice) : cell = Place(starts, j, a)
EndsAssigned(starts, t) ==
    \A p \in t.copies : \A cell \in {p[1], p[2]} : cell[1] \in Advice => IsAssigned(starts, cell)

(* The layout a keygen pass goes through is a function of the circuit: the *)
(* region after next from the one before, whatever the pass.               *)
StartIn(marks, r) == CHOOSE n \in {0} \cup {marks[c] : c \in ColumnsOf(r)} :
                        \A c \in ColumnsOf(r) : marks[c] <= n
AdvanceIn(marks, r, start) == [c \in RegionColumns |->
    IF c \in ColumnsOf(r) THEN start + RowCount(r) ELSE marks[c]]
RecordIn(t, j, starts, marks, r) ==
    [t EXCEPT
        !.fixed = Overwrite(
            IF r.constants = << >> THEN NothingAssigned ELSE ConstantCells(marks, r),
            Overwrite(Assigned(j, starts[j], CellsOf(r, Fixed)), @)),
        !.enabled = @ \cup Placed(starts[j], CellsOf(r, Selectors)),
        !.copies = @ \cup EqualCopies(starts, r) \cup
            IF r.constants = << >> THEN {} ELSE ConstantCopies(starts, marks, r)]
LayIn(l, j) ==
    LET r      == Rgn(j)
        start  == StartIn(l.marks, r)
        marks  == AdvanceIn(l.marks, r, start)
        starts == Append(l.starts, start)
    IN  [starts |-> starts, marks |-> TakeConstantRows(marks, r),
         table  |-> RecordIn(l.table, j, starts, marks, r)]

FirstLayout == [starts |-> << >>, marks |-> [c \in RegionColumns |-> 0], table |-> EmptyTable]
IsHistory(h, n)    == h[0] = FirstLayout /\ \A u \in 1 .. n : h[u] = LayIn(h[u - 1], u)
LaidOut(layout, n) == \E h : IsHistory(h, n) /\ h[n] = layout

(* What a keygen pass knows of what it has laid out, and what the keys know*)
(* of the starts that the proving key keeps.                               *)
KeygenInv ==
    /\ Below(regions, columns)
    /\ Kept(regions, table.fixed, Fixed)
    /\ Bound(regions, columns, table)
    /\ Packed(regions, table) /\ MarksPacked(regions, columns, table)
    /\ CopiesKept(regions, table)
    /\ EndsAssigned(regions, table)
    /\ LaidOut([starts |-> regions, marks |-> columns, table |-> table], Len(regions))
VkLaidOut == \E starts, marks : LaidOut([starts |-> starts, marks |-> marks, table |-> vk], Total)
KeyInv(starts, t) ==
    /\ starts \in Seq(Nat) /\ Len(starts) = Total
    /\ Apart(starts)
    /\ \E marks : Bound(starts, marks, t)
    /\ CopiesKept(starts, t)
    /\ EndsAssigned(starts, t)
ProverInv ==
    /\ KeyInv(pk.region_starts, pk.table) /\ vk = pk.table
    /\ \A j \in 1 .. Len(regions) : regions[j] = pk.region_starts[j]
    /\ Kept(regions, table.advice, Advice)

Layouter == /\ concrete \in ConcreteCircuits
            /\ regions \in Seq(Nat) /\ Len(regions) <= Total
            /\ columns \in [RegionColumns -> Nat]
IsTable(t) == t = [fixed |-> t.fixed, enabled |-> t.enabled, copies |-> t.copies, advice |-> t.advice]

(* The inductive invariant.                                                *)
SynthesisInv ==
    /\ Layouter /\ IsTable(table) /\ region_sink \in Seq(Nat)
    /\ pass \in {"keygen_vk", "keygen_pk", "prove", "done", "failed"}
    /\ pass = "failed" <=> error # "none"
    /\ Apart(regions)
    /\ InKeygen => KeygenInv
    /\ pass = "keygen_pk" => region_sink = regions /\ VkLaidOut
    /\ pass \in {"prove", "done"} => ProverInv
    /\ pass = "done" => Len(regions) = Total
-----------------------------------------------------------------------------
(* Operators.                                                              *)

(* A finite family of numbers has a greatest.                              *)
LEMMA FiniteMaximum ==
  ASSUME NEW S, IsFiniteSet(S), NEW f, \A x \in S : f[x] \in Nat
  PROVE  \E m \in {0} \cup {f[x] : x \in S} : \A x \in S : f[x] <= m
  <1> DEFINE Values == {0} \cup {f[x] : x \in S}
  <1>0. PICK n \in Nat : ExistsSurjection(1 .. n, S)
    BY FS_NatSurjection
  <1>1. PICK g \in [1 .. n -> S] : \A x \in S : \E u \in 1 .. n : g[u] = x
    BY <1>0 DEF ExistsSurjection, Surjection
  <1> DEFINE HasMaximum(k) == \E m \in Values : \A u \in 1 .. k : f[g[u]] <= m
             Bad == {k \in 0 .. n : ~HasMaximum(k)}
  <1>2. ASSUME Bad # {}
        PROVE  FALSE
    <2>1. Bad \subseteq Nat
      BY <1>0
    <2>2. PICK k \in Bad : \A y \in Bad : ~ (<<y, k>> \in OpToRel(<, Nat))
      BY <1>2, <2>1, WFMin, NatLessThanWellFounded
    <2>3. k \in 0 .. n /\ ~HasMaximum(k)
      BY <2>2
    <2>4. \A y \in Bad : ~ (y < k)
      BY <2>1, <2>2 DEF OpToRel
    <2>5. k # 0
      <3>1. HasMaximum(0)
        <4>1. 0 \in Values /\ \A u \in 1 .. 0 : f[g[u]] <= 0
          OBVIOUS
        <4> QED
          BY <4>1
      <3> QED
        BY <2>3, <3>1
    <2>6. k - 1 \in 0 .. n /\ k - 1 < k /\ k \in 1 .. n
      BY <2>3, <2>5
    <2>7. HasMaximum(k - 1)
      BY <2>4, <2>6
    <2>8. PICK m \in Values : \A u \in 1 .. k - 1 : f[g[u]] <= m
      BY <2>7
    <2>9. f[g[k]] \in Values /\ f[g[k]] \in Nat /\ m \in Nat
      BY <1>1, <2>6
    <2> HIDE DEF Values
    <2>10. CASE f[g[k]] <= m
      <3>1. \A u \in 1 .. k : f[g[u]] <= m
        BY <2>6, <2>8, <2>10
      <3> QED
        BY <2>3, <3>1
    <2>11. CASE m < f[g[k]]
      <3>1. ASSUME NEW u \in 1 .. k
            PROVE  f[g[u]] <= f[g[k]]
        <4>1. CASE u = k
          BY <2>9, <4>1
        <4>2. CASE u # k
          <5>1. u \in 1 .. k - 1 /\ u \in 1 .. n
            BY <2>6, <4>2
          <5>2. f[g[u]] <= m /\ f[g[u]] \in Nat
            BY <1>1, <2>8, <5>1
          <5> QED
            BY <2>9, <2>11, <5>2
        <4> QED
          BY <4>1, <4>2
      <3> QED
        BY <2>3, <2>9, <3>1
    <2> QED
      BY <2>9, <2>10, <2>11
  <1>3. HasMaximum(n)
    BY SMTT(30), <1>0, <1>2
  <1> QED
    BY <1>1, <1>3

LEMMA RegionFacts ==
  ASSUME concrete \in ConcreteCircuits, NEW j \in 1 .. Total
  PROVE  /\ IsFiniteSet(Rgn(j).cells)
         /\ \A cell \in Rgn(j).cells : /\ cell[1] \in RegionColumns /\ cell[2] \in Nat
                                       /\ cell = <<cell[1], cell[2]>>
         /\ Len(Rgn(j).constants) \in Nat
         /\ DOMAIN Rgn(j).constants = 1 .. Len(Rgn(j).constants)
         /\ \A ref \in References(Rgn(j)) : IsCell(concrete, j, ref)
  BY ConcreteCircuitsAssumption DEF Rgn, Total, IsRegion

LEMMA RowCountCovers ==
  ASSUME concrete \in ConcreteCircuits, NEW j \in 1 .. Total
  PROVE  RowCount(Rgn(j)) \in Nat /\ \A cell \in Rgn(j).cells : cell[2] < RowCount(Rgn(j))
  <1> DEFINE r == Rgn(j)
             f == [cell \in r.cells |-> cell[2] + 1]
  <1>1. IsFiniteSet(r.cells) /\ \A cell \in r.cells : cell[2] \in Nat
    BY RegionFacts
  <1>2. \A cell \in r.cells : f[cell] \in Nat /\ f[cell] = cell[2] + 1
    BY <1>1
  <1> HIDE DEF r, f
  <1>3. PICK m \in {0} \cup {f[x] : x \in r.cells} : \A x \in r.cells : f[x] <= m
    BY <1>1, <1>2, FiniteMaximum
  <1>4. m \in {0} \cup {cell[2] + 1 : cell \in r.cells} /\ m \in Nat
    BY <1>1, <1>2, <1>3
  <1>5. \A cell \in r.cells : cell[2] < m
    BY <1>1, <1>2, <1>3, <1>4
  <1>6. /\ RowCount(r) \in {0} \cup {cell[2] + 1 : cell \in r.cells}
        /\ \A cell \in r.cells : cell[2] < RowCount(r)
    BY <1>4, <1>5 DEF RowCount
  <1> QED
    BY <1>1, <1>6 DEF r

LEMMA StartIsFree ==
  ASSUME concrete \in ConcreteCircuits, NEW j \in 1 .. Total, columns \in [RegionColumns -> Nat]
  PROVE  /\ RegionStart(Rgn(j)) \in Nat
         /\ \A c \in ColumnsOf(Rgn(j)) : columns[c] <= RegionStart(Rgn(j))
         /\ RegionStart(Rgn(j)) = 0 \/ \E c \in ColumnsOf(Rgn(j)) : columns[c] = RegionStart(Rgn(j))
  <1> DEFINE r == Rgn(j)
             f == [cell \in r.cells |-> columns[cell[1]]]
  <1>1. IsFiniteSet(r.cells) /\ \A cell \in r.cells : columns[cell[1]] \in Nat
    BY RegionFacts
  <1>2. \A cell \in r.cells : f[cell] \in Nat /\ f[cell] = columns[cell[1]]
    BY <1>1
  <1> HIDE DEF r, f
  <1>3. PICK m \in {0} \cup {f[x] : x \in r.cells} : \A x \in r.cells : f[x] <= m
    BY <1>1, <1>2, FiniteMaximum
  <1>4. m \in {0} \cup {columns[c] : c \in ColumnsOf(r)} /\ m \in Nat
    <2>1. {f[x] : x \in r.cells} = {columns[c] : c \in ColumnsOf(r)}
      BY <1>2 DEF ColumnsOf
    <2> QED
      BY <1>2, <1>3, <2>1
  <1>5. \A c \in ColumnsOf(r) : columns[c] <= m
    BY <1>2, <1>3 DEF ColumnsOf
  <1>6. /\ RegionStart(r) \in {0} \cup {columns[c] : c \in ColumnsOf(r)}
        /\ \A c \in ColumnsOf(r) : columns[c] <= RegionStart(r)
    BY <1>4, <1>5 DEF RegionStart
  <1>7. \A c \in ColumnsOf(r) : columns[c] \in Nat
    BY <1>1 DEF ColumnsOf
  <1> QED
    BY <1>6, <1>7 DEF r
-----------------------------------------------------------------------------
(* The next region, laid out in a keygen pass.                             *)
NewRegion  == Rgn(j_next)
NewStart   == RegionStart(NewRegion)
NewStarts  == Append(regions, NewStart)
NewMarks   == Advance(NewRegion, NewStart)
NewColumns == TakeConstantRows(NewMarks, NewRegion)
NewTable   == Record(j_next, NewStarts, NewMarks, NewRegion)

LEMMA TotalIsNat == ASSUME concrete \in ConcreteCircuits PROVE Total \in Nat
  BY ConcreteCircuitsAssumption DEF Total

LEMMA ConstantsColumnIsFixed ==
  ASSUME concrete \in ConcreteCircuits, concrete.constants # << >>
  PROVE  ConstantsColumn \in Fixed /\ ConstantsColumn \in RegionColumns
  <1>1. concrete.constants \in Seq(Fixed)
    BY ConcreteCircuitsAssumption
  <1>2. Len(concrete.constants) \in Nat /\ Len(concrete.constants) # 0
    BY <1>1, LenProperties, EmptySeq
  <1>3. 1 \in 1 .. Len(concrete.constants)
    BY <1>2
  <1> QED
    BY <1>1, <1>3, ElementOfSeq DEF ConstantsColumn, RegionColumns

LEMMA AppendedStart ==
  ASSUME regions \in Seq(Nat), NEW start \in Nat
  PROVE  /\ Append(regions, start) \in Seq(Nat) /\ Len(Append(regions, start)) = j_next
         /\ j_next \in Nat /\ Len(regions) \in Nat /\ j_next = Len(regions) + 1
         /\ Append(regions, start)[j_next] = start
         /\ \A u \in 1 .. Len(regions) : Append(regions, start)[u] = regions[u]
         /\ \A u \in 1 .. j_next : u \in 1 .. Len(regions) \/ u = j_next
  BY AppendProperties, LenProperties DEF j_next

LEMMA LayFacts ==
  ASSUME Layouter, j_next \in 1 .. Total
  PROVE  /\ NewStart \in Nat /\ NewMarks \in [RegionColumns -> Nat]
         /\ \A c \in RegionColumns : columns[c] <= NewMarks[c]
         /\ \A cell \in NewRegion.cells :
               columns[cell[1]] <= NewStart + cell[2] /\ NewStart + cell[2] < NewMarks[cell[1]]
  <1> DEFINE r == NewRegion
             height == RowCount(r)
  <1>1. NewStart \in Nat /\ \A c \in ColumnsOf(r) : columns[c] <= NewStart
    BY StartIsFree DEF Layouter, NewStart, NewRegion
  <1>2. height \in Nat /\ \A cell \in r.cells : cell[2] < height
    BY RowCountCovers DEF Layouter, NewRegion
  <1>3. NewMarks = [c \in RegionColumns |-> IF c \in ColumnsOf(r) THEN NewStart + height ELSE columns[c]]
    BY DEF NewMarks, Advance
  <1>4. \A cell \in r.cells : cell[1] \in RegionColumns /\ cell[2] \in Nat /\ cell[1] \in ColumnsOf(r)
    BY RegionFacts DEF Layouter, NewRegion, ColumnsOf
  <1> HIDE DEF r, height
  <1>5. columns \in [RegionColumns -> Nat]
    BY DEF Layouter
  <1>6. NewMarks \in [RegionColumns -> Nat]
    BY <1>1, <1>2, <1>3, <1>5
  <1>7. \A c \in RegionColumns : columns[c] <= NewMarks[c]
    BY <1>1, <1>2, <1>3, <1>5
  <1>8. ASSUME NEW cell \in r.cells
        PROVE  columns[cell[1]] <= NewStart + cell[2] /\ NewStart + cell[2] < NewMarks[cell[1]]
    <2>1. NewMarks[cell[1]] = NewStart + height /\ columns[cell[1]] <= NewStart
      BY <1>1, <1>3, <1>4
    <2>2. columns[cell[1]] \in Nat
      BY <1>4, <1>5
    <2> QED
      BY <1>1, <1>2, <1>4, <2>1, <2>2
  <1> QED
    BY <1>1, <1>6, <1>7, <1>8 DEF r

(* The rows taken for constants come after the marks.                      *)
LEMMA ConstantRows ==
  ASSUME Layouter, j_next \in 1 .. Total
  PROVE  /\ NewColumns \in [RegionColumns -> Nat]
         /\ \A c \in RegionColumns : NewMarks[c] <= NewColumns[c]
         /\ concrete.constants # << >> =>
               NewColumns[ConstantsColumn] = NewMarks[ConstantsColumn] + Len(NewRegion.constants)
         /\ \A c \in RegionColumns :
               concrete.constants = << >> \/ c # ConstantsColumn => NewColumns[c] = NewMarks[c]
  <1>1. NewMarks \in [RegionColumns -> Nat]
    BY LayFacts
  <1>2. Len(NewRegion.constants) \in Nat
    BY RegionFacts DEF Layouter, NewRegion
  <1>3. CASE concrete.constants = << >>
    BY <1>1, <1>3 DEF NewColumns, TakeConstantRows
  <1>4. CASE concrete.constants # << >>
    <2>1. ConstantsColumn \in RegionColumns
      BY <1>4, ConstantsColumnIsFixed DEF Layouter
    <2>2. NewColumns = [NewMarks EXCEPT ![ConstantsColumn] = @ + Len(NewRegion.constants)]
      BY <1>4 DEF NewColumns, TakeConstantRows
    <2> QED
      BY <1>1, <1>2, <1>4, <2>1, <2>2
  <1> QED
    BY <1>3, <1>4

(* The new region is below all of the others.                              *)
LEMMA LaidApart ==
  ASSUME Layouter, j_next \in 1 .. Total, Below(regions, columns), Apart(regions)
  PROVE  Apart(NewStarts) /\ Below(NewStarts, NewMarks) /\ Below(NewStarts, NewColumns)
  <1> DEFINE n == Len(regions)
  <1>1. /\ NewStart \in Nat /\ NewMarks \in [RegionColumns -> Nat]
        /\ \A c \in RegionColumns : columns[c] <= NewMarks[c]
        /\ \A cell \in NewRegion.cells :
              columns[cell[1]] <= NewStart + cell[2] /\ NewStart + cell[2] < NewMarks[cell[1]]
    BY LayFacts
  <1>2. /\ Len(NewStarts) = j_next /\ n \in Nat /\ j_next = n + 1 /\ NewStarts[j_next] = NewStart
        /\ \A u \in 1 .. n : NewStarts[u] = regions[u] /\ regions[u] \in Nat
        /\ \A u \in 1 .. j_next : u \in 1 .. n \/ u = j_next
    BY <1>1, AppendedStart, ElementOfSeq DEF Layouter, NewStarts
  <1>3. \A u \in 1 .. j_next : \A cell \in Rgn(u).cells :
           cell[1] \in RegionColumns /\ cell[2] \in Nat /\ cell = <<cell[1], cell[2]>>
    BY <1>2, RegionFacts, TotalIsNat DEF Layouter
  <1>4. columns \in [RegionColumns -> Nat]
    BY DEF Layouter
  <1> HIDE DEF n
  <1>5. ASSUME NEW u \in 1 .. n, NEW cell \in Rgn(u).cells
        PROVE  NewStarts[u] + cell[2] < columns[cell[1]]
    BY <1>2, <1>5 DEF Below, n
  <1>6. Below(NewStarts, NewMarks)
    <2> SUFFICES ASSUME NEW u \in 1 .. j_next, NEW cell \in Rgn(u).cells
                 PROVE  NewStarts[u] + cell[2] < NewMarks[cell[1]]
      BY <1>2 DEF Below
    <2>1. CASE u = j_next
      BY <1>1, <1>2, <2>1 DEF NewRegion
    <2>2. CASE u \in 1 .. n
      <3>1. NewStarts[u] + cell[2] < columns[cell[1]] /\ columns[cell[1]] <= NewMarks[cell[1]]
        BY <1>1, <1>3, <1>5, <2>2
      <3>2. /\ NewStarts[u] \in Nat /\ cell[2] \in Nat /\ columns[cell[1]] \in Nat
            /\ NewMarks[cell[1]] \in Nat
        BY <1>1, <1>2, <1>3, <1>4, <2>2
      <3> QED
        BY <3>1, <3>2
    <2> QED
      BY <1>2, <2>1, <2>2
  <1>7. Below(NewStarts, NewColumns)
    <2>1. /\ NewColumns \in [RegionColumns -> Nat]
          /\ \A c \in RegionColumns : NewMarks[c] <= NewColumns[c]
      BY ConstantRows
    <2> SUFFICES ASSUME NEW u \in 1 .. j_next, NEW cell \in Rgn(u).cells
                 PROVE  NewStarts[u] + cell[2] < NewColumns[cell[1]]
      BY <1>2 DEF Below
    <2>2. NewStarts[u] + cell[2] < NewMarks[cell[1]]
      BY <1>2, <1>6 DEF Below
    <2>3. NewMarks[cell[1]] <= NewColumns[cell[1]]
      BY <1>3, <2>1
    <2>4. NewStarts[u] \in Nat
      BY <1>1, <1>2
    <2>5. cell[2] \in Nat /\ NewMarks[cell[1]] \in Nat /\ NewColumns[cell[1]] \in Nat
      BY <1>1, <1>3, <2>1
    <2> QED
      BY <2>2, <2>3, <2>4, <2>5
  <1>8. Apart(NewStarts)
    <2> SUFFICES ASSUME NEW u \in 1 .. j_next, NEW m \in 1 .. j_next,
                        NEW a \in Rgn(u).cells, NEW b \in Rgn(m).cells,
                        Place(NewStarts, u, a) = Place(NewStarts, m, b)
                 PROVE  u = m /\ a = b
      BY <1>2 DEF Apart
    <2>1. a[1] = b[1] /\ NewStarts[u] + a[2] = NewStarts[m] + b[2]
      BY DEF Place
    <2>2. /\ a[1] \in RegionColumns /\ a[2] \in Nat /\ a = <<a[1], a[2]>>
          /\ b[1] \in RegionColumns /\ b[2] \in Nat /\ b = <<b[1], b[2]>>
      BY <1>3
    <2>3. columns[a[1]] \in Nat
      BY <1>4, <2>2
    <2>4. CASE u = j_next /\ m = j_next
      <3>1. a[2] = b[2]
        BY <1>1, <1>2, <2>1, <2>2, <2>4
      <3> QED
        BY <2>1, <2>2, <2>4, <3>1
    <2>5. CASE u = j_next /\ m \in 1 .. n
      <3>1. columns[a[1]] <= NewStart + a[2] /\ NewStarts[m] + b[2] < columns[b[1]]
        BY <1>1, <1>5, <2>5 DEF NewRegion
      <3>2. NewStarts[m] \in Nat /\ NewStarts[u] = NewStart
        BY <1>2, <2>5
      <3> QED
        BY <1>1, <2>1, <2>2, <2>3, <3>1, <3>2
    <2>6. CASE m = j_next /\ u \in 1 .. n
      <3>1. columns[b[1]] <= NewStart + b[2] /\ NewStarts[u] + a[2] < columns[a[1]]
        BY <1>1, <1>5, <2>6 DEF NewRegion
      <3>2. NewStarts[u] \in Nat /\ NewStarts[m] = NewStart
        BY <1>2, <2>6
      <3> QED
        BY <1>1, <2>1, <2>2, <2>3, <3>1, <3>2
    <2>7. CASE u \in 1 .. n /\ m \in 1 .. n
      <3>1. Place(regions, u, a) = Place(regions, m, b)
        BY <1>2, <2>1, <2>7 DEF Place
      <3> QED
        BY <2>7, <3>1 DEF Apart, n
    <2> QED
      BY <1>2, <2>4, <2>5, <2>6, <2>7
  <1> QED
    BY <1>6, <1>7, <1>8

(* What a synthesis that does not fail writes.                             *)
Writing   == Assigned(j_next, NewStart, CellsOf(NewRegion, Fixed))
Constants == IF NewRegion.constants = << >> THEN NothingAssigned ELSE ConstantCells(NewMarks, NewRegion)

LEMMA KeygenTable ==
  ASSUME Layouter, j_next \in 1 .. Total, InKeygen, IsTable(table)
  PROVE  /\ IsTable(NewTable)
         /\ NewTable.fixed = Overwrite(Constants, Overwrite(Writing, table.fixed))
         /\ NewTable.enabled = table.enabled \cup Placed(NewStart, CellsOf(NewRegion, Selectors))
         /\ NewTable.copies = table.copies \cup EqualCopies(NewStarts, NewRegion) \cup
                IF NewRegion.constants = << >> THEN {} ELSE ConstantCopies(NewStarts, NewMarks, NewRegion)
  <1>1. NewStarts[j_next] = NewStart
    BY LayFacts, AppendedStart DEF Layouter, NewStarts
  <1> QED
    BY <1>1 DEF NewTable, Record, IsTable, Writing, Constants

LEMMA AssignedCells ==
  ASSUME NEW j, NEW start \in Nat, NEW cells, \A cell \in cells : cell[2] \in Nat
  PROVE  /\ DOMAIN Assigned(j, start, cells) = Placed(start, cells)
         /\ \A cell \in cells :
               /\ <<cell[1], start + cell[2]>> \in Placed(start, cells)
               /\ Assigned(j, start, cells)[<<cell[1], start + cell[2]>>] = <<j, cell[1], cell[2]>>
  <1>1. ASSUME NEW cell \in cells
        PROVE  /\ <<cell[1], start + cell[2]>> \in Placed(start, cells)
               /\ Assigned(j, start, cells)[<<cell[1], start + cell[2]>>] = <<j, cell[1], cell[2]>>
    <2> DEFINE p == <<cell[1], start + cell[2]>>
    <2>1. p \in Placed(start, cells) /\ p[1] = cell[1] /\ p[2] = start + cell[2]
      BY DEF Placed
    <2>2. p[2] - start = cell[2]
      BY <2>1
    <2> HIDE DEF p
    <2>3. Assigned(j, start, cells)[p] = <<j, p[1], p[2] - start>>
      BY <2>1 DEF Assigned
    <2> QED
      BY <2>1, <2>2, <2>3 DEF p
  <1> QED
    BY <1>1 DEF Assigned

(* A region writes at or above the marks it found, a constant at or above  *)
(* the mark that the region left.                                          *)
LEMMA WritesAbove ==
  ASSUME Layouter, j_next \in 1 .. Total
  PROVE  /\ DOMAIN Writing = Placed(NewStart, CellsOf(NewRegion, Fixed))
         /\ \A p \in DOMAIN Writing : columns[p[1]] <= p[2] /\ p[2] < NewMarks[p[1]] /\ p[2] \in Nat
         /\ \A cell \in CellsOf(NewRegion, Fixed) :
               /\ Place(NewStarts, j_next, cell) \in DOMAIN Writing
               /\ Writing[Place(NewStarts, j_next, cell)] = <<j_next, cell[1], cell[2]>>
  <1>1. NewStart \in Nat /\ NewStarts[j_next] = NewStart
    BY LayFacts, AppendedStart DEF Layouter, NewStarts
  <1>2. \A cell \in NewRegion.cells : cell[2] \in Nat
    BY RegionFacts DEF Layouter, NewRegion
  <1>3. \A cell \in NewRegion.cells :
           columns[cell[1]] <= NewStart + cell[2] /\ NewStart + cell[2] < NewMarks[cell[1]]
    BY LayFacts
  <1>4. \A cell \in CellsOf(NewRegion, Fixed) : cell \in NewRegion.cells
    BY DEF CellsOf
  <1>5. /\ DOMAIN Writing = Placed(NewStart, CellsOf(NewRegion, Fixed))
        /\ \A cell \in CellsOf(NewRegion, Fixed) :
              /\ <<cell[1], NewStart + cell[2]>> \in Placed(NewStart, CellsOf(NewRegion, Fixed))
              /\ Writing[<<cell[1], NewStart + cell[2]>>] = <<j_next, cell[1], cell[2]>>
    <2> DEFINE cells == CellsOf(NewRegion, Fixed)
    <2>1. \A cell \in cells : cell[2] \in Nat
      BY <1>2, <1>4
    <2> HIDE DEF cells
    <2>2. /\ DOMAIN Assigned(j_next, NewStart, cells) = Placed(NewStart, cells)
          /\ \A cell \in cells :
                /\ <<cell[1], NewStart + cell[2]>> \in Placed(NewStart, cells)
                /\ Assigned(j_next, NewStart, cells)[<<cell[1], NewStart + cell[2]>>]
                      = <<j_next, cell[1], cell[2]>>
      BY ZenonT(40), <1>1, <2>1, AssignedCells
    <2> QED
      BY <2>2 DEF Writing, cells
  <1>6. ASSUME NEW p \in DOMAIN Writing
        PROVE  columns[p[1]] <= p[2] /\ p[2] < NewMarks[p[1]] /\ p[2] \in Nat
    <2>1. PICK cell \in CellsOf(NewRegion, Fixed) : p = <<cell[1], NewStart + cell[2]>>
      BY <1>5 DEF Placed
    <2>2. p[1] = cell[1] /\ p[2] = NewStart + cell[2]
      BY <2>1
    <2> QED
      BY <1>1, <1>2, <1>3, <1>4, <2>2
  <1> QED
    BY <1>1, <1>5, <1>6 DEF Place

LEMMA ConstantsAbove ==
  ASSUME Layouter, j_next \in 1 .. Total, concrete.constants # << >>
  PROVE  /\ \A p \in DOMAIN Constants : /\ p[1] = ConstantsColumn /\ p[2] \in Nat
                                        /\ NewMarks[ConstantsColumn] <= p[2]
                                        /\ p[2] < NewColumns[ConstantsColumn]
         /\ \A k \in DOMAIN NewRegion.constants :
               LET row == NewMarks[ConstantsColumn] + k - 1
               IN  /\ <<ConstantsColumn, row>> \in DOMAIN Constants
                   /\ Constants[<<ConstantsColumn, row>>] = NewRegion.constants[k].value
  <1> DEFINE mark == NewMarks[ConstantsColumn]
             count == Len(NewRegion.constants)
             Held == {<<ConstantsColumn, ConstantRow(NewMarks, k)>> : k \in DOMAIN NewRegion.constants}
  <1>1. mark \in Nat /\ NewColumns[ConstantsColumn] = mark + count
    BY LayFacts, ConstantRows, ConstantsColumnIsFixed DEF Layouter
  <1>2. count \in Nat /\ DOMAIN NewRegion.constants = 1 .. count
    BY RegionFacts DEF Layouter, NewRegion
  <1>3. CASE NewRegion.constants = << >>
    <2>1. DOMAIN Constants = {} /\ DOMAIN NewRegion.constants = {}
      BY <1>3 DEF Constants, NothingAssigned
    <2> QED
      BY <2>1
  <1>4. CASE NewRegion.constants # << >>
    <2>1. Constants = [p \in Held |-> NewRegion.constants[p[2] - mark + 1].value]
      BY <1>4 DEF Constants, ConstantCells
    <2>2. ASSUME NEW p \in DOMAIN Constants
          PROVE  /\ p[1] = ConstantsColumn /\ p[2] \in Nat
                 /\ mark <= p[2] /\ p[2] < NewColumns[ConstantsColumn]
      <3>1. PICK k \in DOMAIN NewRegion.constants : p = <<ConstantsColumn, mark + k - 1>>
        BY <2>1 DEF ConstantRow
      <3>2. p[1] = ConstantsColumn /\ p[2] = mark + k - 1
        BY <3>1
      <3> HIDE DEF mark, count
      <3> QED
        BY <1>1, <1>2, <3>2
    <2>3. ASSUME NEW k \in DOMAIN NewRegion.constants
          PROVE  /\ <<ConstantsColumn, mark + k - 1>> \in DOMAIN Constants
                 /\ Constants[<<ConstantsColumn, mark + k - 1>>] = NewRegion.constants[k].value
      <3> DEFINE p == <<ConstantsColumn, mark + k - 1>>
      <3>1. p \in Held
        BY DEF ConstantRow
      <3>2. p[2] - mark + 1 = k
        <4>1. p[2] = mark + k - 1
          OBVIOUS
        <4> HIDE DEF p, mark, count
        <4> QED
          BY <1>1, <1>2, <4>1
      <3> HIDE DEF p, Held, mark
      <3> QED
        BY <2>1, <3>1, <3>2 DEF p
    <2> QED
      BY <2>2, <2>3
  <1> QED
    BY <1>3, <1>4

(* So that what was written below the marks stays.                         *)
LEMMA FixedStays ==
  ASSUME Layouter, j_next \in 1 .. Total, InKeygen, IsTable(table),
         concrete.constants # << >> \/ NewRegion.constants = << >>
  PROVE  /\ \A p \in DOMAIN table.fixed :
               p[1] \in RegionColumns /\ p[2] \in Nat /\ p[2] < columns[p[1]] =>
                  p \in DOMAIN NewTable.fixed /\ NewTable.fixed[p] = table.fixed[p]
         /\ \A p \in DOMAIN Writing : p \in DOMAIN NewTable.fixed /\ NewTable.fixed[p] = Writing[p]
         /\ \A p \in DOMAIN Constants : p \in DOMAIN NewTable.fixed /\ NewTable.fixed[p] = Constants[p]
  <1>1. NewTable.fixed = Overwrite(Constants, Overwrite(Writing, table.fixed))
    BY KeygenTable
  <1>2. /\ columns \in [RegionColumns -> Nat] /\ NewMarks \in [RegionColumns -> Nat]
        /\ \A c \in RegionColumns : columns[c] <= NewMarks[c]
    BY LayFacts DEF Layouter
  <1>3. \A p \in DOMAIN Writing : columns[p[1]] <= p[2] /\ p[2] < NewMarks[p[1]] /\ p[2] \in Nat
    BY WritesAbove
  <1>4. \A p \in DOMAIN Constants :
           /\ p[1] = ConstantsColumn /\ ConstantsColumn \in RegionColumns /\ p[2] \in Nat
           /\ NewMarks[ConstantsColumn] <= p[2]
    <2>1. CASE NewRegion.constants = << >>
      <3>1. DOMAIN Constants = {}
        BY <2>1 DEF Constants, NothingAssigned
      <3> QED
        BY <3>1
    <2>2. CASE concrete.constants # << >>
      BY <2>2, ConstantsAbove, ConstantsColumnIsFixed DEF Layouter
    <2> QED
      BY <2>1, <2>2
  <1>5. ASSUME NEW p \in DOMAIN table.fixed, p[1] \in RegionColumns, p[2] \in Nat, p[2] < columns[p[1]]
        PROVE  p \notin DOMAIN Writing /\ p \notin DOMAIN Constants
    <2>1. columns[p[1]] \in Nat /\ NewMarks[p[1]] \in Nat /\ columns[p[1]] <= NewMarks[p[1]]
      BY <1>2, <1>5
    <2>2. p \notin DOMAIN Writing
      BY <1>3, <1>5, <2>1
    <2>3. p \notin DOMAIN Constants
      BY <1>4, <1>5, <2>1
    <2> QED
      BY <2>2, <2>3
  <1>6. ASSUME NEW p \in DOMAIN Writing
        PROVE  p \notin DOMAIN Constants
    <2>1. SUFFICES ASSUME p \in DOMAIN Constants
                   PROVE  FALSE
      OBVIOUS
    <2>2. p[1] \in RegionColumns /\ NewMarks[p[1]] <= p[2]
      BY <1>4, <2>1
    <2> QED
      BY <1>2, <1>3, <2>2
  <1> QED
    BY <1>1, <1>5, <1>6 DEF Overwrite

LEMMA LaidKept ==
  ASSUME Layouter, j_next \in 1 .. Total, InKeygen, IsTable(table), Below(regions, columns),
         concrete.constants # << >> \/ NewRegion.constants = << >>,
         Kept(regions, table.fixed, Fixed)
  PROVE  Kept(NewStarts, NewTable.fixed, Fixed)
  <1>1. /\ Len(NewStarts) = j_next /\ NewStarts[j_next] = NewStart
        /\ Len(regions) \in Nat /\ j_next = Len(regions) + 1
        /\ \A u \in 1 .. Len(regions) : NewStarts[u] = regions[u] /\ regions[u] \in Nat
        /\ \A u \in 1 .. j_next : u \in 1 .. Len(regions) \/ u = j_next
    BY LayFacts, AppendedStart, ElementOfSeq DEF Layouter, NewStarts
  <1> SUFFICES ASSUME NEW u \in 1 .. j_next, NEW cell \in CellsOf(Rgn(u), Fixed)
               PROVE  /\ Place(NewStarts, u, cell) \in DOMAIN NewTable.fixed
                      /\ NewTable.fixed[Place(NewStarts, u, cell)] = <<u, cell[1], cell[2]>>
    BY <1>1 DEF Kept
  <1>2. CASE u = j_next
    BY <1>2, WritesAbove, FixedStays DEF NewRegion
  <1>3. CASE u \in 1 .. Len(regions)
    <2> DEFINE p == Place(regions, u, cell)
    <2>1. p = Place(NewStarts, u, cell) /\ p[1] = cell[1] /\ p[2] = regions[u] + cell[2]
      BY <1>1, <1>3 DEF Place
    <2>2. cell \in Rgn(u).cells
      BY DEF CellsOf
    <2>3. cell[1] \in RegionColumns /\ cell[2] \in Nat
      BY <1>1, <2>2, RegionFacts, TotalIsNat DEF Layouter
    <2>4. p[1] \in RegionColumns /\ p[2] \in Nat /\ p[2] < columns[p[1]]
      BY <1>1, <1>3, <2>1, <2>2, <2>3 DEF Below
    <2>5. p \in DOMAIN table.fixed /\ table.fixed[p] = <<u, cell[1], cell[2]>>
      BY <1>3 DEF Kept
    <2> HIDE DEF p
    <2> QED
      BY <2>1, <2>4, <2>5, FixedStays
  <1> QED
    BY <1>1, <1>2, <1>3

(* References to cells are where they were once more regions have starts.  *)
LEMMA ReferencesStay ==
  ASSUME Layouter, j_next \in 1 .. Total, NEW u \in 1 .. Len(regions), NEW ref \in References(Rgn(u))
  PROVE  At(NewStarts, ref) = At(regions, ref)
  <1>1. /\ \A k \in 1 .. Len(regions) : NewStarts[k] = regions[k]
        /\ Len(regions) \in Nat /\ j_next = Len(regions) + 1
    BY LayFacts, AppendedStart DEF Layouter, NewStarts
  <1>2. IsCell(concrete, u, ref)
    BY <1>1, RegionFacts, TotalIsNat DEF Layouter
  <1>3. ref[1] = 0 \/ ref[1] \in 1 .. Len(regions)
    BY <1>1, <1>2 DEF IsCell
  <1> QED
    BY <1>1, <1>3 DEF At

LEMMA ConstantReference ==
  ASSUME NEW r, NEW k \in DOMAIN r.constants
  PROVE  r.constants[k].cell \in References(r)
  BY DEF References

LEMMA EqualReference ==
  ASSUME NEW r, NEW e \in r.equal
  PROVE  e[1] \in References(r) /\ e[2] \in References(r)
  BY DEF References

LEMMA LaidBound ==
  ASSUME Layouter, j_next \in 1 .. Total, InKeygen, IsTable(table),
         concrete.constants # << >> \/ NewRegion.constants = << >>,
         Bound(regions, columns, table)
  PROVE  Bound(NewStarts, NewColumns, NewTable)
  <1>1. /\ Len(NewStarts) = j_next /\ Len(regions) \in Nat /\ j_next = Len(regions) + 1
        /\ \A u \in 1 .. j_next : u \in 1 .. Len(regions) \/ u = j_next
    BY LayFacts, AppendedStart DEF Layouter, NewStarts
  <1>2. /\ table.copies \subseteq NewTable.copies
        /\ NewRegion.constants # << >> =>
              ConstantCopies(NewStarts, NewMarks, NewRegion) \subseteq NewTable.copies
    BY KeygenTable
  <1> SUFFICES ASSUME NEW u \in 1 .. j_next, NEW k \in DOMAIN Rgn(u).constants
               PROVE  /\ concrete.constants # << >>
                      /\ \E row \in Nat : /\ row < NewColumns[ConstantsColumn]
                                          /\ BoundAt(NewStarts, NewTable, Rgn(u).constants[k], row)
    BY <1>1 DEF Bound
  <1>3. CASE u = j_next
    <2>1. /\ Rgn(u) = NewRegion /\ NewRegion.constants # << >>
      BY <1>3 DEF NewRegion
    <2> DEFINE row == NewMarks[ConstantsColumn] + k - 1
               p == <<ConstantsColumn, row>>
    <2>2. p \in DOMAIN Constants /\ Constants[p] = NewRegion.constants[k].value
      BY <2>1, ConstantsAbove
    <2>3. row \in Nat /\ row < NewColumns[ConstantsColumn]
      <3>1. p[2] \in Nat /\ p[2] < NewColumns[ConstantsColumn]
        BY <2>1, <2>2, ConstantsAbove
      <3> QED
        BY <3>1
    <2>4. <<p, At(NewStarts, NewRegion.constants[k].cell)>> \in ConstantCopies(NewStarts, NewMarks, NewRegion)
      BY <2>1 DEF ConstantCopies, ConstantRow
    <2> HIDE DEF row
    <2>5. p \in DOMAIN NewTable.fixed /\ NewTable.fixed[p] = NewRegion.constants[k].value
      BY <2>1, <2>2, FixedStays
    <2>6. BoundAt(NewStarts, NewTable, Rgn(u).constants[k], row)
      BY <1>2, <2>1, <2>4, <2>5 DEF BoundAt
    <2> QED
      BY <2>1, <2>3, <2>6
  <1>4. CASE u \in 1 .. Len(regions)
    <2> DEFINE const == Rgn(u).constants[k]
    <2>1. concrete.constants # << >>
      BY <1>4 DEF Bound
    <2>2. PICK row \in Nat : row < columns[ConstantsColumn] /\ BoundAt(regions, table, const, row)
      BY <1>4 DEF Bound
    <2>3. At(NewStarts, const.cell) = At(regions, const.cell)
      BY <1>4, ReferencesStay, ConstantReference
    <2> HIDE DEF const
    <2>4. /\ ConstantsColumn \in RegionColumns
          /\ columns[ConstantsColumn] \in Nat /\ NewMarks[ConstantsColumn] \in Nat
          /\ NewColumns[ConstantsColumn] \in Nat
          /\ columns[ConstantsColumn] <= NewMarks[ConstantsColumn]
          /\ NewMarks[ConstantsColumn] <= NewColumns[ConstantsColumn]
      BY <2>1, ConstantsColumnIsFixed, LayFacts, ConstantRows DEF Layouter
    <2> DEFINE p == <<ConstantsColumn, row>>
    <2>5. p[1] = ConstantsColumn /\ p[2] = row
      OBVIOUS
    <2> HIDE DEF p
    <2>6. /\ p \in DOMAIN table.fixed /\ table.fixed[p] = const.value
          /\ <<p, At(regions, const.cell)>> \in table.copies
      BY <2>2 DEF BoundAt, p
    <2>7. p \in DOMAIN NewTable.fixed /\ NewTable.fixed[p] = const.value
      BY <2>1, <2>2, <2>4, <2>5, <2>6, FixedStays
    <2>8. BoundAt(NewStarts, NewTable, const, row)
      BY <1>2, <2>3, <2>6, <2>7 DEF BoundAt, p
    <2>9. row < NewColumns[ConstantsColumn]
      BY <2>2, <2>4
    <2> QED
      BY <2>1, <2>8, <2>9 DEF const
  <1> QED
    BY <1>1, <1>3, <1>4

(* Regions are packed.                                                     *)
LEMMA EndsStay ==
  ASSUME Layouter, j_next \in 1 .. Total, InKeygen, IsTable(table),
         NEW c, NEW m \in 0 .. Len(regions), NEW row, EndsAt(regions, table, c, m, row)
  PROVE  EndsAt(NewStarts, NewTable, c, m, row)
  <1>1. /\ \A u \in 1 .. Len(regions) : NewStarts[u] = regions[u]
        /\ Len(regions) \in Nat
    BY LayFacts, AppendedStart DEF Layouter, NewStarts
  <1>2. table.copies \subseteq NewTable.copies
    BY KeygenTable
  <1>3. \A u \in 1 .. m : u \in 1 .. Len(regions)
    BY <1>1
  <1> QED
    BY <1>1, <1>2, <1>3 DEF EndsAt

LEMMA LaidPacked ==
  ASSUME Layouter, j_next \in 1 .. Total, InKeygen, IsTable(table),
         concrete.constants # << >> \/ NewRegion.constants = << >>,
         Packed(regions, table), MarksPacked(regions, columns, table)
  PROVE  Packed(NewStarts, NewTable) /\ MarksPacked(NewStarts, NewColumns, NewTable)
  <1>1. /\ Len(NewStarts) = j_next /\ NewStarts[j_next] = NewStart
        /\ Len(regions) \in Nat /\ j_next = Len(regions) + 1 /\ j_next - 1 = Len(regions)
        /\ \A u \in 1 .. Len(regions) : NewStarts[u] = regions[u]
        /\ \A u \in 1 .. j_next : u \in 1 .. Len(regions) \/ u = j_next
    BY LayFacts, AppendedStart DEF Layouter, NewStarts
  <1>2. ASSUME NEW u \in 1 .. j_next, NewStarts[u] # 0
        PROVE  \E c \in ColumnsOf(Rgn(u)) : EndsAt(NewStarts, NewTable, c, u - 1, NewStarts[u])
    <2>1. CASE u = j_next
      <3>1. PICK c \in ColumnsOf(NewRegion) : columns[c] = NewStart
        BY <1>1, <1>2, <2>1, StartIsFree DEF Layouter, NewStart, NewRegion
      <3>2. c \in RegionColumns
        BY RegionFacts DEF Layouter, NewRegion, ColumnsOf
      <3>3. EndsAt(regions, table, c, Len(regions), NewStart)
        BY <1>1, <1>2, <2>1, <3>1, <3>2 DEF MarksPacked
      <3>4. Len(regions) \in 0 .. Len(regions)
        BY <1>1
      <3>5. EndsAt(NewStarts, NewTable, c, Len(regions), NewStart)
        BY <3>3, <3>4, EndsStay
      <3> QED
        BY <1>1, <2>1, <3>1, <3>5 DEF NewRegion
    <2>2. CASE u \in 1 .. Len(regions)
      <3>1. PICK c \in ColumnsOf(Rgn(u)) : EndsAt(regions, table, c, u - 1, regions[u])
        BY <1>1, <1>2, <2>2 DEF Packed
      <3>2. u - 1 \in 0 .. Len(regions)
        BY <1>1, <2>2
      <3> QED
        BY <1>1, <2>2, <3>1, <3>2, EndsStay
    <2> QED
      BY <1>1, <2>1, <2>2
  <1>3. ASSUME NEW c \in RegionColumns, NewMarks[c] # 0
        PROVE  EndsAt(NewStarts, NewTable, c, j_next, NewMarks[c])
    <2>1. NewMarks[c] = IF c \in ColumnsOf(NewRegion) THEN NewStart + RowCount(NewRegion) ELSE columns[c]
      BY DEF NewMarks, Advance
    <2>2. CASE c \in ColumnsOf(NewRegion)
      <3>1. j_next \in 1 .. j_next
        BY <1>1
      <3> QED
        BY <1>1, <2>1, <2>2, <3>1 DEF EndsAt, NewRegion
    <2>3. CASE c \notin ColumnsOf(NewRegion)
      <3>1. EndsAt(regions, table, c, Len(regions), NewMarks[c])
        BY <1>3, <2>1, <2>3 DEF MarksPacked
      <3>2. Len(regions) \in 0 .. Len(regions) /\ \A u \in 1 .. Len(regions) : u \in 1 .. j_next
        BY <1>1
      <3>3. EndsAt(NewStarts, NewTable, c, Len(regions), NewMarks[c])
        BY <3>1, <3>2, EndsStay
      <3> QED
        BY <3>2, <3>3 DEF EndsAt
    <2> QED
      BY <2>2, <2>3
  <1>4. ASSUME NEW c \in RegionColumns, NewColumns[c] # 0
        PROVE  EndsAt(NewStarts, NewTable, c, j_next, NewColumns[c])
    <2>1. CASE NewColumns[c] = NewMarks[c]
      BY <1>3, <1>4, <2>1
    <2>2. CASE NewColumns[c] # NewMarks[c]
      <3>1. concrete.constants # << >> /\ c = ConstantsColumn
        BY <2>2, ConstantRows
      <3> DEFINE count == Len(NewRegion.constants)
                 mark == NewMarks[ConstantsColumn]
      <3>2. mark \in Nat /\ count \in Nat /\ DOMAIN NewRegion.constants = 1 .. count
            /\ NewColumns[c] = mark + count
        BY <3>1, ConstantRows, LayFacts, RegionFacts DEF Layouter, NewRegion
      <3> HIDE DEF count, mark
      <3>3. count # 0
        BY <2>2, <3>1, <3>2 DEF mark
      <3>4. count \in DOMAIN NewRegion.constants /\ mark + count - 1 = NewColumns[c] - 1
        BY <3>2, <3>3
      <3>5. NewRegion.constants # << >>
        BY <3>4
      <3> DEFINE p == << <<ConstantsColumn, mark + count - 1>>,
                         At(NewStarts, NewRegion.constants[count].cell)>>
      <3>6. p \in ConstantCopies(NewStarts, NewMarks, NewRegion)
        BY <3>4 DEF ConstantCopies, ConstantRow, mark
      <3>7. p \in NewTable.copies
        BY <3>5, <3>6, KeygenTable
      <3>8. p[1] = <<c, NewColumns[c] - 1>>
        BY <3>1, <3>4
      <3> QED
        BY <3>7, <3>8 DEF EndsAt
    <2> QED
      BY <2>1, <2>2
  <1> QED
    BY <1>1, <1>2, <1>4 DEF Packed, MarksPacked

(* Copies and selectors.                                                   *)
LEMMA LaidCopies ==
  ASSUME Layouter, j_next \in 1 .. Total, InKeygen, IsTable(table), CopiesKept(regions, table)
  PROVE  CopiesKept(NewStarts, NewTable)
  <1>1. /\ Len(NewStarts) = j_next /\ NewStarts[j_next] = NewStart
        /\ \A u \in 1 .. Len(regions) : NewStarts[u] = regions[u]
        /\ \A u \in 1 .. j_next : u \in 1 .. Len(regions) \/ u = j_next
    BY LayFacts, AppendedStart DEF Layouter, NewStarts
  <1>2. /\ table.copies \cup EqualCopies(NewStarts, NewRegion) \subseteq NewTable.copies
        /\ table.enabled \cup Placed(NewStart, CellsOf(NewRegion, Selectors)) \subseteq NewTable.enabled
    BY KeygenTable
  <1> SUFFICES ASSUME NEW u \in 1 .. j_next
               PROVE  /\ \A e \in Rgn(u).equal :
                            <<At(NewStarts, e[1]), At(NewStarts, e[2])>> \in NewTable.copies
                      /\ Placed(NewStarts[u], CellsOf(Rgn(u), Selectors)) \subseteq NewTable.enabled
    BY <1>1 DEF CopiesKept
  <1>3. CASE u = j_next
    BY <1>1, <1>2, <1>3 DEF EqualCopies, NewRegion
  <1>4. CASE u \in 1 .. Len(regions)
    <2>1. ASSUME NEW e \in Rgn(u).equal
          PROVE  <<At(NewStarts, e[1]), At(NewStarts, e[2])>> \in NewTable.copies
      <3>1. At(NewStarts, e[1]) = At(regions, e[1]) /\ At(NewStarts, e[2]) = At(regions, e[2])
        BY <1>4, EqualReference, ReferencesStay
      <3> QED
        BY <1>2, <1>4, <3>1 DEF CopiesKept
    <2>2. Placed(NewStarts[u], CellsOf(Rgn(u), Selectors)) \subseteq NewTable.enabled
      BY <1>1, <1>2, <1>4 DEF CopiesKept
    <2> QED
      BY <2>1, <2>2
  <1> QED
    BY <1>1, <1>3, <1>4

LEMMA LaidEnds ==
  ASSUME Layouter, j_next \in 1 .. Total, InKeygen, IsTable(table), EndsAssigned(regions, table),
         concrete.constants # << >> \/ NewRegion.constants = << >>
  PROVE  EndsAssigned(NewStarts, NewTable)
  <1>1. /\ Len(NewStarts) = j_next /\ Len(regions) \in Nat /\ j_next = Len(regions) + 1
        /\ \A u \in 1 .. Len(regions) : NewStarts[u] = regions[u] /\ u \in 1 .. j_next
    BY LayFacts, AppendedStart DEF Layouter, NewStarts
  <1>2. ASSUME NEW ref \in References(NewRegion), At(NewStarts, ref)[1] \in Advice
        PROVE  IsAssigned(NewStarts, At(NewStarts, ref))
    <2>1. IsCell(concrete, j_next, ref) /\ At(NewStarts, ref)[1] = ref[2]
      BY RegionFacts DEF Layouter, NewRegion, At
    <2>2. ref[1] # 0
      <3>1. ref[2] \in RegionColumns
        BY <1>2, <2>1 DEF RegionColumns
      <3> QED
        BY <1>1, <2>1, <3>1 DEF IsCell
    <2>3. ref[1] \in 1 .. j_next /\ <<ref[2], ref[3]>> \in Rgn(ref[1]).cells
      BY <2>1, <2>2 DEF IsCell, Rgn
    <2> DEFINE a == <<ref[2], ref[3]>>
    <2>4. a \in CellsOf(Rgn(ref[1]), Advice) /\ a[1] = ref[2] /\ a[2] = ref[3]
      BY <1>2, <2>1, <2>3 DEF CellsOf
    <2>5. At(NewStarts, ref) = Place(NewStarts, ref[1], a)
      BY <2>2, <2>4 DEF At, Place
    <2> QED
      BY <1>1, <2>3, <2>4, <2>5 DEF IsAssigned
  <1>3. ASSUME NEW cell, IsAssigned(regions, cell)
        PROVE  IsAssigned(NewStarts, cell)
    BY <1>1, <1>3 DEF IsAssigned, Place
  <1>4. ASSUME NEW p \in NewTable.copies, NEW cell \in {p[1], p[2]}, cell[1] \in Advice
        PROVE  IsAssigned(NewStarts, cell)
    <2>1. CASE p \in table.copies
      BY <1>3, <1>4, <2>1 DEF EndsAssigned
    <2>2. CASE p \in EqualCopies(NewStarts, NewRegion)
      <3>1. PICK e \in NewRegion.equal : p = <<At(NewStarts, e[1]), At(NewStarts, e[2])>>
        BY <2>2 DEF EqualCopies
      <3>2. p[1] = At(NewStarts, e[1]) /\ p[2] = At(NewStarts, e[2])
        BY <3>1
      <3> QED
        BY <1>2, <1>4, <3>2, EqualReference
    <2>3. CASE NewRegion.constants # << >> /\ p \in ConstantCopies(NewStarts, NewMarks, NewRegion)
      <3>1. PICK k \in DOMAIN NewRegion.constants :
               p = << <<ConstantsColumn, ConstantRow(NewMarks, k)>>,
                      At(NewStarts, NewRegion.constants[k].cell)>>
        BY <2>3 DEF ConstantCopies
      <3>2. p[1][1] = ConstantsColumn /\ p[2] = At(NewStarts, NewRegion.constants[k].cell)
        BY <3>1
      <3>3. ConstantsColumn \notin Advice
        BY <2>3, ConstantsColumnIsFixed, ColumnsDisjoint DEF Layouter
      <3> QED
        BY <1>2, <1>4, <3>2, <3>3, ConstantReference
    <2> QED
      BY <2>1, <2>2, <2>3, KeygenTable
  <1> QED
    BY <1>4 DEF EndsAssigned
-----------------------------------------------------------------------------
(* The two keygen passes lay out the same.                                 *)
LEMMA HistoriesAgree ==
  ASSUME NEW n \in Nat, NEW g, NEW h, IsHistory(g, n), IsHistory(h, n)
  PROVE  g[n] = h[n]
  <1> DEFINE Bad == {u \in 0 .. n : g[u] # h[u]}
  <1>1. ASSUME Bad # {}
        PROVE  FALSE
    <2>1. Bad \subseteq Nat
      OBVIOUS
    <2>2. PICK u \in Bad : \A y \in Bad : ~ (<<y, u>> \in OpToRel(<, Nat))
      BY <1>1, <2>1, WFMin, NatLessThanWellFounded
    <2>3. u \in 0 .. n /\ g[u] # h[u] /\ \A y \in Bad : ~ (y < u)
      BY <2>1, <2>2 DEF OpToRel
    <2>4. u # 0
      BY <2>3 DEF IsHistory
    <2>5. u \in 1 .. n /\ u - 1 \in 0 .. n /\ u - 1 < u
      BY <2>3, <2>4
    <2>6. g[u - 1] = h[u - 1]
      BY <2>3, <2>5
    <2> QED
      BY <2>3, <2>5, <2>6 DEF IsHistory
  <1> QED
    BY <1>1

LEMMA NothingLaidOut == LaidOut(FirstLayout, 0)
  <1> DEFINE h == [u \in {0} |-> FirstLayout]
  <1>1. IsHistory(h, 0) /\ h[0] = FirstLayout
    BY DEF IsHistory
  <1> QED
    BY <1>1 DEF LaidOut

LEMMA LaidOutNext ==
  ASSUME Layouter, j_next \in 1 .. Total, InKeygen, IsTable(table),
         LaidOut([starts |-> regions, marks |-> columns, table |-> table], Len(regions))
  PROVE  LaidOut([starts |-> NewStarts, marks |-> NewColumns, table |-> NewTable], j_next)
  <1> DEFINE n == Len(regions)
             old == [starts |-> regions, marks |-> columns, table |-> table]
             new == [starts |-> NewStarts, marks |-> NewColumns, table |-> NewTable]
  <1>1. PICK h : IsHistory(h, n) /\ h[n] = old
    BY DEF LaidOut
  <1>2. n \in Nat /\ j_next = n + 1
    BY LenProperties DEF Layouter, j_next
  <1>3. new = LayIn(old, j_next)
    <2>1. NewStart = StartIn(columns, NewRegion)
      BY DEF NewStart, RegionStart, StartIn
    <2>2. NewMarks = AdvanceIn(columns, NewRegion, NewStart)
      BY DEF NewMarks, Advance, AdvanceIn
    <2>3. NewTable = RecordIn(table, j_next, NewStarts, NewMarks, NewRegion)
      BY DEF NewTable, Record, RecordIn
    <2>4. old.starts = regions /\ old.marks = columns /\ old.table = table
      OBVIOUS
    <2> HIDE DEF old
    <2> QED
      BY <2>1, <2>2, <2>3, <2>4 DEF LayIn, NewStarts, NewColumns, NewRegion
  <1> DEFINE g == [u \in 0 .. n + 1 |-> IF u = n + 1 THEN new ELSE h[u]]
  <1> HIDE DEF new, old, n
  <1>4. g[n + 1] = new /\ \A u \in 0 .. n : g[u] = h[u]
    BY <1>2
  <1> HIDE DEF g
  <1>5. ASSUME NEW u \in 1 .. n + 1
        PROVE  g[u] = LayIn(g[u - 1], u)
    <2>1. CASE u = n + 1
      <3>1. n \in 0 .. n /\ u - 1 = n
        BY <1>2, <2>1
      <3> QED
        BY <1>1, <1>2, <1>3, <1>4, <2>1, <3>1
    <2>2. CASE u # n + 1
      <3>1. u \in 1 .. n /\ u \in 0 .. n /\ u - 1 \in 0 .. n
        BY <1>2, <2>2
      <3> QED
        BY <1>1, <1>4, <3>1 DEF IsHistory
    <2> QED
      BY <2>1, <2>2
  <1>6. g[0] = FirstLayout
    BY <1>1, <1>2, <1>4 DEF IsHistory
  <1>7. IsHistory(g, j_next) /\ g[j_next] = new
    BY <1>2, <1>4, <1>5, <1>6 DEF IsHistory
  <1> QED
    BY <1>7 DEF LaidOut, new
-----------------------------------------------------------------------------
(* The steps.                                                              *)

(* assign_region_impl in a keygen pass: it fails, and leaves what there is,*)
(* or lays the region out.                                                 *)
AssignFails == /\ pass' = "failed" /\ error' # "none"
               /\ UNCHANGED <<concrete, regions, columns, region_sink, table, vk, pk>>

LEMMA FailingIsError ==
  ASSUME NEW starts, NEW start, NEW marks, NEW r, NEW e \in Failing(starts, start, marks, r)
  PROVE  e # "none"
  BY DEF Failing, BodyRefusals, ConstantRefusals, Refusals

LEMMA KeygenAssign ==
  ASSUME Layouter, InKeygen, AssignRegion
  PROVE  \/ AssignFails
         \/ /\ j_next \in 1 .. Total
            /\ concrete.constants # << >> \/ NewRegion.constants = << >>
            /\ regions' = NewStarts /\ columns' = NewColumns /\ table' = NewTable
            /\ region_sink' = Capture(NewStart)
            /\ UNCHANGED <<concrete, pass, error, vk, pk>>
  <1> DEFINE failing == Failing(NewStarts, NewStart, NewMarks, NewRegion)
  <1>1. pass # "prove" /\ j_next \in 1 .. Total
    <2>1. j_next \in Nat /\ 1 <= j_next
      BY LenProperties DEF Layouter, j_next
    <2> QED
      BY <2>1, TotalIsNat DEF InKeygen, AssignRegion, Total, Layouter
  <1>2. CASE failing = {}
    <2>1. ConstantRefusals(NewStarts, NewMarks, NewRegion) = {}
      BY <1>2 DEF Failing
    <2>2. concrete.constants # << >> \/ NewRegion.constants = << >>
      BY <2>1 DEF ConstantRefusals
    <2> QED
      BY <1>1, <1>2, <2>2 DEF AssignRegion, NewStarts, NewStart, NewMarks, NewRegion, NewColumns,
         NewTable, Rgn
  <1>3. CASE failing # {}
    <2>1. /\ error' \in failing /\ pass' = "failed"
          /\ UNCHANGED <<concrete, regions, columns, region_sink, table, vk, pk>>
      BY <1>1, <1>3 DEF AssignRegion, NewStarts, NewStart, NewMarks, NewRegion, Rgn
    <2> QED
      BY <2>1, FailingIsError DEF AssignFails
  <1> QED
    BY <1>2, <1>3

LEMMA InitIInv == SynthesisInit => SynthesisInv
  <1> SUFFICES ASSUME SynthesisInit
               PROVE  SynthesisInv
    OBVIOUS
  <1>1. regions = << >> /\ Len(regions) = 0 /\ regions \in Seq(Nat)
    BY EmptySeq DEF SynthesisInit
  <1>2. table = EmptyTable /\ IsTable(table) /\ table.copies = {}
    BY DEF SynthesisInit, IsTable, EmptyTable
  <1>3. Layouter
    BY <1>1, TotalIsNat DEF SynthesisInit, Layouter
  <1>4. LaidOut([starts |-> regions, marks |-> columns, table |-> table], Len(regions))
    BY <1>1, <1>2, NothingLaidOut DEF SynthesisInit, FirstLayout
  <1>5. /\ Below(regions, columns) /\ Kept(regions, table.fixed, Fixed)
        /\ Bound(regions, columns, table) /\ Packed(regions, table)
        /\ CopiesKept(regions, table) /\ Apart(regions)
    BY <1>1 DEF Below, Kept, Bound, Packed, CopiesKept, Apart
  <1>6. MarksPacked(regions, columns, table) /\ EndsAssigned(regions, table)
    BY <1>2 DEF SynthesisInit, MarksPacked, EndsAssigned
  <1>7. region_sink \in Seq(Nat) /\ pass = "keygen_vk" /\ error = "none"
    BY <1>1 DEF SynthesisInit
  <1> QED
    BY <1>1, <1>2, <1>3, <1>4, <1>5, <1>6, <1>7 DEF SynthesisInv, KeygenInv

LEMMA SameCircuit ==
  ASSUME concrete' = concrete
  PROVE  \A l, j : LayIn(l, j)' = LayIn(l, j)
  BY DEF LayIn, RecordIn, Rgn, TakeConstantRows, ConstantsColumn, ConstantCells, ConstantRow,
     ConstantCopies, StartIn, AdvanceIn

LEMMA LaidOutStays ==
  ASSUME concrete' = concrete, NEW starts, NEW marks, NEW t, NEW n,
         LaidOut([starts |-> starts, marks |-> marks, table |-> t], n),
         regions' = starts, columns' = marks, table' = t, Len(regions') = n
  PROVE  LaidOut([starts |-> regions, marks |-> columns, table |-> table], Len(regions))'
  BY SameCircuit DEF LaidOut, IsHistory, FirstLayout, EmptyTable

LEMMA AssignedStays ==
  ASSUME concrete' = concrete, NEW starts, NEW cell, IsAssigned(starts, cell)
  PROVE  /\ regions' = starts => IsAssigned(regions, cell)'
         /\ pk'.region_starts = starts => IsAssigned(pk.region_starts, cell)'
  BY DEF IsAssigned, Place, Rgn, CellsOf

(* The conjuncts of the invariant are about the regions, the marks and the *)
(* table alone, of one and the same circuit.                               *)
LEMMA KeygenInvStays ==
  ASSUME concrete' = concrete, NEW starts, NEW marks, NEW t,
         Below(starts, marks), Kept(starts, t.fixed, Fixed), Bound(starts, marks, t),
         Packed(starts, t), MarksPacked(starts, marks, t), CopiesKept(starts, t),
         EndsAssigned(starts, t),
         LaidOut([starts |-> starts, marks |-> marks, table |-> t], Len(starts)),
         regions' = starts, columns' = marks, table' = t
  PROVE  KeygenInv'
  <1>1. Below(regions, columns)'
    BY DEF Below, Rgn
  <1>2. Kept(regions, table.fixed, Fixed)'
    BY DEF Kept, Rgn, Place
  <1>3. Bound(regions, columns, table)'
    BY DEF Bound, BoundAt, Rgn, ConstantsColumn, At
  <1>4. Packed(regions, table)'
    BY DEF Packed, EndsAt, Rgn
  <1>5. MarksPacked(regions, columns, table)'
    BY DEF MarksPacked, EndsAt, Rgn
  <1>6. CopiesKept(regions, table)'
    BY DEF CopiesKept, At, Rgn
  <1>7. EndsAssigned(regions, table)'
    <2>1. \A cell : IsAssigned(starts, cell) => IsAssigned(regions, cell)'
      BY AssignedStays
    <2> QED
      BY <2>1 DEF EndsAssigned
  <1>8. LaidOut([starts |-> regions, marks |-> columns, table |-> table], Len(regions))'
    BY LaidOutStays
  <1> QED
    BY <1>1, <1>2, <1>3, <1>4, <1>5, <1>6, <1>7, <1>8 DEF KeygenInv

LEMMA VkLaidOutStays ==
  ASSUME concrete' = concrete, vk' = vk, VkLaidOut
  PROVE  VkLaidOut'
  <1>1. PICK starts, marks : LaidOut([starts |-> starts, marks |-> marks, table |-> vk], Total)
    BY DEF VkLaidOut
  <1>2. PICK h : IsHistory(h, Total) /\ h[Total] = [starts |-> starts, marks |-> marks, table |-> vk]
    BY <1>1 DEF LaidOut
  <1>3. IsHistory(h, Total)'
    BY <1>2, SameCircuit DEF IsHistory, FirstLayout, EmptyTable, Total
  <1>4. (h[Total] = [starts |-> starts, marks |-> marks, table |-> vk])'
    BY <1>2 DEF Total
  <1>5. LaidOut([starts |-> starts, marks |-> marks, table |-> vk], Total)'
    BY <1>3, <1>4 DEF LaidOut
  <1> QED
    BY <1>5 DEF VkLaidOut

LEMMA KeyInvStays ==
  ASSUME concrete' = concrete, NEW starts, NEW t, KeyInv(starts, t),
         pk'.region_starts = starts, pk'.table = t
  PROVE  KeyInv(pk.region_starts, pk.table)'
  <1>1. Apart(pk.region_starts)'
    BY DEF KeyInv, Apart, Place, Rgn
  <1>2. (\E marks : Bound(pk.region_starts, marks, pk.table))'
    <2>1. PICK marks : Bound(starts, marks, t)
      BY DEF KeyInv
    <2>2. Bound(pk.region_starts, marks, pk.table)'
      BY <2>1 DEF Bound, BoundAt, Rgn, ConstantsColumn, At
    <2> QED
      BY <2>2
  <1>3. CopiesKept(pk.region_starts, pk.table)'
    BY DEF KeyInv, CopiesKept, At, Rgn
  <1>4. EndsAssigned(pk.region_starts, pk.table)'
    <2>1. \A cell : IsAssigned(starts, cell) => IsAssigned(pk.region_starts, cell)'
      BY AssignedStays
    <2> QED
      BY <2>1 DEF KeyInv, EndsAssigned
  <1> QED
    BY <1>1, <1>2, <1>3, <1>4 DEF KeyInv, Total

LEMMA KeygenRegionIInv ==
  ASSUME SynthesisInv, InKeygen, AssignRegion, ~AssignFails
  PROVE  SynthesisInv'
  <1>1. /\ Layouter /\ IsTable(table) /\ Apart(regions) /\ KeygenInv
        /\ pass \in {"keygen_vk", "keygen_pk"} /\ error = "none"
    BY DEF SynthesisInv, InKeygen
  <1>2. /\ j_next \in 1 .. Total
        /\ concrete.constants # << >> \/ NewRegion.constants = << >>
        /\ regions' = NewStarts /\ columns' = NewColumns /\ table' = NewTable
        /\ region_sink' = Capture(NewStart)
        /\ UNCHANGED <<concrete, pass, error, vk, pk>>
    BY <1>1, KeygenAssign
  <1>3. Apart(NewStarts) /\ Below(NewStarts, NewColumns)
    BY <1>1, <1>2, LaidApart DEF KeygenInv
  <1>4. IsTable(NewTable)
    BY <1>1, <1>2, KeygenTable
  <1>5. NewStart \in Nat /\ NewStarts \in Seq(Nat) /\ Len(NewStarts) = j_next
    BY <1>1, <1>2, LayFacts, AppendedStart DEF Layouter, NewStarts
  <1>6. NewColumns \in [RegionColumns -> Nat]
    BY <1>1, <1>2, ConstantRows
  <1>7. Kept(NewStarts, NewTable.fixed, Fixed)
    BY <1>1, <1>2, LaidKept DEF KeygenInv
  <1>8. Bound(NewStarts, NewColumns, NewTable)
    BY <1>1, <1>2, LaidBound DEF KeygenInv
  <1>9. Packed(NewStarts, NewTable) /\ MarksPacked(NewStarts, NewColumns, NewTable)
    BY <1>1, <1>2, LaidPacked DEF KeygenInv
  <1>10. CopiesKept(NewStarts, NewTable) /\ EndsAssigned(NewStarts, NewTable)
    BY <1>1, <1>2, LaidCopies, LaidEnds DEF KeygenInv
  <1>11. LaidOut([starts |-> NewStarts, marks |-> NewColumns, table |-> NewTable], j_next)
    BY <1>1, <1>2, LaidOutNext DEF KeygenInv
  <1>12. KeygenInv'
    BY <1>2, <1>3, <1>5, <1>7, <1>8, <1>9, <1>10, <1>11, KeygenInvStays
  <1>13. Layouter'
    BY <1>1, <1>2, <1>5, <1>6, TotalIsNat DEF Layouter, Total
  <1>14. IsTable(table)' /\ Apart(regions)'
    BY <1>2, <1>3, <1>4 DEF IsTable, Apart, Place, Rgn
  <1>15. /\ region_sink' \in Seq(Nat)
         /\ pass' = "keygen_pk" => region_sink' = regions'
    <2>1. CASE pass = "keygen_vk"
      <3>1. region_sink' = region_sink /\ pass' = "keygen_vk"
        BY <1>2, <2>1 DEF Capture
      <3> QED
        BY <3>1 DEF SynthesisInv
    <2>2. CASE pass = "keygen_pk"
      BY <1>2, <1>5, <2>2 DEF Capture, SynthesisInv, NewStarts
    <2> QED
      BY <1>1, <2>1, <2>2
  <1>16. pass' = "keygen_pk" => VkLaidOut'
    BY <1>2, VkLaidOutStays DEF SynthesisInv
  <1>17. pass' \in {"keygen_vk", "keygen_pk"} /\ error' = "none"
    BY <1>1, <1>2
  <1> QED
    BY <1>12, <1>13, <1>14, <1>15, <1>16, <1>17 DEF SynthesisInv

LEMMA FailureIInv ==
  ASSUME SynthesisInv, AssignFails
  PROVE  SynthesisInv'
  <1>1. Layouter' /\ IsTable(table)' /\ Apart(regions)' /\ region_sink' \in Seq(Nat)
    BY DEF SynthesisInv, AssignFails, Layouter, Total, IsTable, Apart, Place, Rgn
  <1>2. pass' = "failed" /\ error' # "none"
    BY DEF AssignFails
  <1> QED
    BY <1>1, <1>2 DEF SynthesisInv, InKeygen

(* assign_region_impl in the prover: the start comes from the key.         *)
KeyStarts == Append(regions, CachedStart)

LEMMA ProverAssign ==
  ASSUME Layouter, pass = "prove", AssignRegion
  PROVE  \/ AssignFails
         \/ /\ j_next \in 1 .. Total
            /\ regions' = KeyStarts
            /\ columns' = TakeConstantRows(columns, NewRegion)
            /\ table' = [table EXCEPT !.advice =
                  Overwrite(Assigned(j_next, KeyStarts[j_next], CellsOf(NewRegion, Advice)), @)]
            /\ UNCHANGED <<concrete, pass, error, region_sink, vk, pk>>
  <1> DEFINE failing == Failing(KeyStarts, CachedStart, columns, NewRegion)
  <1>1. j_next \in 1 .. Total /\ ~InKeygen
    <2>1. j_next \in Nat /\ 1 <= j_next
      BY LenProperties DEF Layouter, j_next
    <2> QED
      BY <2>1, TotalIsNat DEF InKeygen, AssignRegion, Total, Layouter
  <1>2. CASE failing = {}
    BY <1>1, <1>2 DEF AssignRegion, KeyStarts, NewRegion, Record, Rgn, Capture
  <1>3. CASE failing # {}
    <2>1. /\ error' \in failing /\ pass' = "failed"
          /\ UNCHANGED <<concrete, regions, columns, region_sink, table, vk, pk>>
      BY <1>1, <1>3 DEF AssignRegion, KeyStarts, NewRegion, Rgn
    <2> QED
      BY <2>1, FailingIsError DEF AssignFails
  <1> QED
    BY <1>2, <1>3

LEMMA ProverRegionIInv ==
  ASSUME SynthesisInv, pass = "prove", AssignRegion, ~AssignFails
  PROVE  SynthesisInv'
  <1>1. /\ Layouter /\ IsTable(table) /\ Apart(regions) /\ ProverInv
        /\ error = "none" /\ ~InKeygen /\ region_sink \in Seq(Nat)
    BY DEF SynthesisInv, InKeygen
  <1>2. /\ j_next \in 1 .. Total
        /\ regions' = KeyStarts
        /\ columns' = TakeConstantRows(columns, NewRegion)
        /\ table' = [table EXCEPT !.advice =
              Overwrite(Assigned(j_next, KeyStarts[j_next], CellsOf(NewRegion, Advice)), @)]
        /\ UNCHANGED <<concrete, pass, error, region_sink, vk, pk>>
    BY <1>1, ProverAssign
  <1>3. /\ pk.region_starts \in Seq(Nat) /\ Len(pk.region_starts) = Total /\ Apart(pk.region_starts)
        /\ \A u \in 1 .. Total : pk.region_starts[u] \in Nat
    BY <1>1, ElementOfSeq DEF ProverInv, KeyInv
  <1>4. CachedStart \in Nat /\ regions \in Seq(Nat)
    BY <1>1, <1>2, <1>3 DEF CachedStart, Layouter
  <1>5. /\ KeyStarts \in Seq(Nat) /\ Len(KeyStarts) = j_next /\ KeyStarts[j_next] = CachedStart
        /\ \A u \in 1 .. Len(regions) : KeyStarts[u] = regions[u]
        /\ \A u \in 1 .. j_next : u \in 1 .. Len(regions) \/ u = j_next
    BY <1>4, AppendedStart DEF KeyStarts
  <1>6. \A u \in 1 .. j_next : KeyStarts[u] = pk.region_starts[u] /\ u \in 1 .. Total
    <2>1. j_next \in Nat /\ Total \in Nat /\ j_next <= Total
      BY <1>1, <1>2, TotalIsNat DEF Layouter
    <2>2. \A u \in 1 .. j_next : u \in 1 .. Total
      BY <2>1
    <2>3. \A u \in 1 .. Len(regions) : KeyStarts[u] = pk.region_starts[u]
      BY <1>1, <1>5 DEF ProverInv
    <2>4. KeyStarts[j_next] = pk.region_starts[j_next]
      BY <1>5 DEF CachedStart
    <2> QED
      BY <1>5, <2>2, <2>3, <2>4
  <1>7. Apart(KeyStarts)
    <2>1. \A u \in 1 .. j_next : \A a : Place(KeyStarts, u, a) = Place(pk.region_starts, u, a)
      BY <1>6 DEF Place
    <2>2. 1 .. Len(KeyStarts) = 1 .. j_next /\ 1 .. Len(pk.region_starts) = 1 .. Total
      BY <1>3, <1>5
    <2>3. ASSUME NEW u \in 1 .. j_next, NEW m \in 1 .. j_next,
                 NEW a \in Rgn(u).cells, NEW b \in Rgn(m).cells,
                 Place(KeyStarts, u, a) = Place(KeyStarts, m, b)
          PROVE  u = m /\ a = b
      <3>1. Place(pk.region_starts, u, a) = Place(pk.region_starts, m, b)
        BY <2>1, <2>3
      <3>2. u \in 1 .. Len(pk.region_starts) /\ m \in 1 .. Len(pk.region_starts)
        BY <1>6, <2>2
      <3> QED
        BY <1>3, <3>1, <3>2 DEF Apart
    <2> QED
      BY <2>2, <2>3 DEF Apart
  <1>8. ASSUME NEW u \in 1 .. j_next, NEW cell \in CellsOf(Rgn(u), Advice)
        PROVE  /\ Place(KeyStarts, u, cell) \in DOMAIN table'.advice
               /\ table'.advice[Place(KeyStarts, u, cell)] = <<u, cell[1], cell[2]>>
    <2> DEFINE new == Assigned(j_next, KeyStarts[j_next], CellsOf(NewRegion, Advice))
    <2>1. table'.advice = Overwrite(new, table.advice)
      BY <1>1, <1>2 DEF IsTable
    <2>2. cell \in Rgn(u).cells
      BY DEF CellsOf
    <2>3. CASE u = j_next
      <3>1. /\ Place(KeyStarts, u, cell) \in DOMAIN new
            /\ new[Place(KeyStarts, u, cell)] = <<u, cell[1], cell[2]>>
        <4>1. cell \in CellsOf(NewRegion, Advice) /\ cell[2] \in Nat /\ KeyStarts[j_next] \in Nat
          BY <1>1, <1>2, <1>4, <1>5, <2>2, <2>3, RegionFacts DEF NewRegion, Layouter
        <4> DEFINE place == <<cell[1], KeyStarts[j_next] + cell[2]>>
        <4>2. place \in Placed(KeyStarts[j_next], CellsOf(NewRegion, Advice))
          BY <4>1 DEF Placed
        <4>3. new[place] = <<j_next, place[1], place[2] - KeyStarts[j_next]>> /\ place \in DOMAIN new
          BY <4>2 DEF Assigned
        <4>4. place[1] = cell[1] /\ place[2] - KeyStarts[j_next] = cell[2]
          BY <4>1
        <4> QED
          BY <2>3, <4>3, <4>4 DEF Place
      <3> QED
        BY <2>1, <3>1 DEF Overwrite
    <2>4. CASE u \in 1 .. Len(regions)
      <3>1. /\ Place(KeyStarts, u, cell) \in DOMAIN table.advice
            /\ table.advice[Place(KeyStarts, u, cell)] = <<u, cell[1], cell[2]>>
        BY <1>1, <1>5, <2>4 DEF ProverInv, Kept, Place
      <3>2. Place(KeyStarts, u, cell) \notin DOMAIN new
        <4>1. SUFFICES ASSUME NEW a \in CellsOf(NewRegion, Advice),
                              Place(KeyStarts, u, cell) = Place(KeyStarts, j_next, a)
                       PROVE  FALSE
          BY DEF Assigned, Placed, Place
        <4>2. a \in Rgn(j_next).cells
          BY DEF CellsOf, NewRegion
        <4>3. u = j_next
          BY <1>2, <1>5, <1>7, <2>2, <4>1, <4>2 DEF Apart
        <4>4. Len(regions) \in Nat
          BY <1>4, LenProperties
        <4> QED
          BY <2>4, <4>3, <4>4 DEF j_next
      <3> QED
        BY <2>1, <3>1, <3>2 DEF Overwrite
    <2> QED
      BY <1>5, <2>3, <2>4
  <1>9. ProverInv'
    <2>1. KeyInv(pk.region_starts, pk.table)'
      BY <1>1, <1>2, KeyInvStays DEF ProverInv
    <2>2. (vk = pk.table)' /\ (\A j \in 1 .. Len(regions) : regions[j] = pk.region_starts[j])'
      BY <1>1, <1>2, <1>5, <1>6 DEF ProverInv
    <2>3. Kept(regions, table.advice, Advice)'
      <3>1. \A u : CellsOf(Rgn(u), Advice)' = CellsOf(Rgn(u), Advice)
        BY <1>2 DEF CellsOf, Rgn
      <3>2. regions' = KeyStarts /\ Len(regions') = j_next
        BY <1>2, <1>5
      <3>3. \A u, cell : Place(regions, u, cell)' = Place(KeyStarts, u, cell)
        BY <3>2 DEF Place
      <3> QED
        BY <1>8, <3>1, <3>2, <3>3 DEF Kept
    <2> QED
      BY <2>1, <2>2, <2>3 DEF ProverInv
  <1>10. Layouter'
    <2>1. columns' \in [RegionColumns -> Nat]
      <3>1. columns \in [RegionColumns -> Nat] /\ Len(NewRegion.constants) \in Nat
        BY <1>1, <1>2, RegionFacts DEF Layouter, NewRegion
      <3>2. CASE concrete.constants = << >>
        BY <1>2, <3>1, <3>2 DEF TakeConstantRows
      <3>3. CASE concrete.constants # << >>
        <4>1. columns' = [columns EXCEPT ![ConstantsColumn] = @ + Len(NewRegion.constants)]
          BY <1>2, <3>3 DEF TakeConstantRows
        <4>2. ConstantsColumn \in RegionColumns
          BY <1>1, <3>3, ConstantsColumnIsFixed DEF Layouter
        <4> QED
          BY <3>1, <4>1, <4>2
      <3> QED
        BY <3>2, <3>3
    <2> QED
      BY <1>1, <1>2, <1>5, <2>1, TotalIsNat DEF Layouter, Total
  <1>11. IsTable(table)' /\ Apart(regions)'
    BY <1>1, <1>2, <1>5, <1>7 DEF IsTable, Apart, Place, Rgn
  <1>12. pass' = "prove" /\ error' = "none" /\ region_sink' \in Seq(Nat)
    BY <1>1, <1>2
  <1> QED
    BY <1>9, <1>10, <1>11, <1>12 DEF SynthesisInv, InKeygen

(* A synthesis starts with nothing laid out.                               *)
LEMMA StartsEmpty ==
  ASSUME concrete' = concrete, concrete \in ConcreteCircuits, NEW p, StartPass(p)
  PROVE  /\ Layouter' /\ IsTable(table)' /\ region_sink' = regions' /\ region_sink' \in Seq(Nat)
         /\ Apart(regions)' /\ KeygenInv' /\ Len(regions') = 0
         /\ Kept(regions, table.advice, Advice)'
  <1>1. regions' = << >> /\ Len(regions') = 0 /\ regions' \in Seq(Nat) /\ region_sink' = << >>
    BY EmptySeq DEF StartPass
  <1>2. table' = EmptyTable /\ IsTable(table)' /\ table'.copies = {}
    BY DEF StartPass, IsTable, EmptyTable
  <1>3. Layouter'
    <2>1. Len(concrete'.regions) \in Nat
      BY TotalIsNat DEF Total
    <2> QED
      BY <1>1, <2>1 DEF StartPass, Layouter, Total
  <1>4. LaidOut([starts |-> regions, marks |-> columns, table |-> table], Len(regions))'
    <2>1. LaidOut(FirstLayout, 0)'
      BY SameCircuit, NothingLaidOut DEF LaidOut, IsHistory, FirstLayout, EmptyTable
    <2>2. FirstLayout' = [starts |-> regions, marks |-> columns, table |-> table]'
      BY <1>1, <1>2 DEF FirstLayout, StartPass, EmptyTable
    <2> QED
      BY <1>1, <2>1, <2>2
  <1>5. Below(regions, columns)' /\ Kept(regions, table.fixed, Fixed)'
    BY <1>1 DEF Below, Kept
  <1>6. Bound(regions, columns, table)' /\ Packed(regions, table)'
    BY <1>1 DEF Bound, Packed
  <1>7. CopiesKept(regions, table)' /\ Apart(regions)' /\ Kept(regions, table.advice, Advice)'
    BY <1>1 DEF CopiesKept, Apart, Kept
  <1>8. MarksPacked(regions, columns, table)'
    BY DEF StartPass, MarksPacked
  <1>9. EndsAssigned(regions, table)'
    BY <1>2 DEF EndsAssigned
  <1> QED
    BY <1>1, <1>2, <1>3, <1>4, <1>5, <1>6, <1>7, <1>8, <1>9 DEF KeygenInv

LEMMA FinishVkIInv ==
  ASSUME SynthesisInv, FinishVk
  PROVE  SynthesisInv'
  <1>1. concrete \in ConcreteCircuits /\ KeygenInv /\ Len(regions) = Total /\ error = "none"
    BY DEF SynthesisInv, FinishVk, Synthesized, InKeygen, Layouter, Total
  <1>2. /\ UNCHANGED <<concrete, pk, error>> /\ StartPass("keygen_pk") /\ vk' = table
        /\ pass' = "keygen_pk"
    BY DEF FinishVk, StartPass
  <1>3. /\ Layouter' /\ IsTable(table)' /\ region_sink' = regions' /\ region_sink' \in Seq(Nat)
        /\ Apart(regions)' /\ KeygenInv'
    BY <1>1, <1>2, StartsEmpty
  <1>4. VkLaidOut'
    <2>1. PICK h : IsHistory(h, Total)
                   /\ h[Total] = [starts |-> regions, marks |-> columns, table |-> table]
      BY <1>1 DEF KeygenInv, LaidOut
    <2> DEFINE starts == regions
               marks == columns
    <2>2. IsHistory(h, Total)'
      BY <1>2, <2>1, SameCircuit DEF IsHistory, FirstLayout, EmptyTable, Total
    <2>3. h[Total'] = [starts |-> starts, marks |-> marks, table |-> vk']
      BY <1>2, <2>1 DEF Total
    <2> HIDE DEF starts, marks
    <2>4. \E s, m : IsHistory(h, Total)' /\ h[Total'] = [starts |-> s, marks |-> m, table |-> vk']
      BY <2>2, <2>3
    <2> QED
      BY <2>4 DEF VkLaidOut, LaidOut
  <1>5. error' = "none"
    BY <1>1, <1>2
  <1> QED
    BY <1>2, <1>3, <1>4, <1>5 DEF SynthesisInv

LEMMA FinishPkIInv ==
  ASSUME SynthesisInv, FinishPk
  PROVE  SynthesisInv'
  <1>1. /\ concrete \in ConcreteCircuits /\ KeygenInv /\ Len(regions) = Total /\ error = "none"
        /\ region_sink = regions /\ VkLaidOut /\ Apart(regions) /\ regions \in Seq(Nat)
    BY DEF SynthesisInv, FinishPk, Synthesized, InKeygen, Layouter, Total
  <1>2. /\ UNCHANGED <<concrete, vk, error>> /\ StartPass("prove") /\ pass' = "prove"
        /\ pk' = [table |-> table, region_starts |-> regions]
    BY <1>1 DEF FinishPk, StartPass
  <1>3. /\ Layouter' /\ IsTable(table)' /\ region_sink' \in Seq(Nat)
        /\ Apart(regions)' /\ Kept(regions, table.advice, Advice)' /\ Len(regions') = 0
    BY <1>1, <1>2, StartsEmpty
  <1>4. vk = table
    <2>1. PICK g : IsHistory(g, Total)
                   /\ g[Total] = [starts |-> regions, marks |-> columns, table |-> table]
      BY <1>1 DEF KeygenInv, LaidOut
    <2>2. PICK starts, marks : LaidOut([starts |-> starts, marks |-> marks, table |-> vk], Total)
      BY <1>1 DEF VkLaidOut
    <2>3. PICK h : IsHistory(h, Total) /\ h[Total] = [starts |-> starts, marks |-> marks, table |-> vk]
      BY <2>2 DEF LaidOut
    <2>4. g[Total] = h[Total]
      BY <1>1, <2>1, <2>3, HistoriesAgree, TotalIsNat
    <2>5. g[Total].table = table /\ h[Total].table = vk
      BY <2>1, <2>3
    <2> QED
      BY <2>4, <2>5
  <1>5. KeyInv(regions, table)
    BY <1>1 DEF KeyInv, KeygenInv
  <1>6. KeyInv(pk.region_starts, pk.table)'
    BY <1>2, <1>5, KeyInvStays
  <1>7. ProverInv'
    BY <1>2, <1>3, <1>4, <1>6 DEF ProverInv
  <1>8. error' = "none"
    BY <1>1, <1>2
  <1> QED
    BY <1>2, <1>3, <1>7, <1>8 DEF SynthesisInv, InKeygen

LEMMA FinishProofIInv ==
  ASSUME SynthesisInv, FinishProof
  PROVE  SynthesisInv'
  <1>1. /\ Layouter /\ IsTable(table) /\ region_sink \in Seq(Nat) /\ Apart(regions) /\ ProverInv
        /\ Len(regions) = Total /\ error = "none" /\ pass' = "done"
        /\ UNCHANGED <<concrete, regions, columns, region_sink, table, vk, pk, error>>
    BY DEF SynthesisInv, FinishProof, Synthesized, Total
  <1>2. Layouter' /\ IsTable(table)' /\ region_sink' \in Seq(Nat) /\ Apart(regions)'
    BY <1>1 DEF Layouter, Total, IsTable, Apart, Place, Rgn
  <1>3. KeyInv(pk.region_starts, pk.table)'
    BY <1>1, KeyInvStays DEF ProverInv
  <1>4. Kept(regions, table.advice, Advice)'
    BY <1>1 DEF ProverInv, Kept, Place, Rgn, CellsOf
  <1>5. ProverInv'
    BY <1>1, <1>3, <1>4 DEF ProverInv
  <1> QED
    BY <1>1, <1>2, <1>5 DEF SynthesisInv, InKeygen, Total

LEMMA StutterIInv ==
  ASSUME SynthesisInv, UNCHANGED synthesisVars
  PROVE  SynthesisInv'
  <1>1. UNCHANGED <<concrete, pass, regions, columns, region_sink, table, vk, pk, error>>
    BY DEF synthesisVars
  <1>2. /\ Layouter' /\ IsTable(table)' /\ region_sink' \in Seq(Nat) /\ Apart(regions)'
        /\ pass' \in {"keygen_vk", "keygen_pk", "prove", "done", "failed"}
        /\ pass' = "failed" <=> error' # "none"
        /\ pass' = "done" => Len(regions') = Total'
    BY <1>1 DEF SynthesisInv, Layouter, Total, IsTable, Apart, Place, Rgn
  <1>3. ASSUME InKeygen
        PROVE  KeygenInv'
    BY <1>1, <1>3, KeygenInvStays DEF SynthesisInv, KeygenInv
  <1>4. ASSUME pass = "keygen_pk"
        PROVE  (region_sink = regions)' /\ VkLaidOut'
    BY <1>1, <1>4, VkLaidOutStays DEF SynthesisInv
  <1>5. ASSUME pass \in {"prove", "done"}
        PROVE  ProverInv'
    <2>1. ProverInv
      BY <1>5 DEF SynthesisInv
    <2>2. KeyInv(pk.region_starts, pk.table)'
      BY <1>1, <2>1, KeyInvStays DEF ProverInv
    <2>3. Kept(regions, table.advice, Advice)'
      BY <1>1, <2>1 DEF ProverInv, Kept, Place, Rgn, CellsOf
    <2> QED
      BY <1>1, <2>1, <2>2, <2>3 DEF ProverInv
  <1> QED
    BY <1>1, <1>2, <1>3, <1>4, <1>5 DEF SynthesisInv, InKeygen

LEMMA NextIInv == SynthesisInv /\ [SynthesisNext]_synthesisVars => SynthesisInv'
  <1> SUFFICES ASSUME SynthesisInv, [SynthesisNext]_synthesisVars
               PROVE  SynthesisInv'
    OBVIOUS
  <1>1. CASE AssignRegion
    <2>1. CASE AssignFails
      BY <2>1, FailureIInv
    <2>2. CASE ~AssignFails /\ InKeygen
      BY <1>1, <2>2, KeygenRegionIInv
    <2>3. CASE ~AssignFails /\ pass = "prove"
      BY <1>1, <2>3, ProverRegionIInv
    <2> QED
      BY <1>1, <2>1, <2>2, <2>3 DEF AssignRegion
  <1>2. CASE FinishVk
    BY <1>2, FinishVkIInv
  <1>3. CASE FinishPk
    BY <1>3, FinishPkIInv
  <1>4. CASE FinishProof
    BY <1>4, FinishProofIInv
  <1>5. CASE UNCHANGED synthesisVars
    BY <1>5, StutterIInv
  <1> QED
    BY <1>1, <1>2, <1>3, <1>4, <1>5 DEF SynthesisNext

LEMMA AlwaysIInv == SynthesisSpec => []SynthesisInv
  BY InitIInv, NextIInv, PTL DEF SynthesisSpec
-----------------------------------------------------------------------------
(* What the invariant says.                                                *)

(* The place of a cell, as a reference.                                    *)
LEMMA PlaceIsAt ==
  ASSUME NEW starts, NEW j \in 1 .. Len(starts), NEW cell, Len(starts) \in Nat
  PROVE  At(starts, <<j, cell[1], cell[2]>>) = Place(starts, j, cell)
  BY DEF At, Place

LEMMA NothingIsOverwritten == SynthesisInv => NothingOverwritten
  <1> SUFFICES ASSUME SynthesisInv
               PROVE  NothingOverwritten
    OBVIOUS
  <1>1. Layouter /\ Apart(regions) /\ Len(regions) \in Nat /\ Total \in Nat
    BY LenProperties, TotalIsNat DEF SynthesisInv, Layouter
  <1>2. ASSUME NEW cols, NEW ref \in AllCells(cols)
        PROVE  \E j \in 1 .. Len(regions) : \E cell \in CellsOf(Rgn(j), cols) :
                  ref = <<j, cell[1], cell[2]>> /\ cell = <<cell[1], cell[2]>>
    <2>1. PICK j \in 1 .. Len(regions) :
                  ref \in {<<j, cell[1], cell[2]>> : cell \in CellsOf(concrete.regions[j], cols)}
      BY <1>2 DEF AllCells, Done
    <2>2. PICK cell \in CellsOf(Rgn(j), cols) : ref = <<j, cell[1], cell[2]>>
      BY <2>1 DEF Rgn
    <2>3. cell \in Rgn(j).cells /\ j \in 1 .. Total
      BY <1>1 DEF CellsOf, Layouter
    <2>4. cell = <<cell[1], cell[2]>>
      BY <1>1, <2>3, RegionFacts DEF Layouter
    <2> QED
      BY <2>2, <2>4
  <1>3. ASSUME NEW a \in AllCells(RegionColumns), NEW b \in AllCells(RegionColumns),
               At(regions, a) = At(regions, b)
        PROVE  a = b
    <2>1. PICK j \in 1 .. Len(regions) : \E cell \in CellsOf(Rgn(j), RegionColumns) :
                  a = <<j, cell[1], cell[2]>>
      BY <1>2
    <2>2. PICK x \in CellsOf(Rgn(j), RegionColumns) : a = <<j, x[1], x[2]>>
      BY <2>1
    <2>3. PICK m \in 1 .. Len(regions) : \E cell \in CellsOf(Rgn(m), RegionColumns) :
                  b = <<m, cell[1], cell[2]>>
      BY <1>2
    <2>4. PICK y \in CellsOf(Rgn(m), RegionColumns) : b = <<m, y[1], y[2]>>
      BY <2>3
    <2>5. Place(regions, j, x) = Place(regions, m, y)
      BY <1>1, <1>3, <2>2, <2>4, PlaceIsAt
    <2>6. x \in Rgn(j).cells /\ y \in Rgn(m).cells
      BY DEF CellsOf
    <2>7. j = m /\ x = y
      BY <1>1, <2>5, <2>6 DEF Apart
    <2> QED
      BY <2>2, <2>4, <2>7
  <1>4. ASSUME NEW cols, NEW values, Kept(regions, values, cols), NEW ref \in AllCells(cols)
        PROVE  values[At(regions, ref)] = ref
    <2>1. PICK j \in 1 .. Len(regions) : \E cell \in CellsOf(Rgn(j), cols) :
                  ref = <<j, cell[1], cell[2]>>
      BY <1>2, <1>4
    <2>2. PICK cell \in CellsOf(Rgn(j), cols) : ref = <<j, cell[1], cell[2]>>
      BY <2>1
    <2> QED
      BY <1>1, <1>4, <2>2, PlaceIsAt DEF Kept
  <1>5. InKeygen => \A ref \in AllCells(Fixed) : table.fixed[At(regions, ref)] = ref
    BY <1>4 DEF SynthesisInv, KeygenInv
  <1>6. pass \in {"prove", "done"} =>
           \A ref \in AllCells(Advice) : table.advice[At(regions, ref)] = ref
    BY <1>4 DEF SynthesisInv, ProverInv
  <1> QED
    BY <1>3, <1>5, <1>6 DEF NothingOverwritten

(* A constant bound in a table is bound by a copy of it.                   *)
LEMMA BoundBinds ==
  ASSUME NEW marks, NEW t, Bound(regions, marks, t), NEW j \in Done,
         NEW k \in DOMAIN concrete.regions[j].constants
  PROVE  Binds(t, concrete.regions[j].constants[k])
  <1> DEFINE const == concrete.regions[j].constants[k]
  <1>1. PICK row \in Nat : BoundAt(regions, t, const, row)
    BY DEF Bound, Done, Rgn
  <1> DEFINE p == << <<ConstantsColumn, row>>, At(regions, const.cell)>>
  <1>2. /\ p \in t.copies /\ p[2] = At(regions, const.cell) /\ p[1] = <<ConstantsColumn, row>>
        /\ p[1] \in DOMAIN t.fixed /\ t.fixed[p[1]] = const.value
    BY <1>1 DEF BoundAt
  <1> QED
    BY <1>2 DEF Binds

LEMMA ConstantsAreBound == SynthesisInv => ConstantsBound
  BY BoundBinds DEF SynthesisInv, KeygenInv, ConstantsBound

LEMMA PackedRegions == SynthesisInv => RegionsPacked
  <1> SUFFICES ASSUME SynthesisInv, InKeygen, NEW j \in Done, regions[j] # 0
               PROVE  \E c \in ColumnsOf(concrete.regions[j]) :
            \/ \E m \in 1..(j - 1) : /\ c \in ColumnsOf(concrete.regions[m])
                                     /\ regions[m] + RowCount(concrete.regions[m]) = regions[j]
            \/ \E p \in table.copies : p[1] = <<c, regions[j] - 1>>
    BY DEF RegionsPacked
  <1> QED
    BY DEF SynthesisInv, KeygenInv, Packed, EndsAt, Rgn, Done

LEMMA FittingProofs == SynthesisInv => ProofFitsKeys
  <1> SUFFICES ASSUME SynthesisInv, pass = "done"
               PROVE  ProofFitsKeys
    BY DEF ProofFitsKeys
  <1>1. /\ ProverInv /\ Len(regions) = Total /\ regions \in Seq(Nat)
        /\ Len(regions) \in Nat
    BY LenProperties DEF SynthesisInv, Layouter
  <1>2. regions = pk.region_starts
    BY <1>1, SeqEqual DEF ProverInv, KeyInv
  <1>3. KeyInv(regions, vk) /\ vk = pk.table
    BY <1>1, <1>2 DEF ProverInv
  <1>4. PICK marks : Bound(regions, marks, vk)
    BY <1>3 DEF KeyInv
  <1>5. \A j \in Done : \A k \in DOMAIN concrete.regions[j].constants :
              Binds(vk, concrete.regions[j].constants[k])
    BY <1>4, BoundBinds
  <1>6. \A j \in Done :
           /\ \A e \in concrete.regions[j].equal :
                 <<At(regions, e[1]), At(regions, e[2])>> \in vk.copies
           /\ Placed(regions[j], CellsOf(concrete.regions[j], Selectors)) \subseteq vk.enabled
    BY <1>3 DEF KeyInv, CopiesKept, Rgn, Done
  <1>7. ASSUME NEW p \in vk.copies, NEW cell \in {p[1], p[2]}, cell[1] \in Advice
        PROVE  cell \in DOMAIN table.advice
    <2>1. IsAssigned(regions, cell)
      BY <1>3, <1>7 DEF KeyInv, EndsAssigned
    <2> QED
      BY <1>1, <2>1 DEF IsAssigned, ProverInv, Kept
  <1> QED
    BY <1>3, <1>5, <1>6, <1>7 DEF ProofFitsKeys

LEMMA WellTyped == SynthesisInv => SynthesisTypeOK
  <1> SUFFICES ASSUME SynthesisInv
               PROVE  SynthesisTypeOK
    OBVIOUS
  <1>1. DOMAIN table = DOMAIN EmptyTable
    <2>1. IsTable(table)
      BY DEF SynthesisInv
    <2>2. DOMAIN table = {"fixed", "enabled", "copies", "advice"}
      BY <2>1 DEF IsTable
    <2>3. DOMAIN EmptyTable = {"fixed", "enabled", "copies", "advice"}
      BY DEF EmptyTable
    <2> QED
      BY <2>2, <2>3
  <1>2. pass = "prove" => pk.region_starts \in Seq(Nat) /\ Len(pk.region_starts) = Total
    BY DEF SynthesisInv, ProverInv, KeyInv
  <1> QED
    BY <1>1, <1>2 DEF SynthesisInv, Layouter, SynthesisTypeOK, Total
-----------------------------------------------------------------------------
(* The variables of the three passes have their types.                     *)
THEOREM SynthesisTyped == SynthesisSpec => []SynthesisTypeOK
  BY AlwaysIInv, WellTyped, PTL

(* Whatever the circuit, the columns and the rows: no region and no        *)
(* constant of the simple floor planner is laid over another, in keygen or *)
(* in the prover, and every constant is bound to the cell it was asked for.*)
THEOREM NothingIsLost == SynthesisSpec => []NothingLost
  BY AlwaysIInv, NothingIsOverwritten, ConstantsAreBound, PTL DEF NothingLost

(* A region starts where an earlier one, or a constant, of its columns     *)
(* ends: the planner leaves no gap that no column of the region needs.     *)
THEOREM RegionsArePacked == SynthesisSpec => []RegionsPacked
  BY AlwaysIInv, PackedRegions, PTL

(* The two keygen syntheses record the same table, and the starts that the *)
(* proving key keeps put the cells of the prover where that table expects. *)
THEOREM ProofsFitTheirKeys == SynthesisSpec => []ProofFitsKeys
  BY AlwaysIInv, FittingProofs, PTL
=============================================================================
