------------------------- MODULE PermutationAssembly -------------------------
(***************************************************************************)
(* The keygen-side builder of the permutation argument                     *)
(* (proofs/src/plonk/permutation/keygen.rs, struct Assembly): a            *)
(* permutation of the cells of the equality-enabled columns whose cycles   *)
(* are the classes of cells the circuit constrains to be equal.  copy      *)
(* joins two cycles by exchanging the successors of the two cells, after   *)
(* relabelling the smaller cycle with the representative of the larger.    *)
(*                                                                         *)
(* A cell is a pair <<column, row>>.  The code replaces a column by its    *)
(* position in Argument::columns; positions are one-to-one with columns,   *)
(* so the model keys the tables by the column itself.                      *)
(***************************************************************************)
EXTENDS Integers, FiniteSets, Sequences, NaturalRecursion

CONSTANTS Columns,        \* the columns of the permutation argument
          OtherColumns,   \* columns of the circuit that are not in it
          N               \* rows of the table (2^k in the code)

ASSUME ColumnsAssumption == IsFiniteSet(Columns) /\ Columns \cap OtherColumns = {}
ASSUME NAssumption == N \in Nat

Rows  == 0..(N - 1)
Cells == Columns \X Rows

(***************************************************************************)
(* The references a caller can pass: any column, and any row.  The first   *)
(* row out of range stands for all of them.                                *)
(***************************************************************************)
Refs == (Columns \cup OtherColumns) \X (0..N)

VARIABLES mapping,        \* the permutation: the next cell of a cell's cycle
          aux,            \* the representative of a cell's cycle
          sizes,          \* the length of the cycle, at its representative
          pc,             \* where the call in progress stands
          left, right,    \* the two cells of that call
          left_cycle, right_cycle,
          cursor,         \* its local variables (i in the code)
          answer,         \* the Result of the last call
          relabels        \* AUXILIARY: how often each cell has been relabelled

assembly == <<mapping, aux, sizes>>
locals   == <<left, right, left_cycle, right_cycle, cursor>>
vars     == <<mapping, aux, sizes, pc, left, right, left_cycle, right_cycle, cursor,
              answer, relabels>>

NoCell == << >>

Init == /\ mapping = [c \in Cells |-> c]
        /\ aux = [c \in Cells |-> c]
        /\ sizes = [c \in Cells |-> 1]
        /\ pc = "idle"
        /\ left = NoCell /\ right = NoCell
        /\ left_cycle = NoCell /\ right_cycle = NoCell /\ cursor = NoCell
        /\ answer = "none"
        /\ relabels = [c \in Cells |-> 0]
-----------------------------------------------------------------------------
(* copy(left_column, left_row, right_column, right_row) is entered.        *)
Call(l, r) == /\ pc = "idle"
              /\ pc' = "lookup"
              /\ left' = l /\ right' = r
              /\ answer' = "none"
              /\ UNCHANGED <<assembly, left_cycle, right_cycle, cursor, relabels>>

InArgument(ref) == ref[1] \in Columns
InBounds(ref)   == ref[2] < N

Return(a) == /\ pc' = "idle"
             /\ answer' = a
             /\ left' = NoCell /\ right' = NoCell
             /\ left_cycle' = NoCell /\ right_cycle' = NoCell /\ cursor' = NoCell

(* The left column is looked up before the right one, and both before any  *)
(* row is compared with the table's height.                                *)
RefuseColumn == /\ pc = "lookup"
                /\ ~(InArgument(left) /\ InArgument(right))
                /\ Return("ColumnNotInPermutation")
                /\ UNCHANGED <<assembly, relabels>>

RefuseBounds == /\ pc = "lookup"
                /\ InArgument(left) /\ InArgument(right)
                /\ ~(InBounds(left) /\ InBounds(right))
                /\ Return("BoundsFailure")
                /\ UNCHANGED <<assembly, relabels>>

Accepted == /\ InArgument(left) /\ InArgument(right)
            /\ InBounds(left) /\ InBounds(right)

AlreadyEqual == /\ pc = "lookup"
                /\ Accepted
                /\ aux[left] = aux[right]
                /\ Return("Ok")
                /\ UNCHANGED <<assembly, relabels>>

(* The larger cycle absorbs the smaller; on a tie, the left cell's absorbs. *)
MutNeverSwap == FALSE
SwapSides == sizes[aux[left]] < sizes[aux[right]]

Survivor == IF SwapSides THEN aux[right] ELSE aux[left]
Absorbed == IF SwapSides THEN aux[left] ELSE aux[right]

MutStartCursor == /\ pc = "lookup"
                  /\ Accepted
                  /\ aux[left] # aux[right]
                  /\ left_cycle' = Survivor
                  /\ right_cycle' = Absorbed
                  /\ sizes' = [sizes EXCEPT ![Survivor] = @ + sizes[Absorbed]]
                  /\ pc' = "walk"
                  /\ UNCHANGED <<mapping, aux, cursor, left, right, answer, relabels>>

MutStart == /\ pc = "lookup"
            /\ Accepted
            /\ aux[left] # aux[right]
            /\ left_cycle' = Survivor
            /\ right_cycle' = Absorbed
            /\ sizes' = [sizes EXCEPT ![aux[left]] = @ + sizes[aux[right]]]
            /\ cursor' = Absorbed
            /\ pc' = "walk"
            /\ UNCHANGED <<mapping, aux, left, right, answer, relabels>>

Start == /\ pc = "lookup"
         /\ Accepted
         /\ aux[left] # aux[right]
         /\ left_cycle' = Survivor
         /\ right_cycle' = Absorbed
         /\ sizes' = [sizes EXCEPT ![Survivor] = @ + sizes[Absorbed]]
         /\ cursor' = Absorbed
         /\ pc' = "walk"
         /\ UNCHANGED <<mapping, aux, left, right, answer, relabels>>

MutWalk == /\ pc = "walk"
           /\ aux' = [aux EXCEPT ![mapping[cursor]] = left_cycle]
           /\ relabels' = [relabels EXCEPT ![mapping[cursor]] = @ + 1]
           /\ cursor' = mapping[cursor]
           /\ pc' = IF mapping[mapping[cursor]] = right_cycle THEN "splice" ELSE "walk"
           /\ UNCHANGED <<mapping, sizes, left, right, left_cycle, right_cycle, answer>>

MutWalkEndless == /\ pc = "walk"
                  /\ aux' = [aux EXCEPT ![cursor] = left_cycle]
                  /\ UNCHANGED <<mapping, sizes, pc, left, right, left_cycle, right_cycle, cursor,
                                 answer, relabels>>

(* One turn of the loop, which tests its condition after the body.         *)
Walk == /\ pc = "walk"
        /\ aux' = [aux EXCEPT ![cursor] = left_cycle]
        /\ relabels' = [relabels EXCEPT ![cursor] = @ + 1]
        /\ cursor' = mapping[cursor]
        /\ pc' = IF mapping[cursor] = right_cycle THEN "splice" ELSE "walk"
        /\ UNCHANGED <<mapping, sizes, left, right, left_cycle, right_cycle, answer>>

MutSplice == /\ pc = "splice"
             /\ mapping' = [mapping EXCEPT ![left] = mapping[right]]
             /\ Return("Ok")
             /\ UNCHANGED <<aux, sizes, relabels>>

Splice == /\ pc = "splice"
          /\ mapping' = [mapping EXCEPT ![left] = mapping[right],
                                        ![right] = mapping[left]]
          /\ Return("Ok")
          /\ UNCHANGED <<aux, sizes, relabels>>

Step == RefuseColumn \/ RefuseBounds \/ AlreadyEqual \/ Start \/ Walk \/ Splice

Next == (\E l, r \in Refs : Call(l, r)) \/ Step

Spec == Init /\ [][Next]_vars
(* The caller decides whether there is another call; a call, once made,    *)
(* runs to its end: it is sequential code that waits for nobody.           *)
FairSpec == Spec /\ WF_vars(Step)
-----------------------------------------------------------------------------
ClosedUnder(m, T) == \A c \in T : m[c] \in T

(* The cells a walk along m meets when it starts at c: the least set that  *)
(* holds c and is closed under m.                                          *)
OrbitOf(m, c) == {d \in Cells : \A T \in SUBSET Cells :
                                  c \in T /\ ClosedUnder(m, T) => d \in T}

Orbit(c) == OrbitOf(mapping, c)
Class(c) == {d \in Cells : aux[d] = aux[c]}

CellOrNone == Cells \cup {NoCell}

TypeOK == /\ mapping \in [Cells -> Cells]
          /\ aux \in [Cells -> Cells]
          /\ sizes \in [Cells -> Nat]
          /\ relabels \in [Cells -> Nat]
          /\ pc \in {"idle", "lookup", "walk", "splice"}
          /\ answer \in {"none", "Ok", "ColumnNotInPermutation", "BoundsFailure"}
          /\ left \in Refs \cup {NoCell} /\ right \in Refs \cup {NoCell}
          /\ left_cycle \in CellOrNone /\ right_cycle \in CellOrNone
          /\ cursor \in CellOrNone
          /\ pc # "idle" => left \in Refs /\ right \in Refs
          /\ pc \in {"walk", "splice"} => /\ left \in Cells /\ right \in Cells
                                         /\ left_cycle \in Cells
                                         /\ right_cycle \in Cells
                                         /\ cursor \in Cells

Settled == pc \in {"idle", "lookup"}

(***************************************************************************)
(* Between calls the two tables tell the same story: the cells that share  *)
(* a representative are those of one cycle of the permutation, and the     *)
(* representative is itself one of them.  copy relies on the labels to     *)
(* decide whether there is anything to merge; a label that disagreed with  *)
(* the cycles would make a later copy split a class in two, and the proof  *)
(* system would stop enforcing an equality the circuit asked for.          *)
(***************************************************************************)
CyclesAreClasses == Settled => \A c \in Cells : /\ Class(c) = Orbit(c)
                                                /\ aux[c] \in Orbit(c)

(***************************************************************************)
(* Between calls the size kept at a representative is the number of cells  *)
(* of its class, whichever side absorbed the other.                        *)
(***************************************************************************)
SizesCountClasses == Settled => \A c \in Cells : sizes[aux[c]] = Cardinality(Orbit(c))

(***************************************************************************)
(* Only the smaller class is relabelled, so a cell relabelled k times lies *)
(* in a class of at least 2^k cells: the relabelling of any sequence of n  *)
(* copies costs O(n log n), however the circuit orders them.               *)
(***************************************************************************)
RelabelsLogarithmic == Settled =>
    \A c \in Cells : Pow2[relabels[c]] <= Cardinality(Orbit(c))

(* copy's loop, whose only exit is meeting its starting cell, is left.     *)
CopyReturns == (pc # "idle") ~> (pc = "idle")

(***************************************************************************)
(* The tables implement the partition: a call that answers Ok has merged   *)
(* exactly the classes of its two cells, a call that answers an error has  *)
(* merged nothing, and nothing is merged at any other time.                *)
(***************************************************************************)
Abstract == INSTANCE EqualityClasses
    WITH eq <- {p \in Cells \X Cells : p[2] \in Orbit(p[1])},
         call <- IF pc = "idle" THEN << >> ELSE <<left, right>>,
         answer <- IF answer \in {"none", "Ok"} THEN answer ELSE "Err"

ImplementsEqualityClasses == Abstract!Spec
-----------------------------------------------------------------------------
(***************************************************************************)
(* The inductive invariant.  During a walk the permutation is that of the  *)
(* last settled state; W are the cells of the absorbed cycle that already  *)
(* carry the surviving label, and cursor is the next one.                  *)
(***************************************************************************)
Permutes == \A c, d \in Cells : mapping[c] = mapping[d] => c = d

OrbitsPartition == \A c, d \in Cells : d \in Orbit(c) => Orbit(d) = Orbit(c)

Walked == {c \in Orbit(right_cycle) : aux[c] = left_cycle}

Merging == pc \in {"walk", "splice"} =>
    /\ \/ left \in Orbit(left_cycle) /\ right \in Orbit(right_cycle)
       \/ left \in Orbit(right_cycle) /\ right \in Orbit(left_cycle)
    /\ Orbit(left_cycle) \cap Orbit(right_cycle) = {}
    /\ \A c \in Orbit(left_cycle) : aux[c] = left_cycle
    /\ \A c \in Orbit(right_cycle) : aux[c] \in {left_cycle, right_cycle}
    /\ \A c \in Cells \ (Orbit(left_cycle) \cup Orbit(right_cycle)) :
          aux[c] \in Orbit(c) /\ Class(c) = Orbit(c)
    /\ sizes[left_cycle] = Cardinality(Orbit(left_cycle)) + Cardinality(Orbit(right_cycle))
    /\ \A c \in Cells \ (Orbit(left_cycle) \cup Orbit(right_cycle)) :
          sizes[aux[c]] = Cardinality(Orbit(c))

Walking == pc = "walk" =>
    /\ cursor \in Orbit(right_cycle) /\ aux[cursor] = right_cycle
    /\ \/ cursor = right_cycle /\ Walked = {}
       \/ /\ right_cycle \in Walked
          /\ \A w \in Walked : mapping[w] \in Walked \cup {cursor}
          /\ \A w \in (Walked \cup {cursor}) \ {right_cycle} :
                \E v \in Walked : mapping[v] = w

Relabelled == pc = "splice" => \A c \in Orbit(right_cycle) : aux[c] = left_cycle

(* While it is relabelled, the absorbed cycle is no longer than the other,  *)
(* so that the cells that have their new label count it twice at most.     *)
RelabelsBounded ==
    /\ RelabelsLogarithmic
    /\ pc \in {"walk", "splice"} =>
          /\ Cardinality(Orbit(right_cycle)) <= Cardinality(Orbit(left_cycle))
          /\ \A c \in Cells \ Walked : Pow2[relabels[c]] <= Cardinality(Orbit(c))
          /\ \A c \in Walked : Pow2[relabels[c]] <= 2 * Cardinality(Orbit(right_cycle))

IInv == /\ TypeOK
        /\ Permutes
        /\ OrbitsPartition
        /\ CyclesAreClasses
        /\ SizesCountClasses
        /\ Merging
        /\ Walking
        /\ Relabelled
=============================================================================
