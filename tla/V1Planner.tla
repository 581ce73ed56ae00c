------------------------------ MODULE V1Planner ------------------------------
(***************************************************************************)
(* The V1 floor planner's planning stage (circuit/floor_planner/v1.rs,     *)
(* V1::synthesize, and v1/strategy.rs): regions measured by a first pass   *)
(* are sorted by advice area, largest first, and slotted one by one into   *)
(* the earliest rows their columns leave free, gaps included; the          *)
(* constants then take the rows left free in the columns for constants,    *)
(* above the last row any region uses.                                     *)
(***************************************************************************)
EXTENDS Integers, Sequences, SequencesExt, FiniteSetsExt

CONSTANTS AdviceColumns,    \* the advice columns
          OtherColumns,     \* fixed columns and selectors
          ConstantColumns,  \* the columns for constants, in order
          ColumnOrder,      \* every column, as Ord of RegionColumn sorts them
          Circuits          \* the measured circuits: [shapes, constants]

RegionColumns == AdviceColumns \cup OtherColumns

IsShape(shape) == /\ shape.columns \subseteq RegionColumns /\ shape.row_count \in Nat
                  /\ shape.columns # {} => shape.row_count > 0

ASSUME ColumnsAssumption ==
    /\ AdviceColumns \cap OtherColumns = {} /\ IsFiniteSet(RegionColumns)
    /\ Len(ColumnOrder) \in Nat
    /\ RegionColumns = {ColumnOrder[i] : i \in 1 .. Len(ColumnOrder)}
ASSUME ConstantsAssumption ==      \* enable_constant keeps each column once
    /\ Len(ConstantColumns) \in Nat /\ DOMAIN ConstantColumns = 1 .. Len(ConstantColumns)
    /\ \A i \in DOMAIN ConstantColumns : ConstantColumns[i] \in OtherColumns
    /\ \A i, j \in DOMAIN ConstantColumns : ConstantColumns[i] = ConstantColumns[j] => i = j
ASSUME CircuitsAssumption == \A c \in Circuits :
    /\ Len(c.shapes) \in Nat /\ DOMAIN c.shapes = 1 .. Len(c.shapes)
    /\ \A i \in DOMAIN c.shapes : IsShape(c.shapes[i])
    /\ c.constants \in Nat

VARIABLES circuit,              \* shapes, one per region, and the number of constants
          sorted_regions,       \* indexes of the regions still to be slotted in
          region_starts,        \* RegionStart of each region, -1 before it has one
          column_allocations,   \* for each column, the set of allocated intervals
          constants,            \* positions of the constants, << >> before
          outcome               \* "planning", "planned" or NotEnoughColumnsForConstants

plannerVars == <<circuit, sorted_regions, region_starts, column_allocations, constants, outcome>>

Shape(i) == circuit.shapes[i]

AdviceArea(shape) == Cardinality(shape.columns \cap AdviceColumns) * shape.row_count

(* The elements of S in the order in which earlier[x] are those before x.  *)
Arranged(S, earlier) ==
    [n \in 1 .. Cardinality(S) |-> CHOOSE x \in S : Cardinality(earlier[x]) = n - 1]

(* A stable sort by area, then reversed: on a tie the later region first.  *)
BiggestAdviceFirst(shapes) ==
    Arranged(DOMAIN shapes,
             [i \in DOMAIN shapes |->
                {j \in DOMAIN shapes : \/ AdviceArea(shapes[j]) > AdviceArea(shapes[i])
                                      \/ /\ AdviceArea(shapes[j]) = AdviceArea(shapes[i])
                                         /\ j > i}])

PlannerInit ==
        /\ circuit \in Circuits
        /\ sorted_regions = BiggestAdviceFirst(circuit.shapes)
        /\ region_starts = [i \in DOMAIN circuit.shapes |-> -1]
        /\ column_allocations = [c \in RegionColumns |-> {}]
        /\ constants = << >>
        /\ outcome = "planning"
-----------------------------------------------------------------------------
(* Allocations: intervals [start, length], and the end of one.             *)
End(a) == a.start + a.length
InOrder(allocations) ==
    Arranged(allocations, [a \in allocations |-> {b \in allocations : b.start < a.start}])

(* Where the unbounded interval that is free begins.                       *)
UnboundedIntervalStart(allocations) ==
    IF allocations = {} THEN 0 ELSE End(Last(InOrder(allocations)))

NoEnd == -1      \* an interval without end

(* Allocations::free_intervals: one pass over the allocations, which keeps *)
(* the first row not yet accounted for and emits the gap before each       *)
(* allocation that starts below end.                                       *)
MutScanRow(row, a) == End(a)
ScanRow(row, a) == Max({row, End(a)})

FreeIntervals(allocations, start, end) ==
    LET in_order == InOrder(allocations)
        scan[n \in 0 .. Len(in_order)] ==
          IF n = 0 THEN [row |-> start, gaps |-> << >>]
          ELSE LET before == scan[n - 1]
                   a == in_order[n]
               IN IF end # NoEnd /\ a.start >= end THEN before
                  ELSE [row |-> ScanRow(before.row, a),
                        gaps |-> IF before.row < a.start
                                 THEN Append(before.gaps, [start |-> before.row, end |-> a.start])
                                 ELSE before.gaps]
        last == scan[Len(in_order)]
    IN IF end = NoEnd \/ last.row < end
       THEN Append(last.gaps, [start |-> last.row, end |-> end])
       ELSE last.gaps

(***************************************************************************)
(* first_fit_region, for the last n of the region's columns, within an     *)
(* interval: the first column's gaps in order; in each one that is long    *)
(* enough the remaining columns are tried, confined to that gap, which is  *)
(* what start and slack say.  Allocations are entered on the way back from *)
(* a success only, all of them at the row found, which Slot does.          *)
(***************************************************************************)
NoFit == -1
Interval == [start : Nat, end : Int]

RoomFor(space, length) == space.end = NoEnd \/ space.end - space.start >= length

MutFirstOf(fits) == Max(fits)
FirstOf(fits) == Min(fits)

FirstFitRegion(columns, length) ==
    LET fit[n \in 0 .. Len(columns)] ==
          [within \in Interval |->
             IF n = 0 THEN within.start
             ELSE LET column == columns[Len(columns) - n + 1]
                      spaces == FreeIntervals(column_allocations[column], within.start, within.end)
                      fits == {k \in DOMAIN spaces : /\ RoomFor(spaces[k], length)
                                                     /\ fit[n - 1][spaces[k]] # NoFit}
                  IN IF fits = {} THEN NoFit ELSE fit[n - 1][spaces[FirstOf(fits)]]]
    IN fit[Len(columns)][[start |-> 0, end |-> NoEnd]]

Ord(c) == CHOOSE i \in 1 .. Len(ColumnOrder) : ColumnOrder[i] = c
SortedColumns(shape) ==
    Arranged(shape.columns, [c \in shape.columns |-> {d \in shape.columns : Ord(d) < Ord(c)}])

(* One region of slot_in.                                                  *)
Slot ==
    /\ sorted_regions # << >>
    /\ LET i == Head(sorted_regions)
           row == FirstFitRegion(SortedColumns(Shape(i)), Shape(i).row_count)
       IN /\ region_starts' = [region_starts EXCEPT ![i] = row]
          /\ column_allocations' = [c \in RegionColumns |->
                IF c \in Shape(i).columns
                THEN column_allocations[c] \cup {[start |-> row, length |-> Shape(i).row_count]}
                ELSE column_allocations[c]]
    /\ sorted_regions' = Tail(sorted_regions)
    /\ UNCHANGED <<circuit, constants, outcome>>

FirstUnassignedRow ==
    Max({0} \cup {UnboundedIntervalStart(column_allocations[c]) : c \in RegionColumns})

PositionsIn(c) ==
    LET spaces == FreeIntervals(column_allocations[c], 0, FirstUnassignedRow)
        RowsOf(space) == [k \in 1..(space.end - space.start) |-> <<c, space.start + k - 1>>]
    IN FlattenSeq([k \in DOMAIN spaces |-> RowsOf(spaces[k])])

ConstantPositions ==
    FlattenSeq([k \in DOMAIN ConstantColumns |-> PositionsIn(ConstantColumns[k])])

PlaceConstants ==
    /\ outcome = "planning" /\ sorted_regions = << >>
    /\ IF Len(ConstantPositions) < circuit.constants
       THEN /\ outcome' = "NotEnoughColumnsForConstants"
            /\ UNCHANGED constants
       ELSE /\ outcome' = "planned"
            /\ constants' = SubSeq(ConstantPositions, 1, circuit.constants)
    /\ UNCHANGED <<circuit, sorted_regions, region_starts, column_allocations>>

PlannerNext == Slot \/ PlaceConstants

PlannerSpec == PlannerInit /\ [][PlannerNext]_plannerVars
-----------------------------------------------------------------------------
PlannerTypeOK ==
    /\ circuit \in Circuits
    /\ ToSet(sorted_regions) \subseteq DOMAIN circuit.shapes
    /\ \A i \in DOMAIN region_starts : i \notin ToSet(sorted_regions) => region_starts[i] \in Nat
    /\ \A c \in RegionColumns : \A a \in column_allocations[c] :
          a.start \in Nat /\ a.length \in Nat \ {0}
    /\ outcome \in {"planning", "planned", "NotEnoughColumnsForConstants"}

InUse(c, row) == \E a \in column_allocations[c] : a.start <= row /\ row < End(a)

(***************************************************************************)
(* free_intervals returns, in order, nonempty intervals whose union is     *)
(* exactly the rows of [start, end) no region occupies, wherever start and *)
(* end fall relative to the allocations, inside one included.  The         *)
(* assertion on slack in first_fit_region rests on this.                   *)
(***************************************************************************)
FreeIntervalsExact ==
    LET horizon == FirstUnassignedRow + 1
    IN \A c \in RegionColumns, start \in 0..horizon : \A end \in (start + 1)..horizon :
          LET spaces == FreeIntervals(column_allocations[c], start, end)
          IN /\ \A k \in DOMAIN spaces : spaces[k].start < spaces[k].end
             /\ \A k \in 1..(Len(spaces) - 1) : spaces[k].end < spaces[k + 1].start
             /\ UNION {(spaces[k].start)..(spaces[k].end - 1) : k \in DOMAIN spaces}
                  = {row \in start..(end - 1) : ~InUse(c, row)}

(***************************************************************************)
(* slot_in "positions the regions starting at the earliest row for which   *)
(* none of the columns are in use, taking into account gaps between        *)
(* earlier regions": backtracking over the gaps of one column after        *)
(* another finds the row a search over all rows would.                     *)
(***************************************************************************)
Vacant(shape, row) ==
    \A c \in shape.columns, k \in 0..(shape.row_count - 1) : ~InUse(c, row + k)

EarliestRow(shape) == Min({row \in 0..FirstUnassignedRow : Vacant(shape, row)})

SlotsAtEarliestRow ==
    [][sorted_regions' # sorted_regions =>
         region_starts'[Head(sorted_regions)] = EarliestRow(Shape(Head(sorted_regions)))]_plannerVars

(***************************************************************************)
(* Regions never overlap, and each one has the start, under its own index, *)
(* of rows allocated to it, although they were laid out in another order.  *)
(***************************************************************************)
RowsOf(i) == region_starts[i]..(region_starts[i] + Shape(i).row_count - 1)
Slotted == DOMAIN region_starts \ ToSet(sorted_regions)

RegionsDisjoint ==
    /\ \A i, j \in Slotted : i # j /\ Shape(i).columns \cap Shape(j).columns # {}
                                => RowsOf(i) \cap RowsOf(j) = {}
    /\ \A i \in Slotted : \A c \in Shape(i).columns :
          [start |-> region_starts[i], length |-> Shape(i).row_count] \in column_allocations[c]

(***************************************************************************)
(* The constants of a planned circuit lie on distinct cells of the columns *)
(* for constants that no region covers, and add no row to the circuit.     *)
(***************************************************************************)
ConstantsInGaps ==
    outcome = "planned" =>
        /\ Len(constants) = circuit.constants
        /\ \A k \in DOMAIN constants : /\ constants[k][1] \in ToSet(ConstantColumns)
                                       /\ ~InUse(constants[k][1], constants[k][2])
                                       /\ constants[k][2] < FirstUnassignedRow
                                       /\ \A m \in DOMAIN constants :
                                             constants[m] = constants[k] => m = k

(***************************************************************************)
(* The plan as a whole: the scan of the free rows that it is made from,    *)
(* the regions it places and the constants it pours into the rest          *)
(* (v1.rs, strategy.rs) are right together, after every region.            *)
(***************************************************************************)
PlanIsSound == FreeIntervalsExact /\ RegionsDisjoint /\ ConstantsInGaps
=============================================================================
