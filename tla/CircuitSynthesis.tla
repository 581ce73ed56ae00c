--------------------------- MODULE CircuitSynthesis ---------------------------
(***************************************************************************)
(* The three times a circuit is synthesized with the simple floor planner  *)
(* (proofs/src/circuit/floor_planner/single_pass.rs):                      *)
(*                                                                         *)
(*   keygen_vk   a plain synthesis into the keygen Assembly,               *)
(*   keygen_pk   a synthesis into a second Assembly that also captures     *)
(*               the row each region starts at (ProvingKey::region_starts),*)
(*   prove       a synthesis into the prover's WitnessCollection, which    *)
(*               takes the starts from the key and lays nothing out.       *)
(*                                                                         *)
(* A circuit is the fixed columns it was configured with for constants and *)
(* the sequence of its assign_region calls.  A region is a record: cells,  *)
(* the pairs <<column, offset>> it assigns or enables; equal, the pairs of *)
(* references it constrains to be equal; constants, the sequence of its    *)
(* constants, each with the reference it binds.  A reference               *)
(* <<j, column, offset>> names a cell relative to region j; j = 0 is the   *)
(* table itself, for the cells of the instance columns.                    *)
(***************************************************************************)
EXTENDS Integers, Sequences, FiniteSets

CONSTANTS Advice, Fixed, Selectors,   \* the columns, disjoint from one another
          EqualityColumns,    \* the columns of the permutation argument
          UsableRows,         \* n - (blinding_factors + 1)
          ConcreteCircuits    \* the circuits, [constants, regions], to synthesize

RegionColumns == Advice \cup Fixed \cup Selectors

ASSUME ColumnsDisjoint == /\ Advice \cap Fixed = {}
                          /\ Advice \cap Selectors = {}
                          /\ Fixed \cap Selectors = {}

(* What a region refers to are cells that were assigned when it did: of its*)
(* own, or of the regions before it; or instance cells.                    *)
References(r) == (UNION {{e[1], e[2]} : e \in r.equal})
                     \cup {r.constants[k].cell : k \in DOMAIN r.constants}
IsCell(c, j, ref) ==
    \/ ref[1] = 0 /\ ref[2] \notin RegionColumns /\ ref[3] \in Nat
    \/ ref[1] \in 1 .. j /\ <<ref[2], ref[3]>> \in c.regions[ref[1]].cells

IsRegion(c, j) ==
    LET r == c.regions[j]
    IN  /\ IsFiniteSet(r.cells) /\ r.cells \subseteq RegionColumns \X Nat
        /\ Len(r.constants) \in Nat /\ DOMAIN r.constants = 1 .. Len(r.constants)
        /\ \A ref \in References(r) : IsCell(c, j, ref)

ASSUME ConcreteCircuitsAssumption == \A c \in ConcreteCircuits :
    /\ c.constants \in Seq(Fixed)
    /\ \A k \in DOMAIN c.constants : c.constants[k] \in EqualityColumns
    /\ Len(c.regions) \in Nat
    /\ \A j \in 1 .. Len(c.regions) : IsRegion(c, j)
ASSUME UsableRowsAssumption == UsableRows \in Nat

VARIABLES concrete,       \* the circuit, the same in the three passes
          pass,           \* "keygen_vk", "keygen_pk", "prove", "done" or "failed"
          regions,        \* SingleChipLayouter::regions, the start of each region
          columns,        \* SingleChipLayouter::columns, first empty row of each
          region_sink,    \* what synthesize_capturing_regions has captured
          table,          \* what the pass has assigned: [fixed, enabled, copies, advice]
          vk, pk,         \* what the two keys were made from
          error           \* why synthesis failed

synthesisVars == <<concrete, pass, regions, columns, region_sink, table, vk, pk, error>>

NothingAssigned == << >>
EmptyTable == [fixed |-> NothingAssigned, enabled |-> {}, copies |-> {}, advice |-> NothingAssigned]

SynthesisInit == /\ concrete \in ConcreteCircuits
        /\ pass = "keygen_vk"
        /\ regions = << >> /\ region_sink = << >>
        /\ columns = [c \in RegionColumns |-> 0]
        /\ table = EmptyTable
        /\ vk = EmptyTable /\ pk = [table |-> EmptyTable, region_starts |-> << >>]
        /\ error = "none"

InKeygen == pass \in {"keygen_vk", "keygen_pk"}
-----------------------------------------------------------------------------
(* Where a reference lies once the regions have their starts.              *)
At(starts, ref) == <<ref[2], IF ref[1] = 0 THEN ref[3] ELSE starts[ref[1]] + ref[3]>>

(* The shape pass: the columns a region uses and the rows it spans.        *)
ColumnsOf(r)  == {cell[1] : cell \in r.cells}
RowCount(r)   == CHOOSE n \in {0} \cup {cell[2] + 1 : cell \in r.cells} :
                    \A cell \in r.cells : cell[2] < n

(* The largest first-empty row of the region's columns.                    *)
MutRegionStart(r) == CHOOSE n \in {columns[c] : c \in RegionColumns} :
                        \A c \in RegionColumns : columns[c] <= n
RegionStart(r) == CHOOSE n \in {0} \cup {columns[c] : c \in ColumnsOf(r)} :
                    \A c \in ColumnsOf(r) : columns[c] <= n

MutAdvance(r, start) == [c \in RegionColumns |->
    IF c \in ColumnsOf(r) THEN columns[c] + RowCount(r) ELSE columns[c]]
Advance(r, start) == [c \in RegionColumns |->
    IF c \in ColumnsOf(r) THEN start + RowCount(r) ELSE columns[c]]

(* The cells of region j among those of some columns, and where they lie.  *)
CellsOf(r, cols) == {cell \in r.cells : cell[1] \in cols}
Placed(start, cells) == {<<cell[1], start + cell[2]>> : cell \in cells}
Assigned(j, start, cells) ==
    [p \in Placed(start, cells) |-> <<j, p[1], p[2] - start>>]

(* Constants go to the first of the columns for constants.                 *)
ConstantsColumn == concrete.constants[1]

(* The row of the k-th constant of a region, below those already taken.    *)
ConstantRow(marks, k) == marks[ConstantsColumn] + k - 1

ConstantCells(marks, r) ==
    [p \in {<<ConstantsColumn, ConstantRow(marks, k)>> : k \in DOMAIN r.constants} |->
        r.constants[p[2] - marks[ConstantsColumn] + 1].value]

ConstantCopies(starts, marks, r) ==
    {<< <<ConstantsColumn, ConstantRow(marks, k)>>, At(starts, r.constants[k].cell)>> :
        k \in DOMAIN r.constants}

EqualCopies(starts, r) == {<<At(starts, e[1]), At(starts, e[2])>> : e \in r.equal}
-----------------------------------------------------------------------------
(* What the Assembly of keygen refuses while it runs the region's closure: *)
(* rows beyond the usable ones, but not those of advice cells, which it    *)
(* does not record, and copies of columns outside the permutation.         *)
OutOfRows(cells)   == \E cell \in cells : cell[2] >= UsableRows
EndsOf(copies)     == UNION {{p[1], p[2]} : p \in copies}
NotEquality(cells) == \E cell \in cells : cell[1] \notin EqualityColumns

Refusals(cells, copies) ==
    {e \in {"NotEnoughRowsAvailable", "ColumnNotInPermutation"} :
        \/ e = "NotEnoughRowsAvailable" /\ OutOfRows(cells \cup EndsOf(copies))
        \/ e = "ColumnNotInPermutation" /\ \E p \in copies :
              ~OutOfRows({p[1], p[2]}) /\ NotEquality({p[1], p[2]})}

BodyRefusals(starts, start, r) ==
    IF InKeygen
    THEN Refusals(Placed(start, CellsOf(r, Fixed \cup Selectors)), EqualCopies(starts, r))
    ELSE Refusals(Placed(start, CellsOf(r, Advice)), {})

(* Constants come after the closure, in every pass; the backend of the     *)
(* prover accepts and ignores them.                                        *)
ConstantRefusals(starts, marks, r) ==
    IF r.constants = << >> THEN {}
    ELSE IF concrete.constants = << >> THEN {"NotEnoughColumnsForConstants"}
    ELSE IF InKeygen THEN Refusals({}, ConstantCopies(starts, marks, r))
    ELSE {}

Failing(starts, start, marks, r) ==
    IF BodyRefusals(starts, start, r) # {} THEN BodyRefusals(starts, start, r)
    ELSE ConstantRefusals(starts, marks, r)

(* Assigning a cell again replaces its value.                              *)
Overwrite(new, old) ==
    [p \in DOMAIN new \cup DOMAIN old |-> IF p \in DOMAIN new THEN new[p] ELSE old[p]]

(* The Assembly takes fixed cells, selectors and copies; the prover takes  *)
(* advice cells.                                                           *)
Record(j, starts, marks, r) ==
    IF InKeygen
    THEN [table EXCEPT
            !.fixed = Overwrite(
                IF r.constants = << >> THEN NothingAssigned ELSE ConstantCells(marks, r),
                Overwrite(Assigned(j, starts[j], CellsOf(r, Fixed)), @)),
            !.enabled = @ \cup Placed(starts[j], CellsOf(r, Selectors)),
            !.copies = @ \cup EqualCopies(starts, r) \cup
                IF r.constants = << >> THEN {} ELSE ConstantCopies(starts, marks, r)]
    ELSE [table EXCEPT
            !.advice = Overwrite(Assigned(j, starts[j], CellsOf(r, Advice)), @)]

TakeConstantRows(marks, r) ==
    IF concrete.constants = << >> THEN marks
    ELSE [marks EXCEPT ![ConstantsColumn] = @ + Len(r.constants)]

j_next == Len(regions) + 1

(* assign_region_impl: place the region, or take its place from the key;   *)
(* run the closure; then bind the region's constants.                      *)
MutCachedStart == RegionStart(concrete.regions[j_next])
CachedStart == pk.region_starts[j_next]

Capture(start) == IF pass = "keygen_pk" THEN Append(region_sink, start) ELSE region_sink

AssignRegion ==
    /\ InKeygen \/ pass = "prove"
    /\ j_next <= Len(concrete.regions)
    /\ LET r == concrete.regions[j_next]
           start == IF pass = "prove" THEN CachedStart ELSE RegionStart(r)
           marks == IF pass = "prove" THEN columns ELSE Advance(r, start)
           starts == Append(regions, start)
           failing == Failing(starts, start, marks, r)
       IN IF failing = {}
          THEN /\ regions' = starts
               /\ columns' = TakeConstantRows(marks, r)
               /\ region_sink' = Capture(start)
               /\ table' = Record(j_next, starts, marks, r)
               /\ UNCHANGED <<pass, error>>
          ELSE /\ error' \in failing
               /\ pass' = "failed"
               /\ UNCHANGED <<regions, columns, region_sink, table>>
    /\ UNCHANGED <<concrete, vk, pk>>

(* A synthesis starts from an empty layouter and an empty backend.         *)
StartPass(p) == /\ pass' = p
                /\ regions' = << >> /\ region_sink' = << >>
                /\ columns' = [c \in RegionColumns |-> 0]
                /\ table' = EmptyTable

Synthesized(p) == pass = p /\ Len(regions) = Len(concrete.regions)

FinishVk == /\ Synthesized("keygen_vk")
            /\ vk' = table
            /\ StartPass("keygen_pk")
            /\ UNCHANGED <<concrete, pk, error>>

FinishPk == /\ Synthesized("keygen_pk")
            /\ pk' = [table |-> table, region_starts |-> region_sink]
            /\ StartPass("prove")
            /\ UNCHANGED <<concrete, vk, error>>

FinishProof == /\ Synthesized("prove")
               /\ pass' = "done"
               /\ UNCHANGED <<concrete, regions, columns, region_sink, table, vk, pk, error>>

SynthesisNext == AssignRegion \/ FinishVk \/ FinishPk \/ FinishProof

SynthesisSpec == SynthesisInit /\ [][SynthesisNext]_synthesisVars
-----------------------------------------------------------------------------
SynthesisTypeOK ==
    /\ concrete \in ConcreteCircuits
    /\ pass \in {"keygen_vk", "keygen_pk", "prove", "done", "failed"}
    /\ regions \in Seq(Nat) /\ region_sink \in Seq(Nat)
    /\ pass = "prove" => /\ pk.region_starts \in Seq(Nat)
                         /\ Len(pk.region_starts) = Len(concrete.regions)
    /\ columns \in [RegionColumns -> Nat]
    /\ DOMAIN table = DOMAIN EmptyTable
    /\ (pass = "failed") <=> (error # "none")

(* The constants of region j, once it has been processed, as references.   *)
Done == 1..Len(regions)
AllCells(cols) == UNION {{<<j, cell[1], cell[2]>> : cell \in CellsOf(concrete.regions[j], cols)} :
                              j \in Done}

(***************************************************************************)
(* A cell keeps what its region assigned to it: no later region, and no    *)
(* constant, is laid over it.  assign_fixed and assign_advice replace a    *)
(* value without a word, so an overlap would show up, if at all, as a      *)
(* circuit that cannot be satisfied, or as one that constrains less.       *)
(***************************************************************************)
NothingOverwritten ==
    /\ \A a, b \in AllCells(RegionColumns) : At(regions, a) = At(regions, b) => a = b
    /\ InKeygen => \A ref \in AllCells(Fixed) : table.fixed[At(regions, ref)] = ref
    /\ pass \in {"prove", "done"} =>
          \A ref \in AllCells(Advice) : table.advice[At(regions, ref)] = ref

(* A table binds a constant when it copies a fixed cell of that value to   *)
(* the cell the constant is for.                                           *)
Binds(t, const) == \E p \in t.copies : /\ p[2] = At(regions, const.cell)
                                       /\ p[1] \in DOMAIN t.fixed
                                       /\ t.fixed[p[1]] = const.value

(***************************************************************************)
(* Every constant of a processed region has a fixed cell that holds its    *)
(* value, copied to the very cell the region named, whatever was assigned  *)
(* in the constants column before or since.                                *)
(***************************************************************************)
ConstantsBound ==
    InKeygen => \A j \in Done : \A k \in DOMAIN concrete.regions[j].constants :
        Binds(table, concrete.regions[j].constants[k])

(* Synthesis loses nothing: neither what a region assigned, nor a constant *)
(* it asked for (single_pass.rs, assign_region_impl).                      *)
NothingLost == NothingOverwritten /\ ConstantsBound

(***************************************************************************)
(* A region starts at the earliest row below which none of its columns is  *)
(* used any more: just after the last row of an earlier region or constant *)
(* in one of its columns, or at row 0 when there is none.                  *)
(***************************************************************************)
RegionsPacked ==
    InKeygen => \A j \in Done : regions[j] # 0 =>
        \E c \in ColumnsOf(concrete.regions[j]) :
            \/ \E m \in 1..(j - 1) : /\ c \in ColumnsOf(concrete.regions[m])
                                     /\ regions[m] + RowCount(concrete.regions[m]) = regions[j]
            \/ \E p \in table.copies : p[1] = <<c, regions[j] - 1>>

(***************************************************************************)
(* The proof is made for the keys: the two keygen passes recorded the same *)
(* table, the prover put every advice cell on the row that the copies and  *)
(* selectors of the verifying key are about, although it laid nothing out  *)
(* itself, and every copy of the key ends in cells that are assigned.      *)
(***************************************************************************)
ProofFitsKeys ==
    pass = "done" =>
        /\ vk = pk.table
        /\ \A j \in Done : \A e \in concrete.regions[j].equal :
              <<At(regions, e[1]), At(regions, e[2])>> \in vk.copies
        /\ \A j \in Done : \A k \in DOMAIN concrete.regions[j].constants :
              Binds(vk, concrete.regions[j].constants[k])
        /\ \A j \in Done : Placed(regions[j], CellsOf(concrete.regions[j], Selectors)) \subseteq vk.enabled
        /\ \A p \in vk.copies : \A cell \in {p[1], p[2]} :
              (cell[1] \in Advice => cell \in DOMAIN table.advice)

=============================================================================
