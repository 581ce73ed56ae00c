---------------------------- MODULE CircuitSizing ----------------------------
(***************************************************************************)
(* How large a circuit is taken to be.  Two backends of synthesis only     *)
(* watch the rows that are used: DevAssembly                               *)
(* (proofs/src/dev/cost_model.rs), from which keygen_vk gets its k, and    *)
(* RowSizer (proofs/src/dev/mod.rs), from which MockProver does.  The      *)
(* third, the keygen Assembly (proofs/src/plonk/keygen.rs), then receives  *)
(* the same calls and refuses those beyond the usable rows of that k.      *)
(*                                                                         *)
(* A region is a record [advice, fixed, selectors, constants]: the rows it *)
(* assigns in advice and in fixed columns, the rows where it enables a     *)
(* selector, and how many constants it binds to its first advice cell.     *)
(***************************************************************************)
EXTENDS Integers, FiniteSets, NaturalRecursion

CONSTANTS Regions,          \* the regions a circuit may assign
          TableLengths,     \* the lengths a lookup table may have
          InstanceRows,     \* the instance rows a circuit may constrain
          BlindingFactors,  \* ConstraintSystem::blinding_factors
          MaxRotation,      \* the largest rotation a gate queries, 0 if none is positive
          MaxCalls          \* BOUND on the layouter calls of a circuit

ASSUME SizesAssumption ==
    /\ BlindingFactors \in Nat /\ BlindingFactors >= 6
    /\ MaxRotation \in Nat /\ MaxCalls \in Nat
    /\ TableLengths \subseteq Nat \ {0} /\ InstanceRows \subseteq Nat
    /\ \A r \in Regions :
          /\ \A rows \in {r.advice, r.fixed, r.selectors} : rows \subseteq Nat /\ IsFiniteSet(rows)
          /\ r.constants \in Nat /\ (r.constants # 0 => r.advice # {})

VARIABLES calls,          \* the calls made, as <<kind, row>>
          ncalls,         \* how many layouter calls made them
          next_constant_row,
          regions,        \* DevAssembly::regions, the extents of each
          instance_rows, in_measured_region, has_measured_regions,  \* DevAssembly
          max_row,        \* RowSizer::max_row
          k, sizer_k,     \* the sizes computed, or Unsized
          stage              \* "synthesis", "sized", "keyed", "proved" or "refused"

dev  == <<regions, instance_rows, in_measured_region, has_measured_regions>>
sizingVars == <<calls, ncalls, next_constant_row, dev, max_row, k, sizer_k, stage>>

Unsized == -1
Largest(S) == CHOOSE n \in S \cup {0} : \A m \in S : m <= n
Least(S)   == CHOOSE n \in S : \A m \in S : n <= m

SizingInit == /\ calls = {} /\ ncalls = 0 /\ next_constant_row = 0
              /\ regions = {} /\ instance_rows = 0
              /\ in_measured_region = FALSE /\ has_measured_regions = FALSE
              /\ max_row = 0
              /\ k = Unsized /\ sizer_k = Unsized
              /\ stage = "synthesis"
-----------------------------------------------------------------------------
(* A call of the layouter: the three backends see the same rows.           *)
Synthesizing == stage = "synthesis" /\ ncalls < MaxCalls

MakeCalls(new) == /\ calls' = calls \cup new
                  /\ ncalls' = ncalls + 1
                  /\ max_row' = Largest({max_row} \cup {c[2] : c \in {d \in new : d[1] # "fill"}})
                  /\ UNCHANGED <<k, sizer_k, stage>>

(* The markers of a measurement are names of namespaces.                   *)
PushNamespace(start) ==
    /\ Synthesizing
    /\ in_measured_region' = start
    /\ has_measured_regions' = (has_measured_regions \/ start)
    /\ MakeCalls({})
    /\ UNCHANGED <<regions, instance_rows, next_constant_row>>

(* update_extent sees the cells assigned between enter_region and          *)
(* exit_region; a region that assigns none has no extent.                  *)
Extent(r) == IF r.advice \cup r.fixed = {} THEN {}
             ELSE {[start |-> Least(r.advice \cup r.fixed),
                    end |-> Largest(r.advice \cup r.fixed),
                    only_fixed |-> r.advice = {},
                    is_measured |-> in_measured_region]}

(* The constants of a region are assigned and copied after exit_region.    *)
ConstantRows(r) == next_constant_row..(next_constant_row + r.constants - 1)

AssignRegion(r) ==
    /\ Synthesizing
    /\ regions' = regions \cup Extent(r)
    /\ next_constant_row' = next_constant_row + r.constants
    /\ MakeCalls({"advice"} \X r.advice \cup {"fixed"} \X r.fixed
                 \cup {"selector"} \X r.selectors
                 \cup {"constant"} \X ConstantRows(r)
                 \cup IF r.constants = 0 THEN {} ELSE {<<"copy", Least(r.advice)>>})
    /\ UNCHANGED <<instance_rows, in_measured_region, has_measured_regions>>

(* A table without gaps; fill_from_row is a no-op of both sizing backends. *)
AssignTable(len) ==
    /\ Synthesizing
    /\ regions' = regions \cup Extent([advice |-> {}, fixed |-> 0..(len - 1)])
    /\ MakeCalls({"fixed"} \X (0..(len - 1)) \cup {<<"fill", len>>})
    /\ UNCHANGED <<instance_rows, in_measured_region, has_measured_regions, next_constant_row>>

(* A cell assigned before is bound to a row of the public inputs.          *)
ConstrainInstance(row) ==
    /\ Synthesizing
    /\ \E cell \in calls : /\ cell[1] = "advice"
                           /\ MakeCalls({<<"copy", cell[2]>>, <<"instance", row>>})
    /\ instance_rows' = Largest({row + 1, instance_rows})
    /\ UNCHANGED <<regions, in_measured_region, has_measured_regions, next_constant_row>>
-----------------------------------------------------------------------------
NextPowerOfTwo(n) == CHOOSE e \in 0..n : Pow2[e] >= n /\ (e = 0 \/ Pow2[e - 1] < n)

MinimumRows == BlindingFactors + 3

(* cost_model_options: a region of fixed columns counts as a table; once a *)
(* marker has been seen, of the others only the measured ones count.       *)
TableRowCounts == {r.end + 1 : r \in {s \in regions : s.only_fixed}}
OtherRegions == {r \in regions : ~r.only_fixed}
Measured  == {r \in OtherRegions : has_measured_regions /\ r.is_measured}

RowsCount == IF Measured # {}
             THEN Largest({r.end : r \in Measured}) - Least({r.start : r \in Measured}) + 1
             ELSE IF has_measured_regions THEN 0
             ELSE Largest({r.end + 1 : r \in OtherRegions})

MutMinCircuitSize == Largest({ n + BlindingFactors + 2 :
                                  n \in TableRowCounts \cup {RowsCount, instance_rows} }
                             \cup {MinimumRows + 1})
MinCircuitSize == Largest({ n + BlindingFactors + 1 :
                               n \in TableRowCounts \cup {RowsCount, instance_rows} }
                          \cup {MinimumRows + 1})

(* RowSizer::min_k.                                                        *)
RequiredN == Largest({max_row + BlindingFactors + 2 + MaxRotation, MinimumRows})

Size == /\ stage = "synthesis"
        /\ k' = NextPowerOfTwo(MinCircuitSize)
        /\ sizer_k' = NextPowerOfTwo(RequiredN)
        /\ stage' = "sized"
        /\ UNCHANGED <<calls, ncalls, next_constant_row, dev, max_row>>

UsableIn(e) == Pow2[e] - (BlindingFactors + 1)

(* keygen_vk_with_k with parameters of that k; the Assembly ignores advice *)
(* cells, the prover's WitnessCollection ignores everything else.          *)
KeygenRefuses == \/ Pow2[k] < MinimumRows
                 \/ \E c \in calls : c[1] # "advice" /\ c[2] >= UsableIn(k)
ProverRefuses == \E c \in calls : c[1] = "advice" /\ c[2] >= UsableIn(k)

Keygen == /\ stage = "sized"
          /\ stage' = IF KeygenRefuses THEN "refused" ELSE "keyed"
          /\ UNCHANGED <<calls, ncalls, next_constant_row, dev, max_row, k, sizer_k>>

Prove == /\ stage = "keyed"
         /\ stage' = IF ProverRefuses THEN "refused" ELSE "proved"
         /\ UNCHANGED <<calls, ncalls, next_constant_row, dev, max_row, k, sizer_k>>

SizingNext == \/ \E start \in BOOLEAN : PushNamespace(start)
              \/ \E r \in Regions : AssignRegion(r)
              \/ \E len \in TableLengths : AssignTable(len)
              \/ \E row \in InstanceRows : ConstrainInstance(row)
              \/ Size \/ Keygen \/ Prove

SizingSpec == SizingInit /\ [][SizingNext]_sizingVars
-----------------------------------------------------------------------------
(* The kinds of calls that name a row DevAssembly counts.                  *)
Counted == {c \in calls : c[1] \in {"advice", "fixed", "instance"}}

(***************************************************************************)
(* Both sizes computed for a circuit have room for it.  Without markers,   *)
(* the k that keygen_vk computes for itself has a usable row for every     *)
(* cell that a region or a table assigns, for every instance row that is   *)
(* constrained, and for the rows keygen asks of any circuit.  The k of the *)
(* MockProver has one for whatever the circuit touches, constants and      *)
(* selectors included, and the rotated queries of the gates on those rows  *)
(* stay above the blinding rows; only the row that a table is filled from  *)
(* may be beyond.                                                          *)
(***************************************************************************)
RowsFit ==
    stage # "synthesis" =>
        /\ ~has_measured_regions =>
              Pow2[k] >= MinimumRows /\ \A c \in Counted : c[2] < UsableIn(k)
        /\ \A c \in calls : c[1] # "fill" => c[2] + MaxRotation < UsableIn(sizer_k)

(***************************************************************************)
(* And it is the least k that does, among those that leave the rows the    *)
(* cost model wants in any circuit: halving the table would cut a cell.    *)
(***************************************************************************)
LeastK ==
    stage # "synthesis" /\ ~has_measured_regions /\ Pow2[k - 1] > MinimumRows =>
        \E c \in Counted : c[2] >= UsableIn(k - 1)

(* k_from_circuit and the k of the MockProver, at once.                    *)
SizesAreLeast == RowsFit /\ LeastK

(***************************************************************************)
(* What keygen.rs:205 says of keygen_vk: it "automatically determines the  *)
(* smallest k required for the given circuit".  A circuit that fits in     *)
(* some k is not refused for want of rows at the k determined for it.      *)
(***************************************************************************)
AutomaticKSuffices == stage # "refused"
=============================================================================
