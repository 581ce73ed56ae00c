# Verification of midnight-zk

TLA+ models of the parts of this repository whose correctness is about state, order and exactness,
TLC configurations that check them on small instances, and TLAPS proofs of what must hold for every
instance. Source paths are relative to `src/`.

Contents: 1 inventory, 2 modules and how they correspond to the code, 3 runs, 4 disagreements
found, 5 proofs, 6 what stays with TLC, 7 what is not modelled, 8 plan.

## 1. Inventory

The repository is Rust: `curves` (field and curve arithmetic), `proofs` (a Plonk prover and verifier
over KZG, descended from halo2), `circuits` (chips and gadgets), `zk_stdlib` (a facade over the
chips) and `aggregation` (IVC and aggregation of proofs). What keeps state, or can go wrong in the
order of its steps or at the edge of its numbers, is listed here with what makes it right.

| part | state | operations | hard behaviours | correct when |
|---|---|---|---|---|
| permutation assembly (`proofs/src/plonk/permutation/keygen.rs`) | cycles, labels, sizes of the cells of the equality columns | `new`, `copy` | long sequences of merges; a loop along a permutation about to change | the cycles are the classes of cells made equal |
| simple floor planner (`proofs/src/circuit/floor_planner/single_pass.rs`) | start of each region, first empty row of each column, captured starts | `assign_region`, `assign_table`, `constrain_instance` | three syntheses of one circuit must agree; constants share columns with regions | no cell is overlaid, every constant is bound, the proof is laid out as the keys |
| V1 floor planner (`proofs/src/circuit/floor_planner/v1.rs`, `v1/strategy.rs`) | free intervals of each column, planned starts | measure, slot in, place constants | backtracking over gaps; planned in one order, used in another | regions are disjoint, each at the earliest row free when it is placed |
| table layouter (`proofs/src/circuit/table_layouter.rs`) | default and assigned rows of a table's columns, columns used | `assign_cell`, `compute_table_lengths`, `fill_from_row` | any order of cells; errors after a write; tables one after the other | a table offers the tuples assigned to it, for ever |
| sizing (`proofs/src/dev/cost_model.rs`, `RowSizer` in `dev/mod.rs`) | extents of regions, instance rows, largest row | backend calls, `min_k` | off-by-one conventions; rows the sizer does not see | the circuit fits in the `k` computed, and in none smaller |
| constraint system (`proofs/src/plonk/circuit.rs`, `keygen.rs`, `logup.rs`) | columns, queries, selectors, lookups | `query_*`, `enable_*`, gates, lookups, conversion of selectors | indices and sizes computed before and after the conversion | keygen, prover and verifier agree on queries, degree and usable rows |
| prover and verifier (`proofs/src/plonk/prover.rs`, `verifier.rs`, `transcript/`, `poly/kzg/`) | sponge, proof bytes, commitments, challenges, opening queries | commit, write, read, squeeze, open | two programs that must keep to one sequence | the verifier derives the prover's challenges, takes each element for what it is and reads the whole proof |
| verifier gadget (`circuits/src/verifier/`) | the same, in a circuit | `prepare` | a third copy of the sequence, which cannot reject | it goes through what the verifier goes through |
| Poseidon sponge (`circuits/src/hash/poseidon/`), vectors of witnessed length (`circuits/src/vec/`) | queue, squeeze position, register; buffer and length | `init`, `absorb`, `squeeze`; resize, trim, compare, hash | absorbing after squeezing; filler chosen by the prover | the history is bound; a vector is its payload |
| succinct map (`circuits/src/map/`) | nodes, root, entries | `insert`, `get`, the gadget's proofs | siblings stored by earlier insertions; made-up witnesses | the root commits to the map, and only true statements are proved |
| parsing (`circuits/src/parsing/scanner/`) | automata under construction, the table, deferred checks | regexes to automata, `parse`, substring checks | composition of automata; checks of a whole circuit in one lookup | the language of the regex is what is accepted |
| native gadget, foreign fields (`circuits/src/field/`) | bounds remembered of cells and limbs | arithmetic, comparisons, decompositions | wrap-around, canonicity, bounds reused later | the constraints admit exactly what is meant |
| curves and big integers in circuits (`circuits/src/ecc/`, `circuits/src/biguint/`) | points, tables of the dynamic lookup, limbs | additions, multiplications by scalars, division | identities, equal points, merged bases, cells shared by constants | likewise |
| hash chips (`circuits/src/hash/sha256`, `sha512`, `ripemd160`) | spread words, schedule, digest | one round after the other | carries, limbs and rotations of 32 and 64 bits | each computes its standard |
| aggregation (`aggregation/src/`), batch verification (`zk_stdlib/src/interface.rs`) | chain state, last proof, accumulator; the batch | `prove_step`, `resume_from`, `aggregate`, `batch_verify` | several checks none of which suffices alone; restoring from mixed checkpoints | accepted exactly if every proof is valid |

The parts interact by calls only: a circuit drives a layouter, the layouter drives a backend through
the trait `Assignment`, and the chips call each other. Nothing is persisted but what a prover of a
chain is resumed from, and threads (`rayon`) only map over disjoint data, so the hazards are
sequences of legal calls, orders, limits, stale values and partial failures, and what a prover may
choose, not interleavings of threads. They are listed, each at its line, in `PROJECT.json`, with the
properties that cover them.

## 2. Modules

| module | models |
|---|---|
| `EqualityClasses` | abstract: a partition of cells, calls that merge two classes or refuse |
| `PermutationAssembly` | `Assembly::new` and `copy`, one action per branch and per turn of the loop; refines `EqualityClasses` |
| `CircuitSynthesis` | `SingleChipLayouter` over the keygen and prover backends, in three passes |
| `CircuitSizing` | `DevAssembly` and `RowSizer` against the keygen backend |
| `TableLayouter` | `SimpleTableLayouter`, `assign_table`, `fill_from_row` |
| `V1Planner` | the planning stage of `V1::synthesize` |
| `MCRows` | the instances of these three |
| `ConstraintSystem` | `ConstraintSystem` while it is configured, its degrees and blinding rows, the conversion of its selectors |
| `ProofTranscript` | `create_proof` and `prepare` through their transcripts, and the opening of polynomials; extends `ConstraintSystem` |
| `VerifierGadget` | the verifier gadget beside the verifier; extends `ProofTranscript` |
| `MCProofTranscript` | the instances of these three and of `CircuitSynthesis` |
| `PoseidonSponge` | the sponge; vectors of witnessed length and the gadgets that hash them |
| `KeyValueMap` | abstract: a value for every leaf |
| `SuccinctMap` | the map in a Merkle tree and its gadget, over the hash of `PoseidonSponge`; refines `KeyValueMap` |
| `Scanner` | regexes, automata and their operations, the parsing chip, substring checks |
| `NativeGadget` | native chip, decomposition chip and native gadget |
| `ForeignField` | the foreign field chip, and the gates of foreign curves on limbs |
| `MCLibrary` | the instances of `PoseidonSponge`, `SuccinctMap`, `Scanner`, `NativeGadget` and `ForeignField` |
| `ChipCalls` | what it means that a call of a chip is exact |
| `ForeignCurve`, `ForeignCommon` | the Weierstrass chip; what the foreign chips share |
| `EdwardsGroup`, `ForeignEdwards`, `NativeEdwards` | complete Edwards curves, and the two chips for them with their scalars |
| `BigUint`, `BigUintBounds` | big integers in limbs, and the bounds carried along |
| `SpreadWords` | words, spreads and the arithmetic the hash chips share |
| `Sha256Chip`, `Sha512Chip`, `Ripemd160Chip` | the three chips, round by round; they refine the two modules below |
| `Sha2Standard`, `Ripemd160Standard` | abstract: the standards |
| `MCChips` | the instances of the chips |
| `IvcChain` | `prove_step`, `resume_from`, the circuit and the final verifier, over ideal proofs |
| `ProofAggregation` | the aggregator as a transition of `IvcChain`; `batch_verify` |
| `MCAggregation` | two instances of `IvcChain` (a small transition system, the aggregator), batches, and the instance of `PermutationAssembly` |
| `NaturalRecursion` | powers of two, and lemmas about induction and loops that the proofs rest on |
| `KeygenProofs`, `RowsProofs`, `ConstraintSystemProofs`, `ProofTranscriptProofs`, `HashingProofs`, `IvcChainProofs`, `ProofAggregationProofs` | the theorems of section 5 |

An `MC` module composes specifications that share no state by choosing the `subject` of a behaviour
in its initial state; no property relates two subjects. Constants are parameters with named
assumptions. Definitions named `Mut...` are wrong versions of the definition that follows them, the
way a slip in that code would be; none is part of a specification. They show that each property
depends on the code: with the wrong version in place TLC finds the property violated.

### Correspondence

**PermutationAssembly.** `mapping`, `aux` and `sizes` are the fields of the same names, keyed by
column instead of by the position of the column, which is one-to-one. A call is `Call`, then
`RefuseColumn`, `RefuseBounds`, `AlreadyEqual` or `Start`, `Walk` once per turn of the loop, and
`Splice`. `pc`, `left`, `right`, `left_cycle` and `right_cycle` are the locals, `cursor` is the local `i`; `relabels` is
auxiliary. The steps inside a call are not visible to other code; they are separate so that the loop
and its end are modelled and not assumed.

**CircuitSynthesis.** A circuit (`concrete`) is a sequence of regions, each of them the cells it assigns, the
equalities and the constants it asks for. `AssignRegion` is the whole of `assign_region_impl`: the
start (computed, or taken from the key), the marks, the capture, the closure, the constants. The
passes follow each other as `keygen_vk_with_k`, `keygen_pk` and `create_proof` call them: the first
plain, the second capturing, the third with the cached starts. The backend refuses what the code
refuses: rows beyond the usable ones for fixed cells, selectors and copies at keygen, for advice
cells at proving. When the closure of a region makes several calls the backend would refuse, the
model does not say which is first.

**V1Planner.** `Slot` is one turn of `slot_in`, with `FirstFitRegion` the recursion of
`first_fit_region`; the slack of the code is the end of the interval minus the length. `FreeIntervals`
is the iterator as a fold. `PlaceConstants` is the positions computed by `V1::synthesize` zipped with
the constants. The assignment pass differs from `CircuitSynthesis` only in where the starts come from.

**TableLayouter.** `default_and_assigned` is two functions on the same domain; the vector of booleans
of a column is the set of its true positions. Each error of the code is an action of its own, and
what was written before the error stays written. A closure passes errors on with `?`, so an error
ends synthesis.

**CircuitSizing.** `calls` is what synthesis asks of any backend; `DevAssembly` and `RowSizer` update
their own state from the same calls. `Size` computes both `k`; `Keygen` and `Prove` replay the calls
against the usable rows of the first.

**ConstraintSystem.** `cs` is the struct, with the three vectors of queries in one function. A circuit
is the sequence of calls its `configure` makes after it has allocated its columns. A polynomial is the
cells it multiplies, each with the index of its query, which is all that degrees, queries and the
conversion look at; a sum has the queries of its summands and the degree of the greatest. `Keygen` is
`create_domain`, the test of `minimum_rows` and the conversion, in the order of the code: degree and
usable rows are computed before the conversion. A selector that multiplies an additive gate or a
lookup must not be simple; the conversion panics. A gate without a constraint panics where it is
created (`EmptyGate`).

**ProofTranscript.** The hash is ideal: a transcript is the log of what it absorbed and squeezed, and
two challenges are equal if they end equal logs. Commitments and evaluations are names, so that an
element out of place is visible. The verifier takes the next element for whatever its code takes it
for (`Heard`), and `taken` records both. One action is the stretch between two challenges. `Deliver`
hands the verifier the proof whole, a last element short, or with a byte behind it, and the statement
proved or another. `AssertEmpty` is what the callers of `prepare` do. The two features that change
what is sent, `fewer-point-sets` and `single-h-commitment`, are a variable chosen at the start. What
the prover does wrong is modelled as well: a duplicated query is an error of
`construct_intermediate_sets` or, with `fewer-point-sets`, a panic; a trash argument on cells that were
never queried panics; so does the commitment to two trash arguments.

**VerifierGadget.** `GadgetPrepare` is `parse_trace` and `verify_algebraic_constraints` as one step, for
it shares nothing with the verifier and runs on the same claim and proof. What is missing from a proof
is read as a default.

**PoseidonSponge, SuccinctMap.** The permutation is ideal: a register is its capacity and the blocks
absorbed. A vector is [alignment, buffer, len], the payload at its end up to the last chunk. The map
keeps the nodes the code keeps, those on the paths of inserted keys; its gadget takes values, paths
and roots from an honest prover or from one that makes them up (`ForgedInsert`, `ForgedGet`).

**Scanner.** Automata are built by the operations of `automaton.rs`, and compared with the languages
of the regexes as sets of words up to a bound. A request of a circuit is what the chip is asked; what
the prover may put in the other cells is searched.

**NativeGadget, ForeignField, the curve chips, BigUint.** A state is a circuit that has made some calls,
with the assignments of its cells that the constraints admit and what the calls mean. Gates are the
equations they enforce, over small fields; limbs, bounds, quotients and auxiliary moduli are those of
the code. Each level takes the one below as exact: curves take field elements, foreign fields and big
integers take the native gadget. **The hash chips** run at their real widths.

**IvcChain, ProofAggregation.** A proof is what it was made of, and anyone can make proofs of false
statements that do not verify; an accumulator is the sequence of the claims folded into it. The batch
is modelled to its arithmetic: errors of values are integers, and a sum of errors times powers of a
challenge is zero when every coefficient is.

## 3. Runs

| run | shows | bounds, and why they suffice |
|---|---|---|
| `rows` | the `k` of `keygen_vk` holds all counted rows and is the least to do so; a table offers what was assigned and stays as it is; planned regions are disjoint, free intervals exact, each region at the earliest row free, constants in gaps | three layouter calls with rows on both sides of the limits of 16 and 32 rows; three columns, three usable rows, two values; up to five regions over three columns, so that gaps of one and two rows arise and first fits backtrack |
| `automatic_k` | a violation, section 4 | the bounds of `rows` |
| `protocol` | indices are those of their queries before and after the conversion; every evaluation is blinded; keygen's sizes outlive the conversion; the degree covers the constraints; prover and verifier draw the same challenges and read each element for what it is; an honest proof is read to its end, and no other is complete; challenges bind the instances; opening queries are distinct; the gadget mirrors the verifier. In synthesis nothing is overlaid, constants are bound, regions are packed, the proof fits both keys | three calls (`MaxCalls`) out of some twenty, two selectors of which one is simple, 16 rows: two calls query a cell twice or place a lookup beside a gate, the third makes them interleave with the conversion. Fourteen circuits, each with a feature that changes the sequence (two of them stop at an empty gate), eight statements that share out the same values differently, two sets of features. Up to four regions of seven shapes, with and without a column for constants, five usable rows: constants between regions in their own column, a gap in a column, a region of constants only, every refusal |
| `gadget_analog` | a violation, section 4 | the bounds of `protocol` |
| `library` | a sponge binds its history; vectors are their payloads; the map's roots refine `KeyValueMap`; its gadget proves insertions and look-ups; automata, parses and substring checks are exact; what the native gadget and the foreign field admit is what is meant; remembered bounds hold; so do the gates of curves on limbs | three absorptions of up to two elements and four squeezes; vectors of up to eight elements, chunks of two and four; two keys on four leaves, one of them at an end, colliding too; regexes of two constructors over a binary alphabet with outputs, words of three; two parses side by side and three substring checks, of which the third starts a second chunk; the field of 13 elements, three calls of the native gadget; the field of 5 elements in two limbs of two bits over 263, four calls; every assignment of cells and every quotient. Left out, and in section 4: a scaled product with the fixed one, and chunks of a width that does not divide a limb when the first limb of x + 1 does not fit in its bits |
| `aggregation` | accepted chains are reached, returned steps verify, aggregated claims are provable, a batch is accepted exactly when each proof is; labels, cycles and sizes of the assembly agree between calls; relabelling is logarithmic; calls return; the assembly implements `EqualityClasses` | chains of three steps with mixed checkpoints, forged proofs and accumulators, two inner circuits, batches of two; two columns of two rows, any number of copies, refused ones included: classes of 1 to 4 cells merge in every order |
| `genesis_return` | a violation, section 4 | four steps lead back to the genesis |
| `chips` | curve chips, scalars and big integers are exact; the hash chips refine their standards | curves of 111, 20 and 76 points with cofactors, three points; scalars of five bits in limbs of three; big integers of one to three limbs; the hash chips at their real sizes on messages around the boundaries of the padding. Left out, and in section 4: the identity times a constant scalar of more than 128 bits (here, of more than `ShortBits`) |
| `scaled_mul` | a violation, section 4 | the bounds of `library` |
| `biguint`, `native_division`, `identity_base` | three violations, section 4 | the bounds of `chips` |

Deadlock is not checked where a run of the program ends: synthesis, planning, tables, sizing, key
generation, proving and verification come to a last state, and circuits and chains are bounded.

The only liveness property is `CopyReturns`, in `aggregation`, under weak fairness of the steps inside
a call (`CopyStep`). `copy` is
sequential code that waits for nothing, so a step that can be taken is taken; no fairness is assumed of
the caller.

## 4. Disagreements found

- `AutomaticKSuffices`: `keygen_vk` "automatically determines the smallest `k` required"
  (`proofs/src/plonk/keygen.rs:205`), but the cost model does not count the row a table is filled from,
  nor constants, which are assigned outside any region, nor selectors: a circuit with a table of
  exactly the usable rows is refused at the `k` computed for it.
- `GadgetIsAnalog`: the gadget's `prepare` "is the in-circuit analog of `prepare`"
  (`circuits/src/verifier/verifier_gadget.rs:850-853`), but it reads one evaluation per fixed column
  where the verifier reads one per fixed query.
- `GenesisAccumulatorIsTrivial`: `prove_step` recognises the genesis by its state and takes its
  accumulator for trivial (`aggregation/src/ivc/prover.rs:85`); on a chain that comes back to the
  genesis it returns a proof that does not verify.
- `CallsAreExact` in `biguint`: `mul` "Multiplies the given assigned big unsigned integers"
  (`circuits/src/biguint/biguint_gadget.rs:400`) but squares `x` when `y` shares its first limbs, as
  constants do.
- `CallsAreExact` in `native_division`: "Division of `x` by `y` will make the circuit unsatisfiable if
  `y = 0`" (`circuits/src/instructions/arithmetic.rs:148`); the scalars of the native curve let zero be
  divided by zero.
- `FieldIsExact` in `scaled_mul`: `mul` is "Multiplication, possibly with an additional multiplying
  constant" (`circuits/src/instructions/arithmetic.rs:128`), but when a factor is the fixed one the
  other factor is returned as it is, and the constant is dropped
  (`circuits/src/field/foreign/field_chip.rs:908-914`).
- `CallsAreExact` in `identity_base`: of `mul_by_constant`, "The base can be the identity point"
  (`circuits/src/instructions/ecc.rs:117-118`), but scalars of more than 128 bits go to `windowed_msm`,
  which asserts that its bases are not (`circuits/src/ecc/foreign/weierstrass_chip.rs:904-909`,
  `:1781-1784`): no assignment satisfies the circuit.

Seen while modelling, without a run of their own:

- `assign_cell` documents an error for a cell assigned before (`proofs/src/circuit/table_layouter.rs:24`)
  and returns one in row 0 only; `compute_dummy_queries` pads polynomials of a single point
  (`proofs/src/poly/kzg/utils.rs:141`); with two additive gates keygen succeeds and the prover panics
  (`proofs/src/poly/kzg/commitment.rs:308`); `prepare` leaves trailing bytes to its callers
  (`proofs/src/plonk/verifier.rs:129`); cells an additive gate takes by `Column::cur` are never queried
  and `index.unwrap()` panics (`proofs/src/plonk/trash.rs:68`); with `fewer-point-sets` a claim that
  commits to a column with colliding rotations panics (`poly/kzg/utils.rs:160`) where an error is
  documented (`:38`).
- A sponge of fixed length can be squeezed twice if something is absorbed in between
  (`circuits/src/instructions/sponge.rs:27`, `poseidon_cpu.rs:146`).
- Padding "which no real query can match" (`parsing/scanner/substring.rs`) is matched by
  `check_bytes_ext` with the filler among its bytes; regexes with outputs inside a complement are not
  refused (`regex.rs:46`).
- `leq_fixed` with the bound p - 1 wraps to 0 (`comparison.rs:87`), and so does the default bound of
  `div_rem` (`instructions/division.rs:45`); `mod_exp` with exponent 1 does not reduce
  (`biguint_gadget.rs:549`), and with exponent 0 it is 1 whatever the modulus (`:537`), so `chips` leaves
  out exponent 0 with a modulus of at most 1; a scalar of more bits than the order has makes `value()`
  panic (`ecc/native/edwards_chip.rs:118`), and public inputs of computed and of assigned scalars
  differ in length (`:1026`).
- `assigned_to_le_bits` without canonicity splits the limbs of x + 1 as they are
  (`field_chip.rs:1158-1182`), so an x that is not well-formed, or whose first limb is all ones, cannot
  be split, nor can it by `assigned_to_le_chunks` with a width that does not divide that of a limb
  (`:1327-1334`), against `instructions/decomposition.rs:56-58`.

## 5. Proofs

TLAPS checks every theorem below, for all values of the constants that satisfy the named assumptions.
No step is left without a proof.

| theorems | state, for every value of the constants |
|---|---|
| `KeygenProofs`: `AssemblyTyped`, `LabelsAgreeWithCycles`, `SizesAreCounts`, `RelabellingIsLogarithmic`, `AssemblyImplementsClasses` | the assembly of any finite set of columns and any number of rows; the last is the refinement of `EqualityClasses` |
| `KeygenProofs`: `SynthesisTyped`, `NothingIsLost`, `RegionsArePacked`, `ProofsFitTheirKeys` | any circuit through the three syntheses |
| `RowsProofs`: `TypeCorrect`, `TablesAreFilled`, `FinishedTablesAreFrozen` (an action property), `SizingTypeCorrect`, `SizesAreLeastPossible` | tables of any length; any sequence of calls, any number of blinding factors from six on |
| `RowsProofs`: `PlannerTypeCorrect`, `PlansAreSound`, `RegionsAtEarliestRow` (an action property) | any circuit the V1 planner measures, any columns |
| `ConstraintSystemProofs`: `SystemTypeCorrect`, `QueriesStayTracked`, `EvaluationsBlinded`, `ConversionKeepsSystemSizes`, `DegreeAlwaysCovers` | any configuration of any number of columns, gates, lookups and selectors |
| `ProofTranscriptProofs`: `TranscriptsTyped`, `TranscriptsAlwaysAgree`, `FaithfulProofsAlwaysPass`, `InstancesAlwaysBound`, `QueriesAlwaysDistinct` | the protocol of any such system, for any statements and both features |
| `ProofTranscriptProofs`: `GadgetAlwaysMirrors` | the verifier in a circuit beside it, for any claim and any proof, whole or damaged |
| `HashingProofs`: `SuccinctMapsHoldTrees`, `RootsImplementMaps`, `GadgetsProveMaps`, `SpongesBindHistory` | maps of any height, keys and placement; sponges of any rate |
| `HashingProofs`: `VectorsAreTheirPayloads` | vectors of witnessed length of any capacity, with any filler; any rate and size of a SHA-256 block |
| `IvcChainProofs`: `AcceptedStatesAreReached`, `ChainsAreSound`, `IssuedStepsVerify` | any transition system, chains of any length |
| `ProofAggregationProofs`: `AggregationProvesClaims`, `AggregationStepsVerify`, `ClaimsAlwaysProved`, `ChainsAlwaysSound`, `HonestStepsAlwaysVerify`, `BatchesAlwaysSound` | any inner circuits and statements; batches of any size |

### The arguments

**Permutation assembly.** The invariants hold only between calls. `IInv` adds that the mapping is
injective, that orbits partition the cells (an orbit is the least set closed under the mapping, which
needs no recursion), and what holds inside a call: the two cells lie in two disjoint orbits, the label
of the absorbed one has been replaced on exactly the part of it that has been walked, and the size of
the survivor is already the sum. The heart is the lemma that exchanging the successors of two cells of
different orbits of an injection joins these orbits and leaves the others alone. That relabelling is
logarithmic is the invariant that a cell relabelled k times is in a class of at least 2^k cells.

**Synthesis.** Nothing is overlaid because every column is free from its mark on, regions and constants
being below it. `SynthesisInv` relates the marks, the starts and the table, says that the second
synthesis has laid out so far what the first laid out, and that the starts it captured are those the
prover takes.

**Tables and sizes.** A finished table holds its closure's rows and, below, its top row; the columns of
an open table are not among the used ones. A size is right because each counter is the greatest of
the rows seen so far, and a `k` is the least one with room for them.

**Planner.** `PlannerIInv` says that the rows allocated in a column do not overlap, which is more than
that the regions placed do not. From it: the scan of `free_intervals` has, before each allocation,
emitted exactly the free rows below the first row it has not accounted for (`ScanInv`); the first fit
for the last n columns within an interval is the least row of it that is free in all of them
(`LeastFit`, by induction on n, because a stretch of rows that is free in a column lies in one gap of
it); and there is always one, above every allocation. The positions of the constants are sequences of
cells that have no cell in common, flattened.

**Constraint system.** `IInv` says that no cell is queried twice, that counters per advice column count
its queries, that each polynomial's indices are those of its cells, and that keygen's sizes are
functions of what the conversion keeps. The conversion is a substitution of cells; most of the work
is that it keeps degrees and that queries it appends go behind the others.

**Transcript.** The prover's log is the script of its stages, as a sequence built from the key and the
statement (`ProverSays`), and the verifier has heard its own script as far as the proof goes
(`VerifierHears`). The two scripts are equal: the numbers of accumulators agree by arithmetic, and the
evaluations of fixed columns by an induction over the places `insert` makes for simple selectors. The
opening points are distinct because `minimum_rows` keeps the last usable row apart from rotations 0
and 1. Instances are bound because lengths are absorbed before values.

**Verifier in a circuit.** The gadget runs when the verifier has ended, and its reading is one function
of the claim and the proof: where it is after each item of its script. The property only speaks of
that moment, so it is not inductive. `MirrorInv` says of every state before it that the verifier
stands where such a reading passes, that it has read as many items as its stage asks for, and that a
verifier that rejected at the end of the proof stopped before an item that is to be read, which the
gadget then takes for a default (`ReadsAsGadget`); and that its queries are those of its claim
(`AsksOfClaim`). A trailing byte is never read, for it lies behind all that the script writes. The
gadget's script is the verifier's (`GadgetReads`): the one place where the two are computed otherwise
is the fixed evaluations, and there `FixedInRange` (queried fixed columns exist) and `Supported` (each
is queried once) make a bijection of columns and queries, so that the counts agree. Rotations of at
most one row keep its queries distinct, so that it neither panics nor fails.

**Sponge.** Padding a segment with its length makes its last block end in its length, at its last
element that is not zero. So the last segment can be read back from the blocks, and the rest after it
has been taken away; `Unpadded` is this reading as a recursive function, and `History` says it gives
back what was absorbed. An output came from fewer blocks, or from an earlier position, than the next.

**Vectors.** `VectorInv` says that the buffer is a positive number of whole chunks and that the payload
lies where `Placement` puts it: the last used chunk is the last of the buffer, the data begins at the
start of a chunk, and nothing else of the buffer is known. Resizing keeps this because it moves whole
chunks, and trimming by the arithmetic of `RoundedTrim`, which says when the rest of the trim takes one
more chunk (`NeedsAdjust`). Reading uses that a padding flag flips exactly where the payload is entered
and left, which an induction along the buffer turns into the flag itself (`FlagsAre`). The chunks a hash
adds are the last ones, as many as are used: the loop that adds them conditionally is a suffix of all
chunks (`UpdatedIs`). Poseidon then hashes the payload because the last chunk is cut to its length,
SHA-256 because the last chunk and the tail agree with the padded message element by element in each of
the two cases of an extra block (`TailBlocks`).

**Map.** `HoldsTree` says that the stored nodes are those of the one tree whose leaves are the last
values inserted there, every other node being the default of its height. A root determines the leaf a
path opens, because the hash is injective on pairs and tells the heights of default nodes apart only
as far as needed (`ClimbsOpenAlike`). This gives the refinement, and that a gadget's constraints can
only be satisfied by true insertions and look-ups.

**Chains.** A proof that verifies was made by a satisfied circuit, whose previous proof its accumulator
speaks of; by induction over proofs it is for a state reached. The aggregator is an instance: what the
transition adds to the hash chain is a claim with an inner proof in the accumulator. A batch is
accepted when a polynomial in the challenge is zero, and its coefficients are the errors of the
proofs one by one.

### Assumptions

`ColumnsAssumption` and `ConstantsAssumption` (`V1Planner`: `enable_constant` keeps each column once),
`NAssumption` (finite columns, disjoint from the others, a number of rows);
`ColumnsDisjoint`, `ConcreteCircuitsAssumption`, `UsableRowsAssumption` (columns of different kinds differ, and
a circuit refers to cells it has assigned); `TableValues`, `TableRows`; `SizesAssumption` (at least six
blinding factors, which `blinding_factors` guarantees; regions are finite); `ConfigurationAssumption`
and the `CircuitsAssumption` of `ConstraintSystem` (a circuit uses the columns and selectors it was
handed); `StatementsAssumption` (values are numbers); `SpongeAssumption`, `MapAssumption`,
`PlacementsAssumption` (any function from keys to leaves); `VectorAssumption` (the
length fits in a block, elements are numbers, and a buffer is shorter than the 2^64 that stands for no
length in a sponge); `KeysDiffer`, `PanicIsNoState`,
`PanicIsNoToyState` (names of different things differ); `BatchAssumption`. TLC evaluates all of them
in the runs. Three theorems of `IvcChainProofs` have hypotheses on the transition system:
`ClosedUnderCircuit`, `CircuitAgrees` (the circuit does what the transition does) and
`ClosedUnderTransition`; `ProofAggregationProofs` shows them of the aggregator and of the small
system. Idealised: the hash is injective, proofs of false statements do not verify, and a sum of
errors at different powers of a random challenge vanishes only if each does.

## 6. What stays with TLC

- `CopyReturns`: liveness under fairness is out of the prover's reach. That the loop is along one orbit,
  and each turn takes a cell not walked before, is in `IInv`.
- `AutomataAreExact`, `ParsesAreExact`, `SubstringChecksAreExact` (languages are inductive data, and the
  modules recursive): the prover has no backend for either.
- `GadgetIsExact`, `BoundsAreEnforced`, `FieldIsExact`, `GatesAreExact`, `CallsAreExact`: modular
  arithmetic over all assignments of cells, recursive as well.
  `ChipsImplementTheirStandards`: the computation is over fixed widths, and is checked whole.

## 7. What is not modelled

Field, curve and polynomial arithmetic over the real moduli, the values of commitments and openings,
the identities of the arguments, the rounds of the Poseidon permutation, and soundness or zero
knowledge as cryptographic notions: they are statements about large algebraic structures, out of
reach of explicit states. Serialization of keys, parameters and automata, `MockProver` and its failure
reports, layout and graph output, examples and benchmarks are input and output. Every part is listed
in `PROJECT.json` with its status.

## 8. Plan

Open work, all of it models: public inputs and the
cache of fixed cells of the native chip; conversions of scalars of the native curve.
