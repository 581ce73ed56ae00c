-------------------------- MODULE ConstraintSystem --------------------------
(***************************************************************************)
(* A constraint system while a circuit configures it, and its conversion   *)
(* at key generation (proofs/src/plonk/circuit.rs, keygen.rs, logup.rs).   *)
(*                                                                         *)
(* A cell is a record [kind, column, rotation, index], where index is the  *)
(* position of its query, or Unresolved.  A polynomial is the sequence of  *)
(* the cells it multiplies: its degree is its length.  A selector is a     *)
(* cell of kind "selector" whose column is the index of the selector.      *)
(* Columns count from 0 and positions in a sequence from 1.                *)
(***************************************************************************)
EXTENDS Integers, FiniteSets, SequencesExt, NaturalRecursion

CONSTANTS N,                \* rows of the domain, a power of two
          NumAdvice,        \* advice columns allocated
          NumInstance,      \* instance columns allocated
          NumFixed,         \* fixed columns allocated, selectors apart
          Circuits          \* records [selectors, calls]: see Calling

ASSUME ConfigurationAssumption ==
    /\ N \in Nat \ {0} /\ NumAdvice \in Nat /\ NumInstance \in Nat /\ NumFixed \in Nat

VARIABLES circuit,          \* the circuit, which stays what it is
          cs,               \* the ConstraintSystem
          ncalls,           \* how many of its calls have configured it
          usable_rows,      \* Assembly::usable_rows, computed by keygen before the conversion
          quotient_degree,  \* EvaluationDomain::quotient_poly_degree, likewise
          phase             \* "configure", "keyed", "refused" or "panicked"

csVars == <<circuit, cs, ncalls, usable_rows, quotient_degree, phase>>

Unresolved == 0
Kinds      == {"advice", "instance", "fixed"}
None       == -1

NumSelectors(c)   == Len(c.selector_flags)
CellType == [kind : Kinds \cup {"selector"}, column : Nat, rotation : Int, index : Nat]
Cell(kind, column, rotation) ==
    [kind |-> kind, column |-> column, rotation |-> rotation, index |-> Unresolved]
CellsIn(polys)    == UNION {ToSet(p) : p \in polys}
SelectorCell(s)   == Cell("selector", s, 0)
IsSimple(c, cell) == cell.kind = "selector" /\ c.selector_flags[cell.column + 1].simple

(* A circuit uses the columns and the selectors it was handed when it      *)
(* allocated them.                                                         *)
NumColumns == [advice |-> NumAdvice, instance |-> NumInstance, fixed |-> NumFixed]
Columns(kind) == 0 .. NumColumns[kind] - 1
Handed(flags, cell) ==
    /\ cell.index = Unresolved
    /\ IF cell.kind = "selector" THEN cell.column + 1 \in DOMAIN flags
       ELSE cell.column \in Columns(cell.kind)

IsSelector(flags, selector) == \E i \in DOMAIN flags : selector = <<SelectorCell(i - 1)>>
ArePolynomials(flags, polys) == /\ polys \in Seq(Seq(CellType))
                                /\ \A cell \in CellsIn(ToSet(polys)) : Handed(flags, cell)

IsCall(flags, call) ==
    \/ /\ call.fn = "enable_equality"
       /\ call.column \in Kinds \X Nat /\ call.column[2] \in Columns(call.column[1])
    \/ call.fn = "enable_constant" /\ call.column \in {"fixed"} \X Columns("fixed")
    \/ /\ call.fn = "create_gate"
       /\ call.selector = <<>> \/ IsSelector(flags, call.selector)
       /\ ArePolynomials(flags, call.polys)
    \/ /\ call.fn = "create_additive_gate"
       /\ IsSelector(flags, call.selector) /\ call.virtual_cells \in BOOLEAN
       /\ ArePolynomials(flags, call.polys)
    \/ /\ call.fn = "batched_lookup_any"
       /\ call.selector = <<>> \/ IsSelector(flags, call.selector)
       /\ ArePolynomials(flags, call.inputs) /\ ArePolynomials(flags, <<call.table>>)
    \/ call.fn = "set_minimum_degree" /\ call.degree \in Nat

ASSUME CircuitsAssumption ==
    \A c \in Circuits : /\ c.selectors \in Seq(BOOLEAN)
                        /\ Len(c.calls) \in Nat
                        /\ \A n \in 1 .. Len(c.calls) : IsCall(c.selectors, c.calls[n])

Empty(flags) ==
    [num_fixed_columns  |-> NumFixed,
     selector_flags     |-> [i \in DOMAIN flags |-> [simple |-> flags[i], col_idx |-> None]],
     queries            |-> [kind \in Kinds |-> <<>>],
     num_advice_queries |-> [col \in 0 .. NumAdvice - 1 |-> 0],
     permutation        |-> <<>>,
     gates              |-> <<>>,
     lookups            |-> <<>>,
     trashcans          |-> <<>>,
     constants          |-> <<>>,
     minimum_degree     |-> None]

InitConfiguration == /\ circuit \in Circuits
                     /\ cs = Empty(circuit.selectors)
                     /\ ncalls = 0 /\ usable_rows = 0 /\ quotient_degree = 0
                     /\ phase = "configure"
-----------------------------------------------------------------------------
(* Queries: a cell is queried once, whoever asks for it.                   *)
Position(seq, x) == CHOOSE i \in DOMAIN seq : /\ seq[i] = x
                                              /\ \A j \in 1 .. i - 1 : seq[j] # x

OneMoreOf(c, col) == [c.num_advice_queries EXCEPT ![col] = @ + 1]

QueryIndex(c, kind, query) ==
    IF Contains(c.queries[kind], query) THEN c
    ELSE [c EXCEPT !.queries[kind] = Append(@, query),
                   !.num_advice_queries =
                       IF kind = "advice" THEN OneMoreOf(c, query[1]) ELSE @]

Query(c, cell) == IF cell.kind = "selector" THEN c
                  ELSE QueryIndex(c, cell.kind, <<cell.column, cell.rotation>>)

QueryPoly(c, poly) ==
    LET q[n \in 0 .. Len(poly)] == IF n = 0 THEN c ELSE Query(q[n - 1], poly[n])
    IN  q[Len(poly)]
QueryCells(c, polys) ==
    LET q[n \in 0 .. Len(polys)] == IF n = 0 THEN c ELSE QueryPoly(q[n - 1], polys[n])
    IN  q[Len(polys)]

Resolve(c, polys) ==
    [p \in DOMAIN polys |-> [i \in DOMAIN polys[p] |->
        LET cell == polys[p][i]
        IN  IF cell.kind = "selector" THEN cell
            ELSE [cell EXCEPT !.index = Position(c.queries[cell.kind],
                                                 <<cell.column, cell.rotation>>)]]]
-----------------------------------------------------------------------------
(* Degrees, and how many lookups into a table share a helper polynomial.   *)
Largest(S) == CHOOSE n \in S : \A m \in S : m <= n
NextPowerOfTwo(n) ==
    Pow2[CHOOSE e \in 0 .. n : Pow2[e] >= n /\ (e = 0 \/ Pow2[e - 1] < n)]

LookupDegree(l) == IF l.inputs = <<>> THEN 1
                   ELSE Largest({Len(l.inputs[j]) : j \in DOMAIN l.inputs})
ParallelLookupsPerChunk(l, degree) == NextPowerOfTwo(degree - 1) \div LookupDegree(l)

AccumulatorDegree(l) == 2 + Len(l.selector) + Len(l.table)
MutDegreeBatched(l, degree) ==
    NextPowerOfTwo(ParallelLookupsPerChunk(l, degree) * LookupDegree(l)) + 1
DegreeBatched(l, degree) ==
    NextPowerOfTwo(Largest({ParallelLookupsPerChunk(l, degree) * LookupDegree(l) + 1,
                            AccumulatorDegree(l)}) - 1) + 1

GateDegrees(c)  == UNION {{Len(g.polys[i]) : i \in DOMAIN g.polys} : g \in ToSet(c.gates)}
TrashDegrees(c) == UNION {{2} \cup {Len(t.constraints[i]) : i \in DOMAIN t.constraints} :
                             t \in ToSet(c.trashcans)}
DegreeWithoutLookup(c) == Largest({3} \cup TrashDegrees(c) \cup GateDegrees(c)
                                      \cup {c.minimum_degree})
Degree(c) == LET d == DegreeWithoutLookup(c)
             IN  Largest({d} \cup {DegreeBatched(l, d) : l \in ToSet(c.lookups)})

(* The degree is divided by that of the lookups, which is 0 for constants; *)
(* and slice::chunks panics when a chunk would be empty.                   *)
CeilDiv(a, b)   == (a + b - 1) \div b
NumChunks(c, l) == CeilDiv(Len(l.inputs), ParallelLookupsPerChunk(l, Degree(c)))
ChunksPanic(c)  == \/ \E l \in ToSet(c.lookups) : LookupDegree(l) = 0
                   \/ \E l \in ToSet(c.lookups) : ParallelLookupsPerChunk(l, Degree(c)) = 0

SumOf(terms) == LET sum[n \in 0 .. Len(terms)] == IF n = 0 THEN 0 ELSE sum[n - 1] + terms[n]
                IN  sum[Len(terms)]
TotalChunks(c)    == SumOf([i \in DOMAIN c.lookups |-> NumChunks(c, c.lookups[i])])
MostAdviceQueries(c) ==
    Largest({3} \cup {c.num_advice_queries[col] : col \in DOMAIN c.num_advice_queries})

MutBlindingFactors(c) == MostAdviceQueries(c) + Len(c.trashcans) + TotalChunks(c)
BlindingFactors(c) == MostAdviceQueries(c) + Len(c.trashcans) + TotalChunks(c) + 3
MutMinimumRowsOfLast(c) == BlindingFactors(c) + 2
MinimumRows(c) == BlindingFactors(c) + 3
-----------------------------------------------------------------------------
(* What a circuit calls in Circuit::configure: it allocates its columns    *)
(* and its selectors, each simple or not, then makes its calls in order. A *)
(* call is a record of the function and its arguments; no selector is <<>>.*)
Call        == circuit.calls[ncalls + 1]
Configuring == phase = "configure" /\ ncalls < Len(circuit.calls)
Configured  == phase = "configure" /\ ncalls = Len(circuit.calls)
Calling(fn) == Configuring /\ Call.fn = fn

Configure(c) == /\ cs' = c
                /\ ncalls' = ncalls + 1
                /\ UNCHANGED <<circuit, usable_rows, quotient_degree, phase>>

Panic == /\ phase' = "panicked"
         /\ UNCHANGED <<circuit, cs, ncalls, usable_rows, quotient_degree>>

EqualityEnabled(c, column) ==
    LET queried == QueryIndex(c, column[1], <<column[2], 0>>)
    IN  IF Contains(queried.permutation, column) THEN queried
        ELSE [queried EXCEPT !.permutation = Append(@, column)]

EnableEquality == Calling("enable_equality") /\ Configure(EqualityEnabled(cs, Call.column))

EnableConstant ==
    /\ Calling("enable_constant")
    /\ Configure(IF Contains(cs.constants, Call.column) THEN cs
                 ELSE EqualityEnabled([cs EXCEPT !.constants = Append(@, Call.column)],
                                      Call.column))

Applied(selector, polys) == [i \in DOMAIN polys |-> selector \o polys[i]]
SelectorsIn(polys) ==
    {cell.column : cell \in {d \in CellsIn(ToSet(polys)) : d.kind = "selector"}}

(* Constraints::without_selector and with_selector.                        *)
CreateGate ==
    /\ Calling("create_gate") /\ Call.polys # <<>>
    /\ LET queried == QueryCells(cs, Call.polys)
           polys   == Applied(Call.selector, Resolve(queried, Call.polys))
       IN  Configure([queried EXCEPT !.gates =
               Append(@, [polys |-> polys, queried_selectors |-> SelectorsIn(polys)])])

(* Constraints::with_additive_selector: the constraints become a trash     *)
(* argument and the gate is left empty.  Cells taken from a VirtualCells   *)
(* are queried as they are taken.  Cells taken from a Column, by cur or    *)
(* rot, are queried when create_gate visits the constraints of the gate,   *)
(* of which there are none left: their index stays Unresolved.             *)
CreateAdditiveGate ==
    /\ Calling("create_additive_gate") /\ Call.polys # <<>>
    /\ LET queried == IF Call.virtual_cells THEN QueryCells(cs, Call.polys) ELSE cs
       IN  Configure([queried EXCEPT
               !.trashcans = Append(@, [argument_index |-> Len(@),
                                        selector       |-> Call.selector[1],
                                        constraints    |-> IF Call.virtual_cells
                                                           THEN Resolve(queried, Call.polys)
                                                           ELSE Call.polys]),
               !.gates = Append(@, [polys |-> <<>>,
                                    queried_selectors |-> {Call.selector[1].column}])])

(* create_gate asserts, before it looks at the selector, that there is a   *)
(* constraint.                                                             *)
EmptyGate == /\ Configuring /\ Call.fn \in {"create_gate", "create_additive_gate"}
             /\ Call.polys = <<>>
             /\ Panic

HasSimpleSelector(polys) == \E p \in ToSet(polys) : \E cell \in ToSet(p) : IsSimple(cs, cell)

BatchedLookup ==
    /\ Calling("batched_lookup_any")
    /\ LET queried == QueryCells(cs, Append(Call.inputs, Call.table))
       IN  IF HasSimpleSelector(Append(Call.inputs, Call.table)) THEN Panic
           ELSE Configure([queried EXCEPT !.lookups = Append(@,
                   [selector |-> Call.selector,
                    inputs   |-> Resolve(queried, Call.inputs),
                    table    |-> Resolve(queried, <<Call.table>>)[1]])])

SetMinimumDegree == /\ Calling("set_minimum_degree")
                    /\ Configure([cs EXCEPT !.minimum_degree = Call.degree])
-----------------------------------------------------------------------------
(* directly_convert_selectors_to_fixed: selector s becomes the fixed       *)
(* column num_fixed_columns + s, queried at its own row.                   *)
FixedColumnOf(c, s) == c.num_fixed_columns + s

WithSelectorQueries(c) ==
    QueryPoly(c, [i \in 1 .. NumSelectors(c) |-> Cell("fixed", FixedColumnOf(c, i - 1), 0)])

MutConvertedCell(c, queries, cell) ==
    IF cell.kind # "selector" THEN cell
    ELSE [kind |-> "fixed", column |-> FixedColumnOf(c, cell.column), rotation |-> 0,
          index |-> FixedColumnOf(c, cell.column) + 1]
ConvertedCell(c, queries, cell) ==
    IF cell.kind # "selector" THEN cell
    ELSE [kind |-> "fixed", column |-> FixedColumnOf(c, cell.column), rotation |-> 0,
          index |-> Position(queries, <<FixedColumnOf(c, cell.column), 0>>)]

Converted(c) ==
    LET queried == WithSelectorQueries(c)
        NewCell(cell) == ConvertedCell(c, queried.queries["fixed"], cell)
        Poly(p)       == [i \in DOMAIN p |-> NewCell(p[i])]
        Polys(polys)  == [i \in DOMAIN polys |-> Poly(polys[i])]
    IN  [queried EXCEPT
            !.num_fixed_columns = @ + NumSelectors(c),
            !.selector_flags = [i \in DOMAIN @ |->
                IF @[i].simple THEN [@[i] EXCEPT !.col_idx = FixedColumnOf(c, i - 1)] ELSE @[i]],
            !.gates = [i \in DOMAIN @ |->
                [polys |-> Polys(@[i].polys),
                 queried_selectors |->
                     {s + c.num_fixed_columns : s \in @[i].queried_selectors}]],
            !.lookups = [i \in DOMAIN @ |->
                [selector |-> Poly(@[i].selector), inputs |-> Polys(@[i].inputs),
                 table |-> Poly(@[i].table)]],
            !.trashcans = [i \in DOMAIN @ |->
                [argument_index |-> @[i].argument_index, selector |-> NewCell(@[i].selector),
                 constraints |-> Polys(@[i].constraints)]]]

GatePolynomials(c)   == UNION {ToSet(g.polys) : g \in ToSet(c.gates)}
LookupPolynomials(c) == UNION {ToSet(l.inputs) \cup {l.table, l.selector} : l \in ToSet(c.lookups)}
TrashPolynomials(c)  == UNION {ToSet(t.constraints) \cup {<<t.selector>>} : t \in ToSet(c.trashcans)}
Polynomials(c)       == GatePolynomials(c) \cup LookupPolynomials(c)

(* The conversion asserts that a simple selector multiplies a gate only.   *)
MisusedSimpleSelector(c) ==
    \E cell \in CellsIn(LookupPolynomials(c) \cup TrashPolynomials(c)) : IsSimple(c, cell)

(* keygen: the domain and the usable rows are computed first.              *)
KeygenPanics == /\ Configured
                /\ \/ ChunksPanic(cs)
                   \/ ~ChunksPanic(cs) /\ MinimumRows(cs) <= N /\ MisusedSimpleSelector(cs)
                /\ Panic

KeygenRefuses == /\ Configured /\ ~ChunksPanic(cs)
                 /\ N < MinimumRows(cs)
                 /\ phase' = "refused"
                 /\ UNCHANGED <<circuit, cs, ncalls, usable_rows, quotient_degree>>

MutKeygen == /\ Configured /\ ~ChunksPanic(cs)
             /\ MinimumRows(cs) <= N /\ ~MisusedSimpleSelector(cs)
             /\ quotient_degree' = DegreeWithoutLookup(cs) - 1
             /\ usable_rows' = N - (BlindingFactors(cs) + 1)
             /\ cs' = Converted(cs)
             /\ phase' = "keyed"
             /\ UNCHANGED <<circuit, ncalls>>

Keygen == /\ Configured /\ ~ChunksPanic(cs)
          /\ MinimumRows(cs) <= N /\ ~MisusedSimpleSelector(cs)
          /\ quotient_degree' = Degree(cs) - 1
          /\ usable_rows' = N - (BlindingFactors(cs) + 1)
          /\ cs' = Converted(cs)
          /\ phase' = "keyed"
          /\ UNCHANGED <<circuit, ncalls>>

NextConfiguration == EnableEquality \/ EnableConstant \/ CreateGate \/ CreateAdditiveGate
                         \/ EmptyGate \/ BatchedLookup \/ SetMinimumDegree
                         \/ KeygenPanics \/ KeygenRefuses \/ Keygen

SpecConfiguration == InitConfiguration /\ [][NextConfiguration]_csVars
-----------------------------------------------------------------------------
ConfigurationTypeOK ==
    /\ phase \in {"configure", "keyed", "refused", "panicked"}
    /\ ncalls \in 0 .. Len(circuit.calls) /\ usable_rows \in 0 .. N /\ quotient_degree \in Nat
    /\ phase = "keyed" => usable_rows >= 2 /\ quotient_degree >= 2
    /\ cs.num_advice_queries \in [0 .. NumAdvice - 1 -> Nat]
    /\ \A kind \in Kinds : \A q \in ToSet(cs.queries[kind]) : q[1] \in Nat /\ q[2] \in Int
    /\ CellsIn(Polynomials(cs) \cup TrashPolynomials(cs)) \subseteq CellType

(* The index kept in a polynomial is that of the query of its own cell:    *)
(* the evaluations of a proof are found by these indices, long after the   *)
(* queries of other gates and of converted selectors were added            *)
(* (query_cells, directly_convert_selectors_to_fixed).                     *)
Resolved(cell) == /\ cell.index \in DOMAIN cs.queries[cell.kind]
                  /\ cs.queries[cell.kind][cell.index] = <<cell.column, cell.rotation>>

IndicesAreOfTheirQueries ==
    /\ \A cell \in CellsIn(Polynomials(cs)) : cell.kind # "selector" => Resolved(cell)
    /\ \A cell \in CellsIn(TrashPolynomials(cs)) :
           cell.kind # "selector" => Resolved(cell) \/ cell.index = Unresolved

(* No cell is queried twice, and the count per advice column, from which   *)
(* the blinding factors are computed, is that of its queries: every        *)
(* evaluation of an advice column is blinded, with the one at x_3.         *)
EveryEvaluationBlinded ==
    /\ \A kind \in Kinds : \A i, j \in DOMAIN cs.queries[kind] :
           cs.queries[kind][i] = cs.queries[kind][j] => i = j
    /\ ~ChunksPanic(cs) =>
           \A col \in 0 .. NumAdvice - 1 :
               Cardinality({q \in ToSet(cs.queries["advice"]) : q[1] = col}) + 1
                   < BlindingFactors(cs)

(* Keygen sizes the domain and the usable rows before it converts the      *)
(* selectors; the prover and the verifier compute the same quantities from *)
(* the converted system.  They agree (keygen_vk_with_k, from_parts).       *)
ConversionKeepsSizes ==
    phase = "keyed" => /\ usable_rows = N - (BlindingFactors(cs) + 1)
                       /\ quotient_degree = Degree(cs) - 1

(* A converted simple selector is queried exactly once, and is the column  *)
(* the gates name: the verifier counts on it to tell how many fixed        *)
(* evaluations a proof holds (num_simple_selectors), and the linearization *)
(* to factor it out.  No polynomial holds a selector any more.             *)
SimpleColumns(c) == {f.col_idx : f \in {g \in ToSet(c.selector_flags) : g.simple}}

SelectorsAreTracked ==
    phase = "keyed" =>
        /\ \A cell \in CellsIn(Polynomials(cs) \cup TrashPolynomials(cs)) : cell.kind \in Kinds
        /\ \A col \in SimpleColumns(cs) :
               Cardinality({i \in DOMAIN cs.queries["fixed"] : cs.queries["fixed"][i][1] = col}) = 1
        /\ Cardinality(SimpleColumns(cs))
               = Cardinality({i \in DOMAIN cs.selector_flags : cs.selector_flags[i].simple})
        /\ \A g \in ToSet(cs.gates) : \A p \in ToSet(g.polys) :
               {cell.column : cell \in {d \in ToSet(p) : d.kind = "fixed" /\ d.column \in SimpleColumns(cs)}}
                   \subseteq g.queried_selectors

(* What a polynomial names, the proof will hold under that name: cells by   *)
(* the indices of their queries, selectors by their converted columns.     *)
QueriesAreTracked == IndicesAreOfTheirQueries /\ SelectorsAreTracked

(* Where keygen does not panic, the degree of a system bounds that of the  *)
(* constraints it will be given: of the gates and trash arguments, of the  *)
(* helper of each chunk of lookups and of their accumulator.  The quotient *)
(* is committed in limbs counted from it (degree, degree_batched_argument).*)
DegreeCovers ==
    phase = "keyed" =>
        /\ \A d \in GateDegrees(cs) \cup TrashDegrees(cs) : d <= quotient_degree + 1
        /\ \A l \in ToSet(cs.lookups) :
               /\ 1 + LookupDegree(l) * ParallelLookupsPerChunk(l, Degree(cs)) <= quotient_degree + 1
               /\ AccumulatorDegree(l) <= quotient_degree + 1
=============================================================================
