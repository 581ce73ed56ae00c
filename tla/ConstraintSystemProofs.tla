----------------------- MODULE ConstraintSystemProofs -----------------------
(***************************************************************************)
(* Proofs about the configuration of a constraint system: for every        *)
(* circuit, number of columns and size of the domain, cells are found      *)
(* under the names polynomials keep, every evaluation is blinded, keygen   *)
(* and the prover size the same system, and its degree covers its          *)
(* constraints.                                                            *)
(***************************************************************************)
EXTENDS ConstraintSystem, SequenceTheorems, TLAPS

QueryType == Nat \X Int
PolyType  == Seq(CellType)
FlagType  == [simple : BOOLEAN, col_idx : Int]
GateType  == [polys : Seq(PolyType), queried_selectors : SUBSET Nat]
LookupType == [selector : PolyType, inputs : Seq(PolyType), table : PolyType]
TrashType == [argument_index : Nat, selector : CellType, constraints : Seq(PolyType)]

SystemType ==
    [num_fixed_columns  : Nat,
     selector_flags     : Seq(FlagType),
     queries            : [Kinds -> Seq(QueryType)],
     num_advice_queries : [0 .. NumAdvice - 1 -> Nat],
     permutation        : Seq(Kinds \X Nat),
     gates              : Seq(GateType),
     lookups            : Seq(LookupType),
     trashcans          : Seq(TrashType),
     constants          : Seq(Kinds \X Nat),
     minimum_degree     : Int]

(* No cell is queried twice, and the count of an advice column is that of  *)
(* its queries.                                                            *)
AdviceQueriesOf(c, col) == {q \in ToSet(c.queries["advice"]) : q[1] = col}
DistinctQueries(c) ==
    \A kind \in Kinds : \A i, j \in DOMAIN c.queries[kind] :
        c.queries[kind][i] = c.queries[kind][j] => i = j
CountedQueries(c) ==
    \A col \in 0 .. NumAdvice - 1 :
        /\ IsFiniteSet(AdviceQueriesOf(c, col))
        /\ c.num_advice_queries[col] = Cardinality(AdviceQueriesOf(c, col))

Systems == {c \in SystemType : DistinctQueries(c) /\ CountedQueries(c)}

(* What a system becomes when cells of a set are queried: its queries keep *)
(* their positions, those of the cells are there, and no others are new.   *)
QueryOf(cell) == <<cell.column, cell.rotation>>
Kept(c, d) ==
    \A kind \in Kinds : \A i \in DOMAIN c.queries[kind] :
        i \in DOMAIN d.queries[kind] /\ d.queries[kind][i] = c.queries[kind][i]
Held(d, cells) ==
    \A cell \in cells : cell.kind # "selector" => QueryOf(cell) \in ToSet(d.queries[cell.kind])
Added(c, d, cells) ==
    \A kind \in Kinds : \A q \in ToSet(d.queries[kind]) :
        \/ q \in ToSet(c.queries[kind])
        \/ \E cell \in cells : cell.kind = kind /\ q = QueryOf(cell)
SameButQueries(c, d) ==
    /\ d.num_fixed_columns = c.num_fixed_columns /\ d.selector_flags = c.selector_flags
    /\ d.permutation = c.permutation /\ d.gates = c.gates /\ d.lookups = c.lookups
    /\ d.trashcans = c.trashcans /\ d.constants = c.constants
    /\ d.minimum_degree = c.minimum_degree

Queried(c, d, cells) ==
    d \in Systems /\ SameButQueries(c, d) /\ Kept(c, d) /\ Held(d, cells) /\ Added(c, d, cells)
-----------------------------------------------------------------------------
LEMMA SystemFields ==
  ASSUME NEW c \in SystemType
  PROVE  /\ c.num_fixed_columns \in Nat /\ c.selector_flags \in Seq(FlagType)
         /\ c.queries \in [Kinds -> Seq(QueryType)]
         /\ c.num_advice_queries \in [0 .. NumAdvice - 1 -> Nat]
         /\ c.permutation \in Seq(Kinds \X Nat) /\ c.gates \in Seq(GateType)
         /\ c.lookups \in Seq(LookupType) /\ c.trashcans \in Seq(TrashType)
         /\ c.constants \in Seq(Kinds \X Nat) /\ c.minimum_degree \in Int
  BY DEF SystemType

(* Elements of a sequence with one more.                                   *)
LEMMA AppendedSet ==
  ASSUME NEW S, NEW s \in Seq(S), NEW x \in S
  PROVE  /\ Append(s, x) \in Seq(S) /\ Len(Append(s, x)) = Len(s) + 1
         /\ DOMAIN Append(s, x) = 1 .. Len(s) + 1 /\ DOMAIN s = 1 .. Len(s)
         /\ \A i \in 1 .. Len(s) : Append(s, x)[i] = s[i]
         /\ Append(s, x)[Len(s) + 1] = x
         /\ ToSet(Append(s, x)) = ToSet(s) \cup {x}
  <1>1. /\ Append(s, x) \in Seq(S) /\ Len(Append(s, x)) = Len(s) + 1 /\ Len(s) \in Nat
        /\ DOMAIN Append(s, x) = 1 .. Len(s) + 1 /\ DOMAIN s = 1 .. Len(s)
        /\ \A i \in 1 .. Len(s) : Append(s, x)[i] = s[i]
        /\ Append(s, x)[Len(s) + 1] = x
    OBVIOUS
  <1> DEFINE t == Append(s, x)
  <1>2. /\ \A i \in 1 .. Len(s) + 1 : i \in 1 .. Len(s) \/ i = Len(s) + 1
        /\ Len(s) + 1 \in 1 .. Len(s) + 1 /\ 1 .. Len(s) \subseteq 1 .. Len(s) + 1
    BY <1>1
  <1>3. ToSet(t) = ToSet(s) \cup {x}
    <2> HIDE DEF t
    <2> USE <1>1, <1>2 DEF ToSet
    <2>1. ASSUME NEW y \in ToSet(t)
          PROVE  y \in ToSet(s) \cup {x}
      <3>1. PICK i \in DOMAIN t : y = t[i]
        OBVIOUS
      <3> QED
        BY <3>1 DEF t
    <2>2. ASSUME NEW y \in ToSet(s)
          PROVE  y \in ToSet(t)
      <3>1. PICK i \in DOMAIN s : y = s[i]
        OBVIOUS
      <3> QED
        BY <3>1 DEF t
    <2>3. x \in ToSet(t)
      BY DEF t
    <2> QED
      BY <2>1, <2>2, <2>3
  <1> QED
    BY <1>1, <1>3

LEMMA QueriedNothing ==
  ASSUME NEW c \in Systems
  PROVE  Queried(c, c, {})
  BY DEF Queried, SameButQueries, Kept, Held, Added

LEMMA QueriedThen ==
  ASSUME NEW b \in SystemType, NEW c, NEW d, NEW A, NEW B, Queried(b, c, A), Queried(c, d, B),
         A \cup B \subseteq CellType
  PROVE  Queried(b, d, A \cup B)
  <1>1. SameButQueries(b, d)
    BY DEF Queried, SameButQueries
  <1>2. Kept(b, d)
    BY DEF Queried, Kept
  <1>3. Held(d, A)
    <2> SUFFICES ASSUME NEW cell \in A, cell.kind # "selector"
                 PROVE  QueryOf(cell) \in ToSet(d.queries[cell.kind])
      BY DEF Held
    <2>1. cell.kind \in Kinds
      BY DEF CellType
    <2>2. PICK i \in DOMAIN c.queries[cell.kind] : QueryOf(cell) = c.queries[cell.kind][i]
      BY DEF Queried, Held, ToSet
    <2> QED
      BY <2>1, <2>2 DEF Queried, Kept, ToSet
  <1>4. Held(d, A \cup B)
    BY <1>3 DEF Queried, Held
  <1>5. Added(b, d, A \cup B)
    BY DEF Queried, Added
  <1> QED
    BY <1>1, <1>2, <1>4, <1>5 DEF Queried

(* Cells whose queries are counted.                                        *)
Queryable == {cell \in CellType : cell.kind = "advice" => cell.column \in Columns("advice")}

LEMMA AdviceColumns ==
  Columns("advice") = 0 .. NumAdvice - 1 /\ NumAdvice \in Nat
  BY ConfigurationAssumption DEF Columns, NumColumns

LEMMA OneMoreIsACount ==
  ASSUME NEW S, NEW f \in [S -> Nat], NEW x \in S
  PROVE  [f EXCEPT ![x] = @ + 1] \in [S -> Nat]
  <1>1. f[x] + 1 \in Nat
    OBVIOUS
  <1> QED
    BY <1>1

LEMMA NewQuery ==
  ASSUME NEW c \in Systems, NEW kind \in Kinds, NEW query \in QueryType,
         kind = "advice" => query[1] \in 0 .. NumAdvice - 1,
         ~ Contains(c.queries[kind], query)
  PROVE  /\ QueryIndex(c, kind, query) \in Systems
         /\ SameButQueries(c, QueryIndex(c, kind, query))
         /\ QueryIndex(c, kind, query).queries
                = [c.queries EXCEPT ![kind] = Append(@, query)]
  <1> DEFINE d == QueryIndex(c, kind, query)
             counts == IF kind = "advice"
                       THEN OneMoreOf(c, query[1])
                       ELSE c.num_advice_queries
             queries == [c.queries EXCEPT ![kind] = Append(@, query)]
  <1>1. /\ c \in SystemType /\ c.queries \in [Kinds -> Seq(QueryType)]
        /\ c.num_advice_queries \in [0 .. NumAdvice - 1 -> Nat]
        /\ c.queries[kind] \in Seq(QueryType)
    BY SystemFields DEF Systems
  <1>2. d = [c EXCEPT !.queries = queries, !.num_advice_queries = counts]
    BY <1>1 DEF QueryIndex, SystemType
  <1>3. /\ queries \in [Kinds -> Seq(QueryType)]
        /\ counts \in [0 .. NumAdvice - 1 -> Nat]
    <2>1. Append(c.queries[kind], query) \in Seq(QueryType)
      BY <1>1, AppendedSet
    <2>2. queries \in [Kinds -> Seq(QueryType)]
      BY <1>1, <2>1
    <2>3. counts \in [0 .. NumAdvice - 1 -> Nat]
      <3>1. CASE kind = "advice"
        <4>1. query[1] \in 0 .. NumAdvice - 1
          BY <3>1
        <4>2. OneMoreOf(c, query[1]) \in [0 .. NumAdvice - 1 -> Nat]
          BY <1>1, <4>1, OneMoreIsACount DEF OneMoreOf
        <4> QED
          BY <3>1, <4>2
      <3>2. CASE kind # "advice"
        BY <1>1, <3>2
      <3> QED
        BY <3>1, <3>2
    <2> QED
      BY <2>2, <2>3
  <1>4. /\ d \in SystemType /\ SameButQueries(c, d)
        /\ d.queries = queries /\ d.num_advice_queries = counts
    <2> HIDE DEF d, queries, counts
    <2> QED
      BY <1>1, <1>2, <1>3 DEF SystemType, SameButQueries
  <1>5. /\ \A k \in Kinds : k # kind => d.queries[k] = c.queries[k]
        /\ d.queries[kind] = Append(c.queries[kind], query)
    BY <1>1, <1>4
  <1> HIDE DEF d, queries, counts
  <1>6. query \notin ToSet(c.queries[kind])
    <2>1. \A i \in 1 .. Len(c.queries[kind]) : c.queries[kind][i] # query
      BY DEF Contains
    <2> QED
      BY <1>1, <2>1, LenProperties DEF ToSet
  <1>7. DistinctQueries(d)
    <2> SUFFICES ASSUME NEW k \in Kinds, NEW i \in DOMAIN d.queries[k],
                        NEW j \in DOMAIN d.queries[k], d.queries[k][i] = d.queries[k][j]
                 PROVE  i = j
      BY DEF DistinctQueries
    <2>1. CASE k # kind
      BY <1>5, <2>1 DEF Systems, DistinctQueries
    <2>2. CASE k = kind
      <3> DEFINE s == c.queries[kind]
      <3>1. /\ DOMAIN d.queries[k] = 1 .. Len(s) + 1 /\ DOMAIN s = 1 .. Len(s)
            /\ \A n \in 1 .. Len(s) : d.queries[k][n] = s[n]
            /\ d.queries[k][Len(s) + 1] = query /\ Len(s) \in Nat
        BY <1>1, <1>5, <2>2, AppendedSet, LenProperties
      <3>2. \A n \in 1 .. Len(s) : s[n] # query
        BY <1>6, <3>1 DEF ToSet
      <3>3. \A m, n \in 1 .. Len(s) : s[m] = s[n] => m = n
        BY <3>1 DEF Systems, DistinctQueries
      <3>4. /\ i \in 1 .. Len(s) \/ i = Len(s) + 1
            /\ j \in 1 .. Len(s) \/ j = Len(s) + 1
        BY <2>2, <3>1
      <3> HIDE DEF s
      <3> QED
        BY <2>2, <3>1, <3>2, <3>3, <3>4
    <2> QED
      BY <2>1, <2>2
  <1>8. CountedQueries(d)
    <2> SUFFICES ASSUME NEW col \in 0 .. NumAdvice - 1
                 PROVE  /\ IsFiniteSet(AdviceQueriesOf(d, col))
                        /\ d.num_advice_queries[col] = Cardinality(AdviceQueriesOf(d, col))
      BY DEF CountedQueries
    <2>1. /\ IsFiniteSet(AdviceQueriesOf(c, col))
          /\ c.num_advice_queries[col] = Cardinality(AdviceQueriesOf(c, col))
      BY DEF Systems, CountedQueries
    <2>2. CASE kind # "advice"
      <3>1. d.queries["advice"] = c.queries["advice"]
        BY <1>5, <2>2 DEF Kinds
      <3> QED
        BY <1>4, <2>1, <2>2, <3>1 DEF AdviceQueriesOf, counts
    <2>3. CASE kind = "advice"
      <3>1. ToSet(d.queries["advice"]) = ToSet(c.queries["advice"]) \cup {query}
        <4>1. d.queries["advice"] = Append(c.queries["advice"], query)
          BY <1>5, <2>3
        <4>2. c.queries["advice"] \in Seq(QueryType)
          BY <1>1, <2>3
        <4> QED
          BY <4>1, <4>2, AppendedSet
      <3>2. CASE query[1] # col
        <4>1. AdviceQueriesOf(d, col) = AdviceQueriesOf(c, col)
          BY <3>1, <3>2 DEF AdviceQueriesOf
        <4>2. d.num_advice_queries[col] = c.num_advice_queries[col]
          BY <1>1, <1>4, <3>2 DEF counts, OneMoreOf
        <4> QED
          BY <2>1, <4>1, <4>2
      <3>3. CASE query[1] = col
        <4>1. AdviceQueriesOf(d, col) = AdviceQueriesOf(c, col) \cup {query}
          BY <3>1, <3>3 DEF AdviceQueriesOf
        <4>2. query \notin AdviceQueriesOf(c, col)
          BY <1>6, <2>3 DEF AdviceQueriesOf
        <4>3. d.num_advice_queries[col] = c.num_advice_queries[col] + 1
          BY <1>1, <1>4, <2>3, <3>3 DEF counts, OneMoreOf
        <4> QED
          BY <2>1, <4>1, <4>2, <4>3, FS_AddElement
      <3> QED
        BY <3>2, <3>3
    <2> QED
      BY <2>2, <2>3
  <1> QED
    BY <1>4, <1>7, <1>8 DEF Systems, d, queries

LEMMA IndexQueried ==
  ASSUME NEW c \in Systems, NEW cell \in CellType, cell.kind \in Kinds,
         cell.kind = "advice" => cell.column \in 0 .. NumAdvice - 1
  PROVE  Queried(c, QueryIndex(c, cell.kind, QueryOf(cell)), {cell})
  <1> DEFINE kind == cell.kind
             query == QueryOf(cell)
             d == QueryIndex(c, kind, query)
  <1>1. query \in QueryType /\ query[1] = cell.column
    BY DEF QueryOf, QueryType, CellType
  <1>2. c \in SystemType /\ c.queries \in [Kinds -> Seq(QueryType)]
    BY SystemFields DEF Systems
  <1>3. CASE Contains(c.queries[kind], query)
    <2>1. d = c
      BY <1>3 DEF QueryIndex
    <2>2. query \in ToSet(c.queries[kind])
      <3>1. PICK i \in 1 .. Len(c.queries[kind]) : c.queries[kind][i] = query
        BY <1>3 DEF Contains
      <3>2. i \in DOMAIN c.queries[kind]
        BY <1>2, LenProperties
      <3> QED
        BY <3>1, <3>2 DEF ToSet
    <2>3. Held(c, {cell})
      BY <2>2 DEF Held
    <2>4. Added(c, c, {cell}) /\ Kept(c, c) /\ SameButQueries(c, c)
      BY DEF Added, Kept, SameButQueries
    <2> QED
      BY <2>1, <2>3, <2>4 DEF Queried
  <1>4. CASE ~ Contains(c.queries[kind], query)
    <2>1. /\ d \in Systems /\ SameButQueries(c, d)
          /\ d.queries = [c.queries EXCEPT ![kind] = Append(@, query)]
      BY ZenonT(40), <1>1, <1>4, NewQuery
    <2> HIDE DEF d
    <2>2. /\ \A k \in Kinds : k # kind => d.queries[k] = c.queries[k]
          /\ d.queries[kind] = Append(c.queries[kind], query)
          /\ c.queries[kind] \in Seq(QueryType)
      BY <1>2, <2>1
    <2>3. /\ DOMAIN d.queries[kind] = 1 .. Len(c.queries[kind]) + 1
          /\ DOMAIN c.queries[kind] = 1 .. Len(c.queries[kind])
          /\ \A i \in 1 .. Len(c.queries[kind]) : d.queries[kind][i] = c.queries[kind][i]
          /\ ToSet(d.queries[kind]) = ToSet(c.queries[kind]) \cup {query}
          /\ Len(c.queries[kind]) \in Nat
      BY <1>1, <2>2, AppendedSet, LenProperties
    <2>4. Kept(c, d)
      <3>1. \A i \in 1 .. Len(c.queries[kind]) : i \in 1 .. Len(c.queries[kind]) + 1
        BY <2>3
      <3> QED
        BY <2>2, <2>3, <3>1 DEF Kept
    <2>5. Held(d, {cell})
      BY <2>3 DEF Held
    <2>6. Added(c, d, {cell})
      BY <2>2, <2>3 DEF Added
    <2> QED
      BY <2>1, <2>4, <2>5, <2>6 DEF Queried, d
  <1> QED
    BY <1>3, <1>4

LEMMA CellQueried ==
  ASSUME NEW c \in Systems, NEW cell \in Queryable
  PROVE  Queried(c, Query(c, cell), {cell})
  <1>1. CASE cell.kind = "selector"
    <2>1. Query(c, cell) = c /\ Queried(c, c, {})
      BY <1>1, QueriedNothing DEF Query
    <2> QED
      BY <1>1, <2>1 DEF Queried, Held, Added
  <1>2. CASE cell.kind # "selector"
    <2>1. /\ cell \in CellType /\ cell.kind \in Kinds
          /\ cell.kind = "advice" => cell.column \in 0 .. NumAdvice - 1
      BY <1>2, AdviceColumns DEF Queryable, CellType
    <2>2. Query(c, cell) = QueryIndex(c, cell.kind, QueryOf(cell))
      BY <1>2 DEF Query, QueryOf
    <2> QED
      BY <2>1, <2>2, IndexQueried
  <1> QED
    BY <1>1, <1>2

(* The elements among the first of a sequence.                             *)
First(s, n) == {s[i] : i \in 1 .. n}

LEMMA FirstOfSequence ==
  ASSUME NEW S, NEW s \in Seq(S)
  PROVE  /\ First(s, 0) = {} /\ First(s, Len(s)) = ToSet(s) /\ Len(s) \in Nat
         /\ \A n \in 1 .. Len(s) : /\ s[n] \in S /\ n - 1 \in 0 .. Len(s)
                                   /\ First(s, n) = First(s, n - 1) \cup {s[n]}
                                   /\ First(s, n) \subseteq S
  <1>1. Len(s) \in Nat /\ DOMAIN s = 1 .. Len(s) /\ \A i \in 1 .. Len(s) : s[i] \in S
    BY LenProperties
  <1>2. First(s, 0) = {}
    BY DEF First
  <1>3. First(s, Len(s)) = ToSet(s)
    BY <1>1 DEF First, ToSet
  <1>4. ASSUME NEW n \in 1 .. Len(s)
        PROVE  /\ s[n] \in S /\ n - 1 \in 0 .. Len(s)
               /\ First(s, n) = First(s, n - 1) \cup {s[n]}
               /\ First(s, n) \subseteq S
    <2>1. /\ n - 1 \in 0 .. Len(s) /\ n \in 1 .. n /\ 1 .. n - 1 \subseteq 1 .. n
          /\ \A i \in 1 .. n : i \in 1 .. n - 1 \/ i = n
          /\ 1 .. n \subseteq 1 .. Len(s)
      BY <1>1
    <2> QED
      BY <1>1, <2>1 DEF First
  <1> QED
    BY <1>1, <1>2, <1>3, <1>4

LEMMA PolyQueried ==
  ASSUME NEW c \in Systems, NEW poly \in Seq(Queryable)
  PROVE  Queried(c, QueryPoly(c, poly), ToSet(poly))
  <1> DEFINE m == Len(poly)
             next == [p \in (1 .. m) \X Systems |-> Query(p[2], poly[p[1]])]
             Is(f) == f = [n \in 0 .. m |-> IF n = 0 THEN c ELSE Query(f[n - 1], poly[n])]
  <1>1. /\ m \in Nat /\ First(poly, 0) = {} /\ First(poly, m) = ToSet(poly)
        /\ \A n \in 1 .. m : /\ poly[n] \in Queryable /\ n - 1 \in 0 .. m
                             /\ First(poly, n) = First(poly, n - 1) \cup {poly[n]}
                             /\ First(poly, n) \subseteq CellType
    <2>1. Queryable \subseteq CellType
      BY DEF Queryable
    <2> QED
      BY <2>1, FirstOfSequence
  <1>2. PICK f : Loops(f, m, Systems, c, next)
    <2>1. ASSUME NEW n \in 1 .. m, NEW d \in Systems
          PROVE  Query(d, poly[n]) \in Systems
      BY <1>1, CellQueried DEF Queried
    <2>2. Steps(next, 1 .. m, Systems)
      BY <2>1 DEF Steps
    <2> HIDE DEF m, next
    <2> QED
      BY <1>1, <2>2, LoopsExist
  <1>3. Is(f)
    <2>1. \A n \in 1 .. m : f[n] = Query(f[n - 1], poly[n])
      <3> SUFFICES ASSUME NEW n \in 1 .. m
                   PROVE  f[n] = Query(f[n - 1], poly[n])
        OBVIOUS
      <3>1. f[n] = next[n, f[n - 1]] /\ f[n - 1] \in Systems
        BY <1>1, <1>2 DEF Loops
      <3> QED
        BY <3>1
    <2>2. f \in [0 .. m -> Systems] /\ f[0] = c
      BY <1>2 DEF Loops
    <2>3. \A n \in 0 .. m : n = 0 \/ n \in 1 .. m
      BY <1>1
    <2> HIDE DEF m, next
    <2> QED
      BY <2>1, <2>2, <2>3
  <1>4. PICK q : Is(q) /\ QueryPoly(c, poly) = q[m]
    <2> DEFINE q == CHOOSE g : Is(g)
    <2>1. QueryPoly(c, poly) = q[m]
      BY DEF QueryPoly
    <2>2. Is(q)
      <3> HIDE DEF Is
      <3> QED
        BY <1>3
    <2> HIDE DEF q, Is
    <2> QED
      BY <2>1, <2>2
  <1> DEFINE P == {n \in 0 .. m : Queried(c, q[n], First(poly, n))}
  <1>5. 0 \in P
    <2>1. q[0] = c /\ 0 \in 0 .. m
      BY <1>1, <1>4
    <2> HIDE DEF Is, m
    <2> QED
      BY <1>1, <2>1, QueriedNothing
  <1>6. ASSUME NEW n \in 1 .. m, n - 1 \in P
        PROVE  n \in P
    <2>1. q[n] = Query(q[n - 1], poly[n]) /\ Queried(c, q[n - 1], First(poly, n - 1))
      BY <1>1, <1>4, <1>6
    <2>2. Queried(q[n - 1], q[n], {poly[n]})
      BY <1>1, <2>1, CellQueried DEF Queried
    <2>3. Queried(c, q[n], First(poly, n))
      <3>1. /\ First(poly, n) = First(poly, n - 1) \cup {poly[n]}
            /\ First(poly, n - 1) \cup {poly[n]} \subseteq CellType /\ c \in SystemType
        BY <1>1 DEF Systems
      <3> HIDE DEF P, m, Is
      <3> QED
        BY <2>1, <2>2, <3>1, QueriedThen
    <2> QED
      BY <2>3
  <1>7. m \in P
    <2> HIDE DEF P, m
    <2>1. 0 .. m \subseteq P
      BY <1>1, <1>5, <1>6, InductionUpTo
    <2> QED
      BY <1>1, <2>1
  <1> QED
    BY <1>1, <1>4, <1>7

LEMMA CellsQueried ==
  ASSUME NEW c \in Systems, NEW polys \in Seq(Seq(Queryable))
  PROVE  Queried(c, QueryCells(c, polys), CellsIn(ToSet(polys)))
  <1> DEFINE m == Len(polys)
             next == [p \in (1 .. m) \X Systems |-> QueryPoly(p[2], polys[p[1]])]
             Is(f) == f = [n \in 0 .. m |-> IF n = 0 THEN c ELSE QueryPoly(f[n - 1], polys[n])]
  <1>1. /\ m \in Nat /\ CellsIn(First(polys, 0)) = {}
        /\ CellsIn(First(polys, m)) = CellsIn(ToSet(polys))
        /\ \A n \in 1 .. m :
              /\ polys[n] \in Seq(Queryable) /\ n - 1 \in 0 .. m
              /\ CellsIn(First(polys, n)) = CellsIn(First(polys, n - 1)) \cup ToSet(polys[n])
              /\ CellsIn(First(polys, n)) \subseteq CellType
    <2>1. /\ m \in Nat /\ First(polys, 0) = {} /\ First(polys, m) = ToSet(polys)
          /\ \A n \in 1 .. m : /\ polys[n] \in Seq(Queryable) /\ n - 1 \in 0 .. m
                               /\ First(polys, n) = First(polys, n - 1) \cup {polys[n]}
                               /\ First(polys, n) \subseteq Seq(Queryable)
      BY FirstOfSequence
    <2>2. \A poly \in Seq(Queryable) : ToSet(poly) \subseteq CellType
      BY LenProperties DEF Queryable, ToSet
    <2> HIDE DEF m
    <2> QED
      BY <2>1, <2>2 DEF CellsIn
  <1>2. PICK f : Loops(f, m, Systems, c, next)
    <2>1. ASSUME NEW n \in 1 .. m, NEW d \in Systems
          PROVE  QueryPoly(d, polys[n]) \in Systems
      BY <1>1, PolyQueried DEF Queried
    <2>2. Steps(next, 1 .. m, Systems)
      BY <2>1 DEF Steps
    <2> HIDE DEF m, next
    <2> QED
      BY <1>1, <2>2, LoopsExist
  <1>3. Is(f)
    <2>1. \A n \in 1 .. m : f[n] = QueryPoly(f[n - 1], polys[n])
      <3> SUFFICES ASSUME NEW n \in 1 .. m
                   PROVE  f[n] = QueryPoly(f[n - 1], polys[n])
        OBVIOUS
      <3>1. f[n] = next[n, f[n - 1]] /\ f[n - 1] \in Systems
        BY <1>1, <1>2 DEF Loops
      <3> QED
        BY <3>1
    <2>2. f \in [0 .. m -> Systems] /\ f[0] = c
      BY <1>2 DEF Loops
    <2>3. \A n \in 0 .. m : n = 0 \/ n \in 1 .. m
      BY <1>1
    <2> HIDE DEF m, next
    <2> QED
      BY <2>1, <2>2, <2>3
  <1>4. PICK q : Is(q) /\ QueryCells(c, polys) = q[m]
    <2> DEFINE q == CHOOSE g : Is(g)
    <2>1. QueryCells(c, polys) = q[m]
      BY DEF QueryCells
    <2>2. Is(q)
      <3> HIDE DEF Is
      <3> QED
        BY <1>3
    <2> HIDE DEF q, Is
    <2> QED
      BY <2>1, <2>2
  <1> DEFINE P == {n \in 0 .. m : Queried(c, q[n], CellsIn(First(polys, n)))}
  <1>5. 0 \in P
    <2>1. q[0] = c /\ 0 \in 0 .. m
      BY <1>1, <1>4
    <2> HIDE DEF Is, m
    <2> QED
      BY <1>1, <2>1, QueriedNothing
  <1>6. ASSUME NEW n \in 1 .. m, n - 1 \in P
        PROVE  n \in P
    <2>1. /\ q[n] = QueryPoly(q[n - 1], polys[n])
          /\ Queried(c, q[n - 1], CellsIn(First(polys, n - 1)))
      <3>1. Queried(c, q[n - 1], CellsIn(First(polys, n - 1)))
        BY <1>6
      <3>2. n \in 0 .. m /\ n # 0
        BY <1>1
      <3>3. q[n] = QueryPoly(q[n - 1], polys[n])
        BY <1>4, <3>2
      <3> QED
        BY <3>1, <3>3
    <2>2. Queried(q[n - 1], q[n], ToSet(polys[n]))
      BY <1>1, <2>1, PolyQueried DEF Queried
    <2>3. Queried(c, q[n], CellsIn(First(polys, n)))
      <3>1. /\ CellsIn(First(polys, n)) = CellsIn(First(polys, n - 1)) \cup ToSet(polys[n])
            /\ CellsIn(First(polys, n - 1)) \cup ToSet(polys[n]) \subseteq CellType
            /\ c \in SystemType
        BY <1>1 DEF Systems
      <3> HIDE DEF P, m, Is
      <3> QED
        BY <2>1, <2>2, <3>1, QueriedThen
    <2> QED
      BY <2>3
  <1>7. m \in P
    <2> HIDE DEF P, m
    <2>1. 0 .. m \subseteq P
      BY <1>1, <1>5, <1>6, InductionUpTo
    <2> QED
      BY <1>1, <2>1
  <1> QED
    BY <1>1, <1>4, <1>7
-----------------------------------------------------------------------------
(* Positions: the first of an element that a sequence has.                 *)
LEMMA PositionFound ==
  ASSUME NEW S, NEW s \in Seq(S), NEW x \in ToSet(s)
  PROVE  Position(s, x) \in DOMAIN s /\ s[Position(s, x)] = x
  <1> DEFINE At == {i \in 1 .. Len(s) : s[i] = x}
  <1>1. Len(s) \in Nat /\ DOMAIN s = 1 .. Len(s)
    BY LenProperties
  <1>2. PICK i \in DOMAIN s : s[i] = x
    BY DEF ToSet
  <1>3. At \in SUBSET Nat /\ At # {}
    BY <1>1, <1>2
  <1>4. PICK n \in At : \A j \in At : n <= j
    BY <1>3, LeastOfSet
  <1>5. n \in DOMAIN s /\ s[n] = x /\ \A j \in 1 .. n - 1 : s[j] # x
    <2>1. \A j \in 1 .. n - 1 : j \in 1 .. Len(s) /\ ~ (n <= j)
      BY <1>1
    <2> QED
      BY <1>1, <1>4, <2>1
  <1> QED
    BY <1>5 DEF Position

LEMMA SequenceOf ==
  ASSUME NEW S, NEW n \in Nat, NEW f \in [1 .. n -> S]
  PROVE  f \in Seq(S) /\ Len(f) = n /\ DOMAIN f = 1 .. n
  BY SeqDef

(* What a polynomial may hold: selectors of the circuit, and cells under    *)
(* the index of their query.                                               *)
IsNamed(c, cell) ==
    /\ cell \in CellType
    /\ IF cell.kind = "selector" THEN cell.column + 1 \in DOMAIN c.selector_flags
       ELSE /\ cell.index \in DOMAIN c.queries[cell.kind]
            /\ c.queries[cell.kind][cell.index] = QueryOf(cell)

LEMMA NamedLater ==
  ASSUME NEW c, NEW d, NEW cell, IsNamed(c, cell), Kept(c, d),
         d.selector_flags = c.selector_flags
  PROVE  IsNamed(d, cell)
  BY DEF IsNamed, Kept, CellType

SelectorsExist(c, polys) ==
    \A cell \in CellsIn(ToSet(polys)) :
        cell.kind = "selector" => cell.column + 1 \in DOMAIN c.selector_flags

ResolvedCell(c, cell) ==
    IF cell.kind = "selector" THEN cell
    ELSE [cell EXCEPT !.index = Position(c.queries[cell.kind], <<cell.column, cell.rotation>>)]

LEMMA CellIsNamed ==
  ASSUME NEW c \in SystemType, NEW cell \in CellType, Held(c, {cell}),
         cell.kind = "selector" => cell.column + 1 \in DOMAIN c.selector_flags
  PROVE  /\ IsNamed(c, ResolvedCell(c, cell))
         /\ ResolvedCell(c, cell).kind = cell.kind /\ ResolvedCell(c, cell).column = cell.column
  <1>1. CASE cell.kind = "selector"
    BY <1>1 DEF IsNamed, ResolvedCell
  <1>2. CASE cell.kind # "selector"
    <2> DEFINE s == c.queries[cell.kind]
               n == Position(s, QueryOf(cell))
    <2>1. s \in Seq(QueryType) /\ QueryOf(cell) \in ToSet(s)
      BY <1>2, SystemFields DEF Held, CellType
    <2>2. n \in DOMAIN s /\ s[n] = QueryOf(cell)
      BY <2>1, PositionFound
    <2>3. n \in Nat
      BY <2>1, <2>2, LenProperties
    <2> HIDE DEF n
    <2>4. ResolvedCell(c, cell) = [cell EXCEPT !.index = n]
      BY <1>2 DEF ResolvedCell, n, QueryOf
    <2>5. /\ ResolvedCell(c, cell) \in CellType
          /\ ResolvedCell(c, cell).kind = cell.kind /\ ResolvedCell(c, cell).column = cell.column
          /\ ResolvedCell(c, cell).rotation = cell.rotation /\ ResolvedCell(c, cell).index = n
      BY <2>3, <2>4 DEF CellType
    <2> QED
      BY <1>2, <2>2, <2>5 DEF IsNamed, QueryOf
  <1> QED
    BY <1>1, <1>2

(* A sequence of polynomials with other cells in the same places.          *)
SameShape(polys, other) ==
    /\ other \in Seq(PolyType) /\ Len(other) = Len(polys) /\ DOMAIN other = DOMAIN polys
    /\ \A i \in DOMAIN polys : Len(other[i]) = Len(polys[i]) /\ DOMAIN other[i] = DOMAIN polys[i]

LEMMA ResolvedPolynomials ==
  ASSUME NEW c \in SystemType, NEW polys \in Seq(PolyType),
         Held(c, CellsIn(ToSet(polys))), SelectorsExist(c, polys)
  PROVE  /\ SameShape(polys, Resolve(c, polys))
         /\ \A cell \in CellsIn(ToSet(Resolve(c, polys))) : IsNamed(c, cell)
  <1> DEFINE r == Resolve(c, polys)
  <1>1. Len(polys) \in Nat /\ DOMAIN polys = 1 .. Len(polys)
    BY LenProperties
  <1>2. DOMAIN r = DOMAIN polys
    BY DEF Resolve
  <1>3. ASSUME NEW p \in DOMAIN polys
        PROVE  /\ r[p] \in PolyType /\ Len(r[p]) = Len(polys[p])
               /\ DOMAIN r[p] = DOMAIN polys[p]
               /\ \A i \in DOMAIN polys[p] : IsNamed(c, r[p][i])
    <2>1. /\ polys[p] \in Seq(CellType) /\ polys[p] \in ToSet(polys)
          /\ DOMAIN polys[p] = 1 .. Len(polys[p]) /\ Len(polys[p]) \in Nat
          /\ \A i \in DOMAIN polys[p] : polys[p][i] \in CellType
      BY <1>1, LenProperties DEF PolyType, ToSet
    <2>2. r[p] = [i \in DOMAIN polys[p] |-> ResolvedCell(c, polys[p][i])]
      BY DEF Resolve, ResolvedCell
    <2>3. ASSUME NEW i \in DOMAIN polys[p]
          PROVE  r[p][i] \in CellType /\ IsNamed(c, r[p][i])
      <3>1. r[p][i] = ResolvedCell(c, polys[p][i])
        BY <2>2
      <3>2. polys[p][i] \in CellsIn(ToSet(polys))
        BY <2>1 DEF CellsIn, ToSet
      <3>3. /\ Held(c, {polys[p][i]})
            /\ polys[p][i].kind = "selector"
                   => polys[p][i].column + 1 \in DOMAIN c.selector_flags
        BY <3>2 DEF Held, SelectorsExist
      <3> QED
        BY <2>1, <3>1, <3>3, CellIsNamed DEF IsNamed
    <2>4. r[p] \in [1 .. Len(polys[p]) -> CellType]
      BY <2>1, <2>2, <2>3
    <2> QED
      BY <2>1, <2>3, <2>4, SequenceOf DEF PolyType
  <1> HIDE DEF r
  <1>4. r \in [1 .. Len(polys) -> PolyType]
    <2>1. r = [p \in DOMAIN polys |-> r[p]]
      BY <1>2 DEF r, Resolve
    <2> QED
      BY <1>1, <1>3, <2>1
  <1>5. SameShape(polys, r)
    <2>1. r \in Seq(PolyType) /\ Len(r) = Len(polys)
      BY <1>1, <1>4, SequenceOf
    <2> QED
      BY <1>2, <1>3, <2>1 DEF SameShape
  <1>6. ASSUME NEW cell \in CellsIn(ToSet(r))
        PROVE  IsNamed(c, cell)
    <2>1. PICK p \in DOMAIN r : cell \in ToSet(r[p])
      BY DEF CellsIn, ToSet
    <2>2. PICK i \in DOMAIN r[p] : cell = r[p][i]
      BY <2>1 DEF ToSet
    <2> QED
      BY <1>2, <1>3, <2>1, <2>2
  <1> QED
    BY <1>5, <1>6 DEF r

-----------------------------------------------------------------------------
(* What holds of a system while it is configured.                          *)
FixedQueriesExist(c)  == \A q \in ToSet(c.queries["fixed"]) : q[1] < NumFixed
PolynomialsNamed(c)   == \A cell \in CellsIn(Polynomials(c)) : IsNamed(c, cell)
TrashNamed(c) ==
    \A cell \in CellsIn(TrashPolynomials(c)) :
        \/ IsNamed(c, cell)
        \/ cell \in CellType /\ cell.kind # "selector" /\ cell.index = Unresolved
GateSelectorsKnown(c) == \A g \in ToSet(c.gates) : SelectorsIn(g.polys) \subseteq g.queried_selectors

Configuration(c) ==
    /\ c \in Systems /\ c.num_fixed_columns = NumFixed
    /\ FixedQueriesExist(c) /\ PolynomialsNamed(c) /\ TrashNamed(c) /\ GateSelectorsKnown(c)

LEMMA ConfigurationQueried ==
  ASSUME NEW c, NEW d, NEW cells, Configuration(c), Queried(c, d, cells),
         \A cell \in cells : cell.kind = "fixed" => cell.column < NumFixed
  PROVE  Configuration(d)
  <1>1. /\ d \in Systems /\ SameButQueries(c, d) /\ Kept(c, d) /\ Added(c, d, cells)
        /\ c \in Systems /\ c.num_fixed_columns = NumFixed
        /\ FixedQueriesExist(c) /\ PolynomialsNamed(c) /\ TrashNamed(c) /\ GateSelectorsKnown(c)
    BY DEF Configuration, Queried
  <1>2. /\ d.num_fixed_columns = NumFixed /\ d.selector_flags = c.selector_flags
        /\ Polynomials(d) = Polynomials(c) /\ TrashPolynomials(d) = TrashPolynomials(c)
        /\ d.gates = c.gates
    BY <1>1 DEF SameButQueries, Polynomials, GatePolynomials, LookupPolynomials, TrashPolynomials
  <1>3. FixedQueriesExist(d)
    BY <1>1 DEF FixedQueriesExist, Added, Kinds, QueryOf
  <1>4. PolynomialsNamed(d)
    BY <1>1, <1>2, NamedLater DEF PolynomialsNamed
  <1>5. TrashNamed(d)
    BY <1>1, <1>2, NamedLater DEF TrashNamed
  <1>6. GateSelectorsKnown(d)
    BY <1>1, <1>2 DEF GateSelectorsKnown
  <1> QED
    BY <1>1, <1>2, <1>3, <1>4, <1>5, <1>6 DEF Configuration

(* Queries, selectors and columns the same.                                *)
SameQueries(c, d) ==
    /\ d.queries = c.queries /\ d.num_advice_queries = c.num_advice_queries
    /\ d.num_fixed_columns = c.num_fixed_columns /\ d.selector_flags = c.selector_flags

LEMMA ConfigurationExtended ==
  ASSUME NEW c, NEW d \in SystemType, Configuration(c), SameQueries(c, d),
         \A cell \in CellsIn(Polynomials(d)) :
             cell \in CellsIn(Polynomials(c)) \/ IsNamed(c, cell),
         \A cell \in CellsIn(TrashPolynomials(d)) :
             \/ cell \in CellsIn(TrashPolynomials(c)) \/ IsNamed(c, cell)
             \/ cell \in CellType /\ cell.kind # "selector" /\ cell.index = Unresolved,
         \A g \in ToSet(d.gates) :
             g \in ToSet(c.gates) \/ SelectorsIn(g.polys) \subseteq g.queried_selectors
  PROVE  Configuration(d)
  <1>1. /\ c \in Systems /\ c.num_fixed_columns = NumFixed
        /\ FixedQueriesExist(c) /\ PolynomialsNamed(c) /\ TrashNamed(c) /\ GateSelectorsKnown(c)
    BY DEF Configuration
  <1>2. d \in Systems
    <2>1. DistinctQueries(d)
      BY <1>1 DEF Systems, DistinctQueries, SameQueries
    <2>2. CountedQueries(d)
      BY <1>1 DEF Systems, CountedQueries, AdviceQueriesOf, SameQueries
    <2> QED
      BY <2>1, <2>2 DEF Systems
  <1>3. \A cell : IsNamed(c, cell) => IsNamed(d, cell)
    BY DEF IsNamed, SameQueries
  <1>4. d.num_fixed_columns = NumFixed /\ FixedQueriesExist(d)
    BY <1>1 DEF FixedQueriesExist, SameQueries
  <1>5. PolynomialsNamed(d)
    BY <1>1, <1>3 DEF PolynomialsNamed
  <1>6. TrashNamed(d)
    BY <1>1, <1>3 DEF TrashNamed
  <1>7. GateSelectorsKnown(d)
    BY <1>1 DEF GateSelectorsKnown
  <1> QED
    BY <1>2, <1>4, <1>5, <1>6, <1>7 DEF Configuration

(* What a circuit hands in.                                                *)
LEMMA CellsHanded ==
  ASSUME NEW flags, NEW polys, ArePolynomials(flags, polys)
  PROVE  /\ polys \in Seq(Seq(Queryable)) /\ polys \in Seq(PolyType)
         /\ \A cell \in CellsIn(ToSet(polys)) :
               /\ cell \in CellType /\ cell.index = Unresolved
               /\ cell.kind = "fixed" => cell.column < NumFixed
               /\ cell.kind = "selector" => cell.column + 1 \in DOMAIN flags
  <1>1. /\ polys \in Seq(PolyType) /\ DOMAIN polys = 1 .. Len(polys) /\ Len(polys) \in Nat
        /\ \A p \in DOMAIN polys : polys[p] \in Seq(CellType)
    BY LenProperties DEF ArePolynomials, PolyType
  <1>2. ASSUME NEW p \in DOMAIN polys, NEW i \in DOMAIN polys[p]
        PROVE  polys[p][i] \in CellType /\ Handed(flags, polys[p][i])
    <2>1. polys[p][i] \in CellsIn(ToSet(polys))
      BY DEF CellsIn, ToSet
    <2>2. polys[p][i] \in CellType
      BY <1>1, LenProperties
    <2> QED
      BY <2>1, <2>2 DEF ArePolynomials
  <1>3. NumColumns["fixed"] = NumFixed /\ NumFixed \in Nat
    BY ConfigurationAssumption DEF NumColumns
  <1>4. ASSUME NEW p \in DOMAIN polys, NEW i \in DOMAIN polys[p]
        PROVE  /\ polys[p][i] \in Queryable
               /\ polys[p][i].kind = "fixed" => polys[p][i].column < NumFixed
               /\ polys[p][i].kind = "selector" => polys[p][i].column + 1 \in DOMAIN flags
               /\ polys[p][i].index = Unresolved
    <2> DEFINE cell == polys[p][i]
    <2>1. cell \in CellType /\ Handed(flags, cell)
      BY <1>2
    <2> HIDE DEF cell
    <2>2. cell \in Queryable
      BY <2>1 DEF Handed, Queryable
    <2>3. cell.kind = "fixed" => cell.column \in 0 .. NumFixed - 1
      BY <1>3, <2>1 DEF Handed, Columns
    <2>4. cell.kind = "fixed" => cell.column < NumFixed
      BY <1>3, <2>3
    <2> QED
      BY <2>1, <2>2, <2>4 DEF Handed, cell
  <1>5. ASSUME NEW p \in DOMAIN polys
        PROVE  polys[p] \in Seq(Queryable)
    <2>1. /\ DOMAIN polys[p] = 1 .. Len(polys[p]) /\ Len(polys[p]) \in Nat
          /\ polys[p] = [i \in DOMAIN polys[p] |-> polys[p][i]]
      BY <1>1, LenProperties
    <2>2. polys[p] \in [1 .. Len(polys[p]) -> Queryable]
      BY <1>4, <2>1
    <2> QED
      BY <2>1, <2>2, SequenceOf
  <1>6. polys \in Seq(Seq(Queryable))
    <2>1. polys \in [1 .. Len(polys) -> Seq(Queryable)]
      <3>1. polys = [p \in DOMAIN polys |-> polys[p]]
        BY <1>1, LenProperties
      <3> QED
        BY <1>1, <1>5, <3>1
    <2> QED
      BY <1>1, <2>1, SequenceOf
  <1>7. ASSUME NEW cell \in CellsIn(ToSet(polys))
        PROVE  \E p \in DOMAIN polys : \E i \in DOMAIN polys[p] : cell = polys[p][i]
    BY DEF CellsIn, ToSet
  <1> QED
    BY <1>1, <1>2, <1>4, <1>6, <1>7

LEMMA SelectorsHanded ==
  ASSUME NEW c \in SystemType, NEW flags \in Seq(BOOLEAN), NEW selector,
         DOMAIN c.selector_flags = DOMAIN flags, selector = <<>> \/ IsSelector(flags, selector)
  PROVE  /\ selector \in PolyType
         /\ \A cell \in ToSet(selector) : cell \in CellType /\ cell.kind = "selector" /\ IsNamed(c, cell)
         /\ selector # <<>> => /\ Len(selector) = 1 /\ selector[1] \in ToSet(selector)
                               /\ <<selector[1]>> = selector
  <1>1. CASE selector = <<>>
    BY <1>1 DEF PolyType, ToSet
  <1>2. CASE IsSelector(flags, selector)
    <2>1. PICK i \in DOMAIN flags : selector = <<SelectorCell(i - 1)>>
      BY <1>2 DEF IsSelector
    <2>2. i - 1 \in Nat /\ i - 1 + 1 = i
      BY LenProperties
    <2> DEFINE cell == SelectorCell(i - 1)
    <2>3. cell \in CellType /\ cell.kind = "selector" /\ cell.column = i - 1
      BY <2>2 DEF SelectorCell, Cell, CellType, Unresolved
    <2>4. IsNamed(c, cell)
      BY <2>2, <2>3 DEF IsNamed
    <2> HIDE DEF cell
    <2>5. selector = <<cell>>
      BY <2>1 DEF cell
    <2>6. ToSet(selector) = {cell} /\ selector[1] = cell /\ Len(selector) = 1
      BY <2>5 DEF ToSet
    <2>7. selector \in PolyType
      BY <2>3, <2>5 DEF PolyType
    <2> QED
      BY <2>3, <2>4, <2>5, <2>6, <2>7
  <1> QED
    BY <1>1, <1>2

LEMMA SelectorApplied ==
  ASSUME NEW selector \in PolyType, NEW polys \in Seq(PolyType)
  PROVE  /\ Applied(selector, polys) \in Seq(PolyType)
         /\ CellsIn(ToSet(Applied(selector, polys)))
                \subseteq ToSet(selector) \cup CellsIn(ToSet(polys))
  <1> DEFINE r == Applied(selector, polys)
  <1>1. Len(polys) \in Nat /\ DOMAIN polys = 1 .. Len(polys)
    BY LenProperties
  <1>2. r = [i \in DOMAIN polys |-> selector \o polys[i]]
    BY DEF Applied
  <1> HIDE DEF r
  <1>3. ASSUME NEW i \in DOMAIN polys
        PROVE  /\ r[i] \in PolyType
               /\ ToSet(r[i]) \subseteq ToSet(selector) \cup ToSet(polys[i])
    <2> DEFINE p == polys[i]
    <2>1. p \in Seq(CellType) /\ selector \in Seq(CellType)
      BY <1>1, LenProperties DEF PolyType
    <2> HIDE DEF p
    <2>2. /\ selector \o p \in Seq(CellType) /\ Len(selector \o p) = Len(selector) + Len(p)
          /\ \A n \in 1 .. Len(selector) + Len(p) : (selector \o p)[n] =
                  IF n <= Len(selector) THEN selector[n] ELSE p[n - Len(selector)]
      BY <2>1, ConcatProperties
    <2>3. /\ DOMAIN (selector \o p) = 1 .. Len(selector) + Len(p)
          /\ DOMAIN selector = 1 .. Len(selector) /\ DOMAIN p = 1 .. Len(p)
          /\ Len(selector) \in Nat /\ Len(p) \in Nat
      BY <2>1, <2>2, LenProperties
    <2>4. ASSUME NEW n \in DOMAIN (selector \o p)
          PROVE  (selector \o p)[n] \in ToSet(selector) \cup ToSet(p)
      <3>1. CASE n <= Len(selector)
        <4>1. n \in DOMAIN selector /\ (selector \o p)[n] = selector[n]
          BY <2>2, <2>3, <3>1
        <4> QED
          BY <4>1 DEF ToSet
      <3>2. CASE ~ (n <= Len(selector))
        <4>1. n - Len(selector) \in DOMAIN p /\ (selector \o p)[n] = p[n - Len(selector)]
          BY <2>2, <2>3, <3>2
        <4> QED
          BY <4>1 DEF ToSet
      <3> QED
        BY <3>1, <3>2
    <2>5. r[i] = selector \o p
      BY <1>2 DEF p
    <2>6. ToSet(r[i]) \subseteq ToSet(selector) \cup ToSet(p)
      BY <2>4, <2>5 DEF ToSet
    <2> QED
      BY <2>2, <2>5, <2>6 DEF PolyType, p
  <1>4. r \in Seq(PolyType) /\ DOMAIN r = DOMAIN polys
    <2>1. r \in [1 .. Len(polys) -> PolyType]
      <3>1. DOMAIN r = DOMAIN polys /\ r = [i \in DOMAIN polys |-> r[i]]
        BY <1>2
      <3> QED
        BY <1>1, <1>3, <3>1
    <2> QED
      BY <1>1, <2>1, SequenceOf
  <1>5. CellsIn(ToSet(r)) \subseteq ToSet(selector) \cup CellsIn(ToSet(polys))
    <2> SUFFICES ASSUME NEW cell \in CellsIn(ToSet(r))
                 PROVE  cell \in ToSet(selector) \cup CellsIn(ToSet(polys))
      OBVIOUS
    <2>1. PICK i \in DOMAIN polys : cell \in ToSet(r[i])
      BY <1>4 DEF CellsIn, ToSet
    <2>2. ToSet(polys[i]) \subseteq CellsIn(ToSet(polys))
      BY DEF CellsIn, ToSet
    <2> QED
      BY <1>3, <2>1, <2>2
  <1> QED
    BY <1>4, <1>5 DEF r

-----------------------------------------------------------------------------
PhaseOK ==
    /\ phase \in {"configure", "keyed", "refused", "panicked"}
    /\ ncalls \in 0 .. Len(circuit.calls) /\ usable_rows \in 0 .. N /\ quotient_degree \in Nat
    /\ phase = "keyed" => usable_rows >= 2 /\ quotient_degree >= 2

FlagsOfCircuit(c) == DOMAIN c.selector_flags = DOMAIN circuit.selectors

(* The inductive invariant: a system under configuration is one the        *)
(* conversion can rely on; once converted it has the properties for good.  *)
IInv ==
    /\ circuit \in Circuits /\ PhaseOK /\ cs \in Systems
    /\ phase # "keyed" => Configuration(cs) /\ FlagsOfCircuit(cs)
    /\ phase = "keyed" => /\ QueriesAreTracked /\ ConversionKeepsSizes /\ DegreeCovers
                          /\ CellsIn(Polynomials(cs) \cup TrashPolynomials(cs)) \subseteq CellType

LEMMA CircuitFields ==
  ASSUME IInv
  PROVE  /\ circuit.selectors \in Seq(BOOLEAN) /\ Len(circuit.calls) \in Nat
         /\ Configuring => /\ IsCall(circuit.selectors, Call)
                           /\ ncalls + 1 \in 0 .. Len(circuit.calls)
                           /\ Configuration(cs) /\ FlagsOfCircuit(cs)
  <1>1. circuit.selectors \in Seq(BOOLEAN) /\ Len(circuit.calls) \in Nat
    BY CircuitsAssumption DEF IInv
  <1>2. ASSUME Configuring
        PROVE  ncalls + 1 \in 1 .. Len(circuit.calls)
    BY <1>1, <1>2 DEF IInv, PhaseOK, Configuring
  <1>3. ASSUME Configuring
        PROVE  IsCall(circuit.selectors, Call)
    BY <1>2, <1>3, CircuitsAssumption DEF IInv, Call
  <1> QED
    BY <1>1, <1>2, <1>3 DEF IInv, Configuring

LEMMA EmptyIsConfiguration ==
  ASSUME NEW flags \in Seq(BOOLEAN)
  PROVE  Configuration(Empty(flags)) /\ DOMAIN Empty(flags).selector_flags = DOMAIN flags
  <1> DEFINE c == Empty(flags)
  <1>1. /\ c.num_fixed_columns = NumFixed /\ c.queries = [kind \in Kinds |-> <<>>]
        /\ c.num_advice_queries = [col \in 0 .. NumAdvice - 1 |-> 0]
        /\ c.gates = <<>> /\ c.lookups = <<>> /\ c.trashcans = <<>>
        /\ c.selector_flags = [i \in DOMAIN flags |-> [simple |-> flags[i], col_idx |-> None]]
    BY DEF Empty
  <1>2. c.selector_flags \in Seq(FlagType) /\ DOMAIN c.selector_flags = DOMAIN flags
    <2>1. Len(flags) \in Nat /\ DOMAIN flags = 1 .. Len(flags) /\ \A i \in DOMAIN flags : flags[i] \in BOOLEAN
      BY LenProperties
    <2>2. c.selector_flags \in [1 .. Len(flags) -> FlagType]
      BY <1>1, <2>1 DEF FlagType, None
    <2> QED
      BY <2>1, <2>2, SequenceOf
  <1>3. c \in SystemType
    <2>1. \A S : <<>> \in Seq(S)
      OBVIOUS
    <2> QED
      BY <1>2, <2>1, ConfigurationAssumption DEF Empty, SystemType, None
  <1> HIDE DEF c
  <1>4. \A kind \in Kinds : c.queries[kind] = <<>>
    BY <1>1
  <1>5. \A kind \in Kinds : DOMAIN c.queries[kind] = {} /\ ToSet(c.queries[kind]) = {}
    BY <1>4 DEF ToSet
  <1>6. c \in Systems
    <2>1. DistinctQueries(c)
      BY <1>5 DEF DistinctQueries
    <2>2. \A col : AdviceQueriesOf(c, col) = {}
      BY <1>5 DEF AdviceQueriesOf, Kinds
    <2>3. CountedQueries(c)
      BY <1>1, <2>2, FS_EmptySet DEF CountedQueries
    <2> QED
      BY <1>3, <2>1, <2>3 DEF Systems
  <1>7. ToSet(c.gates) = {} /\ ToSet(c.lookups) = {} /\ ToSet(c.trashcans) = {}
    BY <1>1 DEF ToSet
  <1>8. CellsIn(Polynomials(c)) = {} /\ CellsIn(TrashPolynomials(c)) = {}
    BY <1>7 DEF CellsIn, Polynomials, GatePolynomials, LookupPolynomials, TrashPolynomials
  <1>9. FixedQueriesExist(c)
    BY <1>5 DEF FixedQueriesExist, Kinds
  <1>10. GateSelectorsKnown(c)
    BY <1>7 DEF GateSelectorsKnown
  <1> QED
    BY <1>1, <1>2, <1>6, <1>8, <1>9, <1>10
       DEF Configuration, PolynomialsNamed, TrashNamed, c

LEMMA EqualityKept ==
  ASSUME NEW c, Configuration(c), NEW column \in Kinds \X Nat,
         column[2] \in Columns(column[1])
  PROVE  /\ Configuration(EqualityEnabled(c, column))
         /\ EqualityEnabled(c, column).selector_flags = c.selector_flags
  <1> DEFINE cell == Cell(column[1], column[2], 0)
             d == QueryIndex(c, column[1], <<column[2], 0>>)
  <1>1. /\ cell \in CellType /\ cell.kind = column[1] /\ cell.kind \in Kinds
        /\ QueryOf(cell) = <<column[2], 0>> /\ cell.column = column[2]
    BY DEF Cell, CellType, QueryOf, Unresolved, Kinds
  <1> HIDE DEF cell
  <1>2. cell.kind = "advice" => cell.column \in 0 .. NumAdvice - 1
    BY <1>1, AdviceColumns
  <1>3. cell.kind = "fixed" => cell.column < NumFixed
    <2>1. NumColumns["fixed"] = NumFixed
      BY DEF NumColumns
    <2> QED
      BY <1>1, <2>1, ConfigurationAssumption DEF Columns
  <1>4. Queried(c, d, {cell})
    BY <1>1, <1>2, IndexQueried DEF Configuration
  <1>5. Configuration(d) /\ d.selector_flags = c.selector_flags /\ d \in SystemType
    BY <1>3, <1>4, ConfigurationQueried DEF Queried, SameButQueries, Systems
  <1> HIDE DEF d
  <1> DEFINE e == [d EXCEPT !.permutation = Append(@, column)]
  <1>6. Append(d.permutation, column) \in Seq(Kinds \X Nat)
    BY <1>5, SystemFields
  <1>7. /\ e \in SystemType /\ SameQueries(d, e)
        /\ e.gates = d.gates /\ e.lookups = d.lookups /\ e.trashcans = d.trashcans
    BY <1>5, <1>6 DEF SystemType, SameQueries
  <1> HIDE DEF e
  <1>8. Configuration(e)
    <2>1. Polynomials(e) = Polynomials(d) /\ TrashPolynomials(e) = TrashPolynomials(d)
      BY <1>7 DEF Polynomials, GatePolynomials, LookupPolynomials, TrashPolynomials
    <2> QED
      BY <1>5, <1>7, <2>1, ConfigurationExtended
  <1>9. EqualityEnabled(c, column) = d \/ EqualityEnabled(c, column) = e
    BY DEF EqualityEnabled, d, e
  <1> QED
    BY <1>5, <1>7, <1>8, <1>9 DEF SameQueries

LEMMA ConstantKept ==
  ASSUME NEW c, Configuration(c), NEW column \in {"fixed"} \X Columns("fixed"),
         NEW d, d = [c EXCEPT !.constants = Append(@, column)]
  PROVE  /\ Configuration(d) /\ d.selector_flags = c.selector_flags
         /\ column \in Kinds \X Nat /\ column[2] \in Columns(column[1])
  <1>1. column \in Kinds \X Nat /\ column[2] \in Columns(column[1])
    BY DEF Kinds, Columns
  <1>2. c \in SystemType /\ Append(c.constants, column) \in Seq(Kinds \X Nat)
    BY <1>1, SystemFields DEF Configuration, Systems
  <1>3. /\ d \in SystemType /\ SameQueries(c, d)
        /\ d.gates = c.gates /\ d.lookups = c.lookups /\ d.trashcans = c.trashcans
    BY <1>2 DEF SystemType, SameQueries
  <1>4. Polynomials(d) = Polynomials(c) /\ TrashPolynomials(d) = TrashPolynomials(c)
    BY <1>3 DEF Polynomials, GatePolynomials, LookupPolynomials, TrashPolynomials
  <1>5. Configuration(d)
    BY <1>3, <1>4, ConfigurationExtended
  <1> QED
    BY <1>1, <1>3, <1>5 DEF SameQueries

LEMMA MinimumDegreeKept ==
  ASSUME NEW c, Configuration(c), NEW degree \in Nat,
         NEW d, d = [c EXCEPT !.minimum_degree = degree]
  PROVE  Configuration(d) /\ d.selector_flags = c.selector_flags
  <1>1. /\ d \in SystemType /\ SameQueries(c, d)
        /\ d.gates = c.gates /\ d.lookups = c.lookups /\ d.trashcans = c.trashcans
    <2>1. c \in SystemType /\ degree \in Int
      BY DEF Configuration, Systems
    <2> QED
      BY <2>1 DEF SystemType, SameQueries
  <1>2. Polynomials(d) = Polynomials(c) /\ TrashPolynomials(d) = TrashPolynomials(c)
    BY <1>1 DEF Polynomials, GatePolynomials, LookupPolynomials, TrashPolynomials
  <1>3. Configuration(d)
    BY <1>1, <1>2, ConfigurationExtended
  <1> QED
    BY <1>1, <1>3 DEF SameQueries

(* The cells of a call are queried, and named by their queries.            *)
LEMMA CallQueried ==
  ASSUME NEW c, Configuration(c), NEW flags, NEW polys, ArePolynomials(flags, polys),
         DOMAIN c.selector_flags = DOMAIN flags, NEW d, d = QueryCells(c, polys)
  PROVE  /\ Configuration(d) /\ d.selector_flags = c.selector_flags
         /\ Held(d, CellsIn(ToSet(polys)))
  <1>1. /\ polys \in Seq(Seq(Queryable))
        /\ \A cell \in CellsIn(ToSet(polys)) : cell.kind = "fixed" => cell.column < NumFixed
    BY CellsHanded
  <1>2. Queried(c, d, CellsIn(ToSet(polys)))
    BY <1>1, CellsQueried DEF Configuration
  <1> QED
    BY <1>1, <1>2, ConfigurationQueried DEF Queried, SameButQueries

LEMMA CallResolved ==
  ASSUME NEW d, Configuration(d), NEW flags, NEW polys, ArePolynomials(flags, polys),
         DOMAIN d.selector_flags = DOMAIN flags, Held(d, CellsIn(ToSet(polys)))
  PROVE  /\ SameShape(polys, Resolve(d, polys))
         /\ \A cell \in CellsIn(ToSet(Resolve(d, polys))) : IsNamed(d, cell)
  <1>1. polys \in Seq(PolyType) /\ SelectorsExist(d, polys)
    BY CellsHanded DEF SelectorsExist
  <1> QED
    BY <1>1, ResolvedPolynomials DEF Configuration, Systems

LEMMA SelectorColumns ==
  ASSUME NEW polys, CellsIn(ToSet(polys)) \subseteq CellType
  PROVE  SelectorsIn(polys) \subseteq Nat
  BY DEF SelectorsIn, CellType

LEMMA GateAppended ==
  ASSUME NEW d, Configuration(d), NEW polys \in Seq(PolyType), NEW selectors \in SUBSET Nat,
         NEW e, e = [d EXCEPT !.gates = Append(@, [polys |-> polys, queried_selectors |-> selectors])],
         \A cell \in CellsIn(ToSet(polys)) : IsNamed(d, cell),
         SelectorsIn(polys) \subseteq selectors
  PROVE  Configuration(e) /\ e.selector_flags = d.selector_flags
  <1> DEFINE g == [polys |-> polys, queried_selectors |-> selectors]
  <1>1. d \in SystemType /\ d.gates \in Seq(GateType) /\ g \in GateType
    BY SystemFields DEF Configuration, Systems, GateType
  <1>2. g.polys = polys /\ g.queried_selectors = selectors
    OBVIOUS
  <1> HIDE DEF g
  <1>3. Append(d.gates, g) \in Seq(GateType) /\ ToSet(Append(d.gates, g)) = ToSet(d.gates) \cup {g}
    BY <1>1, AppendedSet
  <1>4. e = [d EXCEPT !.gates = Append(d.gates, g)]
    BY DEF g
  <1>5. /\ e \in SystemType /\ SameQueries(d, e) /\ e.gates = Append(d.gates, g)
        /\ e.lookups = d.lookups /\ e.trashcans = d.trashcans
    BY <1>1, <1>3, <1>4 DEF SystemType, SameQueries
  <1>6. TrashPolynomials(e) = TrashPolynomials(d)
    BY <1>5 DEF TrashPolynomials
  <1>7. Polynomials(e) = Polynomials(d) \cup ToSet(polys)
    BY <1>2, <1>3, <1>5 DEF Polynomials, GatePolynomials, LookupPolynomials
  <1>8. \A cell \in CellsIn(Polynomials(e)) : cell \in CellsIn(Polynomials(d)) \/ IsNamed(d, cell)
    BY <1>7 DEF CellsIn
  <1>9. \A h \in ToSet(e.gates) :
           h \in ToSet(d.gates) \/ SelectorsIn(h.polys) \subseteq h.queried_selectors
    BY <1>2, <1>3, <1>5
  <1>10. Configuration(e)
    BY <1>5, <1>6, <1>8, <1>9, ConfigurationExtended
  <1> QED
    BY <1>5, <1>10 DEF SameQueries

LEMMA GateKept ==
  ASSUME IInv, CreateGate
  PROVE  Configuration(cs') /\ FlagsOfCircuit(cs')
  <1> DEFINE d == QueryCells(cs, Call.polys)
             r == Resolve(d, Call.polys)
             polys == Applied(Call.selector, r)
  <1>1. /\ Configuration(cs) /\ DOMAIN cs.selector_flags = DOMAIN circuit.selectors
        /\ IsCall(circuit.selectors, Call) /\ Call.fn = "create_gate"
        /\ circuit.selectors \in Seq(BOOLEAN)
    BY CircuitFields DEF CreateGate, Calling, FlagsOfCircuit
  <1>2. /\ Call.selector = <<>> \/ IsSelector(circuit.selectors, Call.selector)
        /\ ArePolynomials(circuit.selectors, Call.polys)
    BY <1>1 DEF IsCall
  <1>3. /\ cs' = [d EXCEPT !.gates =
                     Append(@, [polys |-> polys, queried_selectors |-> SelectorsIn(polys)])]
        /\ circuit' = circuit
    BY DEF CreateGate, Configure
  <1>4. /\ Configuration(d) /\ d.selector_flags = cs.selector_flags
        /\ Held(d, CellsIn(ToSet(Call.polys)))
    BY <1>1, <1>2, CallQueried
  <1> HIDE DEF d
  <1>5. SameShape(Call.polys, r) /\ \A cell \in CellsIn(ToSet(r)) : IsNamed(d, cell)
    BY <1>1, <1>2, <1>4, CallResolved
  <1> HIDE DEF r
  <1>6. /\ Call.selector \in PolyType
        /\ \A cell \in ToSet(Call.selector) : IsNamed(d, cell)
    BY <1>1, <1>2, <1>4, SelectorsHanded DEF Configuration, Systems
  <1>7. /\ polys \in Seq(PolyType)
        /\ CellsIn(ToSet(polys)) \subseteq ToSet(Call.selector) \cup CellsIn(ToSet(r))
    BY <1>5, <1>6, SelectorApplied DEF SameShape
  <1> HIDE DEF polys
  <1>8. \A cell \in CellsIn(ToSet(polys)) : IsNamed(d, cell)
    BY <1>5, <1>6, <1>7
  <1>9. SelectorsIn(polys) \in SUBSET Nat
    BY <1>8, SelectorColumns DEF IsNamed
  <1>10. Configuration(cs') /\ cs'.selector_flags = d.selector_flags
    BY <1>3, <1>4, <1>7, <1>8, <1>9, GateAppended
  <1> QED
    BY <1>1, <1>3, <1>4, <1>10 DEF FlagsOfCircuit

LEMMA TrashAppended ==
  ASSUME NEW d, Configuration(d), NEW t \in TrashType,
         NEW e, e = [d EXCEPT !.trashcans = Append(@, t)],
         IsNamed(d, t.selector),
         \A cell \in CellsIn(ToSet(t.constraints)) :
             \/ IsNamed(d, cell)
             \/ cell \in CellType /\ cell.kind # "selector" /\ cell.index = Unresolved
  PROVE  Configuration(e) /\ e.selector_flags = d.selector_flags
  <1>1. d \in SystemType /\ d.trashcans \in Seq(TrashType)
    BY SystemFields DEF Configuration, Systems
  <1>2. /\ Append(d.trashcans, t) \in Seq(TrashType)
        /\ ToSet(Append(d.trashcans, t)) = ToSet(d.trashcans) \cup {t}
    BY <1>1, AppendedSet
  <1>3. /\ e \in SystemType /\ SameQueries(d, e) /\ e.trashcans = Append(d.trashcans, t)
        /\ e.lookups = d.lookups /\ e.gates = d.gates
    BY <1>1, <1>2 DEF SystemType, SameQueries
  <1>4. Polynomials(e) = Polynomials(d)
    BY <1>3 DEF Polynomials, GatePolynomials, LookupPolynomials
  <1>5. TrashPolynomials(e) = TrashPolynomials(d) \cup (ToSet(t.constraints) \cup {<<t.selector>>})
    BY <1>2, <1>3 DEF TrashPolynomials
  <1>6. ToSet(<<t.selector>>) = {t.selector}
    BY DEF ToSet
  <1>7. \A cell \in CellsIn(TrashPolynomials(e)) :
           \/ cell \in CellsIn(TrashPolynomials(d)) \/ IsNamed(d, cell)
           \/ cell \in CellType /\ cell.kind # "selector" /\ cell.index = Unresolved
    BY <1>5, <1>6 DEF CellsIn
  <1>8. Configuration(e)
    BY <1>3, <1>4, <1>7, ConfigurationExtended
  <1> QED
    BY <1>3, <1>8 DEF SameQueries

LEMMA AdditiveGateKept ==
  ASSUME IInv, CreateAdditiveGate
  PROVE  Configuration(cs') /\ FlagsOfCircuit(cs')
  <1> DEFINE d == IF Call.virtual_cells THEN QueryCells(cs, Call.polys) ELSE cs
             polys == IF Call.virtual_cells THEN Resolve(d, Call.polys) ELSE Call.polys
             t == [argument_index |-> Len(d.trashcans), selector |-> Call.selector[1],
                   constraints |-> polys]
             selectors == {Call.selector[1].column}
             e == [d EXCEPT !.trashcans = Append(@, t)]
  <1>1. /\ Configuration(cs) /\ DOMAIN cs.selector_flags = DOMAIN circuit.selectors
        /\ IsCall(circuit.selectors, Call) /\ Call.fn = "create_additive_gate"
        /\ circuit.selectors \in Seq(BOOLEAN)
    BY CircuitFields DEF CreateAdditiveGate, Calling, FlagsOfCircuit
  <1>2. /\ IsSelector(circuit.selectors, Call.selector) /\ Call.virtual_cells \in BOOLEAN
        /\ ArePolynomials(circuit.selectors, Call.polys)
    BY <1>1 DEF IsCall
  <1>3. /\ cs' = [d EXCEPT !.trashcans = Append(@, [argument_index |-> Len(@),
                                                   selector |-> Call.selector[1],
                                                   constraints |-> polys]),
                           !.gates = Append(@, [polys |-> <<>>, queried_selectors |-> selectors])]
        /\ circuit' = circuit
    BY DEF CreateAdditiveGate, Configure
  <1>4. Configuration(d) /\ d.selector_flags = cs.selector_flags
    BY <1>1, <1>2, CallQueried
  <1>5. /\ polys \in Seq(PolyType)
        /\ \A cell \in CellsIn(ToSet(polys)) :
              \/ IsNamed(d, cell)
              \/ cell \in CellType /\ cell.kind # "selector" /\ cell.index = Unresolved
    <2>1. CASE Call.virtual_cells
      <3>1. d = QueryCells(cs, Call.polys) /\ polys = Resolve(d, Call.polys)
        BY <2>1
      <3>2. Held(d, CellsIn(ToSet(Call.polys)))
        BY <1>1, <1>2, <3>1, CallQueried
      <3> HIDE DEF d, polys
      <3>3. SameShape(Call.polys, polys) /\ \A cell \in CellsIn(ToSet(polys)) : IsNamed(d, cell)
        BY <1>1, <1>2, <1>4, <3>1, <3>2, CallResolved
      <3> QED
        BY <3>3 DEF SameShape
    <2>2. CASE ~ Call.virtual_cells
      <3>1. d = cs /\ polys = Call.polys
        BY <2>2
      <3>2. /\ polys \in Seq(PolyType)
            /\ \A cell \in CellsIn(ToSet(polys)) :
                  /\ cell \in CellType /\ cell.index = Unresolved
                  /\ cell.kind = "selector" => cell.column + 1 \in DOMAIN d.selector_flags
        <4> HIDE DEF d, polys
        <4> QED
          BY <1>1, <1>2, <3>1, CellsHanded
      <3> HIDE DEF d, polys
      <3> QED
        BY <3>2 DEF IsNamed
    <2> QED
      BY <2>1, <2>2
  <1> HIDE DEF d, polys
  <1>6. d \in SystemType /\ Len(d.trashcans) \in Nat
    BY <1>4, SystemFields, LenProperties DEF Configuration, Systems
  <1>7. IsNamed(d, Call.selector[1]) /\ Call.selector[1] \in CellType /\ selectors \in SUBSET Nat
    <2>1. Call.selector # <<>>
      BY <1>2 DEF IsSelector
    <2>2. Call.selector[1] \in ToSet(Call.selector)
      BY <1>1, <1>2, <1>4, <1>6, <2>1, SelectorsHanded
    <2>3. IsNamed(d, Call.selector[1]) /\ Call.selector[1] \in CellType
      BY <1>1, <1>2, <1>4, <1>6, <2>2, SelectorsHanded
    <2> QED
      BY <2>3 DEF CellType
  <1>8. /\ t \in TrashType /\ t.selector = Call.selector[1] /\ t.constraints = polys
    BY <1>5, <1>6, <1>7 DEF TrashType
  <1>9. cs' = [e EXCEPT !.gates = Append(@, [polys |-> <<>>, queried_selectors |-> selectors])]
    BY <1>3, <1>6 DEF SystemType
  <1> HIDE DEF t
  <1>10. Configuration(e) /\ e.selector_flags = d.selector_flags
    BY <1>4, <1>5, <1>7, <1>8, TrashAppended
  <1> HIDE DEF e, selectors
  <1>11. <<>> \in Seq(PolyType) /\ CellsIn(ToSet(<<>>)) = {} /\ SelectorsIn(<<>>) = {}
    BY DEF CellsIn, ToSet, SelectorsIn
  <1>12. Configuration(cs') /\ cs'.selector_flags = e.selector_flags
    BY <1>7, <1>9, <1>10, <1>11, GateAppended
  <1> QED
    BY <1>1, <1>3, <1>4, <1>10, <1>12 DEF FlagsOfCircuit

LEMMA LookupAppended ==
  ASSUME NEW d, Configuration(d), NEW l \in LookupType,
         NEW e, e = [d EXCEPT !.lookups = Append(@, l)],
         \A cell \in ToSet(l.selector) \cup CellsIn(ToSet(l.inputs)) \cup ToSet(l.table) :
             IsNamed(d, cell)
  PROVE  Configuration(e) /\ e.selector_flags = d.selector_flags
  <1>1. d \in SystemType /\ d.lookups \in Seq(LookupType)
    BY SystemFields DEF Configuration, Systems
  <1>2. /\ Append(d.lookups, l) \in Seq(LookupType)
        /\ ToSet(Append(d.lookups, l)) = ToSet(d.lookups) \cup {l}
    BY <1>1, AppendedSet
  <1>3. /\ e \in SystemType /\ SameQueries(d, e) /\ e.lookups = Append(d.lookups, l)
        /\ e.trashcans = d.trashcans /\ e.gates = d.gates
    BY <1>1, <1>2 DEF SystemType, SameQueries
  <1>4. TrashPolynomials(e) = TrashPolynomials(d) /\ GatePolynomials(e) = GatePolynomials(d)
    BY <1>3 DEF TrashPolynomials, GatePolynomials
  <1>5. LookupPolynomials(e)
            = LookupPolynomials(d) \cup (ToSet(l.inputs) \cup {l.table, l.selector})
    BY <1>2, <1>3 DEF LookupPolynomials
  <1>6. \A cell \in CellsIn(Polynomials(e)) : cell \in CellsIn(Polynomials(d)) \/ IsNamed(d, cell)
    <2>1. Polynomials(e) = Polynomials(d) \cup (ToSet(l.inputs) \cup {l.table, l.selector})
      BY <1>4, <1>5 DEF Polynomials
    <2>2. ASSUME NEW p \in Polynomials(e), NEW cell \in ToSet(p)
          PROVE  cell \in CellsIn(Polynomials(d)) \/ IsNamed(d, cell)
      <3>1. CASE p \in Polynomials(d)
        BY <2>2, <3>1 DEF CellsIn
      <3>2. CASE p \in ToSet(l.inputs)
        BY <2>2, <3>2 DEF CellsIn
      <3>3. CASE p \in {l.table, l.selector}
        BY <2>2, <3>3
      <3> QED
        BY <2>1, <3>1, <3>2, <3>3
    <2> QED
      BY <2>2 DEF CellsIn
  <1>7. Configuration(e)
    BY <1>3, <1>4, <1>6, ConfigurationExtended
  <1> QED
    BY <1>3, <1>7 DEF SameQueries

(* The inputs of a lookup and its table, queried together.                 *)
LEMMA TableAppended ==
  ASSUME NEW flags, NEW inputs, NEW table, ArePolynomials(flags, inputs),
         ArePolynomials(flags, <<table>>)
  PROVE  /\ ArePolynomials(flags, Append(inputs, table))
         /\ CellsIn(ToSet(Append(inputs, table)))
                = CellsIn(ToSet(inputs)) \cup CellsIn(ToSet(<<table>>))
  <1>1. inputs \in Seq(Seq(CellType)) /\ <<table>> \in Seq(Seq(CellType))
    BY DEF ArePolynomials
  <1>2. table \in Seq(CellType) /\ ToSet(<<table>>) = {table}
    BY <1>1 DEF ToSet
  <1>3. /\ Append(inputs, table) \in Seq(Seq(CellType))
        /\ ToSet(Append(inputs, table)) = ToSet(inputs) \cup {table}
    BY <1>1, <1>2, AppendedSet
  <1>4. CellsIn(ToSet(Append(inputs, table)))
            = CellsIn(ToSet(inputs)) \cup CellsIn(ToSet(<<table>>))
    BY <1>2, <1>3 DEF CellsIn
  <1> QED
    BY <1>3, <1>4 DEF ArePolynomials

LEMMA LookupKept ==
  ASSUME IInv, BatchedLookup, phase' = phase
  PROVE  Configuration(cs') /\ FlagsOfCircuit(cs')
  <1> DEFINE d == QueryCells(cs, Append(Call.inputs, Call.table))
             l == [selector |-> Call.selector, inputs |-> Resolve(d, Call.inputs),
                   table |-> Resolve(d, <<Call.table>>)[1]]
  <1>1. /\ Configuration(cs) /\ DOMAIN cs.selector_flags = DOMAIN circuit.selectors
        /\ IsCall(circuit.selectors, Call) /\ Call.fn = "batched_lookup_any"
        /\ circuit.selectors \in Seq(BOOLEAN) /\ phase = "configure"
    BY CircuitFields DEF BatchedLookup, Calling, Configuring, FlagsOfCircuit
  <1>2. /\ Call.selector = <<>> \/ IsSelector(circuit.selectors, Call.selector)
        /\ ArePolynomials(circuit.selectors, Call.inputs)
        /\ ArePolynomials(circuit.selectors, <<Call.table>>)
    BY <1>1 DEF IsCall
  <1>3. cs' = [d EXCEPT !.lookups = Append(@, l)] /\ circuit' = circuit
    BY <1>1 DEF BatchedLookup, Configure, Panic
  <1>4. /\ ArePolynomials(circuit.selectors, Append(Call.inputs, Call.table))
        /\ CellsIn(ToSet(Append(Call.inputs, Call.table)))
               = CellsIn(ToSet(Call.inputs)) \cup CellsIn(ToSet(<<Call.table>>))
    BY <1>2, TableAppended
  <1>5. /\ Configuration(d) /\ d.selector_flags = cs.selector_flags
        /\ Held(d, CellsIn(ToSet(Append(Call.inputs, Call.table))))
    BY <1>1, <1>4, CallQueried
  <1> HIDE DEF d
  <1>6. Held(d, CellsIn(ToSet(Call.inputs))) /\ Held(d, CellsIn(ToSet(<<Call.table>>)))
    BY <1>4, <1>5 DEF Held
  <1>7. /\ SameShape(Call.inputs, Resolve(d, Call.inputs))
        /\ \A cell \in CellsIn(ToSet(Resolve(d, Call.inputs))) : IsNamed(d, cell)
    BY <1>1, <1>2, <1>5, <1>6, CallResolved
  <1>8. /\ SameShape(<<Call.table>>, Resolve(d, <<Call.table>>))
        /\ \A cell \in CellsIn(ToSet(Resolve(d, <<Call.table>>))) : IsNamed(d, cell)
    BY <1>1, <1>2, <1>5, <1>6, CallResolved
  <1>9. /\ Call.selector \in PolyType
        /\ \A cell \in ToSet(Call.selector) : IsNamed(d, cell)
    BY <1>1, <1>2, <1>5, SelectorsHanded DEF Configuration, Systems
  <1>10. /\ l.table \in PolyType /\ l.inputs \in Seq(PolyType) /\ l.selector \in PolyType
         /\ \A cell \in ToSet(l.table) : IsNamed(d, cell)
    <2> DEFINE r == Resolve(d, <<Call.table>>)
    <2>1. r \in Seq(PolyType) /\ Len(r) = 1 /\ 1 \in DOMAIN r
      BY <1>8 DEF SameShape
    <2> HIDE DEF r
    <2>2. r[1] \in PolyType /\ ToSet(r[1]) \subseteq CellsIn(ToSet(r))
      BY <2>1, LenProperties DEF CellsIn, ToSet
    <2> QED
      BY <1>7, <1>8, <1>9, <2>2 DEF SameShape, r
  <1>11. /\ l \in LookupType /\ l.selector = Call.selector /\ l.inputs = Resolve(d, Call.inputs)
    BY <1>10 DEF LookupType
  <1>12. \A cell \in ToSet(l.selector) \cup CellsIn(ToSet(l.inputs)) \cup ToSet(l.table) :
            IsNamed(d, cell)
    BY <1>7, <1>9, <1>10, <1>11
  <1> HIDE DEF l
  <1>13. Configuration(cs') /\ cs'.selector_flags = d.selector_flags
    BY <1>3, <1>5, <1>11, <1>12, LookupAppended
  <1> QED
    BY <1>1, <1>3, <1>5, <1>13 DEF FlagsOfCircuit

-----------------------------------------------------------------------------
(* Numbers a system is sized by.                                           *)
LEMMA LargestFound ==
  ASSUME NEW S \in SUBSET Int, IsFiniteSet(S), S # {}
  PROVE  Largest(S) \in S /\ \A m \in S : m <= Largest(S)
  BY LargestOfSet DEF Largest

LEMMA FiniteElements ==
  ASSUME NEW n \in Nat, NEW f
  PROVE  IsFiniteSet({f[i] : i \in 1 .. n})
  <1> DEFINE T == {f[i] : i \in 1 .. n}
             g == [i \in 1 .. n |-> f[i]]
  <1>1. g \in Surjection(1 .. n, T)
    BY DEF Surjection
  <1>2. IsFiniteSet(1 .. n)
    BY FS_Interval
  <1> HIDE DEF T, g
  <1>3. IsFiniteSet(T)
    BY <1>1, <1>2, FS_Surjection
  <1> QED
    BY <1>3 DEF T

(* A union of finite sets, one for each element of a sequence.             *)
LEMMA FiniteUnion ==
  ASSUME NEW n \in Nat, NEW f, \A i \in 1 .. n : IsFiniteSet(f[i])
  PROVE  IsFiniteSet(UNION {f[i] : i \in 1 .. n})
  <1> DEFINE P == {k \in 0 .. n : IsFiniteSet(UNION {f[i] : i \in 1 .. k})}
  <1>1. 0 \in P
    <2>1. UNION {f[i] : i \in 1 .. 0} = {}
      OBVIOUS
    <2> QED
      BY <2>1, FS_EmptySet
  <1>2. ASSUME NEW k \in 1 .. n, k - 1 \in P
        PROVE  k \in P
    <2> DEFINE A == UNION {f[i] : i \in 1 .. k - 1}
               B == UNION {f[i] : i \in 1 .. k}
    <2>1. IsFiniteSet(A) /\ IsFiniteSet(f[k])
      BY <1>2
    <2>2. B = A \cup f[k]
      <3>1. /\ \A i \in 1 .. k : i \in 1 .. k - 1 \/ i = k
            /\ 1 .. k - 1 \subseteq 1 .. k /\ k \in 1 .. k
        BY <1>2
      <3> QED
        BY <3>1
    <2> HIDE DEF A, B
    <2>3. IsFiniteSet(B)
      BY <2>1, <2>2, FS_Union
    <2> QED
      BY <2>3 DEF B
  <1>3. n \in P
    <2> HIDE DEF P
    <2>1. 0 .. n \subseteq P
      BY <1>1, <1>2, InductionUpTo
    <2> QED
      BY <2>1
  <1> QED
    BY <1>3

LEMMA NextPower ==
  ASSUME NEW n \in Nat
  PROVE  \E e \in 0 .. n : /\ NextPowerOfTwo(n) = Pow2[e]
                           /\ Pow2[e] >= n /\ (e = 0 \/ Pow2[e - 1] < n)
  <1> DEFINE Enough == {e \in 0 .. n : Pow2[e] >= n}
  <1>1. \A e \in Nat : Pow2[e] \in Nat
    BY Pow2Defined
  <1>2. n \in Enough
    BY Pow2Grows
  <1>3. PICK e \in Enough : \A m \in Enough : e <= m
    <2>1. Enough \in SUBSET Nat
      OBVIOUS
    <2> HIDE DEF Enough
    <2> QED
      BY <1>2, <2>1, LeastOfSet
  <1>4. e = 0 \/ Pow2[e - 1] < n
    <2> SUFFICES ASSUME e # 0
                 PROVE  Pow2[e - 1] < n
      OBVIOUS
    <2>1. e - 1 \in 0 .. n /\ ~ (e <= e - 1)
      OBVIOUS
    <2>2. e - 1 \notin Enough
      BY <1>3, <2>1
    <2> QED
      BY <1>1, <2>1, <2>2
  <1> DEFINE Is(k) == Pow2[k] >= n /\ (k = 0 \/ Pow2[k - 1] < n)
             chosen == CHOOSE k \in 0 .. n : Is(k)
  <1>5. \E k \in 0 .. n : Is(k)
    BY <1>4
  <1>6. chosen \in 0 .. n /\ Is(chosen)
    <2> HIDE DEF Is
    <2> QED
      BY <1>5
  <1>7. NextPowerOfTwo(n) = Pow2[chosen]
    BY DEF NextPowerOfTwo
  <1> HIDE DEF chosen
  <1> QED
    BY <1>6, <1>7

LEMMA NextPowerType ==
  ASSUME NEW n \in Nat
  PROVE  NextPowerOfTwo(n) \in Nat /\ NextPowerOfTwo(n) >= n /\ NextPowerOfTwo(n) > 0
  <1>1. PICK e \in 0 .. n : NextPowerOfTwo(n) = Pow2[e] /\ Pow2[e] >= n
    BY NextPower
  <1> QED
    BY <1>1, Pow2Defined

LEMMA NextPowerOfPower ==
  ASSUME NEW n \in Nat
  PROVE  NextPowerOfTwo(NextPowerOfTwo(n)) = NextPowerOfTwo(n)
  <1>1. PICK d \in 0 .. n : NextPowerOfTwo(n) = Pow2[d]
    BY NextPower
  <1> DEFINE m == NextPowerOfTwo(n)
  <1>2. m \in Nat
    BY NextPowerType
  <1> HIDE DEF m
  <1>3. PICK e \in 0 .. m : /\ NextPowerOfTwo(m) = Pow2[e]
                            /\ Pow2[e] >= m /\ (e = 0 \/ Pow2[e - 1] < m)
    BY <1>2, NextPower
  <1>4. m = Pow2[d] /\ d \in Nat /\ e \in Nat /\ Pow2[e] \in Nat
    BY <1>1, <1>2, <1>3, Pow2Defined DEF m
  <1>5. e <= d
    <2> SUFFICES ASSUME d < e
                 PROVE  FALSE
      BY <1>4
    <2>1. e - 1 \in Nat /\ d <= e - 1 /\ e # 0
      BY <1>4
    <2>2. Pow2[d] <= Pow2[e - 1] /\ Pow2[e - 1] \in Nat
      BY <1>4, <2>1, Pow2Increases, Pow2Defined
    <2> QED
      BY <1>2, <1>3, <1>4, <2>1, <2>2
  <1>6. Pow2[e] <= Pow2[d]
    BY <1>4, <1>5, Pow2Increases
  <1> QED
    BY <1>2, <1>3, <1>4, <1>6 DEF m

(* Degrees of one lookup, and what a chunk of it may hold.                 *)
LEMMA LookupDegreeType ==
  ASSUME NEW l \in LookupType
  PROVE  LookupDegree(l) \in Nat
  <1> DEFINE lens == [j \in DOMAIN l.inputs |-> Len(l.inputs[j])]
             S == {Len(l.inputs[j]) : j \in DOMAIN l.inputs}
  <1>1. /\ l.inputs \in Seq(PolyType) /\ DOMAIN l.inputs = 1 .. Len(l.inputs)
        /\ Len(l.inputs) \in Nat
    BY LenProperties DEF LookupType
  <1>2. \A j \in DOMAIN l.inputs : Len(l.inputs[j]) \in Nat
    BY <1>1, LenProperties DEF PolyType
  <1>3. S = {lens[j] : j \in 1 .. Len(l.inputs)}
    BY <1>1
  <1>4. IsFiniteSet(S) /\ S \in SUBSET Int
    <2> HIDE DEF lens
    <2>1. IsFiniteSet(S)
      BY <1>1, <1>3, FiniteElements
    <2> QED
      BY <1>2, <2>1
  <1>5. CASE l.inputs # <<>>
    <2>1. 1 \in DOMAIN l.inputs
      BY <1>1, <1>5, EmptySeq
    <2>2. S # {}
      BY <2>1
    <2>3. Largest(S) \in S
      <3> HIDE DEF S
      <3> QED
        BY <1>4, <2>2, LargestFound
    <2> QED
      BY <1>2, <1>5, <2>3 DEF LookupDegree
  <1>6. CASE l.inputs = <<>>
    BY <1>6 DEF LookupDegree
  <1> QED
    BY <1>5, <1>6

LEMMA ParallelLookups ==
  ASSUME NEW l \in LookupType, LookupDegree(l) # 0, NEW d \in Nat, d >= 1
  PROVE  /\ ParallelLookupsPerChunk(l, d) \in Nat /\ LookupDegree(l) \in Nat
         /\ ParallelLookupsPerChunk(l, d) * LookupDegree(l) \in Nat
         /\ ParallelLookupsPerChunk(l, d) * LookupDegree(l) <= NextPowerOfTwo(d - 1)
  <1> DEFINE n == NextPowerOfTwo(d - 1)
             k == LookupDegree(l)
  <1>1. n \in Nat /\ k \in Nat /\ k > 0
    BY NextPowerType, LookupDegreeType
  <1>2. ParallelLookupsPerChunk(l, d) = n \div k
    BY DEF ParallelLookupsPerChunk
  <1> HIDE DEF n, k
  <1>3. n \div k \in Nat /\ n = k * (n \div k) + (n % k) /\ (n % k) \in 0 .. k - 1
    BY <1>1
  <1>4. (n \div k) * k = k * (n \div k) /\ k * (n \div k) \in Nat
    BY <1>1, <1>3
  <1>5. (n \div k) * k <= n
    BY <1>1, <1>3, <1>4
  <1> QED
    BY <1>1, <1>2, <1>3, <1>4, <1>5 DEF n, k

LEMMA BatchedDegree ==
  ASSUME NEW l \in LookupType, LookupDegree(l) # 0, NEW d \in Nat, d >= 1
  PROVE  /\ DegreeBatched(l, d) \in Nat
         /\ ParallelLookupsPerChunk(l, d) * LookupDegree(l) + 1 <= DegreeBatched(l, d)
         /\ AccumulatorDegree(l) \in Nat /\ AccumulatorDegree(l) <= DegreeBatched(l, d)
         /\ NextPowerOfTwo(DegreeBatched(l, d) - 1) = DegreeBatched(l, d) - 1
  <1> DEFINE a == ParallelLookupsPerChunk(l, d) * LookupDegree(l) + 1
             b == AccumulatorDegree(l)
             n == Largest({a, b})
  <1>1. a \in Nat
    BY ParallelLookups
  <1>2. b \in Nat /\ b >= 2
    <2>1. Len(l.selector) \in Nat /\ Len(l.table) \in Nat
      BY LenProperties DEF LookupType, PolyType
    <2> DEFINE x == Len(l.selector)
               y == Len(l.table)
    <2>2. b = 2 + x + y
      BY DEF AccumulatorDegree
    <2> HIDE DEF b, x, y
    <2>3. x \in Nat /\ y \in Nat
      BY <2>1 DEF x, y
    <2> QED
      BY <2>2, <2>3
  <1>3. DegreeBatched(l, d) = NextPowerOfTwo(n - 1) + 1
    BY DEF DegreeBatched
  <1> HIDE DEF a, b
  <1>4. n \in {a, b} /\ a <= n /\ b <= n
    <2>1. IsFiniteSet({a, b})
      <3>1. IsFiniteSet({a}) /\ {a, b} = {a} \cup {b}
        BY FS_Singleton
      <3>2. IsFiniteSet({a} \cup {b})
        BY <3>1, FS_AddElement
      <3> QED
        BY <3>1, <3>2
    <2> QED
      BY <1>1, <1>2, <2>1, LargestFound
  <1> HIDE DEF n
  <1>5. n - 1 \in Nat
    BY <1>1, <1>2, <1>4
  <1>6. NextPowerOfTwo(n - 1) \in Nat /\ NextPowerOfTwo(n - 1) >= n - 1
    BY <1>5, NextPowerType
  <1>7. NextPowerOfTwo(NextPowerOfTwo(n - 1)) = NextPowerOfTwo(n - 1)
    BY <1>5, NextPowerOfPower
  <1>8. DegreeBatched(l, d) - 1 = NextPowerOfTwo(n - 1)
    BY <1>3, <1>6
  <1> QED
    BY <1>1, <1>2, <1>3, <1>4, <1>5, <1>6, <1>7, <1>8 DEF a, b

-----------------------------------------------------------------------------
(* The degree of a system, and its blinding factors.                       *)
LengthsOf(polys) == {Len(polys[i]) : i \in DOMAIN polys}

LEMMA LengthsFinite ==
  ASSUME NEW polys \in Seq(PolyType)
  PROVE  IsFiniteSet(LengthsOf(polys)) /\ LengthsOf(polys) \subseteq Nat
  <1> DEFINE lens == [i \in DOMAIN polys |-> Len(polys[i])]
  <1>1. /\ DOMAIN polys = 1 .. Len(polys) /\ Len(polys) \in Nat
        /\ \A i \in DOMAIN polys : Len(polys[i]) \in Nat
    BY LenProperties DEF PolyType
  <1>2. LengthsOf(polys) = {lens[i] : i \in 1 .. Len(polys)}
    BY <1>1 DEF LengthsOf
  <1> HIDE DEF lens
  <1> QED
    BY <1>1, <1>2, FiniteElements DEF LengthsOf

(* A union over the elements of a sequence is one over its positions.      *)
LEMMA FiniteUnionOverSequence ==
  ASSUME NEW S, NEW s \in Seq(S), NEW f, \A x \in ToSet(s) : IsFiniteSet(f[x])
  PROVE  IsFiniteSet(UNION {f[x] : x \in ToSet(s)})
  <1> DEFINE g == [i \in 1 .. Len(s) |-> f[s[i]]]
  <1>1. Len(s) \in Nat /\ DOMAIN s = 1 .. Len(s)
    BY LenProperties
  <1>2. \A i \in 1 .. Len(s) : IsFiniteSet(g[i])
    BY <1>1 DEF ToSet
  <1>3. UNION {f[x] : x \in ToSet(s)} = UNION {g[i] : i \in 1 .. Len(s)}
    BY <1>1 DEF ToSet
  <1> HIDE DEF g
  <1> QED
    BY <1>1, <1>2, <1>3, FiniteUnion

LEMMA ElementsTyped ==
  ASSUME NEW S, NEW s \in Seq(S)
  PROVE  \A x \in ToSet(s) : x \in S
  BY LenProperties DEF ToSet

LEMMA DegreesFinite ==
  ASSUME NEW c \in SystemType
  PROVE  /\ IsFiniteSet(GateDegrees(c)) /\ GateDegrees(c) \subseteq Nat
         /\ IsFiniteSet(TrashDegrees(c)) /\ TrashDegrees(c) \subseteq Nat
  <1>1. \A g \in ToSet(c.gates) : g.polys \in Seq(PolyType)
    <2>1. c.gates \in Seq(GateType)
      BY SystemFields
    <2>2. \A g \in ToSet(c.gates) : g \in GateType
      BY <2>1, ElementsTyped
    <2> QED
      BY <2>2 DEF GateType
  <1>2. \A t \in ToSet(c.trashcans) : t.constraints \in Seq(PolyType)
    <2>1. c.trashcans \in Seq(TrashType)
      BY SystemFields
    <2>2. \A t \in ToSet(c.trashcans) : t \in TrashType
      BY <2>1, ElementsTyped
    <2> QED
      BY <2>2 DEF TrashType
  <1>3. IsFiniteSet(GateDegrees(c)) /\ GateDegrees(c) \subseteq Nat
    <2> DEFINE f == [g \in ToSet(c.gates) |-> LengthsOf(g.polys)]
    <2>1. \A g \in ToSet(c.gates) : IsFiniteSet(f[g]) /\ f[g] \subseteq Nat
      BY <1>1, LengthsFinite
    <2>2. GateDegrees(c) = UNION {f[g] : g \in ToSet(c.gates)}
      BY DEF GateDegrees, LengthsOf
    <2> HIDE DEF f
    <2>3. IsFiniteSet(UNION {f[g] : g \in ToSet(c.gates)})
      <3>1. c.gates \in Seq(GateType)
        BY SystemFields
      <3> QED
        BY <2>1, <3>1, FiniteUnionOverSequence
    <2> QED
      BY <2>1, <2>2, <2>3
  <1>4. IsFiniteSet(TrashDegrees(c)) /\ TrashDegrees(c) \subseteq Nat
    <2> DEFINE f == [t \in ToSet(c.trashcans) |-> {2} \cup LengthsOf(t.constraints)]
    <2>1. ASSUME NEW t \in ToSet(c.trashcans)
          PROVE  IsFiniteSet(f[t]) /\ f[t] \subseteq Nat
      <3>1. IsFiniteSet(LengthsOf(t.constraints)) /\ LengthsOf(t.constraints) \subseteq Nat
        BY <1>2, LengthsFinite
      <3>2. IsFiniteSet({2} \cup LengthsOf(t.constraints))
        <4>1. {2} \cup LengthsOf(t.constraints) = LengthsOf(t.constraints) \cup {2}
          OBVIOUS
        <4> QED
          BY <3>1, <4>1, FS_AddElement
      <3> QED
        BY <3>1, <3>2
    <2>2. TrashDegrees(c) = UNION {f[t] : t \in ToSet(c.trashcans)}
      BY DEF TrashDegrees, LengthsOf
    <2> HIDE DEF f
    <2>3. IsFiniteSet(UNION {f[t] : t \in ToSet(c.trashcans)})
      <3>1. c.trashcans \in Seq(TrashType)
        BY SystemFields
      <3> QED
        BY <2>1, <3>1, FiniteUnionOverSequence
    <2> QED
      BY <2>1, <2>2, <2>3
  <1> QED
    BY <1>3, <1>4

LEMMA BaseDegree ==
  ASSUME NEW c \in SystemType
  PROVE  /\ DegreeWithoutLookup(c) \in Nat /\ DegreeWithoutLookup(c) >= 3
         /\ \A d \in GateDegrees(c) \cup TrashDegrees(c) : d <= DegreeWithoutLookup(c)
  <1> DEFINE S == {3} \cup TrashDegrees(c) \cup GateDegrees(c) \cup {c.minimum_degree}
  <1>1. S \in SUBSET Int /\ S # {}
    BY DegreesFinite, SystemFields
  <1>2. IsFiniteSet(S)
    <2>1. IsFiniteSet(TrashDegrees(c) \cup GateDegrees(c))
      BY DegreesFinite, FS_Union
    <2>2. IsFiniteSet((TrashDegrees(c) \cup GateDegrees(c)) \cup {3})
      BY <2>1, FS_AddElement
    <2>3. IsFiniteSet(((TrashDegrees(c) \cup GateDegrees(c)) \cup {3}) \cup {c.minimum_degree})
      BY <2>2, FS_AddElement
    <2>4. S = ((TrashDegrees(c) \cup GateDegrees(c)) \cup {3}) \cup {c.minimum_degree}
      OBVIOUS
    <2> QED
      BY <2>3, <2>4
  <1>3. DegreeWithoutLookup(c) = Largest(S)
    BY DEF DegreeWithoutLookup
  <1>4. 3 \in S /\ GateDegrees(c) \cup TrashDegrees(c) \subseteq S
    OBVIOUS
  <1> HIDE DEF S
  <1>5. Largest(S) \in S /\ \A m \in S : m <= Largest(S)
    BY <1>1, <1>2, LargestFound
  <1> DEFINE d == DegreeWithoutLookup(c)
  <1>6. d \in Int /\ 3 <= d /\ \A m \in GateDegrees(c) \cup TrashDegrees(c) : m <= d
    BY <1>1, <1>3, <1>4, <1>5
  <1> HIDE DEF d
  <1>7. d \in Nat /\ d >= 3
    BY <1>6
  <1> QED
    BY <1>6, <1>7 DEF d

LookupsCounted(c) == \A l \in ToSet(c.lookups) : LookupDegree(l) # 0

LEMMA LookupsTyped ==
  ASSUME NEW c \in SystemType
  PROVE  \A l \in ToSet(c.lookups) : l \in LookupType
  <1>1. c.lookups \in Seq(LookupType)
    BY SystemFields
  <1> QED
    BY <1>1, ElementsTyped

LEMMA SystemDegree ==
  ASSUME NEW c \in SystemType, LookupsCounted(c), NEW d, d = DegreeWithoutLookup(c)
  PROVE  /\ Degree(c) \in Nat /\ Degree(c) >= 3 /\ d <= Degree(c)
         /\ \A l \in ToSet(c.lookups) : DegreeBatched(l, d) <= Degree(c)
         /\ Degree(c) = d \/ \E l \in ToSet(c.lookups) : Degree(c) = DegreeBatched(l, d)
  <1> DEFINE T == {DegreeBatched(l, d) : l \in ToSet(c.lookups)}
             S == {d} \cup T
             f == [l \in ToSet(c.lookups) |-> {DegreeBatched(l, d)}]
  <1>1. d \in Nat /\ d >= 3
    BY BaseDegree
  <1>2. \A l \in ToSet(c.lookups) : DegreeBatched(l, d) \in Nat
    BY <1>1, LookupsTyped, BatchedDegree DEF LookupsCounted
  <1>3. IsFiniteSet(T)
    <2>1. \A l \in ToSet(c.lookups) : IsFiniteSet(f[l])
      BY FS_Singleton
    <2>2. T = UNION {f[l] : l \in ToSet(c.lookups)}
      OBVIOUS
    <2>3. c.lookups \in Seq(LookupType)
      BY SystemFields
    <2> HIDE DEF f, T
    <2> QED
      BY <2>1, <2>2, <2>3, FiniteUnionOverSequence
  <1>4. IsFiniteSet(S)
    <2>1. S = T \cup {d}
      OBVIOUS
    <2> HIDE DEF S, T
    <2> QED
      BY <1>3, <2>1, FS_AddElement
  <1>5. S \in SUBSET Int /\ d \in S /\ S # {}
    BY <1>1, <1>2
  <1>6. Degree(c) = Largest(S)
    BY DEF Degree
  <1>7. Largest(S) \in S /\ \A m \in S : m <= Largest(S)
    <2> HIDE DEF S
    <2> QED
      BY <1>4, <1>5, LargestFound
  <1> DEFINE D == Degree(c)
  <1>8. D \in S /\ D \in Nat /\ \A m \in S : m <= D
    BY <1>1, <1>2, <1>6, <1>7
  <1> HIDE DEF D
  <1>9. \A l \in ToSet(c.lookups) : DegreeBatched(l, d) <= D
    BY <1>8
  <1>10. D = d \/ \E l \in ToSet(c.lookups) : D = DegreeBatched(l, d)
    BY <1>8
  <1>11. d <= D
    BY <1>8
  <1> HIDE DEF S, T
  <1>12. D >= 3
    BY <1>1, <1>8, <1>11
  <1> QED
    BY <1>8, <1>9, <1>10, <1>11, <1>12 DEF D

(* The helper of a chunk fits: the degree of the system is one no batched  *)
(* lookup exceeds, or that of a batched lookup, which is a power of two    *)
(* and one, so that no more lookups fit than were counted.                 *)
LEMMA DegreeIsEnough ==
  ASSUME NEW c \in SystemType, LookupsCounted(c)
  PROVE  /\ \A d \in GateDegrees(c) \cup TrashDegrees(c) : d <= Degree(c)
         /\ \A l \in ToSet(c.lookups) :
               /\ 1 + LookupDegree(l) * ParallelLookupsPerChunk(l, Degree(c)) <= Degree(c)
               /\ AccumulatorDegree(l) <= Degree(c)
  <1> DEFINE d == DegreeWithoutLookup(c)
             D == Degree(c)
  <1>1. /\ d \in Nat /\ d >= 3
        /\ \A n \in GateDegrees(c) \cup TrashDegrees(c) : n <= d
    BY BaseDegree
  <1>2. /\ D \in Nat /\ D >= 3 /\ d <= D
        /\ \A l \in ToSet(c.lookups) : DegreeBatched(l, d) <= D
        /\ D = d \/ \E l \in ToSet(c.lookups) : D = DegreeBatched(l, d)
    BY SystemDegree
  <1> HIDE DEF d, D
  <1>3. \A n \in GateDegrees(c) \cup TrashDegrees(c) : n <= D
    BY <1>1, <1>2, DegreesFinite
  <1>4. ASSUME NEW l \in ToSet(c.lookups)
        PROVE  /\ 1 + LookupDegree(l) * ParallelLookupsPerChunk(l, D) <= D
               /\ AccumulatorDegree(l) <= D
    <2>1. l \in LookupType /\ LookupDegree(l) # 0
      BY LookupsTyped DEF LookupsCounted
    <2>2. /\ DegreeBatched(l, d) \in Nat
          /\ ParallelLookupsPerChunk(l, d) * LookupDegree(l) + 1 <= DegreeBatched(l, d)
          /\ AccumulatorDegree(l) \in Nat /\ AccumulatorDegree(l) <= DegreeBatched(l, d)
      BY <1>1, <2>1, BatchedDegree
    <2>3. /\ ParallelLookupsPerChunk(l, D) \in Nat /\ LookupDegree(l) \in Nat
          /\ ParallelLookupsPerChunk(l, D) * LookupDegree(l) \in Nat
          /\ ParallelLookupsPerChunk(l, D) * LookupDegree(l) <= NextPowerOfTwo(D - 1)
      BY <1>2, <2>1, ParallelLookups
    <2>4. LookupDegree(l) * ParallelLookupsPerChunk(l, D)
              = ParallelLookupsPerChunk(l, D) * LookupDegree(l)
      BY <2>3
    <2>5. ParallelLookupsPerChunk(l, D) * LookupDegree(l) + 1 <= D
      <3>1. CASE D = d
        <4>1. /\ DegreeBatched(l, D) <= D /\ DegreeBatched(l, D) \in Nat
              /\ ParallelLookupsPerChunk(l, D) * LookupDegree(l) + 1 <= DegreeBatched(l, D)
          BY <1>2, <2>2, <3>1
        <4> DEFINE x == ParallelLookupsPerChunk(l, D) * LookupDegree(l)
        <4>2. x \in Nat
          BY <2>3
        <4> HIDE DEF x
        <4>3. x + 1 <= DegreeBatched(l, D)
          BY <4>1 DEF x
        <4>4. x + 1 <= D
          BY <1>2, <4>1, <4>2, <4>3
        <4> QED
          BY <4>4 DEF x
      <3>2. CASE \E m \in ToSet(c.lookups) : D = DegreeBatched(m, d)
        <4>1. PICK m \in ToSet(c.lookups) : D = DegreeBatched(m, d)
          BY <3>2
        <4>2. NextPowerOfTwo(D - 1) = D - 1
          BY <1>1, <4>1, LookupsTyped, BatchedDegree DEF LookupsCounted
        <4> DEFINE x == ParallelLookupsPerChunk(l, D) * LookupDegree(l)
        <4>3. x \in Nat /\ x <= D - 1
          BY <2>3, <4>2
        <4> HIDE DEF x
        <4>4. x + 1 <= D
          BY <1>2, <4>3
        <4> QED
          BY <4>4 DEF x
      <3> QED
        BY <1>2, <3>1, <3>2
    <2>6. 1 + LookupDegree(l) * ParallelLookupsPerChunk(l, D) <= D
      <3> DEFINE x == ParallelLookupsPerChunk(l, D) * LookupDegree(l)
      <3>1. LookupDegree(l) * ParallelLookupsPerChunk(l, D) = x /\ x \in Nat /\ x + 1 <= D
        BY <2>3, <2>4, <2>5
      <3> HIDE DEF x
      <3> QED
        BY <3>1
    <2>7. AccumulatorDegree(l) <= D
      BY <1>2, <2>2
    <2> QED
      BY <2>6, <2>7
  <1> QED
    BY <1>3, <1>4 DEF D

LEMMA SumIsNatural ==
  ASSUME NEW terms \in Seq(Nat)
  PROVE  SumOf(terms) \in Nat
  <1> DEFINE m == Len(terms)
             next == [p \in (1 .. m) \X Nat |-> p[2] + terms[p[1]]]
             Is(f) == f = [n \in 0 .. m |-> IF n = 0 THEN 0 ELSE f[n - 1] + terms[n]]
  <1>1. m \in Nat /\ \A n \in 1 .. m : terms[n] \in Nat /\ n - 1 \in 0 .. m
    BY LenProperties
  <1>2. PICK f : Loops(f, m, Nat, 0, next)
    <2>1. Steps(next, 1 .. m, Nat)
      BY <1>1 DEF Steps
    <2> HIDE DEF m, next
    <2> QED
      BY <1>1, <2>1, LoopsExist
  <1>3. Is(f)
    <2>1. \A n \in 1 .. m : f[n] = f[n - 1] + terms[n]
      <3> SUFFICES ASSUME NEW n \in 1 .. m
                   PROVE  f[n] = f[n - 1] + terms[n]
        OBVIOUS
      <3>1. f[n] = next[n, f[n - 1]] /\ f[n - 1] \in Nat
        BY <1>1, <1>2 DEF Loops
      <3> QED
        BY <3>1
    <2>2. f \in [0 .. m -> Nat] /\ f[0] = 0
      BY <1>2 DEF Loops
    <2>3. \A n \in 0 .. m : n = 0 \/ n \in 1 .. m
      BY <1>1
    <2> HIDE DEF m, next
    <2> QED
      BY <2>1, <2>2, <2>3
  <1>4. PICK q : Is(q) /\ SumOf(terms) = q[m]
    <2> DEFINE q == CHOOSE g : Is(g)
    <2>1. SumOf(terms) = q[m]
      BY DEF SumOf
    <2>2. Is(q)
      <3> HIDE DEF Is
      <3> QED
        BY <1>3
    <2> HIDE DEF q, Is
    <2> QED
      BY <2>1, <2>2
  <1> DEFINE P == {n \in 0 .. m : q[n] \in Nat}
  <1>5. 0 \in P
    <2>1. q[0] = 0 /\ 0 \in 0 .. m
      BY <1>1, <1>4
    <2> HIDE DEF Is, m
    <2> QED
      BY <2>1
  <1>6. ASSUME NEW n \in 1 .. m, n - 1 \in P
        PROVE  n \in P
    <2>1. n \in 0 .. m /\ n # 0 /\ q[n - 1] \in Nat
      BY <1>1, <1>6
    <2>2. q[n] = q[n - 1] + terms[n]
      BY <1>4, <2>1
    <2> HIDE DEF Is, m
    <2> QED
      BY <1>1, <2>1, <2>2
  <1>7. m \in P
    <2> HIDE DEF P, m
    <2>1. 0 .. m \subseteq P
      BY <1>1, <1>5, <1>6, InductionUpTo
    <2> QED
      BY <1>1, <2>1
  <1> QED
    BY <1>1, <1>4, <1>7

LEMMA ChunksCounted ==
  ASSUME NEW c \in SystemType, ~ ChunksPanic(c)
  PROVE  /\ LookupsCounted(c) /\ TotalChunks(c) \in Nat
         /\ \A l \in ToSet(c.lookups) : NumChunks(c, l) \in Nat
  <1>1. LookupsCounted(c)
    BY DEF ChunksPanic, LookupsCounted
  <1>2. ASSUME NEW l \in ToSet(c.lookups)
        PROVE  NumChunks(c, l) \in Nat
    <2> DEFINE b == ParallelLookupsPerChunk(l, Degree(c))
               a == Len(l.inputs)
    <2>1. l \in LookupType /\ LookupDegree(l) # 0 /\ Degree(c) \in Nat /\ Degree(c) >= 1
      BY <1>1, LookupsTyped, SystemDegree DEF LookupsCounted
    <2>2. b \in Nat /\ a \in Nat
      BY <2>1, ParallelLookups, LenProperties DEF LookupType
    <2>3. b # 0
      BY DEF ChunksPanic
    <2> HIDE DEF a, b
    <2>4. (a + b - 1) \div b \in Nat
      BY <2>2, <2>3
    <2> QED
      BY <2>4 DEF NumChunks, CeilDiv, a, b
  <1>3. TotalChunks(c) \in Nat
    <2> DEFINE terms == [i \in DOMAIN c.lookups |-> NumChunks(c, c.lookups[i])]
    <2>1. DOMAIN c.lookups = 1 .. Len(c.lookups) /\ Len(c.lookups) \in Nat
      BY SystemFields, LenProperties
    <2>2. terms \in [1 .. Len(c.lookups) -> Nat]
      BY <1>2, <2>1 DEF ToSet
    <2>3. terms \in Seq(Nat)
      BY <2>1, <2>2, SequenceOf
    <2>4. TotalChunks(c) = SumOf(terms)
      BY DEF TotalChunks
    <2> HIDE DEF terms
    <2> QED
      BY <2>3, <2>4, SumIsNatural
  <1> QED
    BY <1>1, <1>2, <1>3

LEMMA Blinding ==
  ASSUME NEW c \in SystemType, ~ ChunksPanic(c)
  PROVE  /\ BlindingFactors(c) \in Nat
         /\ \A col \in 0 .. NumAdvice - 1 : c.num_advice_queries[col] + 3 <= BlindingFactors(c)
  <1> DEFINE T == {c.num_advice_queries[col] : col \in DOMAIN c.num_advice_queries}
             S == {3} \cup T
             counts == [i \in 1 .. NumAdvice |-> c.num_advice_queries[i - 1]]
  <1>1. c.num_advice_queries \in [0 .. NumAdvice - 1 -> Nat] /\ NumAdvice \in Nat
    BY SystemFields, ConfigurationAssumption
  <1>2. T = {counts[i] : i \in 1 .. NumAdvice}
    <2>1. \A col \in 0 .. NumAdvice - 1 : col + 1 \in 1 .. NumAdvice /\ counts[col + 1] = c.num_advice_queries[col]
      BY <1>1
    <2>2. \A i \in 1 .. NumAdvice : i - 1 \in 0 .. NumAdvice - 1
      BY <1>1
    <2> QED
      BY <1>1, <2>1, <2>2
  <1>3. IsFiniteSet(T)
    <2> HIDE DEF counts, T
    <2> QED
      BY <1>1, <1>2, FiniteElements
  <1>4. IsFiniteSet(S)
    <2>1. S = T \cup {3}
      OBVIOUS
    <2> HIDE DEF S, T
    <2> QED
      BY <1>3, <2>1, FS_AddElement
  <1>5. S \in SUBSET Nat /\ 3 \in S
    BY <1>1
  <1>6. \A col \in 0 .. NumAdvice - 1 : c.num_advice_queries[col] \in S
    BY <1>1
  <1>7. MostAdviceQueries(c) = Largest(S)
    BY DEF MostAdviceQueries
  <1> HIDE DEF S, T
  <1>8. Largest(S) \in S /\ \A m \in S : m <= Largest(S)
    BY <1>4, <1>5, LargestFound
  <1>9. TotalChunks(c) \in Nat /\ Len(c.trashcans) \in Nat
    BY ChunksCounted, SystemFields, LenProperties
  <1> DEFINE most == MostAdviceQueries(c)
             x == TotalChunks(c)
             y == Len(c.trashcans)
  <1>10. BlindingFactors(c) = most + y + x + 3
    BY DEF BlindingFactors
  <1>11. /\ most \in Nat /\ x \in Nat /\ y \in Nat
         /\ \A col \in 0 .. NumAdvice - 1 :
               c.num_advice_queries[col] \in Nat /\ c.num_advice_queries[col] <= most
    BY <1>1, <1>5, <1>6, <1>7, <1>8, <1>9
  <1> HIDE DEF most, x, y
  <1> QED
    BY <1>10, <1>11

-----------------------------------------------------------------------------
(* The conversion, polynomial by polynomial.                               *)
FixedPoly(c, queries, p)      == [i \in DOMAIN p |-> ConvertedCell(c, queries, p[i])]
FixedPolys(c, queries, polys) == [i \in DOMAIN polys |-> FixedPoly(c, queries, polys[i])]
FixedGate(c, queries, g) ==
    [polys |-> FixedPolys(c, queries, g.polys),
     queried_selectors |-> {s + c.num_fixed_columns : s \in g.queried_selectors}]
FixedLookup(c, queries, l) ==
    [selector |-> FixedPoly(c, queries, l.selector), inputs |-> FixedPolys(c, queries, l.inputs),
     table |-> FixedPoly(c, queries, l.table)]
FixedTrash(c, queries, t) ==
    [argument_index |-> t.argument_index, selector |-> ConvertedCell(c, queries, t.selector),
     constraints |-> FixedPolys(c, queries, t.constraints)]
FixedFlag(c, f, i) == IF f.simple THEN [f EXCEPT !.col_idx = FixedColumnOf(c, i - 1)] ELSE f

LEMMA ConvertedFields ==
  ASSUME NEW c \in SystemType, NEW d \in SystemType, d = WithSelectorQueries(c),
         SameButQueries(c, d), NEW q, q = d.queries["fixed"]
  PROVE  Converted(c) =
             [num_fixed_columns  |-> c.num_fixed_columns + NumSelectors(c),
              selector_flags     |-> [i \in DOMAIN c.selector_flags |->
                                         FixedFlag(c, c.selector_flags[i], i)],
              queries            |-> d.queries,
              num_advice_queries |-> d.num_advice_queries,
              permutation        |-> c.permutation,
              gates              |-> [i \in DOMAIN c.gates |-> FixedGate(c, q, c.gates[i])],
              lookups            |-> [i \in DOMAIN c.lookups |-> FixedLookup(c, q, c.lookups[i])],
              trashcans          |-> [i \in DOMAIN c.trashcans |-> FixedTrash(c, q, c.trashcans[i])],
              constants          |-> c.constants,
              minimum_degree     |-> c.minimum_degree]
  <1> DEFINE columns == c.num_fixed_columns + NumSelectors(c)
             flags == [i \in DOMAIN c.selector_flags |-> FixedFlag(c, c.selector_flags[i], i)]
             gates == [i \in DOMAIN c.gates |-> FixedGate(c, q, c.gates[i])]
             lookups == [i \in DOMAIN c.lookups |-> FixedLookup(c, q, c.lookups[i])]
             trashcans == [i \in DOMAIN c.trashcans |-> FixedTrash(c, q, c.trashcans[i])]
  <1>1. Converted(c) = [d EXCEPT !.num_fixed_columns = columns,
                                 !.selector_flags = flags, !.gates = gates,
                                 !.lookups = lookups, !.trashcans = trashcans]
    BY DEF Converted, SameButQueries, FixedFlag, FixedGate, FixedLookup, FixedTrash,
           FixedPolys, FixedPoly
  <1> HIDE DEF columns, flags, gates, lookups, trashcans
  <1>2. Converted(c) =
             [num_fixed_columns  |-> columns,
              selector_flags     |-> flags,
              queries            |-> d.queries,
              num_advice_queries |-> d.num_advice_queries,
              permutation        |-> c.permutation,
              gates              |-> gates,
              lookups            |-> lookups,
              trashcans          |-> trashcans,
              constants          |-> c.constants,
              minimum_degree     |-> c.minimum_degree]
    BY ZenonT(40), <1>1 DEF SystemType, SameButQueries
  <1> QED
    BY <1>2 DEF columns, flags, gates, lookups, trashcans

(* The queries of converted selectors.                                     *)
LEMMA SelectorQueries ==
  ASSUME NEW c, Configuration(c), NEW d, d = WithSelectorQueries(c)
  PROVE  /\ d \in Systems /\ SameButQueries(c, d) /\ Kept(c, d)
         /\ d.num_advice_queries = c.num_advice_queries /\ NumSelectors(c) \in Nat
         /\ \A s \in 0 .. NumSelectors(c) - 1 :
               <<NumFixed + s, 0>> \in ToSet(d.queries["fixed"])
         /\ \A query \in ToSet(d.queries["fixed"]) :
               \/ query[1] < NumFixed
               \/ \E s \in 0 .. NumSelectors(c) - 1 : query = <<NumFixed + s, 0>>
  <1> DEFINE m == NumSelectors(c)
             cells == [i \in 1 .. m |-> Cell("fixed", FixedColumnOf(c, i - 1), 0)]
  <1>1. /\ c \in Systems /\ c \in SystemType /\ c.num_fixed_columns = NumFixed
        /\ FixedQueriesExist(c) /\ NumFixed \in Nat /\ c.selector_flags \in Seq(FlagType)
    BY SystemFields, ConfigurationAssumption DEF Configuration, Systems
  <1>2. m \in Nat
    BY <1>1, LenProperties DEF NumSelectors
  <1> HIDE DEF m
  <1>3. \A i \in 1 .. m : /\ cells[i] = Cell("fixed", NumFixed + (i - 1), 0)
                          /\ NumFixed + (i - 1) \in Nat /\ i - 1 \in 0 .. m - 1
    BY <1>1, <1>2 DEF FixedColumnOf
  <1>4. \A n \in Nat : /\ Cell("fixed", n, 0) \in Queryable
                       /\ QueryOf(Cell("fixed", n, 0)) = <<n, 0>>
                       /\ Cell("fixed", n, 0).kind = "fixed"
    BY DEF Cell, Queryable, CellType, QueryOf, Unresolved, Kinds
  <1>5. cells \in [1 .. m -> Queryable]
    BY <1>3, <1>4
  <1>6. cells \in Seq(Queryable) /\ DOMAIN cells = 1 .. m
    BY <1>2, <1>5, SequenceOf
  <1>7. d = QueryPoly(c, cells)
    BY DEF WithSelectorQueries, m
  <1> HIDE DEF cells
  <1>8. Queried(c, d, ToSet(cells))
    BY <1>1, <1>6, <1>7, PolyQueried
  <1>9. d \in Systems /\ d \in SystemType /\ SameButQueries(c, d) /\ Kept(c, d)
    BY <1>8 DEF Queried, Systems
  <1>10. ASSUME NEW s \in 0 .. m - 1
         PROVE  <<NumFixed + s, 0>> \in ToSet(d.queries["fixed"])
    <2>1. s + 1 \in 1 .. m /\ s + 1 - 1 = s
      BY <1>2
    <2>2. cells[s + 1] \in ToSet(cells) /\ cells[s + 1] = Cell("fixed", NumFixed + s, 0)
      BY <1>3, <1>6, <2>1 DEF ToSet
    <2>3. NumFixed + s \in Nat
      BY <1>1
    <2> QED
      BY <1>4, <1>8, <2>2, <2>3 DEF Queried, Held
  <1>11. ASSUME NEW query \in ToSet(d.queries["fixed"])
         PROVE  \/ query[1] < NumFixed
                \/ \E s \in 0 .. m - 1 : query = <<NumFixed + s, 0>>
    <2>1. CASE query \in ToSet(c.queries["fixed"])
      BY <1>1, <2>1 DEF FixedQueriesExist
    <2>2. CASE query \notin ToSet(c.queries["fixed"])
      <3>1. PICK cell \in ToSet(cells) : query = QueryOf(cell)
        BY <1>8, <2>2 DEF Queried, Added, Kinds
      <3>2. PICK i \in 1 .. m : cell = cells[i]
        BY <1>6 DEF ToSet
      <3>3. query = <<NumFixed + (i - 1), 0>>
        BY <1>3, <1>4, <3>1, <3>2
      <3> QED
        BY <1>3, <3>3
    <2> QED
      BY <2>1, <2>2
  <1>12. d.num_advice_queries = c.num_advice_queries
    <2>1. \A cell \in ToSet(cells) : cell.kind = "fixed"
      BY <1>3, <1>4, <1>6 DEF ToSet
    <2>2. \A query \in ToSet(d.queries["advice"]) : query \in ToSet(c.queries["advice"])
      BY <1>8, <2>1 DEF Queried, Added, Kinds
    <2>3. \A query \in ToSet(c.queries["advice"]) : query \in ToSet(d.queries["advice"])
      BY <1>9 DEF Kept, ToSet, Kinds
    <2>4. \A col \in 0 .. NumAdvice - 1 : AdviceQueriesOf(d, col) = AdviceQueriesOf(c, col)
      BY <2>2, <2>3 DEF AdviceQueriesOf
    <2>5. \A col \in 0 .. NumAdvice - 1 : d.num_advice_queries[col] = c.num_advice_queries[col]
      BY <1>1, <1>9, <2>4 DEF Systems, CountedQueries
    <2>6. /\ c.num_advice_queries \in [0 .. NumAdvice - 1 -> Nat]
          /\ d.num_advice_queries \in [0 .. NumAdvice - 1 -> Nat]
      BY <1>1, <1>9, SystemFields
    <2> DEFINE x == c.num_advice_queries
               y == d.num_advice_queries
    <2> HIDE DEF x, y
    <2>7. /\ x \in [0 .. NumAdvice - 1 -> Nat] /\ y \in [0 .. NumAdvice - 1 -> Nat]
          /\ \A col \in 0 .. NumAdvice - 1 : y[col] = x[col]
      BY <2>5, <2>6 DEF x, y
    <2>8. /\ x = [col \in 0 .. NumAdvice - 1 |-> x[col]]
          /\ y = [col \in 0 .. NumAdvice - 1 |-> y[col]]
      BY <2>7
    <2>9. x = y
      BY <2>7, <2>8
    <2> QED
      BY <2>9 DEF x, y
  <1> QED
    BY <1>2, <1>9, <1>10, <1>11, <1>12 DEF m

(* A converted cell is under the index of its query, and a column past     *)
(* those allocated is that of the selector it was.                         *)
LEMMA ConvertedCells ==
  ASSUME NEW c, Configuration(c), NEW d, d = WithSelectorQueries(c),
         NEW cell, IsNamed(c, cell), NEW f, f = ConvertedCell(c, d.queries["fixed"], cell)
  PROVE  /\ f \in CellType /\ f.kind \in Kinds
         /\ f.index \in DOMAIN d.queries[f.kind] /\ d.queries[f.kind][f.index] = QueryOf(f)
         /\ f.kind = "fixed" => \/ f.column < NumFixed
                                \/ cell.kind = "selector" /\ f.column = NumFixed + cell.column
  <1>1. /\ c \in SystemType /\ d \in SystemType /\ Kept(c, d) /\ c.num_fixed_columns = NumFixed
        /\ FixedQueriesExist(c) /\ NumFixed \in Nat /\ cell \in CellType
    BY SelectorQueries, ConfigurationAssumption DEF Configuration, Systems, IsNamed
  <1>2. CASE cell.kind = "selector"
    <2> DEFINE query == <<NumFixed + cell.column, 0>>
               s == d.queries["fixed"]
               n == Position(s, query)
    <2>1. cell.column \in 0 .. NumSelectors(c) - 1 /\ cell.column \in Nat
      <3>1. cell.column + 1 \in 1 .. Len(c.selector_flags)
        BY <1>1, <1>2, SystemFields, LenProperties DEF IsNamed
      <3>2. cell.column \in Nat /\ Len(c.selector_flags) \in Nat
        BY <1>1, SystemFields, LenProperties DEF CellType
      <3> QED
        BY <3>1, <3>2 DEF NumSelectors
    <2>2. query \in ToSet(s)
      BY <2>1, SelectorQueries
    <2>3. s \in Seq(QueryType)
      BY <1>1, SystemFields DEF Kinds
    <2>4. n \in DOMAIN s /\ s[n] = query
      BY <2>2, <2>3, PositionFound
    <2>5. n \in Nat
      BY <2>3, <2>4, LenProperties
    <2>6. f = [kind |-> "fixed", column |-> NumFixed + cell.column, rotation |-> 0, index |-> n]
      BY <1>1, <1>2 DEF ConvertedCell, FixedColumnOf
    <2> HIDE DEF n, s
    <2>7. /\ f.kind = "fixed" /\ f.column = NumFixed + cell.column /\ f.rotation = 0 /\ f.index = n
      BY <2>6
    <2>8. NumFixed + cell.column \in Nat
      BY <1>1, <2>1
    <2>9. f \in CellType
      BY <2>5, <2>6, <2>8 DEF CellType, Kinds
    <2> QED
      BY <1>2, <2>4, <2>7, <2>9 DEF QueryOf, s, Kinds
  <1>3. CASE cell.kind # "selector"
    <2>1. f = cell /\ cell.kind \in Kinds
      BY <1>1, <1>3 DEF ConvertedCell, CellType
    <2>2. /\ cell.index \in DOMAIN c.queries[cell.kind]
          /\ c.queries[cell.kind][cell.index] = QueryOf(cell)
      BY <1>3 DEF IsNamed
    <2>3. /\ cell.index \in DOMAIN d.queries[cell.kind]
          /\ d.queries[cell.kind][cell.index] = QueryOf(cell)
      BY <1>1, <2>1, <2>2 DEF Kept
    <2>4. cell.kind = "fixed" => cell.column < NumFixed
      <3>1. cell.kind = "fixed" => QueryOf(cell) \in ToSet(c.queries["fixed"])
        BY <2>2 DEF ToSet
      <3>2. QueryOf(cell)[1] = cell.column
        BY DEF QueryOf
      <3> QED
        BY <1>1, <3>1, <3>2 DEF FixedQueriesExist
    <2> QED
      BY <1>1, <2>1, <2>3, <2>4
  <1> QED
    BY <1>2, <1>3

(* What a trash argument may hold is what a polynomial may, or a cell that *)
(* was never queried: both become a cell.                                  *)
IsLoose(c, cell) ==
    \/ IsNamed(c, cell)
    \/ cell \in CellType /\ cell.kind # "selector" /\ cell.index = Unresolved

LEMMA LooseCells ==
  ASSUME NEW c, Configuration(c), NEW d, d = WithSelectorQueries(c),
         NEW cell, IsLoose(c, cell), NEW f, f = ConvertedCell(c, d.queries["fixed"], cell)
  PROVE  /\ f \in CellType /\ f.kind \in Kinds
         /\ \/ f.index \in DOMAIN d.queries[f.kind] /\ d.queries[f.kind][f.index] = QueryOf(f)
            \/ f.index = Unresolved
  <1>1. CASE IsNamed(c, cell)
    BY <1>1, ConvertedCells
  <1>2. CASE ~ IsNamed(c, cell)
    BY <1>2 DEF IsLoose, ConvertedCell, CellType
  <1> QED
    BY <1>1, <1>2

LEMMA FixedPolynomial ==
  ASSUME NEW c, Configuration(c), NEW q, q = WithSelectorQueries(c).queries["fixed"],
         NEW p \in PolyType, \A cell \in ToSet(p) : IsLoose(c, cell)
  PROVE  /\ FixedPoly(c, q, p) \in PolyType /\ Len(FixedPoly(c, q, p)) = Len(p)
         /\ \A f \in ToSet(FixedPoly(c, q, p)) :
               \E cell \in ToSet(p) : f = ConvertedCell(c, q, cell)
  <1> DEFINE r == FixedPoly(c, q, p)
  <1>1. DOMAIN p = 1 .. Len(p) /\ Len(p) \in Nat
    BY LenProperties DEF PolyType
  <1>2. r = [i \in 1 .. Len(p) |-> ConvertedCell(c, q, p[i])]
    BY <1>1 DEF FixedPoly
  <1>3. \A i \in 1 .. Len(p) : p[i] \in ToSet(p)
    BY <1>1 DEF ToSet
  <1>4. \A i \in 1 .. Len(p) : ConvertedCell(c, q, p[i]) \in CellType
    BY <1>3, LooseCells
  <1> HIDE DEF r
  <1>5. r \in [1 .. Len(p) -> CellType]
    BY <1>2, <1>4
  <1>6. r \in Seq(CellType) /\ Len(r) = Len(p) /\ DOMAIN r = 1 .. Len(p)
    BY <1>1, <1>5, SequenceOf
  <1>7. \A f \in ToSet(r) : \E cell \in ToSet(p) : f = ConvertedCell(c, q, cell)
    BY <1>2, <1>3, <1>6 DEF ToSet
  <1> QED
    BY <1>6, <1>7 DEF r, PolyType

LEMMA FixedPolynomials ==
  ASSUME NEW c, Configuration(c), NEW q, q = WithSelectorQueries(c).queries["fixed"],
         NEW polys \in Seq(PolyType), \A cell \in CellsIn(ToSet(polys)) : IsLoose(c, cell)
  PROVE  /\ FixedPolys(c, q, polys) \in Seq(PolyType)
         /\ Len(FixedPolys(c, q, polys)) = Len(polys)
         /\ DOMAIN FixedPolys(c, q, polys) = DOMAIN polys
         /\ \A i \in DOMAIN polys : Len(FixedPolys(c, q, polys)[i]) = Len(polys[i])
         /\ \A f \in CellsIn(ToSet(FixedPolys(c, q, polys))) :
               \E cell \in CellsIn(ToSet(polys)) : f = ConvertedCell(c, q, cell)
  <1> DEFINE r == FixedPolys(c, q, polys)
  <1>1. /\ DOMAIN polys = 1 .. Len(polys) /\ Len(polys) \in Nat
        /\ \A i \in DOMAIN polys : polys[i] \in PolyType
    BY LenProperties
  <1>2. r = [i \in 1 .. Len(polys) |-> FixedPoly(c, q, polys[i])]
    BY <1>1 DEF FixedPolys
  <1>3. \A i \in DOMAIN polys : ToSet(polys[i]) \subseteq CellsIn(ToSet(polys))
    BY DEF CellsIn, ToSet
  <1>4. ASSUME NEW i \in DOMAIN polys
        PROVE  /\ FixedPoly(c, q, polys[i]) \in PolyType
               /\ Len(FixedPoly(c, q, polys[i])) = Len(polys[i])
               /\ \A f \in ToSet(FixedPoly(c, q, polys[i])) :
                     \E cell \in CellsIn(ToSet(polys)) : f = ConvertedCell(c, q, cell)
    <2>1. polys[i] \in PolyType /\ \A cell \in ToSet(polys[i]) : IsLoose(c, cell)
      BY <1>1, <1>3
    <2>2. /\ FixedPoly(c, q, polys[i]) \in PolyType
          /\ Len(FixedPoly(c, q, polys[i])) = Len(polys[i])
          /\ \A f \in ToSet(FixedPoly(c, q, polys[i])) :
                \E cell \in ToSet(polys[i]) : f = ConvertedCell(c, q, cell)
      BY <2>1, FixedPolynomial
    <2> QED
      BY <1>3, <2>2
  <1> HIDE DEF r
  <1>5. r \in [1 .. Len(polys) -> PolyType]
    BY <1>1, <1>2, <1>4
  <1>6. r \in Seq(PolyType) /\ Len(r) = Len(polys) /\ DOMAIN r = DOMAIN polys
    BY <1>1, <1>5, SequenceOf
  <1>7. ASSUME NEW f \in CellsIn(ToSet(r))
        PROVE  \E cell \in CellsIn(ToSet(polys)) : f = ConvertedCell(c, q, cell)
    <2>1. PICK i \in DOMAIN r : f \in ToSet(r[i])
      BY DEF CellsIn, ToSet
    <2>2. r[i] = FixedPoly(c, q, polys[i]) /\ i \in DOMAIN polys
      BY <1>1, <1>2, <1>6
    <2> QED
      BY <1>4, <2>1, <2>2
  <1>8. \A i \in DOMAIN polys : Len(r[i]) = Len(polys[i])
    BY <1>1, <1>2, <1>4
  <1> QED
    BY <1>6, <1>7, <1>8 DEF r

(* Where the parts of a system get their cells from.                       *)
LEMMA PartsNamed ==
  ASSUME NEW c, Configuration(c)
  PROVE  /\ \A g \in ToSet(c.gates) :
               /\ g \in GateType /\ \A cell \in CellsIn(ToSet(g.polys)) : IsNamed(c, cell)
               /\ SelectorsIn(g.polys) \subseteq g.queried_selectors
         /\ \A l \in ToSet(c.lookups) :
               /\ l \in LookupType
               /\ \A cell \in CellsIn(ToSet(l.inputs)) \cup ToSet(l.table) \cup ToSet(l.selector) :
                     IsNamed(c, cell)
         /\ \A t \in ToSet(c.trashcans) :
               /\ t \in TrashType /\ IsLoose(c, t.selector)
               /\ \A cell \in CellsIn(ToSet(t.constraints)) : IsLoose(c, cell)
  <1>1. /\ c \in SystemType /\ c.gates \in Seq(GateType) /\ c.lookups \in Seq(LookupType)
        /\ c.trashcans \in Seq(TrashType)
        /\ PolynomialsNamed(c) /\ TrashNamed(c) /\ GateSelectorsKnown(c)
    BY SystemFields DEF Configuration, Systems
  <1>2. ASSUME NEW g \in ToSet(c.gates)
        PROVE  /\ g \in GateType /\ \A cell \in CellsIn(ToSet(g.polys)) : IsNamed(c, cell)
               /\ SelectorsIn(g.polys) \subseteq g.queried_selectors
    <2>1. ToSet(g.polys) \subseteq Polynomials(c)
      BY DEF Polynomials, GatePolynomials
    <2>2. CellsIn(ToSet(g.polys)) \subseteq CellsIn(Polynomials(c))
      BY <2>1 DEF CellsIn
    <2>3. g \in GateType
      BY <1>1, ElementsTyped
    <2> QED
      BY <1>1, <2>2, <2>3 DEF PolynomialsNamed, GateSelectorsKnown
  <1>3. ASSUME NEW l \in ToSet(c.lookups)
        PROVE  /\ l \in LookupType
               /\ \A cell \in CellsIn(ToSet(l.inputs)) \cup ToSet(l.table) \cup ToSet(l.selector) :
                     IsNamed(c, cell)
    <2>1. ToSet(l.inputs) \cup {l.table, l.selector} \subseteq Polynomials(c)
      BY DEF Polynomials, LookupPolynomials
    <2>2. CellsIn(ToSet(l.inputs)) \cup ToSet(l.table) \cup ToSet(l.selector)
              \subseteq CellsIn(Polynomials(c))
      BY <2>1 DEF CellsIn
    <2>3. l \in LookupType
      BY <1>1, ElementsTyped
    <2> QED
      BY <1>1, <2>2, <2>3 DEF PolynomialsNamed
  <1>4. ASSUME NEW t \in ToSet(c.trashcans)
        PROVE  /\ t \in TrashType /\ IsLoose(c, t.selector)
               /\ \A cell \in CellsIn(ToSet(t.constraints)) : IsLoose(c, cell)
    <2>1. ToSet(t.constraints) \cup {<<t.selector>>} \subseteq TrashPolynomials(c)
      BY DEF TrashPolynomials
    <2>2. t.selector \in ToSet(<<t.selector>>)
      BY DEF ToSet
    <2>3. CellsIn(ToSet(t.constraints)) \cup {t.selector} \subseteq CellsIn(TrashPolynomials(c))
      BY <2>1, <2>2 DEF CellsIn
    <2>4. t \in TrashType
      BY <1>1, ElementsTyped
    <2> QED
      BY <1>1, <2>3, <2>4 DEF TrashNamed, IsLoose
  <1> QED
    BY <1>2, <1>3, <1>4

LEMMA ConvertedParts ==
  ASSUME NEW c, Configuration(c), NEW d, d = WithSelectorQueries(c),
         NEW q, q = d.queries["fixed"]
  PROVE  /\ \A g \in ToSet(c.gates) : FixedGate(c, q, g) \in GateType
         /\ \A l \in ToSet(c.lookups) : FixedLookup(c, q, l) \in LookupType
         /\ \A t \in ToSet(c.trashcans) : FixedTrash(c, q, t) \in TrashType
  <1> DEFINE w == WithSelectorQueries(c).queries["fixed"]
  <1>1. q = w
    OBVIOUS
  <1>2. ASSUME NEW polys \in Seq(PolyType), \A cell \in CellsIn(ToSet(polys)) : IsLoose(c, cell)
        PROVE  FixedPolys(c, q, polys) \in Seq(PolyType)
    BY <1>1, <1>2, FixedPolynomials
  <1>3. ASSUME NEW p \in PolyType, \A cell \in ToSet(p) : IsLoose(c, cell)
        PROVE  FixedPoly(c, q, p) \in PolyType
    BY <1>1, <1>3, FixedPolynomial
  <1>4. \A cell : IsNamed(c, cell) => IsLoose(c, cell)
    BY DEF IsLoose
  <1>5. ASSUME NEW g \in ToSet(c.gates)
        PROVE  FixedGate(c, q, g) \in GateType
    <2>1. /\ g \in GateType /\ \A cell \in CellsIn(ToSet(g.polys)) : IsLoose(c, cell)
      BY <1>4, PartsNamed
    <2>2. FixedPolys(c, q, g.polys) \in Seq(PolyType)
      BY <1>2, <2>1 DEF GateType
    <2>3. {s + c.num_fixed_columns : s \in g.queried_selectors} \in SUBSET Nat
      BY <2>1, ConfigurationAssumption DEF Configuration, GateType
    <2> QED
      BY <2>2, <2>3 DEF FixedGate, GateType
  <1>6. ASSUME NEW l \in ToSet(c.lookups)
        PROVE  FixedLookup(c, q, l) \in LookupType
    <2>1. /\ l \in LookupType
          /\ \A cell \in CellsIn(ToSet(l.inputs)) \cup ToSet(l.table) \cup ToSet(l.selector) :
                IsLoose(c, cell)
      BY <1>4, PartsNamed
    <2>2. l.inputs \in Seq(PolyType) /\ l.table \in PolyType /\ l.selector \in PolyType
      BY <2>1 DEF LookupType
    <2>3. /\ FixedPolys(c, q, l.inputs) \in Seq(PolyType)
          /\ FixedPoly(c, q, l.table) \in PolyType /\ FixedPoly(c, q, l.selector) \in PolyType
      BY <1>2, <1>3, <2>1, <2>2
    <2> QED
      BY <2>3 DEF FixedLookup, LookupType
  <1>7. ASSUME NEW t \in ToSet(c.trashcans)
        PROVE  FixedTrash(c, q, t) \in TrashType
    <2>1. /\ t \in TrashType /\ IsLoose(c, t.selector)
          /\ \A cell \in CellsIn(ToSet(t.constraints)) : IsLoose(c, cell)
      BY PartsNamed
    <2>2. FixedPolys(c, q, t.constraints) \in Seq(PolyType)
      BY <1>2, <2>1 DEF TrashType
    <2>3. ConvertedCell(c, q, t.selector) \in CellType
      BY <2>1, LooseCells
    <2> QED
      BY <2>1, <2>2, <2>3 DEF FixedTrash, TrashType
  <1> QED
    BY <1>5, <1>6, <1>7

ConvertedFrom(c, q, e) ==
    /\ e.num_fixed_columns = c.num_fixed_columns + NumSelectors(c)
    /\ e.num_advice_queries = c.num_advice_queries /\ e.minimum_degree = c.minimum_degree
    /\ DOMAIN e.selector_flags = DOMAIN c.selector_flags
    /\ DOMAIN e.gates = DOMAIN c.gates /\ DOMAIN e.lookups = DOMAIN c.lookups
    /\ DOMAIN e.trashcans = DOMAIN c.trashcans /\ Len(e.trashcans) = Len(c.trashcans)
    /\ \A i \in DOMAIN c.selector_flags :
          e.selector_flags[i] = FixedFlag(c, c.selector_flags[i], i)
    /\ \A i \in DOMAIN c.gates : e.gates[i] = FixedGate(c, q, c.gates[i])
    /\ \A i \in DOMAIN c.lookups : e.lookups[i] = FixedLookup(c, q, c.lookups[i])
    /\ \A i \in DOMAIN c.trashcans : e.trashcans[i] = FixedTrash(c, q, c.trashcans[i])

LEMMA ConvertedSystem ==
  ASSUME NEW c, Configuration(c), NEW d, d = WithSelectorQueries(c), NEW e, e = Converted(c)
  PROVE  e \in Systems /\ e.queries = d.queries /\ ConvertedFrom(c, d.queries["fixed"], e)
  <1> DEFINE q == d.queries["fixed"]
             flags == [i \in DOMAIN c.selector_flags |-> FixedFlag(c, c.selector_flags[i], i)]
             gates == [i \in DOMAIN c.gates |-> FixedGate(c, q, c.gates[i])]
             lookups == [i \in DOMAIN c.lookups |-> FixedLookup(c, q, c.lookups[i])]
             trashcans == [i \in DOMAIN c.trashcans |-> FixedTrash(c, q, c.trashcans[i])]
             columns == c.num_fixed_columns + NumSelectors(c)
  <1>1. /\ c \in SystemType /\ d \in SystemType /\ d \in Systems /\ SameButQueries(c, d)
        /\ d.num_advice_queries = c.num_advice_queries /\ NumSelectors(c) \in Nat
        /\ c.num_fixed_columns = NumFixed /\ NumFixed \in Nat
    BY SelectorQueries, ConfigurationAssumption DEF Configuration, Systems
  <1>2. e = [num_fixed_columns  |-> columns,
             selector_flags     |-> flags,
             queries            |-> d.queries,
             num_advice_queries |-> d.num_advice_queries,
             permutation        |-> c.permutation,
             gates              |-> gates,
             lookups            |-> lookups,
             trashcans          |-> trashcans,
             constants          |-> c.constants,
             minimum_degree     |-> c.minimum_degree]
    BY <1>1, ConvertedFields
  <1>3. /\ c.selector_flags \in Seq(FlagType) /\ c.gates \in Seq(GateType)
        /\ c.lookups \in Seq(LookupType) /\ c.trashcans \in Seq(TrashType)
        /\ d.queries \in [Kinds -> Seq(QueryType)]
        /\ c.num_advice_queries \in [0 .. NumAdvice - 1 -> Nat]
        /\ c.permutation \in Seq(Kinds \X Nat) /\ c.constants \in Seq(Kinds \X Nat)
        /\ c.minimum_degree \in Int
    BY <1>1, SystemFields
  <1>4. columns \in Nat
    BY <1>1
  <1>5. flags \in Seq(FlagType) /\ DOMAIN flags = DOMAIN c.selector_flags
    <2>1. ASSUME NEW i \in DOMAIN c.selector_flags
          PROVE  flags[i] \in FlagType
      <3>1. c.selector_flags[i] \in FlagType /\ i \in Nat
        BY <1>3, LenProperties
      <3>2. FixedColumnOf(c, i - 1) \in Int
        BY <1>1, <3>1 DEF FixedColumnOf
      <3> QED
        BY <3>1, <3>2 DEF FixedFlag, FlagType
    <2>2. c.selector_flags \in Seq(FlagType)
      BY <1>3
    <2>3. DOMAIN c.selector_flags = 1 .. Len(c.selector_flags) /\ Len(c.selector_flags) \in Nat
      BY <2>2, LenProperties
    <2>4. flags \in [1 .. Len(c.selector_flags) -> FlagType]
      BY <2>1, <2>3
    <2> HIDE DEF flags
    <2> QED
      BY <2>3, <2>4, SequenceOf
  <1>6. gates \in Seq(GateType) /\ DOMAIN gates = DOMAIN c.gates
    <2>1. \A i \in DOMAIN c.gates : gates[i] \in GateType
      BY ConvertedParts DEF ToSet
    <2>2. c.gates \in Seq(GateType)
      BY <1>3
    <2>3. DOMAIN c.gates = 1 .. Len(c.gates) /\ Len(c.gates) \in Nat
      BY <2>2, LenProperties
    <2>4. gates \in [1 .. Len(c.gates) -> GateType]
      BY <2>1, <2>3
    <2> HIDE DEF gates
    <2> QED
      BY <2>3, <2>4, SequenceOf
  <1>7. lookups \in Seq(LookupType) /\ DOMAIN lookups = DOMAIN c.lookups
    <2>1. \A i \in DOMAIN c.lookups : lookups[i] \in LookupType
      BY ConvertedParts DEF ToSet
    <2>2. c.lookups \in Seq(LookupType)
      BY <1>3
    <2>3. DOMAIN c.lookups = 1 .. Len(c.lookups) /\ Len(c.lookups) \in Nat
      BY <2>2, LenProperties
    <2>4. lookups \in [1 .. Len(c.lookups) -> LookupType]
      BY <2>1, <2>3
    <2> HIDE DEF lookups
    <2> QED
      BY <2>3, <2>4, SequenceOf
  <1>8. /\ trashcans \in Seq(TrashType) /\ DOMAIN trashcans = DOMAIN c.trashcans
        /\ Len(trashcans) = Len(c.trashcans)
    <2>1. \A i \in DOMAIN c.trashcans : trashcans[i] \in TrashType
      BY ConvertedParts DEF ToSet
    <2>2. c.trashcans \in Seq(TrashType)
      BY <1>3
    <2>3. DOMAIN c.trashcans = 1 .. Len(c.trashcans) /\ Len(c.trashcans) \in Nat
      BY <2>2, LenProperties
    <2>4. trashcans \in [1 .. Len(c.trashcans) -> TrashType]
      BY <2>1, <2>3
    <2> HIDE DEF trashcans
    <2> QED
      BY <2>3, <2>4, SequenceOf
  <1>9. /\ \A i \in DOMAIN c.selector_flags : flags[i] = FixedFlag(c, c.selector_flags[i], i)
        /\ \A i \in DOMAIN c.gates : gates[i] = FixedGate(c, q, c.gates[i])
        /\ \A i \in DOMAIN c.lookups : lookups[i] = FixedLookup(c, q, c.lookups[i])
        /\ \A i \in DOMAIN c.trashcans : trashcans[i] = FixedTrash(c, q, c.trashcans[i])
    OBVIOUS
  <1> HIDE DEF flags, gates, lookups, trashcans
  <1>10. /\ e.num_fixed_columns = columns /\ e.selector_flags = flags /\ e.queries = d.queries
         /\ e.num_advice_queries = c.num_advice_queries /\ e.gates = gates
         /\ e.lookups = lookups /\ e.trashcans = trashcans
         /\ e.minimum_degree = c.minimum_degree
    BY <1>1, <1>2
  <1>11. e \in SystemType
    <2> HIDE DEF columns
    <2> QED
      BY SMTT(30), <1>1, <1>2, <1>3, <1>4, <1>5, <1>6, <1>7, <1>8 DEF SystemType
  <1>12. ConvertedFrom(c, q, e)
    BY <1>5, <1>6, <1>7, <1>8, <1>9, <1>10 DEF ConvertedFrom
  <1>13. DistinctQueries(e)
    BY <1>1, <1>10 DEF Systems, DistinctQueries
  <1>14. CountedQueries(e)
    <2>1. \A col : AdviceQueriesOf(e, col) = AdviceQueriesOf(d, col)
      BY <1>10 DEF AdviceQueriesOf
    <2>2. CountedQueries(d) /\ e.num_advice_queries = d.num_advice_queries
      BY <1>1, <1>10 DEF Systems
    <2> QED
      BY <2>1, <2>2 DEF CountedQueries
  <1> QED
    BY <1>10, <1>11, <1>12, <1>13, <1>14 DEF Systems

(* The conversion replaces cells by cells: every length stays what it is,  *)
(* and with the lengths the degree, the chunks and the blinding factors.   *)
LEMMA LengthsKept ==
  ASSUME NEW polys, NEW other, DOMAIN other = DOMAIN polys,
         \A i \in DOMAIN polys : Len(other[i]) = Len(polys[i])
  PROVE  LengthsOf(other) = LengthsOf(polys)
  BY DEF LengthsOf

LEMMA SizesKept ==
  ASSUME NEW c, Configuration(c), NEW e, e = Converted(c)
  PROVE  /\ Degree(e) = Degree(c) /\ BlindingFactors(e) = BlindingFactors(c)
         /\ LookupsCounted(c) => LookupsCounted(e)
         /\ ChunksPanic(e) => ChunksPanic(c)
  <1> DEFINE q == WithSelectorQueries(c).queries["fixed"]
  <1>1. ConvertedFrom(c, q, e)
    BY ConvertedSystem
  <1> HIDE DEF q
  <1>2. ASSUME NEW polys \in Seq(PolyType), \A cell \in CellsIn(ToSet(polys)) : IsLoose(c, cell)
        PROVE  /\ LengthsOf(FixedPolys(c, q, polys)) = LengthsOf(polys)
               /\ Len(FixedPolys(c, q, polys)) = Len(polys)
    BY <1>2, FixedPolynomials, LengthsKept DEF q
  <1>3. \A cell : IsNamed(c, cell) => IsLoose(c, cell)
    BY DEF IsLoose
  <1>4. GateDegrees(e) = GateDegrees(c)
    <2>1. \A g \in ToSet(c.gates) : LengthsOf(FixedPolys(c, q, g.polys)) = LengthsOf(g.polys)
      BY <1>2, <1>3, PartsNamed DEF GateType
    <2>2. \A i \in DOMAIN c.gates : LengthsOf(e.gates[i].polys) = LengthsOf(c.gates[i].polys)
      <3> TAKE i \in DOMAIN c.gates
      <3>1. c.gates[i] \in ToSet(c.gates)
        BY DEF ToSet
      <3>2. e.gates[i] = FixedGate(c, q, c.gates[i])
        BY <1>1 DEF ConvertedFrom
      <3>3. e.gates[i].polys = FixedPolys(c, q, c.gates[i].polys)
        BY <3>2 DEF FixedGate
      <3> QED
        BY <2>1, <3>1, <3>3
    <2>3. /\ GateDegrees(e) = UNION {LengthsOf(e.gates[i].polys) : i \in DOMAIN e.gates}
          /\ GateDegrees(c) = UNION {LengthsOf(c.gates[i].polys) : i \in DOMAIN c.gates}
      BY DEF GateDegrees, LengthsOf, ToSet
    <2> QED
      BY <1>1, <2>2, <2>3 DEF ConvertedFrom
  <1>5. TrashDegrees(e) = TrashDegrees(c)
    <2>1. \A t \in ToSet(c.trashcans) :
             LengthsOf(FixedPolys(c, q, t.constraints)) = LengthsOf(t.constraints)
      BY <1>2, PartsNamed DEF TrashType
    <2>2. \A i \in DOMAIN c.trashcans :
             LengthsOf(e.trashcans[i].constraints) = LengthsOf(c.trashcans[i].constraints)
      <3> TAKE i \in DOMAIN c.trashcans
      <3>1. c.trashcans[i] \in ToSet(c.trashcans)
        BY DEF ToSet
      <3>2. e.trashcans[i] = FixedTrash(c, q, c.trashcans[i])
        BY <1>1 DEF ConvertedFrom
      <3>3. e.trashcans[i].constraints = FixedPolys(c, q, c.trashcans[i].constraints)
        BY <3>2 DEF FixedTrash
      <3> QED
        BY <2>1, <3>1, <3>3
    <2>3. ASSUME NEW x
          PROVE  TrashDegrees(x) =
                     UNION {{2} \cup LengthsOf(x.trashcans[i].constraints) : i \in DOMAIN x.trashcans}
      <3>1. TrashDegrees(x) = UNION {{2} \cup LengthsOf(t.constraints) : t \in ToSet(x.trashcans)}
        BY DEF TrashDegrees, LengthsOf
      <3>2. {{2} \cup LengthsOf(t.constraints) : t \in ToSet(x.trashcans)}
                = {{2} \cup LengthsOf(x.trashcans[i].constraints) : i \in DOMAIN x.trashcans}
        BY DEF ToSet
      <3> QED
        BY <3>1, <3>2
    <2>4. {{2} \cup LengthsOf(e.trashcans[i].constraints) : i \in DOMAIN e.trashcans}
              = {{2} \cup LengthsOf(c.trashcans[i].constraints) : i \in DOMAIN c.trashcans}
      BY <1>1, <2>2 DEF ConvertedFrom
    <2> QED
      BY <2>3, <2>4
  <1>6. DegreeWithoutLookup(e) = DegreeWithoutLookup(c)
    BY <1>1, <1>4, <1>5 DEF DegreeWithoutLookup, ConvertedFrom
  <1>7. ASSUME NEW i \in DOMAIN c.lookups
        PROVE  /\ LookupDegree(e.lookups[i]) = LookupDegree(c.lookups[i])
               /\ AccumulatorDegree(e.lookups[i]) = AccumulatorDegree(c.lookups[i])
               /\ Len(e.lookups[i].inputs) = Len(c.lookups[i].inputs)
    <2> DEFINE l == c.lookups[i]
               m == e.lookups[i]
    <2>1. /\ l \in LookupType
          /\ \A cell \in CellsIn(ToSet(l.inputs)) \cup ToSet(l.table) \cup ToSet(l.selector) :
                IsLoose(c, cell)
      BY <1>3, PartsNamed DEF ToSet
    <2>2. m = FixedLookup(c, q, l)
      BY <1>1 DEF ConvertedFrom
    <2> HIDE DEF l, m
    <2>3. l.inputs \in Seq(PolyType) /\ l.table \in PolyType /\ l.selector \in PolyType
      BY <2>1 DEF LookupType
    <2>4. LengthsOf(m.inputs) = LengthsOf(l.inputs) /\ Len(m.inputs) = Len(l.inputs)
      BY <1>2, <2>1, <2>2, <2>3 DEF FixedLookup
    <2>5. /\ Len(FixedPoly(c, q, l.table)) = Len(l.table)
          /\ Len(FixedPoly(c, q, l.selector)) = Len(l.selector)
      BY <2>1, <2>3, FixedPolynomial DEF q
    <2>6. m.inputs \in Seq(PolyType)
      BY <2>1, <2>2, <2>3, FixedPolynomials DEF FixedLookup, q
    <2>7. m.inputs = <<>> <=> l.inputs = <<>>
      BY <2>3, <2>4, <2>6, EmptySeq
    <2>8. LookupDegree(m) = LookupDegree(l)
      BY <2>4, <2>7 DEF LookupDegree, LengthsOf
    <2>9. AccumulatorDegree(m) = AccumulatorDegree(l)
      BY <2>2, <2>5 DEF AccumulatorDegree, FixedLookup
    <2> QED
      BY <2>4, <2>8, <2>9 DEF l, m
  <1>8. \A i \in DOMAIN c.lookups : \A d :
           /\ ParallelLookupsPerChunk(e.lookups[i], d) = ParallelLookupsPerChunk(c.lookups[i], d)
           /\ DegreeBatched(e.lookups[i], d) = DegreeBatched(c.lookups[i], d)
    BY <1>7 DEF ParallelLookupsPerChunk, DegreeBatched
  <1>9. Degree(e) = Degree(c)
    <2> DEFINE d == DegreeWithoutLookup(c)
    <2>1. {DegreeBatched(l, d) : l \in ToSet(e.lookups)}
              = {DegreeBatched(l, d) : l \in ToSet(c.lookups)}
      <3>1. /\ {DegreeBatched(l, d) : l \in ToSet(e.lookups)}
                   = {DegreeBatched(e.lookups[i], d) : i \in DOMAIN e.lookups}
            /\ {DegreeBatched(l, d) : l \in ToSet(c.lookups)}
                   = {DegreeBatched(c.lookups[i], d) : i \in DOMAIN c.lookups}
        BY DEF ToSet
      <3>2. \A i \in DOMAIN c.lookups : DegreeBatched(e.lookups[i], d) = DegreeBatched(c.lookups[i], d)
        BY <1>8
      <3>3. DOMAIN e.lookups = DOMAIN c.lookups
        BY <1>1 DEF ConvertedFrom
      <3> HIDE DEF d
      <3> QED
        BY <3>1, <3>2, <3>3
    <2> QED
      BY <1>6, <2>1 DEF Degree
  <1>10. TotalChunks(e) = TotalChunks(c)
    <2>1. \A i \in DOMAIN c.lookups : NumChunks(e, e.lookups[i]) = NumChunks(c, c.lookups[i])
      BY <1>7, <1>8, <1>9 DEF NumChunks
    <2>2. [i \in DOMAIN e.lookups |-> NumChunks(e, e.lookups[i])]
              = [i \in DOMAIN c.lookups |-> NumChunks(c, c.lookups[i])]
      BY <1>1, <2>1 DEF ConvertedFrom
    <2> QED
      BY <2>2 DEF TotalChunks
  <1>11. MostAdviceQueries(e) = MostAdviceQueries(c) /\ Len(e.trashcans) = Len(c.trashcans)
    BY <1>1 DEF MostAdviceQueries, ConvertedFrom
  <1>12. LookupsCounted(c) => LookupsCounted(e)
    BY <1>1, <1>7 DEF LookupsCounted, ConvertedFrom, ToSet
  <1>13. ChunksPanic(e) => ChunksPanic(c)
    <2>1. DOMAIN e.lookups = DOMAIN c.lookups
      BY <1>1 DEF ConvertedFrom
    <2>2. ASSUME NEW i \in DOMAIN c.lookups
          PROVE  /\ LookupDegree(e.lookups[i]) = LookupDegree(c.lookups[i])
                 /\ ParallelLookupsPerChunk(e.lookups[i], Degree(e))
                        = ParallelLookupsPerChunk(c.lookups[i], Degree(c))
      BY <1>7, <1>8, <1>9
    <2>3. ASSUME NEW x
          PROVE  ChunksPanic(x) <=>
                     \E i \in DOMAIN x.lookups :
                         \/ LookupDegree(x.lookups[i]) = 0
                         \/ ParallelLookupsPerChunk(x.lookups[i], Degree(x)) = 0
      BY DEF ChunksPanic, ToSet
    <2> QED
      BY <2>1, <2>2, <2>3
  <1> QED
    BY <1>9, <1>10, <1>11, <1>12, <1>13 DEF BlindingFactors

(* Where the cells of a converted system come from.                        *)
LEMMA ConvertedPolynomials ==
  ASSUME NEW c, Configuration(c), NEW e, e = Converted(c),
         NEW q, q = WithSelectorQueries(c).queries["fixed"]
  PROVE  /\ \A f \in CellsIn(Polynomials(e)) :
               \E cell : IsNamed(c, cell) /\ f = ConvertedCell(c, q, cell)
         /\ \A f \in CellsIn(TrashPolynomials(e)) :
               \E cell : IsLoose(c, cell) /\ f = ConvertedCell(c, q, cell)
         /\ \A g \in ToSet(e.gates) : \A f \in CellsIn(ToSet(g.polys)) :
               \E cell : /\ IsNamed(c, cell) /\ f = ConvertedCell(c, q, cell)
                         /\ cell.kind = "selector" => NumFixed + cell.column \in g.queried_selectors
  <1> DEFINE w == WithSelectorQueries(c).queries["fixed"]
  <1>0. q = w
    OBVIOUS
  <1>1. ConvertedFrom(c, q, e) /\ c.num_fixed_columns = NumFixed
    BY ConvertedSystem DEF Configuration
  <1>2. \A cell : IsNamed(c, cell) => IsLoose(c, cell)
    BY DEF IsLoose
  <1>3. ASSUME NEW polys \in Seq(PolyType), \A cell \in CellsIn(ToSet(polys)) : IsLoose(c, cell),
               NEW f \in CellsIn(ToSet(FixedPolys(c, q, polys)))
        PROVE  \E cell \in CellsIn(ToSet(polys)) : f = ConvertedCell(c, q, cell)
    BY <1>0, <1>3, FixedPolynomials
  <1>4. ASSUME NEW g \in ToSet(e.gates), NEW f \in CellsIn(ToSet(g.polys))
        PROVE  \E cell : /\ IsNamed(c, cell) /\ f = ConvertedCell(c, q, cell)
                         /\ cell.kind = "selector" => NumFixed + cell.column \in g.queried_selectors
    <2>1. PICK i \in DOMAIN c.gates : g = FixedGate(c, q, c.gates[i])
      BY <1>1 DEF ToSet, ConvertedFrom
    <2> DEFINE h == c.gates[i]
    <2>2. /\ h \in GateType /\ \A cell \in CellsIn(ToSet(h.polys)) : IsNamed(c, cell)
          /\ SelectorsIn(h.polys) \subseteq h.queried_selectors
      BY PartsNamed DEF ToSet
    <2>3. g = FixedGate(c, q, h)
      BY <2>1
    <2> HIDE DEF h
    <2>4. g.polys = FixedPolys(c, q, h.polys)
      BY <2>3 DEF FixedGate
    <2>5. g.queried_selectors = {s + NumFixed : s \in h.queried_selectors}
      BY <1>1, <2>3 DEF FixedGate
    <2>6. h.polys \in Seq(PolyType) /\ h.queried_selectors \in SUBSET Nat
      BY <2>2 DEF GateType
    <2>7. PICK cell \in CellsIn(ToSet(h.polys)) : f = ConvertedCell(c, q, cell)
      BY <1>2, <1>3, <2>2, <2>4, <2>6
    <2>8. IsNamed(c, cell)
      BY <2>2
    <2>9. ASSUME cell.kind = "selector"
          PROVE  NumFixed + cell.column \in g.queried_selectors
      <3>1. cell.column \in SelectorsIn(h.polys)
        BY <2>9 DEF SelectorsIn
      <3>2. cell.column \in Nat /\ NumFixed \in Nat
        BY <2>2, <2>6, <3>1, ConfigurationAssumption
      <3>3. NumFixed + cell.column = cell.column + NumFixed
        BY <3>2
      <3> QED
        BY <2>2, <2>5, <3>1, <3>3
    <2> QED
      BY <2>7, <2>8, <2>9
  <1>5. ASSUME NEW p \in GatePolynomials(e), NEW f \in ToSet(p)
        PROVE  \E cell : IsNamed(c, cell) /\ f = ConvertedCell(c, q, cell)
    <2>1. PICK g \in ToSet(e.gates) : p \in ToSet(g.polys)
      BY DEF GatePolynomials
    <2>2. f \in CellsIn(ToSet(g.polys))
      BY <2>1 DEF CellsIn
    <2> QED
      BY <1>4, <2>2
  <1>6. ASSUME NEW p \in LookupPolynomials(e), NEW f \in ToSet(p)
        PROVE  \E cell : IsNamed(c, cell) /\ f = ConvertedCell(c, q, cell)
    <2>1. PICK l \in ToSet(e.lookups) : p \in ToSet(l.inputs) \cup {l.table, l.selector}
      BY DEF LookupPolynomials
    <2>2. PICK i \in DOMAIN c.lookups : l = FixedLookup(c, q, c.lookups[i])
      BY <1>1 DEF ToSet, ConvertedFrom
    <2> DEFINE m == c.lookups[i]
    <2>3. /\ m \in LookupType
          /\ \A cell \in CellsIn(ToSet(m.inputs)) \cup ToSet(m.table) \cup ToSet(m.selector) :
                IsNamed(c, cell)
      BY PartsNamed DEF ToSet
    <2>4. l = FixedLookup(c, q, m)
      BY <2>2
    <2> HIDE DEF m
    <2>5. m.inputs \in Seq(PolyType) /\ m.table \in PolyType /\ m.selector \in PolyType
      BY <2>3 DEF LookupType
    <2>6. /\ l.inputs = FixedPolys(c, q, m.inputs) /\ l.table = FixedPoly(c, q, m.table)
          /\ l.selector = FixedPoly(c, q, m.selector)
      BY <2>4 DEF FixedLookup
    <2>7. CASE p \in ToSet(l.inputs)
      <3>1. f \in CellsIn(ToSet(FixedPolys(c, q, m.inputs)))
        BY <2>6, <2>7 DEF CellsIn
      <3> QED
        BY <1>2, <1>3, <2>3, <2>5, <3>1
    <2>8. ASSUME NEW r \in PolyType, \A cell \in ToSet(r) : IsNamed(c, cell),
                 p = FixedPoly(c, q, r)
          PROVE  \E cell : IsNamed(c, cell) /\ f = ConvertedCell(c, q, cell)
      <3>1. \A cell \in ToSet(r) : IsLoose(c, cell)
        BY <1>2, <2>8
      <3>2. \A g \in ToSet(FixedPoly(c, q, r)) : \E cell \in ToSet(r) : g = ConvertedCell(c, q, cell)
        BY <1>0, <3>1, FixedPolynomial
      <3>3. f \in ToSet(FixedPoly(c, q, r))
        BY <2>8
      <3> QED
        BY <2>8, <3>2, <3>3
    <2>9. CASE p = l.table \/ p = l.selector
      BY <2>3, <2>5, <2>6, <2>8, <2>9
    <2> QED
      BY <2>1, <2>7, <2>9
  <1>7. ASSUME NEW p \in TrashPolynomials(e), NEW f \in ToSet(p)
        PROVE  \E cell : IsLoose(c, cell) /\ f = ConvertedCell(c, q, cell)
    <2>1. PICK t \in ToSet(e.trashcans) : p \in ToSet(t.constraints) \cup {<<t.selector>>}
      BY DEF TrashPolynomials
    <2>2. PICK i \in DOMAIN c.trashcans : t = FixedTrash(c, q, c.trashcans[i])
      BY <1>1 DEF ToSet, ConvertedFrom
    <2> DEFINE u == c.trashcans[i]
    <2>3. /\ u \in TrashType /\ IsLoose(c, u.selector)
          /\ \A cell \in CellsIn(ToSet(u.constraints)) : IsLoose(c, cell)
      BY PartsNamed DEF ToSet
    <2>4. t = FixedTrash(c, q, u)
      BY <2>2
    <2> HIDE DEF u
    <2>5. /\ u.constraints \in Seq(PolyType) /\ t.constraints = FixedPolys(c, q, u.constraints)
          /\ t.selector = ConvertedCell(c, q, u.selector)
      BY <2>3, <2>4 DEF FixedTrash, TrashType
    <2>6. CASE p \in ToSet(t.constraints)
      <3>1. f \in CellsIn(ToSet(FixedPolys(c, q, u.constraints)))
        BY <2>5, <2>6 DEF CellsIn
      <3> QED
        BY <1>3, <2>3, <2>5, <3>1
    <2>7. CASE p = <<t.selector>>
      <3>1. f = t.selector
        BY <2>7 DEF ToSet
      <3> QED
        BY <2>3, <2>5, <3>1
    <2> QED
      BY <2>1, <2>6, <2>7
  <1>8. \A f \in CellsIn(Polynomials(e)) :
           \E cell : IsNamed(c, cell) /\ f = ConvertedCell(c, q, cell)
    BY <1>5, <1>6 DEF CellsIn, Polynomials
  <1>9. \A f \in CellsIn(TrashPolynomials(e)) :
           \E cell : IsLoose(c, cell) /\ f = ConvertedCell(c, q, cell)
    BY <1>7 DEF CellsIn
  <1> QED
    BY <1>4, <1>8, <1>9

(* The columns of the converted simple selectors.                          *)
SimpleFlags(c) == {i \in DOMAIN c.selector_flags : c.selector_flags[i].simple}

LEMMA SimpleSelectors ==
  ASSUME NEW c, Configuration(c), NEW d, d = WithSelectorQueries(c), NEW e, e = Converted(c)
  PROVE  /\ SimpleFlags(e) = SimpleFlags(c)
         /\ SimpleColumns(e) = {NumFixed + (i - 1) : i \in SimpleFlags(c)}
         /\ \A i \in SimpleFlags(c) : i - 1 \in 0 .. NumSelectors(c) - 1
         /\ IsFiniteSet(SimpleFlags(c))
  <1>1. /\ ConvertedFrom(c, d.queries["fixed"], e) /\ c.num_fixed_columns = NumFixed
        /\ NumFixed \in Nat /\ c.selector_flags \in Seq(FlagType)
    BY ConvertedSystem, SystemFields, ConfigurationAssumption DEF Configuration, Systems
  <1>2. /\ DOMAIN c.selector_flags = 1 .. NumSelectors(c) /\ NumSelectors(c) \in Nat
        /\ \A i \in DOMAIN c.selector_flags : c.selector_flags[i] \in FlagType
    BY <1>1, LenProperties, ElementsTyped DEF NumSelectors
  <1>3. ASSUME NEW i \in DOMAIN c.selector_flags
        PROVE  /\ e.selector_flags[i].simple <=> c.selector_flags[i].simple
               /\ c.selector_flags[i].simple => e.selector_flags[i].col_idx = NumFixed + (i - 1)
    <2> DEFINE f == c.selector_flags[i]
    <2>1. f \in FlagType /\ e.selector_flags[i] = FixedFlag(c, f, i)
      BY <1>1, <1>2 DEF ConvertedFrom
    <2>2. FixedColumnOf(c, i - 1) = NumFixed + (i - 1)
      BY <1>1 DEF FixedColumnOf
    <2> HIDE DEF f
    <2>3. /\ FixedFlag(c, f, i).simple <=> f.simple
          /\ f.simple => FixedFlag(c, f, i).col_idx = NumFixed + (i - 1)
      BY <2>1, <2>2 DEF FixedFlag, FlagType
    <2> QED
      BY <2>1, <2>3 DEF f
  <1>4. DOMAIN e.selector_flags = DOMAIN c.selector_flags
    BY <1>1 DEF ConvertedFrom
  <1>5. SimpleFlags(e) = SimpleFlags(c)
    BY <1>3, <1>4 DEF SimpleFlags
  <1>6. SimpleColumns(e) = {e.selector_flags[i].col_idx : i \in SimpleFlags(e)}
    BY DEF SimpleColumns, SimpleFlags, ToSet
  <1>7. \A i \in SimpleFlags(c) : e.selector_flags[i].col_idx = NumFixed + (i - 1)
    BY <1>3 DEF SimpleFlags
  <1>8. SimpleColumns(e) = {NumFixed + (i - 1) : i \in SimpleFlags(c)}
    BY <1>5, <1>6, <1>7
  <1>9. SimpleFlags(c) \subseteq 1 .. NumSelectors(c)
    BY <1>2 DEF SimpleFlags
  <1>10. \A i \in SimpleFlags(c) : i - 1 \in 0 .. NumSelectors(c) - 1
    BY <1>2, <1>9
  <1>11. IsFiniteSet(SimpleFlags(c))
    <2>1. IsFiniteSet(1 .. NumSelectors(c))
      BY <1>2, FS_Interval
    <2> QED
      BY <1>9, <2>1, FS_Subset
  <1> QED
    BY <1>5, <1>8, <1>10, <1>11

LEMMA SimpleColumnsCounted ==
  ASSUME NEW c, Configuration(c), NEW e, e = Converted(c)
  PROVE  Cardinality(SimpleColumns(e)) = Cardinality(SimpleFlags(e))
  <1> DEFINE S == SimpleFlags(c)
             T == SimpleColumns(e)
             f == [i \in S |-> NumFixed + (i - 1)]
  <1>1. /\ SimpleFlags(e) = S /\ T = {NumFixed + (i - 1) : i \in S} /\ IsFiniteSet(S)
        /\ \A i \in S : i - 1 \in 0 .. NumSelectors(c) - 1
    BY SimpleSelectors
  <1>2. NumFixed \in Nat /\ S \subseteq Nat
    <2>1. c.selector_flags \in Seq(FlagType)
      BY SystemFields DEF Configuration, Systems
    <2>2. DOMAIN c.selector_flags \subseteq Nat
      BY <2>1, LenProperties
    <2> QED
      BY <2>2, ConfigurationAssumption DEF SimpleFlags
  <1> HIDE DEF S, T
  <1>3. f \in [S -> T]
    BY <1>1
  <1>4. \A i, j \in S : f[i] = f[j] => i = j
    BY <1>2
  <1>5. \A t \in T : \E i \in S : f[i] = t
    BY <1>1
  <1>6. f \in Bijection(S, T)
    <2> HIDE DEF f
    <2> QED
      BY <1>3, <1>4, <1>5 DEF Bijection, Injection, Surjection, IsInjective
  <1>7. ExistsBijection(S, T)
    BY <1>6 DEF ExistsBijection
  <1> QED
    BY <1>1, <1>7, FS_Bijection DEF S, T

LEMMA SimpleColumnsQueriedOnce ==
  ASSUME NEW c, Configuration(c), NEW e, e = Converted(c), NEW col \in SimpleColumns(e)
  PROVE  Cardinality({i \in DOMAIN e.queries["fixed"] : e.queries["fixed"][i][1] = col}) = 1
  <1> DEFINE d == WithSelectorQueries(c)
             s == e.queries["fixed"]
             S == {i \in DOMAIN s : s[i][1] = col}
  <1>1. e \in Systems /\ e.queries = d.queries
    BY ConvertedSystem
  <1>2. PICK n \in SimpleFlags(c) : col = NumFixed + (n - 1) /\ n - 1 \in 0 .. NumSelectors(c) - 1
    BY SimpleSelectors
  <1>3. /\ <<col, 0>> \in ToSet(s)
        /\ \A query \in ToSet(s) : query[1] < NumFixed \/ query[2] = 0
        /\ NumSelectors(c) \in Nat /\ NumFixed \in Nat
    BY <1>1, <1>2, SelectorQueries, ConfigurationAssumption
  <1>4. \A i, j \in DOMAIN s : s[i] = s[j] => i = j
    BY <1>1 DEF Systems, DistinctQueries, Kinds
  <1>5. s \in Seq(QueryType)
    BY <1>1, SystemFields DEF Systems, Kinds
  <1>6. PICK i \in DOMAIN s : s[i] = <<col, 0>>
    BY <1>3 DEF ToSet
  <1>7. ASSUME NEW j \in DOMAIN s, s[j][1] = col
        PROVE  j = i
    <2>1. s[j] \in QueryType /\ s[j] \in ToSet(s)
      BY <1>5, ElementsTyped DEF ToSet
    <2>2. ~ (col < NumFixed)
      BY <1>2, <1>3
    <2>3. s[j][2] = 0
      BY <1>3, <1>7, <2>1, <2>2
    <2>4. s[j] = <<col, 0>>
      BY <1>7, <2>1, <2>3 DEF QueryType
    <2> QED
      BY <1>4, <1>6, <2>4
  <1> HIDE DEF s
  <1>8. S = {i}
    <2>1. s[i][1] = col
      BY <1>6
    <2> QED
      BY <1>7, <2>1
  <1> HIDE DEF S
  <1>9. Cardinality(S) = 1
    BY <1>8, FS_Singleton
  <1> QED
    BY <1>9 DEF S, s

(* What keygen needs of the converted system, as the invariants put it.    *)
LEMMA KeygenTracked ==
  ASSUME NEW c, Configuration(c), NEW e, e = Converted(c)
  PROVE  /\ \A f \in CellsIn(Polynomials(e)) :
               /\ f \in CellType /\ f.kind \in Kinds
               /\ f.index \in DOMAIN e.queries[f.kind] /\ e.queries[f.kind][f.index] = QueryOf(f)
         /\ \A f \in CellsIn(TrashPolynomials(e)) :
               /\ f \in CellType /\ f.kind \in Kinds
               /\ \/ f.index \in DOMAIN e.queries[f.kind] /\ e.queries[f.kind][f.index] = QueryOf(f)
                  \/ f.index = Unresolved
         /\ \A g \in ToSet(e.gates) : \A p \in ToSet(g.polys) : \A f \in ToSet(p) :
               f.kind = "fixed" /\ f.column \in SimpleColumns(e) => f.column \in g.queried_selectors
  <1> DEFINE d == WithSelectorQueries(c)
             q == d.queries["fixed"]
  <1>1. e.queries = d.queries /\ d = WithSelectorQueries(c)
    BY ConvertedSystem
  <1>2. /\ \A f \in CellsIn(Polynomials(e)) :
              \E cell : IsNamed(c, cell) /\ f = ConvertedCell(c, q, cell)
        /\ \A f \in CellsIn(TrashPolynomials(e)) :
              \E cell : IsLoose(c, cell) /\ f = ConvertedCell(c, q, cell)
        /\ \A g \in ToSet(e.gates) : \A f \in CellsIn(ToSet(g.polys)) :
              \E cell : /\ IsNamed(c, cell) /\ f = ConvertedCell(c, q, cell)
                        /\ cell.kind = "selector" => NumFixed + cell.column \in g.queried_selectors
    BY ConvertedPolynomials
  <1>3. ASSUME NEW cell, IsNamed(c, cell), NEW f, f = ConvertedCell(c, q, cell)
        PROVE  /\ f \in CellType /\ f.kind \in Kinds
               /\ f.index \in DOMAIN d.queries[f.kind] /\ d.queries[f.kind][f.index] = QueryOf(f)
               /\ f.kind = "fixed" => \/ f.column < NumFixed
                                      \/ cell.kind = "selector" /\ f.column = NumFixed + cell.column
    BY <1>3, ConvertedCells
  <1>4. ASSUME NEW cell, IsLoose(c, cell), NEW f, f = ConvertedCell(c, q, cell)
        PROVE  /\ f \in CellType /\ f.kind \in Kinds
               /\ \/ f.index \in DOMAIN d.queries[f.kind] /\ d.queries[f.kind][f.index] = QueryOf(f)
                  \/ f.index = Unresolved
    BY <1>4, LooseCells
  <1> HIDE DEF d, q
  <1>5. \A f \in CellsIn(Polynomials(e)) :
           /\ f \in CellType /\ f.kind \in Kinds
           /\ f.index \in DOMAIN e.queries[f.kind] /\ e.queries[f.kind][f.index] = QueryOf(f)
    BY <1>1, <1>2, <1>3
  <1>6. \A f \in CellsIn(TrashPolynomials(e)) :
           /\ f \in CellType /\ f.kind \in Kinds
           /\ \/ f.index \in DOMAIN e.queries[f.kind] /\ e.queries[f.kind][f.index] = QueryOf(f)
              \/ f.index = Unresolved
    BY <1>1, <1>2, <1>4
  <1>7. ASSUME NEW g \in ToSet(e.gates), NEW p \in ToSet(g.polys), NEW f \in ToSet(p),
               f.kind = "fixed", f.column \in SimpleColumns(e)
        PROVE  f.column \in g.queried_selectors
    <2>1. f \in CellsIn(ToSet(g.polys))
      BY DEF CellsIn
    <2>2. PICK cell : /\ IsNamed(c, cell) /\ f = ConvertedCell(c, q, cell)
                      /\ cell.kind = "selector" => NumFixed + cell.column \in g.queried_selectors
      BY <1>2, <2>1
    <2>3. \/ f.column < NumFixed
          \/ cell.kind = "selector" /\ f.column = NumFixed + cell.column
      BY <1>3, <1>7, <2>2
    <2>4. PICK n \in SimpleFlags(c) :
              f.column = NumFixed + (n - 1) /\ n - 1 \in 0 .. NumSelectors(c) - 1
      BY <1>1, <1>7, SimpleSelectors
    <2>5. ~ (f.column < NumFixed)
      <3>1. n - 1 \in Nat /\ NumFixed \in Nat
        BY <2>4, ConfigurationAssumption
      <3> QED
        BY <2>4, <3>1
    <2> QED
      BY <2>2, <2>3, <2>5
  <1> QED
    BY <1>5, <1>6, <1>7

LEMMA KeygenSizes ==
  ASSUME IInv, Keygen
  PROVE  /\ PhaseOK' /\ ConversionKeepsSizes' /\ DegreeCovers'
  <1> DEFINE e == Converted(cs)
             b == BlindingFactors(cs)
             D == Degree(cs)
  <1>1. /\ Configuration(cs) /\ cs \in SystemType /\ ~ ChunksPanic(cs) /\ b + 3 <= N
        /\ cs' = e /\ phase' = "keyed" /\ circuit' = circuit /\ ncalls' = ncalls
        /\ quotient_degree' = D - 1 /\ usable_rows' = N - (b + 1)
    BY DEF IInv, Keygen, Configured, Configuration, Systems, MinimumRows
  <1>2. LookupsCounted(cs) /\ b \in Nat
    BY <1>1, ChunksCounted, Blinding
  <1>3. D \in Nat /\ D >= 3
    BY <1>1, <1>2, SystemDegree
  <1>4. e \in SystemType
    BY <1>1, ConvertedSystem DEF Systems
  <1>5. Degree(e) = D /\ BlindingFactors(e) = b /\ LookupsCounted(e)
    BY <1>1, <1>2, SizesKept
  <1>6. /\ \A d \in GateDegrees(e) \cup TrashDegrees(e) : d <= D
        /\ \A l \in ToSet(e.lookups) :
              /\ 1 + LookupDegree(l) * ParallelLookupsPerChunk(l, D) <= D
              /\ AccumulatorDegree(l) <= D
    BY <1>4, <1>5, DegreeIsEnough
  <1> HIDE DEF e, b, D
  <1>7. /\ quotient_degree' \in Nat /\ quotient_degree' >= 2 /\ quotient_degree' + 1 = D
        /\ usable_rows' \in 0 .. N /\ usable_rows' >= 2
    BY <1>1, <1>2, <1>3, ConfigurationAssumption
  <1>8. PhaseOK'
    <2>1. ncalls' \in 0 .. Len(circuit'.calls)
      BY <1>1 DEF IInv, PhaseOK
    <2> QED
      BY <1>1, <1>7, <2>1 DEF PhaseOK
  <1>9. ConversionKeepsSizes'
    BY <1>1, <1>5 DEF ConversionKeepsSizes
  <1>10. DegreeCovers'
    BY <1>1, <1>5, <1>6, <1>7 DEF DegreeCovers
  <1> QED
    BY <1>8, <1>9, <1>10

LEMMA KeygenKept ==
  ASSUME IInv, Keygen
  PROVE  IInv'
  <1> DEFINE e == Converted(cs)
  <1>1. Configuration(cs) /\ cs' = e /\ phase' = "keyed" /\ circuit' = circuit
    BY DEF IInv, Keygen, Configured
  <1>2. e \in Systems
    BY <1>1, ConvertedSystem
  <1>3. /\ \A f \in CellsIn(Polynomials(e)) :
              /\ f \in CellType /\ f.kind \in Kinds
              /\ f.index \in DOMAIN e.queries[f.kind] /\ e.queries[f.kind][f.index] = QueryOf(f)
        /\ \A f \in CellsIn(TrashPolynomials(e)) :
              /\ f \in CellType /\ f.kind \in Kinds
              /\ \/ f.index \in DOMAIN e.queries[f.kind] /\ e.queries[f.kind][f.index] = QueryOf(f)
                 \/ f.index = Unresolved
        /\ \A g \in ToSet(e.gates) : \A p \in ToSet(g.polys) : \A f \in ToSet(p) :
              f.kind = "fixed" /\ f.column \in SimpleColumns(e) => f.column \in g.queried_selectors
    BY <1>1, KeygenTracked
  <1>4. /\ \A col \in SimpleColumns(e) :
              Cardinality({i \in DOMAIN e.queries["fixed"] : e.queries["fixed"][i][1] = col}) = 1
        /\ Cardinality(SimpleColumns(e)) = Cardinality(SimpleFlags(e))
    BY <1>1, SimpleColumnsQueriedOnce, SimpleColumnsCounted
  <1> HIDE DEF e
  <1>5. CellsIn(Polynomials(e) \cup TrashPolynomials(e))
            = CellsIn(Polynomials(e)) \cup CellsIn(TrashPolynomials(e))
    BY DEF CellsIn
  <1>6. IndicesAreOfTheirQueries'
    BY <1>1, <1>3 DEF IndicesAreOfTheirQueries, Resolved, QueryOf
  <1>7. SelectorsAreTracked'
    <2>1. \A f \in CellsIn(Polynomials(e) \cup TrashPolynomials(e)) : f.kind \in Kinds
      BY <1>3, <1>5
    <2>2. \A g \in ToSet(e.gates) : \A p \in ToSet(g.polys) :
             {cell.column : cell \in {d \in ToSet(p) : d.kind = "fixed" /\ d.column \in SimpleColumns(e)}}
                 \subseteq g.queried_selectors
      BY <1>3
    <2> QED
      BY ZenonT(40), <1>1, <1>4, <2>1, <2>2 DEF SelectorsAreTracked, SimpleFlags
  <1>8. CellsIn(Polynomials(e) \cup TrashPolynomials(e)) \subseteq CellType
    BY <1>3, <1>5
  <1> QED
    BY <1>1, <1>2, <1>6, <1>7, <1>8, KeygenSizes DEF IInv, QueriesAreTracked

-----------------------------------------------------------------------------
LEMMA ConfiguredKept ==
  ASSUME IInv, Configuring, Configuration(cs'), FlagsOfCircuit(cs'), ncalls' = ncalls + 1,
         UNCHANGED <<circuit, usable_rows, quotient_degree, phase>>
  PROVE  IInv'
  <1>1. phase' = "configure" /\ circuit' = circuit /\ ncalls' \in 0 .. Len(circuit'.calls)
    BY CircuitFields DEF Configuring
  <1>2. PhaseOK'
    BY <1>1 DEF IInv, PhaseOK
  <1>3. cs' \in Systems /\ FlagsOfCircuit(cs)'
    BY <1>1 DEF Configuration, FlagsOfCircuit
  <1> QED
    BY <1>1, <1>2, <1>3 DEF IInv

LEMMA StoppedKept ==
  ASSUME IInv, phase = "configure", phase' \in {"refused", "panicked"},
         UNCHANGED <<circuit, cs, ncalls, usable_rows, quotient_degree>>
  PROVE  IInv'
  <1>1. PhaseOK'
    BY DEF IInv, PhaseOK
  <1>2. Configuration(cs)' /\ FlagsOfCircuit(cs)'
    BY DEF IInv, FlagsOfCircuit
  <1> QED
    BY <1>1, <1>2 DEF IInv

LEMMA InitInvariant ==
  ASSUME InitConfiguration
  PROVE  IInv
  <1>1. circuit \in Circuits /\ circuit.selectors \in Seq(BOOLEAN) /\ Len(circuit.calls) \in Nat
    BY CircuitsAssumption DEF InitConfiguration
  <1>2. Configuration(cs) /\ FlagsOfCircuit(cs)
    BY <1>1, EmptyIsConfiguration DEF InitConfiguration, FlagsOfCircuit
  <1>3. PhaseOK
    BY <1>1, ConfigurationAssumption DEF InitConfiguration, PhaseOK
  <1> QED
    BY <1>1, <1>2, <1>3 DEF InitConfiguration, IInv, Configuration

LEMMA NextInvariant ==
  ASSUME IInv, [NextConfiguration]_csVars
  PROVE  IInv'
  <1>1. CASE EnableEquality
    <2>1. /\ Configuring /\ Configure(EqualityEnabled(cs, Call.column))
          /\ Call.column \in Kinds \X Nat /\ Call.column[2] \in Columns(Call.column[1])
      BY <1>1, CircuitFields DEF EnableEquality, Calling, IsCall
    <2>2. /\ Configuration(EqualityEnabled(cs, Call.column))
          /\ EqualityEnabled(cs, Call.column).selector_flags = cs.selector_flags
      BY <2>1, CircuitFields, EqualityKept
    <2> QED
      BY <2>1, <2>2, CircuitFields, ConfiguredKept DEF Configure, FlagsOfCircuit
  <1>2. CASE EnableConstant
    <2> DEFINE column == Call.column
               d == [cs EXCEPT !.constants = Append(@, column)]
    <2>1. /\ Configuring /\ column \in {"fixed"} \X Columns("fixed")
          /\ Configure(IF Contains(cs.constants, column) THEN cs ELSE EqualityEnabled(d, column))
      BY <1>2, CircuitFields DEF EnableConstant, Calling, IsCall
    <2>2. Configuration(cs) /\ FlagsOfCircuit(cs)
      BY <2>1, CircuitFields
    <2>3. /\ Configuration(d) /\ d.selector_flags = cs.selector_flags
          /\ column \in Kinds \X Nat /\ column[2] \in Columns(column[1])
      BY <2>1, <2>2, ConstantKept
    <2> HIDE DEF column, d
    <2>4. /\ Configuration(EqualityEnabled(d, column))
          /\ EqualityEnabled(d, column).selector_flags = cs.selector_flags
      BY <2>3, EqualityKept
    <2> QED
      BY <2>1, <2>2, <2>4, ConfiguredKept DEF Configure, FlagsOfCircuit
  <1>3. CASE CreateGate
    BY <1>3, GateKept, ConfiguredKept DEF CreateGate, Calling, Configure
  <1>4. CASE CreateAdditiveGate
    BY <1>4, AdditiveGateKept, ConfiguredKept DEF CreateAdditiveGate, Calling, Configure
  <1>5. CASE BatchedLookup
    <2>1. Configuring /\ phase = "configure"
      BY <1>5 DEF BatchedLookup, Calling, Configuring
    <2>2. CASE phase' = phase
      <3>1. /\ ncalls' = ncalls + 1
            /\ UNCHANGED <<circuit, usable_rows, quotient_degree, phase>>
        BY <1>5, <2>1, <2>2 DEF BatchedLookup, Configure, Panic
      <3> QED
        BY <1>5, <2>1, <2>2, <3>1, LookupKept, ConfiguredKept
    <2>3. CASE phase' # phase
      <3>1. Panic
        BY <1>5, <2>3 DEF BatchedLookup, Configure
      <3> QED
        BY <2>1, <3>1, StoppedKept DEF Panic
    <2> QED
      BY <2>2, <2>3
  <1>6. CASE SetMinimumDegree
    <2> DEFINE d == [cs EXCEPT !.minimum_degree = Call.degree]
    <2>1. Configuring /\ Call.degree \in Nat /\ Configure(d)
      BY <1>6, CircuitFields DEF SetMinimumDegree, Calling, IsCall
    <2>2. Configuration(cs) /\ FlagsOfCircuit(cs)
      BY <2>1, CircuitFields
    <2>3. Configuration(d) /\ d.selector_flags = cs.selector_flags
      BY <2>1, <2>2, MinimumDegreeKept
    <2> HIDE DEF d
    <2> QED
      BY <2>1, <2>2, <2>3, ConfiguredKept DEF Configure, FlagsOfCircuit
  <1>7. CASE KeygenPanics
    BY <1>7, StoppedKept DEF KeygenPanics, Configured, Panic
  <1>8. CASE KeygenRefuses
    BY <1>8, StoppedKept DEF KeygenRefuses, Configured
  <1>9. CASE Keygen
    BY <1>9, KeygenKept
  <1>10. CASE EmptyGate
    BY <1>10, StoppedKept DEF EmptyGate, Configuring, Panic
  <1>11. CASE UNCHANGED csVars
    BY <1>11 DEF csVars, IInv, PhaseOK, FlagsOfCircuit, QueriesAreTracked, IndicesAreOfTheirQueries,
                 SelectorsAreTracked, Resolved, ConversionKeepsSizes, DegreeCovers
  <1> QED
    BY <1>1, <1>2, <1>3, <1>4, <1>5, <1>6, <1>7, <1>8, <1>9, <1>10, <1>11 DEF NextConfiguration

LEMMA InvariantTyped ==
  ASSUME IInv
  PROVE  ConfigurationTypeOK
  <1>1. cs \in Systems /\ cs \in SystemType /\ PhaseOK
    BY DEF IInv, Systems
  <1>2. /\ cs.num_advice_queries \in [0 .. NumAdvice - 1 -> Nat]
        /\ \A kind \in Kinds : \A q \in ToSet(cs.queries[kind]) : q[1] \in Nat /\ q[2] \in Int
    <2>1. cs.num_advice_queries \in [0 .. NumAdvice - 1 -> Nat] /\ cs.queries \in [Kinds -> Seq(QueryType)]
      BY <1>1, SystemFields
    <2>2. ASSUME NEW kind \in Kinds, NEW q \in ToSet(cs.queries[kind])
          PROVE  q[1] \in Nat /\ q[2] \in Int
      <3>1. q \in QueryType
        BY <2>1, ElementsTyped
      <3> QED
        BY <3>1 DEF QueryType
    <2> QED
      BY <2>1, <2>2
  <1>3. CellsIn(Polynomials(cs) \cup TrashPolynomials(cs)) \subseteq CellType
    <2>1. CASE phase = "keyed"
      BY <2>1 DEF IInv
    <2>2. CASE phase # "keyed"
      <3>1. PolynomialsNamed(cs) /\ TrashNamed(cs)
        BY <2>2 DEF IInv, Configuration
      <3>2. \A cell \in CellsIn(Polynomials(cs)) \cup CellsIn(TrashPolynomials(cs)) : cell \in CellType
        BY <3>1 DEF PolynomialsNamed, TrashNamed, IsNamed
      <3> QED
        BY <3>2 DEF CellsIn
    <2> QED
      BY <2>1, <2>2
  <1> QED
    BY <1>1, <1>2, <1>3 DEF ConfigurationTypeOK, PhaseOK

LEMMA InvariantTracked ==
  ASSUME IInv
  PROVE  QueriesAreTracked
  <1>1. CASE phase = "keyed"
    BY <1>1 DEF IInv
  <1>2. CASE phase # "keyed"
    <2>1. PolynomialsNamed(cs) /\ TrashNamed(cs)
      BY <1>2 DEF IInv, Configuration
    <2>2. \A cell : IsNamed(cs, cell) /\ cell.kind # "selector" => Resolved(cell)
      BY DEF IsNamed, Resolved, QueryOf
    <2>3. IndicesAreOfTheirQueries
      BY <2>1, <2>2 DEF IndicesAreOfTheirQueries, PolynomialsNamed, TrashNamed
    <2> QED
      BY <1>2, <2>3 DEF QueriesAreTracked, SelectorsAreTracked
  <1> QED
    BY <1>1, <1>2

LEMMA InvariantBlinded ==
  ASSUME IInv
  PROVE  EveryEvaluationBlinded
  <1>1. cs \in SystemType /\ DistinctQueries(cs) /\ CountedQueries(cs)
    BY DEF IInv, Systems
  <1>2. ASSUME ~ ChunksPanic(cs), NEW col \in 0 .. NumAdvice - 1
        PROVE  Cardinality({q \in ToSet(cs.queries["advice"]) : q[1] = col}) + 1 < BlindingFactors(cs)
    <2> DEFINE n == cs.num_advice_queries[col]
               b == BlindingFactors(cs)
    <2>1. n \in Nat /\ Cardinality({q \in ToSet(cs.queries["advice"]) : q[1] = col}) = n
      BY <1>1, SystemFields DEF CountedQueries, AdviceQueriesOf
    <2>2. b \in Nat /\ n + 3 <= b
      BY <1>1, <1>2, Blinding
    <2> HIDE DEF n, b
    <2>3. n + 1 < b
      BY <2>1, <2>2
    <2> QED
      BY <2>1, <2>3 DEF b
  <1> QED
    BY <1>1, <1>2 DEF EveryEvaluationBlinded, DistinctQueries

LEMMA InvariantSized ==
  ASSUME IInv
  PROVE  ConversionKeepsSizes /\ DegreeCovers
  BY DEF IInv, ConversionKeepsSizes, DegreeCovers

-----------------------------------------------------------------------------
LEMMA AlwaysInvariant == SpecConfiguration => []IInv
  <1>1. InitConfiguration => IInv
    BY InitInvariant
  <1>2. IInv /\ [NextConfiguration]_csVars => IInv'
    BY NextInvariant
  <1> QED
    BY <1>1, <1>2, PTL DEF SpecConfiguration

(* Whatever a circuit calls while it is configured, the system it leaves   *)
(* is well formed and, once keyed, leaves at least two usable rows and a   *)
(* quotient of degree two (circuit.rs, keygen.rs).                         *)
THEOREM SystemTypeCorrect == SpecConfiguration => []ConfigurationTypeOK
  BY AlwaysInvariant, InvariantTyped, PTL

(* Every cell a polynomial keeps, however many queries, gates, lookups and *)
(* conversions later, is found under the index of its own query, and every *)
(* simple selector under a column queried once that its gates name         *)
(* (query_cells, directly_convert_selectors_to_fixed).                     *)
THEOREM QueriesStayTracked == SpecConfiguration => []QueriesAreTracked
  BY AlwaysInvariant, InvariantTracked, PTL

(* In every circuit the blinding factors outnumber the evaluations of each *)
(* advice column, the one at x_3 included (blinding_factors).              *)
THEOREM EvaluationsBlinded == SpecConfiguration => []EveryEvaluationBlinded
  BY AlwaysInvariant, InvariantBlinded, PTL

(* The usable rows and the degree keygen computes before the selectors are *)
(* converted are those the prover and the verifier compute afterwards      *)
(* (keygen_vk_with_k, from_parts).                                         *)
THEOREM ConversionKeepsSystemSizes == SpecConfiguration => []ConversionKeepsSizes
  BY AlwaysInvariant, InvariantSized, PTL

(* The degree keygen sizes the quotient by is one that no gate, trash      *)
(* argument, helper of a chunk of lookups or accumulator exceeds, although *)
(* it is computed from the degree without lookups and the chunks are cut   *)
(* by the degree with them (degree, degree_batched_argument).              *)
THEOREM DegreeAlwaysCovers == SpecConfiguration => []DegreeCovers
  BY AlwaysInvariant, InvariantSized, PTL
=============================================================================
