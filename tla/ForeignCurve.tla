----------------------------- MODULE ForeignCurve -----------------------------
(***************************************************************************)
(* The chip for curves y^2 = x^3 + A x + B over a foreign field            *)
(* (circuits/src/ecc/foreign/weierstrass_chip.rs and common.rs), at the    *)
(* level of field elements: ForeignField and its gates show that its       *)
(* coordinates and its gates are exact.                                    *)
(*                                                                         *)
(* A state is one assignment of the cells of a circuit that the            *)
(* constraints so far admit, which is the honest one only by chance: an    *)
(* operation yields every point its constraints leave free.  The           *)
(* coordinates of an identity, and slopes, are free.                       *)
(***************************************************************************)
EXTENDS Integers, FiniteSets, Sequences, SequencesExt, ChipCalls

CONSTANTS BaseModulus,          \* of the coordinates
          A, B,                 \* of the curve
          Order, COFACTOR,      \* of the subgroup, and its index
          Generator,            \* coordinates of a point of that order
          BaseZeta, ScalarZeta, \* ScalarZeta * (x, y) = (BaseZeta * x, y)
          WS,                   \* bits of a window
          ShortBits,            \* 128 in the code: bits of n in mul_by_u128
          FreeCoordinates,      \* bound: values of coordinates left free
          Randomness,           \* bound: points the prover may take for r
          MaxPoints             \* bound: points of a circuit

VARIABLES points,       \* assigned points
          lookup,       \* rows of the dynamic lookup: <<tag, index, x, y>>
          tag_cnt,
          randomness    \* msm_randomness: {} or {r}

curveVars == <<points, lookup, tag_cnt, randomness, call>>

F         == 0 .. BaseModulus - 1
bits(n)   == Cardinality({i \in 0 .. 20 : 2 ^ i <= n})
NUM_BITS  == bits(Order)
div_ceil(a, b) == (a + b - 1) \div b
Then(S, op(_)) == UNION {op(s) : s \in S}
IsBit(b)  == IF b THEN 1 ELSE 0

Point(is_id, x, y) == [is_id |-> is_id, x |-> x, y |-> y]
Identity == Point(1, 0, 0)
Affine(xy) == Point(0, xy[1], xy[2])
OnCurve(x, y) == ((y * y - x * x * x - A * x - B) % BaseModulus) = 0
Garbage == {Point(1, x, y) : x \in FreeCoordinates, y \in FreeCoordinates}
-----------------------------------------------------------------------------
(* The gates, for some slope l.                                            *)
SlopesThrough ==
    [d \in F \X F |-> {l \in F : ((d[2] - l * d[1]) % BaseModulus) = 0}]
assert_slope(px, py, qx, qy) ==
    SlopesThrough[<<(qx - px) % BaseModulus, (qy - py) % BaseModulus>>]
TangentSlopes ==
    [p \in F \X F |-> {l \in F : ((3 * p[1] * p[1] + A - 2 * p[2] * l) % BaseModulus) = 0}]
assert_tangent(px, py) == TangentSlopes[<<px, py>>]

(* The rx of lambda_squared, and the ry that puts -r on the line.          *)
ThirdOf(p, q, lambda) ==
    LET rx == (lambda * lambda - p.x - q.x) % BaseModulus
    IN  <<rx, (lambda * (p.x - rx) - p.y) % BaseModulus>>
assert_double(p) == {ThirdOf(p, p, l) : l \in assert_tangent(p.x, p.y)}
assert_add(p, q) == {ThirdOf(p, q, l) : l \in assert_slope(p.x, p.y, q.x, q.y)}
-----------------------------------------------------------------------------
assign_point_unchecked == Garbage \cup {Affine(<<x, y>>) : x \in FreeCoordinates, y \in FreeCoordinates}
assign_without_subgroup_check(subset) ==
    Garbage \cup {p \in {Affine(xy) : xy \in subset} : OnCurve(p.x, p.y)}
assign_fixed(p) == p

(* r is free where no condition reaches it.                                *)
add(p, q) ==
    LET opposite == p.x = q.x /\ ((p.y + q.y) % BaseModulus) = 0
        doubled  == {Affine(xy) : xy \in assert_double(p)}
        added    == {Affine(xy) : xy \in assert_add(p, q)}
        none_is_id(r) == p.is_id = 0 /\ q.is_id = 0 /\ r.is_id = 0
    IN  {r \in {p, q} \cup doubled \cup added \cup assign_point_unchecked :
           /\ p.is_id = 1 => r = q
           /\ q.is_id = 1 => r = p
           /\ r.is_id = IsBit(opposite)
           /\ p.x = q.x /\ p.y = q.y /\ none_is_id(r) => r \in doubled
           /\ p.x # q.x /\ none_is_id(r) => r \in added}
double(p) == IF p.is_id = 1 THEN Garbage ELSE {Affine(xy) : xy \in assert_double(p)}
negate(p) == [p EXCEPT !.y = (-p.y) % BaseModulus]
select(cond, p, q) == IF cond = 1 THEN p ELSE q
incomplete_add(p, q) == {Point(p.is_id, xy[1], xy[2]) : xy \in assert_add(p, q)}
incomplete_assert_different_x(p, q) == p.x # q.x

assert_equal(p, q) == p = q
is_equal(p, q)     == /\ p.is_id = q.is_id
                      /\ (p.x = q.x /\ p.y = q.y) \/ (p.is_id = 1 /\ q.is_id = 1)
is_equal_to_fixed(p, k) ==
    IF k = Identity THEN p.is_id = 1 ELSE p.x = k.x /\ p.y = k.y /\ p.is_id = 0
as_public_input(p) == <<p.x, p.y, p.is_id>>
point_from_coordinates(x, y) == {p \in {Affine(<<x, y>>)} : OnCurve(x, y)}

(* Double and add, from the low bits: pairs of the sum, if any, and 2^i p. *)
mul_by_u128(n, p) ==
    IF n = 0 THEN {Identity}
    ELSE LET steps[i \in 0 .. bits(n) - 1] ==
                 LET doubled == IF i = 0 THEN {<<<<>>, p>>}
                                ELSE Then(steps[i - 1], LAMBDA s : {<<s[1], t>> : t \in double(s[2])})
                 IN  IF (n \div 2 ^ i) % 2 = 0 THEN doubled
                     ELSE Then(doubled, LAMBDA s :
                                 IF s[1] = <<>> THEN {<<<<s[2]>>, s[2]>>}
                                 ELSE {<<<<r>>, s[2]>> : r \in incomplete_add(s[1][1], s[2])})
         IN  {s[1][1] : s \in steps[bits(n) - 1]}
-----------------------------------------------------------------------------
(* Multi-scalar multiplication.  A state of the lookup is a record: the    *)
(* rows, the next tag and the randomness of the circuit.                   *)
SumsOf(a, b) == {[cell |-> <<>>, point |-> r] : r \in add(a.point, b.point)}
Common == INSTANCE ForeignCommon WITH Sum <- SumsOf
(* The coordinates of a row, at no identity.                               *)
MultiSelect(rows, index, tag) == {Affine(<<p.x, p.y>>) : p \in Common!multi_select(rows, index, tag)}
Tables(rows, tag, r) == [rows |-> rows, tag |-> tag, r |-> r]

(* -alpha, p - alpha, 2 p - alpha, ...                                     *)
TablesOf(neg_alpha, p) ==
    LET next[k \in 0 .. 2 ^ WS - 1] ==
            IF k = 0 THEN IF incomplete_assert_different_x(neg_alpha, p) THEN {<<neg_alpha>>} ELSE {}
            ELSE Then(next[k - 1], LAMBDA t : {Append(t, r) : r \in incomplete_add(Last(t), p)})
    IN  next[2 ^ WS - 1]

msm_randomness(r) == {[r |-> r, neg_alpha |-> negate(alpha)] : alpha \in mul_by_u128(2 ^ WS - 1, r)}

MutNextTag(tag, bases) == tag + 1
NextTag(tag, bases) == tag + Len(bases)

(* chunks[j]: the windows of the j-th scalar, little-endian.               *)
windowed_msm(tables, chunks, bases) ==
    LET nb      == Len(bases)
        max_len == CHOOSE n \in {Len(chunks[j]) : j \in 1 .. nb} : \A j \in 1 .. nb : Len(chunks[j]) <= n
        padded(j, i) == IF i <= Len(chunks[j]) THEN chunks[j][i] ELSE 0
        loaded(neg_alpha) ==
            LET upto[j \in 0 .. nb] ==
                    IF j = 0 THEN {tables.rows}
                    ELSE Then(upto[j - 1], LAMBDA rows :
                                {Common!load_multi_select_table(rows, t, tables.tag + j - 1) :
                                   t \in TablesOf(neg_alpha, bases[j])})
            IN  upto[nb]
        accumulated(l_times_r, rows) ==
            LET doubles(a) == FoldLeft(LAMBDA S, n : Then(S, double), {a}, [n \in 1 .. WS |-> n])
                after[n \in 0 .. max_len * nb] ==
                    IF n = 0 THEN {l_times_r}
                    ELSE LET j == ((n - 1) % nb) + 1
                             i == max_len - ((n - 1) \div nb)
                         IN  Then(IF j = 1 THEN Then(after[n - 1], doubles) ELSE after[n - 1],
                                  LAMBDA acc :
                                    Then({a \in MultiSelect(rows, padded(j, i), tables.tag + j - 1) :
                                            incomplete_assert_different_x(acc, a)},
                                         LAMBDA a : incomplete_add(acc, a)))
            IN  after[max_len * nb]
        from(r) ==
            UNION {UNION {{[point |-> p, tables |-> Tables(rows, NextTag(tables.tag, bases), {r})] :
                             p \in Then(accumulated(l_times_r, rows),
                                        LAMBDA acc : add(acc, negate(l_times_r)))} :
                            rows \in loaded(m.neg_alpha)} :
                   l_times_r \in mul_by_u128(nb, r), m \in msm_randomness(r)}
    IN  IF nb = 0 THEN {[point |-> Identity, tables |-> tables]}
        ELSE IF \E j \in 1 .. nb : bases[j].is_id = 1 THEN {}
        ELSE Then(IF tables.r # {} THEN tables.r ELSE {p \in Randomness : p.is_id = 0}, from)
-----------------------------------------------------------------------------
(* The halves of x, up to signs that are free.                             *)
nb_bits_per_glv_scalar == div_ceil(NUM_BITS, 2)
Term(value, bound, point) == [value |-> value, bound |-> bound, point |-> point]
glv_split(x, base) ==
    LET zeta_p == [base EXCEPT !.x = (BaseZeta * base.x) % BaseModulus]
        signed(s, n) == IF s = 1 THEN n ELSE -n
    IN  {<<Term(x1, nb_bits_per_glv_scalar, select(s1, base, negate(base))),
           Term(x2, nb_bits_per_glv_scalar, select(s2, zeta_p, negate(zeta_p)))>> :
           <<s1, s2, x1, x2>> \in
              {v \in {0, 1} \X {0, 1} \X (0 .. Order - 1) \X (0 .. 2 ^ (WS * div_ceil(nb_bits_per_glv_scalar, WS)) - 1) :
                 v[3] = signed(v[1], x - ScalarZeta * signed(v[2], v[4])) % Order}}

(* The chunks of any integer below 2^(WS n) that has the value of x.       *)
assigned_to_le_chunks(x, n) ==
    {[i \in 1 .. n |-> (v \div 2 ^ (WS * (i - 1))) % 2 ^ WS] :
       v \in {w \in {x + k * Order : k \in 0 .. (2 ^ (WS * n)) \div Order} : w < 2 ^ (WS * n)}}

SplitsOf(scalar, base) ==
    LET b == select(base.is_id, Affine(Generator), base)
        s == IF base.is_id = 1 THEN 0 ELSE scalar.value
    IN  IF scalar.bound > nb_bits_per_glv_scalar + WS
        THEN [glv |-> glv_split(s, b), non_glv |-> {<<>>}]
        ELSE [glv |-> {<<>>}, non_glv |-> {<<Term(s, scalar.bound, b)>>}]
TermsOf(pairs) ==
    FoldLeft(LAMBDA terms, p :
               LET splits == SplitsOf(p.scalar, p.base.point)
               IN  {<<t[1] \o g, t[2] \o n>> : t \in terms, g \in splits.glv, n \in splits.non_glv},
             {<<<<>>, <<>>>>}, pairs)
DecomposedOf(terms) ==
    FoldLeft(LAMBDA done, t : {Append(d, c) : d \in done,
                                c \in assigned_to_le_chunks(t.value, div_ceil(t.bound, WS))},
             {<<>>}, terms)

msm_by_bounded_scalars(tables, pairs) ==
    UNION {LET terms == t[1] \o t[2]
           IN  UNION {UNION {{[res EXCEPT !.point = p.point] : p \in Common!add_1bit_scalar_bases(m.aside, Common!Fresh(res.point))} :
                             res \in windowed_msm(tables, chunks, [i \in DOMAIN terms |-> terms[i].point])} :
                      chunks \in DecomposedOf(terms)} :
           <<m, t>> \in UNION {{<<m, t>> : t \in TermsOf(m.pairs)} : m \in Common!msm_preprocess(pairs)}}

msm_by_le_bits(tables, n, len, base) ==
    windowed_msm(tables,
                 <<[i \in 1 .. div_ceil(len, WS) |-> (n \div 2 ^ (WS * (i - 1))) % 2 ^ WS]>>, <<base>>)

mul_by_constant(tables, n, base) ==
    IF n < 2 ^ ShortBits
    THEN {[point |-> select(base.is_id, Identity, r), tables |-> tables] :
            r \in mul_by_u128(n, select(base.is_id, Affine(Generator), base))}
    ELSE msm_by_le_bits(tables, n, NUM_BITS, base)

assign(tables, subset) ==
    IF COFACTOR > 1
    THEN Then(assign_without_subgroup_check(subset), LAMBDA root : mul_by_constant(tables, COFACTOR, root))
    ELSE {[point |-> p, tables |-> tables] : p \in assign_without_subgroup_check(subset)}

(* The indices are free; differences in range keep them in order.          *)
k_out_of_n_points(tables, table, k) ==
    LET n    == Len(table)
        rows == Common!load_multi_select_table(tables.rows, table, tables.tag)
        idxs == {i \in [1 .. k -> 0 .. n] :
                   \A m \in 1 .. k - 1 : i[m + 1] - i[m] - 1 \in 0 .. 2 ^ bits(n) - 1}
        selections(i) ==
            FoldLeft(LAMBDA seqs, m : {Append(s, p) : s \in seqs, p \in MultiSelect(rows, i[m], tables.tag)},
                     {<<>>}, [m \in 1 .. k |-> m])
    IN  IF \E i \in 1 .. n : table[i].is_id = 1 THEN {}
        ELSE {[points |-> s, tables |-> Tables(rows, tables.tag + 1, tables.r)] :
                s \in UNION {selections(i) : i \in idxs}}
-----------------------------------------------------------------------------
(* The group.                                                              *)
Meaning(p) == IF p.is_id = 1 THEN Identity ELSE p
InverseOf == [d \in F \ {0} |-> CHOOSE n \in F : ((n * d) % BaseModulus) = 1]
GroupAdd(p, q) ==
    IF p = Identity THEN q
    ELSE IF q = Identity THEN p
    ELSE IF p.x = q.x /\ ((p.y + q.y) % BaseModulus) = 0 THEN Identity
    ELSE LET l == IF p.x = q.x
                  THEN (3 * p.x * p.x + A) * InverseOf[(2 * p.y) % BaseModulus]
                  ELSE (q.y - p.y) * InverseOf[(q.x - p.x) % BaseModulus]
         IN  Affine(ThirdOf(p, q, l % BaseModulus))
Times(n, p) == LET t[i \in 0 .. n] == IF i = 0 THEN Identity ELSE GroupAdd(t[i - 1], p) IN t[n]
Subgroup    == {Times(n, Affine(Generator)) : n \in 0 .. Order - 1}
Curve       == {Affine(xy) : xy \in {c \in F \X F : OnCurve(c[1], c[2])}}
ScalarMul == [n \in 0 .. Order * COFACTOR |-> [p \in Curve \cup {Identity} |-> Times(n, p)]]
MeantSum(pairs) ==
    FoldLeft(LAMBDA acc, p : GroupAdd(acc, ScalarMul[p.scalar.value][Meaning(p.base.point)]), Identity, pairs)

(* Calls on points of the circuit.  An honest prover has canonical         *)
(* identities, and randomness to choose.                                   *)
CurveInit ==
    /\ points = <<>> /\ lookup = {} /\ tag_cnt = 1 /\ randomness = {}
    /\ call = NoCall

InCircuit    == Tables(lookup, tag_cnt, randomness)
Canonical(I) == \A i \in I : points[i].point.is_id = 1 => points[i].point = Identity
Open         == Len(points) < MaxPoints /\ (points # <<>> => call.admitted # {})

Yields(results, meant, honest) ==
    /\ Open
    /\ Called({<<Meaning(r.point)>> : r \in results}, {<<m>> : m \in meant}, honest)
    /\ \/ results = {} /\ UNCHANGED <<points, lookup, tag_cnt, randomness>>
       \/ \E r \in results :
             /\ points' = Append(points, Common!Assigned(<<Len(points) + 1>>, r.point))
             /\ lookup' = r.tables.rows /\ tag_cnt' = r.tables.tag /\ randomness' = r.tables.r
Pure(S) == {[point |-> p, tables |-> InCircuit] : p \in S}
Tests(holds, means, honest) ==
    /\ Open /\ UNCHANGED <<points, lookup, tag_cnt, randomness>>
    /\ Called(Holds(holds), Holds(means), honest)
P(i) == points[i].point
M(i) == Meaning(P(i))
Indices == DOMAIN points

AssignUnchecked(subset) ==
    Yields(Pure(assign_without_subgroup_check(subset)),
           {p \in {Affine(xy) : xy \in subset} : p \in Curve} \cup {Identity}, TRUE)
Assign(subset) == Yields(assign(InCircuit, subset), {Times(COFACTOR, p) : p \in {Affine(xy) : xy \in subset} \cap Curve} \cup {Identity}, FALSE)
AssignFixed(p) ==
    /\ Open
    /\ Called({<<p>>}, {<<p>>}, TRUE)
    /\ points' = Append(points, Common!Fixed(p))
    /\ UNCHANGED <<lookup, tag_cnt, randomness>>
AssignAsPublicInput(subset, k) ==
    Yields(Pure({p \in assign_without_subgroup_check(subset) : as_public_input(p) = as_public_input(k)}), {k}, TRUE)

Add(i, j)       == Yields(Pure(add(P(i), P(j))), {GroupAdd(M(i), M(j))}, Canonical({i, j}))
Double(i)       == Yields(Pure(double(P(i))), {GroupAdd(M(i), M(i))}, Canonical({i}))
Negate(i)       == Yields(Pure({negate(P(i))}), {[M(i) EXCEPT !.y = (-@) % BaseModulus]}, Canonical({i}))
Select(b, i, j) == Yields(Pure({select(b, P(i), P(j))}), {IF b = 1 THEN M(i) ELSE M(j)}, Canonical({i, j}))
FromCoordinates(x, y) ==
    Yields(Pure(point_from_coordinates(x, y)), {Affine(<<x, y>>)} \cap Curve, TRUE)
MulByConstant(n, i) ==
    Yields(mul_by_constant(InCircuit, n, P(i)), {ScalarMul[n][M(i)]},
           Canonical({i}) /\ M(i) \in Subgroup /\ randomness = {})
Msm(pairs) ==
    Yields(msm_by_bounded_scalars(InCircuit, pairs), {MeantSum(pairs)},
           /\ randomness = {}
           /\ \A k \in DOMAIN pairs : pairs[k].base.point = Meaning(pairs[k].base.point))
KOutOfN(table, k) ==
    /\ Open
    /\ LET results == k_out_of_n_points(InCircuit, [n \in DOMAIN table |-> P(table[n])], k)
           chosen  == {c \in [1 .. k -> DOMAIN table] : \A m \in 1 .. k - 1 : c[m] < c[m + 1]}
       IN  /\ Called({[m \in DOMAIN r.points |-> Meaning(r.points[m])] : r \in results},
                     IF \E n \in DOMAIN table : M(table[n]) = Identity THEN {}
                     ELSE {[m \in 1 .. k |-> M(table[c[m]])] : c \in chosen},
                     TRUE)
           /\ \/ results = {} /\ UNCHANGED <<points, lookup, tag_cnt, randomness>>
              \/ \E r \in results :
                   /\ points' = Append(points, Common!Assigned(<<Len(points) + 1>>, Last(r.points)))
                   /\ lookup' = r.tables.rows /\ tag_cnt' = r.tables.tag /\ UNCHANGED randomness

AssertEqual(i, j)    == Tests(assert_equal(P(i), P(j)), M(i) = M(j), Canonical({i, j}))
IsEqual(i, j)        == Tests(is_equal(P(i), P(j)), M(i) = M(j), TRUE)
AssertNotEqual(i, j) == Tests(~is_equal(P(i), P(j)), M(i) # M(j), TRUE)
IsEqualToFixed(i, k) == Tests(is_equal_to_fixed(P(i), k), M(i) = k, TRUE)
AssertNonZero(i)     == Tests(P(i).is_id = 0, M(i) # Identity, TRUE)
ConstrainAsPublicInput(i, k) ==
    Tests(as_public_input(P(i)) = as_public_input(k), M(i) = k, Canonical({i}))

=============================================================================
