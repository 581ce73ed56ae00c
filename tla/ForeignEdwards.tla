---------------------------- MODULE ForeignEdwards ----------------------------
(***************************************************************************)
(* The chip for twisted Edwards curves over a foreign field                *)
(* (circuits/src/ecc/foreign/edwards_chip.rs), at the level of field       *)
(* elements.  Every point it makes is on the curve, where its addition law *)
(* is complete; what is to be got right are the tables, the windows and    *)
(* the columns of the multi-scalar multiplications, the subgroup, and      *)
(* what is computed off-circuit because its cells are known constants.     *)
(***************************************************************************)
EXTENDS EdwardsGroup, ChipCalls

CONSTANTS WS,           \* bits of a window
          W             \* teeth of the comb

VARIABLES points,       \* assigned points
          lookup,       \* rows of the dynamic lookup: <<tag, index, point>>
          tag_cnt

edwardsVars == <<points, lookup, tag_cnt, call>>

Then(S, op(_)) == UNION {op(s) : s \in S}
bits(n)        == Cardinality({i \in 0 .. 20 : 2 ^ i <= n})
NUM_BITS       == bits(Order)
div_ceil(a, b) == (a + b - 1) \div b
Smaller(a, b)  == IF a < b THEN a ELSE b
Downto(n)      == [i \in 1 .. n |-> n + 1 - i]
-----------------------------------------------------------------------------
Fresh(p)  == [cell |-> <<>>, point |-> p]
Fixed(p)  == [cell |-> <<-1, p>>, point |-> p]
as_known_constant(a) == a = Fixed(a.point)
SameCells(a, b) == a.cell # <<>> /\ a.cell = b.cell

assert_addition_coordinate(n, w) == {r \in F : Residue(r * (1 + w) - n) = 0}
Satisfying(rx, ry, w) ==
    {Fresh(<<x, y>>) : x \in assert_addition_coordinate(rx, w), y \in assert_addition_coordinate(ry, -w)}
double(a) ==
    IF as_known_constant(a) THEN {Fixed(GroupAdd(a.point, a.point))}
    ELSE LET x == a.point[1]
             y == a.point[2]
         IN  Satisfying(2 * x * y, y * y - A * x * x, Residue(A * x * x + y * y - 1))
add(a, b) ==
    IF SameCells(a, b) THEN double(a)
    ELSE IF as_known_constant(a) /\ as_known_constant(b) THEN {Fixed(GroupAdd(a.point, b.point))}
    ELSE LET p == a.point
             q == b.point
         IN  Satisfying(p[1] * q[2] + p[2] * q[1], p[2] * q[2] - A * p[1] * q[1],
                        Residue(D * Residue(p[1] * q[1]) * Residue(p[2] * q[2])))
negate(a) == IF as_known_constant(a) THEN Fixed(GroupNegate(a.point)) ELSE Fresh(GroupNegate(a.point))
select(cond, a, b) == Fresh(IF cond = 1 THEN a.point ELSE b.point)

(* Double and add, from the low bits: pairs of the sum, if any, and 2^i a. *)
mul_by_constant(n, a) ==
    IF n = 0 THEN {Fixed(Identity)}
    ELSE IF n = 1 THEN {a}
    ELSE IF as_known_constant(a) THEN {Fixed(Times(n, a.point))}
    ELSE LET with(s, i) == IF (n \div 2 ^ i) % 2 = 0 THEN {s}
                           ELSE IF s[1] = <<>> THEN {<<<<s[2]>>, s[2]>>}
                           ELSE {<<<<r>>, s[2]>> : r \in add(s[1][1], s[2])}
             steps[i \in 0 .. bits(n) - 1] ==
                 IF i = 0 THEN with(<<<<>>, a>>, 0)
                 ELSE Then(steps[i - 1], LAMBDA s : Then(double(s[2]), LAMBDA d : with(<<s[1], d>>, i)))
         IN  {s[1][1] : s \in steps[bits(n) - 1]}

assert_on_curve(p) == OnCurve(p)
assign_point_unchecked == F \X F
assign_without_subgroup_check == {Fresh(p) : p \in {q \in assign_point_unchecked : assert_on_curve(q)}}
assign == Then(assign_without_subgroup_check, LAMBDA root : mul_by_constant(COFACTOR, root))
point_from_coordinates(x, y)  == {a \in assign : a.point = <<x, y>>}

to_canonical_compressed_bytes(a) == a.point[2] + 2 ^ bits(BaseModulus) * (a.point[1] % 2)
from_canonical_compressed_bytes(bytes) == {a \in assign : to_canonical_compressed_bytes(a) = bytes}
-----------------------------------------------------------------------------
(* Multi-scalar multiplications.                                           *)
Common == INSTANCE ForeignCommon WITH Sum <- add
Tables(rows, tag) == [rows |-> rows, tag |-> tag]
Loaded(tables, table) ==
    Tables(Common!load_multi_select_table(tables.rows, [i \in DOMAIN table |-> table[i].point], tables.tag),
           tables.tag + 1)
Selected(tables, index, tag) == {Fresh(p) : p \in Common!multi_select(tables.rows, index, tag)}

(* The canonical bits of a scalar, where they are no more than its bound.  *)
assigned_to_le_bits(s) ==
    LET n == Smaller(s.bound, NUM_BITS)
    IN  IF s.value < 2 ^ n THEN {[i \in 1 .. n |-> (s.value \div 2 ^ (i - 1)) % 2]} ELSE {}
FromBits(le_bits) == FoldRight(LAMBDA b, n : 2 * n + b, le_bits, 0)
Windows(le_bits) ==
    [w \in 1 .. div_ceil(Len(le_bits), WS) |->
       FromBits(SubSeq(le_bits, WS * (w - 1) + 1, Smaller(WS * w, Len(le_bits))))]
BitsOf(scalars) ==
    FoldLeft(LAMBDA seqs, s : {Append(q, b) : q \in seqs, b \in assigned_to_le_bits(s)}, {<<>>}, scalars)

precompute(base) ==
    LET table[i \in 1 .. 2 ^ WS - 1] ==
            IF i = 1 THEN {<<Fixed(Identity), base>>}
            ELSE Then(table[i - 1], LAMBDA t :
                        {Append(t, e) : e \in IF i % 2 = 0 THEN double(t[(i \div 2) + 1]) ELSE add(Last(t), base)})
    IN  table[2 ^ WS - 1]

MaxOfLengths(seqs) == FoldLeft(LAMBDA n, s : IF Len(s) > n THEN Len(s) ELSE n, 0, seqs)
windowed_msm(tables, windows, bases) ==
    LET doubles(res) == FoldLeft(LAMBDA S, n : Then(S, double), {res}, Downto(WS))
        addend(all, w, i, res) ==
            IF w > Len(windows[i]) THEN {res}
            ELSE Then(Selected(all, windows[i][w], tables.tag + i - 1), LAMBDA a : add(res, a))
        column(all, w, start) ==
            FoldLeft(LAMBDA S, i : Then(S, LAMBDA res : addend(all, w, i, res)), start, [i \in DOMAIN bases |-> i])
        results(all, nb) ==
            FoldLeft(LAMBDA S, w : column(all, w, IF w < nb THEN Then(S, doubles) ELSE S),
                     {Fixed(Identity)}, Downto(nb))
    IN  UNION {{[point |-> r, tables |-> all] : r \in results(all, MaxOfLengths(windows))} :
                 all \in FoldLeft(LAMBDA S, base : Then(S, LAMBDA t : {Loaded(t, table) : table \in precompute(base)}),
                                  {tables}, bases)}

msm_by_bounded_scalars(tables, pairs) ==
    UNION {UNION {UNION {{[res EXCEPT !.point = p] : p \in Common!add_1bit_scalar_bases(m.aside, res.point)} :
                         res \in windowed_msm(tables, [i \in DOMAIN le_bits |-> Windows(le_bits[i])],
                                              [i \in DOMAIN m.pairs |-> m.pairs[i].base])} :
                  le_bits \in BitsOf([i \in DOMAIN m.pairs |-> m.pairs[i].scalar])} :
           m \in Common!msm_preprocess(pairs)}

(* Column i of the W x d bits of a scalar: those of weight 2^i.            *)
Column(le_bits, d, i) ==
    FromBits([j \in 1 .. W |-> IF (j - 1) * d + i <= Len(le_bits) THEN le_bits[(j - 1) * d + i] ELSE 0])
CombTable(base_val, d) ==
    [e \in 1 .. 2 ^ W |->
       Fixed(Times(FoldLeft(LAMBDA coeff, j : coeff + (((e - 1) \div 2 ^ j) % 2) * 2 ^ (j * d), 0,
                            [j \in 1 .. W |-> j - 1]) % Order, base_val))]
fixed_base_comb_msm(tables, scalars, base_vals) ==
    LET d == FoldLeft(LAMBDA n, s : IF div_ceil(s.bound, W) > n THEN div_ceil(s.bound, W) ELSE n, 0, scalars)
        all == FoldLeft(LAMBDA t, b : Loaded(t, CombTable(b, d)), tables, base_vals)
        plus(acc, addend) == IF acc = <<>> THEN {<<addend>>} ELSE {<<r>> : r \in add(acc[1], addend)}
        doubled(acc) == IF acc = <<>> THEN {acc} ELSE {<<r>> : r \in double(acc[1])}
        column(le_bits, i, start) ==
            FoldLeft(LAMBDA S, b :
                       Then(S, LAMBDA acc :
                         Then(Selected(all, Column(le_bits[b], d, i), tables.tag + b - 1), LAMBDA a : plus(acc, a))),
                     start, [b \in DOMAIN base_vals |-> b])
    IN  IF scalars = <<>> THEN {[point |-> Fixed(Identity), tables |-> tables]}
        ELSE {[point |-> acc[1], tables |-> all] :
                acc \in UNION {FoldLeft(LAMBDA S, i : column(le_bits, i, Then(S, doubled)), {<<>>}, Downto(d)) :
                               le_bits \in BitsOf(scalars)}}
-----------------------------------------------------------------------------
(* Calls on the points of a circuit.  The doc of                           *)
(* assign_without_subgroup_check leaves it to the caller to take care of   *)
(* points outside the subgroup: none is a base of an msm.                  *)
configure == legendre(A) = 1 /\ legendre(D) = -1
EdwardsInit ==
    /\ configure
    /\ points = <<>> /\ lookup = {} /\ tag_cnt = 1 /\ call = NoCall

InCircuit == Tables(lookup, tag_cnt)
P(i)      == points[i].point
Named(a)  == IF a.cell = <<>> THEN [a EXCEPT !.cell = <<Len(points) + 1>>] ELSE a
Open      == points # <<>> => call.admitted # {}

Fit(scalars) == \A k \in DOMAIN scalars : scalars[k].value < 2 ^ scalars[k].bound
Bounded(results, meant, honest) ==
    /\ Open
    /\ Called({<<r.point.point>> : r \in results}, {<<m>> : m \in meant}, honest)
    /\ \/ results = {} /\ UNCHANGED <<points, lookup, tag_cnt>>
       \/ \E r \in results : /\ points' = Append(points, Named(r.point))
                             /\ lookup' = r.tables.rows /\ tag_cnt' = r.tables.tag
Yields(results, meant) == Bounded(results, meant, TRUE)
Pure(S) == {[point |-> a, tables |-> InCircuit] : a \in S}
Tests(holds, means) == Open /\ Called(Holds(holds), Holds(means), TRUE) /\ UNCHANGED <<points, lookup, tag_cnt>>

Assign              == Yields(Pure(assign), Subgroup)
AssignFixed(k)      == Yields(Pure({Fixed(k)}), {k})
AssignUnchecked     == Yields(Pure(assign_without_subgroup_check), Curve)
AssignAsPublicInput(k)  == Yields(Pure({a \in assign : a.point = k}), {k} \cap Subgroup)
FromCoordinates(x, y)   == Yields(Pure(point_from_coordinates(x, y)), {<<x, y>>} \cap Subgroup)
Add(i, j)           == Yields(Pure(add(points[i], points[j])), {GroupAdd(P(i), P(j))})
Double(i)           == Yields(Pure(double(points[i])), {GroupAdd(P(i), P(i))})
Negate(i)           == Yields(Pure({negate(points[i])}), {GroupNegate(P(i))})
Select(b, i, j)     == Yields(Pure({select(b, points[i], points[j])}), {IF b = 1 THEN P(i) ELSE P(j)})
MulByConstant(n, i) == Yields(Pure(mul_by_constant(n, points[i])), {Times(n, P(i))})
Msm(pairs) ==
    /\ \A k \in DOMAIN pairs : pairs[k].base.point \in Subgroup
    /\ Bounded(msm_by_bounded_scalars(InCircuit, pairs),
               {SumOfTerms([k \in DOMAIN pairs |-> <<pairs[k].scalar.value, pairs[k].base.point>>])},
               Fit([k \in DOMAIN pairs |-> pairs[k].scalar]))
FixedBaseMsm(scalars, base_vals) ==
    Bounded(fixed_base_comb_msm(InCircuit, scalars, base_vals),
            {SumOfTerms([k \in DOMAIN scalars |-> <<scalars[k].value, base_vals[k]>>])}, Fit(scalars))

(* A point is decoded if it has a square root of the parity that is told.  *)
Compress(i, bytes) ==
    Tests(to_canonical_compressed_bytes(points[i]) = bytes,
          P(i) \in {p \in Curve : p[2] = bytes % 2 ^ bits(BaseModulus) /\ p[1] % 2 = bytes \div 2 ^ bits(BaseModulus)})
Decompress(bytes) ==
    Yields(Pure(from_canonical_compressed_bytes(bytes)),
           {p \in Subgroup : p[2] = bytes % 2 ^ bits(BaseModulus) /\ p[1] % 2 = bytes \div 2 ^ bits(BaseModulus)})

is_equal(a, b) == a.point[1] = b.point[1] /\ a.point[2] = b.point[2]
AssertEqual(i, j)     == Tests(is_equal(points[i], points[j]), P(i) = P(j))
AssertNotEqual(i, j)  == Tests(~is_equal(points[i], points[j]), P(i) # P(j))
IsEqualToFixed(i, k)  == Tests(is_equal(points[i], Fixed(k)), P(i) = k)
IsZero(i)             == IsEqualToFixed(i, Identity)
ConstrainAsPublicInput(i, k) == Tests(P(i) = k, P(i) = k)
=============================================================================
