---------------------------- MODULE NativeEdwards ----------------------------
(***************************************************************************)
(* The chip for the twisted Edwards curve embedded in the native field     *)
(* (circuits/src/ecc/native/edwards_chip.rs), whose A is -1.  Points tell  *)
(* whether they are known to be in the subgroup.  Scalars are their bits,  *)
(* more than the order has where the arithmetic of big integers left them, *)
(* and tell whether they are known to be reduced.  Big integers are exact  *)
(* (BigUint); here they have a value and the bounds of their limbs.        *)
(***************************************************************************)
EXTENDS EdwardsGroup, ChipCalls

CONSTANT LOG2_BASE

VARIABLES points, scalars,
          panicked      \* reading the value of a scalar has panicked

nativeVars == <<points, scalars, panicked, call>>

Bounds   == INSTANCE BigUintBounds
NUM_BITS == Bounds!bits(Order)
Then(S, op(_)) == UNION {op(s) : s \in S}
-----------------------------------------------------------------------------
(* Points.                                                                 *)
Point(xy, in_subgroup) == [xy |-> xy, checked_in_subgroup |-> in_subgroup]
Roots(n, d) == {r \in F : Residue(r * d - n) = 0}
(* R = Q + b S, and R = 2 P.                                               *)
cond_add_gate(q, s, b) ==
    LET w == Residue(b * D * Residue(q[1] * q[2]) * Residue(s[1] * s[2]))
    IN  Roots(q[1] + b * (q[1] * s[2] + s[1] * q[2] - q[1]), 1 + w)
          \X Roots(q[2] + b * (q[2] * s[2] + q[1] * s[1] - q[2]), 1 - w)
double_gate(p) ==
    LET w == Residue(D * Residue(p[1] * p[1]) * Residue(p[2] * p[2]))
    IN  Roots(2 * p[1] * p[2], 1 + w) \X Roots(p[2] * p[2] + p[1] * p[1], 1 - w)
membership_gate(p) == Residue(p[2] * p[2] - p[1] * p[1] - (1 + D * Residue(p[1] * p[1]) * Residue(p[2] * p[2]))) = 0

Both(p, q) == p.checked_in_subgroup /\ q.checked_in_subgroup
cond_add(q, s, b) == {Point(r, Both(q, s)) : r \in cond_add_gate(q.xy, s.xy, b)}
add_then_double(p, q, b) ==
    {Point(r, Both(p, q)) : r \in Then(cond_add_gate(p.xy, q.xy, b), double_gate)}

assign_fixed(k) == Point(k, TRUE)
add(p, q)       == cond_add(p, q, 1)
negate(p)       == Point(GroupNegate(p.xy), p.checked_in_subgroup)
select(c, p, q) == Point(IF c = 1 THEN p.xy ELSE q.xy, Both(p, q))

Bit(n, i) == (n \div 2 ^ i) % 2
mul(s, base) ==
    FoldLeft(LAMBDA accs, i :
               Then(accs, LAMBDA acc : IF i > 0 THEN add_then_double(acc, base, Bit(s.value, i))
                                       ELSE cond_add(acc, base, Bit(s.value, i))),
             {assign_fixed(Identity)}, [i \in 1 .. s.len |-> s.len - i])
(* As many products as there are both scalars and bases.                   *)
msm(ss, bases) ==
    LET n == Bounds!Smaller(Len(ss), Len(bases))
    IN  FoldLeft(LAMBDA accs, i : Then(accs, LAMBDA acc : Then(mul(ss[i], bases[i]), LAMBDA e : add(acc, e))),
                 mul(ss[1], bases[1]), [i \in 1 .. n - 1 |-> i + 1])
-----------------------------------------------------------------------------
(* Scalars.                                                                *)
Scalar(value, len, canonical) == [value |-> value, len |-> len, enforced_canonical |-> canonical]
Big(value, size)              == [value |-> value, size |-> size]
assign_scalar        == {Scalar(v, NUM_BITS, FALSE) : v \in 0 .. 2 ^ NUM_BITS - 1}
assign_fixed_scalar(c) == Scalar(c, Bounds!Larger(Bounds!bits(c), 1), TRUE)
assign_fixed_biguint(c) == Big(c, Bounds!BoundsOf(Bounds!Larger(Bounds!bits(c), 1)))

reduce_biguint_mod_scalar_order(b) ==
    IF Bounds!nb_bits(b.size) < NUM_BITS THEN b ELSE Big(b.value % Order, Bounds!BoundsOf(NUM_BITS))
to_biguint(s) == Big(s.value, Bounds!BoundsOf(s.len))
to_canonical_biguint(s) == IF s.enforced_canonical THEN to_biguint(s) ELSE reduce_biguint_mod_scalar_order(to_biguint(s))
ToLeBits(b, canonical) == Scalar(b.value, LOG2_BASE * Len(b.size), canonical)
from_biguint(b) ==
    IF Bounds!nb_bits(b.size) > NUM_BITS THEN ToLeBits(reduce_biguint_mod_scalar_order(b), TRUE) ELSE ToLeBits(b, FALSE)

BigAdd(a, b) == Big(a.value + b.value, Bounds!NormalizedSize(Bounds!SumSize(a.size, b.size)))
BigMul(a, b) == Big(a.value * b.value, Bounds!NormalizedSize(Bounds!ProductSize(a.size, b.size)))

linear_combination(terms, constant) ==
    from_biguint(FoldLeft(LAMBDA acc, t : BigAdd(acc, BigMul(assign_fixed_biguint(t[1]), to_biguint(t[2]))),
                          assign_fixed_biguint(constant), terms))
add_scalars(r, s) == from_biguint(BigAdd(to_biguint(r), to_biguint(s)))
mul_scalars(r, s, constant) ==
    LET res == BigMul(to_biguint(r), to_biguint(s))
    IN  from_biguint(IF constant = <<>> THEN res ELSE BigMul(res, assign_fixed_biguint(constant[1])))
div(r, s) ==
    {from_biguint(res) :
       res \in {b \in {Big(v, Bounds!BoundsOf(NUM_BITS)) : v \in 0 .. 2 ^ NUM_BITS - 1} :
                  to_biguint(r).value = reduce_biguint_mod_scalar_order(BigMul(b, to_biguint(s))).value}}
is_equal_scalars(r, s) == to_canonical_biguint(r).value = to_canonical_biguint(s).value
is_zero_scalar(s) == is_equal_scalars(s, assign_fixed_scalar(0))
select_scalars(c, r, s) ==
    LET a == to_biguint(r)
        b == to_biguint(s)
        size == [i \in 1 .. Bounds!Larger(Len(a.size), Len(b.size)) |-> Bounds!Larger(Bounds!At(a.size, i), Bounds!At(b.size, i))]
    IN  ToLeBits(Big(IF c = 1 THEN a.value ELSE b.value, size), r.enforced_canonical /\ s.enforced_canonical)
(* The scalar that inv0 inverts, and its inverses or zero.                 *)
Invertible(s) == select_scalars(IF is_zero_scalar(s) THEN 1 ELSE 0, assign_fixed_scalar(1), s)
inv0(s) ==
    {select_scalars(IF is_zero_scalar(s) THEN 1 ELSE 0, assign_fixed_scalar(0), inverse) :
       inverse \in div(assign_fixed_scalar(1), Invertible(s))}
(* from_bits_le asserts that the scalar has no more bits than the field.   *)
ValuePanics(s) == s.len > NUM_BITS

(* Chunks of the bits of a scalar that fit in the native field.            *)
Chunks(value, len) ==
    LET n == Bounds!bits(BaseModulus) - 1
    IN  [i \in 1 .. Bounds!div_ceil(len, n) |-> (value \div 2 ^ (n * (i - 1))) % 2 ^ n]
as_public_input_scalar(s) == Chunks(s.value, s.len)
InstantiableScalar(k)     == Chunks(k, NUM_BITS)
-----------------------------------------------------------------------------
(* The chip on points.                                                     *)
mul_by_constant(n, base) ==
    IF n = 0 THEN {assign_fixed(Identity)}
    ELSE IF n = 1 THEN {base}
    ELSE msm(<<assign_fixed_scalar(n)>>, <<base>>)
\* Called on a point of the subgroup, it is an error.
clear_cofactor(p) ==
    IF p.checked_in_subgroup THEN {} ELSE {Point(r.xy, TRUE) : r \in mul_by_constant(COFACTOR, p)}
point_from_coordinates_unsafe(x, y)  == {Point(xy, FALSE) : xy \in {c \in {<<x, y>>} : membership_gate(c)}}
assign_without_subgroup_check == {Point(p, FALSE) : p \in {c \in F \X F : membership_gate(c)}}
assign                       == Then(assign_without_subgroup_check, clear_cofactor)
point_from_coordinates(x, y) == {p \in assign : p.xy = <<x, y>>}
is_equal(p, q)               == p.xy[1] = q.xy[1] /\ p.xy[2] = q.xy[2]
-----------------------------------------------------------------------------
(* What is claimed of the subgroup, or of a reduced scalar, and does not   *)
(* hold means nothing.                                                     *)
MeaningOf(p)  == IF p.checked_in_subgroup /\ p.xy \notin Subgroup THEN <<>> ELSE p.xy
ScalarMeaning(s) == IF s.value >= 2 ^ s.len \/ (s.enforced_canonical /\ s.value >= Order) THEN -1 ELSE s.value % Order
P(i) == points[i].xy
S(i) == scalars[i].value % Order
OneInverse(n) == {v \in 1 .. Order - 1 : (v * n) % Order = 1}

NativeInit == points = <<>> /\ scalars = <<>> /\ panicked = FALSE /\ call = NoCall

Open == ~panicked /\ (points \o scalars # <<>> => call.admitted # {})
Yields(results, meant) ==
    /\ Open /\ UNCHANGED <<scalars, panicked>>
    /\ Called({<<MeaningOf(r)>> : r \in results}, {<<m>> : m \in meant}, TRUE)
    /\ \/ results = {} /\ UNCHANGED points
       \/ \E r \in results : points' = Append(points, r)
Computes(results, meant, panics, honest) ==
    /\ Open /\ UNCHANGED points
    /\ Called({<<ScalarMeaning(r)>> : r \in results}, {<<m>> : m \in meant}, honest /\ ~panics)
    /\ panicked' = panics
    /\ \/ (panics \/ results = {}) /\ UNCHANGED scalars
       \/ ~panics /\ \E r \in results : scalars' = Append(scalars, r)
Tests(holds, means, honest) ==
    Open /\ Called(Holds(holds), Holds(means), honest) /\ UNCHANGED <<points, scalars, panicked>>

Assign          == Yields(assign, Subgroup)
AssignFixed(k)  == Yields({assign_fixed(k)}, {k})
AssignUnchecked == Yields(assign_without_subgroup_check, Curve)
\* The verifier passes points of the subgroup.
AssignAsPublicInput(k)     == k \in Subgroup /\ Yields({Point(k, TRUE)}, {k})
FromCoordinates(x, y)      == Yields(point_from_coordinates(x, y), {<<x, y>>} \cap Subgroup)
FromCoordinatesUnsafe(x, y) == Yields(point_from_coordinates_unsafe(x, y), {<<x, y>>} \cap Curve)
ClearCofactor(i)    == Yields(clear_cofactor(points[i]), IF points[i].checked_in_subgroup THEN {} ELSE {Times(COFACTOR, P(i))})
Add(i, j)           == Yields(add(points[i], points[j]), {GroupAdd(P(i), P(j))})
Negate(i)           == Yields({negate(points[i])}, {GroupNegate(P(i))})
Select(c, i, j)     == Yields({select(c, points[i], points[j])}, {IF c = 1 THEN P(i) ELSE P(j)})
MulByConstant(n, i) == Yields(mul_by_constant(n, points[i]), {Times(n, P(i))})
Msm(is, js) ==
    /\ \A k \in DOMAIN js : P(js[k]) \in Subgroup
    /\ Yields(msm([k \in DOMAIN is |-> scalars[is[k]]], [k \in DOMAIN js |-> points[js[k]]]),
              {SumOfTerms([k \in DOMAIN is |-> <<S(is[k]), P(js[k])>>])})
IsEqual(i, j)        == Tests(is_equal(points[i], points[j]), P(i) = P(j), TRUE)
AssertNotEqual(i, j) == Tests(~is_equal(points[i], points[j]), P(i) # P(j), TRUE)
IsEqualToFixed(i, k) == Tests(is_equal(points[i], assign_fixed(k)), P(i) = k, TRUE)
ConstrainAsPublicInput(i, k) == Tests(P(i) = k, P(i) = k, TRUE)

AssignScalar        == Computes(assign_scalar, 0 .. Order - 1, FALSE, TRUE)
AssignFixedScalar(c) == Computes({assign_fixed_scalar(c)}, {c}, FALSE, TRUE)
AddScalars(i, j)    == Computes({add_scalars(scalars[i], scalars[j])}, {(S(i) + S(j)) % Order}, FALSE, TRUE)
MulScalars(i, j, c) ==
    Computes({mul_scalars(scalars[i], scalars[j], c)},
             {(S(i) * S(j) * (IF c = <<>> THEN 1 ELSE c[1])) % Order}, FALSE, TRUE)
LinearCombination(coefficients, is, constant) ==
    Computes({linear_combination([k \in DOMAIN is |-> <<coefficients[k], scalars[is[k]]>>], constant)},
             {FoldLeft(LAMBDA acc, k : acc + coefficients[k] * S(is[k]), constant, [k \in DOMAIN is |-> k]) % Order},
             FALSE, TRUE)
(* An honest prover has reduced scalars.                                   *)
DivScalars(i, j) ==
    Computes(div(scalars[i], scalars[j]), {(S(i) * v) % Order : v \in OneInverse(S(j))},
             ValuePanics(scalars[j]), scalars[i].value < Order)
\* The prover always panics: what is inverted has been selected.
Inv0(i) ==
    Computes(inv0(scalars[i]), IF S(i) = 0 THEN {0} ELSE OneInverse(S(i)), ValuePanics(Invertible(scalars[i])), TRUE)
SelectScalars(c, i, j) ==
    Computes({select_scalars(c, scalars[i], scalars[j])}, {IF c = 1 THEN S(i) ELSE S(j)}, FALSE, TRUE)
IsEqualScalars(i, j)   == Tests(is_equal_scalars(scalars[i], scalars[j]), S(i) = S(j), TRUE)
IsEqualToFixedScalar(i, k) == Tests(is_equal_scalars(scalars[i], assign_fixed_scalar(k)), S(i) = k, TRUE)
(* The doc of the public inputs of a scalar has the chunks of the bits of  *)
(* the order; a scalar of other bits, or one that is not reduced, is not   *)
(* recognised.                                                             *)
ConstrainAsPublicInputScalar(i, k) ==
    Tests(as_public_input_scalar(scalars[i]) = InstantiableScalar(k), S(i) = k,
          /\ scalars[i].value < Order
          /\ Len(as_public_input_scalar(scalars[i])) = Len(InstantiableScalar(k)))
=============================================================================
