---------------------------- MODULE ForeignField ----------------------------
(***************************************************************************)
(* The foreign field chip (circuits/src/field/foreign/): arithmetic modulo *)
(* EmulatedModulus on limbs that are cells of the native field.  A         *)
(* multiplication or a normalization is one identity over the integers,    *)
(* which the circuit checks modulo the native modulus and modulo a few     *)
(* auxiliary moduli, with quotients that are range-checked.                *)
(*                                                                         *)
(* A state is a circuit that calls the chip.  The assignments of its cells *)
(* that the constraints admit, and the values the calls mean, are kept     *)
(* side by side.  The native gadget is taken at its word: its range checks *)
(* and its linear operations are exact (NativeGadget).                     *)
(***************************************************************************)
EXTENDS Integers, FiniteSets, Sequences, SequencesExt

CONSTANTS NativeModulus, EmulatedModulus,
          LOG2_BASE, NB_LIMBS,
          AuxiliaryModuli,      \* moduli()
          MaxLimbBound,         \* max_limb_bound()
          LimbMargin,           \* 10 in the code: a tenth of the bound is "approaching"
          FactorMargin,         \* 1000 in the code
          RangeColumns,         \* nb_parallel_range_checks
          RangeBits,            \* max_bit_len
          NativeCapacity,       \* bits a native element holds for sure
          BitsPerByte,          \* 8 in the code
          Encodings,            \* bound: the integers assigned elements encode
          Constants,            \* constants that calls take
          Combinations,         \* two coefficients and a constant
          MaxFieldCalls         \* bound: calls of a circuit

VARIABLES admitted,         \* assignments the constraints admit, a sequence of cells each
          meant,            \* the values they should have
          kinds,            \* the types of the cells: "element", "bit", "bits"
          fieldCalls

fieldVars == <<admitted, meant, kinds, fieldCalls>>

K     == 0 .. EmulatedModulus - 1
Limbs == 1 .. NB_LIMBS
Base  == 2 ^ LOG2_BASE
None  == -1
-----------------------------------------------------------------------------
(* Integers as limbs, little-endian.                                       *)
sum_bigints(coeffs, values) ==
    LET sum[i \in 0 .. Len(coeffs)] == IF i = 0 THEN 0 ELSE sum[i - 1] + coeffs[i] * values[i]
    IN  sum[Len(coeffs)]
bi_from_limbs(limbs)  == sum_bigints([i \in DOMAIN limbs |-> Base ^ (i - 1)], limbs)
bi_to_limbs(n)        == [i \in Limbs |-> (n \div Base ^ (i - 1)) % Base]
bits(n)               == Cardinality({i \in 0 .. 30 : 2 ^ i <= n})
div_ceil(a, b)        == -((-a) \div b)

base_powers           == [i \in Limbs |-> (Base ^ (i - 1)) % EmulatedModulus]
double_base_powers    == [ij \in Limbs \X Limbs |-> (Base ^ (ij[1] + ij[2] - 2)) % EmulatedModulus]

(* The auxiliary bounds of an identity expr = (u + k_min) * m, modulo the  *)
(* native modulus and modulo each mj, expr_mj = ... + (vj + lj_min) * mj.  *)
(* Powers of two that one range check fewer proves are taken instead of    *)
(* the next one.                                                           *)
LogMargin == 16         \* bound: 128 in the code, where longer ones cost more
MaxLog    == 14 + LogMargin
optimal_limb_sizes_len ==
    FoldLeft(LAMBDA t, n :
               LET sizes == {cs \in (1 .. RangeColumns) \X (1 .. RangeBits) : cs[1] * cs[2] <= n}
                   rest  == {IF c[1] * c[2] = n THEN 0 ELSE t[n - c[1] * c[2]] : c \in sizes}
               IN  Append(t, 1 + CHOOSE r \in rest : \A s \in rest : r <= s),
             <<>>, [i \in 1 .. MaxLog |-> i])
CheapestLog(base_log, nb_limbs) ==
    LET cost(l) == IF l = 0 THEN 0 ELSE nb_limbs[l]
        logs    == base_log .. base_log + LogMargin
    IN  CHOOSE l \in logs : \A k \in logs : cost(l) < cost(k) \/ (cost(l) = cost(k) /\ l <= k)
next_cheapest_power_of_two(x) == 2 ^ CheapestLog(bits(x - 1), optimal_limb_sizes_len)

lcm(a, b) == a * CHOOSE k \in 1 .. b : ((a * k) % b) = 0 /\ \A j \in 1 .. k - 1 : ((a * j) % b) # 0
LcmOfFirst[k \in 0 .. Len(AuxiliaryModuli)] ==
    IF k = 0 THEN NativeModulus ELSE lcm(LcmOfFirst[k - 1], AuxiliaryModuli[k])
Enough(k, range) == LcmOfFirst[k] > -range[1] /\ LcmOfFirst[k] > range[2]
necessary_moduli(range) ==
    SubSeq(AuxiliaryModuli, 1,
           CHOOSE k \in 0 .. Len(AuxiliaryModuli) :
              /\ Enough(k, range) \/ k = Len(AuxiliaryModuli)
              /\ \A j \in 0 .. k - 1 : ~Enough(j, range))

(* The multiples of m in a range, from the least on, and what is left of   *)
(* an expression when they are taken off.                                  *)
Multiples(range, m) ==
    [min |-> div_ceil(range[1], m),
     max |-> next_cheapest_power_of_two(range[2] \div m - div_ceil(range[1], m) + 1)]
Less(range, u, m) == <<range[1] - (u.max + u.min) * m, range[2] - u.min * m>>

AuxiliaryBounds(u, range, moduli, ranges, v) ==
    [k_min |-> u.min, u_max |-> u.max, moduli |-> moduli,
     lj_min |-> [j \in DOMAIN moduli |-> v[j].min], vj_max |-> [j \in DOMAIN moduli |-> v[j].max],
     panics |->
        \/ ~Enough(Len(moduli), range)
        \/ \E j \in DOMAIN moduli : LET rest == Less(ranges[j], v[j], moduli[j])
                                    IN  NativeModulus <= rest[2] \/ NativeModulus <= -rest[1]]
BoundsFrom(u, range, moduli, ranges) ==
    AuxiliaryBounds(u, range, moduli, ranges, [j \in DOMAIN moduli |-> Multiples(ranges[j], moduli[j])])
BoundsModulo(u, range, moduli, expr_mj) ==
    BoundsFrom(u, range, moduli,
               [j \in DOMAIN moduli |->
                  LET kmm == (u.min * EmulatedModulus) % moduli[j]
                  IN  <<expr_mj[j][1] - u.max * (EmulatedModulus % moduli[j]) - kmm, expr_mj[j][2] - kmm>>])
BoundsOver(u, range, expr_mj) == BoundsModulo(u, range, necessary_moduli(range), expr_mj)
BoundsOf(u, expr, expr_mj) == BoundsOver(u, Less(expr, u, EmulatedModulus), expr_mj)
get_identity_auxiliary_bounds(expr, expr_mj) ==
    BoundsOf(Multiples(expr, EmulatedModulus), expr, expr_mj)

(* A gate: the quotients u that the native identity leaves for each value  *)
(* of expr, and the remainders that some vj explains.                      *)
GateOf(aux) ==
    [aux       |-> aux,
     quotients |-> [e \in 0 .. NativeModulus - 1 |->
                      {u \in 0 .. aux.u_max - 1 : ((e - (u + aux.k_min) * EmulatedModulus) % NativeModulus) = 0}],
     multiples |-> [j \in DOMAIN aux.moduli |->
                      {((vj + aux.lj_min[j]) * aux.moduli[j]) % NativeModulus : vj \in 0 .. aux.vj_max[j] - 1}]]

(* It holds of expr and the expr_mj: some u and vj below their bounds.     *)
Explained(aux, quotients, multiples, expr_mj) ==
    \E u \in quotients :
       \A j \in DOMAIN aux.moduli :
          ((expr_mj[j] - u * (EmulatedModulus % aux.moduli[j])
              - ((aux.k_min * EmulatedModulus) % aux.moduli[j])) % NativeModulus) \in multiples[j]
Holds(g, expr, expr_mj) == Explained(g.aux, g.quotients[expr % NativeModulus], g.multiples, expr_mj)
-----------------------------------------------------------------------------
(* Elements.  An element stands for 1 + the integer of its limbs, so that  *)
(* zero has one encoding only.                                             *)
well_formed_log2_bounds ==
    [i \in Limbs |-> IF i = NB_LIMBS THEN bits(EmulatedModulus) - (NB_LIMBS - 1) * LOG2_BASE
                     ELSE LOG2_BASE]
well_formed_bounds == [i \in Limbs |-> <<0, 2 ^ well_formed_log2_bounds[i] - 1>>]
WellFormedLimbs == {l \in [Limbs -> 0 .. Base - 1] : \A i \in Limbs : l[i] <= well_formed_bounds[i][2]}

AssignedField(limbs, bounds, const) == [limbs |-> limbs, bounds |-> bounds, const |-> const]
WellFormed(limbs) == AssignedField(limbs, well_formed_bounds, None)
is_well_formed(x) ==
    \A i \in Limbs : x.bounds[i][1] >= 0 /\ bits(x.bounds[i][2]) <= well_formed_log2_bounds[i]

Abs(n) == IF n < 0 THEN -n ELSE n
limb_of(x, i)    == LET shift == Abs(x.bounds[i][1])
                    IN  ((x.limbs[i] + shift) % NativeModulus) - shift
bigint_limbs(x)  == [i \in Limbs |-> limb_of(x, i)]
value(x)         == (1 + bi_from_limbs(bigint_limbs(x))) % EmulatedModulus
limbs_of(k)      == bi_to_limbs((k - 1) % EmulatedModulus)

assign == {WellFormed(l) : l \in {k \in WellFormedLimbs : bi_from_limbs(k) \in Encodings}}
assign_fixed(k)  == AssignedField(limbs_of(k), well_formed_bounds, k)
IsFixed(x, k)    == x.const = k
-----------------------------------------------------------------------------
(* The coefficients of the identities, modulo an auxiliary modulus, or not *)
(* (q = 0).                                                                *)
ResidueOf(c, q)          == IF q = 0 THEN c ELSE c % q
PowersMod(q)       == [i \in Limbs |-> ResidueOf(base_powers[i], q)]
DoublePowersMod(q) == [i \in Limbs |-> [j \in Limbs |-> ResidueOf(double_base_powers[<<i, j>>], q)]]
AllLimbs(n)        == [i \in Limbs |-> n]

(* The multiplication gate: x * y - z is a multiple of m, of well-formed   *)
(* x, y and z.                                                             *)
MulExpr(q, x, y, z) ==
    LET b  == PowersMod(q)
        bb == DoublePowersMod(q)
    IN  sum_bigints([i \in Limbs |-> sum_bigints(bb[i], y)], x)
          + sum_bigints(b, x) + sum_bigints(b, y) - sum_bigints(b, z)
MulExprBounds(q) ==
    LET top == AllLimbs(Base - 1)
    IN  <<-sum_bigints(PowersMod(q), top), MulExpr(q, top, top, AllLimbs(0))>>
MulBounds == get_identity_auxiliary_bounds(
                MulExprBounds(0),
                [j \in DOMAIN AuxiliaryModuli |-> MulExprBounds(AuxiliaryModuli[j])])
MulGate == GateOf(MulBounds)
MulHolds(x, y, z) ==
    Holds(MulGate, MulExpr(0, x, y, z),
          [j \in DOMAIN AuxiliaryModuli |-> MulExpr(AuxiliaryModuli[j], x, y, z)])
MulTable == [xy \in WellFormedLimbs \X WellFormedLimbs |->
                {z \in WellFormedLimbs : MulHolds(xy[1], xy[2], z)}]

(* The normalization gate: x - z is a multiple of m, of limbs of x within  *)
(* MaxLimbBound, which are shifted by it, and a well-formed z.             *)
SumShifts == sum_bigints(base_powers, AllLimbs(MaxLimbBound))
NormExpr(q, x, z) ==
    sum_bigints(PowersMod(q), [i \in Limbs |-> x[i] + MaxLimbBound])
      - sum_bigints(PowersMod(q), z) - ResidueOf(SumShifts, q)
NormExprBounds(q) ==
    <<-sum_bigints(PowersMod(q), AllLimbs(Base - 1)) - ResidueOf(SumShifts, q),
      2 * sum_bigints(PowersMod(q), AllLimbs(MaxLimbBound)) - ResidueOf(SumShifts, q)>>
NormBounds == get_identity_auxiliary_bounds(
                NormExprBounds(0),
                [j \in DOMAIN AuxiliaryModuli |-> NormExprBounds(AuxiliaryModuli[j])])
NormGate == GateOf(NormBounds)
NormHolds(x, z) ==
    Holds(NormGate, NormExpr(0, x, z),
          [j \in DOMAIN AuxiliaryModuli |-> NormExpr(AuxiliaryModuli[j], x, z)])

(* check_params, and the panics of configure.                              *)
ASSUME ForeignAssumption ==
    /\ EmulatedModulus > 1 /\ Base > 1
    /\ Base ^ NB_LIMBS >= EmulatedModulus
    /\ ~MulBounds.panics /\ ~NormBounds.panics
-----------------------------------------------------------------------------
(* Normalization.  Bounds past MaxLimbBound make the chip panic: nothing   *)
(* is admitted then.                                                       *)
make_canonical(x) ==
    IF \E i \in Limbs : x.bounds[i][1] < -MaxLimbBound \/ x.bounds[i][2] > MaxLimbBound
    THEN {}
    ELSE {WellFormed(z) : z \in {l \in WellFormedLimbs : NormHolds(x.limbs, l)}}
normalize(x) == IF is_well_formed(x) THEN {x} ELSE make_canonical(x)
normalize_if_approaching_limit(x) ==
    LET threshold == MaxLimbBound \div LimbMargin
    IN  IF \E i \in Limbs : x.bounds[i][1] < -threshold \/ x.bounds[i][2] > threshold
        THEN make_canonical(x) ELSE {x}

(* Both the limbs and the bounds of a linear operation.                    *)
Linear(limbs, bounds) ==
    normalize_if_approaching_limit(
        AssignedField([i \in Limbs |-> limbs[i] % NativeModulus], bounds, None))
OnFirstLimb(c) == [i \in Limbs |-> IF i = 1 THEN c ELSE 0]

add(x, y) ==
    IF IsFixed(x, 0) THEN {y}
    ELSE IF IsFixed(y, 0) THEN {x}
    ELSE LET c == OnFirstLimb(1)
         IN  Linear([i \in Limbs |-> x.limbs[i] + y.limbs[i] + c[i]],
                    [i \in Limbs |-> <<x.bounds[i][1] + y.bounds[i][1] + c[i],
                                       x.bounds[i][2] + y.bounds[i][2] + c[i]>>])
MutNeg(x) ==
    IF IsFixed(x, 0) THEN {x}
    ELSE LET c == OnFirstLimb(-1)
         IN  Linear([i \in Limbs |-> c[i] - x.limbs[i]],
                    [i \in Limbs |-> <<c[i] - x.bounds[i][2], c[i] - x.bounds[i][1]>>])
sub(x, y) ==
    IF IsFixed(y, 0) THEN {x}
    ELSE LET c == OnFirstLimb(-1)
         IN  Linear([i \in Limbs |-> x.limbs[i] - y.limbs[i] + c[i]],
                    [i \in Limbs |-> <<x.bounds[i][1] - y.bounds[i][2] + c[i],
                                       x.bounds[i][2] - y.bounds[i][1] + c[i]>>])
neg(x) ==
    IF IsFixed(x, 0) THEN {x}
    ELSE LET c == OnFirstLimb(-2)
         IN  Linear([i \in Limbs |-> c[i] - x.limbs[i]],
                    [i \in Limbs |-> <<c[i] - x.bounds[i][2], c[i] - x.bounds[i][1]>>])
add_constant(x, k) ==
    IF k = 0 THEN {x}
    ELSE LET c == bi_to_limbs(k)
         IN  Linear([i \in Limbs |-> x.limbs[i] + c[i]],
                    [i \in Limbs |-> <<x.bounds[i][1] + c[i], x.bounds[i][2] + c[i]>>])

(* The result z of x * y = z, or of z * y = x.                             *)
assign_mul(x, y, division) ==
    UNION {IF division THEN {WellFormed(z) : z \in {l \in WellFormedLimbs : xn.limbs \in MulTable[<<l, yn.limbs>>]}}
           ELSE {WellFormed(z) : z \in MulTable[<<xn.limbs, yn.limbs>>]} :
             xn \in normalize(x), yn \in normalize(y)}

mul_by_constant(x, k) ==
    IF k = 0 THEN {assign_fixed(0)}
    ELSE IF k = 1 THEN {x}
    ELSE IF k = EmulatedModulus - 1 THEN neg(x)
    ELSE IF k > MaxLimbBound \div (FactorMargin * Base) THEN assign_mul(x, assign_fixed(k), FALSE)
    ELSE LET c == OnFirstLimb(k - 1)
         IN  Linear([i \in Limbs |-> k * x.limbs[i] + c[i]],
                    [i \in Limbs |-> <<x.bounds[i][1] * k + c[i], x.bounds[i][2] * k + c[i]>>])

(* The shortcuts come first, whatever the multiplying constant is.         *)
mul(x, y, k) ==
    IF IsFixed(x, 0) \/ IsFixed(y, 0) THEN {assign_fixed(0)}
    ELSE IF IsFixed(x, 1) THEN {y}
    ELSE IF IsFixed(y, 1) THEN {x}
    ELSE UNION {assign_mul(x, ky, FALSE) : ky \in IF k = None THEN {y} ELSE mul_by_constant(y, k)}

sum(positives, negatives, constant) ==
    IF positives = <<>> /\ negatives = <<>> THEN {assign_fixed(constant)}
    ELSE LET offset(i) == limbs_of(constant)[i]
                            + IF i = 1 THEN Len(positives) - Len(negatives) ELSE 0
             total(pos(_), neg_(_), i) ==
                 FoldLeft(LAMBDA n, x : n + pos(x), 0, positives)
                   - FoldLeft(LAMBDA n, x : n + neg_(x), 0, negatives) + offset(i)
         IN  Linear([i \in Limbs |-> total(LAMBDA x : x.limbs[i], LAMBDA x : x.limbs[i], i)],
                    [i \in Limbs |->
                       <<total(LAMBDA x : x.bounds[i][1], LAMBDA x : x.bounds[i][2], i),
                         total(LAMBDA x : x.bounds[i][2], LAMBDA x : x.bounds[i][1], i)>>])

(* Terms are pairs <<coefficient, element>>.                               *)
linear_combination(terms, constant) ==
    LET minus == EmulatedModulus - 1
        of(c) == LET chosen == SelectSeq(terms, LAMBDA t : t[1] = c)
                 IN  [i \in DOMAIN chosen |-> chosen[i][2]]
    IN  IF terms = <<>> THEN {assign_fixed(constant)}
        ELSE IF \A i \in DOMAIN terms : terms[i][1] \in {1, minus}
        THEN sum(of(1), of(minus), constant)
        ELSE UNION {normalize_if_approaching_limit(res) :
               res \in FoldLeft(LAMBDA accs, t : UNION {add(acc, prod) : acc \in accs,
                                                       prod \in mul_by_constant(t[2], t[1])},
                                {assign_fixed(constant)}, terms)}
-----------------------------------------------------------------------------
(* Tests, selection, divisions.                                            *)
is_zero(x)  == {IF z.limbs = limbs_of(0) THEN 1 ELSE 0 : z \in normalize(x)}
is_equal(x, y)          == UNION {is_zero(d) : d \in sub(x, y)}
is_equal_to_fixed(x, k) == UNION {is_zero(d) : d \in add_constant(x, (-k) % EmulatedModulus)}

select(cond, x, y) ==
    AssignedField(IF cond = 1 THEN x.limbs ELSE y.limbs,
            [i \in Limbs |->
               <<IF x.bounds[i][1] < y.bounds[i][1] THEN x.bounds[i][1] ELSE y.bounds[i][1],
                 IF x.bounds[i][2] > y.bounds[i][2] THEN x.bounds[i][2] ELSE y.bounds[i][2]>>],
            None)

div(x, y) ==
    IF IsFixed(y, 1) THEN {x}
    ELSE UNION {assign_mul(x, yn, TRUE) : yn \in {z \in normalize(y) : is_zero(z) = {0}}}
inv(x) == IF IsFixed(x, 1) THEN {x} ELSE assign_mul(assign_fixed(1), x, TRUE)
inv0(x) ==
    UNION {{select(b, assign_fixed(0), inverse) :
              inverse \in assign_mul(assign_fixed(1), select(b, assign_fixed(1), x), TRUE)} :
            b \in is_zero(x)}

assert_equal(x, y) ==
    \E xn \in normalize(x), yn \in normalize(y) : xn.limbs = yn.limbs
assert_equal_to_fixed(x, k) == \E xn \in normalize(x) : xn.limbs = limbs_of(k)

(* Public inputs: limbs are packed into native elements, on both sides.    *)
PackedLimbs(limbs) ==
    LET per_batch == NativeCapacity \div LOG2_BASE
        batch(n)  == SubSeq(limbs, (n - 1) * per_batch + 1,
                            IF n * per_batch < NB_LIMBS THEN n * per_batch ELSE NB_LIMBS)
    IN  [n \in 1 .. div_ceil(NB_LIMBS, per_batch) |-> bi_from_limbs(batch(n)) % NativeModulus]
as_public_input(x)          == {PackedLimbs(xn.limbs) : xn \in normalize(x)}
as_public_input_of_value(k) == PackedLimbs(limbs_of(k))
-----------------------------------------------------------------------------
(* Decompositions.  The limbs of x + 1 are the digits of the value of x.   *)
FieldNumBits == bits(EmulatedModulus)
BitsOf(n, len)   == [i \in 1 .. len |-> (n \div 2 ^ (i - 1)) % 2]
FromDigits(d, b) == sum_bigints([i \in DOMAIN d |-> b ^ (i - 1)], d)
Groups(seq, n)   == [g \in 1 .. div_ceil(Len(seq), n) |->
                       SubSeq(seq, (g - 1) * n + 1, IF g * n < Len(seq) THEN g * n ELSE Len(seq))]

assigned_to_le_bits(x, nb_bits, enforce_canonical) ==
    LET digits(z) == FlattenSeq([i \in Limbs |-> BitsOf(z.limbs[i], well_formed_log2_bounds[i])])
        fits(z)   == \A i \in Limbs : z.limbs[i] < 2 ^ well_formed_log2_bounds[i]
        len       == IF nb_bits < FieldNumBits THEN nb_bits ELSE FieldNumBits
        shifted   == UNION {IF enforce_canonical THEN make_canonical(y) ELSE {y} :
                              y \in add_constant(x, 1)}
    IN  {SubSeq(digits(z), 1, len) :
           z \in {y \in shifted :
                    /\ fits(y)
                    /\ \A i \in len + 1 .. Len(digits(y)) : digits(y)[i] = 0
                    /\ enforce_canonical /\ len = FieldNumBits
                         => FromDigits(digits(y), 2) < EmulatedModulus}}
assigned_to_le_bytes(x, nb_bytes) ==
    {[g \in 1 .. nb_bytes |-> FromDigits(Groups(b, BitsPerByte)[g], 2)] :
       b \in {c \in assigned_to_le_bits(x, nb_bytes * BitsPerByte, TRUE) :
                \A g \in nb_bytes + 1 .. Len(Groups(c, BitsPerByte)) :
                   FromDigits(Groups(c, BitsPerByte)[g], 2) = 0}}
assigned_to_le_chunks(x, nb_bits_per_chunk) ==
    IF (LOG2_BASE % nb_bits_per_chunk) = 0
    THEN {FlattenSeq([i \in Limbs |->
                        [c \in 1 .. LOG2_BASE \div nb_bits_per_chunk |->
                           (z.limbs[i] \div 2 ^ (nb_bits_per_chunk * (c - 1))) % 2 ^ nb_bits_per_chunk]]) :
            z \in UNION {normalize(y) : y \in add_constant(x, 1)}}
    ELSE {[g \in DOMAIN Groups(b, nb_bits_per_chunk) |-> FromDigits(Groups(b, nb_bits_per_chunk)[g], 2)] :
            b \in assigned_to_le_bits(x, FieldNumBits, FALSE)}

assigned_field_from_limb(limb) ==
    AssignedField([i \in Limbs |-> IF i = 1 THEN (limb - 1) % NativeModulus ELSE 0],
            [well_formed_bounds EXCEPT ![1] = <<@[1] - 1, @[2] - 1>>], None)
FromGroups(groups, digit, shift) ==
    LET terms == [g \in DOMAIN groups |->
                    <<(shift ^ (g - 1)) % EmulatedModulus,
                      assigned_field_from_limb(FromDigits(groups[g], digit))>>]
    IN  UNION {normalize(x) : x \in linear_combination(terms, 0)}
assigned_from_le_bits(b)  == FromGroups(Groups(b, LOG2_BASE), 2, Base)
assigned_from_le_bytes(b) ==
    LET per_chunk == LOG2_BASE \div BitsPerByte
    IN  FromGroups(Groups(b, per_chunk), 2 ^ BitsPerByte, 2 ^ (BitsPerByte * per_chunk))
-----------------------------------------------------------------------------
(* A circuit.  Every call extends what is admitted by what its constraints *)
(* admit, and what is meant by what the call means.                        *)
FieldInit == /\ admitted = {<<>>} /\ meant = {<<>>}
             /\ kinds = <<>> /\ fieldCalls = 0

CellsOf(kind) == {i \in DOMAIN kinds : kinds[i] = kind}
FieldCells      == CellsOf("element")

Returns(kind, op(_), meaning(_)) ==
    /\ fieldCalls < MaxFieldCalls
    /\ fieldCalls' = fieldCalls + 1
    /\ admitted' = UNION {{Append(a, r) : r \in op(a)} : a \in admitted}
    /\ meant' = UNION {{Append(v, r) : r \in meaning(v)} : v \in meant}
    /\ kinds' = Append(kinds, kind)
Requires(test(_), meaning(_)) ==
    /\ fieldCalls < MaxFieldCalls
    /\ fieldCalls' = fieldCalls + 1
    /\ admitted' = {a \in admitted : test(a)}
    /\ meant' = {v \in meant : meaning(v)}
    /\ UNCHANGED kinds

Inverses(k)   == {n \in K : ((n * k) % EmulatedModulus) = 1}
Truth(b)      == IF b THEN 1 ELSE 0
Reduced(n)    == n % EmulatedModulus

FieldAssign == Returns("element", LAMBDA a : assign, LAMBDA v : {Reduced(1 + n) : n \in Encodings})
FieldAssignBit == Returns("bit", LAMBDA a : {0, 1}, LAMBDA v : {0, 1})
FieldAssignFixed(k) == Returns("element", LAMBDA a : {assign_fixed(k)}, LAMBDA v : {k})

FieldAdd(i, j) == Returns("element", LAMBDA a : add(a[i], a[j]), LAMBDA v : {Reduced(v[i] + v[j])})
FieldSub(i, j) == Returns("element", LAMBDA a : sub(a[i], a[j]), LAMBDA v : {Reduced(v[i] - v[j])})
FieldNeg(i)    == Returns("element", LAMBDA a : neg(a[i]), LAMBDA v : {Reduced(-v[i])})
FieldAddConstant(i, k) ==
    Returns("element", LAMBDA a : add_constant(a[i], k), LAMBDA v : {Reduced(v[i] + k)})
FieldMulByConstant(i, k) ==
    Returns("element", LAMBDA a : mul_by_constant(a[i], k), LAMBDA v : {Reduced(v[i] * k)})
FieldSelect(b, i, j) ==
    Returns("element", LAMBDA a : {select(a[b], a[i], a[j])},
            LAMBDA v : {IF v[b] = 1 THEN v[i] ELSE v[j]})
FieldLinearCombination(i, j, c, d, k) ==
    Returns("element", LAMBDA a : linear_combination(<<<<c, a[i]>>, <<d, a[j]>>>>, k),
            LAMBDA v : {Reduced(c * v[i] + d * v[j] + k)})
Convert(b) == Returns("element", LAMBDA a : {assigned_field_from_limb(a[b])}, LAMBDA v : {v[b]})

FieldMul(i, j) == Returns("element", LAMBDA a : mul(a[i], a[j], None), LAMBDA v : {Reduced(v[i] * v[j])})
MulScaled(i, j, k) ==
    Returns("element", LAMBDA a : mul(a[i], a[j], k), LAMBDA v : {Reduced(k * v[i] * v[j])})
FieldDiv(i, j) ==
    Returns("element", LAMBDA a : div(a[i], a[j]),
            LAMBDA v : {Reduced(v[i] * n) : n \in Inverses(v[j])})
FieldInv(i)    == Returns("element", LAMBDA a : inv(a[i]), LAMBDA v : Inverses(v[i]))
FieldInv0(i)   == Returns("element", LAMBDA a : inv0(a[i]),
                     LAMBDA v : IF v[i] = 0 THEN {0} ELSE Inverses(v[i]))

FieldIsZero(i)          == Returns("bit", LAMBDA a : is_zero(a[i]), LAMBDA v : {Truth(v[i] = 0)})
FieldIsEqual(i, j)      == Returns("bit", LAMBDA a : is_equal(a[i], a[j]), LAMBDA v : {Truth(v[i] = v[j])})
FieldIsEqualToFixed(i, k) ==
    Returns("bit", LAMBDA a : is_equal_to_fixed(a[i], k), LAMBDA v : {Truth(v[i] = k)})
FieldAssertEqual(i, j)    == Requires(LAMBDA a : assert_equal(a[i], a[j]), LAMBDA v : v[i] = v[j])
FieldAssertNotEqual(i, j) == Requires(LAMBDA a : 0 \in is_equal(a[i], a[j]), LAMBDA v : v[i] # v[j])
AssertEqualToFixed(i, k)    == Requires(LAMBDA a : assert_equal_to_fixed(a[i], k), LAMBDA v : v[i] = k)
FieldAssertNotEqualToFixed(i, k) == Requires(LAMBDA a : 0 \in is_equal_to_fixed(a[i], k), LAMBDA v : v[i] # k)
AssertNonZero(i)     == Requires(LAMBDA a : 0 \in is_zero(a[i]), LAMBDA v : v[i] # 0)

(* The verifier computes the public input of k.                            *)
ConstrainAsPublicInput(i, k) ==
    Requires(LAMBDA a : as_public_input_of_value(k) \in as_public_input(a[i]), LAMBDA v : v[i] = k)

ToBits(i, n) ==
    Returns("bits", LAMBDA a : assigned_to_le_bits(a[i], n, TRUE),
            LAMBDA v : IF v[i] < 2 ^ n THEN {BitsOf(v[i], IF n < FieldNumBits THEN n ELSE FieldNumBits)} ELSE {})
ToBytes(i, n) ==
    Returns("bytes", LAMBDA a : assigned_to_le_bytes(a[i], n),
            LAMBDA v : IF v[i] < 2 ^ (BitsPerByte * n)
                       THEN {[g \in 1 .. n |-> FromDigits(Groups(BitsOf(v[i], BitsPerByte * n), BitsPerByte)[g], 2)]}
                       ELSE {})
(* Chunks are those of any integer that has the value of x.                *)
ToChunks(i, width) ==
    Returns("digits", LAMBDA a : {FromDigits(c, 2 ^ width) : c \in assigned_to_le_chunks(a[i], width)},
            LAMBDA v : {v[i]})
FieldFromBits(b) ==
    Returns("element", LAMBDA a : assigned_from_le_bits(a[b]), LAMBDA v : {FromDigits(v[b], 2)})
FromBytes(b) ==
    Returns("element", LAMBDA a : assigned_from_le_bytes(a[b]),
            LAMBDA v : {FromDigits(v[b], 2 ^ BitsPerByte)})

LinearCalls ==
    \/ \E i \in FieldCells : \/ FieldNeg(i)
                           \/ \E k \in Constants : FieldAddConstant(i, k) \/ FieldMulByConstant(i, k)
                           \/ \E j \in FieldCells : FieldAdd(i, j) \/ FieldSub(i, j)
    \/ \E b \in CellsOf("bit") : \/ Convert(b)
                                 \/ \E i, j \in FieldCells : i # j /\ FieldSelect(b, i, j)

FieldCalls ==
    \/ \E i, j \in FieldCells :
         \/ FieldMul(i, j) \/ FieldDiv(i, j) \/ FieldIsEqual(i, j) \/ FieldAssertEqual(i, j) \/ FieldAssertNotEqual(i, j)
         \/ i < j /\ \E c \in Combinations : FieldLinearCombination(i, j, c[1], c[2], c[3])
    \/ \E i \in FieldCells :
         \/ FieldInv(i) \/ FieldInv0(i) \/ FieldIsZero(i) \/ AssertNonZero(i)
         \/ \E k \in Constants : \/ FieldIsEqualToFixed(i, k) \/ AssertEqualToFixed(i, k)
                                 \/ FieldAssertNotEqualToFixed(i, k) \/ ConstrainAsPublicInput(i, k)
         \/ \E n \in 1 .. FieldNumBits : ToBits(i, n)
         \/ \E n \in 1 .. div_ceil(FieldNumBits, BitsPerByte) : ToBytes(i, n)
    \/ \E b \in CellsOf("bits") : FieldFromBits(b)
    \/ \E b \in CellsOf("bytes") : FromBytes(b)
-----------------------------------------------------------------------------
ValuesOf(a) == [i \in DOMAIN a |-> IF kinds[i] = "element" THEN value(a[i])
                                   ELSE IF kinds[i] = "digits" THEN Reduced(a[i]) ELSE a[i]]
Canonical(a) ==
    \A i \in FieldCells : is_well_formed(a[i]) => bi_from_limbs(a[i].limbs) < EmulatedModulus

(* Whatever the prover assigns, the cells of a circuit have the values its *)
(* calls mean, modulo the emulated modulus: neither identity of a gate is  *)
(* met by limbs of another value, around the native modulus or through the *)
(* quotients.  The honest prover, whose limbs are canonical, is never      *)
(* turned away.  And the bounds that the chip keeps of limbs are true, so  *)
(* that no limb wraps around the native modulus unseen.                    *)
FieldIsExact ==
    /\ \A a \in admitted : ValuesOf(a) \in meant
    /\ meant = {ValuesOf(a) : a \in {b \in admitted : Canonical(b)}}
    /\ \A a \in admitted : \A i \in FieldCells : \A l \in Limbs :
          limb_of(a[i], l) \in a[i].bounds[l][1] .. a[i].bounds[l][2]

(***************************************************************************)
(* The custom gates of the foreign curve chips (circuits/src/ecc/foreign/  *)
(* gates/): one identity over the integers each, on the limbs of the       *)
(* coordinates, with bounds of its own and checked like a multiplication.  *)
(*                                                                         *)
(* A state is a gate on well-formed inputs, all of them given but the      *)
(* last, with the last inputs that satisfy it.                             *)
(***************************************************************************)

CONSTANTS A, B             \* of the curve y^2 = x^3 + A x + B

VARIABLES gate,            \* which gate, on which inputs
          satisfying       \* the last inputs that satisfy it

gateVars == <<gate, satisfying>>

(* The representatives closest to zero.                                    *)
signed_mod(n, q) == LET r == n % q IN IF 2 * r > q THEN r - q ELSE r
a_plus_1 == signed_mod(A, EmulatedModulus) + 1
a_plus_b == signed_mod(A, EmulatedModulus) + signed_mod(B, EmulatedModulus)
Signed(n, q) == IF q = 0 THEN n ELSE signed_mod(n, q)

(* sum_x and sum_xy of limbs x and y, and the most they can be.            *)
Moduli      == {0} \cup {AuxiliaryModuli[j] : j \in DOMAIN AuxiliaryModuli}
SumsOf      == [q \in Moduli |-> [x \in [Limbs -> 0 .. Base - 1] |-> sum_bigints(PowersMod(q), x)]]
ProductsOf  == [q \in Moduli |->
                  LET bb == DoublePowersMod(q)
                  IN  [xy \in [Limbs -> 0 .. Base - 1] \X [Limbs -> 0 .. Base - 1] |->
                         sum_bigints([i \in Limbs |-> sum_bigints(bb[i], xy[2])], xy[1])]]
Sum1(q, x)    == SumsOf[q][x]
Sum2(q, x, y) == ProductsOf[q][<<x, y>>]
MaxSum1(q) == Sum1(q, AllLimbs(Base - 1))
MaxSum2(q) == Sum2(q, AllLimbs(Base - 1), AllLimbs(Base - 1))

LeastOf(m, n)    == IF m < n THEN m ELSE n
GreatestOf(m, n) == IF m > n THEN m ELSE n
-----------------------------------------------------------------------------
(* sign * qy - py = l * (qx - px).                                         *)
MutSlopeExpr(q, v) ==
    LET px == v[1] py == v[2] qx == v[3] qy == v[4] sign == v[5] l == v[6]
    IN  sign * Sum1(q, qy) - Sum1(q, py) - Sum1(q, qx) + Sum1(q, px)
          - Sum2(q, l, qx) + Sum2(q, l, px)
SlopeExpr(q, v) ==
    LET px == v[1] py == v[2] qx == v[3] qy == v[4] sign == v[5] l == v[6]
    IN  sign - 1 + sign * Sum1(q, qy) - Sum1(q, py) - Sum1(q, qx) + Sum1(q, px)
          - Sum2(q, l, qx) + Sum2(q, l, px)
SlopeBounds(q) == <<-(2 + 3 * MaxSum1(q) + MaxSum2(q)), 2 * MaxSum1(q) + MaxSum2(q)>>

(* 3 * px^2 + A = 2 * py * l.                                              *)
TangentExpr(q, v) ==
    LET px == v[1] py == v[2] l == v[3]
    IN  3 * (2 * Sum1(q, px) + Sum2(q, px, px)) + Signed(a_plus_1, q)
          - 2 * (Sum1(q, py) + Sum1(q, l) + Sum2(q, l, py))
TangentBounds(q) ==
    <<-2 * (2 * MaxSum1(q) + MaxSum2(q)) + Signed(a_plus_1, q),
      3 * (2 * MaxSum1(q) + MaxSum2(q)) + Signed(a_plus_1, q)>>

(* px + qx + rx = l^2.                                                     *)
LambdaSquaredExpr(q, v) ==
    LET px == v[1] qx == v[2] l == v[3] rx == v[4]
    IN  2 + Sum1(q, px) + Sum1(q, qx) + Sum1(q, rx) - 2 * Sum1(q, l) - Sum2(q, l, l)
LambdaSquaredBounds(q) == <<2 - (2 * MaxSum1(q) + MaxSum2(q)), 2 + 3 * MaxSum1(q)>>

(* y^2 = x * z + A * x + B, where z is x^2.                                *)
OnCurveExpr(q, v) ==
    LET x == v[1] z == v[2] y == v[3]
    IN  2 * Sum1(q, y) + Sum2(q, y, y)
          - (Sum2(q, x, z) + Sum1(q, z) + Signed(a_plus_1, q) * Sum1(q, x) + Signed(a_plus_b, q))
OnCurveBounds(q) ==
    LET linear == Signed(a_plus_1, q) * MaxSum1(q)
    IN  <<-(MaxSum2(q) + MaxSum1(q) + GreatestOf(linear, 0)) - Signed(a_plus_b, q),
          2 * MaxSum1(q) + MaxSum2(q) - LeastOf(linear, 0) - Signed(a_plus_b, q)>>

(* x * (1 + sign * w) = y + z, for each coordinate of a sum on a twisted   *)
(* Edwards curve.                                                          *)
AdditionExpr(q, v) ==
    LET x == v[1] y == v[2] w == v[3] sign == v[4] z == v[5]
    IN  (1 + sign) * Sum1(q, x) + sign * (Sum1(q, w) + Sum2(q, x, w))
          - Sum1(q, y) - Sum1(q, z) + sign - 1
AdditionBounds(q) == <<-(2 * MaxSum1(q) + MaxSum2(q) + 2), 3 * MaxSum1(q) + MaxSum2(q)>>
-----------------------------------------------------------------------------
Expr(g, q, v) ==
    CASE g = "slope"          -> SlopeExpr(q, v)
      [] g = "tangent"        -> TangentExpr(q, v)
      [] g = "lambda_squared" -> LambdaSquaredExpr(q, v)
      [] g = "on_curve"       -> OnCurveExpr(q, v)
      [] g = "addition"       -> AdditionExpr(q, v)
ExprBounds(g, q) ==
    CASE g = "slope"          -> SlopeBounds(q)
      [] g = "tangent"        -> TangentBounds(q)
      [] g = "lambda_squared" -> LambdaSquaredBounds(q)
      [] g = "on_curve"       -> OnCurveBounds(q)
      [] g = "addition"       -> AdditionBounds(q)

Gates == {"slope", "tangent", "lambda_squared", "on_curve", "addition"}
bounds == [g \in Gates |->
             get_identity_auxiliary_bounds(
                ExprBounds(g, 0), [j \in DOMAIN AuxiliaryModuli |-> ExprBounds(g, AuxiliaryModuli[j])])]
GateTables == [g \in Gates |-> GateOf(bounds[g])]
GateHolds(g, v) ==
    Holds(GateTables[g], Expr(g, 0, v),
          [j \in DOMAIN AuxiliaryModuli |-> Expr(g, AuxiliaryModuli[j], v)])

(* The quotients that the prover computes, with divisions that round       *)
(* towards zero, and which must pass their range checks even where the     *)
(* gate is disabled and its identity does not hold.                        *)
Quotient(a, b) == IF a >= 0 THEN a \div b ELSE -((-a) \div b)
compute_u(g, v) == Quotient(Expr(g, 0, v), EmulatedModulus) - bounds[g].k_min
compute_vj(g, v, j) ==
    LET q == bounds[g].moduli[j]
    IN  Quotient(Expr(g, q, v) - compute_u(g, v) * (EmulatedModulus % q)
                   - ((bounds[g].k_min * EmulatedModulus) % q), q) - bounds[g].lj_min[j]
WithinBounds(g, v) ==
    /\ compute_u(g, v) \in 0 .. bounds[g].u_max - 1
    /\ \A j \in DOMAIN bounds[g].moduli : compute_vj(g, v, j) \in 0 .. bounds[g].vj_max[j] - 1

(* None of the gates panics when it is configured.                         *)
ASSUME GateAssumption == /\ A \in K /\ B \in K
                         /\ \A g \in Gates : ~bounds[g].panics
-----------------------------------------------------------------------------
(* A gate under a condition is disabled when the bit is zero; a slope      *)
(* takes its sign from the same cell.                                      *)
GateInit == gate = <<"none">> /\ satisfying = {}

Apply(g, inputs, cond) ==
    /\ gate' = <<g, inputs, cond>>
    /\ satisfying' = {z \in WellFormedLimbs : cond = 1 => GateHolds(g, Append(inputs, z))}

assert_slope(px, py, qx, qy, negate_q, cond) ==
    Apply("slope", <<px, py, qx, qy, IF negate_q THEN -cond ELSE cond>>, cond)
assert_tangent(px, py, cond)            == Apply("tangent", <<px, py>>, cond)
assert_lambda_squared(px, qx, l, cond)  == Apply("lambda_squared", <<px, qx, l>>, cond)
assert_is_on_curve(x, z)                == z \in MulTable[<<x, x>>] /\ Apply("on_curve", <<x, z>>, 1)
assert_addition_coordinate(x, y, w, negate_w) ==
    Apply("addition", <<x, y, w, IF negate_w THEN -1 ELSE 1>>, 1)

GateNext ==
    /\ gate = <<"none">>
    /\ \E u, v \in WellFormedLimbs :
          \/ assert_tangent(u, v, 1)
          \/ assert_is_on_curve(u, v)
          \/ \E l \in WellFormedLimbs, negate \in BOOLEAN :
               \/ assert_lambda_squared(u, v, l, 1)
               \/ assert_addition_coordinate(u, v, l, negate)
               \/ \E w \in {x \in WellFormedLimbs : bi_from_limbs(x) \in Encodings} :
                    assert_slope(u, w, v, l, negate, 1)
          \/ assert_tangent(u, v, 0)
          \/ \E l \in WellFormedLimbs : \/ assert_lambda_squared(u, v, l, 0)
                                        \/ assert_slope(u, v, l, l, TRUE, 0)
-----------------------------------------------------------------------------
ValueOf(limbs) == (1 + bi_from_limbs(limbs)) % EmulatedModulus

(* What a gate means, in the emulated field.                               *)
Meaning(g, v) ==
    LET of(i) == ValueOf(v[i])
        is(n) == (n % EmulatedModulus) = 0
    IN  CASE g = "slope"          -> is(v[5] * of(4) - of(2) - of(6) * (of(3) - of(1)))
          [] g = "tangent"        -> is(3 * of(1) * of(1) + A - 2 * of(2) * of(3))
          [] g = "lambda_squared" -> is(of(1) + of(2) + of(4) - of(3) * of(3))
          [] g = "on_curve"       -> is(of(3) * of(3) - of(1) ^ 3 - A * of(1) - B)
          [] g = "addition"       -> is(of(1) * (1 + v[4] * of(3)) - of(2) - of(5))

(* The native and the auxiliary identities of a gate together say what the *)
(* gate means, of all limbs that range checks let pass: no quotient within *)
(* its bounds explains another value, around the native modulus or not,    *)
(* and the quotients the prover computes are within their bounds, where    *)
(* the gate is disabled too.                                               *)
GatesAreExact ==
    gate # <<"none">> =>
       /\ satisfying = {z \in WellFormedLimbs : gate[3] = 1 => Meaning(gate[1], Append(gate[2], z))}
       /\ \A z \in satisfying : WithinBounds(gate[1], Append(gate[2], z))
=============================================================================
