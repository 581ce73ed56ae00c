---------------------------- MODULE NativeGadget ----------------------------
(***************************************************************************)
(* The native gadget (circuits/src/field/native/native_gadget.rs) over the *)
(* native chip and the decomposition chip: range checks, comparisons,      *)
(* decompositions, and the bounds it remembers of cells so as not to check *)
(* them twice.                                                             *)
(*                                                                         *)
(* A state is a circuit that calls the gadget.  The assignments of its     *)
(* cells that the constraints admit, and those that the calls mean, are    *)
(* kept side by side.                                                      *)
(***************************************************************************)
EXTENDS Integers, FiniteSets, Sequences, SequencesExt

(***************************************************************************)
(* The native chip (circuits/src/field/native/native_chip.rs): what its    *)
(* instructions let the prover assign.                                     *)
(*                                                                         *)
(* An instruction is the set of results its gates admit, given the values  *)
(* of its operands: the cells the prover fills besides are searched.  An   *)
(* assertion is a predicate.                                               *)
(***************************************************************************)

CONSTANTS Modulus,          \* the native field: F::modulus
          NbArithCols       \* value_cols.len()

ASSUME NativeAssumption == /\ Modulus \in Nat \ {0, 1, 2}
                           /\ \A d \in 2 .. Modulus - 1 : Modulus % d # 0
                           /\ NbArithCols \in Nat /\ NbArithCols >= 5

F    == 0 .. Modulus - 1
Bits == {0, 1}
Mod(n) == n % Modulus

(* The smallest n with 2^n > k.                                            *)
BitLength(k) == CHOOSE n \in 0 .. k : 2 ^ n > k /\ \A m \in 0 .. n - 1 : 2 ^ m <= k
NumBits      == BitLength(Modulus)

(* What Op admits for some member of S: instructions in a row.             *)
Then(S, Op(_)) == UNION {Op(x) : x \in S}
OneOfEach(sets)  == FoldLeft(LAMBDA seqs, S : {Append(q, v) : q \in seqs, v \in S}, {<<>>}, sets)
-----------------------------------------------------------------------------
RECURSIVE Dot(_, _, _)
Dot(coeffs, values, n) == IF n = 0 THEN 0 ELSE coeffs[n] * values[n] + Dot(coeffs, values, n - 1)

(* A row of the arithmetic gate; columns that are not assigned hold 0.     *)
ArithGate(values, next, coeffs, q_next, mul, constant) ==
    0 = Mod(constant + Dot(coeffs, values, Len(coeffs)) + q_next * next
            + mul[1] * values[1] * values[2] + mul[2] * values[1] * values[3])

Row(values, coeffs, mul, constant) == ArithGate(values, 0, coeffs, 0, mul, constant)

(* The value x equal to one in a cell, and the cell with (x - shift)^-1.   *)
ShiftedInverses(x, shift) == {r \in F : Row(<<x, r, 0>>, <<0, -shift, 0>>, <<1, 0>>, -1)}

(* assign_linear_combination_aux: a term is <<coefficient, value>>; what   *)
(* does not fit in a row goes on in the first column of the next one.      *)
RECURSIVE LinearCombinationAux(_, _, _)
LinearCombinationAux(terms, constant, cols_used) ==
    LET chunk  == SubSeq(terms, 1, IF Len(terms) < cols_used THEN Len(terms) ELSE cols_used)
        rest   == SubSeq(terms, Len(chunk) + 1, Len(terms))
        values == [i \in DOMAIN chunk |-> chunk[i][2]]
        coeffs == [i \in DOMAIN chunk |-> chunk[i][1]]
        last   == rest = <<>>
        nexts  == IF last THEN {0} ELSE LinearCombinationAux(rest, 0, cols_used)
    IN  {result \in F :
           \E next \in nexts : ArithGate(<<result>> \o values \o <<0, 0>>, next, <<-1>> \o coeffs,
                                        IF last THEN 0 ELSE 1, <<0, 0>>, constant)}

LinearCombination(terms, constant) == LinearCombinationAux(terms, constant, NbArithCols - 1)

AddAndDoubleMul(a, x, b, y, c, z, k, m) ==
    {res \in F : Row(<<x, y, z, 0, res>>, <<a, b, c, 0, -1>>, m, k)}
AddAndMul(a, x, b, y, c, z, k, m) == AddAndDoubleMul(a, x, b, y, c, z, k, <<m, 0>>)

(* A factor that is the cell of 1 is left out, to the same effect.         *)
Mul[x, y, m \in F] == IF m = 0 THEN {0} ELSE AddAndMul(0, x, 0, y, 0, x, 0, m)
Add[x, y \in F]    == LinearCombination(<<<<1, x>>, <<1, y>>>>, 0)
Sub[x, y \in F]    == LinearCombination(<<<<1, x>>, <<-1, y>>>>, 0)
Negated(x)       == LinearCombination(<<<<-1, x>>>>, 0)
AddConstant(x, c)   == IF c = 0 THEN {x} ELSE LinearCombination(<<<<1, x>>>>, c)
MulByConstant(x, c) == IF c = 0 THEN {0} ELSE IF c = 1 THEN {x}
                       ELSE LinearCombination(<<<<c, x>>>>, 0)
Inv[x \in F]    == ShiftedInverses(x, 0)
Div(x, y) == Then(Inv[y], LAMBDA i : Mul[x, i, 1])

(* add_constants: what is not zero in rows of three, what is left singly.  *)
ParallelAdd(x, c) == {res \in F : Mod(x + c - res) = 0}
AddConstants(xs, constants) ==
    LET listed == SelectSeq([i \in DOMAIN xs |-> i], LAMBDA i : constants[i] # 0)
        whole  == {listed[j] : j \in 1 .. Len(listed) - (Len(listed) % 3)}
    IN  OneOfEach([i \in DOMAIN xs |-> IF constants[i] = 0 THEN {xs[i]}
                                     ELSE IF i \in whole THEN ParallelAdd(xs[i], constants[i])
                                     ELSE AddConstant(xs[i], constants[i])])

(* Square and multiply, from the lowest bit of n up; acc is <<>> before    *)
(* the first bit that is set.                                              *)
RECURSIVE PowFrom(_, _, _)
PowFrom(acc, tmp, n) ==
    LET accs == IF n % 2 = 0 THEN {acc} ELSE IF acc = <<>> THEN {<<tmp>>}
                ELSE {<<v>> : v \in Mul[acc[1], tmp, 1]}
    IN  IF n \div 2 = 0 THEN {res[1] : res \in accs}
        ELSE Then(accs, LAMBDA res :
               Then(Mul[tmp, tmp, 1], LAMBDA square : PowFrom(res, square, n \div 2)))
Pow(x, n) == IF n = 0 THEN {1} ELSE PowFrom(<<>>, x, n)
-----------------------------------------------------------------------------
AssertEqual(x, y)           == x = y
AssertNotEqual[x, y \in F]        == \E r \in F : Row(<<r, x, y>>, <<0, 0, 0>>, <<1, -1>>, -1)
AssertNotEqualToFixed(x, c) == ShiftedInverses(x, c) # {}
AssertZero(x)               == x = 0

(* The first equation gives the result when x = y, the second when x # y.  *)
EqualCells[x, y \in F] ==
    {res \in F :
       /\ \E aux \in F : Row(<<aux, x, y, 0, res>>, <<0, 0, 0, 0, 1>>, <<1, -1>>, -1)
       /\ \E zero \in AddAndDoubleMul(0, res, 0, x, 0, y, 0, <<1, -1>>) : AssertZero(zero)}
IsNotEqual[x, y \in F] ==
    {res \in F :
       /\ \E aux \in F : Row(<<aux, x, y, 0, res>>, <<0, 0, 0, 0, -1>>, <<1, -1>>, 0)
       /\ \E zero \in AddAndDoubleMul(0, res, 1, x, -1, y, 0, <<-1, 1>>) : AssertZero(zero)}
EqualToFixed[x, c \in F] ==
    {res \in F :
       /\ \E aux \in F : Row(<<aux, x, 0, 0, res>>, <<-c, 0, 0, 0, 1>>, <<1, 0>>, -1)
       /\ \E zero \in AddAndMul(-c, res, 0, x, 0, x, 0, 1) : AssertZero(zero)}
IsNotEqualToFixed[x, c \in F] ==
    {res \in F :
       /\ \E aux \in F : Row(<<aux, x, 0, 0, res>>, <<-c, 0, 0, 0, -1>>, <<1, 0>>, 0)
       /\ \E zero \in AddAndMul(c, res, 1, x, 0, x, -c, -1) : AssertZero(zero)}
IsZero(x) == EqualToFixed[x, 0]
-----------------------------------------------------------------------------
(* Bits: what AssignedBit promises is used by everything below.            *)
AssignBit == {b \in F : Row(<<b, b, 0>>, <<-1, 0, 0>>, <<1, 0>>, 0)}
ConvertToBit(x) == {b \in AssignBit : AssertEqual(x, b)}

AllOf(bits) == FoldLeft(LAMBDA acc, b : Then(acc, LAMBDA a : Mul[a, b, 1]), {Head(bits)}, Tail(bits))
AnyOf(bits)  == FoldLeft(LAMBDA acc, b : Then(acc, LAMBDA a : AddAndMul(1, a, 1, b, 0, a, 0, -1)),
                      {Head(bits)}, Tail(bits))
Xor(bits) == FoldLeft(LAMBDA acc, b : Then(acc, LAMBDA a : AddAndMul(1, a, 1, b, 0, a, 0, -2)),
                      {Head(bits)}, Tail(bits))
Not(bit)  == LinearCombination(<<<<-1, bit>>>>, 1)

BitsEqual(a, b)     == AddAndMul(-1, a, -1, b, 0, a, 1, 2)
BitsNotEqual(a, b)  == AddAndMul(1, a, 1, b, 0, a, 0, -2)
AssertBitsNotEqual(a, b) == \E diff \in Sub[a, b] : AssertNotEqualToFixed(diff, 0)

Select[cond \in Bits, x, y \in F] == AddAndDoubleMul(0, cond, 0, x, 1, y, 0, <<1, -1>>)
CondSwap(cond, x, y) ==
    {<<fst, snd>> \in F \X F :
       /\ Row(<<cond, x, y, fst, snd>>, <<0, 0, 1, 0, -1>>, <<1, -1>>, 0)
       /\ Mod(x + y - fst - snd) = 0}                      \* q_12_minus_34
CondAssertEqual(cond, x, y) == \E s \in Select[cond, x, y] : AssertEqual(s, y)

Inv0[x \in F] == Then(IsZero(x), LAMBDA is_zero :
             Then(Select[is_zero, 1, x], LAMBDA invertible :
               Then(Inv[invertible], LAMBDA inverse : Select[is_zero, 0, inverse])))

RECURSIVE LeBitsGeqThan(_, _)
LeBitsGeqThan(bits, bound) ==
    LET n == Len(bits)
        is_set == (bound \div 2 ^ (n - 1)) % 2 = 1
    IN  IF bound = 0 THEN {1}
        ELSE IF n < BitLength(bound) THEN {0}
        ELSE IF n = 1 THEN {bits[1]}
        ELSE Then(LeBitsGeqThan(Front(bits), IF is_set THEN bound - 2 ^ (n - 1) ELSE bound),
                  LAMBDA rest : IF is_set THEN AllOf(<<bits[n], rest>>) ELSE AnyOf(<<bits[n], rest>>))
LeBitsLowerThan(bits, bound) == Then(LeBitsGeqThan(bits, bound), Not)
IsCanonical(bits) == IF Len(bits) > NumBits THEN {0} ELSE LeBitsLowerThan(bits, Modulus)

CONSTANTS ByteBits,         \* 8 in the code
          NrPow2RangeCols,  \* columns of a row that are range-checked
          MaxBitLen,        \* the largest tag of the table of powers of two
          Scalars,          \* constants that calls take
          RangeBounds,      \* bounds of range checks
          Divisions,        \* <<divisor, inclusive bound of the dividend>>
          MaxGadgetCalls          \* bound: calls of a circuit

ASSUME GadgetAssumption == /\ NrPow2RangeCols < NbArithCols
                           /\ ByteBits < NumBits /\ MaxBitLen >= 1

VARIABLES circuit,          \* assignments admitted, a sequence of cells each
          meaning,          \* assignments meant
          constrained_cells,\* the bounds remembered of cells
          held,             \* <<cell, type, bits>>: AssignedBit, AssignedByte,
                            \* AssignedBounded, and the constants
          gadgetCalls

gadgetVars == <<circuit, meaning, constrained_cells, held, gadgetCalls>>
-----------------------------------------------------------------------------
(* The decomposition chip (circuits/src/field/decomposition/).  A row is   *)
(* range-checked with one tag, that of its first limb.                     *)
PaddedSizes(sizes) == sizes \o [i \in 1 .. (NrPow2RangeCols - (Len(sizes) % NrPow2RangeCols))
                                        % NrPow2RangeCols |-> 0]
Offset(sizes, i)      == FoldLeft(LAMBDA n, k : n + k, 0, SubSeq(sizes, 1, i - 1))
Coefficient(sizes, i) == IF sizes[i] = 0 THEN 0 ELSE 2 ^ Offset(sizes, i)
Tag(sizes, i)         == sizes[((i - 1) \div NrPow2RangeCols) * NrPow2RangeCols + 1]

Composes(x, limbs, sizes) ==
    x \in LinearCombinationAux([i \in DOMAIN sizes |-> <<Coefficient(sizes, i), limbs[i]>>], 0,
                               NrPow2RangeCols)

(* The limbs a prover can give for x, those of size zero left out.         *)
LimbsWithin(tags) == OneOfEach([i \in DOMAIN tags |-> 0 .. 2 ^ tags[i] - 1])
DecomposeCore(x, sizes) ==
    LET used == SelectSeq([i \in DOMAIN sizes |-> i], LAMBDA i : sizes[i] # 0)
    IN  {[j \in DOMAIN used |-> limbs[used[j]]] :
           limbs \in {l \in LimbsWithin([i \in DOMAIN sizes |-> Tag(sizes, i)]) :
                        Composes(x, l, sizes)}}

(* compute_optimal_limb_sizes: rows of up to NrPow2RangeCols limbs of one  *)
(* size; the first shortest choice is kept.                                *)
OptimalLimbSizes[bound \in 0 .. NumBits] ==
    IF bound = 0 THEN <<>>
    ELSE LET choices == {<<cols, size>> \in (1 .. NrPow2RangeCols) \X (1 .. MaxBitLen) :
                           cols * size <= bound}
             rows(c) == Append(OptimalLimbSizes[bound - c[1] * c[2]], [i \in 1 .. c[1] |-> c[2]])
             best    == {c \in choices : \A d \in choices : Len(rows(c)) <= Len(rows(d))}
         IN  rows(CHOOSE c \in best : \A d \in best : c[1] < d[1] \/ (c[1] = d[1] /\ c[2] >= d[2]))

(* assign_less_than_pow2, for every length below NumBits.                  *)
LessThanPow2 ==
    [k \in 0 .. NumBits - 1 |->
       LET sizes == FlattenSeq([i \in DOMAIN OptimalLimbSizes[k] |-> PaddedSizes(OptimalLimbSizes[k][i])])
       IN  {y \in F : DecomposeCore(y, sizes) # {}}]
AssertLessThanPow2(x, k) == x \in LessThanPow2[k]

(* Limbs too large for the table are checked one by one.                   *)
DecomposeFixedLimbSize(x, bit_length, limb_size) ==
    LET whole == [i \in 1 .. bit_length \div limb_size |-> limb_size]
        last  == IF bit_length % limb_size = 0 THEN <<>> ELSE <<bit_length % limb_size>>
        sizes == whole \o last
    IN  IF limb_size <= MaxBitLen
        THEN DecomposeCore(x, PaddedSizes(whole) \o (IF last = <<>> THEN <<>> ELSE PaddedSizes(last)))
        ELSE {limbs \in [DOMAIN sizes -> F] :
                /\ \A i \in DOMAIN limbs : AssertLessThanPow2(limbs[i], sizes[i])
                /\ Composes(x, limbs, sizes)}
-----------------------------------------------------------------------------
(* assert_lower_than_fixed: b chooses between x and x shifted down.        *)
Below ==
    [bound \in 1 .. Modulus |->
       LET k == BitLength(bound) - 1
       IN  IF 2 ^ k = bound THEN LessThanPow2[k]
           ELSE {x \in F : \E b \in AssignBit : \E shifted \in AddConstant(x, 2 ^ k - bound) :
                             \E y \in Select[b, x, shifted] : AssertLessThanPow2(y, k)}]
AssertLowerThanFixed(x, bound) == x \in Below[bound]
AssignLowerThanFixed(bound) == IF bound = 0 THEN {0} ELSE Below[bound]

MutMaxBoundInBits == NumBits - 1
MaxBoundInBits == NumBits - 2

(* x has n bits, y is a constant.                                          *)
LowerThanFixed(x, n, y) ==
    IF y >= 2 ^ n THEN {1}
    ELSE {b \in AssignBit :
            \E bx \in Mul[x, b, 1] :
            \E z \in LinearCombination(<<<<2 * y - 1, b>>, <<1, x>>, <<-2, bx>>>>, -y) :
              AssertLessThanPow2(z, n)}

(* x has m bits, y has n.                                                  *)
LowerThan(x, m, y, n) ==
    {b \in AssignBit :
       \E bx \in Mul[x, b, 1], by \in Mul[y, b, 1] :
       \E z \in LinearCombination(<<<<2, by>>, <<-1, b>>, <<1, x>>, <<-2, bx>>, <<-1, y>>>>, 0) :
         AssertLessThanPow2(z, IF m > n THEN m ELSE n)}
Leq(x, m, y, n) == Then(LowerThan(x, m, y, n), LAMBDA b1 :
                     Then(EqualCells[x, y], LAMBDA b2 : AnyOf(<<b1, b2>>)))
Geq(x, m, y, n) == Then(LowerThan(x, m, y, n), Not)

(* 0 has two decompositions as 2w + e with w at most (p - 1) / 2.          *)
Sgn0 ==
    [x \in F |->
       UNION {IF x \in LinearCombination(<<<<1, e>>, <<2, w>>>>, 0)
              THEN Then(Then(IsZero(x), Not), LAMBDA nonzero : AllOf(<<nonzero, e>>)) ELSE {} :
              e \in AssignBit, w \in AssignLowerThanFixed((Modulus + 1) \div 2)}]

ToLeBits[x \in F, n \in 1 .. NumBits, enforce_canonical \in BOOLEAN] ==
    {l \in DecomposeFixedLimbSize(x, n, 1) :
       enforce_canonical /\ n = NumBits => \E b0 \in Sgn0[x] : AssertEqual(l[1], b0)}
FromLe(limbs, width) == LinearCombination([i \in DOMAIN limbs |-> <<2 ^ (width * (i - 1)), limbs[i]>>], 0)

NumBytes == (NumBits + ByteBits - 1) \div ByteBits
ToLeBytes(x, n) ==
    LET chunk(l, i) == SubSeq(l, ByteBits * (i - 1) + 1,
                              IF ByteBits * i < NumBits THEN ByteBits * i ELSE NumBits)
    IN  IF n = NumBytes
        THEN UNION {OneOfEach([i \in 1 .. n |-> FromLe(chunk(bs, i), 1)]) : bs \in ToLeBits[x, NumBits, TRUE]}
        ELSE DecomposeFixedLimbSize(x, ByteBits * n, ByteBits)
ToLeChunks(x, width, n) == DecomposeFixedLimbSize(x, width * n, width)

Bitwise2(Op(_), x, y, n) ==
    UNION {UNION {FromLe(rs, 1) : rs \in OneOfEach([i \in 1 .. n |-> Op(<<xs[i], ys[i]>>)])} :
           xs \in ToLeBits[x, n, TRUE], ys \in ToLeBits[y, n, TRUE]}
Bnot(x, n) == IF AssertLowerThanFixed(x, 2 ^ n) THEN LinearCombination(<<<<-1, x>>>>, 2 ^ n - 1) ELSE {}

(* The divisor is not 1.                                                   *)
DivRem(x, divisor, bound) ==
    {qr \in AssignLowerThanFixed(bound \div divisor + 1) \X AssignLowerThanFixed(divisor) :
        \E sum \in LinearCombination(<<<<divisor, qr[1]>>, <<1, qr[2]>>>>, 0) :
            AssertEqual(x, sum)}
-----------------------------------------------------------------------------
GadgetInit == /\ circuit = {<<>>} /\ meaning = {<<>>}
              /\ constrained_cells = << >> /\ held = {} /\ gadgetCalls = 0

Cells == DOMAIN (CHOOSE s \in circuit : TRUE)
Fresh == Cardinality(Cells) + 1

(* A call, by the results it admits and by those it means for the values   *)
(* of its operands.                                                        *)
Perform(Admits(_), Means(_)) ==
    /\ circuit # {} /\ gadgetCalls < MaxGadgetCalls
    /\ gadgetCalls' = gadgetCalls + 1
    /\ circuit' = UNION {{s \o r : r \in Admits(s)} : s \in circuit}
    /\ meaning' = UNION {{s \o r : r \in Means(s)} : s \in meaning}

Cell(S)      == {<<v>> : v \in S}
Assertion(b) == IF b THEN {<<>>} ELSE {}
Flag(b)      == {<<IF b THEN 1 ELSE 0>>}
Nothing(s)   == {<<>>}

KeepBounds       == UNCHANGED <<constrained_cells, held>>
Hold(type, n) == held' = held \union {<<Fresh, type, n>>} /\ UNCHANGED constrained_cells
HeldAs(type)  == {h[1] : h \in {g \in held : g[2] = type}}

(* update_bound keeps the lower one.                                       *)
UpdateBound(bounds, x, bound) ==
    (x :> IF x \in DOMAIN bounds /\ bounds[x] < bound THEN bounds[x] ELSE bound) @@ bounds
Remembered(bounds, x, bound) == IF 2 ^ (BitLength(bound) - 1) = bound THEN bounds
                                ELSE UpdateBound(bounds, x, bound)
MutKnownBelow(x, bound) == x \in DOMAIN constrained_cells /\ constrained_cells[x] >= bound
KnownBelow(x, bound) == x \in DOMAIN constrained_cells /\ constrained_cells[x] <= bound
-----------------------------------------------------------------------------
Assign == Perform(LAMBDA s : Cell(F), LAMBDA s : Cell(F)) /\ KeepBounds
AssignFixed(c) ==           \* the cell of a constant is shared by all its uses
    /\ ~\E x \in HeldAs("fixed") : \A s \in circuit : s[x] = c
    /\ Perform(LAMBDA s : Cell({c}), LAMBDA s : Cell({c}))
    /\ Hold("fixed", BitLength(c))
AssignABit == Perform(LAMBDA s : Cell(AssignBit), LAMBDA s : Cell(Bits)) /\ Hold("bit", 1)
AssignAByte == /\ Perform(LAMBDA s : Cell(LessThanPow2[ByteBits]), LAMBDA s : Cell(0 .. 2 ^ ByteBits - 1))
               /\ Hold("byte", ByteBits)

AssignBelow(bound) ==
    /\ Perform(LAMBDA s : Cell(AssignLowerThanFixed(bound)), LAMBDA s : Cell(0 .. bound - 1))
    /\ constrained_cells' = Remembered(constrained_cells, Fresh, bound)
    /\ UNCHANGED held

(* A bound that is known already is not checked again.                     *)
Checked(x, bound) ==
    /\ Perform(LAMBDA s : Assertion(KnownBelow(x, bound) \/ AssertLowerThanFixed(s[x], bound)),
               LAMBDA s : Assertion(s[x] < bound))
    /\ constrained_cells' = IF KnownBelow(x, bound) THEN constrained_cells
                            ELSE UpdateBound(constrained_cells, x, bound)
AssertBelow(x, bound) == Checked(x, bound) /\ UNCHANGED held
BoundedOfElement(x, n) == /\ n <= MaxBoundInBits
                          /\ Checked(x, 2 ^ n)
                          /\ held' = held \union {<<x, "bounded", n>>}

NativeToBit(x) ==
    IF KnownBelow(x, 2)
    THEN /\ Perform(Nothing, LAMBDA s : Assertion(s[x] < 2))
         /\ held' = held \union {<<x, "bit", 1>>} /\ UNCHANGED constrained_cells
    ELSE /\ Perform(LAMBDA s : Cell(ConvertToBit(s[x])), LAMBDA s : Cell({s[x]} \intersect Bits))
         /\ held' = held \union {<<Fresh, "bit", 1>>}
         /\ constrained_cells' = UpdateBound(constrained_cells, x, 2)
NativeToByte(x) ==
    LET bytes == 0 .. 2 ^ ByteBits - 1
    IN  IF KnownBelow(x, 2 ^ ByteBits)
        THEN /\ Perform(Nothing, LAMBDA s : Assertion(s[x] \in bytes))
             /\ held' = held \union {<<x, "byte", ByteBits>>} /\ UNCHANGED constrained_cells
        ELSE /\ Perform(LAMBDA s : Cell({b \in LessThanPow2[ByteBits] : AssertEqual(s[x], b)}),
                        LAMBDA s : Cell({s[x]} \intersect bytes))
             /\ held' = held \union {<<Fresh, "byte", ByteBits>>}
             /\ constrained_cells' = LET seen == UpdateBound(constrained_cells, x, 2 ^ ByteBits)
                                     IN  UpdateBound(seen, Fresh, seen[x])
ToNative(x, n) == /\ Perform(Nothing, Nothing)
                  /\ constrained_cells' = UpdateBound(constrained_cells, x, 2 ^ n)
                  /\ UNCHANGED held

(* Equal cells share their bounds.                                         *)
AssertCellsEqual(x, y) ==
    /\ Perform(LAMBDA s : Assertion(AssertEqual(s[x], s[y])), LAMBDA s : Assertion(s[x] = s[y]))
    /\ constrained_cells' =
         LET fst == IF x \in DOMAIN constrained_cells
                    THEN UpdateBound(constrained_cells, y, constrained_cells[x])
                    ELSE constrained_cells
         IN  IF y \in DOMAIN fst THEN UpdateBound(fst, x, fst[y]) ELSE fst
    /\ UNCHANGED held
AssertCells(x, y, c) ==
    /\ \/ Perform(LAMBDA s : Assertion(AssertNotEqual[s[x], s[y]]), LAMBDA s : Assertion(s[x] # s[y]))
       \/ Perform(LAMBDA s : Assertion(AssertNotEqualToFixed(s[x], c)), LAMBDA s : Assertion(s[x] # c))
    /\ KeepBounds
-----------------------------------------------------------------------------
InverseOf(x) == CHOOSE i \in F : Mod(i * x) = 1
BitAt(n, i)  == (n \div 2 ^ i) % 2
FromBits(bs) == FoldLeft(LAMBDA n, i : n + 2 ^ (i - 1) * bs[i], 0, [i \in DOMAIN bs |-> i])
Integer(x, width, n) == [i \in 1 .. n |-> (x \div 2 ^ (width * (i - 1))) % 2 ^ width]

Arithmetic(x, y, c) ==
    /\ \/ Perform(LAMBDA s : Cell(Add[s[x], s[y]]), LAMBDA s : Cell({Mod(s[x] + s[y])}))
       \/ Perform(LAMBDA s : Cell(Sub[s[x], s[y]]), LAMBDA s : Cell({Mod(s[x] - s[y])}))
       \/ Perform(LAMBDA s : Cell(Mul[s[x], s[y], c]), LAMBDA s : Cell({Mod(c * s[x] * s[y])}))
       \/ Perform(LAMBDA s : Cell(Div(s[x], s[y])),
                  LAMBDA s : Cell(IF s[y] = 0 THEN {} ELSE {Mod(s[x] * InverseOf(s[y]))}))
       \/ Perform(LAMBDA s : Cell(AddAndMul(c, s[x], 1, s[y], -1, s[x], c, 2)),
                  LAMBDA s : Cell({Mod(c * s[x] + s[y] - s[x] + c + 2 * s[x] * s[y])}))
       \/ Perform(LAMBDA s : AddConstants(<<s[x], s[y], s[x], s[y]>>, <<c, 1, 1, 2>>),
                  LAMBDA s : {<<Mod(s[x] + c), Mod(s[y] + 1), Mod(s[x] + 1), Mod(s[y] + 2)>>})
       \/ Perform(LAMBDA s : Cell(LinearCombination([i \in 1 .. 6 |-> <<c + i, IF i < 4 THEN s[x] ELSE s[y]>>], c)),
                  LAMBDA s : Cell({Mod((3 * c + 6) * s[x] + (3 * c + 15) * s[y] + c)}))
    /\ KeepBounds
ArithmeticOfOne(x, c) ==
    /\ \/ Perform(LAMBDA s : Cell(Negated(s[x])), LAMBDA s : Cell({Mod(-s[x])}))
       \/ Perform(LAMBDA s : Cell(AddConstant(s[x], c)), LAMBDA s : Cell({Mod(s[x] + c)}))
       \/ Perform(LAMBDA s : Cell(MulByConstant(s[x], c)), LAMBDA s : Cell({Mod(c * s[x])}))
       \/ Perform(LAMBDA s : Cell(Inv[s[x]]), LAMBDA s : Cell(IF s[x] = 0 THEN {} ELSE {InverseOf(s[x])}))
       \/ Perform(LAMBDA s : Cell(Inv0[s[x]]), LAMBDA s : Cell({IF s[x] = 0 THEN 0 ELSE InverseOf(s[x])}))
       \/ Perform(LAMBDA s : Cell(Pow(s[x], c)), LAMBDA s : Cell({IF c = 0 THEN 1 ELSE Mod(s[x] ^ c)}))
    /\ KeepBounds
Equality(x, y, c) ==
    /\ \/ Perform(LAMBDA s : Cell(EqualCells[s[x], s[y]]), LAMBDA s : Flag(s[x] = s[y]))
       \/ Perform(LAMBDA s : Cell(IsNotEqual[s[x], s[y]]), LAMBDA s : Flag(s[x] # s[y]))
       \/ Perform(LAMBDA s : Cell(EqualToFixed[s[x], c]), LAMBDA s : Flag(s[x] = c))
       \/ Perform(LAMBDA s : Cell(IsNotEqualToFixed[s[x], c]), LAMBDA s : Flag(s[x] # c))
       \/ Perform(LAMBDA s : Cell(Sgn0[s[x]]), LAMBDA s : Flag(s[x] % 2 = 1))
    /\ Hold("bit", 1)

Binary(a, b) ==
    /\ {a, b} \subseteq HeldAs("bit")
    /\ \/ Perform(LAMBDA s : Cell(AllOf(<<s[a], s[b], s[a]>>)), LAMBDA s : Flag(s[a] = 1 /\ s[b] = 1))
       \/ Perform(LAMBDA s : Cell(AnyOf(<<s[a], s[b], s[a]>>)), LAMBDA s : Flag(s[a] = 1 \/ s[b] = 1))
       \/ Perform(LAMBDA s : Cell(Xor(<<s[a], s[b], s[b]>>)), LAMBDA s : Flag(s[a] = 1))
       \/ Perform(LAMBDA s : Cell(Not(s[a])), LAMBDA s : Flag(s[a] = 0))
       \/ Perform(LAMBDA s : Cell(BitsEqual(s[a], s[b])), LAMBDA s : Flag(s[a] = s[b]))
       \/ Perform(LAMBDA s : Cell(BitsNotEqual(s[a], s[b])), LAMBDA s : Flag(s[a] # s[b]))
    /\ Hold("bit", 1)
AssertBitsDiffer(a, b) ==
    /\ {a, b} \subseteq HeldAs("bit")
    /\ Perform(LAMBDA s : Assertion(AssertBitsNotEqual(s[a], s[b])), LAMBDA s : Assertion(s[a] # s[b]))
    /\ KeepBounds

Control(b, x, y) ==
    /\ b \in HeldAs("bit")
    /\ \/ Perform(LAMBDA s : Cell(Select[s[b], s[x], s[y]]), LAMBDA s : {<<s[IF s[b] = 1 THEN x ELSE y]>>})
       \/ Perform(LAMBDA s : CondSwap(s[b], s[x], s[y]),
                  LAMBDA s : {IF s[b] = 1 THEN <<s[y], s[x]>> ELSE <<s[x], s[y]>>})
       \/ Perform(LAMBDA s : Assertion(CondAssertEqual(s[b], s[x], s[y])),
                  LAMBDA s : Assertion(s[b] = 1 => s[x] = s[y]))
    /\ KeepBounds
ControlOfBytes(b, x, y) ==
    /\ b \in HeldAs("bit") /\ {x, y} \subseteq HeldAs("byte")
    /\ Perform(LAMBDA s : Cell(Select[s[b], s[x], s[y]]), LAMBDA s : {<<s[IF s[b] = 1 THEN x ELSE y]>>})
    /\ Hold("byte", ByteBits)
-----------------------------------------------------------------------------
(* Comparisons of bounded elements.  One that is known to be below y is    *)
(* not compared; the bit of a comparison is converted, so that its bound   *)
(* is remembered.                                                          *)
HoldConverted == /\ held' = held \union {<<Fresh, "bit", 1>>}
                 /\ constrained_cells' = UpdateBound(constrained_cells, Fresh, 2)

CompareFixed(x, n, y) ==
    LET known    == KnownBelow(x, y) \/ y >= 2 ^ n
        lower(s) == IF KnownBelow(x, y) THEN {1} ELSE LowerThanFixed(s[x], n, y)
    IN  /\ <<x, "bounded", n>> \in held
        /\ y < 2 ^ MaxBoundInBits
        /\ \/ /\ Perform(LAMBDA s : Cell(lower(s)), LAMBDA s : Flag(s[x] < y))
              /\ IF known THEN Hold("bit", 1) ELSE HoldConverted
           \/ /\ Perform(LAMBDA s : Cell(Then(lower(s), Not)), LAMBDA s : Flag(s[x] >= y))
              /\ Hold("bit", 1)
Compare(x, m, y, n) ==
    /\ {<<x, "bounded", m>>, <<y, "bounded", n>>} \subseteq held
    /\ \/ /\ Perform(LAMBDA s : Cell(LowerThan(s[x], m, s[y], n)), LAMBDA s : Flag(s[x] < s[y]))
          /\ HoldConverted
       \/ /\ Perform(LAMBDA s : Cell(Leq(s[x], m, s[y], n)), LAMBDA s : Flag(s[x] <= s[y]))
          /\ Hold("bit", 1)
       \/ /\ Perform(LAMBDA s : Cell(Geq(s[x], m, s[y], n)), LAMBDA s : Flag(s[x] >= s[y]))
          /\ Hold("bit", 1)

Decompose(x, n) ==
    \/ /\ Perform(LAMBDA s : ToLeBits[s[x], n, TRUE],
                  LAMBDA s : IF s[x] < 2 ^ n THEN {Integer(s[x], 1, n)} ELSE {})
       /\ held' = held \union {<<Fresh + i, "bit", 1>> : i \in 0 .. n - 1} /\ UNCHANGED constrained_cells
    \/ /\ n <= NumBytes
       /\ Perform(LAMBDA s : ToLeBytes(s[x], n),
                  LAMBDA s : IF s[x] < 2 ^ (ByteBits * n) THEN {Integer(s[x], ByteBits, n)} ELSE {})
       /\ held' = held \union {<<Fresh + i, "byte", ByteBits>> : i \in 0 .. n - 1}
       /\ UNCHANGED constrained_cells
DecomposeFreely(x, width, n) ==     \* any decomposition will do
    LET value(l) == FoldLeft(LAMBDA v, i : v + 2 ^ (width * (i - 1)) * l[i], 0, [i \in 1 .. n |-> i])
    IN  /\ \/ Perform(LAMBDA s : ToLeChunks(s[x], width, n),
                      LAMBDA s : {l \in [1 .. n -> 0 .. 2 ^ width - 1] : Mod(value(l)) = s[x]})
           \/ /\ width = 1
              /\ Perform(LAMBDA s : ToLeBits[s[x], n, FALSE],
                         LAMBDA s : {l \in [1 .. n -> Bits] : Mod(value(l)) = s[x]})
        /\ KeepBounds
Recompose(type, width, limbs) ==
    /\ ToSet(limbs) \subseteq HeldAs(type)
    /\ Perform(LAMBDA s : Cell(FromLe([i \in DOMAIN limbs |-> s[limbs[i]]], width)),
               LAMBDA s : Cell({Mod(FoldLeft(LAMBDA v, i : v + 2 ^ (width * (i - 1)) * s[limbs[i]], 0,
                                             [i \in DOMAIN limbs |-> i]))}))
    /\ constrained_cells' = FoldLeft(LAMBDA bounds, x : UpdateBound(bounds, x, 2 ^ width),
                                     constrained_cells, limbs)
    /\ UNCHANGED held

Bitwise(x, y, n) ==
    LET both(s) == s[x] < 2 ^ n /\ s[y] < 2 ^ n
        Meant(s, Op(_, _)) ==
            Cell(IF both(s) THEN {FromBits([i \in 1 .. n |-> Op(BitAt(s[x], i - 1), BitAt(s[y], i - 1))])}
                 ELSE {})
    IN  /\ \/ Perform(LAMBDA s : Cell(Bitwise2(AllOf, s[x], s[y], n)), LAMBDA s : Meant(s, LAMBDA a, b : a * b))
           \/ Perform(LAMBDA s : Cell(Bitwise2(AnyOf, s[x], s[y], n)), LAMBDA s : Meant(s, LAMBDA a, b : a + b - a * b))
           \/ Perform(LAMBDA s : Cell(Bitwise2(Xor, s[x], s[y], n)), LAMBDA s : Meant(s, LAMBDA a, b : (a + b) % 2))
        /\ KeepBounds
Negation(x, n) ==
    /\ Perform(LAMBDA s : Cell(IF KnownBelow(x, 2 ^ n)
                               THEN LinearCombination(<<<<-1, s[x]>>>>, 2 ^ n - 1) ELSE Bnot(s[x], n)),
               LAMBDA s : Cell(IF s[x] < 2 ^ n THEN {2 ^ n - 1 - s[x]} ELSE {}))
    /\ constrained_cells' = UpdateBound(constrained_cells, x, 2 ^ n)
    /\ UNCHANGED held

Canonicity(limbs, bound) ==
    /\ ToSet(limbs) \subseteq HeldAs("bit")
    /\ LET bs(s) == [i \in DOMAIN limbs |-> s[limbs[i]]]
       IN  \/ Perform(LAMBDA s : Cell(LeBitsLowerThan(bs(s), bound)), LAMBDA s : Flag(FromBits(bs(s)) < bound))
           \/ Perform(LAMBDA s : Cell(IsCanonical(bs(s))),
                      LAMBDA s : Flag(Len(limbs) <= NumBits /\ FromBits(bs(s)) < Modulus))
    /\ Hold("bit", 1)

Divide(x, division) ==
    /\ \A s \in circuit : s[x] <= division[2]         \* the caller's responsibility
    /\ Perform(LAMBDA s : DivRem(s[x], division[1], division[2]),
               LAMBDA s : {<<s[x] \div division[1], s[x] % division[1]>>})
    /\ constrained_cells' = LET r == Remembered(constrained_cells, Fresh + 1, division[1])
                            IN  Remembered(r, Fresh, division[2] \div division[1] + 1)
    /\ UNCHANGED held
-----------------------------------------------------------------------------
(* Calls on inputs, and on what calls gave: a circuit computes once, on    *)
(* inputs and on cells that it may have checked, and may check the result. *)
Input == \/ Assign \/ AssignABit \/ AssignAByte
         \/ \E c \in Scalars : AssignFixed(c)
         \/ \E bound \in RangeBounds : AssignBelow(bound)

Check == \E x \in Cells :
    \/ \E bound \in RangeBounds : AssertBelow(x, bound)
    \/ \E n \in 1 .. MaxBoundInBits : BoundedOfElement(x, n)
    \/ NativeToBit(x) \/ NativeToByte(x)
    \/ x \in HeldAs("bit") /\ ToNative(x, 1)
    \/ x \in HeldAs("byte") /\ ToNative(x, ByteBits)
    \/ \E y \in Cells \ {x} : AssertCellsEqual(x, y) \/ \E c \in Scalars : AssertCells(x, y, c)

Compute ==
    \/ \E x, y \in Cells, c \in Scalars :
         Arithmetic(x, y, c) \/ ArithmeticOfOne(x, c) \/ Equality(x, y, c)
    \/ \E a, b \in HeldAs("bit") :
         Binary(a, b) \/ AssertBitsDiffer(a, b) \/ Recompose("bit", 1, <<a, b, a>>)
         \/ \E bound \in Scalars : Canonicity(<<a, b, a, b>>, bound)
    \/ \E b \in HeldAs("bit"), x, y \in Cells : Control(b, x, y) \/ ControlOfBytes(b, x, y)
    \/ \E a, b \in HeldAs("byte") : Recompose("byte", ByteBits, <<a, b>>)
    \/ \E h \in held : \/ \E y \in Scalars : CompareFixed(h[1], h[3], y)
                       \/ \E g \in held : Compare(h[1], h[3], g[1], g[3])
    \/ \E x \in Cells :
         \/ \E n \in 1 .. NumBits : Decompose(x, n)
         \/ \E width \in 1 .. NumBits - 1, n \in 1 .. 2 : DecomposeFreely(x, width, n)
         \/ \E y \in Cells : Bitwise(x, y, NumBits - 1)
         \/ Negation(x, NumBits - 2)
         \/ \E division \in Divisions : Divide(x, division)
-----------------------------------------------------------------------------
(* The constraints admit exactly what the calls mean, whatever calls came  *)
(* before: no more (soundness) and no less (completeness).  (The gadget    *)
(* leaves checks out when it remembers a bound.)                           *)
GadgetIsExact == circuit = meaning

(* What the gadget remembers of a cell and what the type of a cell         *)
(* promises holds of every assignment that the constraints admit.          *)
(* (update_bound is called before the constraint is made, and unsafe       *)
(* conversions make none.)                                                 *)
BoundsAreEnforced ==
    \A s \in circuit :
        /\ \A x \in DOMAIN constrained_cells : s[x] < constrained_cells[x]
        /\ \A h \in held : s[h[1]] < 2 ^ h[3]
=============================================================================
