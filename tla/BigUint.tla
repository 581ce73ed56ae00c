------------------------------- MODULE BigUint -------------------------------
(***************************************************************************)
(* Unsigned integers in limbs over the native field                        *)
(* (circuits/src/biguint/biguint_gadget.rs, types.rs).  The instructions   *)
(* of the native gadget are taken to be exact.  A number has its limbs,    *)
(* little-endian, a bound on the bits of each, and the cells they are in,  *)
(* by which mul knows a square.                                            *)
(***************************************************************************)
EXTENDS BigUintBounds, ChipCalls

CONSTANT NativeModulus

VARIABLE numbers        \* assigned so far

bigVars == <<numbers, call>>

NativeBits     == bits(NativeModulus)
Then(S, op(_)) == UNION {op(s) : s \in S}
-----------------------------------------------------------------------------
(* Numbers.  The new cells of an operation are named after its result, and *)
(* those of its k-th part after both; cells of constants, after nothing.   *)
Part(name, k) == 10 * name + k
Number(cells, limbs, size) == [cells |-> cells, limbs |-> limbs, size |-> size]
New(name, limbs, size) == Number([i \in DOMAIN limbs |-> <<name, i>>], limbs, size)
ValueOf(limbs) == FoldRight(LAMBDA l, acc : acc * Base + l, limbs, 0)
biguint_to_limbs(n, nb_limbs) == [i \in 1 .. nb_limbs |-> (n \div Base ^ (i - 1)) % Base]
Padded(limbs, n) == [i \in 1 .. n |-> At(limbs, i)]

\* All limbs within their bounds.
Fit(size) == FoldLeft(LAMBDA S, b : {Append(s, l) : s \in S, l \in 0 .. 2 ^ b - 1}, {<<>>}, size)
assign_bounded(name, n) == {New(name, limbs, BoundsOf(n)) : limbs \in Fit(BoundsOf(n))}
assign_fixed_biguint(c) ==
    LET limbs == biguint_to_limbs(c, Len(BoundsOf(Larger(bits(c), 1))))
    IN  Number([i \in DOMAIN limbs |-> <<0, limbs[i]>>], limbs, BoundsOf(Larger(bits(c), 1)))

\* The quotients and remainders of x by the base: r in the base, and of q,
\* equal to (x - r) / Base in the field, so many bits as x has besides.
InverseOfBase == (((NativeModulus + 1) \div 2) ^ LOG2_BASE) % NativeModulus
div_rem_native_by_base(x, bound) ==
    {qr \in {<<((x - r) * InverseOfBase) % NativeModulus, r>> : r \in 0 .. Base - 1} :
       qr[1] < 2 ^ (Larger(bound, LOG2_BASE) - LOG2_BASE)}

normalize(name, x) ==
    IF is_normalized(x.size) THEN {x}
    ELSE LET size == NormalizedSize(x.size)
             carried(s, i) ==
                LET payload_bound == bound_of_addition(s.bound, At(x.size, i))
                IN  IF payload_bound >= NativeBits THEN {}      \* the code panics
                    ELSE {[limbs |-> Append(s.limbs, qr[2]), carry |-> qr[1],
                           bound |-> Larger(payload_bound, LOG2_BASE) - LOG2_BASE] :
                            qr \in div_rem_native_by_base((s.carry + At(x.limbs, i)) % NativeModulus,
                                                          payload_bound)}
         IN  {New(name, s.limbs, size) :
                s \in {t \in FoldLeft(LAMBDA S, i : Then(S, LAMBDA t : carried(t, i)),
                                      {[limbs |-> <<>>, carry |-> 0, bound |-> 0]}, Upto(Len(size))) :
                         t.carry = 0}}

add(name, x, y) ==
    LET both == 1 .. Smaller(Len(x.limbs), Len(y.limbs))
        rest == IF Len(x.limbs) > Len(y.limbs) THEN x ELSE y
        size == SumSize(x.size, y.size)
    IN  normalize(name,
          Number([i \in DOMAIN size |-> IF i \in both THEN <<name, i>> ELSE rest.cells[i]],
                 [i \in DOMAIN size |-> (At(x.limbs, i) + At(y.limbs, i)) % NativeModulus], size))

square(name, x) ==
    normalize(name,
      New(name,
          [k \in 1 .. 2 * Len(x.limbs) - 1 |->
             FoldLeft(LAMBDA acc, i : acc + x.limbs[i] * x.limbs[k + 1 - i], 0,
                      Places(Len(x.limbs), Len(x.limbs), k)) % NativeModulus],
          SquareSize(x.size)))

\* PartialEq: the cells that both have.
SameCells(x, y) == \A i \in DOMAIN x.cells \cap DOMAIN y.cells : x.cells[i] = y.cells[i]
mul(name, x, y) ==
    IF SameCells(x, y) THEN square(name, x)
    ELSE normalize(name,
           New(name,
               [k \in 1 .. Len(x.limbs) + Len(y.limbs) - 1 |->
                  FoldLeft(LAMBDA acc, i : acc + x.limbs[i] * y.limbs[k + 1 - i], 0,
                           Places(Len(x.limbs), Len(y.limbs), k)) % NativeModulus],
               ProductSize(x.size, y.size)))

assert_equal(x, y) ==
    LET n == Larger(Len(x.limbs), Len(y.limbs)) IN Padded(x.limbs, n) = Padded(y.limbs, n)
is_equal(x, y) == assert_equal(x, y)
\* A constant of more limbs panics in the assertion, and differs in the test.
is_equal_to_fixed(x, c) ==
    LET nb_limbs == div_ceil(bits(c), LOG2_BASE)
    IN  Len(x.limbs) >= nb_limbs /\ x.limbs = biguint_to_limbs(c, Len(x.limbs))
select(name, cond, x, y) ==
    LET n == Larger(Len(x.limbs), Len(y.limbs))
    IN  New(name, Padded(IF cond = 1 THEN x.limbs ELSE y.limbs, n),
            [i \in 1 .. n |-> Larger(At(x.size, i), At(y.size, i))])
\* From the least significant limb to the most.
geq(x, y) ==
    FoldLeft(LAMBDA acc, i : At(x.limbs, i) > At(y.limbs, i) \/ (At(x.limbs, i) = At(y.limbs, i) /\ acc),
             TRUE, Upto(Larger(Len(x.limbs), Len(y.limbs))))
lower_than(x, y) == ~geq(x, y)

sub(name, x, y) ==
    {res \in assign_bounded(name, nb_bits(x.size)) : \E z \in add(Part(name, 2), res, y) : assert_equal(x, z)}
div_rem(name, x, y) ==
    {qr \in assign_bounded(name, nb_bits(x.size))
              \X {r \in assign_bounded(Part(name, 1), nb_bits(y.size)) : lower_than(r, y)} :
       \E q_times_y \in mul(Part(name, 3), qr[1], y) : \E z \in add(Part(name, 2), q_times_y, qr[2]) : assert_equal(x, z)}

Remainders(name, products, m) == {qr[2] : qr \in Then(products, LAMBDA p : div_rem(name, p, m))}
mod_mul(name, x, y, m)  == Remainders(name, mul(Part(name, 4), x, y), m)
mod_square(name, x, m)  == Remainders(name, square(Part(name, 4), x), m)
\* Square and multiply: pairs of the product, if any, and x^(2^i).
mod_exp(name, x, n, m) ==
    IF n = 0 THEN {assign_fixed_biguint(1)}
    ELSE LET multiplied(s, i) ==
                IF (n \div 2 ^ i) % 2 = 0 THEN {s}
                ELSE IF s[1] = <<>> THEN {<<<<s[2]>>, s[2]>>}
                ELSE {<<<<r>>, s[2]>> : r \in mod_mul(Part(name, i), s[1][1], s[2], m)}
             steps[i \in 0 .. bits(n) - 1] ==
                IF i = 0 THEN multiplied(<<<<>>, x>>, 0)
                ELSE Then(UNION {{<<s[1], t>> : t \in mod_square(Part(Part(name, i), 5), s[2], m)} : s \in steps[i - 1]},
                          LAMBDA s : multiplied(s, i))
         IN  {s[1][1] : s \in steps[bits(n) - 1]}

to_le_bits(x) ==
    [i \in 1 .. LOG2_BASE * Len(x.limbs) |->
       (x.limbs[((i - 1) \div LOG2_BASE) + 1] \div 2 ^ ((i - 1) % LOG2_BASE)) % 2]
from_le_bits(name, le_bits) ==
    LET chunk(i) == SubSeq(le_bits, LOG2_BASE * (i - 1) + 1, Smaller(LOG2_BASE * i, Len(le_bits)))
        chunks   == 1 .. div_ceil(Len(le_bits), LOG2_BASE)
    IN  New(name, [i \in chunks |-> FoldRight(LAMBDA b, acc : 2 * acc + b, chunk(i), 0)],
            [i \in chunks |-> Len(chunk(i))])
as_public_input(k, n) == biguint_to_limbs(k, div_ceil(n, LOG2_BASE))
-----------------------------------------------------------------------------
(* A number that breaks its bounds stands for nothing.                     *)
MeaningOf(x) == IF \A i \in DOMAIN x.limbs : x.limbs[i] < 2 ^ x.size[i] THEN ValueOf(x.limbs) ELSE -1
N(i) == numbers[i]
V(i) == ValueOf(numbers[i].limbs)

BigInit == numbers = <<>> /\ call = NoCall

Here == Len(numbers) + 1
Gives(results, meant) ==
    /\ numbers # <<>> => call.admitted # {}
    /\ Called({<<MeaningOf(r)>> : r \in results}, {<<m>> : m \in meant}, TRUE)
    /\ \/ results = {} /\ UNCHANGED numbers
       \/ \E r \in results : numbers' = Append(numbers, r)
Checks(admitted, meant) == Called(admitted, meant, TRUE) /\ UNCHANGED numbers

AssignBounded(n) == Gives(assign_bounded(Here, n), 0 .. 2 ^ n - 1)
AssignFixedBig(c) == Gives({assign_fixed_biguint(c)}, {c})
FromLeBits(le_bits) == Gives({from_le_bits(Here, le_bits)}, {FoldRight(LAMBDA b, acc : 2 * acc + b, le_bits, 0)})
AddBig(i, j) == Gives(add(Here, N(i), N(j)), {V(i) + V(j)})
SubBig(i, j) == Gives(sub(Here, N(i), N(j)), {V(i) - V(j)} \cap (0 .. V(i)))
MulBig(i, j) == Gives(mul(Here, N(i), N(j)), {V(i) * V(j)})
SelectBig(b, i, j) == Gives({select(Here, b, N(i), N(j))}, {IF b = 1 THEN V(i) ELSE V(j)})
ModExp(i, n, j) ==
    Gives(mod_exp(Here, N(i), n, N(j)), IF V(j) = 0 THEN {} ELSE {(IF n = 0 THEN 1 ELSE V(i) ^ n) % V(j)})

DivRem(i, j) ==
    Checks({<<MeaningOf(qr[1]), MeaningOf(qr[2])>> : qr \in div_rem(Here, N(i), N(j))},
           IF V(j) = 0 THEN {} ELSE {<<V(i) \div V(j), V(i) % V(j)>>})
ToLeBits(i) ==
    Checks({to_le_bits(N(i))}, {[k \in 1 .. LOG2_BASE * Len(N(i).limbs) |-> (V(i) \div 2 ^ (k - 1)) % 2]})
IsEqualBig(i, j)        == Checks(Holds(is_equal(N(i), N(j))), Holds(V(i) = V(j)))
IsEqualToFixedBig(i, c) == Checks(Holds(is_equal_to_fixed(N(i), c)), Holds(V(i) = c))
LowerThan(i, j)         == Checks(Holds(lower_than(N(i), N(j))), Holds(V(i) < V(j)))
\* Called with another bound than that of the number, it is an error; and the
\* verifier panics on a number of more limbs.
ConstrainAsPublicInputBig(i, k) ==
    /\ k < Base ^ div_ceil(nb_bits(N(i).size), LOG2_BASE)
    /\ Checks(Holds(N(i).limbs = as_public_input(k, nb_bits(N(i).size))), Holds(V(i) = k))
=============================================================================
