---------------------------- MODULE BigUintBounds ----------------------------
(***************************************************************************)
(* The bounds on the limbs of big unsigned integers                        *)
(* (circuits/src/biguint/biguint_gadget.rs, types.rs).  The size of a      *)
(* number is the sequence of the bounds, in bits, of its limbs.            *)
(***************************************************************************)
EXTENDS Integers, Sequences, SequencesExt

CONSTANT LOG2_BASE

Larger(a, b)   == IF a > b THEN a ELSE b
Smaller(a, b)  == IF a < b THEN a ELSE b
div_ceil(a, b) == (a + b - 1) \div b
bits(n)        == LET b[m \in 0 .. n] == IF m = 0 THEN 0 ELSE 1 + b[m \div 2] IN b[n]
Base           == 2 ^ LOG2_BASE
Upto(n)        == [i \in 1 .. n |-> i]
-----------------------------------------------------------------------------
(* Bounds.                                                                 *)
bound_of_addition(b1, b2) ==
    IF b1 = 0 THEN b2 ELSE IF b2 = 0 THEN b1 ELSE 1 + Larger(b1, b2)
nb_bits(size) == bits(FoldRight(LAMBDA b, acc : acc * Base + 2 ^ b - 1, size, 0))
is_normalized(size) == \A i \in DOMAIN size : size[i] <= LOG2_BASE
BoundsOf(n) ==
    LET nb_limbs == div_ceil(Larger(n, 1), LOG2_BASE)
    IN  [i \in 1 .. nb_limbs |-> IF i = nb_limbs THEN ((n - 1) % LOG2_BASE) + 1 ELSE LOG2_BASE]
NormalizedSize(size) ==
    IF is_normalized(size) THEN size
    ELSE [i \in 1 .. div_ceil(nb_bits(size), LOG2_BASE) |-> LOG2_BASE]

\* size[i] where there is one; of an absent limb, nothing.
At(s, i) == IF i \in DOMAIN s THEN s[i] ELSE 0
SumSize(s, t) ==
    [i \in 1 .. Larger(Len(s), Len(t)) |->
       IF i \in DOMAIN s \cap DOMAIN t THEN bound_of_addition(s[i], t[i]) ELSE At(s, i) + At(t, i)]
\* The pairs of limbs that meet at place k of a product.
Places(m, n, k) == SelectSeq(Upto(m), LAMBDA i : k + 1 - i \in 1 .. n)
ProductSize(s, t) ==
    [k \in 1 .. Len(s) + Len(t) - 1 |->
       FoldLeft(LAMBDA acc, i : bound_of_addition(acc, s[i] + t[k + 1 - i]), 0, Places(Len(s), Len(t), k))]
SquareSize(s) ==
    [k \in 1 .. 2 * Len(s) - 1 |->
       FoldLeft(LAMBDA acc, i : bound_of_addition(acc, s[i] + s[k + 1 - i] + (IF 2 * i = k + 1 THEN 0 ELSE 1)),
                0, SelectSeq(Places(Len(s), Len(s), k), LAMBDA i : 2 * i <= k + 1))]
=============================================================================
