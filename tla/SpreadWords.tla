----------------------------- MODULE SpreadWords -----------------------------
(***************************************************************************)
(* The arithmetic the SHA-2 and RIPEMD-160 chips share (hash/utils.rs).  A *)
(* word is the set of the positions of its one bits, position 0 the least  *)
(* significant.  Its spread form has those positions as digits to base 4,  *)
(* so a sum of at most three spread words has digits 0 to 3 and splits in  *)
(* one way only into even bits and, twice as heavy, odd bits.  A limb of a *)
(* word is a set of positions below its length, which the spread table     *)
(* enforces: the table holds a row for every value of every length, and    *)
(* the length is the tag, a fixed cell of the lookup.                      *)
(***************************************************************************)
EXTENDS Integers, Sequences, FiniteSets

Bit(n, p) == (n \div 2^p) % 2 = 1

\* Words of big-endian and of little-endian bytes.
FromBeBytes(bytes) ==
    {p \in 0 .. 8 * Len(bytes) - 1 : Bit(bytes[Len(bytes) - (p \div 8)], p % 8)}
FromLeBytes(bytes) == {p \in 0 .. 8 * Len(bytes) - 1 : Bit(bytes[p \div 8 + 1], p % 8)}

\* The sum of the lengths after the i-th: the weight of a big-endian limb.
RECURSIVE WeightAfter(_, _)
WeightAfter(lengths, i) ==
    IF i = Len(lengths) THEN 0 ELSE lengths[i + 1] + WeightAfter(lengths, i + 1)

\* The limbs of a word cut into the given lengths, the most significant first.
u32_in_be_limbs(word, lengths) ==
    [i \in DOMAIN lengths |->
        LET low == WeightAfter(lengths, i)
        IN {p - low : p \in {q \in word : low <= q /\ q < low + lengths[i]}}]

\* The weights of a decomposition gate are those of limbs of these lengths:
\* then the gate and the table leave one choice of limbs for every word.
Tiles(weights, lengths) == \A i \in DOMAIN lengths : weights[i] = WeightAfter(lengths, i)

\* Digit p of the sum of the terms, each shifted up by its exponent: how many
\* of them have a one there.  With the exponents as powers of four of spread
\* limbs, or as powers of two of plain ones.
PowIp(exponents, terms) ==
    LET top == {0} \cup UNION {{exponents[i] + p : p \in terms[i]} : i \in DOMAIN terms}
        max == CHOOSE p \in top : \A q \in top : q <= p
    IN [p \in 0 .. max |-> Cardinality({i \in DOMAIN terms : p - exponents[i] \in terms[i]})]

\* The digits of such a sum from position p on, least first, after carrying:
\* as many as the number has.
RECURSIVE Carried(_, _, _, _)
Carried(digits, base, p, carry) ==
    IF p \notin DOMAIN digits /\ carry = 0 THEN <<>>
    ELSE LET t == carry + (IF p \in DOMAIN digits THEN digits[p] ELSE 0)
         IN <<t % base>> \o Carried(digits, base, p + 1, t \div base)
Settle(digits, base) == Carried(digits, base, 0, 0)

\* The positions below n where a settled sum has one of the values.
OnesOf(settled, values, n) ==
    {p \in 0 .. n - 1 : p < Len(settled) /\ settled[p + 1] \in values}

\* The even or the odd bits that a gate  sum = evn + 2 * odd  accepts for
\* spread words of n bits: none when the sum does not fit.
get_even_and_odd_bits(settled, parity, n) ==
    OnesOf(settled, IF parity = "evn" THEN {1, 3} ELSE {2, 3}, n)

\* The sum of words modulo 2^n, with a carry that fits its tag.
SumOf(words) == Settle(PowIp([i \in DOMAIN words |-> 0], words), 2)
AddMod(settled, n, carry_bits) ==
    [word |-> OnesOf(settled, {1}, n), ok |-> Len(settled) <= n + carry_bits]

\* The spread form of the negation: the mask of all even bits minus the word.
negate_spreaded(word, n) == (0 .. n - 1) \ word

\* A sum of words, decomposed: its plain limbs, as long as their tags, and its
\* spread form, which a second gate combines from their spread limbs.
Recombined(sum, limbs, lengths, weights, n) ==
    [plain |-> sum.word, limbs |-> limbs,
     sprdd |-> OnesOf(Settle(PowIp(weights, limbs), 4), {1}, n),
     ok    |-> Tiles(weights, lengths) /\ sum.ok]
Limbed(sum, lengths, weights, n) ==
    Recombined(sum, u32_in_be_limbs(sum.word, lengths), lengths, weights, n)
Prepared(summands, lengths, weights, n) ==
    Limbed(AddMod(SumOf(summands), n, 3), lengths, weights, n)

\* The same cells, assigned from a constant.
Fixed(word, lengths) ==
    [plain |-> word, sprdd |-> word, limbs |-> u32_in_be_limbs(word, lengths), ok |-> TRUE]

\* A sum of rotations: the table lists the limbs of every rotation, by their
\* place in the word, and the power of four each is weighted by.
RotationSum(table, limbs) ==
    PowIp(table.exponents, [i \in DOMAIN table.limbs |-> limbs[table.limbs[i]]])

\* The even or the odd bits of a sum, kept in limbs of their own: what the
\* gate accepts, and whether the sum the prover splits is the gate's.
HalfOf(gate, witness, parity, lengths, weights, n) ==
    LET settled == Settle(gate, 4)
    IN [word |-> get_even_and_odd_bits(settled, parity, n),
        ok   |-> gate = witness /\ Len(settled) <= n /\ Tiles(weights, lengths)]
=============================================================================
