---------------------------- MODULE Ripemd160Chip ----------------------------
(***************************************************************************)
(* The RIPEMD-160 chip (hash/ripemd160).  Its words are kept plain and     *)
(* spread anew for every function; a word is what the gates accept, and    *)
(* "ok" says whether the prover's values are among them.                   *)
(***************************************************************************)
EXTENDS SpreadWords

CONSTANTS K, K_PRIME,   \* five words each
          IV,           \* five words
          Messages      \* sequences of bytes

VARIABLE ripemd160

\* Which message word every step takes, and by how much it rotates.
R == << <<0, 1, 2, 3, 4, 5, 6, 7, 8, 9, 10, 11, 12, 13, 14, 15>>,
        <<7, 4, 13, 1, 10, 6, 15, 3, 12, 0, 9, 5, 2, 14, 11, 8>>,
        <<3, 10, 14, 4, 9, 15, 8, 1, 2, 7, 0, 6, 13, 11, 5, 12>>,
        <<1, 9, 11, 10, 0, 8, 12, 4, 13, 3, 7, 15, 14, 5, 6, 2>>,
        <<4, 0, 5, 9, 7, 12, 2, 10, 14, 1, 3, 8, 11, 6, 15, 13>> >>
R_PRIME == << <<5, 14, 7, 0, 9, 2, 11, 4, 13, 6, 15, 8, 1, 10, 3, 12>>,
              <<6, 11, 3, 7, 0, 13, 5, 10, 14, 15, 8, 12, 4, 9, 1, 2>>,
              <<15, 5, 1, 3, 7, 14, 6, 9, 11, 8, 12, 2, 10, 0, 4, 13>>,
              <<8, 6, 4, 1, 3, 11, 15, 0, 5, 12, 2, 13, 9, 7, 10, 14>>,
              <<12, 15, 10, 4, 1, 5, 8, 7, 6, 2, 13, 14, 0, 3, 9, 11>> >>
S == << <<11, 14, 15, 12, 5, 8, 7, 9, 11, 13, 14, 15, 6, 7, 9, 8>>,
        <<7, 6, 8, 13, 11, 9, 7, 15, 7, 12, 15, 9, 11, 7, 13, 12>>,
        <<11, 13, 6, 7, 14, 9, 13, 15, 14, 8, 13, 6, 5, 12, 7, 5>>,
        <<11, 12, 14, 15, 14, 15, 9, 8, 9, 14, 5, 6, 8, 6, 5, 12>>,
        <<9, 15, 5, 11, 6, 8, 13, 12, 5, 12, 13, 14, 11, 8, 5, 6>> >>
S_PRIME == << <<8, 9, 9, 11, 13, 15, 15, 5, 7, 7, 8, 11, 14, 14, 12, 6>>,
              <<9, 13, 15, 7, 12, 8, 9, 11, 7, 7, 12, 7, 6, 15, 13, 11>>,
              <<9, 7, 15, 11, 8, 6, 6, 14, 12, 13, 5, 14, 13, 13, 7, 5>>,
              <<15, 5, 8, 11, 14, 14, 6, 14, 6, 9, 12, 9, 12, 5, 15, 8>>,
              <<8, 5, 12, 9, 12, 5, 14, 6, 8, 13, 6, 5, 15, 13, 11, 11>> >>
At(table, j) == table[j \div 16 + 1][(j % 16) + 1]

Word(w, ok) == [word |-> w, ok |-> ok]

(***************************************************************************)
(* Sums of spread words.  The even part or the odd part is the output, in  *)
(* limbs of 11, 11 and 10 bits.                                            *)
(***************************************************************************)
assign_sprdd_11_11_10(sum, parity) ==
    HalfOf(sum, sum, parity, <<11, 11, 10>>, <<21, 10, 0>>, 32)
Spread3(x, y, z) == PowIp(<<0, 0, 0>>, <<x, y, z>>)

\* The spread form of a word: the sum whose even part is the word and whose
\* odd part, copied from zeros, is empty.
prepare_spreaded(x) == x

and(x, y)           == assign_sprdd_11_11_10(Spread3(x, y, {}), "odd")
f_type_one(x, y, z) == assign_sprdd_11_11_10(Spread3(x, y, z), "evn")
xor(x, y)           == f_type_one(x, y, {})

\* Two odd parts without a common bit, added as field elements.
Together(XY, nXZ) ==
    LET ret == Settle(PowIp(<<0, 0>>, <<XY.word, nXZ.word>>), 2)
    IN Word(OnesOf(ret, {1}, 32), XY.ok /\ nXZ.ok /\ Len(ret) <= 32)
f_type_two(x, y, z) == Together(and(x, y), and(negate_spreaded(x, 32), z))

XorOf(temp1, temp2) ==
    LET both == xor(prepare_spreaded(temp1.word), prepare_spreaded(temp2.word))
    IN Word(both.word, temp1.ok /\ temp2.ok /\ both.ok)
f_type_three(x, y, z) ==
    LET nY == negate_spreaded(y, 32) IN XorOf(f_type_one(x, nY, z), and(x, nY))

f(idx, X, Y, Z) ==
    LET x == prepare_spreaded(X)
        y == prepare_spreaded(Y)
        z == prepare_spreaded(Z)
    IN CASE idx \in 0 .. 15  -> f_type_one(x, y, z)
         [] idx \in 16 .. 31 -> f_type_two(x, y, z)
         [] idx \in 32 .. 47 -> f_type_three(x, y, z)
         [] idx \in 48 .. 63 -> f_type_two(z, x, y)
         [] idx \in 64 .. 79 -> f_type_three(y, z, x)

\* A sum of at most four words, its carry a two-bit tag.
add_mod_2_32(summands) ==
    LET sum == AddMod(SumOf(summands), 32, 2) IN Word(sum.word, Len(summands) <= 4 /\ sum.ok)

(***************************************************************************)
(* Rotation to the left.  The word is cut into four limbs so that the      *)
(* first k of them are the bits that wrap around: the k-th full limb is    *)
(* split in two, of which the first may have no bit at all.                *)
(***************************************************************************)
MAX_LIMB  == 11
LAST_LIMB == 10
limb_lengths(rot) ==
    LET a == rot % MAX_LIMB
        k == rot \div MAX_LIMB + 1
    IN [lengths |-> [i \in 1 .. 4 |-> IF i = k THEN a
                                      ELSE IF i = k + 1 THEN MAX_LIMB - a
                                      ELSE IF i = 4 THEN LAST_LIMB ELSE MAX_LIMB],
        k |-> k]

RotateLeft(s, k) == [i \in DOMAIN s |-> s[((i + k - 1) % Len(s)) + 1]]
compute_coeffs(lengths) == [i \in DOMAIN lengths |-> WeightAfter(lengths, i)]

\* The exponents of two that make up the word and the rotated word.
limb_coeffs(rot) ==
    LET cut == limb_lengths(rot)
        k   == cut.k
    IN [coeffs     |-> compute_coeffs(cut.lengths),
        coeffs_rot |-> RotateLeft(compute_coeffs(RotateLeft(cut.lengths, k)), 4 - k)]

left_rotate(X, rot) ==
    LET lengths == limb_lengths(rot).lengths
        limbs   == u32_in_be_limbs(X, lengths)
        coeffs  == limb_coeffs(rot)
        rotated == Settle(PowIp(coeffs.coeffs_rot, limbs), 2)
    IN Word(OnesOf(rotated, {1}, 32),
            rot \in 1 .. 15 /\ Tiles(coeffs.coeffs, lengths) /\ Len(rotated) <= 32
            /\ \A i \in 1 .. 4 : lengths[i] \in 0 .. MAX_LIMB)

(***************************************************************************)
(* The computation.                                                        *)
(***************************************************************************)
pad(bytes) ==
    LET l == 8 * Len(bytes)
        k == 512 - ((l + 65) % 512)
    IN bytes \o <<128>> \o [i \in 1 .. k \div 8 |-> 0]
       \o [i \in 1 .. 8 |-> IF i > 3 THEN 0 ELSE (l \div 256^(i - 1)) % 256]

block_from_bytes(bytes) == [j \in 1 .. 16 |-> FromLeBytes(SubSeq(bytes, 4 * j - 3, 4 * j))]

\* One line of a step, from the value of its function.
Line(h, fBCD, word, k, rot) ==
    LET sum  == add_mod_2_32(<<h[1], fBCD.word, word, k>>)
        rotd == left_rotate(sum.word, rot)
        T    == add_mod_2_32(<<rotd.word, h[5]>>)
        D    == left_rotate(h[3], 10)
    IN [h  |-> <<h[5], T.word, h[2], D.word, h[4]>>,
        ok |-> fBCD.ok /\ sum.ok /\ rotd.ok /\ T.ok /\ D.ok]

ChipInit ==
    \E m \in Messages : ripemd160 = [bytes |-> pad(m), block |-> <<>>, j |-> 0, state |-> IV,
                                     temp |-> IV, temp_prime |-> IV, satisfied |-> TRUE]

StartBlock ==
    /\ ripemd160.block = <<>> /\ ripemd160.bytes # <<>>
    /\ ripemd160' = [ripemd160 EXCEPT
           !.bytes = SubSeq(@, 65, Len(@)), !.block = block_from_bytes(SubSeq(ripemd160.bytes, 1, 64)),
           !.temp = ripemd160.state, !.temp_prime = ripemd160.state]

round_function ==
    LET j == ripemd160.j
        l == ripemd160.temp
        r == ripemd160.temp_prime
    IN /\ ripemd160.block # <<>> /\ j < 80
       /\ \E fl \in {f(j, l[2], l[3], l[4])}, fr \in {f(79 - j, r[2], r[3], r[4])} :
          \E left  \in {Line(l, fl, ripemd160.block[At(R, j) + 1], K[j \div 16 + 1], At(S, j))},
             right \in {Line(r, fr, ripemd160.block[At(R_PRIME, j) + 1], K_PRIME[j \div 16 + 1],
                             At(S_PRIME, j))} :
             ripemd160' = [ripemd160 EXCEPT !.j = j + 1, !.temp = left.h, !.temp_prime = right.h,
                                            !.satisfied = @ /\ left.ok /\ right.ok]

\* The end of process_block: the state is overwritten word by word.
UpdateState ==
    LET h == ripemd160.state
        L == ripemd160.temp
        P == ripemd160.temp_prime
        new == <<add_mod_2_32(<<h[2], L[3], P[4]>>), add_mod_2_32(<<h[3], L[4], P[5]>>),
                 add_mod_2_32(<<h[4], L[5], P[1]>>), add_mod_2_32(<<h[5], L[1], P[2]>>),
                 add_mod_2_32(<<h[1], L[2], P[3]>>)>>
    IN /\ ripemd160.j = 80
       /\ ripemd160' = [ripemd160 EXCEPT !.j = 0, !.block = <<>>,
              !.state = [i \in 1 .. 5 |-> new[i].word],
              !.satisfied = @ /\ \A i \in 1 .. 5 : new[i].ok]

ChipNext == StartBlock \/ round_function \/ UpdateState
=============================================================================
