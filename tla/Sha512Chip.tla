----------------------------- MODULE Sha512Chip -----------------------------
(***************************************************************************)
(* The SHA-512 chip (hash/sha512): every operation with the gate that      *)
(* enforces it and the witness the prover computes for it.  The words are  *)
(* what the gates accept; "satisfied" says whether the prover's values are *)
(* among them.                                                             *)
(***************************************************************************)
EXTENDS SpreadWords

CONSTANTS
    Messages,           \* sequences of bytes
    ROUND_CONSTANTS,    \* eighty words
    IV                  \* eight words

VARIABLE sha512

A_LIMBS == <<13, 12, 5, 6, 13, 13, 2>>
E_LIMBS == <<13, 10, 13, 10, 4, 13, 1>>
W_LIMBS == <<3, 13, 13, 13, 3, 11, 1, 1, 5, 1>>

prepare_A(summands) == Prepared(summands, A_LIMBS, <<51, 39, 34, 28, 15, 2, 0>>, 64)
prepare_E(summands) == Prepared(summands, E_LIMBS, <<51, 41, 28, 18, 14, 1, 0>>, 64)
prepare_message_word(summands) ==
    Prepared(summands, W_LIMBS, <<61, 48, 35, 22, 19, 8, 7, 6, 1, 0>>, 64)

(***************************************************************************)
(* The sums of three rotations, or of two and a shift.  The gate has one   *)
(* table of their limbs and weights, the prover (sha512/utils.rs) another. *)
(***************************************************************************)
Sigma_0_gate == [exponents |-> <<51, 38, 36, 23, 11, 6, 0,
                                 58, 45, 32, 30, 17, 5, 0,
                                 59, 53, 40, 27, 25, 12, 0>>,
                 limbs     |-> <<5, 6, 7, 1, 2, 3, 4,
                                 4, 5, 6, 7, 1, 2, 3,
                                 3, 4, 5, 6, 7, 1, 2>>]
Sigma_1_gate == [exponents |-> <<51, 50, 37, 27, 14, 4, 0,
                                 60, 47, 46, 33, 23, 10, 0,
                                 51, 41, 37, 24, 23, 10, 0>>,
                 limbs     |-> <<6, 7, 1, 2, 3, 4, 5,
                                 5, 6, 7, 1, 2, 3, 4,
                                 3, 4, 5, 6, 7, 1, 2>>]
sigma_0_gate == [exponents |-> <<54, 41, 28, 15, 12, 1, 0,
                                 63, 60, 47, 34, 21, 18, 7, 6, 5, 0,
                                 63, 62, 57, 56, 53, 40, 27, 14, 11, 0>>,
                 limbs     |-> <<1, 2, 3, 4, 5, 6, 7,
                                 10, 1, 2, 3, 4, 5, 6, 7, 8, 9,
                                 7, 8, 9, 10, 1, 2, 3, 4, 5, 6>>]
sigma_1_gate == [exponents |-> <<55, 42, 29, 16, 13, 2, 1, 0,
                                 53, 52, 51, 46, 45, 42, 29, 16, 3, 0,
                                 51, 38, 25, 22, 11, 10, 9, 4, 3, 0>>,
                 limbs     |-> <<1, 2, 3, 4, 5, 6, 7, 8,
                                 6, 7, 8, 9, 10, 1, 2, 3, 4, 5,
                                 2, 3, 4, 5, 6, 7, 8, 9, 10, 1>>]

spreaded_Sigma_0 == [exponents |-> <<51, 38, 36, 23, 11, 6, 0,
                                     58, 45, 32, 30, 17, 5, 0,
                                     59, 53, 40, 27, 25, 12, 0>>,
                     limbs     |-> <<5, 6, 7, 1, 2, 3, 4,
                                     4, 5, 6, 7, 1, 2, 3,
                                     3, 4, 5, 6, 7, 1, 2>>]
spreaded_Sigma_1 == [exponents |-> <<51, 50, 37, 27, 14, 4, 0,
                                     60, 47, 46, 33, 23, 10, 0,
                                     51, 41, 37, 24, 23, 10, 0>>,
                     limbs     |-> <<6, 7, 1, 2, 3, 4, 5,
                                     5, 6, 7, 1, 2, 3, 4,
                                     3, 4, 5, 6, 7, 1, 2>>]
spreaded_sigma_0 == [exponents |-> <<54, 41, 28, 15, 12, 1, 0,
                                     63, 60, 47, 34, 21, 18, 7, 6, 5, 0,
                                     63, 62, 57, 56, 53, 40, 27, 14, 11, 0>>,
                     limbs     |-> <<1, 2, 3, 4, 5, 6, 7,
                                     10, 1, 2, 3, 4, 5, 6, 7, 8, 9,
                                     7, 8, 9, 10, 1, 2, 3, 4, 5, 6>>]
spreaded_sigma_1 == [exponents |-> <<55, 42, 29, 16, 13, 2, 1, 0,
                                     53, 52, 51, 46, 45, 42, 29, 16, 3, 0,
                                     51, 38, 25, 22, 11, 10, 9, 4, 3, 0>>,
                     limbs     |-> <<1, 2, 3, 4, 5, 6, 7, 8,
                                     6, 7, 8, 9, 10, 1, 2, 3, 4, 5,
                                     2, 3, 4, 5, 6, 7, 8, 9, 10, 1>>]

assign_sprdd_13x4_12(gate, witness, parity) ==
    HalfOf(gate, witness, parity, <<13, 13, 13, 13, 12>>, <<51, 38, 25, 12, 0>>, 64)
Rotated(gate, witness, word) ==
    assign_sprdd_13x4_12(RotationSum(gate, word.limbs), RotationSum(witness, word.limbs), "evn")
Sigma_0(a) == Rotated(Sigma_0_gate, spreaded_Sigma_0, a)
Sigma_1(e) == Rotated(Sigma_1_gate, spreaded_Sigma_1, e)
sigma_0(w) == Rotated(sigma_0_gate, spreaded_sigma_0, w)
sigma_1(w) == Rotated(sigma_1_gate, spreaded_sigma_1, w)

maj(a, b, c) ==
    LET sum == PowIp(<<0, 0, 0>>, <<a.sprdd, b.sprdd, c.sprdd>>)
    IN assign_sprdd_13x4_12(sum, sum, "odd")

\* Two half gates; their odd parts have no bit in common, so their field sum
\* is a word.
half_ch(x, y) ==
    LET sum == PowIp(<<0, 0>>, <<x, y>>) IN assign_sprdd_13x4_12(sum, sum, "odd")
Together(EF, nEG) ==
    LET ret == Settle(PowIp(<<0, 0>>, <<EF.word, nEG.word>>), 2)
    IN [word |-> OnesOf(ret, {1}, 64), ok |-> EF.ok /\ nEG.ok /\ Len(ret) <= 64]
\* The negation taken with the wrong half.
MutCh(e, f, g) ==
    Together(half_ch(e.sprdd, g.sprdd), half_ch(negate_spreaded(e.sprdd, 64), f.sprdd))
ch(e, f, g) ==
    Together(half_ch(e.sprdd, f.sprdd), half_ch(negate_spreaded(e.sprdd, 64), g.sprdd))

(***************************************************************************)
(* The computation: the padded message, block by block.                    *)
(***************************************************************************)
pad(bytes) ==
    LET l == 8 * Len(bytes)
        k == 1024 - ((l + 129) % 1024)
    IN bytes \o <<128>> \o [i \in 1 .. k \div 8 |-> 0]
       \o [i \in 1 .. 16 |-> IF i <= 12 THEN 0 ELSE (l \div 256^(16 - i)) % 256]

block_from_bytes(bytes) == [j \in 1 .. 16 |-> FromBeBytes(SubSeq(bytes, 8 * j - 7, 8 * j))]

\* The limbs of the eight registers: only a and e are ever rotated.
CompressionState(words) ==
    [i \in 1 .. 8 |-> Fixed(words[i], IF i <= 4 THEN A_LIMBS ELSE E_LIMBS)]

ChipInit ==
    \E m \in Messages :
        sha512 = [bytes |-> pad(m), message_words |-> <<>>, round |-> 0,
                  compression_state |-> CompressionState(IV),
                  state |-> CompressionState(IV), satisfied |-> TRUE]

\* A block of the padded message: its words, ready to be rotated.
StartBlock ==
    /\ sha512.message_words = <<>> /\ sha512.bytes # <<>>
    /\ \E words \in {[j \in 1 .. 16 |-> prepare_message_word(<<block_from_bytes(sha512.bytes)[j]>>)]} :
          sha512' = [sha512 EXCEPT !.bytes = SubSeq(@, 129, Len(@)), !.message_words = words,
                      !.compression_state = sha512.state,
                      !.satisfied = @ /\ \A j \in 1 .. 16 : words[j].ok]

message_schedule ==
    LET w == sha512.message_words
        i == Len(w) + 1
    IN /\ i \in 17 .. 80
       /\ \E s0 \in {sigma_0(w[i - 15])}, s1 \in {sigma_1(w[i - 2])} :
          \E next \in {prepare_message_word(<<w[i - 16].plain, w[i - 7].plain, s0.word, s1.word>>)} :
             sha512' = [sha512 EXCEPT !.message_words = Append(@, next),
                                     !.satisfied = @ /\ s0.ok /\ s1.ok /\ next.ok]

compression_round ==
    LET s == sha512.compression_state
        i == sha512.round + 1
        k == ROUND_CONSTANTS[i]
        w == sha512.message_words[i].plain
    IN /\ Len(sha512.message_words) = 80 /\ i <= 80
       /\ \E S0 \in {Sigma_0(s[1])}, mj \in {maj(s[1], s[2], s[3])},
             S1 \in {Sigma_1(s[5])}, c \in {ch(s[5], s[6], s[7])} :
          \E a \in {prepare_A(<<s[8].plain, S1.word, c.word, k, w, S0.word, mj.word>>)},
             e \in {prepare_E(<<s[4].plain, s[8].plain, S1.word, c.word, k, w>>)} :
             sha512' = [sha512 EXCEPT
                 !.compression_state = <<a, s[1], s[2], s[3], e, s[5], s[6], s[7]>>,
                 !.round = i,
                 !.satisfied = @ /\ S0.ok /\ mj.ok /\ S1.ok /\ c.ok /\ a.ok /\ e.ok]

\* The registers are added pairwise, the first four with the limbs of A.
Both(i) == <<sha512.state[i].plain, sha512.compression_state[i].plain>>
add ==
    /\ sha512.round = 80
    /\ \E sum \in {[i \in 1 .. 8 |-> IF i <= 4 THEN prepare_A(Both(i)) ELSE prepare_E(Both(i))]} :
          sha512' = [sha512 EXCEPT !.state = sum, !.message_words = <<>>, !.round = 0,
                                  !.satisfied = @ /\ \A i \in 1 .. 8 : sum[i].ok]

ChipNext == StartBlock \/ message_schedule \/ compression_round \/ add
=============================================================================
