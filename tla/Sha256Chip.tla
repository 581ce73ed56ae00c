----------------------------- MODULE Sha256Chip -----------------------------
(***************************************************************************)
(* The SHA-256 chip (hash/sha256): every operation with the gate that      *)
(* enforces it and the witness the prover computes for it.  The words are  *)
(* what the gates accept; "satisfied" says whether the prover's values are *)
(* among them.                                                             *)
(***************************************************************************)
EXTENDS SpreadWords

CONSTANTS
    Messages,           \* sequences of bytes
    ROUND_CONSTANTS,    \* sixty-four words
    IV                  \* eight words

VARIABLE sha256

A_LIMBS   == <<10, 9, 11, 2>>
E_LIMBS   == <<7, 12, 2, 5, 6>>
W_LIMBS   == <<12, 1, 1, 1, 7, 3, 4, 3>>

prepare_A(summands) == Prepared(summands, A_LIMBS, <<22, 13, 2, 0>>, 32)
prepare_E(summands) == Prepared(summands, E_LIMBS, <<25, 13, 11, 6, 0>>, 32)
prepare_message_word(summands) ==
    Prepared(summands, W_LIMBS, <<20, 19, 18, 17, 10, 7, 3, 0>>, 32)

(***************************************************************************)
(* The sums of three rotations, or of two and a shift.  The gate has one   *)
(* table of their limbs and weights, the prover (sha256/utils.rs) another. *)
(***************************************************************************)
Sigma_0_gate == [exponents |-> <<30, 20, 11, 0,  21, 19, 9, 0,  23, 12, 10, 0>>,
                 limbs     |-> <<4, 1, 2, 3,     3, 4, 1, 2,    2, 3, 4, 1>>]
Sigma_1_gate == [exponents |-> <<26, 19, 7, 5, 0,  27, 21, 14, 2, 0,  20, 18, 13, 7, 0>>,
                 limbs     |-> <<5, 1, 2, 3, 4,    4, 5, 1, 2, 3,     2, 3, 4, 5, 1>>]
sigma_0_gate == [exponents |-> <<17, 16, 15, 14, 7, 4, 0,  28, 25, 13, 12, 11, 10, 3, 0,
                                 31, 24, 21, 17, 14, 2, 1, 0>>,
                 limbs     |-> <<1, 2, 3, 4, 5, 6, 7,      7, 8, 1, 2, 3, 4, 5, 6,
                                 4, 5, 6, 7, 8, 1, 2, 3>>]
sigma_1_gate == [exponents |-> <<10, 9, 8, 7, 0,  25, 22, 18, 15, 3, 2, 1, 0,
                                 31, 30, 23, 20, 16, 13, 1, 0>>,
                 limbs     |-> <<1, 2, 3, 4, 5,   5, 6, 7, 8, 1, 2, 3, 4,
                                 3, 4, 5, 6, 7, 8, 1, 2>>]

spreaded_Sigma_0 == [exponents |-> <<30, 20, 11, 0,  21, 19, 9, 0,  23, 12, 10, 0>>,
                     limbs     |-> <<4, 1, 2, 3,     3, 4, 1, 2,    2, 3, 4, 1>>]
spreaded_Sigma_1 == [exponents |-> <<26, 19, 7, 5, 0,  27, 21, 14, 2, 0,  20, 18, 13, 7, 0>>,
                     limbs     |-> <<5, 1, 2, 3, 4,    4, 5, 1, 2, 3,     2, 3, 4, 5, 1>>]
spreaded_sigma_0 == [exponents |-> <<17, 16, 15, 14, 7, 4, 0,  28, 25, 13, 12, 11, 10, 3, 0,
                                     31, 24, 21, 17, 14, 2, 1, 0>>,
                     limbs     |-> <<1, 2, 3, 4, 5, 6, 7,      7, 8, 1, 2, 3, 4, 5, 6,
                                     4, 5, 6, 7, 8, 1, 2, 3>>]
spreaded_sigma_1 == [exponents |-> <<10, 9, 8, 7, 0,  25, 22, 18, 15, 3, 2, 1, 0,
                                     31, 30, 23, 20, 16, 13, 1, 0>>,
                     limbs     |-> <<1, 2, 3, 4, 5,   5, 6, 7, 8, 1, 2, 3, 4,
                                     3, 4, 5, 6, 7, 8, 1, 2>>]

assign_sprdd_11_11_10(gate, witness, parity) ==
    HalfOf(gate, witness, parity, <<11, 11, 10>>, <<21, 10, 0>>, 32)
Rotated(gate, witness, word) ==
    assign_sprdd_11_11_10(RotationSum(gate, word.limbs), RotationSum(witness, word.limbs), "evn")
Sigma_0(a) == Rotated(Sigma_0_gate, spreaded_Sigma_0, a)
Sigma_1(e) == Rotated(Sigma_1_gate, spreaded_Sigma_1, e)
sigma_0(w) == Rotated(sigma_0_gate, spreaded_sigma_0, w)
sigma_1(w) == Rotated(sigma_1_gate, spreaded_sigma_1, w)

maj(a, b, c) ==
    LET sum == PowIp(<<0, 0, 0>>, <<a.sprdd, b.sprdd, c.sprdd>>)
    IN assign_sprdd_11_11_10(sum, sum, "odd")

\* Two half gates; their odd parts have no bit in common, so their field sum
\* is a word.
half_ch(x, y) ==
    LET sum == PowIp(<<0, 0>>, <<x, y>>) IN assign_sprdd_11_11_10(sum, sum, "odd")
Together(EF, nEG) ==
    LET ret == Settle(PowIp(<<0, 0>>, <<EF.word, nEG.word>>), 2)
    IN [word |-> OnesOf(ret, {1}, 32), ok |-> EF.ok /\ nEG.ok /\ Len(ret) <= 32]
ch(e, f, g) ==
    Together(half_ch(e.sprdd, f.sprdd), half_ch(negate_spreaded(e.sprdd, 32), g.sprdd))

(***************************************************************************)
(* The computation: the padded message, block by block.                    *)
(***************************************************************************)
pad(bytes) ==
    LET l == 8 * Len(bytes)
        k == 512 - ((l + 65) % 512)
    IN bytes \o <<128>> \o [i \in 1 .. k \div 8 |-> 0]
       \o [i \in 1 .. 8 |-> IF i <= 4 THEN 0 ELSE (l \div 256^(8 - i)) % 256]

block_from_bytes(bytes) == [j \in 1 .. 16 |-> FromBeBytes(SubSeq(bytes, 4 * j - 3, 4 * j))]

\* The limbs of the eight registers: only a and e are ever rotated.
CompressionState(words) ==
    [i \in 1 .. 8 |-> Fixed(words[i], IF i <= 4 THEN A_LIMBS ELSE E_LIMBS)]

ChipInit ==
    \E m \in Messages :
        sha256 = [bytes |-> pad(m), message_words |-> <<>>, round |-> 0,
                  compression_state |-> CompressionState(IV),
                  state |-> CompressionState(IV), satisfied |-> TRUE]

\* A block of the padded message: its words, ready to be rotated.
StartBlock ==
    /\ sha256.message_words = <<>> /\ sha256.bytes # <<>>
    /\ \E words \in {[j \in 1 .. 16 |-> prepare_message_word(<<block_from_bytes(sha256.bytes)[j]>>)]} :
          sha256' = [sha256 EXCEPT !.bytes = SubSeq(@, 65, Len(@)), !.message_words = words,
                      !.compression_state = sha256.state,
                      !.satisfied = @ /\ \A j \in 1 .. 16 : words[j].ok]

message_schedule ==
    LET w == sha256.message_words
        i == Len(w) + 1
    IN /\ i \in 17 .. 64
       /\ \E s0 \in {sigma_0(w[i - 15])}, s1 \in {sigma_1(w[i - 2])} :
          \E next \in {prepare_message_word(<<w[i - 16].plain, w[i - 7].plain, s0.word, s1.word>>)} :
             sha256' = [sha256 EXCEPT !.message_words = Append(@, next),
                                     !.satisfied = @ /\ s0.ok /\ s1.ok /\ next.ok]

compression_round ==
    LET s == sha256.compression_state
        i == sha256.round + 1
        k == ROUND_CONSTANTS[i]
        w == sha256.message_words[i].plain
    IN /\ Len(sha256.message_words) = 64 /\ i <= 64
       /\ \E S0 \in {Sigma_0(s[1])}, mj \in {maj(s[1], s[2], s[3])},
             S1 \in {Sigma_1(s[5])}, c \in {ch(s[5], s[6], s[7])} :
          \E a \in {prepare_A(<<s[8].plain, S1.word, c.word, k, w, S0.word, mj.word>>)},
             e \in {prepare_E(<<s[4].plain, s[8].plain, S1.word, c.word, k, w>>)} :
             sha256' = [sha256 EXCEPT
                 !.compression_state = <<a, s[1], s[2], s[3], e, s[5], s[6], s[7]>>,
                 !.round = i,
                 !.satisfied = @ /\ S0.ok /\ mj.ok /\ S1.ok /\ c.ok /\ a.ok /\ e.ok]

\* The registers are added pairwise, the first four with the limbs of A.
Both(i) == <<sha256.state[i].plain, sha256.compression_state[i].plain>>
add ==
    /\ sha256.round = 64
    /\ \E sum \in {[i \in 1 .. 8 |-> IF i <= 4 THEN prepare_A(Both(i)) ELSE prepare_E(Both(i))]} :
          sha256' = [sha256 EXCEPT !.state = sum, !.message_words = <<>>, !.round = 0,
                                  !.satisfied = @ /\ \A i \in 1 .. 8 : sum[i].ok]

ChipNext == StartBlock \/ message_schedule \/ compression_round \/ add
=============================================================================
