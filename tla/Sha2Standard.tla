---------------------------- MODULE Sha2Standard ----------------------------
(***************************************************************************)
(* FIPS 180-4: the hash computation of SHA-256 and SHA-512 on words, which *)
(* are sets of the positions of their one bits.  This is what the chips    *)
(* promise; nothing here is about circuits.                                *)
(***************************************************************************)
EXTENDS SpreadWords

CONSTANTS
    W,          \* bits of a word
    Rounds,     \* rounds of the compression function
    BigSigma0, BigSigma1,       \* three rotations
    SmallSigma0, SmallSigma1,   \* two rotations and a shift
    K,          \* the constant of every round, 1 .. Rounds
    IV,         \* the initial hash value
    Messages    \* sequences of bytes

VARIABLE hash

ROTR(n, x) == {(p + W - n) % W : p \in x}
SHR(n, x)  == {p - n : p \in {q \in x : n <= q}}
Xor(x, y)  == (x \ y) \cup (y \ x)
Xor3(x, y, z) == Xor(x, Xor(y, z))

Ch(x, y, z)  == Xor(x \cap y, z \ x)
Maj(x, y, z) == Xor3(x \cap y, x \cap z, y \cap z)
Rot(r, x)    == Xor3(ROTR(r[1], x), ROTR(r[2], x), ROTR(r[3], x))
RotShift(r, x) == Xor3(ROTR(r[1], x), ROTR(r[2], x), SHR(r[3], x))

Sum(words) == OnesOf(SumOf(words), {1}, W)

(***************************************************************************)
(* Padding, bit by bit: a one, zeros, and the length in bits as an integer *)
(* of two words, up to a multiple of sixteen words.                        *)
(***************************************************************************)
PaddedBits(m) ==
    LET l == 8 * Len(m)
        k == CHOOSE z \in 0 .. 16 * W - 1 : ((l + 1 + z + 2 * W) % (16 * W)) = 0
    IN [i \in 1 .. l + 1 + k + 2 * W |->
          IF i <= l THEN Bit(m[(i - 1) \div 8 + 1], 7 - ((i - 1) % 8))
          ELSE IF i = l + 1 THEN TRUE
          ELSE LET p == l + 1 + k + 2 * W - i IN p < 24 /\ Bit(l, p)]

Parsed(m) ==
    LET bits == PaddedBits(m)
        word(j) == {p \in 0 .. W - 1 : bits[j * W - p]}
    IN [b \in 1 .. Len(bits) \div (16 * W) |-> [j \in 1 .. 16 |-> word(16 * (b - 1) + j)]]

HashInit ==
    \E m \in Messages : hash = [blocks |-> Parsed(m), words |-> <<>>, round |-> 0,
                                working |-> IV, chaining |-> IV]

Begin ==
    /\ hash.words = <<>> /\ hash.blocks # <<>>
    /\ hash' = [hash EXCEPT !.blocks = Tail(@), !.words = Head(hash.blocks),
                            !.working = hash.chaining, !.round = 0]

Extend ==
    LET w == hash.words
        t == Len(w) + 1
    IN /\ t \in 17 .. Rounds
       /\ hash' = [hash EXCEPT !.words = Append(@,
            Sum(<<RotShift(SmallSigma1, w[t - 2]), w[t - 7],
                  RotShift(SmallSigma0, w[t - 15]), w[t - 16]>>))]

Compress ==
    LET t == hash.round + 1
        v == hash.working
        T1 == Sum(<<v[8], Rot(BigSigma1, v[5]), Ch(v[5], v[6], v[7]), K[t], hash.words[t]>>)
        T2 == Sum(<<Rot(BigSigma0, v[1]), Maj(v[1], v[2], v[3])>>)
    IN /\ Len(hash.words) = Rounds /\ t <= Rounds
       /\ hash' = [hash EXCEPT !.round = t,
            !.working = <<Sum(<<T1, T2>>), v[1], v[2], v[3], Sum(<<v[4], T1>>), v[5], v[6], v[7]>>]

Finish ==
    /\ hash.round = Rounds
    /\ hash' = [hash EXCEPT !.round = 0, !.words = <<>>,
            !.chaining = [i \in 1 .. 8 |-> Sum(<<hash.working[i], @[i]>>)]]

HashNext == Begin \/ Extend \/ Compress \/ Finish
HashSpec == HashInit /\ [][HashNext]_hash
=============================================================================
