-------------------------- MODULE Ripemd160Standard --------------------------
(***************************************************************************)
(* RIPEMD-160 as its authors define it: two lines of eighty steps, whose   *)
(* message words and rotations come from two permutations and one table.   *)
(***************************************************************************)
EXTENDS SpreadWords

CONSTANTS K, KPrime,    \* five words each
          IV,           \* five words
          Messages      \* sequences of bytes

VARIABLE ripemd

rol(n, x) == {(p + n) % 32 : p \in x}
Plus(words) == OnesOf(SumOf(words), {1}, 32)
Xor(x, y)   == (x \ y) \cup (y \ x)
Not(x)      == (0 .. 31) \ x

f(j, x, y, z) ==
    CASE j < 16 -> Xor(x, Xor(y, z))
      [] j \in 16 .. 31 -> (x \cap y) \cup (z \ x)
      [] j \in 32 .. 47 -> Xor(x \cup Not(y), z)
      [] j \in 48 .. 63 -> (x \cap z) \cup (y \ z)
      [] j > 63 -> Xor(x, y \cup Not(z))

\* The order of the message words: a permutation applied once more per round.
rho == <<7, 4, 13, 1, 10, 6, 15, 3, 12, 0, 9, 5, 2, 14, 11, 8>>
WordOrder(round, i) ==
    LET r[n \in 0 .. 4] == IF n = 0 THEN i ELSE rho[r[n - 1] + 1] IN r[round]
r(j)      == WordOrder(j \div 16, j % 16)
rPrime(j) == WordOrder(j \div 16, (9 * (j % 16) + 5) % 16)

\* The rotation a message word gets in each round, on both lines.
Shift == << <<11, 14, 15, 12, 5, 8, 7, 9, 11, 13, 14, 15, 6, 7, 9, 8>>,
            <<12, 13, 11, 15, 6, 9, 9, 7, 12, 15, 11, 13, 7, 8, 7, 7>>,
            <<13, 15, 14, 11, 7, 7, 6, 8, 13, 14, 13, 12, 5, 5, 6, 9>>,
            <<14, 11, 12, 14, 8, 6, 5, 5, 15, 12, 15, 14, 9, 9, 8, 6>>,
            <<15, 12, 13, 13, 9, 5, 8, 6, 14, 11, 12, 11, 8, 6, 5, 5>> >>

Step(line, j, fj, word, shift, k) ==
    LET T == Plus(<<rol(shift, Plus(<<line[1], f(fj, line[2], line[3], line[4]), word, k>>)), line[5]>>)
    IN <<line[5], T, line[2], rol(10, line[3]), line[4]>>

PaddedBlocks(m) ==
    LET blocks == (Len(m) + 9 + 63) \div 64
        byte(i) == IF i <= Len(m) THEN m[i]
                   ELSE IF i = Len(m) + 1 THEN 128
                   ELSE IF i > 64 * blocks - 8
                   THEN LET e == i - (64 * blocks - 8) - 1
                        IN IF e > 2 THEN 0 ELSE ((8 * Len(m)) \div 256^e) % 256
                   ELSE 0
    IN [b \in 1 .. blocks |-> [w \in 1 .. 16 |->
          FromLeBytes([e \in 1 .. 4 |-> byte(64 * (b - 1) + 4 * (w - 1) + e)])]]

RipemdInit ==
    \E m \in Messages : ripemd = [blocks |-> PaddedBlocks(m), j |-> 0, words |-> <<>>,
                                  left |-> IV, right |-> IV, h |-> IV]
Begin ==
    /\ ripemd.words = <<>> /\ ripemd.blocks # <<>>
    /\ ripemd' = [ripemd EXCEPT !.blocks = Tail(@), !.words = Head(ripemd.blocks), !.j = 0,
                                !.left = ripemd.h, !.right = ripemd.h]
Steps ==
    LET j == ripemd.j
        w(i) == ripemd.words[i + 1]
        shift(i) == Shift[j \div 16 + 1][i + 1]
    IN /\ ripemd.words # <<>> /\ j < 80
       /\ ripemd' = [ripemd EXCEPT !.j = j + 1,
            !.left  = Step(@, j, j, w(r(j)), shift(r(j)), K[j \div 16 + 1]),
            !.right = Step(@, j, 79 - j, w(rPrime(j)), shift(rPrime(j)), KPrime[j \div 16 + 1])]
Mix ==
    LET next(i) == (i % 5) + 1
    IN /\ ripemd.j = 80
       /\ ripemd' = [ripemd EXCEPT !.j = 0, !.words = <<>>,
            !.h = [i \in 1 .. 5 |->
                Plus(<<@[next(i)], ripemd.left[next(next(i))], ripemd.right[next(next(next(i)))]>>)]]

RipemdNext == Begin \/ Steps \/ Mix
RipemdSpec == RipemdInit /\ [][RipemdNext]_ripemd
=============================================================================
