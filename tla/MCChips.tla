------------------------------ MODULE MCChips -------------------------------
(* The chips of curves, of big integers and of hash functions, which share *)
(* no state: a behaviour is about one of them, the subject.                *)
EXTENDS ForeignCurve, SpreadWords

(* The curve y^2 = x^3 + 4 over the field of 103 elements: 111 points, the *)
(* subgroup of 37 and cofactor 3.                                          *)

MCGenerator  == <<8, 1>>
MCRandomness == {Affine(<<0, 2>>)} \cup {Times(n, Affine(MCGenerator)) : n \in {1, 5, 7, 12, 18}}
OfCurve(S)   == {<<p.x, p.y>> : p \in {Times(n, Affine(MCGenerator)) : n \in S}}

Pair(cell, value, bound, i) == [scalar |-> Common!Scalar(cell, value, bound), base |-> points[i]]
Values(c, bound, i, S) == {Pair(<<c>>, v, bound, i) : v \in S}

Few(i) == P(i) \in {Times(n, Affine(MCGenerator)) : n \in {1, 36}} \cup {Identity, Point(1, 8, 1)}
OneBase(i) ==
    Few(i) /\ \/ \E v \in {0, 1, 17, 36} : Msm(<<Pair(<<1>>, v, 6, i)>>)
              \/ \E v \in {0, 5} : Msm(<<Pair(<<1>>, v, 3, i)>>)
              \/ \E v \in {0, 1} : Msm(<<Pair(<<1>>, v, 1, i)>>)
              \/ Msm(<<Pair(<<1>>, 3, 3, i), Pair(<<2>>, 6, 3, i)>>)
TwoBases(i, j) ==
    Few(i) /\ Few(j) /\ \/ \E v \in {0, 5} : Msm(<<Pair(<<1>>, v, 3, i), Pair(<<2>>, 6, 3, j)>>)
                        \/ Msm(<<Pair(<<1>>, 3, 3, i), Pair(<<1>>, 3, 3, j)>>)
                        \/ Msm(<<Pair(Common!OneCell, 1, 6, i), Pair(<<2>>, 2, 3, j)>>)
(* Not the identity by a scalar too long for doublings, of which           *)
(* IdentityNext asks.                                                      *)
Doubled(n)       == n < 2 ^ ShortBits
Multiplied(n, i) == (Doubled(n) \/ M(i) # Identity) /\ MulByConstant(n, i)

Single(i) == \/ Double(i) \/ Negate(i) \/ AssertNonZero(i)
             \/ \E k \in {Identity, Affine(Generator)} : IsEqualToFixed(i, k) \/ ConstrainAsPublicInput(i, k)
             \/ \E n \in {0, 1, 6, 15, 16, 36} : Multiplied(n, i)
OfTwo(i, j) == \/ Add(i, j) \/ AssertEqual(i, j) \/ IsEqual(i, j) \/ AssertNotEqual(i, j)
               \/ \E b \in {0, 1} : Select(b, i, j)
               \/ \E k \in 1 .. 2 : KOutOfN(<<i, j>>, k)
MCCurveNext ==
    \/ points = <<>> /\ \/ AssignUnchecked({<<p.x, p.y>> : p \in Curve})
                        \/ Assign({<<p.x, p.y>> : p \in Curve})
                        \/ \E k \in {Identity, Affine(Generator)} : AssignFixed(k) \/ AssignAsPublicInput(OfCurve(1 .. 2), k)
                        \/ \E x, y \in FreeCoordinates : FromCoordinates(x, y)
    \/ Len(points) = 1 /\ \/ Single(1) \/ OneBase(1)
                          \/ AssignUnchecked(OfCurve({1, 2, 36}))
    \/ Len(points) = 2 /\ \/ OfTwo(1, 2) \/ TwoBases(1, 2)
    \/ Len(points) = 3 /\ randomness # {} /\ Few(2) /\ Msm(<<Pair(<<1>>, 6, 3, 2)>>)

(* The chips of SHA-256, SHA-512 and RIPEMD-160, each with its standard.   *)

VARIABLES
    subject,    \* the chip at work, or another part of the hashing
    chip        \* its state

NoChip == [satisfied |-> TRUE]

\* Words and bytes without a pattern: any would do, the same on both sides.
Scrambled(i, w) == {p \in 0 .. w - 1 : Bit(((i + 11) * (p + 7) * (p + 3 * i + 5)) % 8191, 4)}
MessageOf(n) == [j \in 1 .. n |-> (37 * j * j + 11 * n + 101) % 256]

K256  == [i \in 1 .. 64 |-> Scrambled(i, 32)]
IV256 == [i \in 1 .. 8 |-> Scrambled(100 + i, 32)]
Messages256 == {MessageOf(n) : n \in {0, 55, 56}}
Messages160 == Messages256
K512  == [i \in 1 .. 80 |-> Scrambled(i, 64)]
IV512 == [i \in 1 .. 8 |-> Scrambled(100 + i, 64)]
Messages512 == {MessageOf(n) : n \in {0, 111, 112}}
K160  == [i \in 1 .. 5 |-> Scrambled(200 + i, 32)]
KP160 == [i \in 1 .. 5 |-> Scrambled(210 + i, 32)]
IV160 == [i \in 1 .. 5 |-> Scrambled(220 + i, 32)]

S256 == INSTANCE Sha256Chip WITH sha256 <- chip, Messages <- Messages256, ROUND_CONSTANTS <- K256, IV <- IV256
S512 == INSTANCE Sha512Chip WITH sha512 <- chip, Messages <- Messages512, ROUND_CONSTANTS <- K512, IV <- IV512
R160 == INSTANCE Ripemd160Chip WITH ripemd160 <- chip, K <- K160, K_PRIME <- KP160, IV <- IV160, Messages <- Messages160

PlainWords(words) == [i \in DOMAIN words |-> words[i].plain]
\* The blocks of n bytes, as words.
BlocksOf(bytes, n, block_from_bytes(_)) ==
    [b \in 1 .. Len(bytes) \div n |-> block_from_bytes(SubSeq(bytes, n * (b - 1) + 1, n * b))]
\* A chip that is not the subject has an empty message and never starts.
Empty(top) == << [j \in 1 .. 16 |-> IF j = 1 THEN {top} ELSE {}] >>
Idle2(empty, iv) == [blocks |-> empty, words |-> <<>>, round |-> 0, working |-> iv, chaining |-> iv]
Idle256 == Idle2(Empty(31), IV256)
Idle512 == Idle2(Empty(63), IV512)
Sha2State(blocks) ==
    [blocks |-> blocks, words |-> PlainWords(chip.message_words), round |-> chip.round,
     working |-> PlainWords(chip.compression_state), chaining |-> PlainWords(chip.state)]

Standard256 == INSTANCE Sha2Standard WITH
    W <- 32, Rounds <- 64, K <- K256, IV <- IV256, Messages <- Messages256,
    BigSigma0 <- <<2, 13, 22>>, BigSigma1 <- <<6, 11, 25>>,
    SmallSigma0 <- <<7, 18, 3>>, SmallSigma1 <- <<17, 19, 10>>,
    hash <- IF subject = "sha256"
            THEN Sha2State(BlocksOf(chip.bytes, 64, S256!block_from_bytes)) ELSE Idle256
Standard512 == INSTANCE Sha2Standard WITH
    W <- 64, Rounds <- 80, K <- K512, IV <- IV512, Messages <- Messages512,
    BigSigma0 <- <<28, 34, 39>>, BigSigma1 <- <<14, 18, 41>>,
    SmallSigma0 <- <<1, 8, 7>>, SmallSigma1 <- <<19, 61, 6>>,
    hash <- IF subject = "sha512"
            THEN Sha2State(BlocksOf(chip.bytes, 128, S512!block_from_bytes)) ELSE Idle512
Standard160 == INSTANCE Ripemd160Standard WITH
    K <- K160, KPrime <- KP160, IV <- IV160, Messages <- Messages160,
    ripemd <- IF subject = "ripemd160"
              THEN [blocks |-> BlocksOf(chip.bytes, 64, R160!block_from_bytes), j |-> chip.j,
                    words |-> chip.block, left |-> chip.temp, right |-> chip.temp_prime,
                    h |-> chip.state]
              ELSE [blocks |-> Empty(7), j |-> 0, words |-> <<>>, left |-> IV160, right |-> IV160,
                    h |-> IV160]

(***************************************************************************)
(* What the gates of a chip admit is, step by step, what the standard      *)
(* computes (padding, schedule, rounds, final addition), whatever the      *)
(* message; and the values that the prover's own tables and sums give are  *)
(* among those the gates admit, so that the circuit can be proved.         *)
(***************************************************************************)
ChipsImplementTheirStandards ==
    /\ Standard256!HashSpec /\ Standard512!HashSpec /\ Standard160!RipemdSpec
    /\ []chip.satisfied

ChipsInit ==
    \/ subject = "sha256" /\ S256!ChipInit
    \/ subject = "sha512" /\ S512!ChipInit
    \/ subject = "ripemd160" /\ R160!ChipInit

VARIABLES scalars, panicked,    \* of the native curve
          numbers               \* big integers

(* 4 times a subgroup of 5 points over the field of 13 elements, and of 19 *)
(* points over that of 61: scalars of 5 bits in limbs of 3.                *)
EdwardsPoint == <<3, 9>>
EdwardsOrder == 5
NativePoint  == <<32, 45>>
NativeOrder  == 19
NativeBase   == 61
Edwards == INSTANCE ForeignEdwards WITH BaseModulus <- 13, A <- 12, D <- 6, Order <- EdwardsOrder, COFACTOR <- 4,
                                   Generator <- EdwardsPoint, WS <- 2, W <- 2
Native  == INSTANCE NativeEdwards WITH BaseModulus <- NativeBase, A <- 60, D <- 28, Order <- NativeOrder, COFACTOR <- 4,
                                  Generator <- NativePoint, LOG2_BASE <- 3
Big     == INSTANCE BigUint WITH NativeModulus <- 509, LOG2_BASE <- 2

(* The Edwards chip over a foreign field: windows and combs of two bits.   *)
EdwardsPair(cell, value, bound, i) == [scalar |-> Edwards!Common!Scalar(cell, value, bound), base |-> points[i]]
EdwardsMultiple(n) == Edwards!Times(n, EdwardsPoint)
EdwardsScalars == 0 .. EdwardsOrder - 1

OfOneEdwards(i) ==
    \/ Edwards!Double(i) \/ Edwards!Negate(i) \/ Edwards!IsZero(i)
    \/ \E n \in EdwardsScalars : Edwards!MulByConstant(n, i)
    \/ \E k \in {Edwards!Identity, EdwardsPoint} : Edwards!IsEqualToFixed(i, k) \/ Edwards!ConstrainAsPublicInput(i, k)
    \/ \E bytes \in {1, 9, 17, 25} : Edwards!Compress(i, bytes)
    \/ \E v \in EdwardsScalars :
                          \/ Edwards!Msm(<<EdwardsPair(<<1>>, v, Edwards!NUM_BITS, i)>>)
                          \/ Edwards!Msm(<<EdwardsPair(<<1>>, v, 2, i)>>)
                          \/ v < 2 /\ Edwards!Msm(<<EdwardsPair(<<1>>, v, 1, i)>>)
                          \/ Edwards!Msm(<<EdwardsPair(<<1>>, v, 2, i), EdwardsPair(<<2>>, 3, 2, i)>>)
OfTwoEdwards(i, j) ==
    \/ Edwards!Add(i, j) \/ Edwards!AssertEqual(i, j) \/ Edwards!AssertNotEqual(i, j)
    \/ \E b \in {0, 1} : Edwards!Select(b, i, j)
    \/ \E v \in EdwardsScalars :
                          \/ Edwards!Msm(<<EdwardsPair(<<1>>, v, Edwards!NUM_BITS, i), EdwardsPair(<<2>>, 3, 2, j)>>)
                          \/ Edwards!Msm(<<EdwardsPair(Edwards!Common!OneCell, 1, Edwards!NUM_BITS, i), EdwardsPair(<<2>>, v, 4, j)>>)
                          \/ Edwards!Msm(<<EdwardsPair(<<1>>, v, Edwards!NUM_BITS, i), EdwardsPair(<<1>>, v, Edwards!NUM_BITS, j)>>)
Fixed1(v, b)    == Edwards!FixedBaseMsm(<<Edwards!Common!Scalar(<<1>>, v, b)>>, <<EdwardsPoint>>)
Fixed2(v, b, c) == Edwards!FixedBaseMsm(<<Edwards!Common!Scalar(<<1>>, v, b), Edwards!Common!Scalar(<<2>>, 2, c)>>, <<EdwardsMultiple(2), EdwardsPoint>>)

MCEdwardsNext ==
    \/ points = <<>> /\ \/ Edwards!Assign \/ Edwards!AssignUnchecked
                        \/ \E k \in {Edwards!Identity, EdwardsPoint} : Edwards!AssignFixed(k) \/ Edwards!AssignAsPublicInput(k)
                        \/ \E x \in {0, 3, 10}, y \in {1, 9} : Edwards!FromCoordinates(x, y)
                        \/ \E bytes \in {1, 9, 17, 25} : Edwards!Decompress(bytes)
                        \/ \E v \in EdwardsScalars : \/ Fixed1(v, Edwards!NUM_BITS) \/ Fixed2(v, Edwards!NUM_BITS, 2)
                                                    \/ Fixed1(v, 2) \/ Fixed2(v, 1, Edwards!NUM_BITS)
    \/ Len(points) = 1 /\ \/ OfOneEdwards(1) \/ Edwards!Assign
                          \/ \E k \in {Edwards!Identity, EdwardsPoint} : Edwards!AssignFixed(k)
    \/ Len(points) = 2 /\ OfTwoEdwards(1, 2)
    \/ Len(points) = 3 /\ lookup # {} /\ \E v \in {1, 4} :
                              \/ Edwards!Msm(<<EdwardsPair(<<1>>, v, Edwards!NUM_BITS, 2)>>)
                              \/ Fixed1(v, Edwards!NUM_BITS)

(* The native curve and its scalars.                                      *)

NativeConstants == {0, 1, 2, 7, NativeOrder - 1}

(* Not zero by zero, of which DivisionsNext asks.                          *)
Divisible(i, j) == Native!S(j) # 0 \/ scalars[i].value # 0

OnPoints ==
    \/ points = <<>> /\ \/ Native!Assign \/ Native!AssignUnchecked
                        \/ \E k \in {Native!Identity, NativePoint} : Native!AssignFixed(k) \/ Native!AssignAsPublicInput(k)
                        \/ \E x \in {0, 1, NativePoint[1]}, y \in {1, NativeBase - 1, NativePoint[2]} :
                              Native!FromCoordinates(x, y) \/ Native!FromCoordinatesUnsafe(x, y)
    \/ Len(points) = 1 /\ \/ Native!ClearCofactor(1) \/ Native!Negate(1) \/ Native!AssignFixed(NativePoint)
                          \/ \E n \in NativeConstants : Native!MulByConstant(n, 1)
                          \/ \E k \in {Native!Identity, NativePoint} : Native!IsEqualToFixed(1, k) \/ Native!ConstrainAsPublicInput(1, k)
    \/ Len(points) = 2 /\ \/ Native!Add(1, 2) \/ Native!IsEqual(1, 2) \/ Native!AssertNotEqual(1, 2)
                          \/ \E c \in {0, 1} : Native!Select(c, 1, 2)
OnScalars ==
    \/ scalars = <<>> /\ \/ Native!AssignScalar
                         \/ \E c \in NativeConstants : Native!AssignFixedScalar(c)
    \/ Len(scalars) = 1 /\ \/ Native!Inv0(1) \/ \E c \in {0, 7} : Native!AssignFixedScalar(c)
                           \/ Native!MulScalars(1, 1, <<>>) \/ Native!MulScalars(1, 1, <<2>>)
                           \/ Native!LinearCombination(<<3>>, <<1>>, 5)
                           \/ \E k \in NativeConstants : Native!IsEqualToFixedScalar(1, k) \/ Native!ConstrainAsPublicInputScalar(1, k)
    \/ Len(scalars) = 2 /\ \/ Native!AddScalars(1, 2) \/ Native!MulScalars(1, 2, <<>>) \/ Native!IsEqualScalars(1, 2) \/ Native!IsEqualScalars(2, 2)
                           \/ Divisible(1, 2) /\ Native!DivScalars(1, 2)
                           \/ \E c \in {0, 1} : Native!SelectScalars(c, 1, 2)
    \/ Len(scalars) = 3 /\ \/ \E k \in {0, NativeOrder - 1} : Native!IsEqualToFixedScalar(3, k) \/ Native!ConstrainAsPublicInputScalar(3, k)
                           \/ Native!AddScalars(3, 3) \/ Native!MulScalars(3, 1, <<>>)
OnBoth ==
    /\ Len(points) = 1 /\ Len(scalars) \in 1 .. 3
    /\ \/ Native!Msm(<<Len(scalars)>>, <<1>>)
       \/ Len(scalars) = 2 /\ Native!Msm(<<1, 2>>, <<1, 1>>)

MCNativeNext ==
    \/ scalars = <<>> /\ OnPoints
    \/ points = <<>> /\ OnScalars
    \/ points = <<>> /\ Len(scalars) \in 2 .. 3 /\ scalars[1].value = 7 /\ Native!AssignFixed(NativePoint)
    \/ OnBoth

(* Limbs of two bits over the field of 509 elements: numbers of one to     *)
(* three limbs, products of up to five.                                    *)
SharedPrefix(i, j) == Big!SameCells(Big!N(i), Big!N(j)) /\ Len(Big!N(i).limbs) # Len(Big!N(j).limbs)
Telling(i, S) == Big!V(i) \in S /\ Len(Big!N(i).limbs) < 3

MCBigNext ==
    \/ numbers = <<>> /\ \/ \E n \in {1, 2, 3, 4} : Big!AssignBounded(n)
                         \/ \E c \in {0, 5, 9, 21} : Big!AssignFixedBig(c)
                         \/ \E b \in {<<1>>, <<0, 1, 1>>, <<1, 0, 1, 0, 1>>} : Big!FromLeBits(b)
    \/ Len(numbers) = 1 /\ \/ \E n \in {2, 4} : Big!AssignBounded(n)
                           \/ \E c \in {0, 1, 6, 21} : Big!AssignFixedBig(c)
                           \/ Big!AddBig(1, 1) \/ Big!MulBig(1, 1) \/ Big!ToLeBits(1)
                           \/ \E c \in {0, 5, 9, 21} : Big!IsEqualToFixedBig(1, c) \/ Big!ConstrainAsPublicInputBig(1, c)
    \/ Len(numbers) = 2 /\ \/ Big!AddBig(1, 2) \/ Big!SubBig(1, 2) \/ Big!IsEqualBig(1, 2) \/ Big!LowerThan(1, 2)
                           \/ ~SharedPrefix(1, 2) /\ Big!MulBig(1, 2)
                           \/ \E b \in {0, 1} : Big!SelectBig(b, 1, 2)
                           \/ Telling(1, {0, 6, 15}) /\ Telling(2, {0, 1, 6}) /\ Big!DivRem(1, 2)
                           \/ Telling(1, {0, 6, 15}) /\ Telling(2, {0, 3}) /\ \E n \in {0, 2, 3} : (n = 0 => Big!V(2) > 1) /\ Big!ModExp(1, n, 2)
    \/ Len(numbers) = 3 /\ \/ Big!AddBig(3, 1) \/ Big!LowerThan(3, 2) \/ Big!IsEqualBig(3, 1) \/ Big!ToLeBits(3)
                           \/ Len(Big!N(3).limbs) < 4 /\ Big!V(1) \in {0, 3, 7} /\ Big!SubBig(3, 1)
                           \/ \E c \in {9, 63} : Big!IsEqualToFixedBig(3, c) \/ Big!ConstrainAsPublicInputBig(3, c)


scalarVars == <<scalars, panicked>>
vars       == <<curveVars, scalarVars, numbers, chip, subject>>

NoScalars == scalars = <<>> /\ panicked = FALSE
NoChips   == chip = NoChip /\ numbers = <<>>
MCInit ==
    \/ subject \in {"curve", "native", "biguint"} /\ CurveInit /\ NoScalars /\ NoChips
    \/ subject = "edwards" /\ Edwards!EdwardsInit /\ randomness = {} /\ NoScalars /\ NoChips
    \/ ChipsInit /\ CurveInit /\ NoScalars /\ numbers = <<>>

MCNext ==
    \/ subject = "curve" /\ MCCurveNext /\ UNCHANGED <<scalarVars, numbers, chip, subject>>
    \/ subject = "edwards" /\ MCEdwardsNext /\ UNCHANGED <<randomness, scalarVars, numbers, chip, subject>>
    \/ subject = "native" /\ MCNativeNext /\ UNCHANGED <<lookup, tag_cnt, randomness, numbers, chip, subject>>
    \/ subject = "biguint" /\ MCBigNext /\ UNCHANGED <<points, lookup, tag_cnt, randomness, scalarVars, chip, subject>>
    \/ subject = "sha256" /\ S256!ChipNext /\ UNCHANGED <<curveVars, scalarVars, numbers, subject>>
    \/ subject = "sha512" /\ S512!ChipNext /\ UNCHANGED <<curveVars, scalarVars, numbers, subject>>
    \/ subject = "ripemd160" /\ R160!ChipNext /\ UNCHANGED <<curveVars, scalarVars, numbers, subject>>
MCSpec == MCInit /\ [][MCNext]_vars

(* Any base by constants of any length, the identity among them.           *)
IdentityInit == MCInit /\ subject = "curve"
IdentityNext ==
    /\ \/ points = <<>> /\ \E k \in {Identity, Affine(Generator)} : AssignFixed(k)
       \/ Len(points) = 1 /\ \E n \in {0, 1, 6, 15, 16, 36} : MulByConstant(n, 1)
    /\ UNCHANGED <<scalarVars, numbers, chip, subject>>
IdentitySpec == IdentityInit /\ [][IdentityNext]_vars

(* Zero by zero among the divisions of scalars.                            *)
DivisionsInit == MCInit /\ subject = "native"
DivisionsNext ==
    /\ \/ MCNativeNext
       \/ points = <<>> /\ Len(scalars) = 2 /\ Native!DivScalars(1, 2)
    /\ UNCHANGED <<lookup, tag_cnt, randomness, numbers, chip, subject>>
DivisionsSpec == DivisionsInit /\ [][DivisionsNext]_vars

(* Constants share cells, limb by limb.                                    *)
ConstantsInit == MCInit /\ subject = "biguint"
ConstantsNext ==
    /\ \/ Len(numbers) < 2 /\ \E c \in {5, 9, 21} : Big!AssignFixedBig(c)
       \/ Len(numbers) = 2 /\ Big!MulBig(1, 2)
    /\ UNCHANGED <<points, lookup, tag_cnt, randomness, scalarVars, chip, subject>>
ConstantsSpec == ConstantsInit /\ [][ConstantsNext]_vars
=============================================================================
