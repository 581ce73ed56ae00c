----------------------------- MODULE MCLibrary ------------------------------
(***************************************************************************)
(* The native gadget and the foreign field, and what is built on them: the *)
(* sponge, vectors that are hashed, the map made of hashes, regexes,       *)
(* parsing and substrings.  They share no state: a behaviour is about one  *)
(* of them, the subject.                                                   *)
(***************************************************************************)
EXTENDS SuccinctMap, Scanner, ForeignField, NativeGadget

(* The sponge, the vectors that are hashed and the map made of hashes.     *)

(* One of the keys is at the first leaf or at the last: the tree is         *)
(* symmetric.                                                              *)
OneKey       == CHOOSE k \in Keys : TRUE
MCPlacements == {p \in [Keys -> Leaves] : p[OneKey] \in {0, 2 ^ Height - 1}}

SpongeIdle == /\ sponge = Init(NoLength)
              /\ segments = <<>> /\ outputs = <<>> /\ calls = [absorb |-> 0, squeeze |-> 0]
VectorIdle == vector = Assigned(Rate, Rate, <<>>, Reps(Rate)) /\ payload = <<>> /\ satisfied = TRUE
MapIdle    == index = [k \in Keys |-> 0] /\ mt = New /\ gadget = Absent

(***************************************************************************)
(* Regexes, inputs parsed by them, and substring checks.                   *)
(***************************************************************************)

parsingVars == <<regexVars, scannerVars>>

A0 == <<0, 0>>
B0 == <<1, 0>>
B1 == <<1, 1>>
MCBytes == {{A0}, {A0, B0}, {B1}}

(* "ab", "abab", ... with output on b; "a" or nothing; what ends in "a".   *)
MCRegexes == {NonEmptyList(Cat(<<Single({A0}), Single({B1})>>)),
              Optional(Single({A0})),
              Terminated(List(Single({A0, B0})), Single({A0}))}
Words(n)  == UNION {[1 .. k -> Chars] : k \in 0 .. n}

MCSequences == {<<0>>, <<0, 1>>, <<1, 0, 0>>}
MCSubs      == {<<>>, <<0>>, <<0, 1>>, <<0, 0>>}
MCVectors   == {[size |-> 4, a |-> 2, payload |-> <<1, 0, 0>>], [size |-> 2, a |-> 1, payload |-> <<0>>]}
MCVarSubs   == {[size |-> 2, a |-> 1, payload |-> s] : s \in {<<>>, <<0>>, <<0, 0>>}}
MCIndices   == 0 .. 3 \union {2 ^ LenBits, Prime - 1}

NoRegex == regex = Epsilon0 /\ regexCalls = 0

(* Two requests of any kind, and a third that makes a second chunk.        *)
Parsing ==
    /\ Len(parses) < 2
    /\ \E r \in MCRegexes :
         \/ \E input \in Words(3) : ParseFixed(r, input)
         \/ \E text \in Words(3) : ParseVarlen(r, 4, 2, text)

Substrings ==
    \E idx \in IF Len(checks) < 2 THEN MCIndices ELSE {0} :
         \/ \E sequence \in MCSequences, wanted \in IF Len(checks) < 2 THEN MCSubs ELSE {<<0>>} :
              CheckBytes(sequence, idx, wanted)
         \/ /\ Len(checks) < 2
            /\ \/ \E sequence \in MCSequences, wanted \in {<<0, AlphabetFiller>>, <<AlphabetFiller>>, <<AlphabetFiller + 1>>} :
                     CheckBytesExt(sequence, idx, wanted)
               \/ \E sequence \in MCVectors, wanted \in MCVarSubs : CheckBytesVarlen(sequence, idx, wanted)
               \/ \E sequence \in MCVectors, wanted \in MCSubs :
                     CheckBytesVarlenPartial(sequence, idx, wanted)

(***************************************************************************)
(* The foreign field chip and the gates of the foreign curve chips over    *)
(* the field of 5 elements, in limbs of two bits; the native gadget.       *)
(***************************************************************************)

MCModuli == <<4>>
MCCombinations == {<<1, 4, 2>>, <<4, 4, 0>>, <<2, 1, 1>>, <<0, 3, 0>>}

(* Where a shortcut of mul does not lose the constant, of which ScaledNext *)
(* asks.                                                                   *)
ScaleKept(i, j, k) == k = 1 \/ \A a \in admitted : ~IsFixed(a[i], 1) /\ ~IsFixed(a[j], 1)

(* Where each limb of x + 1 fits: x is split into chunks of a width that   *)
(* does not divide LOG2_BASE without being normalized.                     *)
ShiftFits(i) ==
    \A a \in admitted : Canonical(a) =>
        \A l \in Limbs : a[i].limbs[l] + OnFirstLimb(1)[l] < 2 ^ well_formed_log2_bounds[l]

MCFieldCalls ==
    \/ FieldCalls
    \/ \E i, j \in FieldCells, k \in Constants : ScaleKept(i, j, k) /\ MulScaled(i, j, k)
    \/ \E i \in FieldCells, width \in 1 .. FieldNumBits :
          ((LOG2_BASE % width) = 0 \/ ShiftFits(i)) /\ ToChunks(i, width)

(* Two elements, then any call that makes a cell, then any call at all.    *)
MCFieldNext ==
    \/ fieldCalls < 2 /\ FieldAssign
    \/ fieldCalls = 2 /\ \/ FieldAssignBit \/ LinearCalls
                         \/ \E k \in Constants : FieldAssignFixed(k)
                         \/ ToBits(1, FieldNumBits) \/ ToBytes(1, div_ceil(FieldNumBits, BitsPerByte))
    \/ fieldCalls = 3 /\ (LinearCalls \/ MCFieldCalls)

VARIABLE stage      \* bound: a circuit takes its inputs, checks them, computes, checks

MCDivisions == {<<2, 9>>, <<5, 7>>, <<3, 11>>}

CircuitInit == GadgetInit /\ stage = "inputs"
CircuitNext ==
    /\ circuit # {}
    /\ \/ stage = "inputs" /\ Input /\ UNCHANGED stage
       \/ gadgetCalls > 0 /\ Check /\ stage' = IF stage = "inputs" THEN "checks" ELSE stage
       \/ stage # "computed" /\ gadgetCalls > 0 /\ Compute /\ stage' = "computed"

VARIABLE subject

hashingVars == <<spongeVars, vectorVars, mapVars>>
nativeVars  == <<gadgetVars, stage>>
arithmeticVars == <<fieldVars, gateVars, nativeVars>>
vars == <<hashingVars, parsingVars, arithmeticVars, subject>>

HashingIdle    == SpongeIdle /\ VectorIdle /\ MapIdle
ParsingIdle    == ScannerInit /\ NoRegex
ArithmeticIdle == FieldInit /\ GateInit /\ CircuitInit

MCInit ==
    /\ ArithmeticIdle
    /\ \/ subject = "sponge" /\ SpongeInit /\ VectorIdle /\ MapIdle /\ ParsingIdle
       \/ subject = "vector" /\ VectorInit /\ SpongeIdle /\ MapIdle /\ ParsingIdle
       \/ subject = "map" /\ MapInit /\ SpongeIdle /\ VectorIdle /\ ParsingIdle
       \/ subject = "regex" /\ RegexInit /\ ScannerInit /\ HashingIdle
       \/ /\ subject \in {"parse", "substring", "field", "gate", "native"}
          /\ ParsingIdle /\ HashingIdle

LibraryNext ==
    \/ subject = "sponge" /\ SpongeNext /\ UNCHANGED <<vectorVars, mapVars, parsingVars, subject>>
    \/ subject = "vector" /\ VectorNext /\ UNCHANGED <<spongeVars, mapVars, parsingVars, subject>>
    \/ subject = "map" /\ MapNext /\ UNCHANGED <<spongeVars, vectorVars, parsingVars, subject>>
    \/ subject = "regex" /\ RegexNext /\ UNCHANGED <<scannerVars, hashingVars, subject>>
    \/ subject = "parse" /\ Parsing /\ UNCHANGED <<hashingVars, subject>>
    \/ subject = "substring" /\ Substrings /\ UNCHANGED <<hashingVars, subject>>

ArithmeticNext ==
    \/ subject = "field" /\ MCFieldNext /\ UNCHANGED <<gateVars, nativeVars, subject>>
    \/ subject = "gate" /\ GateNext /\ UNCHANGED <<fieldVars, nativeVars, subject>>
    \/ subject = "native" /\ CircuitNext /\ UNCHANGED <<fieldVars, gateVars, subject>>

MCNext == \/ LibraryNext /\ UNCHANGED arithmeticVars
          \/ ArithmeticNext /\ UNCHANGED <<hashingVars, parsingVars>>

MCSpec == MCInit /\ [][MCNext]_vars

(* The properties of each subject, where it is the subject.                *)
AutomataAreExact         == subject = "regex" => AutomatonIsExact
ParsesAreExact           == subject = "parse" => ParsingIsExact
SubstringChecksAreExact  == subject = "substring" => SubstringsAreExact

(* Scaled multiplications of the foreign field, of constants too.          *)
ScaledInit == MCInit /\ subject = "field"
ScaledNext ==
    /\ \/ fieldCalls < 2 /\ (FieldAssign \/ \E k \in Constants : FieldAssignFixed(k))
       \/ fieldCalls = 2 /\ \E i, j \in FieldCells, k \in Constants \ {0} : MulScaled(i, j, k)
    /\ UNCHANGED <<gateVars, nativeVars, hashingVars, parsingVars, subject>>
ScaledSpec == ScaledInit /\ [][ScaledNext]_vars
=============================================================================
