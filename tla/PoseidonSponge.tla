--------------------------- MODULE PoseidonSponge ---------------------------
(***************************************************************************)
(* The Poseidon sponge (circuits/src/hash/poseidon/poseidon_cpu.rs, and    *)
(* its twin in poseidon_chip.rs), and the vectors of witnessed length that *)
(* are hashed with it.                                                     *)
(*                                                                         *)
(* The permutation is ideal: a register is the capacity it started from    *)
(* and the blocks added to it, each followed by a permutation, and two     *)
(* registers are equal if these are.  What is left of a block is zero.     *)
(***************************************************************************)
EXTENDS Naturals, SequencesExt

CONSTANTS Rate,             \* RATE, 2 in the code
          Inputs,           \* field elements, some of them small numbers
          Lengths,          \* the values of input_len, NoLength among them
          MaxAbsorbs,       \* bound: calls of absorb
          MaxSqueezes       \* bound: calls of squeeze

ASSUME SpongeAssumption == Rate \in Nat \ {0, 1} /\ Inputs \subseteq Nat

VARIABLES sponge,           \* PoseidonState
          segments,         \* what was absorbed before each permutation, auxiliary
          outputs,          \* what squeeze has returned, auxiliary
          calls             \* calls of absorb and of squeeze, auxiliary

spongeVars == <<sponge, segments, outputs, calls>>

NoLength  == 1000000        \* 2^64 in the capacity, larger than any length

Register(length, blocks) == [capacity |-> length, blocks |-> blocks]
Zero                     == [register |-> Register(0, <<>>), position |-> 0]

(* An element of the rate of a register.  It is zero before the first      *)
(* permutation, whatever the capacity.                                     *)
Element(register, position) == IF register.blocks = <<>> THEN Zero
                               ELSE [register |-> register, position |-> position]

Block(chunk)  == [i \in 1 .. Rate |-> IF i <= Len(chunk) THEN chunk[i] ELSE 0]
Chunks(queue) == [b \in 1 .. (Len(queue) + Rate - 1) \div Rate |->
                     Block(SubSeq(queue, (b - 1) * Rate + 1,
                                  IF b * Rate <= Len(queue) THEN b * Rate ELSE Len(queue)))]

Init(input_len) == [register |-> Register(input_len, <<>>), queue |-> <<>>,
                    squeeze_position |-> 0, input_len |-> input_len]

Absorb(s, inputs) == [s EXCEPT !.queue = @ \o inputs, !.squeeze_position = 0]

(* Squeezing what is left of the register, or digesting the queue first.   *)
Panics(s) == s.input_len # NoLength /\ (s.squeeze_position > 0 \/ Len(s.queue) # s.input_len)

MutPadded(s) == IF s.input_len = NoLength /\ s.queue # <<>> THEN Append(s.queue, Len(s.queue))
                ELSE s.queue
Padded(s) == IF s.input_len = NoLength THEN Append(s.queue, Len(s.queue)) ELSE s.queue

Squeezed(s) ==
    IF s.squeeze_position > 0
    THEN [output |-> Element(s.register, s.squeeze_position % Rate),
          state  |-> [s EXCEPT !.squeeze_position = (@ + 1) % Rate]]
    ELSE LET digested == [s.register EXCEPT !.blocks = @ \o Chunks(Padded(s))]
         IN  [output |-> Element(digested, 0),
              state  |-> [s EXCEPT !.register = digested, !.queue = <<>>,
                                   !.squeeze_position = 1 % Rate]]

(* HashCPU::hash, and what the hash of a vector is to agree with.          *)
Hash(inputs) == Squeezed(Absorb(Init(Len(inputs)), inputs)).output
-----------------------------------------------------------------------------
SpongeInit == /\ \E input_len \in Lengths : sponge = Init(input_len)
              /\ segments = <<>> /\ outputs = <<>> /\ calls = [absorb |-> 0, squeeze |-> 0]

AbsorbInputs == /\ calls.absorb < MaxAbsorbs
                /\ \E n \in 0 .. 2 : \E inputs \in [1 .. n -> Inputs] :
                      sponge' = Absorb(sponge, inputs)
                /\ calls' = [calls EXCEPT !.absorb = @ + 1]
                /\ UNCHANGED <<segments, outputs>>

Squeeze == /\ calls.squeeze < MaxSqueezes
           /\ ~Panics(sponge)
           /\ sponge' = Squeezed(sponge).state
           /\ outputs' = Append(outputs, Squeezed(sponge).output)
           /\ segments' = IF sponge.squeeze_position > 0 THEN segments
                          ELSE Append(segments, sponge.queue)
           /\ calls' = [calls EXCEPT !.squeeze = @ + 1]

SpongeNext == AbsorbInputs \/ Squeeze
SpongeSpec == SpongeInit /\ [][SpongeNext]_spongeVars
-----------------------------------------------------------------------------
(* What was absorbed before each permutation, read back from the blocks:   *)
(* the last element that is not zero is the length of the last segment.    *)
LastLength(block) ==
    LET used == {i \in 1 .. Rate : block[i] # 0}
    IN  IF used = {} THEN 0 ELSE block[CHOOSE i \in used : \A j \in used : j <= i]

Unpadded(blocks) ==
    LET segment(first, length) ==
            [k \in 1 .. length |-> blocks[first + 1 + (k - 1) \div Rate][1 + ((k - 1) % Rate)]]
        upto[n \in 0 .. Len(blocks)] ==
            LET length == LastLength(blocks[n])
                first  == n - (length + Rate) \div Rate
            IN  IF n = 0 \/ first < 0 THEN <<>> ELSE Append(upto[first], segment(first, length))
    IN  upto[Len(blocks)]

(* A sponge without a fixed length, absorbing and squeezing in any order,  *)
(* binds its history: no two histories lead to one register, although      *)
(* paddings are elements like the ones absorbed (poseidon_cpu.rs:165), and *)
(* no output comes twice, however often it is squeezed in a row (153).     *)
SpongeBindsHistory ==
    sponge.input_len = NoLength =>
        /\ Unpadded(sponge.register.blocks) = segments
        /\ IsInjective(outputs)
-----------------------------------------------------------------------------
(***************************************************************************)
(* Vectors whose length is a witness (circuits/src/vec/), and the two      *)
(* gadgets that hash them (poseidon_varlen.rs, sha256_varlen.rs).          *)
(*                                                                         *)
(* A vector is [alignment, buffer, len].  What the buffer holds outside    *)
(* the payload is up to the prover.  Positions count from 0 in the code    *)
(* and from 1 here, so the payload is at start + 1 .. end.  SHA-256 is the *)
(* sequence of the blocks it compresses; its sizes are parameters.         *)
(***************************************************************************)

CONSTANTS Block256,         \* bytes of a block, 64 in the code
          LengthBytes,      \* bytes of the length at the end of a message, 8 in the code
          Elements,         \* what a vector may hold
          MaxVector         \* bound: size of a buffer

ASSUME VectorAssumption == /\ Block256 \in Nat /\ LengthBytes \in 1 .. Block256 - 1
                           /\ Elements \subseteq Nat /\ MaxVector \in Nat /\ MaxVector < NoLength

VARIABLES vector,           \* an AssignedVector
          payload,          \* the sequence it stands for, auxiliary
          satisfied         \* whether the constraints made so far hold

vectorVars == <<vector, payload, satisfied>>

Filler    == 0
Marker    == 128

Size(v)   == Len(v.buffer)
Reps(n)   == [i \in 1 .. n |-> Filler]
-----------------------------------------------------------------------------
(* Where the data is, off-circuit (get_lims) and in-circuit (get_limits).  *)
Lims(size, a, len) == LET pad == (a - (len % a)) % a
                      IN  [start |-> size - len - pad, end |-> size - pad]

Limits(v) == LET offset == v.len % v.alignment
                 end1   == offset + Size(v) - v.alignment
                 end    == IF offset = 0 THEN end1 + v.alignment ELSE end1
             IN  [start |-> end - v.len, end |-> end]

(* padding_flag: the flag flips where the payload starts, which is at the  *)
(* start of a chunk, and where it ends inside the last chunk.              *)
Flips(v, i) == IF i <= Size(v) - v.alignment
               THEN i % v.alignment = 0 /\ Limits(v).start = i
               ELSE Limits(v).end = i
PaddingFlag(v) ==
    LET flag[i \in 0 .. Size(v) - 1] ==
            IF i = 0 THEN ~Flips(v, 0) ELSE flag[i - 1] # Flips(v, i)
    IN  [i \in 1 .. Size(v) |-> flag[i - 1]]

IsEqual(x, y) == /\ \A i \in 1 .. Size(x) : PaddingFlag(x)[i] \/ x.buffer[i] = y.buffer[i]
                 /\ x.len = y.len

IsEqualToFixed(x, constant) ==
    /\ x.len = Len(constant)
    /\ LET lims == Lims(Size(x), x.alignment, Len(constant))
       IN  \A i \in 1 .. Len(constant) : x.buffer[lims.start + i] = constant[i]

(* The payload is put in place; the filler around it is the prover's.      *)
Assigned(a, size, data, filler) ==
    LET lims == Lims(size, a, Len(data))
    IN  [alignment |-> a, len |-> Len(data),
         buffer |-> [i \in 1 .. size |-> IF i \in lims.start + 1 .. lims.end
                                         THEN data[i - lims.start] ELSE filler[i]]]

Resized(v, size) == [v EXCEPT !.buffer = Reps(size - Size(v)) \o @]

(* trim_beginning: whole chunks are dropped by the length alone; the rest  *)
(* shifts the buffer left, and a chunk to the right if the padding at the  *)
(* end became a whole chunk.                                               *)
MutNeedsAdjust(v, last_trim) == v.len % v.alignment <= last_trim
NeedsAdjust(v, last_trim) ==
    LET last_len == v.len % v.alignment
    IN  (last_len = 0) # (last_len <= last_trim)

Trimmed(v, n) ==
    LET last_trim == n % v.alignment
        buffer    == Reps(v.alignment) \o SubSeq(v.buffer, last_trim + 1, Size(v))
                        \o Reps(last_trim)
        from      == IF NeedsAdjust(v, last_trim) THEN 0 ELSE v.alignment
    IN  [v EXCEPT !.buffer = SubSeq(buffer, from + 1, from + Size(v)), !.len = @ - n]
-----------------------------------------------------------------------------
(* poseidon_varlen: chunks are added from the one at which rounded_len is  *)
(* left, and the last is cut to the payload.                               *)
Rounded(len, a) == LET last == len % a IN IF last = 0 THEN len ELSE len - last + a

Chunk(v, i) == SubSeq(v.buffer, i * v.alignment + 1, (i + 1) * v.alignment)

Updating(v, i) == \E j \in 0 .. i : Rounded(v.len, v.alignment) = Size(v) - j * v.alignment

CondUpdate(v, blocks, i, chunk) == IF Updating(v, i) THEN Append(blocks, chunk) ELSE blocks

Updated(v, chunks) ==
    LET blocks[i \in 0 .. Len(chunks)] ==
            IF i = 0 THEN <<>> ELSE CondUpdate(v, blocks[i - 1], i - 1, chunks[i])
    IN  blocks[Len(chunks)]

LastChunk(chunk, offset) ==
    [i \in DOMAIN chunk |-> IF offset \in 1 .. i - 1 THEN 0 ELSE chunk[i]]

PoseidonVarLen(v) ==
    LET count    == Size(v) \div Rate
        chunk(i) == IF i = count - 1 THEN LastChunk(Chunk(v, i), v.len % Rate) ELSE Chunk(v, i)
    IN  Element(Register(v.len, Updated(v, [i \in 1 .. count |-> chunk(i - 1)])), 0)

(* sha256_varlen: the last chunk is spread over one or two blocks.         *)
LengthField(bytes) ==
    [i \in 1 .. LengthBytes |-> ((8 * bytes) \div 256 ^ (LengthBytes - i)) % 256]

FinalBlockLen(len) == IF len % Block256 = 0 /\ len # 0 THEN Block256 ELSE len % Block256

ExtraBlock(len) == FinalBlockLen(len) >= Block256 - LengthBytes

Merged(chunk, len, size) == [i \in 1 .. size |-> IF i <= len THEN chunk[i] ELSE 0]

ComputePadding(v) ==
    LET final   == FinalBlockLen(v.len)
        chunk   == Chunk(v, Size(v) \div Block256 - 1)
        block_1 == Merged(chunk, final, Block256)
        block_2 == Merged(chunk, IF ExtraBlock(v.len) THEN 0 ELSE final, Block256 - LengthBytes)
        padding == block_1 \o block_2 \o LengthField(v.len)
        mark    == (IF ExtraBlock(v.len) THEN final ELSE final + Block256) + 1
    IN  [padding EXCEPT ![mark] = Marker]

Sha256VarLen(v) ==
    LET tail == ComputePadding(v)
    IN  Updated(v, [i \in 1 .. Size(v) \div Block256 - 1 |-> Chunk(v, i - 1)])
            \o (IF ExtraBlock(v.len) THEN <<SubSeq(tail, 1, Block256)>> ELSE <<>>)
            \o <<SubSeq(tail, Block256 + 1, 2 * Block256)>>

(* Sha256Chip::pad, cut into blocks: the hash of a known length.           *)
Sha256Blocks(bytes) ==
    LET used  == Len(bytes) + 1 + LengthBytes
        zeros == (Block256 - (used % Block256)) % Block256
        text  == bytes \o <<Marker>> \o Reps(zeros) \o LengthField(Len(bytes))
    IN  [b \in 1 .. Len(text) \div Block256 |->
            SubSeq(text, (b - 1) * Block256 + 1, b * Block256)]
-----------------------------------------------------------------------------
VectorInit ==
    \E a \in {Rate, Block256} : \E size \in {n \in 1 .. MaxVector : n % a = 0} :
        \E len \in 0 .. size : \E data \in [1 .. len -> Elements] :
            LET lims == Lims(size, a, len)
            IN  \E filler \in [(1 .. size) \ (lims.start + 1 .. lims.end) -> Elements] :
                /\ vector = Assigned(a, size, data, filler)
                /\ payload = data /\ satisfied = TRUE

Resize == \E size \in Size(vector) + 1 .. MaxVector :
             /\ satisfied /\ size % vector.alignment = 0
             /\ vector' = Resized(vector, size)
             /\ UNCHANGED <<payload, satisfied>>

TrimBeginning == \E n \in 0 .. Size(vector) :
                    /\ satisfied
                    /\ satisfied' = (n <= vector.len)
                    /\ IF n <= vector.len
                       THEN /\ vector' = Trimmed(vector, n)
                            /\ payload' = SubSeq(payload, n + 1, Len(payload))
                       ELSE UNCHANGED <<vector, payload>>

VectorNext == Resize \/ TrimBeginning
VectorSpec == VectorInit /\ [][VectorNext]_vectorVars
-----------------------------------------------------------------------------
(* The data is where both programs look for it and where the padding flags *)
(* say it is: resizing and trimming move it (vector_gadget.rs:187).        *)
PayloadInPlace ==
    LET lims == Lims(Size(vector), vector.alignment, vector.len)
    IN  /\ vector.len = Len(payload) /\ Limits(vector) = lims
        /\ lims.start % vector.alignment = 0 /\ Size(vector) - lims.end < vector.alignment
        /\ SubSeq(vector.buffer, lims.start + 1, lims.end) = payload
        /\ \A i \in 1 .. Size(vector) :
               PaddingFlag(vector)[i] <=> i \notin lims.start + 1 .. lims.end

(* Two vectors are equal in the circuit if and only if their payloads are, *)
(* whatever filler the prover put around them (vector_gadget.rs:305).      *)
EqualityIgnoresFiller ==
    \A len \in {vector.len, (vector.len + 1) % (Size(vector) + 1)} :
        \A data \in [1 .. len -> Elements], x \in Elements :
            LET other == Assigned(vector.alignment, Size(vector), data,
                                  [i \in 1 .. Size(vector) |-> x])
            IN  /\ IsEqual(vector, other) <=> payload = data
                /\ IsEqualToFixed(vector, data) <=> payload = data

(* Hashing a vector is hashing its payload, whatever the filler, at every  *)
(* length (poseidon_varlen.rs:126, sha256_varlen.rs:246).                  *)
HashesPayload ==
    /\ vector.alignment = Rate => PoseidonVarLen(vector) = Hash(payload)
    /\ vector.alignment = Block256 => Sha256VarLen(vector) = Sha256Blocks(payload)

(* A vector can be taken for its payload: it is found, compared and hashed *)
(* as the sequence it stands for, whatever the prover put around it.       *)
VectorIsItsPayload == PayloadInPlace /\ EqualityIgnoresFiller /\ HashesPayload
=============================================================================
