-------------------------- MODULE ProofAggregation --------------------------
(***************************************************************************)
(* The aggregation of proofs of several circuits                           *)
(* (aggregation/src/multi_circuit_aggregator): an IVC whose transition     *)
(* verifies one inner proof and adds its claim to a hash chain.            *)
(*                                                                         *)
(* A key is a repr and the commitments (bases) it is the repr of; only a   *)
(* key read from bytes has those of its repr.  The hash is ideal: a chain  *)
(* is the sequence of what was hashed.  A proof that verifies for given    *)
(* repr, bases and statement exists when the statement can be proved for   *)
(* the circuit of the bases.                                               *)
(***************************************************************************)
EXTENDS Integers, SequencesExt

CONSTANTS Keys,        \* the inner circuits
          Arch,        \* the architecture of each
          SetupArch,   \* InnerCircuitsContext.arch
          Statements,
          Provable,    \* <<key, statement>> that have a proof
          NoKey,       \* last_vk_repr at genesis
          Panic, Self, Foreign, MayMix, MaxProofs

ASSUME KeysDiffer == Self # Foreign

VARIABLES proofs, prover, checkpoints, issued

(* What a step takes: the key as witnessed, the statement, whether the     *)
(* proof that comes with them is theirs.                                   *)
Witnesses == {w \in [repr : Keys, bases : Keys, statement : Statements, valid : BOOLEAN] :
                 w.valid => <<w.bases, w.statement>> \in Provable}

MutHashed(w) == <<w.repr, w.statement>>
Hashed(w) == <<w.repr, w.bases, w.statement>>

Genesis == [claims |-> <<>>, claims_hash |-> <<>>, inner_acc |-> <<>>]

PublicInput(state) ==
    [last_vk_repr |-> IF state.claims = <<>> THEN NoKey ELSE Last(state.claims).key,
     claims_hash  |-> state.claims_hash,
     inner_acc    |-> state.inner_acc]

(* Recompute the hash chain of the claims, check the accumulator.          *)
Decider(state) ==
    /\ state.claims_hash = [i \in DOMAIN state.claims |->
           Hashed([repr |-> state.claims[i].key, bases |-> state.claims[i].key,
                   statement |-> state.claims[i].statement])]
    /\ \A i \in DOMAIN state.inner_acc : state.inner_acc[i].valid

(* Both transitions collapse what prepare returns, resolve its bases and   *)
(* accumulate; only the one outside the circuit looks at the proof.        *)
InnerAcc(w, inner_acc) == <<w>> \o inner_acc

Transition(state, w) ==
    IF ~w.valid \/ w.repr # w.bases THEN Panic
    ELSE [claims      |-> Append(state.claims, [key |-> w.repr, statement |-> w.statement]),
          claims_hash |-> Append(state.claims_hash, Hashed(w)),
          inner_acc   |-> InnerAcc(w, state.inner_acc)]

CircuitTransition(assigned, w) ==
    [last_vk_repr |-> w.repr,
     claims_hash  |-> Append(assigned.claims_hash, Hashed(w)),
     inner_acc    |-> InnerAcc(w, assigned.inner_acc)]

(* The claims that may be presented with a public input: of any circuits,  *)
(* as many as were hashed or not.                                          *)
Claims == [key : Keys, statement : Statements]

ASSUME PanicIsNoState ==
    Panic \notin [claims : Seq(Claims), claims_hash : Seq({Hashed(w) : w \in Witnesses}),
                  inner_acc : Seq(Witnesses)]

StatesOf(assigned) ==
    {state \in [claims : UNION {[1 .. n -> Claims] : n \in 0 .. Len(assigned.claims_hash)},
                claims_hash : {assigned.claims_hash}, inner_acc : {assigned.inner_acc}] :
        PublicInput(state) = assigned}

ForgedStates == {[last_vk_repr |-> w.repr, claims_hash |-> <<Hashed(w)>>, inner_acc |-> <<>>] :
                     w \in Witnesses}

INSTANCE IvcChain

(* aggregate: a witness of another architecture is refused.                *)
Aggregate(w) == /\ Arch[w.repr] = SetupArch
                /\ ProveStep(w)

AggregationNext == \/ \E w \in Witnesses : Aggregate(w)
                   \/ ResumeFrom \/ ProveElsewhere \/ ProveAnotherCircuit

AggregationSpec == IvcInit /\ [][AggregationNext]_<<proofs, prover, checkpoints, issued>>
-----------------------------------------------------------------------------
(* An aggregation that is accepted proves every claim it is presented with,*)
(* though the proof binds the last key, a hash and an accumulator alone.   *)
ClaimsAreProved ==
    \A p \in DOMAIN proofs : \A instance \in Presented(p) :
        Accepts(instance, p, FALSE) =>
            \A claim \in ToSet(instance.state.claims) : <<claim.key, claim.statement>> \in Provable

(***************************************************************************)
(* batch_verify (zk_stdlib/src/interface.rs): several proofs, each for its *)
(* key and its public inputs, verified with one pairing.                   *)
(*                                                                         *)
(* What preparing a proof leaves to the pairing is an error, zero when the *)
(* proof is valid for the key and the public inputs it comes with.  The    *)
(* challenge r is drawn from all of the transcripts, so that the sum of    *)
(* error times power of r is zero only if it is for every power.           *)
(***************************************************************************)

CONSTANTS Circuits,          \* the keys
          NbPublicInputs,    \* of each key
          Errors,            \* what a proof may leave: integers, 0 of a valid proof
          MaxBatch

ASSUME BatchAssumption == Errors \subseteq Int

VARIABLE batch               \* the arguments: [vks, pis, proofs]

(* A public input is its length.  A proof is what it was made for, whether *)
(* it lacks bytes or has too many, and the error of its values.            *)
Sizes  == {"short", "exact", "long"}
Proofs == [vk : Circuits, pi : 0 .. 1, size : Sizes, error : Errors]

UpTo(n, S) == UNION {[1 .. k -> S] : k \in 0 .. n}

BatchInit == /\ batch \in [vks : UpTo(MaxBatch, Circuits), pis : UpTo(MaxBatch, 0 .. 1),
                           proofs : {<<>>}]
BatchNext == /\ Len(batch.proofs) < MaxBatch
             /\ \E p \in Proofs : batch' = [batch EXCEPT !.proofs = Append(@, p)]
BatchSpec == BatchInit /\ [][BatchNext]_batch

(* prepare, then assert_empty: an error, or what is left to the pairing.   *)
Prepares(vk, pi, proof) == pi = NbPublicInputs[vk] /\ proof.size = "exact"
Left(vk, pi, proof)     == IF proof.vk = vk /\ proof.pi = pi THEN proof.error ELSE 1

(* The i-th guard is scaled by r to the i - 1.                             *)
MutPower(i) == 0
Power(i) == i - 1
Share(b, i, power) == IF Power(i) = power THEN Left(b.vks[i], b.pis[i], b.proofs[i]) ELSE 0
Coefficient(b, power) ==
    LET sum[n \in 0 .. Len(b.proofs)] == IF n = 0 THEN 0 ELSE sum[n - 1] + Share(b, n, power)
    IN  sum[Len(b.proofs)]

BatchVerify(b) ==
    /\ Len(b.pis) = Len(b.vks) /\ Len(b.proofs) = Len(b.vks)
    /\ \A i \in DOMAIN b.proofs : Prepares(b.vks[i], b.pis[i], b.proofs[i])
    /\ \A power \in 0 .. Len(b.proofs) : Coefficient(b, power) = 0

(* verify: the number of public inputs, then BlstPLONK::verify.            *)
VerifyOne(vk, pi, proof) ==
    /\ pi = NbPublicInputs[vk]
    /\ proof.size = "exact"
    /\ Left(vk, pi, proof) = 0
-----------------------------------------------------------------------------
(* "Returns Ok(()) if all proofs are valid", and only then: a batch is     *)
(* accepted when verify accepts every proof of it for its key and its      *)
(* public inputs, and there are as many of each.                           *)
BatchIsEveryProof ==
    BatchVerify(batch) <=>
        /\ Len(batch.pis) = Len(batch.vks) /\ Len(batch.proofs) = Len(batch.vks)
        /\ \A i \in DOMAIN batch.proofs : VerifyOne(batch.vks[i], batch.pis[i], batch.proofs[i])
=============================================================================
