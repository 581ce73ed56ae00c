------------------------------- MODULE IvcChain -------------------------------
(***************************************************************************)
(* Incrementally verifiable computation (aggregation/src/ivc): a prover    *)
(* that proves one transition at a time, each proof standing for the one   *)
(* before it, and a verifier that is shown the last one only.              *)
(*                                                                         *)
(* A proof is what it was made of: the circuit whose key it is under, its  *)
(* public input and whether the constraints held.  Proofs are named by     *)
(* their place in proofs, 0 being no proof at all.                         *)
(*                                                                         *)
(* An accumulator is the sequence of what was folded into it, newest first:*)
(* <<proof, repr, state>>, the claim that a proof verifies for a public    *)
(* input (whose accumulator is the rest of the sequence), or <<shape>>, an *)
(* accumulator that counts for nothing but whose shape the challenge that  *)
(* combines it with the rest is drawn from.  The identity is <<>>.         *)
(***************************************************************************)
EXTENDS Integers, SequencesExt

CONSTANTS Genesis,                 \* T::genesis
          Witnesses,               \* of a transition
          Transition(_, _),        \* T::transition: a state, or Panic
          CircuitTransition(_, _), \* T::circuit_transition, of assigned states
          PublicInput(_),          \* T::format_public_input: the assigned state of a state
          Decider(_),              \* T::decider
          StatesOf(_),             \* the states of a public input that may be presented
          ForgedStates,            \* assigned states that may be witnessed out of the blue
          Panic,
          MayMix,                  \* whether what is restored may come from several checkpoints
          Self, Foreign,           \* transcript_repr of the key of the circuit, and of another
          MaxProofs

VARIABLES proofs,      \* all proofs there are: [key, repr, state, acc, satisfied]
          prover,      \* IvcProver: [state, proof, acc]
          checkpoints, \* the provers that were saved
          issued       \* what prove_step returned Ok for: [state, proof, restarted]

ivcVars == <<proofs, prover, checkpoints, issued>>

AtSetup == [state |-> Genesis, proof |-> 0, acc |-> <<>>]
IvcInit == proofs = <<>> /\ prover = AtSetup /\ checkpoints = {AtSetup} /\ issued = <<>>

IsGenesis(assigned) == assigned = PublicInput(Genesis)
-----------------------------------------------------------------------------
(* Accumulators.                                                           *)
TrivialShape  == -1     \* Accumulator::trivial
PreparedShape == -2     \* the result of prepare, scaled by zero

IsDiscarded(entry) == Len(entry) = 1

(* 0 + r * 0 is 0, whatever r.                                             *)
Accumulate(entry, acc) == IF IsDiscarded(entry) /\ acc = <<>> THEN <<>> ELSE <<entry>> \o acc

Verifies(p, repr, assigned, acc) ==
    /\ p # 0
    /\ proofs[p].key = Self /\ proofs[p].repr = repr
    /\ proofs[p].state = assigned /\ proofs[p].acc = acc
    /\ proofs[p].satisfied

(* A combination of accumulators satisfies the pairing check when each of  *)
(* them does: their challenges are drawn from all of them.                 *)
Check(acc) ==
    \A i \in DOMAIN acc :
        IsDiscarded(acc[i])
            \/ Verifies(acc[i][1], acc[i][2], acc[i][3], SubSeq(acc, i + 1, Len(acc)))
-----------------------------------------------------------------------------
(* The public input the circuit computes from a witness, the repr of the   *)
(* key being both: nothing about prev_proof and prev_acc is checked.       *)
MutCircuit(repr, w) ==
    [repr |-> repr, state |-> CircuitTransition(w.prev_state, w.transition),
     acc  |-> Accumulate(<<PreparedShape>>, w.prev_acc)]

Circuit(repr, w) ==
    [repr  |-> repr,
     state |-> CircuitTransition(w.prev_state, w.transition),
     acc   |-> Accumulate(IF IsGenesis(w.prev_state) THEN <<PreparedShape>>
                          ELSE <<w.prev_proof, repr, w.prev_state>>, w.prev_acc)]

Proved(key, instance, satisfied) ==
    [key |-> key, repr |-> instance.repr, state |-> instance.state, acc |-> instance.acc,
     satisfied |-> satisfied]

(* Outside the circuit, the previous proof is verified.                    *)
AtGenesis     == IsGenesis(PublicInput(prover.state))
PreviousValid == AtGenesis \/ Verifies(prover.proof, Self, PublicInput(prover.state), prover.acc)

MutProofAcc == <<prover.proof, Self, PublicInput(prover.state)>>
ProofAcc == IF AtGenesis THEN <<TrivialShape>>
            ELSE <<prover.proof, Self, PublicInput(prover.state)>>

(* prove_step; with a witness that does not satisfy the circuit, prove     *)
(* returns a proof all the same.                                           *)
ProveStep(w) ==
    LET next     == Transition(prover.state, w)
        next_acc == Accumulate(ProofAcc, prover.acc)
        instance == [repr |-> Self, state |-> PublicInput(next), acc |-> next_acc]
        witness  == [prev_state |-> PublicInput(prover.state), prev_acc |-> prover.acc,
                     prev_proof |-> prover.proof, transition |-> w]
    IN  /\ Len(proofs) < MaxProofs
        /\ next # Panic
        /\ PreviousValid
        /\ proofs' = Append(proofs, Proved(Self, instance, Circuit(Self, witness) = instance))
        /\ prover' = [state |-> next, proof |-> Len(proofs'), acc |-> next_acc]
        /\ checkpoints' = checkpoints \cup {prover'}
        /\ issued' = Append(issued, [state |-> next, proof |-> Len(proofs'),
                                     restarted |-> AtGenesis /\ prover.acc # <<>>])

(* resume_from takes the state, the proof and the accumulator one by one.  *)
ResumeFrom ==
    /\ \E s, p, a \in checkpoints :
          /\ MayMix \/ (s = p /\ p = a)
          /\ prover' = [state |-> s.state, proof |-> p.proof, acc |-> a.acc]
    /\ UNCHANGED <<proofs, checkpoints, issued>>

(* Anybody may prove the circuit for a witness of theirs, or any public    *)
(* input under the key of another circuit.                                 *)
KnownAccs   == {<<>>} \cup {proofs[p].acc : p \in DOMAIN proofs}
KnownStates == {PublicInput(Genesis)} \cup ForgedStates \cup {proofs[p].state : p \in DOMAIN proofs}

ProveElsewhere ==
    /\ Len(proofs) < MaxProofs
    /\ \E repr \in {Self, Foreign}, prev_state \in KnownStates, prev_acc \in KnownAccs,
          prev_proof \in 0 .. Len(proofs), w \in Witnesses :
          proofs' = Append(proofs, Proved(Self,
              Circuit(repr, [prev_state |-> prev_state, prev_acc |-> prev_acc,
                             prev_proof |-> prev_proof, transition |-> w]), TRUE))
    /\ UNCHANGED <<prover, checkpoints, issued>>

ProveAnotherCircuit ==
    /\ Len(proofs) < MaxProofs
    /\ \E repr \in {Self, Foreign}, state \in KnownStates, acc \in KnownAccs :
          proofs' = Append(proofs, Proved(Foreign, [repr |-> repr, state |-> state, acc |-> acc], TRUE))
    /\ UNCHANGED <<prover, checkpoints, issued>>

IvcNext == \/ \E w \in Witnesses : ProveStep(w)
           \/ ResumeFrom \/ ProveElsewhere \/ ProveAnotherCircuit

IvcSpec == IvcInit /\ [][IvcNext]_ivcVars
-----------------------------------------------------------------------------
(* The verifier, given an instance and the bytes of a proof, with others   *)
(* after them or not.                                                      *)

Accepts(instance, p, trailing) ==
    /\ instance.repr = Self
    /\ Decider(instance.state)
    /\ p # 0 /\ ~trailing
    /\ Check(Accumulate(<<p, Self, PublicInput(instance.state)>>, instance.acc))

Presented(p) == [repr : {Self, Foreign}, state : StatesOf(proofs[p].state), acc : KnownAccs]
-----------------------------------------------------------------------------
(* The states that n transitions, or fewer, lead to.                       *)
Following(S) == S \cup ({Transition(s, w) : s \in S, w \in Witnesses} \ {Panic})
Reached[n \in Nat] == IF n = 0 THEN {Genesis} ELSE Following(Reached[n - 1])

(* "guarantees the existence of a valid chain of transitions from genesis  *)
(* to the current state" (IvcProver::instance), of no more transitions than*)
(* there were proofs: whatever was proved, by whomever, from whatever      *)
(* previous proof and accumulator.                                         *)
ChainIsSound ==
    \A p \in DOMAIN proofs, trailing \in BOOLEAN : \A instance \in Presented(p) :
        Accepts(instance, p, trailing) => instance.state \in Reached[p] /\ ~trailing

(* What prove_step returned is accepted with the instance of the prover,   *)
(* be the prover resumed from any checkpoints; save for a step from genesis *)
(* with an accumulator that is not trivial.                                *)
Shown(s) == Decider(s.state)
                => Accepts([repr |-> Self, state |-> s.state, acc |-> proofs[s.proof].acc],
                           s.proof, FALSE)
StepsVerify == \A i \in DOMAIN issued : issued[i].restarted \/ Shown(issued[i])

(* The comment on the challenge in prove_step: in the genesis iteration acc*)
(* evaluates to the identity "by construction".                            *)
GenesisIsTrivial == \A i \in DOMAIN issued : Shown(issued[i])
=============================================================================
