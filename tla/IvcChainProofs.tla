---------------------------- MODULE IvcChainProofs ----------------------------
(***************************************************************************)
(* Proofs about the chain: what its verifier accepts was reached from the  *)
(* genesis by transitions of the circuit, whatever was proved by whomever; *)
(* and what prove_step returned is accepted.  They hold for every          *)
(* transition system and for chains of every length.                       *)
(***************************************************************************)
EXTENDS IvcChain, SequenceTheorems, WellFoundedInduction, TLAPS

IsSeq(s) == \E S : s \in Seq(S)

(* An accumulator speaks of proofs that exist.                             *)
RefersUpTo(acc, n) == \A i \in DOMAIN acc : IsDiscarded(acc[i]) \/ acc[i][1] \in 0 .. n
IsAcc(acc, n)      == IsSeq(acc) /\ RefersUpTo(acc, n)

IvcTyped ==
    /\ IsSeq(proofs) /\ IsSeq(issued)
    /\ \A p \in DOMAIN proofs : IsAcc(proofs[p].acc, Len(proofs))
    /\ \A c \in checkpoints \cup {prover} :
          IsAcc(c.acc, Len(proofs)) /\ c.proof \in 0 .. Len(proofs)

(* Verifies and Check, of any proofs.                                      *)
VerifiesIn(ps, p, repr, assigned, acc) ==
    /\ p # 0
    /\ ps[p].key = Self /\ ps[p].repr = repr
    /\ ps[p].state = assigned /\ ps[p].acc = acc
    /\ ps[p].satisfied
CheckIn(ps, acc) ==
    \A i \in DOMAIN acc :
        IsDiscarded(acc[i])
            \/ VerifiesIn(ps, acc[i][1], acc[i][2], acc[i][3], SubSeq(acc, i + 1, Len(acc)))

(* Assigned states: R[n], of n transitions of the circuit or fewer.        *)
ClosedUnderCircuit(R) ==
    \A n \in Nat :
        /\ PublicInput(Genesis) \in R[n]
        /\ \A m \in 0 .. n : R[m] \subseteq R[n]
        /\ \A assigned \in R[n], w \in Witnesses : CircuitTransition(assigned, w) \in R[n + 1]

(* A proof under the key of the circuit, with an accumulator that checks,  *)
(* is of a state of as many transitions as there were proofs, or fewer.    *)
ProofsReach(R) ==
    \A p \in DOMAIN proofs :
        proofs[p].key = Self /\ proofs[p].repr = Self /\ proofs[p].satisfied /\ Check(proofs[p].acc)
            => proofs[p].state \in R[p]

(* States of the prover that its transitions do not lead out of, and on    *)
(* which those of the circuit agree with them.                             *)
ClosedUnderTransition(S) ==
    /\ Genesis \in S
    /\ \A s \in S, w \in Witnesses :
          Transition(s, w) # Panic =>
              /\ Transition(s, w) \in S
              /\ CircuitTransition(PublicInput(s), w) = PublicInput(Transition(s, w))

(* Whatever the prover holds checks, and what it issued is proved, save a  *)
(* step from the genesis with an accumulator that is not trivial.          *)
ShownIn(ps, s) ==
    /\ s.proof \in DOMAIN ps
    /\ s.restarted \/ /\ VerifiesIn(ps, s.proof, Self, PublicInput(s.state), ps[s.proof].acc)
                      /\ CheckIn(ps, ps[s.proof].acc)
ProverIsHonest(S) ==
    /\ \A c \in checkpoints \cup {prover} : c.state \in S /\ CheckIn(proofs, c.acc)
    /\ \A i \in DOMAIN issued : ShownIn(proofs, issued[i])

AcceptedReach(R) ==
    \A p \in DOMAIN proofs, trailing \in BOOLEAN : \A instance \in Presented(p) :
        Accepts(instance, p, trailing) => PublicInput(instance.state) \in R[p] /\ ~trailing
-----------------------------------------------------------------------------
LEMMA IsSeqLen ==
  ASSUME NEW s, IsSeq(s)
  PROVE  Len(s) \in Nat /\ DOMAIN s = 1 .. Len(s)
  <1> PICK S : s \in Seq(S)
    BY DEF IsSeq
  <1> QED
    BY LenProperties

LEMMA IsSeqEmpty == IsSeq(<<>>) /\ Len(<<>>) = 0
  BY EmptySeq DEF IsSeq

LEMMA IsSeqAppend ==
  ASSUME NEW s, IsSeq(s), NEW e
  PROVE  /\ IsSeq(Append(s, e)) /\ Len(Append(s, e)) = Len(s) + 1
         /\ Append(s, e)[Len(s) + 1] = e
         /\ \A i \in DOMAIN s : Append(s, e)[i] = s[i]
  <1> PICK S : s \in Seq(S)
    BY DEF IsSeq
  <1> DEFINE T == S \cup {e}
  <1>1. s \in Seq(T)
    BY SeqMonotonic
  <1>2. e \in T
    OBVIOUS
  <1> HIDE DEF T
  <1> QED
    BY <1>1, <1>2, AppendProperties, LenProperties DEF IsSeq

(* What Accumulate puts in front of an accumulator leaves the rest of it   *)
(* the accumulator it was.                                                 *)
LEMMA AccumulateIsSeq ==
  ASSUME NEW acc, IsSeq(acc), NEW entry
  PROVE  /\ IsSeq(<<entry>> \o acc)
         /\ Len(<<entry>> \o acc) = Len(acc) + 1
         /\ (<<entry>> \o acc)[1] = entry
         /\ \A i \in DOMAIN acc : (<<entry>> \o acc)[i + 1] = acc[i]
         /\ \A i \in 0 .. Len(acc) :
               SubSeq(<<entry>> \o acc, i + 2, Len(acc) + 1) = SubSeq(acc, i + 1, Len(acc))
         /\ SubSeq(acc, 1, Len(acc)) = acc
  <1> PICK S : acc \in Seq(S)
    BY DEF IsSeq
  <1> DEFINE T == S \cup {entry}
             whole == <<entry>> \o acc
  <1>1. acc \in Seq(T)
    BY SeqMonotonic
  <1>2. <<entry>> \in Seq(T) /\ Len(<<entry>>) = 1 /\ <<entry>>[1] = entry
    OBVIOUS
  <1> HIDE DEF T
  <1>3. Len(acc) \in Nat /\ DOMAIN acc = 1 .. Len(acc) /\ \A i \in 1 .. Len(acc) : acc[i] \in T
    BY <1>1, LenProperties, ElementOfSeq
  <1>4. /\ whole \in Seq(T) /\ Len(whole) = Len(acc) + 1
        /\ \A i \in 1 .. Len(acc) + 1 : whole[i] = IF i <= 1 THEN entry ELSE acc[i - 1]
    <2>1. /\ whole \in Seq(T) /\ Len(whole) = 1 + Len(acc)
          /\ \A i \in 1 .. 1 + Len(acc) : whole[i] = IF i <= 1 THEN <<entry>>[i] ELSE acc[i - 1]
      BY <1>1, <1>2, ConcatProperties
    <2> QED
      BY <1>2, <1>3, <2>1
  <1>5. ASSUME NEW i \in 0 .. Len(acc)
        PROVE  SubSeq(whole, i + 2, Len(acc) + 1) = SubSeq(acc, i + 1, Len(acc))
    <2> HIDE DEF whole
    <2> DEFINE n == Len(acc)
               l == SubSeq(whole, i + 2, n + 1)
               r == SubSeq(acc, i + 1, n)
    <2> HIDE DEF n
    <2>1. n \in Nat /\ i \in 0 .. n /\ whole \in Seq(T) /\ Len(whole) = n + 1
      BY <1>3, <1>4 DEF n
    <2>2. /\ \A j \in i + 2 .. n + 1 : whole[j] \in T
          /\ \A j \in i + 1 .. n : acc[j] \in T
      <3>1. \A j \in 1 .. n + 1 : whole[j] \in T
        BY <2>1, ElementOfSeq
      <3>2. \A j \in 1 .. n : acc[j] \in T
        BY <1>3 DEF n
      <3> QED
        BY <2>1, <3>1, <3>2
    <2>3. /\ l \in Seq(T)
          /\ Len(l) = IF i + 2 <= n + 1 THEN n + 1 - (i + 2) + 1 ELSE 0
          /\ \A j \in 1 .. n + 1 - (i + 2) + 1 : l[j] = whole[i + 2 + j - 1]
      BY <2>1, <2>2, SubSeqProperties
    <2>4. /\ r \in Seq(T)
          /\ Len(r) = IF i + 1 <= n THEN n - (i + 1) + 1 ELSE 0
          /\ \A j \in 1 .. n - (i + 1) + 1 : r[j] = acc[i + 1 + j - 1]
      BY <2>1, <2>2, SubSeqProperties
    <2> HIDE DEF l, r
    <2>5. Len(l) = n - i /\ Len(r) = n - i
      BY <2>1, <2>3, <2>4
    <2>6. ASSUME NEW j \in 1 .. n - i
          PROVE  l[j] = r[j]
      <3>1. l[j] = whole[i + 1 + j]
        BY <2>1, <2>3
      <3>2. r[j] = acc[i + j]
        BY <2>1, <2>4
      <3>3. whole[i + 1 + j] = acc[i + 1 + j - 1]
        BY <1>4, <2>1 DEF n
      <3> QED
        BY <2>1, <3>1, <3>2, <3>3
    <2>7. l = r
      BY <2>3, <2>4, <2>5, <2>6, SeqEqual
    <2> QED
      BY <2>7 DEF l, r, n
  <1>6. SubSeq(acc, 1, Len(acc)) = acc
    BY <1>1, SubSeqFull
  <1> QED
    BY <1>3, <1>4, <1>5, <1>6 DEF IsSeq

(* An accumulator without an entry, and with one: the entry's proof, if it *)
(* has any, must verify with the rest for its accumulator.                 *)
LEMMA CheckAccumulate ==
  ASSUME NEW ps, NEW acc, IsSeq(acc), NEW entry
  PROVE  CheckIn(ps, Accumulate(entry, acc)) <=>
            /\ IsDiscarded(entry) \/ VerifiesIn(ps, entry[1], entry[2], entry[3], acc)
            /\ CheckIn(ps, acc)
  <1>1. CASE IsDiscarded(entry) /\ acc = <<>>
    <2>1. CheckIn(ps, <<>>)
      BY DEF CheckIn
    <2> QED
      BY <1>1, <2>1 DEF Accumulate
  <1>2. CASE ~(IsDiscarded(entry) /\ acc = <<>>)
    <2> DEFINE whole == <<entry>> \o acc
               n == Len(acc)
               ok(s, i) == IsDiscarded(s[i])
                              \/ VerifiesIn(ps, s[i][1], s[i][2], s[i][3], SubSeq(s, i + 1, Len(s)))
    <2>1. Accumulate(entry, acc) = whole
      BY <1>2 DEF Accumulate
    <2>2. /\ n \in Nat /\ DOMAIN acc = 1 .. n
          /\ Len(whole) = n + 1 /\ DOMAIN whole = 1 .. n + 1
      BY IsSeqLen, AccumulateIsSeq
    <2>3. /\ whole[1] = entry /\ SubSeq(whole, 2, n + 1) = acc
      <3>1. SubSeq(whole, 0 + 2, n + 1) = SubSeq(acc, 0 + 1, n)
        BY <2>2, AccumulateIsSeq
      <3> QED
        BY <3>1, AccumulateIsSeq
    <2>4. ASSUME NEW i \in 1 .. n
          PROVE  whole[i + 1] = acc[i] /\ SubSeq(whole, i + 2, n + 1) = SubSeq(acc, i + 1, n)
      <3>1. i \in 0 .. n
        BY <2>2
      <3> QED
        BY <2>2, <3>1, AccumulateIsSeq
    <2> HIDE DEF whole
    <2>5. ok(whole, 1) <=> IsDiscarded(entry) \/ VerifiesIn(ps, entry[1], entry[2], entry[3], acc)
      <3>1. 1 + 1 = 2 /\ SubSeq(whole, 1 + 1, Len(whole)) = acc
        BY <2>2, <2>3
      <3> QED
        BY <2>3, <3>1
    <2>6. ASSUME NEW i \in 1 .. n
          PROVE  ok(whole, i + 1) <=> ok(acc, i)
      <3>1. i + 1 + 1 = i + 2
        BY <2>2
      <3> QED
        BY <2>2, <2>4, <3>1
    <2>7. CheckIn(ps, whole) <=> \A i \in 1 .. n + 1 : ok(whole, i)
      BY <2>2 DEF CheckIn
    <2>8. CheckIn(ps, acc) <=> \A i \in 1 .. n : ok(acc, i)
      BY <2>2 DEF CheckIn
    <2> HIDE DEF ok, n
    <2>9. (\A i \in 1 .. n + 1 : ok(whole, i)) <=> ok(whole, 1) /\ \A i \in 1 .. n : ok(whole, i + 1)
      <3>1. ASSUME \A i \in 1 .. n : ok(whole, i + 1), ok(whole, 1), NEW i \in 1 .. n + 1
            PROVE  ok(whole, i)
        <4>1. CASE i = 1
          BY <3>1, <4>1
        <4>2. CASE i # 1
          <5>1. i - 1 \in 1 .. n /\ i - 1 + 1 = i
            BY <2>2, <4>2
          <5> QED
            BY <3>1, <5>1
        <4> QED
          BY <4>1, <4>2
      <3>2. 1 \in 1 .. n + 1 /\ \A i \in 1 .. n : i + 1 \in 1 .. n + 1
        BY <2>2
      <3> QED
        BY <3>1, <3>2
    <2> QED
      BY <2>1, <2>5, <2>6, <2>7, <2>8, <2>9
  <1> QED
    BY <1>1, <1>2

(* What is made of an accumulator speaks of no proof it did not.           *)
LEMMA AccumulateIsAcc ==
  ASSUME NEW n \in Nat, NEW acc, IsAcc(acc, n), NEW entry, IsDiscarded(entry) \/ entry[1] \in 0 .. n
  PROVE  IsAcc(Accumulate(entry, acc), n)
  <1>1. CASE IsDiscarded(entry) /\ acc = <<>>
    BY <1>1 DEF Accumulate
  <1>2. CASE ~(IsDiscarded(entry) /\ acc = <<>>)
    <2> DEFINE whole == <<entry>> \o acc
    <2>1. Accumulate(entry, acc) = whole
      BY <1>2 DEF Accumulate
    <2>2. IsSeq(acc) /\ \A i \in DOMAIN acc : IsDiscarded(acc[i]) \/ acc[i][1] \in 0 .. n
      BY DEF IsAcc, RefersUpTo
    <2>3. /\ IsSeq(whole) /\ Len(acc) \in Nat
          /\ DOMAIN acc = 1 .. Len(acc) /\ DOMAIN whole = 1 .. Len(acc) + 1
          /\ whole[1] = entry /\ \A i \in DOMAIN acc : whole[i + 1] = acc[i]
      <3>1. Len(acc) \in Nat /\ DOMAIN acc = 1 .. Len(acc)
        BY <2>2, IsSeqLen
      <3>2. /\ IsSeq(whole) /\ Len(whole) = Len(acc) + 1
            /\ whole[1] = entry /\ \A i \in DOMAIN acc : whole[i + 1] = acc[i]
        <4>1. IsSeq(acc)
          BY <2>2
        <4>2. IsSeq(whole) /\ Len(whole) = Len(acc) + 1
          BY <4>1, AccumulateIsSeq
        <4>3. whole[1] = entry
          BY <4>1, AccumulateIsSeq
        <4>4. \A i \in DOMAIN acc : whole[i + 1] = acc[i]
          BY <4>1, AccumulateIsSeq
        <4> QED
          BY <4>2, <4>3, <4>4
      <3>3. DOMAIN whole = 1 .. Len(whole)
        BY <3>2, IsSeqLen
      <3> QED
        BY <3>1, <3>2, <3>3
    <2> HIDE DEF whole
    <2>4. ASSUME NEW i \in DOMAIN whole
          PROVE  IsDiscarded(whole[i]) \/ whole[i][1] \in 0 .. n
      <3>1. CASE i = 1
        BY <2>3, <3>1
      <3>2. CASE i # 1
        <4>1. i - 1 \in DOMAIN acc /\ i - 1 + 1 = i
          BY <2>3, <3>2
        <4>2. whole[i] = acc[i - 1]
          BY <2>3, <4>1
        <4> QED
          BY <2>2, <4>1, <4>2
      <3> QED
        BY <3>1, <3>2
    <2> QED
      BY <2>1, <2>3, <2>4 DEF IsAcc, RefersUpTo
  <1> QED
    BY <1>1, <1>2

LEMMA IsAccEmpty == ASSUME NEW n PROVE IsAcc(<<>>, n)
  BY IsSeqEmpty DEF IsAcc, RefersUpTo

LEMMA IsAccMonotonic ==
  ASSUME NEW n \in Nat, NEW acc, IsAcc(acc, n)
  PROVE  IsAcc(acc, n + 1)
  BY DEF IsAcc, RefersUpTo

(* A proof more changes nothing for the accumulators there were.           *)
LEMMA CheckAppend ==
  ASSUME NEW ps, IsSeq(ps), NEW x, NEW acc, IsAcc(acc, Len(ps))
  PROVE  CheckIn(Append(ps, x), acc) <=> CheckIn(ps, acc)
  <1> DEFINE qs == Append(ps, x)
  <1>1. Len(ps) \in Nat /\ \A p \in 1 .. Len(ps) : qs[p] = ps[p]
    BY IsSeqLen, IsSeqAppend
  <1> HIDE DEF qs
  <1>2. ASSUME NEW p \in 0 .. Len(ps), NEW repr, NEW assigned, NEW a
        PROVE  VerifiesIn(qs, p, repr, assigned, a) <=> VerifiesIn(ps, p, repr, assigned, a)
    <2>1. CASE p = 0
      BY <2>1 DEF VerifiesIn
    <2>2. CASE p # 0
      <3>1. qs[p] = ps[p]
        BY <1>1, <2>2
      <3> QED
        BY <3>1 DEF VerifiesIn
    <2> QED
      BY <2>1, <2>2
  <1>3. \A i \in DOMAIN acc : IsDiscarded(acc[i]) \/ acc[i][1] \in 0 .. Len(ps)
    BY DEF IsAcc, RefersUpTo
  <1> QED
    BY <1>2, <1>3 DEF CheckIn, qs

LEMMA CheckIsCheckIn ==
  /\ \A acc : Check(acc) <=> CheckIn(proofs, acc)
  /\ \A p, repr, assigned, acc :
        Verifies(p, repr, assigned, acc) <=> VerifiesIn(proofs, p, repr, assigned, acc)
  BY DEF Check, CheckIn, Verifies, VerifiesIn
-----------------------------------------------------------------------------
(* Types.                                                                  *)

LEMMA KnownAccsAreAccs ==
  ASSUME IvcTyped, NEW acc \in KnownAccs
  PROVE  IsAcc(acc, Len(proofs))
  BY IsAccEmpty DEF KnownAccs, IvcTyped

(* Every new proof is appended to the others and speaks of those.          *)
LEMMA ProofAppended ==
  ASSUME IvcTyped, NEW x, IsAcc(x.acc, Len(proofs)), proofs' = Append(proofs, x)
  PROVE  /\ Len(proofs) \in Nat /\ Len(proofs') = Len(proofs) + 1 /\ IsSeq(proofs')
         /\ DOMAIN proofs' = DOMAIN proofs \cup {Len(proofs')}
         /\ proofs'[Len(proofs')] = x /\ \A p \in DOMAIN proofs : proofs'[p] = proofs[p]
         /\ \A p \in DOMAIN proofs' : IsAcc(proofs'[p].acc, Len(proofs'))
  <1>1. IsSeq(proofs) /\ \A p \in DOMAIN proofs : IsAcc(proofs[p].acc, Len(proofs))
    BY DEF IvcTyped
  <1>2. Len(proofs) \in Nat /\ DOMAIN proofs = 1 .. Len(proofs)
    BY <1>1, IsSeqLen
  <1>3. /\ Len(proofs') = Len(proofs) + 1 /\ IsSeq(proofs')
        /\ proofs'[Len(proofs) + 1] = x /\ \A p \in DOMAIN proofs : proofs'[p] = proofs[p]
    BY <1>1, IsSeqAppend
  <1>4. DOMAIN proofs' = 1 .. Len(proofs) + 1
    BY <1>3, IsSeqLen
  <1>5. \A p \in DOMAIN proofs : IsAcc(proofs[p].acc, Len(proofs) + 1)
    BY <1>1, <1>2, IsAccMonotonic
  <1>6. IsAcc(x.acc, Len(proofs) + 1)
    BY <1>2, IsAccMonotonic
  <1>7. DOMAIN proofs' = DOMAIN proofs \cup {Len(proofs')}
    BY <1>2, <1>3, <1>4
  <1> QED
    BY <1>2, <1>3, <1>5, <1>6, <1>7

(* What the prover and its checkpoints hold stays well formed.             *)
LEMMA CheckpointsStayTyped ==
  ASSUME IvcTyped, NEW x, IsAcc(x.acc, Len(proofs)), proofs' = Append(proofs, x),
         UNCHANGED <<prover, checkpoints, issued>>
  PROVE  IvcTyped'
  <1>1. ASSUME NEW c \in checkpoints \cup {prover}
        PROVE  IsAcc(c.acc, Len(proofs')) /\ c.proof \in 0 .. Len(proofs')
    BY ProofAppended, IsAccMonotonic DEF IvcTyped
  <1> QED
    BY <1>1, ProofAppended DEF IvcTyped

LEMMA InitTyped == IvcInit => IvcTyped
  BY IsSeqEmpty, IsAccEmpty DEF IvcInit, IvcTyped, AtSetup

LEMMA CircuitIsAcc ==
  ASSUME NEW n \in Nat, NEW repr, NEW w, IsAcc(w.prev_acc, n), w.prev_proof \in 0 .. n
  PROVE  IsAcc(Circuit(repr, w).acc, n)
  <1> DEFINE entry == IF IsGenesis(w.prev_state) THEN <<PreparedShape>>
                      ELSE <<w.prev_proof, repr, w.prev_state>>
  <1>1. IsDiscarded(entry) \/ entry[1] \in 0 .. n
    BY DEF IsDiscarded
  <1>2. Circuit(repr, w).acc = Accumulate(entry, w.prev_acc)
    BY DEF Circuit
  <1> HIDE DEF entry
  <1> QED
    BY <1>1, <1>2, AccumulateIsAcc

(* The proof that prove_step adds.                                         *)
StepWitness(w) == [prev_state |-> PublicInput(prover.state), prev_acc |-> prover.acc,
                   prev_proof |-> prover.proof, transition |-> w]
StepInstance(w) == [repr |-> Self, state |-> PublicInput(Transition(prover.state, w)),
                    acc |-> Accumulate(ProofAcc, prover.acc)]
StepProof(w) == Proved(Self, StepInstance(w), Circuit(Self, StepWitness(w)) = StepInstance(w))

LEMMA ProveStepAppends ==
  ASSUME IvcTyped, NEW w, ProveStep(w)
  PROVE  /\ proofs' = Append(proofs, StepProof(w)) /\ IsAcc(StepProof(w).acc, Len(proofs))
         /\ prover' = [state |-> Transition(prover.state, w), proof |-> Len(proofs'),
                       acc |-> StepProof(w).acc]
         /\ checkpoints' = checkpoints \cup {prover'}
         /\ issued' = Append(issued, [state |-> Transition(prover.state, w), proof |-> Len(proofs'),
                                      restarted |-> AtGenesis /\ prover.acc # <<>>])
         /\ Transition(prover.state, w) # Panic /\ PreviousValid
  <1>1. StepProof(w).acc = Accumulate(ProofAcc, prover.acc)
    BY DEF StepProof, Proved, StepInstance
  <1>2. IsDiscarded(ProofAcc) \/ ProofAcc[1] \in 0 .. Len(proofs)
    BY DEF ProofAcc, IsDiscarded, IvcTyped
  <1>3. IsAcc(Accumulate(ProofAcc, prover.acc), Len(proofs))
    BY <1>2, AccumulateIsAcc, IsSeqLen DEF IvcTyped
  <1> QED
    BY <1>1, <1>3 DEF ProveStep, StepProof, StepInstance, StepWitness

LEMMA ProveStepTyped ==
  ASSUME IvcTyped, NEW w, ProveStep(w)
  PROVE  IvcTyped'
  <1>1. /\ Len(proofs) \in Nat /\ Len(proofs') = Len(proofs) + 1 /\ IsSeq(proofs')
        /\ \A p \in DOMAIN proofs' : IsAcc(proofs'[p].acc, Len(proofs'))
    BY ProveStepAppends, ProofAppended
  <1>2. IsAcc(StepProof(w).acc, Len(proofs) + 1)
    BY <1>1, ProveStepAppends, IsAccMonotonic
  <1>3. IsAcc(prover'.acc, Len(proofs')) /\ prover'.proof \in 0 .. Len(proofs')
    <2>1. prover' = [state |-> Transition(prover.state, w), proof |-> Len(proofs'),
                     acc |-> StepProof(w).acc]
      BY ProveStepAppends
    <2>2. prover'.acc = StepProof(w).acc /\ prover'.proof = Len(proofs')
      BY <2>1
    <2> QED
      BY <1>1, <1>2, <2>2
  <1>4. ASSUME NEW c \in checkpoints
        PROVE  IsAcc(c.acc, Len(proofs')) /\ c.proof \in 0 .. Len(proofs')
    BY <1>1, IsAccMonotonic DEF IvcTyped
  <1>5. checkpoints' \cup {prover'} = checkpoints \cup {prover'}
    BY ProveStepAppends
  <1>6. IsSeq(issued')
    <2>1. PICK e : issued' = Append(issued, e)
      BY ProveStepAppends
    <2>2. IsSeq(issued)
      BY DEF IvcTyped
    <2> QED
      BY <2>1, <2>2, IsSeqAppend
  <1> QED
    BY <1>1, <1>3, <1>4, <1>5, <1>6 DEF IvcTyped

LEMMA ResumeTyped ==
  ASSUME IvcTyped, ResumeFrom
  PROVE  IvcTyped'
  <1>1. PICK s \in checkpoints, p \in checkpoints, a \in checkpoints :
           prover' = [state |-> s.state, proof |-> p.proof, acc |-> a.acc]
    BY DEF ResumeFrom
  <1>2. prover'.acc = a.acc /\ prover'.proof = p.proof
    BY <1>1
  <1> QED
    BY <1>2 DEF IvcTyped, ResumeFrom

(* A proof of anybody's: of the circuit for a witness of theirs, or of     *)
(* another circuit.                                                        *)
ElsewhereWitness(prev_state, prev_acc, prev_proof, w) ==
    [prev_state |-> prev_state, prev_acc |-> prev_acc, prev_proof |-> prev_proof, transition |-> w]

LEMMA ElsewhereAppends ==
  ASSUME IvcTyped, ProveElsewhere
  PROVE  \E repr \in {Self, Foreign}, prev_state \in KnownStates, prev_acc \in KnownAccs,
            prev_proof \in 0 .. Len(proofs), w \in Witnesses :
            LET c == Circuit(repr, ElsewhereWitness(prev_state, prev_acc, prev_proof, w))
            IN  /\ IsAcc(prev_acc, Len(proofs)) /\ IsAcc(c.acc, Len(proofs))
                /\ proofs' = Append(proofs, Proved(Self, c, TRUE))
  <1>1. PICK repr \in {Self, Foreign}, prev_state \in KnownStates, prev_acc \in KnownAccs,
             prev_proof \in 0 .. Len(proofs), w \in Witnesses :
             proofs' = Append(proofs, Proved(Self,
                           Circuit(repr, ElsewhereWitness(prev_state, prev_acc, prev_proof, w)), TRUE))
    BY DEF ProveElsewhere, ElsewhereWitness
  <1>2. IsAcc(prev_acc, Len(proofs)) /\ Len(proofs) \in Nat
    BY KnownAccsAreAccs, IsSeqLen DEF IvcTyped
  <1> DEFINE wit == ElsewhereWitness(prev_state, prev_acc, prev_proof, w)
  <1>3. wit.prev_acc = prev_acc /\ wit.prev_proof = prev_proof
    BY DEF ElsewhereWitness
  <1> HIDE DEF wit
  <1>4. IsAcc(Circuit(repr, wit).acc, Len(proofs))
    BY <1>2, <1>3, CircuitIsAcc
  <1> QED
    BY <1>1, <1>2, <1>4 DEF wit

LEMMA NextTyped == IvcTyped /\ [IvcNext]_ivcVars => IvcTyped'
  <1> SUFFICES ASSUME IvcTyped, [IvcNext]_ivcVars
               PROVE  IvcTyped'
    OBVIOUS
  <1>1. ASSUME NEW w \in Witnesses, ProveStep(w)
        PROVE  IvcTyped'
    BY <1>1, ProveStepTyped
  <1>2. CASE ResumeFrom
    BY <1>2, ResumeTyped
  <1>3. CASE ProveElsewhere
    <2>1. PICK repr, wit :
             IsAcc(Circuit(repr, wit).acc, Len(proofs))
                /\ proofs' = Append(proofs, Proved(Self, Circuit(repr, wit), TRUE))
      BY <1>3, ElsewhereAppends
    <2> DEFINE x == Proved(Self, Circuit(repr, wit), TRUE)
    <2>2. x.acc = Circuit(repr, wit).acc
      BY DEF Proved
    <2> HIDE DEF x
    <2> QED
      BY <1>3, <2>1, <2>2, CheckpointsStayTyped DEF ProveElsewhere, x
  <1>4. CASE ProveAnotherCircuit
    <2>1. PICK repr \in {Self, Foreign}, state \in KnownStates, acc \in KnownAccs :
             proofs' = Append(proofs, Proved(Foreign, [repr |-> repr, state |-> state, acc |-> acc], TRUE))
      BY <1>4 DEF ProveAnotherCircuit
    <2> DEFINE x == Proved(Foreign, [repr |-> repr, state |-> state, acc |-> acc], TRUE)
    <2>2. x.acc = acc
      BY DEF Proved
    <2> HIDE DEF x
    <2> QED
      BY <1>4, <2>1, <2>2, KnownAccsAreAccs, CheckpointsStayTyped DEF ProveAnotherCircuit, x
  <1>5. CASE UNCHANGED ivcVars
    BY <1>5 DEF ivcVars, IvcTyped
  <1> QED
    BY <1>1, <1>2, <1>3, <1>4, <1>5 DEF IvcNext
-----------------------------------------------------------------------------
(* What is accepted was reached.                                           *)

(* The circuit, for any witness whatever: when the accumulator it makes    *)
(* checks, the previous state was the genesis or is of a proof that checks.*)
LEMMA CircuitReaches ==
  ASSUME NEW R, ClosedUnderCircuit(R), IvcTyped, ProofsReach(R),
         NEW w, IsAcc(w.prev_acc, Len(proofs)), w.prev_proof \in 0 .. Len(proofs),
         w.transition \in Witnesses, Check(Circuit(Self, w).acc)
  PROVE  Circuit(Self, w).state \in R[Len(proofs) + 1]
  <1> DEFINE entry == IF IsGenesis(w.prev_state) THEN <<PreparedShape>>
                      ELSE <<w.prev_proof, Self, w.prev_state>>
  <1>1. CheckIn(proofs, Accumulate(entry, w.prev_acc))
    BY CheckIsCheckIn DEF Circuit
  <1>2. IsSeq(w.prev_acc)
    BY DEF IsAcc
  <1>3. /\ IsDiscarded(entry) \/ VerifiesIn(proofs, entry[1], entry[2], entry[3], w.prev_acc)
        /\ CheckIn(proofs, w.prev_acc)
    <2> HIDE DEF entry
    <2> QED
      BY <1>1, <1>2, CheckAccumulate
  <1> DEFINE n == Len(proofs)
  <1>0. n \in Nat /\ DOMAIN proofs = 1 .. n
    BY IsSeqLen DEF IvcTyped
  <1>4. w.prev_state \in R[n]
    <2>1. CASE IsGenesis(w.prev_state)
      BY <1>0, <2>1 DEF IsGenesis, ClosedUnderCircuit
    <2>2. CASE ~IsGenesis(w.prev_state)
      <3>1. ~IsDiscarded(entry) /\ entry = <<w.prev_proof, Self, w.prev_state>>
        BY <2>2 DEF IsDiscarded
      <3>2. VerifiesIn(proofs, w.prev_proof, Self, w.prev_state, w.prev_acc)
        BY <1>3, <3>1
      <3>3. w.prev_proof \in DOMAIN proofs
        BY <3>2, IsSeqLen DEF VerifiesIn, IvcTyped
      <3>4. Check(proofs[w.prev_proof].acc)
        BY <1>3, <3>2, CheckIsCheckIn DEF VerifiesIn
      <3>5. w.prev_state \in R[w.prev_proof]
        BY <3>2, <3>3, <3>4 DEF ProofsReach, VerifiesIn
      <3>6. w.prev_proof \in 0 .. n
        BY <1>0, <3>3
      <3> QED
        BY <1>0, <3>5, <3>6 DEF ClosedUnderCircuit
    <2> QED
      BY <2>1, <2>2
  <1> QED
    BY <1>0, <1>4 DEF Circuit, ClosedUnderCircuit

LEMMA ReachProofAdded ==
  ASSUME NEW R, IvcTyped, ProofsReach(R), NEW x, IsAcc(x.acc, Len(proofs)),
         proofs' = Append(proofs, x),
         x.key = Self /\ x.repr = Self /\ x.satisfied /\ Check(x.acc)
             => x.state \in R[Len(proofs) + 1]
  PROVE  ProofsReach(R)'
  <1>1. /\ proofs'[Len(proofs')] = x /\ DOMAIN proofs' = DOMAIN proofs \cup {Len(proofs')}
        /\ \A p \in DOMAIN proofs : proofs'[p] = proofs[p]
    BY ProofAppended
  <1>2. Len(proofs') = Len(proofs) + 1
    BY IsSeqAppend DEF IvcTyped
  <1>3. ASSUME NEW acc, IsAcc(acc, Len(proofs))
        PROVE  CheckIn(proofs', acc) <=> Check(acc)
    BY <1>3, CheckAppend, CheckIsCheckIn DEF IvcTyped
  <1>4. ASSUME NEW p \in DOMAIN proofs', NEW q, q = proofs'[p],
               q.key = Self, q.repr = Self, q.satisfied, CheckIn(proofs', q.acc)
        PROVE  q.state \in R[p]
    <2>1. CASE p \in DOMAIN proofs
      <3>1. IsAcc(q.acc, Len(proofs)) /\ q = proofs[p]
        BY <1>1, <1>4, <2>1 DEF IvcTyped
      <3>2. Check(q.acc)
        BY <1>3, <1>4, <3>1
      <3> QED
        BY <1>4, <2>1, <3>1, <3>2 DEF ProofsReach
    <2>2. CASE p = Len(proofs')
      <3>1. q = x
        BY <1>1, <1>4, <2>2
      <3>2. Check(x.acc)
        BY <1>3, <1>4, <3>1
      <3> QED
        BY <1>2, <1>4, <2>2, <3>1, <3>2
    <2> QED
      BY <1>1, <2>1, <2>2
  <1>5. ASSUME NEW p \in DOMAIN proofs', proofs'[p].key = Self, proofs'[p].repr = Self,
               proofs'[p].satisfied, Check(proofs[p].acc)'
        PROVE  proofs'[p].state \in R[p]
    <2>1. CheckIn(proofs', proofs'[p].acc)
      BY <1>5 DEF Check, CheckIn, Verifies, VerifiesIn
    <2> QED
      BY <1>4, <1>5, <2>1
  <1> QED
    BY <1>5 DEF ProofsReach

LEMMA NextReaches ==
  ASSUME Self # Foreign,
         NEW R, ClosedUnderCircuit(R), IvcTyped, ProofsReach(R), [IvcNext]_ivcVars
  PROVE  ProofsReach(R)'
  <1>1. ASSUME NEW w \in Witnesses, ProveStep(w)
        PROVE  ProofsReach(R)'
    <2> DEFINE x == StepProof(w)
               wit == StepWitness(w)
    <2>1. proofs' = Append(proofs, x) /\ IsAcc(x.acc, Len(proofs))
      BY <1>1, ProveStepAppends
    <2>2. ASSUME x.satisfied, Check(x.acc)
          PROVE  x.state \in R[Len(proofs) + 1]
      <3>1. Circuit(Self, wit) = StepInstance(w)
        BY <2>2 DEF StepProof, Proved
      <3>2. x.state = StepInstance(w).state /\ x.acc = StepInstance(w).acc
        BY DEF StepProof, Proved
      <3>3. /\ wit.prev_acc = prover.acc /\ wit.prev_proof = prover.proof
            /\ wit.transition = w
        BY DEF StepWitness
      <3>4. IsAcc(prover.acc, Len(proofs)) /\ prover.proof \in 0 .. Len(proofs)
        BY DEF IvcTyped
      <3> HIDE DEF x, wit
      <3>5. Check(Circuit(Self, wit).acc)
        BY <2>2, <3>1, <3>2
      <3> QED
        BY <3>1, <3>2, <3>3, <3>4, <3>5, CircuitReaches
    <2> HIDE DEF x
    <2> QED
      BY <2>1, <2>2, ReachProofAdded
  <1>2. CASE ProveElsewhere
    <2>1. PICK repr \in {Self, Foreign}, prev_state \in KnownStates, prev_acc \in KnownAccs,
               prev_proof \in 0 .. Len(proofs), w \in Witnesses :
             LET c == Circuit(repr, ElsewhereWitness(prev_state, prev_acc, prev_proof, w))
             IN  /\ IsAcc(prev_acc, Len(proofs)) /\ IsAcc(c.acc, Len(proofs))
                 /\ proofs' = Append(proofs, Proved(Self, c, TRUE))
      BY <1>2, ElsewhereAppends
    <2> DEFINE wit == ElsewhereWitness(prev_state, prev_acc, prev_proof, w)
               x == Proved(Self, Circuit(repr, wit), TRUE)
    <2>2. /\ x.repr = repr /\ x.state = Circuit(repr, wit).state /\ x.acc = Circuit(repr, wit).acc
      BY DEF Proved, Circuit
    <2>3. wit.prev_acc = prev_acc /\ wit.prev_proof = prev_proof /\ wit.transition = w
      BY DEF ElsewhereWitness
    <2>4. proofs' = Append(proofs, x) /\ IsAcc(x.acc, Len(proofs))
      BY <2>1, <2>2
    <2> HIDE DEF x, wit
    <2>5. ASSUME x.repr = Self, Check(x.acc)
          PROVE  x.state \in R[Len(proofs) + 1]
      BY <2>1, <2>2, <2>3, <2>5, CircuitReaches
    <2> QED
      BY <2>4, <2>5, ReachProofAdded
  <1>3. CASE ProveAnotherCircuit
    <2>1. PICK repr \in {Self, Foreign}, state \in KnownStates, acc \in KnownAccs :
             proofs' = Append(proofs, Proved(Foreign, [repr |-> repr, state |-> state, acc |-> acc], TRUE))
      BY <1>3 DEF ProveAnotherCircuit
    <2> DEFINE x == Proved(Foreign, [repr |-> repr, state |-> state, acc |-> acc], TRUE)
    <2>2. x.acc = acc /\ x.key = Foreign
      BY DEF Proved
    <2> HIDE DEF x
    <2> QED
      BY <2>1, <2>2, KnownAccsAreAccs, ReachProofAdded DEF x
  <1>4. CASE proofs' = proofs
    BY <1>4 DEF ProofsReach, Check, Verifies
  <1> QED
    BY <1>1, <1>2, <1>3, <1>4 DEF IvcNext, ResumeFrom, ivcVars

LEMMA InitReaches == ASSUME NEW R, IvcInit PROVE ProofsReach(R)
  BY DEF IvcInit, ProofsReach

(* What the verifier accepts is a proof that checks, of that public input. *)
LEMMA ReachIsAccepted ==
  ASSUME NEW R, IvcTyped, ProofsReach(R)
  PROVE  AcceptedReach(R)
  <1> SUFFICES ASSUME NEW p \in DOMAIN proofs, NEW trailing \in BOOLEAN,
                      NEW instance \in Presented(p), Accepts(instance, p, trailing)
               PROVE  PublicInput(instance.state) \in R[p] /\ ~trailing
    BY DEF AcceptedReach
  <1> DEFINE entry == <<p, Self, PublicInput(instance.state)>>
  <1>1. instance.acc \in KnownAccs
    BY DEF Presented
  <1>2. IsSeq(instance.acc)
    BY <1>1, KnownAccsAreAccs DEF IsAcc
  <1>3. CheckIn(proofs, Accumulate(entry, instance.acc)) /\ ~trailing
    BY CheckIsCheckIn DEF Accepts
  <1>4. /\ ~IsDiscarded(entry)
        /\ entry[1] = p /\ entry[2] = Self /\ entry[3] = PublicInput(instance.state)
    BY DEF IsDiscarded
  <1> HIDE DEF entry
  <1>5. /\ VerifiesIn(proofs, p, Self, PublicInput(instance.state), instance.acc)
        /\ CheckIn(proofs, instance.acc)
    BY <1>2, <1>3, <1>4, CheckAccumulate
  <1> QED
    BY <1>3, <1>5, CheckIsCheckIn DEF VerifiesIn, ProofsReach

(* IvcProver::instance "guarantees the existence of a valid chain of       *)
(* transitions from genesis to the current state": whatever the sets R[n]  *)
(* of assigned states that n transitions of the circuit do not lead out of,*)
(* the p-th proof is accepted for no state but of R[p].                    *)
THEOREM AcceptedStatesAreReached ==
  ASSUME Self # Foreign, NEW R, ClosedUnderCircuit(R)
  PROVE  IvcSpec => []AcceptedReach(R)
  <1>1. IvcInit => IvcTyped /\ ProofsReach(R)
    BY InitTyped, InitReaches
  <1>2. IvcTyped /\ ProofsReach(R) /\ [IvcNext]_ivcVars => (IvcTyped /\ ProofsReach(R))'
    BY NextTyped, NextReaches
  <1>3. IvcTyped /\ ProofsReach(R) => AcceptedReach(R)
    BY ReachIsAccepted
  <1> QED
    BY <1>1, <1>2, <1>3, PTL DEF IvcSpec
-----------------------------------------------------------------------------
(* The states that transitions lead to, as the recursion defines them.     *)
IsReached(f, n) == f = [i \in 0 .. n |-> IF i = 0 THEN {Genesis} ELSE Following(f[i - 1])]

LEMMA ReachedExist == \A n \in Nat : \E f : IsReached(f, n)
  <1> DEFINE Bad == {n \in Nat : ~ \E f : IsReached(f, n)}
  <1>1. ASSUME Bad # {}
        PROVE  FALSE
    <2>1. PICK n \in Bad : \A y \in Bad : ~ (<<y, n>> \in OpToRel(<, Nat))
      BY <1>1, WFMin, NatLessThanWellFounded
    <2>2. n \in Nat /\ (~ \E f : IsReached(f, n)) /\ \A y \in Bad : ~ (y < n)
      BY <2>1 DEF OpToRel
    <2>3. CASE n = 0
      <3> DEFINE f == [i \in 0 .. 0 |-> {Genesis}]
      <3>1. IsReached(f, 0)
        BY DEF IsReached
      <3> QED
        BY <2>2, <2>3, <3>1
    <2>4. CASE n # 0
      <3>1. n - 1 \in Nat /\ n - 1 < n
        BY <2>2, <2>4
      <3>2. PICK g : IsReached(g, n - 1)
        BY <2>2, <3>1
      <3> DEFINE f == [i \in 0 .. n |-> IF i = n THEN Following(g[n - 1]) ELSE g[i]]
      <3>3. ASSUME NEW i \in 0 .. n
            PROVE  f[i] = IF i = 0 THEN {Genesis} ELSE Following(f[i - 1])
        <4>1. CASE i = n
          <5>1. f[i] = Following(g[n - 1]) /\ f[i - 1] = g[n - 1] /\ i # 0
            BY <2>4, <3>1, <4>1
          <5> QED
            BY <4>1, <5>1
        <4>2. CASE i # n
          <5>1. i \in 0 .. n - 1 /\ f[i] = g[i] /\ (i # 0 => i - 1 \in 0 .. n /\ f[i - 1] = g[i - 1])
            BY <2>2, <3>1, <4>2
          <5>2. g[i] = IF i = 0 THEN {Genesis} ELSE Following(g[i - 1])
            BY <3>2, <5>1 DEF IsReached
          <5> QED
            BY <5>1, <5>2
        <4> QED
          BY <4>1, <4>2
      <3>4. IsReached(f, n)
        <4> DEFINE h == [i \in 0 .. n |-> IF i = 0 THEN {Genesis} ELSE Following(f[i - 1])]
        <4>1. f = h
          BY <3>3
        <4> QED
          BY <4>1 DEF IsReached
      <3> QED
        BY <2>2, <3>4
    <2> QED
      BY <2>3, <2>4
  <1> QED
    BY <1>1

LEMMA ReachedAgree ==
  ASSUME NEW m \in Nat, NEW n \in Nat, NEW f, NEW g, IsReached(f, m), IsReached(g, n)
  PROVE  \A i \in 0 .. m : i \in 0 .. n => f[i] = g[i]
  <1> DEFINE Bad == {i \in 0 .. m : i \in 0 .. n /\ f[i] # g[i]}
  <1>1. ASSUME Bad # {}
        PROVE  FALSE
    <2>1. Bad \subseteq Nat
      OBVIOUS
    <2>2. PICK i \in Bad : \A y \in Bad : ~ (<<y, i>> \in OpToRel(<, Nat))
      BY <1>1, <2>1, WFMin, NatLessThanWellFounded
    <2>3. i \in 0 .. m /\ i \in 0 .. n /\ f[i] # g[i] /\ \A y \in Bad : ~ (y < i)
      BY <2>1, <2>2 DEF OpToRel
    <2>4. i # 0
      BY <2>3 DEF IsReached
    <2>5. i - 1 \in 0 .. m /\ i - 1 \in 0 .. n /\ i - 1 < i
      BY <2>3, <2>4
    <2>6. f[i - 1] = g[i - 1]
      BY <2>3, <2>5
    <2> QED
      BY <2>3, <2>4, <2>6 DEF IsReached
  <1> QED
    BY <1>1

LEMMA ReachedLast ==
  ASSUME NEW n \in Nat, NEW f, IsReached(f, n)
  PROVE  f[n] = IF n = 0 THEN {Genesis} ELSE Following(f[n - 1])
  <1>1. n \in 0 .. n
    OBVIOUS
  <1> QED
    BY <1>1 DEF IsReached

LEMMA ReachedDefined == Reached = [n \in Nat |-> IF n = 0 THEN {Genesis} ELSE Following(Reached[n - 1])]
  <1> DEFINE reached(n) == CHOOSE f : IsReached(f, n)
             F == [n \in Nat |-> reached(n)[n]]
  <1>1. \A n \in Nat : IsReached(reached(n), n)
    BY ReachedExist
  <1>2. ASSUME NEW n \in Nat
        PROVE  F[n] = IF n = 0 THEN {Genesis} ELSE Following(F[n - 1])
    <2>1. F[n] = reached(n)[n]
      OBVIOUS
    <2>2. reached(n)[n] = IF n = 0 THEN {Genesis} ELSE Following(reached(n)[n - 1])
      <3> HIDE DEF reached
      <3> QED
        BY <1>1, ReachedLast
    <2>3. CASE n = 0
      BY <2>1, <2>2, <2>3
    <2>4. CASE n # 0
      <3>1. n - 1 \in Nat /\ n - 1 \in 0 .. n /\ n - 1 \in 0 .. n - 1
        BY <2>4
      <3>2. F[n - 1] = reached(n - 1)[n - 1]
        BY <3>1
      <3>3. reached(n)[n - 1] = reached(n - 1)[n - 1]
        <4> HIDE DEF reached
        <4> QED
          BY <1>1, <3>1, ReachedAgree
      <3> QED
        BY <2>1, <2>2, <2>4, <3>2, <3>3
    <2> QED
      BY <2>3, <2>4
  <1>3. F = [n \in Nat |-> IF n = 0 THEN {Genesis} ELSE Following(F[n - 1])]
    <2> HIDE DEF reached
    <2> DEFINE G == [n \in Nat |-> IF n = 0 THEN {Genesis} ELSE Following(F[n - 1])]
    <2>1. F = G
      <3>1. \A n \in Nat : F[n] = G[n]
        BY <1>2
      <3> QED
        BY <3>1
    <2> QED
      BY <2>1
  <1> HIDE DEF F
  <1> QED
    BY <1>3 DEF Reached

LEMMA ReachedGrows ==
  ASSUME NEW n \in Nat
  PROVE  /\ Genesis \in Reached[n]
         /\ Reached[n + 1] = Following(Reached[n])
         /\ \A m \in 0 .. n : Reached[m] \subseteq Reached[n]
  <1>1. Reached[0] = {Genesis} /\ \A k \in Nat : Reached[k + 1] = Following(Reached[k])
    <2>1. Reached[0] = {Genesis}
      BY ReachedDefined
    <2>2. ASSUME NEW k \in Nat
          PROVE  Reached[k + 1] = Following(Reached[k])
      <3>1. \A j \in Nat : Reached[j] = IF j = 0 THEN {Genesis} ELSE Following(Reached[j - 1])
        BY ReachedDefined
      <3>2. k + 1 \in Nat /\ k + 1 # 0 /\ k + 1 - 1 = k
        OBVIOUS
      <3>3. Reached[k + 1] = Following(Reached[k + 1 - 1])
        BY <3>1, <3>2
      <3> QED
        BY <3>2, <3>3
    <2> QED
      BY <2>1, <2>2
  <1> DEFINE Holds(k) == Genesis \in Reached[k] /\ \A m \in 0 .. k : Reached[m] \subseteq Reached[k]
             Bad == {k \in Nat : ~Holds(k)}
  <1>2. ASSUME Bad # {}
        PROVE  FALSE
    <2>1. PICK k \in Bad : \A y \in Bad : ~ (<<y, k>> \in OpToRel(<, Nat))
      BY <1>2, WFMin, NatLessThanWellFounded
    <2>2. k \in Nat /\ ~Holds(k) /\ \A y \in Bad : ~ (y < k)
      BY <2>1 DEF OpToRel
    <2>3. k # 0
      <3>1. Holds(0)
        BY <1>1
      <3> QED
        BY <2>2, <3>1
    <2>4. k - 1 \in Nat /\ k - 1 < k /\ k - 1 + 1 = k
      BY <2>2, <2>3
    <2>5. Holds(k - 1)
      BY <2>2, <2>4
    <2>6. Reached[k] = Following(Reached[k - 1])
      BY <1>1, <2>4
    <2>7. Reached[k - 1] \subseteq Reached[k]
      BY <2>6 DEF Following
    <2>8. ASSUME NEW m \in 0 .. k
          PROVE  Reached[m] \subseteq Reached[k]
      <3>1. m = k \/ m \in 0 .. k - 1
        BY <2>2, <2>4
      <3> QED
        BY <2>5, <2>7, <3>1
    <2> QED
      BY <2>2, <2>5, <2>7, <2>8
  <1>3. Holds(n)
    BY <1>2
  <1> QED
    BY <1>1, <1>3

(* The states reached, as assigned in the circuit.                         *)
ReachedInputs == [n \in Nat |-> {PublicInput(s) : s \in Reached[n]}]

(* On the states that are reached, the circuit does what the transition    *)
(* does, which never panics, and a public input is that of one state.      *)
CircuitAgrees ==
    \A n \in Nat : \A s \in Reached[n] :
        /\ \A w \in Witnesses : /\ Transition(s, w) # Panic
                                /\ CircuitTransition(PublicInput(s), w) = PublicInput(Transition(s, w))
        /\ \A state : PublicInput(state) = PublicInput(s) => state = s

LEMMA ReachedAreClosed ==
  ASSUME CircuitAgrees
  PROVE  ClosedUnderCircuit(ReachedInputs)
  <1>1. ASSUME NEW n \in Nat
        PROVE  /\ PublicInput(Genesis) \in ReachedInputs[n]
               /\ \A m \in 0 .. n : ReachedInputs[m] \subseteq ReachedInputs[n]
               /\ \A assigned \in ReachedInputs[n], w \in Witnesses :
                     CircuitTransition(assigned, w) \in ReachedInputs[n + 1]
    <2>1. PublicInput(Genesis) \in ReachedInputs[n]
      BY ReachedGrows DEF ReachedInputs
    <2>2. ASSUME NEW m \in 0 .. n
          PROVE  ReachedInputs[m] \subseteq ReachedInputs[n]
      <3>1. m \in Nat /\ Reached[m] \subseteq Reached[n]
        BY ReachedGrows
      <3> QED
        BY <3>1 DEF ReachedInputs
    <2>3. ASSUME NEW assigned \in ReachedInputs[n], NEW w \in Witnesses
          PROVE  CircuitTransition(assigned, w) \in ReachedInputs[n + 1]
      <3>1. PICK s \in Reached[n] : assigned = PublicInput(s)
        BY DEF ReachedInputs
      <3>2. /\ Transition(s, w) # Panic
            /\ CircuitTransition(assigned, w) = PublicInput(Transition(s, w))
        BY <3>1 DEF CircuitAgrees
      <3>3. Transition(s, w) \in Reached[n + 1]
        BY <3>2, ReachedGrows DEF Following
      <3> QED
        BY <3>2, <3>3 DEF ReachedInputs
    <2> QED
      BY <2>1, <2>2, <2>3
  <1> QED
    BY <1>1 DEF ClosedUnderCircuit

LEMMA ReachedInputsAreSound ==
  ASSUME CircuitAgrees, IvcTyped, AcceptedReach(ReachedInputs)
  PROVE  ChainIsSound
  <1> SUFFICES ASSUME NEW p \in DOMAIN proofs, NEW trailing \in BOOLEAN,
                      NEW instance \in Presented(p), Accepts(instance, p, trailing)
               PROVE  instance.state \in Reached[p] /\ ~trailing
    BY DEF ChainIsSound
  <1>1. p \in Nat
    BY IsSeqLen DEF IvcTyped
  <1>2. PublicInput(instance.state) \in ReachedInputs[p] /\ ~trailing
    BY DEF AcceptedReach
  <1>3. PICK s \in Reached[p] : PublicInput(instance.state) = PublicInput(s)
    BY <1>1, <1>2 DEF ReachedInputs
  <1> QED
    BY <1>1, <1>2, <1>3 DEF CircuitAgrees

(* The same of states, where the circuit does what the prover does: the    *)
(* p-th proof is accepted for no state that more than p transitions are    *)
(* needed for, or that none lead to.                                       *)
THEOREM ChainsAreSound ==
  ASSUME Self # Foreign, CircuitAgrees
  PROVE  IvcSpec => []ChainIsSound
  <1>1. IvcInit => IvcTyped /\ ProofsReach(ReachedInputs)
    BY InitTyped, InitReaches
  <1>2. IvcTyped /\ ProofsReach(ReachedInputs) /\ [IvcNext]_ivcVars
           => (IvcTyped /\ ProofsReach(ReachedInputs))'
    BY ReachedAreClosed, NextTyped, NextReaches
  <1>3. IvcTyped /\ ProofsReach(ReachedInputs) => ChainIsSound
    BY ReachIsAccepted, ReachedInputsAreSound
  <1> QED
    BY <1>1, <1>2, <1>3, PTL DEF IvcSpec
-----------------------------------------------------------------------------
(* What prove_step returned is accepted.                                   *)

LEMMA InitHonest == ASSUME NEW S, ClosedUnderTransition(S), IvcInit PROVE ProverIsHonest(S)
  BY DEF IvcInit, AtSetup, ProverIsHonest, ClosedUnderTransition, CheckIn

(* A proof more disturbs nothing that was held or issued.                  *)
LEMMA HonestProofAdded ==
  ASSUME NEW S, IvcTyped, ProverIsHonest(S), NEW x, IsAcc(x.acc, Len(proofs)),
         proofs' = Append(proofs, x)
  PROVE  /\ \A c \in checkpoints \cup {prover} : c.state \in S /\ CheckIn(proofs', c.acc)
         /\ \A i \in DOMAIN issued : ShownIn(proofs', issued[i])
  <1>1. /\ DOMAIN proofs' = DOMAIN proofs \cup {Len(proofs')}
        /\ \A p \in DOMAIN proofs : proofs'[p] = proofs[p]
    BY ProofAppended
  <1>2. ASSUME NEW acc, IsAcc(acc, Len(proofs)), CheckIn(proofs, acc)
        PROVE  CheckIn(proofs', acc)
    BY <1>2, CheckAppend DEF IvcTyped
  <1>3. \A c \in checkpoints \cup {prover} : c.state \in S /\ CheckIn(proofs', c.acc)
    BY <1>2 DEF IvcTyped, ProverIsHonest
  <1>4. ASSUME NEW s, ShownIn(proofs, s)
        PROVE  ShownIn(proofs', s)
    <2>1. s.proof \in DOMAIN proofs /\ s.proof \in DOMAIN proofs'
      BY <1>1, <1>4 DEF ShownIn
    <2>2. ASSUME ~s.restarted
          PROVE  /\ VerifiesIn(proofs', s.proof, Self, PublicInput(s.state), proofs'[s.proof].acc)
                 /\ CheckIn(proofs', proofs'[s.proof].acc)
      <3>1. /\ VerifiesIn(proofs, s.proof, Self, PublicInput(s.state), proofs[s.proof].acc)
            /\ CheckIn(proofs, proofs[s.proof].acc)
        BY <1>4, <2>2 DEF ShownIn
      <3>2. proofs'[s.proof] = proofs[s.proof] /\ IsAcc(proofs[s.proof].acc, Len(proofs))
        BY <1>1, <2>1 DEF IvcTyped
      <3>3. VerifiesIn(proofs', s.proof, Self, PublicInput(s.state), proofs[s.proof].acc)
        BY <3>1, <3>2 DEF VerifiesIn
      <3> QED
        BY <1>2, <3>1, <3>2, <3>3
    <2> QED
      BY <2>1, <2>2 DEF ShownIn
  <1> QED
    BY <1>3, <1>4 DEF ProverIsHonest

(* The accumulator of a step: the previous proof, verified, with its own.  *)
LEMMA StepChecks ==
  ASSUME NEW S, IvcTyped, ProverIsHonest(S), NEW w, ProveStep(w)
  PROVE  CheckIn(proofs, StepProof(w).acc)
  <1>1. StepProof(w).acc = Accumulate(ProofAcc, prover.acc)
    BY DEF StepProof, Proved, StepInstance
  <1>2. IsSeq(prover.acc) /\ CheckIn(proofs, prover.acc)
    BY DEF IvcTyped, IsAcc, ProverIsHonest
  <1>3. IsDiscarded(ProofAcc)
           \/ VerifiesIn(proofs, ProofAcc[1], ProofAcc[2], ProofAcc[3], prover.acc)
    <2>1. CASE AtGenesis
      BY <2>1 DEF ProofAcc, IsDiscarded
    <2>2. CASE ~AtGenesis
      <3>1. VerifiesIn(proofs, prover.proof, Self, PublicInput(prover.state), prover.acc)
        BY <2>2, ProveStepAppends, CheckIsCheckIn DEF PreviousValid
      <3>2. ProofAcc = <<prover.proof, Self, PublicInput(prover.state)>>
        BY <2>2 DEF ProofAcc
      <3> QED
        BY <3>1, <3>2
    <2> QED
      BY <2>1, <2>2
  <1> QED
    BY <1>1, <1>2, <1>3, CheckAccumulate

(* The circuit computes the instance of the step, unless it starts again   *)
(* from the genesis with an accumulator whose challenge it would draw from *)
(* another shape.                                                          *)
LEMMA StepIsSatisfied ==
  ASSUME NEW S, ClosedUnderTransition(S), prover.state \in S, NEW w \in Witnesses,
         Transition(prover.state, w) # Panic, ~(AtGenesis /\ prover.acc # <<>>)
  PROVE  Circuit(Self, StepWitness(w)) = StepInstance(w)
  <1>1. CircuitTransition(PublicInput(prover.state), w) = PublicInput(Transition(prover.state, w))
    BY DEF ClosedUnderTransition
  <1>2. CASE AtGenesis
    <2>1. /\ Accumulate(<<PreparedShape>>, prover.acc) = <<>>
          /\ Accumulate(ProofAcc, prover.acc) = <<>>
      BY <1>2 DEF ProofAcc, Accumulate, IsDiscarded
    <2> QED
      BY <1>1, <1>2, <2>1 DEF Circuit, StepWitness, StepInstance, AtGenesis
  <1>3. CASE ~AtGenesis
    BY <1>1, <1>3 DEF Circuit, StepWitness, StepInstance, AtGenesis, ProofAcc
  <1> QED
    BY <1>2, <1>3

LEMMA ProveStepHonest ==
  ASSUME NEW S, ClosedUnderTransition(S), IvcTyped, ProverIsHonest(S),
         NEW w \in Witnesses, ProveStep(w)
  PROVE  ProverIsHonest(S)'
  <1> DEFINE x == StepProof(w)
             new == [state |-> Transition(prover.state, w), proof |-> Len(proofs'),
                     restarted |-> AtGenesis /\ prover.acc # <<>>]
  <1>1. /\ proofs' = Append(proofs, x) /\ IsAcc(x.acc, Len(proofs))
        /\ checkpoints' = checkpoints \cup {prover'} /\ issued' = Append(issued, new)
        /\ Transition(prover.state, w) # Panic
    BY ProveStepAppends
  <1>2. prover'.state = Transition(prover.state, w) /\ prover'.acc = x.acc
    <2>1. prover' = [state |-> Transition(prover.state, w), proof |-> Len(proofs'), acc |-> x.acc]
      BY ProveStepAppends
    <2> QED
      BY <2>1
  <1>3. /\ x.key = Self /\ x.repr = Self /\ x.state = PublicInput(Transition(prover.state, w))
        /\ x.satisfied <=> Circuit(Self, StepWitness(w)) = StepInstance(w)
    BY DEF StepProof, Proved, StepInstance
  <1> HIDE DEF x
  <1>4. /\ Len(proofs) \in Nat /\ Len(proofs') = Len(proofs) + 1
        /\ DOMAIN proofs' = DOMAIN proofs \cup {Len(proofs')} /\ proofs'[Len(proofs')] = x
    BY <1>1, ProofAppended
  <1>5. CheckIn(proofs', x.acc)
    BY <1>1, StepChecks, CheckAppend DEF IvcTyped, x
  <1>6. /\ \A c \in checkpoints \cup {prover} : c.state \in S /\ CheckIn(proofs', c.acc)
        /\ \A i \in DOMAIN issued : ShownIn(proofs', issued[i])
    BY <1>1, HonestProofAdded
  <1>7. prover'.state \in S
    BY <1>1, <1>2 DEF ProverIsHonest, ClosedUnderTransition
  <1>8. ASSUME ~new.restarted
        PROVE  VerifiesIn(proofs', new.proof, Self, PublicInput(new.state), proofs'[new.proof].acc)
    <2>1. x.satisfied
      BY <1>1, <1>3, <1>8, StepIsSatisfied DEF ProverIsHonest
    <2>2. new.proof = Len(proofs') /\ new.state = Transition(prover.state, w)
      OBVIOUS
    <2> QED
      BY <1>3, <1>4, <2>1, <2>2 DEF VerifiesIn
  <1>9. new.proof \in DOMAIN proofs' /\ CheckIn(proofs', proofs'[new.proof].acc)
    BY <1>4, <1>5
  <1> HIDE DEF new
  <1>10. /\ \A i \in DOMAIN issued : issued'[i] = issued[i]
         /\ DOMAIN issued' = DOMAIN issued \cup {Len(issued) + 1} /\ issued'[Len(issued) + 1] = new
    <2>1. IsSeq(issued)
      BY DEF IvcTyped
    <2>2. IsSeq(issued') /\ Len(issued') = Len(issued) + 1 /\ issued'[Len(issued) + 1] = new
      BY <1>1, <2>1, IsSeqAppend
    <2>3. Len(issued) \in Nat /\ DOMAIN issued = 1 .. Len(issued)
      BY <2>1, IsSeqLen
    <2>4. DOMAIN issued' = 1 .. Len(issued) + 1
      BY <2>2, IsSeqLen
    <2>5. \A i \in DOMAIN issued : issued'[i] = issued[i]
      BY <1>1, <2>1, IsSeqAppend
    <2> QED
      BY <2>2, <2>3, <2>4, <2>5
  <1>11. ASSUME NEW i \in DOMAIN issued'
         PROVE  ShownIn(proofs', issued'[i])
    <2>1. CASE i \in DOMAIN issued
      BY <1>6, <1>10, <2>1
    <2>2. CASE i = Len(issued) + 1
      BY <1>8, <1>9, <1>10, <2>2 DEF ShownIn
    <2> QED
      BY <1>10, <2>1, <2>2
  <1>12. ASSUME NEW c \in checkpoints' \cup {prover'}
         PROVE  c.state \in S /\ CheckIn(proofs', c.acc)
    BY <1>1, <1>2, <1>5, <1>6, <1>7
  <1> QED
    BY <1>11, <1>12 DEF ProverIsHonest

LEMMA NextHonest ==
  ASSUME NEW S, ClosedUnderTransition(S), IvcTyped, ProverIsHonest(S), [IvcNext]_ivcVars
  PROVE  ProverIsHonest(S)'
  <1>1. ASSUME NEW w \in Witnesses, ProveStep(w)
        PROVE  ProverIsHonest(S)'
    BY <1>1, ProveStepHonest
  <1>2. CASE ResumeFrom
    <2>1. PICK s \in checkpoints, p \in checkpoints, a \in checkpoints :
             prover' = [state |-> s.state, proof |-> p.proof, acc |-> a.acc]
      BY <1>2 DEF ResumeFrom
    <2>2. prover'.state = s.state /\ prover'.acc = a.acc
      BY <2>1
    <2>3. UNCHANGED <<proofs, checkpoints, issued>>
      BY <1>2 DEF ResumeFrom
    <2> QED
      BY <2>2, <2>3 DEF ProverIsHonest
  <1>3. ASSUME NEW x, IsAcc(x.acc, Len(proofs)), proofs' = Append(proofs, x),
               UNCHANGED <<prover, checkpoints, issued>>
        PROVE  ProverIsHonest(S)'
    BY <1>3, HonestProofAdded DEF ProverIsHonest
  <1>4. CASE ProveElsewhere
    <2>1. PICK repr, wit :
             IsAcc(Circuit(repr, wit).acc, Len(proofs))
                /\ proofs' = Append(proofs, Proved(Self, Circuit(repr, wit), TRUE))
      BY <1>4, ElsewhereAppends
    <2> DEFINE x == Proved(Self, Circuit(repr, wit), TRUE)
    <2>2. x.acc = Circuit(repr, wit).acc
      BY DEF Proved
    <2> HIDE DEF x
    <2> QED
      BY <1>3, <1>4, <2>1, <2>2 DEF ProveElsewhere, x
  <1>5. CASE ProveAnotherCircuit
    <2>1. PICK repr \in {Self, Foreign}, state \in KnownStates, acc \in KnownAccs :
             proofs' = Append(proofs, Proved(Foreign, [repr |-> repr, state |-> state, acc |-> acc], TRUE))
      BY <1>5 DEF ProveAnotherCircuit
    <2> DEFINE x == Proved(Foreign, [repr |-> repr, state |-> state, acc |-> acc], TRUE)
    <2>2. x.acc = acc
      BY DEF Proved
    <2> HIDE DEF x
    <2> QED
      BY <1>3, <1>5, <2>1, <2>2, KnownAccsAreAccs DEF ProveAnotherCircuit, x
  <1>6. CASE UNCHANGED ivcVars
    BY <1>6 DEF ProverIsHonest, ivcVars
  <1> QED
    BY <1>1, <1>2, <1>4, <1>5, <1>6 DEF IvcNext

LEMMA HonestIsAccepted ==
  ASSUME NEW S, IvcTyped, ProverIsHonest(S)
  PROVE  StepsVerify
  <1> SUFFICES ASSUME NEW i \in DOMAIN issued, ~issued[i].restarted, Decider(issued[i].state)
               PROVE  Accepts([repr |-> Self, state |-> issued[i].state,
                               acc |-> proofs[issued[i].proof].acc], issued[i].proof, FALSE)
    BY DEF StepsVerify, Shown
  <1> DEFINE s == issued[i]
             acc == proofs[s.proof].acc
             entry == <<s.proof, Self, PublicInput(s.state)>>
  <1>1. /\ s.proof \in DOMAIN proofs
        /\ VerifiesIn(proofs, s.proof, Self, PublicInput(s.state), acc) /\ CheckIn(proofs, acc)
    BY DEF ProverIsHonest, ShownIn
  <1>2. IsSeq(acc)
    BY <1>1 DEF IvcTyped, IsAcc
  <1>3. entry[1] = s.proof /\ entry[2] = Self /\ entry[3] = PublicInput(s.state)
    OBVIOUS
  <1> HIDE DEF entry, acc
  <1>4. Check(Accumulate(entry, acc)) /\ s.proof # 0
    BY <1>1, <1>2, <1>3, CheckAccumulate, CheckIsCheckIn DEF VerifiesIn
  <1> QED
    BY <1>4 DEF Accepts, entry, acc

(* IvcProver::prove_step, resumed from any checkpoints: every Ok it        *)
(* returned verifies, with the accumulator that comes with it and the      *)
(* decider of its state, for transitions on which the circuit agrees with  *)
(* the transition outside it.                                              *)
THEOREM IssuedStepsVerify ==
  ASSUME NEW S, ClosedUnderTransition(S)
  PROVE  IvcSpec => []StepsVerify
  <1>1. IvcInit => IvcTyped /\ ProverIsHonest(S)
    BY InitTyped, InitHonest
  <1>2. IvcTyped /\ ProverIsHonest(S) /\ [IvcNext]_ivcVars => (IvcTyped /\ ProverIsHonest(S))'
    BY NextTyped, NextHonest
  <1>3. IvcTyped /\ ProverIsHonest(S) => StepsVerify
    BY HonestIsAccepted
  <1> QED
    BY <1>1, <1>2, <1>3, PTL DEF IvcSpec
=============================================================================
