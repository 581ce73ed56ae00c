------------------------ MODULE ProofAggregationProofs ------------------------
(***************************************************************************)
(* Proofs about the aggregation of proofs of several circuits, for every   *)
(* set of inner circuits and statements and chains of every length: what   *)
(* an accepted aggregation is presented with can be proved, and what       *)
(* aggregate returned is accepted.                                         *)
(***************************************************************************)
EXTENDS MCAggregation, SequenceTheorems, NaturalRecursion

(* The theorems of the chain, for the transition of the aggregator, and for*)
(* the small transition system.                                            *)
Chain    == INSTANCE IvcChainProofs
ToyChain == INSTANCE IvcChainProofs WITH
                Genesis <- 0, Witnesses <- {"stay", "go"}, Transition <- ToyTransition,
                CircuitTransition <- ToyTransition, PublicInput <- ToyPublicInput,
                Decider <- ToyDecider, StatesOf <- ToyStatesOf, ForgedStates <- {3},
                MaxProofs <- ToyMaxProofs

(* The public inputs of aggregations: a claim for every accumulator of an  *)
(* inner proof, in reverse.                                                *)
Hashes == {Hashed(w) : w \in Witnesses}
Aggregated ==
    {a \in [last_vk_repr : Keys \cup {NoKey}, claims_hash : Seq(Hashes), inner_acc : Seq(Witnesses)] :
        /\ Len(a.inner_acc) = Len(a.claims_hash)
        /\ \A i \in 1 .. Len(a.claims_hash) :
              a.claims_hash[i] = Hashed(a.inner_acc[Len(a.claims_hash) + 1 - i])}

AggregatedStates == [claims : Seq(Claims), claims_hash : Seq(Hashes), inner_acc : Seq(Witnesses)]

LEMMA WitnessFields ==
  ASSUME NEW w \in Witnesses
  PROVE  /\ w.repr \in Keys /\ w.bases \in Keys /\ w.statement \in Statements
         /\ w.valid => <<w.bases, w.statement>> \in Provable
  BY DEF Witnesses

LEMMA GenesisAggregated == PublicInput(Genesis) \in Aggregated
  <1>1. PublicInput(Genesis) = [last_vk_repr |-> NoKey, claims_hash |-> <<>>, inner_acc |-> <<>>]
    BY DEF PublicInput, Genesis
  <1> QED
    BY <1>1, EmptySeq DEF Aggregated

LEMMA TransitionAggregates ==
  ASSUME NEW a \in Aggregated, NEW w \in Witnesses
  PROVE  CircuitTransition(a, w) \in Aggregated
  <1> DEFINE n == Len(a.claims_hash)
             hashes == Append(a.claims_hash, Hashed(w))
             accs == <<w>> \o a.inner_acc
  <1>1. /\ a.claims_hash \in Seq(Hashes) /\ a.inner_acc \in Seq(Witnesses)
        /\ n \in Nat /\ Len(a.inner_acc) = n
        /\ \A i \in 1 .. n : a.claims_hash[i] = Hashed(a.inner_acc[n + 1 - i])
    BY LenProperties DEF Aggregated
  <1>2. Hashed(w) \in Hashes
    BY DEF Hashes
  <1>3. /\ hashes \in Seq(Hashes) /\ Len(hashes) = n + 1 /\ hashes[n + 1] = Hashed(w)
        /\ \A i \in 1 .. n : hashes[i] = a.claims_hash[i]
    BY <1>1, <1>2, AppendProperties
  <1>4. <<w>> \in Seq(Witnesses) /\ Len(<<w>>) = 1 /\ <<w>>[1] = w
    OBVIOUS
  <1>5. /\ accs \in Seq(Witnesses) /\ Len(accs) = 1 + n
        /\ \A i \in 1 .. 1 + n : accs[i] = IF i <= 1 THEN <<w>>[i] ELSE a.inner_acc[i - 1]
    BY <1>1, <1>4, ConcatProperties
  <1> HIDE DEF n, hashes, accs
  <1>6. ASSUME NEW i \in 1 .. n + 1
        PROVE  hashes[i] = Hashed(accs[n + 2 - i])
    <2>1. CASE i = n + 1
      <3>1. n + 2 - i = 1
        BY <1>1, <2>1
      <3>2. accs[1] = w
        BY <1>1, <1>4, <1>5
      <3> QED
        BY <1>3, <2>1, <3>1, <3>2
    <2>2. CASE i # n + 1
      <3>1. i \in 1 .. n /\ n + 2 - i \in 1 .. 1 + n /\ ~(n + 2 - i <= 1)
            /\ n + 2 - i - 1 = n + 1 - i
        BY <1>1, <2>2
      <3>2. accs[n + 2 - i] = a.inner_acc[n + 1 - i]
        <4> DEFINE j == n + 2 - i
        <4>1. j \in 1 .. 1 + n /\ ~(j <= 1) /\ j - 1 = n + 1 - i
          BY <1>1, <3>1
        <4> HIDE DEF j
        <4>2. accs[j] = a.inner_acc[j - 1]
          BY <1>5, <4>1
        <4> QED
          BY <4>1, <4>2 DEF j
      <3> QED
        BY <1>1, <1>3, <3>1, <3>2
    <2> QED
      BY <2>1, <2>2
  <1>7. CircuitTransition(a, w) = [last_vk_repr |-> w.repr, claims_hash |-> hashes, inner_acc |-> accs]
    BY DEF CircuitTransition, InnerAcc, hashes, accs
  <1>8. Len(hashes) = n + 1 /\ Len(accs) = n + 1
    BY <1>1, <1>3, <1>5
  <1>9. ASSUME NEW i \in 1 .. Len(hashes)
        PROVE  hashes[i] = Hashed(accs[Len(hashes) + 1 - i])
    <2>1. i \in 1 .. n + 1 /\ Len(hashes) + 1 - i = n + 2 - i
      BY <1>1, <1>8
    <2> QED
      BY <1>6, <2>1
  <1> DEFINE next == [last_vk_repr |-> w.repr, claims_hash |-> hashes, inner_acc |-> accs]
  <1>10. /\ next \in [last_vk_repr : Keys \cup {NoKey}, claims_hash : Seq(Hashes),
                      inner_acc : Seq(Witnesses)]
         /\ next.claims_hash = hashes /\ next.inner_acc = accs
    BY <1>3, <1>5, WitnessFields
  <1> HIDE DEF next
  <1>11. next \in Aggregated
    BY <1>8, <1>9, <1>10 DEF Aggregated
  <1> QED
    BY <1>7, <1>11 DEF next

(* The public inputs of at most n steps.                                   *)
AggregatedIn == [n \in Nat |-> {a \in Aggregated : Len(a.claims_hash) <= n}]

LEMMA AggregatedIsClosed == Chain!ClosedUnderCircuit(AggregatedIn)
  <1> SUFFICES ASSUME NEW n \in Nat
               PROVE  /\ PublicInput(Genesis) \in AggregatedIn[n]
                      /\ \A m \in 0 .. n : AggregatedIn[m] \subseteq AggregatedIn[n]
                      /\ \A a \in AggregatedIn[n], w \in Witnesses :
                            CircuitTransition(a, w) \in AggregatedIn[n + 1]
    BY DEF Chain!ClosedUnderCircuit
  <1>1. \A a \in Aggregated : Len(a.claims_hash) \in Nat
    BY LenProperties DEF Aggregated
  <1>2. PublicInput(Genesis) \in AggregatedIn[n]
    <2>1. PublicInput(Genesis).claims_hash = <<>>
      BY DEF PublicInput, Genesis
    <2> QED
      BY <2>1, GenesisAggregated, EmptySeq DEF AggregatedIn
  <1>3. ASSUME NEW m \in 0 .. n
        PROVE  AggregatedIn[m] \subseteq AggregatedIn[n]
    BY <1>1 DEF AggregatedIn
  <1>4. ASSUME NEW a \in AggregatedIn[n], NEW w \in Witnesses
        PROVE  CircuitTransition(a, w) \in AggregatedIn[n + 1]
    <2>1. a \in Aggregated /\ Len(a.claims_hash) <= n /\ a.claims_hash \in Seq(Hashes)
      BY DEF AggregatedIn, Aggregated
    <2>2. CircuitTransition(a, w).claims_hash = Append(a.claims_hash, Hashed(w))
      BY DEF CircuitTransition
    <2>3. Len(Append(a.claims_hash, Hashed(w))) = Len(a.claims_hash) + 1
      <3>1. Hashed(w) \in Hashes
        BY DEF Hashes
      <3> QED
        BY <2>1, <3>1, AppendProperties
    <2>4. CircuitTransition(a, w) \in Aggregated /\ Len(CircuitTransition(a, w).claims_hash) <= n + 1
      BY <1>1, <2>1, <2>2, <2>3, TransitionAggregates
    <2> QED
      BY <2>4 DEF AggregatedIn
  <1> QED
    BY <1>2, <1>3, <1>4

(* The steps of the aggregator are those of its chain.                     *)
LEMMA SameAccumulators ==
  /\ \A entry, acc : Accumulate(entry, acc) = Chain!Accumulate(entry, acc)
  /\ \A p, repr, assigned, acc :
        Verifies(p, repr, assigned, acc) <=> Chain!Verifies(p, repr, assigned, acc)
  /\ \A acc : Check(acc) <=> Chain!Check(acc)
  BY DEF Accumulate, Chain!Accumulate, IsDiscarded, Chain!IsDiscarded, Verifies, Chain!Verifies,
         Check, Chain!Check

LEMMA SameStep ==
  ASSUME NEW w, ProveStep(w)
  PROVE  Chain!ProveStep(w)
  BY DEF ProveStep, Accumulate, ProofAcc, AtGenesis, IsGenesis, PreviousValid, Verifies,
     TrivialShape, PreparedShape, IsDiscarded, Circuit, Proved,
     Chain!ProveStep, Chain!Accumulate, Chain!ProofAcc, Chain!AtGenesis, Chain!IsGenesis,
     Chain!PreviousValid, Chain!Verifies, Chain!TrivialShape, Chain!PreparedShape,
     Chain!IsDiscarded, Chain!Circuit, Chain!Proved

LEMMA ChainNext == AggregationNext => Chain!IvcNext
  <1>1. ProveElsewhere => Chain!ProveElsewhere
    BY DEF ProveElsewhere, Circuit, IsGenesis, PreparedShape, Accumulate, IsDiscarded, Proved,
       KnownAccs, KnownStates,
       Chain!ProveElsewhere, Chain!Circuit, Chain!IsGenesis, Chain!PreparedShape,
       Chain!Accumulate, Chain!IsDiscarded, Chain!Proved, Chain!KnownAccs, Chain!KnownStates
  <1>2. ProveAnotherCircuit => Chain!ProveAnotherCircuit
    BY DEF ProveAnotherCircuit, Proved, KnownAccs, KnownStates,
       Chain!ProveAnotherCircuit, Chain!Proved, Chain!KnownAccs, Chain!KnownStates
  <1>3. ResumeFrom => Chain!ResumeFrom
    BY DEF ResumeFrom, Chain!ResumeFrom
  <1> QED
    BY <1>1, <1>2, <1>3, SameStep DEF AggregationNext, Aggregate, Chain!IvcNext

LEMMA ChainInit == IvcInit => Chain!IvcInit
  BY DEF IvcInit, Chain!IvcInit, AtSetup, Chain!AtSetup
-----------------------------------------------------------------------------
(* What is accepted can be proved.                                         *)

LEMMA AggregatedClaimsAreProved ==
  ASSUME NEW state, PublicInput(state) \in Aggregated, Decider(state),
         NEW claim \in ToSet(state.claims)
  PROVE  <<claim.key, claim.statement>> \in Provable
  <1> DEFINE hashes == state.claims_hash
             accs == state.inner_acc
  <1>1. PICK i \in DOMAIN state.claims : claim = state.claims[i]
    BY DEF ToSet
  <1>2. hashes = [j \in DOMAIN state.claims |->
            <<state.claims[j].key, state.claims[j].key, state.claims[j].statement>>]
    BY DEF Decider, Hashed
  <1>3. hashes[i] = <<claim.key, claim.key, claim.statement>> /\ i \in DOMAIN hashes
    BY <1>1, <1>2
  <1>4. PublicInput(state).claims_hash = hashes /\ PublicInput(state).inner_acc = accs
    BY DEF PublicInput
  <1> HIDE DEF hashes, accs
  <1>5. /\ hashes \in Seq(Hashes) /\ accs \in Seq(Witnesses) /\ Len(accs) = Len(hashes)
        /\ \A j \in 1 .. Len(hashes) : hashes[j] = Hashed(accs[Len(hashes) + 1 - j])
    BY <1>4 DEF Aggregated
  <1>6. Len(hashes) \in Nat /\ i \in 1 .. Len(hashes)
    BY <1>3, <1>5, LenProperties
  <1> DEFINE k == Len(hashes) + 1 - i
  <1>7. k \in 1 .. Len(accs)
    BY <1>5, <1>6
  <1>8. hashes[i] = Hashed(accs[k])
    BY <1>5, <1>6
  <1> HIDE DEF k
  <1>9. accs[k] \in Witnesses
    BY <1>5, <1>7, ElementOfSeq
  <1>10. accs[k].valid
    BY <1>5, <1>7, LenProperties DEF Decider, accs
  <1>11. accs[k].bases = claim.key /\ accs[k].statement = claim.statement
    BY <1>3, <1>8 DEF Hashed
  <1> QED
    BY <1>9, <1>10, <1>11, WitnessFields

LEMMA ReachedClaimsAreProved ==
  ASSUME Chain!IvcTyped, Chain!AcceptedReach(AggregatedIn)
  PROVE  ClaimsAreProved
  <1> SUFFICES ASSUME NEW p \in DOMAIN proofs, NEW instance \in Presented(p),
                      Accepts(instance, p, FALSE),
                      NEW claim \in ToSet(instance.state.claims)
               PROVE  <<claim.key, claim.statement>> \in Provable
    BY DEF ClaimsAreProved
  <1>1. instance \in Chain!Presented(p)
    BY DEF Presented, KnownAccs, Chain!Presented, Chain!KnownAccs
  <1>2. Chain!Accepts(instance, p, FALSE)
    BY SameAccumulators DEF Accepts, Chain!Accepts
  <1>3. PublicInput(instance.state) \in Aggregated
    <2>1. p \in Nat
      BY Chain!IsSeqLen DEF Chain!IvcTyped
    <2>2. PublicInput(instance.state) \in AggregatedIn[p]
      BY <1>1, <1>2 DEF Chain!AcceptedReach
    <2> QED
      BY <2>1, <2>2 DEF AggregatedIn
  <1> QED
    BY <1>3, AggregatedClaimsAreProved DEF Accepts

(* What a decider accepts: a claim for every hash, and for every hash an   *)
(* accumulator of a proof.                                                 *)
Decided(state, n) ==
    /\ state = [claims |-> state.claims, claims_hash |-> state.claims_hash,
                inner_acc |-> state.inner_acc]
    /\ state.claims \in Seq(Claims) /\ Len(state.claims) = n
    /\ state.claims_hash = [i \in 1 .. n |->
           <<state.claims[i].key, state.claims[i].key, state.claims[i].statement>>]
    /\ state.inner_acc \in Seq(Witnesses) /\ Len(state.inner_acc) = n
    /\ \A i \in 1 .. n : /\ state.inner_acc[i].valid
                         /\ state.claims_hash[i] = Hashed(state.inner_acc[n + 1 - i])

(* The last step of an aggregation that is decided.                        *)
Before(state, n) == [claims      |-> [i \in 1 .. n - 1 |-> state.claims[i]],
                     claims_hash |-> [i \in 1 .. n - 1 |-> state.claims_hash[i]],
                     inner_acc   |-> [i \in 1 .. n - 1 |-> state.inner_acc[i + 1]]]

LEMMA DecidedStep ==
  ASSUME NEW n \in Nat \ {0}, NEW state, Decided(state, n)
  PROVE  /\ Decided(Before(state, n), n - 1)
         /\ state.inner_acc[1] \in Witnesses
         /\ Transition(Before(state, n), state.inner_acc[1]) = state
  <1> DEFINE b == Before(state, n)
             w == state.inner_acc[1]
             claims == state.claims
             hashes == state.claims_hash
             accs == state.inner_acc
  <1>1. /\ state = [claims |-> claims, claims_hash |-> hashes, inner_acc |-> accs]
        /\ claims \in Seq(Claims) /\ Len(claims) = n
        /\ hashes = [i \in 1 .. n |-> <<claims[i].key, claims[i].key, claims[i].statement>>]
        /\ accs \in Seq(Witnesses) /\ Len(accs) = n
        /\ \A i \in 1 .. n : accs[i].valid /\ hashes[i] = Hashed(accs[n + 1 - i])
    BY DEF Decided
  <1>2. /\ b.claims = [i \in 1 .. n - 1 |-> claims[i]]
        /\ b.claims_hash = [i \in 1 .. n - 1 |-> hashes[i]]
        /\ b.inner_acc = [i \in 1 .. n - 1 |-> accs[i + 1]]
        /\ b = [claims |-> b.claims, claims_hash |-> b.claims_hash, inner_acc |-> b.inner_acc]
    BY DEF Before
  <1> HIDE DEF b, claims, hashes, accs
  <1>3. /\ n \in Nat /\ n - 1 \in Nat /\ 1 \in 1 .. n /\ n \in 1 .. n
        /\ \A i \in 1 .. n - 1 : i \in 1 .. n /\ i + 1 \in 1 .. n
    OBVIOUS
  <1>4. \A i \in 1 .. n : claims[i] \in Claims /\ accs[i] \in Witnesses
    BY <1>1, ElementOfSeq
  <1>5. /\ b.claims \in Seq(Claims) /\ Len(b.claims) = n - 1
        /\ b.inner_acc \in Seq(Witnesses) /\ Len(b.inner_acc) = n - 1
    <2>1. b.claims \in [1 .. n - 1 -> Claims] /\ b.inner_acc \in [1 .. n - 1 -> Witnesses]
      BY <1>2, <1>3, <1>4
    <2> QED
      BY SMTT(30), <1>3, <2>1, LenProperties, SeqDef
  <1>6. b.claims_hash = [i \in 1 .. n - 1 |->
            <<b.claims[i].key, b.claims[i].key, b.claims[i].statement>>]
    BY <1>1, <1>2, <1>3
  <1>7. ASSUME NEW i \in 1 .. n - 1
        PROVE  /\ b.inner_acc[i].valid
               /\ b.claims_hash[i] = Hashed(b.inner_acc[n - 1 + 1 - i])
    <2>1. b.inner_acc[i] = accs[i + 1] /\ b.claims_hash[i] = hashes[i]
      BY <1>2
    <2>2. n - 1 + 1 - i \in 1 .. n - 1 /\ n - 1 + 1 - i + 1 = n + 1 - i
      BY <1>3
    <2>3. b.inner_acc[n - 1 + 1 - i] = accs[n - 1 + 1 - i + 1]
      BY <1>2, <2>2
    <2> QED
      BY <1>1, <1>3, <2>1, <2>2, <2>3
  <1>8. Decided(b, n - 1)
    BY <1>2, <1>5, <1>6, <1>7 DEF Decided
  <1>9. accs[1] \in Witnesses /\ accs[1].valid
    BY <1>1, <1>3, <1>4
  <1>10. /\ hashes[n] = Hashed(accs[1])
         /\ hashes[n] = <<claims[n].key, claims[n].key, claims[n].statement>>
    <2>1. n + 1 - n = 1
      BY <1>3
    <2> QED
      BY <1>1, <1>3, <2>1
  <1>11. /\ accs[1].repr = claims[n].key /\ accs[1].bases = claims[n].key
         /\ accs[1].statement = claims[n].statement
    BY <1>10 DEF Hashed
  <1>12. claims[n] = [key |-> accs[1].repr, statement |-> accs[1].statement]
    BY <1>3, <1>4, <1>11 DEF Claims
  <1>13. Append(b.claims, claims[n]) = claims
    <2>1. Len(Append(b.claims, claims[n])) = n /\ Append(b.claims, claims[n]) \in Seq(Claims)
          /\ \A i \in 1 .. n - 1 : Append(b.claims, claims[n])[i] = b.claims[i]
          /\ Append(b.claims, claims[n])[n] = claims[n]
      BY <1>3, <1>4, <1>5, AppendProperties
    <2>2. \A i \in 1 .. n : Append(b.claims, claims[n])[i] = claims[i]
      <3>1. \A i \in 1 .. n : i \in 1 .. n - 1 \/ i = n
        OBVIOUS
      <3> QED
        BY <1>2, <2>1, <3>1
    <2> QED
      BY <1>1, <2>1, <2>2, SeqEqual
  <1>14. Append(b.claims_hash, hashes[n]) = hashes
    <2>1. b.claims_hash \in Seq(Range(hashes)) /\ Len(b.claims_hash) = n - 1
          /\ hashes \in Seq(Range(hashes)) /\ Len(hashes) = n /\ hashes[n] \in Range(hashes)
      <3>1. hashes \in [1 .. n -> Range(hashes)]
        BY <1>1 DEF Range
      <3>2. b.claims_hash \in [1 .. n - 1 -> Range(hashes)]
        BY <1>2, <1>3, <3>1
      <3> QED
        BY SMTT(30), <1>3, <3>1, <3>2, LenProperties, SeqDef
    <2>2. Len(Append(b.claims_hash, hashes[n])) = n
          /\ Append(b.claims_hash, hashes[n]) \in Seq(Range(hashes))
          /\ \A i \in 1 .. n - 1 : Append(b.claims_hash, hashes[n])[i] = b.claims_hash[i]
          /\ Append(b.claims_hash, hashes[n])[n] = hashes[n]
      BY <1>3, <2>1, AppendProperties
    <2>3. \A i \in 1 .. n : Append(b.claims_hash, hashes[n])[i] = hashes[i]
      <3>1. \A i \in 1 .. n : i \in 1 .. n - 1 \/ i = n
        OBVIOUS
      <3> QED
        BY <1>2, <2>2, <3>1
    <2> QED
      BY <2>1, <2>2, <2>3, SeqEqual
  <1>15. <<accs[1]>> \o b.inner_acc = accs
    <2>1. <<accs[1]>> \in Seq(Witnesses) /\ Len(<<accs[1]>>) = 1 /\ <<accs[1]>>[1] = accs[1]
      BY <1>9
    <2> DEFINE joined == <<accs[1]>> \o b.inner_acc
    <2>2. /\ joined \in Seq(Witnesses) /\ Len(joined) = 1 + (n - 1)
          /\ \A i \in 1 .. 1 + (n - 1) :
                joined[i] = IF i <= 1 THEN <<accs[1]>>[i] ELSE b.inner_acc[i - 1]
      BY <1>3, <1>5, <2>1, ConcatProperties
    <2> HIDE DEF joined
    <2>3. ASSUME NEW i \in 1 .. n
          PROVE  joined[i] = accs[i]
      <3>1. CASE i = 1
        BY <1>3, <2>1, <2>2, <3>1
      <3>2. CASE i # 1
        <4>1. i - 1 \in 1 .. n - 1 /\ i - 1 + 1 = i /\ ~(i <= 1) /\ i \in 1 .. 1 + (n - 1)
          BY <3>2
        <4>2. joined[i] = b.inner_acc[i - 1]
          BY <2>2, <4>1
        <4>3. b.inner_acc[i - 1] = accs[i - 1 + 1]
          BY <1>2, <4>1
        <4> QED
          BY <4>1, <4>2, <4>3
      <3> QED
        BY <3>1, <3>2
    <2>4. Len(joined) = n
      BY <1>3, <2>2
    <2>5. joined = accs
      BY <1>1, <2>2, <2>3, <2>4, SeqEqual
    <2> QED
      BY <2>5 DEF joined
  <1>16. Transition(b, accs[1]) = state
    <2>1. Transition(b, accs[1])
             = [claims |-> Append(b.claims, claims[n]), claims_hash |-> Append(b.claims_hash, hashes[n]),
                inner_acc |-> <<accs[1]>> \o b.inner_acc]
      BY <1>9, <1>10, <1>11, <1>12 DEF Transition, InnerAcc
    <2> QED
      BY <1>1, <1>13, <1>14, <1>15, <2>1
  <1> QED
    BY <1>8, <1>9, <1>16 DEF b, accs

LEMMA SameReached == Reached = Chain!Reached
  BY DEF Reached, Following, Chain!Reached, Chain!Following

LEMMA DecidedIsReached ==
  ASSUME NEW n \in Nat, NEW state, Decided(state, n)
  PROVE  state \in Chain!Reached[n]
  <1> DEFINE Bad == {k \in Nat : \E s : Decided(s, k) /\ s \notin Chain!Reached[k]}
  <1>1. ASSUME Bad # {}
        PROVE  FALSE
    <2>1. PICK k \in Bad : \A y \in Bad : ~ (<<y, k>> \in OpToRel(<, Nat))
      BY <1>1, WFMin, NatLessThanWellFounded
    <2>2. k \in Nat /\ (\E s : Decided(s, k) /\ s \notin Chain!Reached[k]) /\ \A y \in Bad : ~ (y < k)
      BY <2>1 DEF OpToRel
    <2>3. PICK s : Decided(s, k) /\ s \notin Chain!Reached[k]
      BY <2>2
    <2>4. CASE k = 0
      <3>1. s.claims = <<>> /\ s.inner_acc = <<>>
        BY <2>3, <2>4, EmptySeq DEF Decided
      <3>2. s.claims_hash = <<>>
        BY <2>3, <2>4 DEF Decided
      <3>3. s = Genesis
        BY <2>3, <3>1, <3>2 DEF Decided, Genesis
      <3> QED
        BY <2>3, <2>4, <3>3, Chain!ReachedGrows
    <2>5. CASE k # 0
      <3> DEFINE b == Before(s, k)
                 w == s.inner_acc[1]
      <3>1. Decided(b, k - 1) /\ w \in Witnesses /\ Transition(b, w) = s
        BY <2>2, <2>3, <2>5, DecidedStep
      <3>2. k - 1 \in Nat /\ k - 1 < k /\ k - 1 + 1 = k
        BY <2>2, <2>5
      <3>3. b \in Chain!Reached[k - 1]
        BY <2>2, <3>1, <3>2
      <3>4. s # Panic
        <4>1. /\ s = [claims |-> s.claims, claims_hash |-> s.claims_hash, inner_acc |-> s.inner_acc]
              /\ s.claims \in Seq(Claims) /\ s.inner_acc \in Seq(Witnesses)
          BY <2>3 DEF Decided
        <4>2. s.claims_hash \in Seq({Hashed(v) : v \in Witnesses})
          <5>1. \A i \in 1 .. k : k + 1 - i \in 1 .. k
            BY <2>2
          <5>2. ASSUME NEW i \in 1 .. k
                PROVE  s.claims_hash[i] \in {Hashed(v) : v \in Witnesses}
            <6> DEFINE v == s.inner_acc[k + 1 - i]
            <6>1. s.claims_hash[i] = Hashed(v)
              BY <2>3 DEF Decided
            <6>2. v \in Witnesses
              BY <2>3, <5>1, ElementOfSeq DEF Decided
            <6> HIDE DEF v
            <6> QED
              BY <6>1, <6>2
          <5>3. s.claims_hash \in [1 .. k -> {Hashed(v) : v \in Witnesses}]
            BY <2>3, <5>2 DEF Decided
          <5> QED
            BY <2>2, <5>3, SeqDef
        <4> QED
          BY <4>1, <4>2, PanicIsNoState
      <3> HIDE DEF b, w
      <3>5. s \in Chain!Following(Chain!Reached[k - 1])
        BY <3>1, <3>3, <3>4 DEF Chain!Following
      <3>6. Chain!Reached[k - 1 + 1] = Chain!Following(Chain!Reached[k - 1])
        BY <3>2, Chain!ReachedGrows
      <3> QED
        BY <2>3, <3>2, <3>5, <3>6
    <2> QED
      BY <2>4, <2>5
  <1> QED
    BY <1>1

(* An accepted aggregation is that of as many steps as it has claims.      *)
LEMMA AggregationsAreReached ==
  ASSUME Chain!IvcTyped, Chain!AcceptedReach(AggregatedIn)
  PROVE  ChainIsSound
  <1> SUFFICES ASSUME NEW p \in DOMAIN proofs, NEW trailing \in BOOLEAN,
                      NEW instance \in Presented(p), Accepts(instance, p, trailing)
               PROVE  instance.state \in Reached[p] /\ ~trailing
    BY DEF ChainIsSound
  <1> DEFINE state == instance.state
             n == Len(state.claims_hash)
  <1>1. p \in Nat
    BY Chain!IsSeqLen DEF Chain!IvcTyped
  <1>2. PublicInput(state) \in AggregatedIn[p] /\ ~trailing
    <2>1. instance \in Chain!Presented(p)
      BY DEF Presented, KnownAccs, Chain!Presented, Chain!KnownAccs
    <2>2. Chain!Accepts(instance, p, trailing)
      BY SameAccumulators DEF Accepts, Chain!Accepts
    <2> QED
      BY <2>1, <2>2 DEF Chain!AcceptedReach
  <1>3. state \in StatesOf(proofs[p].state) /\ Decider(state)
    BY DEF Presented, Accepts
  <1>4. /\ PublicInput(state).claims_hash = state.claims_hash
        /\ PublicInput(state).inner_acc = state.inner_acc
    BY DEF PublicInput
  <1> HIDE DEF state
  <1>5. /\ state.claims_hash \in Seq(Hashes) /\ state.inner_acc \in Seq(Witnesses)
        /\ n <= p /\ n \in Nat /\ Len(state.inner_acc) = n
        /\ \A i \in 1 .. n : state.claims_hash[i] = Hashed(state.inner_acc[n + 1 - i])
    BY <1>1, <1>2, <1>4, LenProperties DEF AggregatedIn, Aggregated
  <1>6. PICK k \in Nat : state.claims \in [1 .. k -> Claims]
    BY <1>3 DEF StatesOf
  <1>7. state.claims_hash = [i \in DOMAIN state.claims |->
            <<state.claims[i].key, state.claims[i].key, state.claims[i].statement>>]
    BY <1>3 DEF Decider, Hashed
  <1>8. k = n
    <2>1. DOMAIN state.claims_hash = 1 .. k
      BY <1>6, <1>7
    <2>2. DOMAIN state.claims_hash = 1 .. n
      BY <1>5, LenProperties
    <2> QED
      BY <1>5, <1>6, <2>1, <2>2
  <1>9. state.claims \in Seq(Claims) /\ Len(state.claims) = n
    <2>1. state.claims \in Seq(Claims)
      BY <1>6, SeqDef
    <2> QED
      BY <1>6, <1>8, <2>1, LenProperties
  <1>10. \A i \in 1 .. n : state.inner_acc[i].valid
    BY <1>3, <1>5, LenProperties DEF Decider
  <1>11. state = [claims |-> state.claims, claims_hash |-> state.claims_hash,
                  inner_acc |-> state.inner_acc]
    BY <1>3 DEF StatesOf
  <1> HIDE DEF n
  <1>12. Decided(state, n)
    BY <1>5, <1>6, <1>7, <1>8, <1>9, <1>10, <1>11 DEF Decided
  <1>13. state \in Chain!Reached[n] /\ n \in 0 .. p
    BY <1>1, <1>5, <1>12, DecidedIsReached
  <1>14. Chain!Reached[n] \subseteq Chain!Reached[p]
    BY <1>1, <1>13, Chain!ReachedGrows
  <1> QED
    BY <1>2, <1>13, <1>14, SameReached DEF state

LEMMA StatesAreClosed == Chain!ClosedUnderTransition(AggregatedStates)
  <1>1. Genesis \in AggregatedStates
    BY EmptySeq DEF Genesis, AggregatedStates
  <1>2. ASSUME NEW s \in AggregatedStates, NEW w \in Witnesses, Transition(s, w) # Panic
        PROVE  /\ Transition(s, w) \in AggregatedStates
               /\ CircuitTransition(PublicInput(s), w) = PublicInput(Transition(s, w))
    <2> DEFINE claim == [key |-> w.repr, statement |-> w.statement]
               claims == Append(s.claims, claim)
               hashes == Append(s.claims_hash, Hashed(w))
               accs == <<w>> \o s.inner_acc
               next == [claims |-> claims, claims_hash |-> hashes, inner_acc |-> accs]
    <2>1. Transition(s, w) = next
      BY <1>2 DEF Transition, InnerAcc
    <2>2. s.claims \in Seq(Claims) /\ s.claims_hash \in Seq(Hashes) /\ s.inner_acc \in Seq(Witnesses)
      BY DEF AggregatedStates
    <2>3. claim \in Claims /\ Hashed(w) \in Hashes
      BY WitnessFields DEF Claims, Hashes
    <2> HIDE DEF claim
    <2>4. /\ claims \in Seq(Claims) /\ Len(claims) = Len(s.claims) + 1
          /\ claims[Len(s.claims) + 1] = claim /\ Len(s.claims) \in Nat
      BY <2>2, <2>3, AppendProperties, LenProperties
    <2>5. hashes \in Seq(Hashes)
      BY <2>2, <2>3, AppendProperties
    <2>6. accs \in Seq(Witnesses)
      <3>1. <<w>> \in Seq(Witnesses)
        OBVIOUS
      <3> QED
        BY <2>2, <3>1, ConcatProperties
    <2> HIDE DEF claims, hashes, accs
    <2>7. next \in AggregatedStates
      BY <2>4, <2>5, <2>6 DEF AggregatedStates
    <2>8. next.claims = claims /\ next.claims_hash = hashes /\ next.inner_acc = accs
      OBVIOUS
    <2> HIDE DEF next
    <2>9. claims # <<>> /\ Last(claims).key = w.repr
      BY <2>4 DEF Last, claim
    <2>10. PublicInput(next) = [last_vk_repr |-> w.repr, claims_hash |-> hashes, inner_acc |-> accs]
      BY <2>8, <2>9 DEF PublicInput
    <2>11. CircuitTransition(PublicInput(s), w)
               = [last_vk_repr |-> w.repr, claims_hash |-> hashes, inner_acc |-> accs]
      <3>1. PublicInput(s).claims_hash = s.claims_hash /\ PublicInput(s).inner_acc = s.inner_acc
        BY DEF PublicInput
      <3> QED
        BY <3>1 DEF CircuitTransition, InnerAcc, hashes, accs
    <2> QED
      BY <2>1, <2>7, <2>10, <2>11
  <1> QED
    BY <1>1, <1>2 DEF Chain!ClosedUnderTransition

LEMMA SameStepsVerify == Chain!StepsVerify => StepsVerify
  BY SameAccumulators DEF StepsVerify, Shown, Accepts, Chain!StepsVerify, Chain!Shown, Chain!Accepts

(* The inductive invariant of the aggregator's chain.                      *)
ChainIInv == /\ Chain!IvcTyped
             /\ Chain!ProofsReach(AggregatedIn)
             /\ Chain!ProverIsHonest(AggregatedStates)

LEMMA ChainInitIInv == IvcInit => ChainIInv
  BY ChainInit, AggregatedIsClosed, StatesAreClosed, Chain!InitTyped, Chain!InitReaches,
     Chain!InitHonest DEF ChainIInv

LEMMA ChainNextIInv ==
  ASSUME ChainIInv, [AggregationNext]_<<proofs, prover, checkpoints, issued>>
  PROVE  ChainIInv'
  <1>1. [Chain!IvcNext]_Chain!ivcVars
    BY ChainNext DEF Chain!ivcVars
  <1> QED
    BY <1>1, KeysDiffer, AggregatedIsClosed, StatesAreClosed, Chain!NextTyped, Chain!NextReaches,
       Chain!NextHonest DEF ChainIInv

LEMMA ChainIInvSafe == ChainIInv => ClaimsAreProved /\ StepsVerify /\ ChainIsSound
  BY ReachedClaimsAreProved, AggregationsAreReached, SameStepsVerify, Chain!ReachIsAccepted, Chain!HonestIsAccepted
     DEF ChainIInv

(* multi_circuit_aggregator: an aggregation that is accepted proves every  *)
(* claim it is presented with, for any inner circuits, any statements,     *)
(* anybody's proofs and chains of every length.                            *)
THEOREM AggregationProvesClaims == AggregationSpec => []ClaimsAreProved
  <1>1. ChainIInv /\ [AggregationNext]_<<proofs, prover, checkpoints, issued>> => ChainIInv'
    BY ChainNextIInv
  <1> QED
    BY <1>1, ChainInitIInv, ChainIInvSafe, PTL DEF AggregationSpec

(* aggregate: whatever it returned Ok for is accepted, also when resumed   *)
(* from checkpoints that were mixed.                                       *)
THEOREM AggregationStepsVerify == AggregationSpec => []StepsVerify
  <1>1. ChainIInv /\ [AggregationNext]_<<proofs, prover, checkpoints, issued>> => ChainIInv'
    BY ChainNextIInv
  <1> QED
    BY <1>1, ChainInitIInv, ChainIInvSafe, PTL DEF AggregationSpec
-----------------------------------------------------------------------------
(* The two chains of the composed specification.                           *)

LEMMA ToyStatesAreClosed == ToyChain!ClosedUnderTransition(ToyStates)
  BY DEF ToyChain!ClosedUnderTransition, ToyStates, ToyTransition, ToyPublicInput

LEMMA ToyStep ==
  ASSUME [Toy!IvcNext]_<<proofs, prover, checkpoints, issued>>
  PROVE  [ToyChain!IvcNext]_ToyChain!ivcVars
  <1>1. ASSUME NEW w, Toy!ProveStep(w)
        PROVE  ToyChain!ProveStep(w)
    BY <1>1 DEF Toy!ProveStep, Toy!Accumulate, Toy!ProofAcc, Toy!AtGenesis, Toy!IsGenesis,
       Toy!PreviousValid, Toy!Verifies, Toy!TrivialShape, Toy!PreparedShape, Toy!IsDiscarded,
       Toy!Circuit, Toy!Proved,
       ToyChain!ProveStep, ToyChain!Accumulate, ToyChain!ProofAcc, ToyChain!AtGenesis,
       ToyChain!IsGenesis, ToyChain!PreviousValid, ToyChain!Verifies, ToyChain!TrivialShape,
       ToyChain!PreparedShape, ToyChain!IsDiscarded, ToyChain!Circuit, ToyChain!Proved
  <1>2. Toy!ProveElsewhere => ToyChain!ProveElsewhere
    BY DEF Toy!ProveElsewhere, Toy!Circuit, Toy!IsGenesis, Toy!PreparedShape, Toy!Accumulate,
       Toy!IsDiscarded, Toy!Proved, Toy!KnownAccs, Toy!KnownStates,
       ToyChain!ProveElsewhere, ToyChain!Circuit, ToyChain!IsGenesis, ToyChain!PreparedShape,
       ToyChain!Accumulate, ToyChain!IsDiscarded, ToyChain!Proved, ToyChain!KnownAccs,
       ToyChain!KnownStates
  <1>3. Toy!ProveAnotherCircuit => ToyChain!ProveAnotherCircuit
    BY DEF Toy!ProveAnotherCircuit, Toy!Proved, Toy!KnownAccs, Toy!KnownStates,
       ToyChain!ProveAnotherCircuit, ToyChain!Proved, ToyChain!KnownAccs, ToyChain!KnownStates
  <1>4. Toy!ResumeFrom => ToyChain!ResumeFrom
    BY DEF Toy!ResumeFrom, ToyChain!ResumeFrom
  <1> QED
    BY <1>1, <1>2, <1>3, <1>4 DEF Toy!IvcNext, ToyChain!IvcNext, ToyChain!ivcVars

ToyIInv == /\ ToyChain!IvcTyped
           /\ ToyChain!ProofsReach(ToyChain!ReachedInputs)
           /\ ToyChain!ProverIsHonest(ToyStates)

LEMMA ToyReached ==
  ASSUME NEW n \in Nat
  PROVE  ToyChain!Reached[n] \subseteq ToyStates
  <1> DEFINE Bad == {k \in Nat : ~ (ToyChain!Reached[k] \subseteq ToyStates)}
  <1>1. ASSUME Bad # {}
        PROVE  FALSE
    <2>1. PICK k \in Bad : \A y \in Bad : ~ (<<y, k>> \in OpToRel(<, Nat))
      BY <1>1, WFMin, NatLessThanWellFounded
    <2>2. k \in Nat /\ ~ (ToyChain!Reached[k] \subseteq ToyStates) /\ \A y \in Bad : ~ (y < k)
      BY <2>1 DEF OpToRel
    <2>3. CASE k = 0
      <3>1. ToyChain!Reached[0] = {0}
        BY ToyChain!ReachedDefined
      <3> QED
        BY <2>2, <2>3, <3>1 DEF ToyStates
    <2>4. CASE k # 0
      <3>1. k - 1 \in Nat /\ k - 1 < k /\ k - 1 + 1 = k
        BY <2>2, <2>4
      <3>2. ToyChain!Reached[k - 1] \subseteq ToyStates
        BY <2>2, <3>1
      <3>3. ToyChain!Reached[k - 1 + 1] = ToyChain!Following(ToyChain!Reached[k - 1])
        BY <3>1, ToyChain!ReachedGrows
      <3>4. \A s \in ToyStates : \A w : ToyTransition(s, w) \in ToyStates
        BY DEF ToyStates, ToyTransition
      <3> QED
        BY <2>2, <3>1, <3>2, <3>3, <3>4 DEF ToyChain!Following
    <2> QED
      BY <2>3, <2>4
  <1> QED
    BY <1>1

LEMMA ToyAgrees == ToyChain!CircuitAgrees
  <1>1. ASSUME NEW n \in Nat, NEW s \in ToyChain!Reached[n], NEW w
        PROVE  ToyTransition(s, w) # Panic
    <2>1. s \in ToyStates
      BY ToyReached
    <2>2. ToyTransition(s, w) \in ToyStates
      BY <2>1 DEF ToyStates, ToyTransition
    <2> QED
      BY <2>2, PanicIsNoToyState
  <1> QED
    BY <1>1 DEF ToyChain!CircuitAgrees, ToyPublicInput

LEMMA ToyInitIInv == Toy!IvcInit => ToyIInv
  <1>1. Toy!IvcInit => ToyChain!IvcInit
    BY DEF Toy!IvcInit, Toy!AtSetup, ToyChain!IvcInit, ToyChain!AtSetup
  <1> QED
    BY <1>1, ToyStatesAreClosed, ToyChain!InitTyped, ToyChain!InitReaches, ToyChain!InitHonest
       DEF ToyIInv

LEMMA ToyNextIInv ==
  ASSUME ToyIInv, [Toy!IvcNext]_<<proofs, prover, checkpoints, issued>>
  PROVE  ToyIInv'
  BY ToyStep, KeysDiffer, ToyAgrees, ToyStatesAreClosed, ToyChain!ReachedAreClosed,
     ToyChain!NextTyped, ToyChain!NextReaches, ToyChain!NextHonest DEF ToyIInv

LEMMA ToySame == Toy!Reached = ToyChain!Reached
  BY DEF Toy!Reached, Toy!Following, ToyChain!Reached, ToyChain!Following

LEMMA SameToyAccumulators ==
  /\ \A entry, acc : Toy!Accumulate(entry, acc) = ToyChain!Accumulate(entry, acc)
  /\ \A acc : Toy!Check(acc) <=> ToyChain!Check(acc)
  BY DEF Toy!Accumulate, ToyChain!Accumulate, Toy!IsDiscarded, ToyChain!IsDiscarded,
         Toy!Verifies, ToyChain!Verifies, Toy!Check, ToyChain!Check

LEMMA SameToyAnswers ==
  /\ \A p : Toy!Presented(p) = ToyChain!Presented(p)
  /\ \A instance, p, trailing :
        Toy!Accepts(instance, p, trailing) <=> ToyChain!Accepts(instance, p, trailing)
  <1>1. \A p : Toy!Presented(p) = ToyChain!Presented(p)
    BY DEF Toy!Presented, Toy!KnownAccs, ToyChain!Presented, ToyChain!KnownAccs
  <1>2. ASSUME NEW instance, NEW p, NEW trailing
        PROVE  Toy!Accepts(instance, p, trailing) <=> ToyChain!Accepts(instance, p, trailing)
    BY SameToyAccumulators DEF Toy!Accepts, ToyChain!Accepts
  <1> QED
    BY <1>1, <1>2

LEMMA ToySound == ToyIInv => Toy!ChainIsSound
  <1>1. ToyIInv => ToyChain!ChainIsSound
    BY ToyAgrees, ToyChain!ReachIsAccepted, ToyChain!ReachedInputsAreSound DEF ToyIInv
  <1>2. ToyChain!ChainIsSound => Toy!ChainIsSound
    BY ToySame, SameToyAnswers DEF Toy!ChainIsSound, ToyChain!ChainIsSound
  <1> QED
    BY <1>1, <1>2

LEMMA ToySafe == ToyIInv => Toy!StepsVerify
  <1>1. ToyChain!StepsVerify => Toy!StepsVerify
    BY DEF Toy!StepsVerify, Toy!Shown, Toy!Accepts, Toy!Accumulate, Toy!IsDiscarded, Toy!Check,
       Toy!Verifies, ToyChain!StepsVerify, ToyChain!Shown, ToyChain!Accepts,
       ToyChain!Accumulate, ToyChain!IsDiscarded, ToyChain!Check, ToyChain!Verifies
  <1> QED
    BY <1>1, ToyChain!HonestIsAccepted DEF ToyIInv

SubjectIInv == /\ subject = "toy" => ToyIInv
               /\ subject = "aggregation" => ChainIInv

LEMMA SubjectInit == MCInit => SubjectIInv
  BY ToyInitIInv, ChainInitIInv DEF MCInit, SubjectIInv

LEMMA SubjectNext == SubjectIInv /\ [MCNext]_aggregationVars => SubjectIInv'
  <1> SUFFICES ASSUME SubjectIInv, [MCNext]_aggregationVars
               PROVE  SubjectIInv'
    OBVIOUS
  <1>1. UNCHANGED subject
    BY DEF MCNext, aggregationVars, chainVars
  <1>2. ASSUME subject = "toy"
        PROVE  ToyIInv'
    <2>1. [Toy!IvcNext]_<<proofs, prover, checkpoints, issued>>
      BY <1>2 DEF MCNext, aggregationVars, chainVars
    <2> QED
      BY <1>2, <2>1, ToyNextIInv DEF SubjectIInv
  <1>3. ASSUME subject = "aggregation"
        PROVE  ChainIInv'
    <2>1. [AggregationNext]_<<proofs, prover, checkpoints, issued>>
      BY <1>3 DEF MCNext, aggregationVars, chainVars
    <2> QED
      BY <1>3, <2>1, ChainNextIInv DEF SubjectIInv
  <1> QED
    BY <1>1, <1>2, <1>3 DEF SubjectIInv

(* The aggregator among the subjects: its claims can be proved.            *)
THEOREM ClaimsAlwaysProved == MCSpec => []ClaimsProved
  <1>1. SubjectIInv => ClaimsProved
    BY ChainIInvSafe DEF SubjectIInv, ClaimsProved
  <1> QED
    BY <1>1, SubjectInit, SubjectNext, PTL DEF MCSpec

(* Both chains of the composed specification: the p-th proof is accepted   *)
(* for no state but one that p transitions, or fewer, lead to.             *)
THEOREM ChainsAlwaysSound == MCSpec => []ChainSound
  <1>1. SubjectIInv => ChainSound
    BY ChainIInvSafe, ToySound DEF SubjectIInv, ChainSound
  <1> QED
    BY <1>1, SubjectInit, SubjectNext, PTL DEF MCSpec

(* Both chains of the composed specification: what prove_step returned is  *)
(* accepted.                                                               *)
THEOREM HonestStepsAlwaysVerify == MCSpec => []HonestStepsVerify
  <1>1. SubjectIInv => HonestStepsVerify
    BY ChainIInvSafe, ToySafe DEF SubjectIInv, HonestStepsVerify
  <1> QED
    BY <1>1, SubjectInit, SubjectNext, PTL DEF MCSpec

-----------------------------------------------------------------------------
(* Batches.  What is left to the pairing at each power is left by one proof*)
(* alone.                                                                  *)
SummedBy(f, b, power) ==
    /\ f[0] = 0
    /\ \A n \in 1 .. Len(b.proofs) : f[n] = f[n - 1] + Share(b, n, power)

LEMMA CoefficientLoop ==
  ASSUME NEW b, Len(b.proofs) \in Nat, NEW power,
         \A n \in 1 .. Len(b.proofs) : Share(b, n, power) \in Int
  PROVE  \E f : SummedBy(f, b, power) /\ Coefficient(b, power) = f[Len(b.proofs)]
  <1> DEFINE m == Len(b.proofs)
             share(n) == Share(b, n, power)
             next == [p \in (1 .. m) \X Int |-> p[2] + share(p[1])]
             Is(f) == f = [n \in 0 .. m |-> IF n = 0 THEN 0 ELSE f[n - 1] + share(n)]
  <1>1. m \in Nat /\ 0 \in Int /\ \A n \in 1 .. m : n - 1 \in 0 .. m /\ n \in 0 .. m /\ n # 0
    OBVIOUS
  <1>2. \A n \in 1 .. m : share(n) \in Int
    OBVIOUS
  <1>3. Coefficient(b, power) = (CHOOSE f : Is(f))[m]
    BY DEF Coefficient
  <1> HIDE DEF m, share
  <1>4. PICK g : Loops(g, m, Int, 0, next)
    <2>1. Steps(next, 1 .. m, Int)
      BY <1>2 DEF Steps
    <2> HIDE DEF next
    <2> QED
      BY <1>1, <2>1, LoopsExist
  <1>5. Is(g)
    <2>1. ASSUME NEW n \in 1 .. m
          PROVE  g[n] = g[n - 1] + share(n)
      <3>1. g[n] = next[n, g[n - 1]] /\ g[n - 1] \in Int
        BY <1>1, <1>4 DEF Loops
      <3> QED
        BY <3>1
    <2>2. g \in [0 .. m -> Int] /\ g[0] = 0
      BY <1>4 DEF Loops
    <2>3. \A n \in 0 .. m : n = 0 \/ n \in 1 .. m
      BY <1>1
    <2> HIDE DEF next
    <2> QED
      BY <2>1, <2>2, <2>3
  <1> DEFINE q == CHOOSE f : Is(f)
  <1>6. Is(q)
    <2> HIDE DEF Is
    <2> QED
      BY <1>5
  <1>7. Coefficient(b, power) = q[m]
    BY <1>3
  <1> HIDE DEF q
  <1>8. q[0] = 0 /\ \A n \in 1 .. m : q[n] = q[n - 1] + share(n)
    BY <1>1, <1>6
  <1> QED
    BY <1>7, <1>8 DEF SummedBy, m, share

LEMMA CoefficientIsShare ==
  ASSUME NEW b, Len(b.proofs) \in Nat, NEW k \in 1 .. Len(b.proofs),
         Share(b, k, Power(k)) \in Int
  PROVE  Coefficient(b, Power(k)) = Share(b, k, Power(k))
  <1> DEFINE m == Len(b.proofs)
             share(n) == Share(b, n, Power(k))
             x == share(k)
  <1>1. m \in Nat /\ k \in 1 .. m /\ x \in Int
    OBVIOUS
  <1>2. \A n \in 1 .. m : n # k => share(n) = 0
    BY <1>1 DEF Share, Power
  <1>3. \A n \in 1 .. m : share(n) \in Int
    BY <1>1, <1>2
  <1>4. PICK f : SummedBy(f, b, Power(k)) /\ Coefficient(b, Power(k)) = f[m]
    BY <1>3, CoefficientLoop
  <1>5. f[0] = 0 /\ \A n \in 1 .. m : f[n] = f[n - 1] + share(n)
    BY <1>4 DEF SummedBy
  <1> DEFINE P == {n \in 0 .. m : f[n] = IF n < k THEN 0 ELSE x}
  <1> HIDE DEF m, share
  <1>6. 0 \in P
    BY <1>1, <1>5
  <1>7. ASSUME NEW n \in 1 .. m, n - 1 \in P
        PROVE  n \in P
    <2>1. n \in 0 .. m /\ f[n] = f[n - 1] + share(n) /\ f[n - 1] = IF n - 1 < k THEN 0 ELSE x
      BY <1>1, <1>5, <1>7
    <2>2. CASE n < k
      BY <1>1, <1>2, <2>1, <2>2
    <2>3. CASE n = k
      BY <1>1, <2>1, <2>3
    <2>4. CASE n > k
      <3>1. share(n) = 0 /\ ~ (n - 1 < k) /\ ~ (n < k)
        BY <1>1, <1>2, <2>4
      <3>2. f[n - 1] = x /\ f[n] = f[n - 1] + share(n)
        BY <2>1, <3>1
      <3>3. f[n] = x
        BY <1>1, <3>1, <3>2
      <3> QED
        BY <2>1, <3>1, <3>3
    <2> QED
      BY <1>1, <2>2, <2>3, <2>4
  <1>8. 0 .. m \subseteq P
    <2> HIDE DEF P
    <2> QED
      BY <1>1, <1>6, <1>7, InductionUpTo
  <1>9. m \in P /\ ~ (m < k)
    BY <1>1, <1>8
  <1> QED
    BY <1>4, <1>9 DEF share, m

LEMMA NoShare ==
  ASSUME NEW b, Len(b.proofs) \in Nat, NEW power, \A n \in 1 .. Len(b.proofs) : power # Power(n)
  PROVE  Coefficient(b, power) = 0
  <1> DEFINE m == Len(b.proofs)
  <1>1. m \in Nat /\ \A n \in 1 .. m : Share(b, n, power) = 0
    BY DEF Share
  <1>2. PICK f : SummedBy(f, b, power) /\ Coefficient(b, power) = f[m]
    BY <1>1, CoefficientLoop
  <1>3. f[0] = 0 /\ \A n \in 1 .. m : f[n] = f[n - 1] + Share(b, n, power)
    BY <1>2 DEF SummedBy
  <1> DEFINE P == {n \in 0 .. m : f[n] = 0}
  <1> HIDE DEF m
  <1>4. 0 \in P
    BY <1>1, <1>3
  <1>5. ASSUME NEW n \in 1 .. m, n - 1 \in P
        PROVE  n \in P
    BY <1>1, <1>3, <1>5
  <1>6. 0 .. m \subseteq P
    <2> HIDE DEF P
    <2> QED
      BY <1>1, <1>4, <1>5, InductionUpTo
  <1> QED
    BY <1>1, <1>2, <1>6

BatchTyped == /\ \E n \in Nat : batch.vks \in [1 .. n -> Circuits]
              /\ \E n \in Nat : batch.pis \in [1 .. n -> 0 .. 1]
              /\ batch.proofs \in Seq(Proofs)

LEMMA BatchesAreProofs ==
  ASSUME BatchTyped
  PROVE  BatchIsEveryProof
  <1> DEFINE m == Len(batch.proofs)
             leftOf(i) == Left(batch.vks[i], batch.pis[i], batch.proofs[i])
  <1>1. m \in Nat /\ DOMAIN batch.proofs = 1 .. m /\ \A i \in 1 .. m : batch.proofs[i] \in Proofs
    BY DEF BatchTyped
  <1>2. \A i \in 1 .. m : leftOf(i) \in Int
    <2>1. \A i \in 1 .. m : batch.proofs[i].error \in Int
      BY <1>1, BatchAssumption DEF Proofs
    <2> QED
      BY <2>1 DEF Left
  <1>3. \A i \in 1 .. m : Share(batch, i, Power(i)) = leftOf(i)
    BY DEF Share
  <1>4. \A i \in 1 .. m : Coefficient(batch, Power(i)) = leftOf(i)
    <2> SUFFICES ASSUME NEW i \in 1 .. m
                 PROVE  Coefficient(batch, Power(i)) = leftOf(i)
      OBVIOUS
    <2>1. Share(batch, i, Power(i)) \in Int
      BY <1>2, <1>3
    <2>2. Coefficient(batch, Power(i)) = Share(batch, i, Power(i))
      BY <1>1, <2>1, CoefficientIsShare
    <2> QED
      BY <1>3, <2>2
  <1>5. \A power : (\A n \in 1 .. m : power # Power(n)) => Coefficient(batch, power) = 0
    BY <1>1, NoShare
  <1> HIDE DEF m, leftOf
  <1>6. (\A power \in 0 .. m : Coefficient(batch, power) = 0) <=> \A i \in 1 .. m : leftOf(i) = 0
    <2>1. \A i \in 1 .. m : Power(i) \in 0 .. m
      BY <1>1 DEF Power
    <2> QED
      BY <1>4, <1>5, <2>1
  <1>7. /\ BatchVerify(batch) <=> /\ Len(batch.pis) = Len(batch.vks) /\ m = Len(batch.vks)
                                  /\ \A i \in 1 .. m : Prepares(batch.vks[i], batch.pis[i], batch.proofs[i])
                                  /\ \A power \in 0 .. m : Coefficient(batch, power) = 0
        /\ \A i \in 1 .. m : VerifyOne(batch.vks[i], batch.pis[i], batch.proofs[i])
                                <=> Prepares(batch.vks[i], batch.pis[i], batch.proofs[i]) /\ leftOf(i) = 0
    BY <1>1 DEF BatchVerify, VerifyOne, Prepares, m, leftOf
  <1> QED
    BY <1>1, <1>6, <1>7 DEF BatchIsEveryProof, m

SubjectTyped == subject = "batch" => BatchTyped

LEMMA TypedInit == MCInit => SubjectTyped
  <1> SUFFICES ASSUME MCInit, subject = "batch"
               PROVE  BatchTyped
    BY DEF SubjectTyped
  <1>1. batch \in [vks : UpTo(MaxBatch, Circuits), pis : UpTo(MaxBatch, 0 .. 1), proofs : {<<>>}]
    BY DEF MCInit, BatchInit
  <1>2. /\ batch.vks \in UpTo(MaxBatch, Circuits) /\ batch.pis \in UpTo(MaxBatch, 0 .. 1)
        /\ batch.proofs = <<>>
    BY <1>1
  <1>3. (\E n \in Nat : batch.vks \in [1 .. n -> Circuits]) /\ \E n \in Nat : batch.pis \in [1 .. n -> 0 .. 1]
    BY <1>2, BatchAssumption DEF UpTo
  <1>4. batch.proofs \in Seq(Proofs)
    BY <1>2
  <1> QED
    BY <1>3, <1>4 DEF BatchTyped

LEMMA TypedNext == SubjectTyped /\ [MCNext]_aggregationVars => SubjectTyped'
  <1> SUFFICES ASSUME SubjectTyped, [MCNext]_aggregationVars, subject' = "batch"
               PROVE  BatchTyped'
    BY DEF SubjectTyped
  <1>1. subject = "batch" /\ BatchTyped
    BY DEF MCNext, aggregationVars, SubjectTyped
  <1>2. BatchNext \/ batch' = batch
    BY <1>1 DEF MCNext, aggregationVars
  <1>3. CASE batch' = batch
    BY <1>1, <1>3 DEF BatchTyped
  <1>4. CASE BatchNext
    <2>1. PICK p \in Proofs : batch' = [batch EXCEPT !.proofs = Append(@, p)]
      BY <1>4 DEF BatchNext
    <2>2. batch.proofs \in Seq(Proofs)
      BY <1>1 DEF BatchTyped
    <2> QED
      BY <1>1, <2>1, <2>2 DEF BatchTyped
  <1> QED
    BY <1>2, <1>3, <1>4

(* A batch of any size is accepted exactly when every proof of it is, for  *)
(* its own key and public inputs, as verify would (batch_verify).          *)
THEOREM BatchesAlwaysSound == MCSpec => []BatchSound
  <1>1. SubjectTyped => BatchSound
    BY BatchesAreProofs DEF SubjectTyped, BatchSound
  <1> QED
    BY <1>1, TypedInit, TypedNext, PTL DEF MCSpec
=============================================================================
