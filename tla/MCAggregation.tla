---------------------------- MODULE MCAggregation ----------------------------
(***************************************************************************)
(* A chain of a small transition system, the chain of the aggregator,      *)
(* batches of proofs, and the copy constraints that key generation         *)
(* collects, which share no state: a behaviour is about one of them, the   *)
(* subject.                                                                *)
(***************************************************************************)
EXTENDS ProofAggregation, PermutationAssembly

CONSTANTS Chains,            \* the subjects
          ToyMaxProofs,
          A, B                 \* two inner circuits

VARIABLE subject

chainVars       == <<proofs, prover, checkpoints, issued>>
aggregationVars == <<chainVars, batch, vars, subject>>

(* The cycle 0, 1, 2 back to the genesis, and 3 that nothing leads to.     *)
ToyStates == 0 .. 3
ToyTransition(s, w) == IF w = "stay" THEN (IF s = 0 THEN 1 ELSE s) ELSE (IF s = 3 THEN 3 ELSE (s + 1) % 3)
ToyPublicInput(s) == s
ToyDecider(s)     == TRUE
ToyStatesOf(s)    == {s}

ASSUME PanicIsNoToyState == Panic \notin ToyStates

Toy == INSTANCE IvcChain WITH
           Genesis <- 0, Witnesses <- {"stay", "go"}, Transition <- ToyTransition,
           CircuitTransition <- ToyTransition, PublicInput <- ToyPublicInput,
           Decider <- ToyDecider, StatesOf <- ToyStatesOf, ForgedStates <- {3},
           MaxProofs <- ToyMaxProofs

(* Only statements of B have a proof; both circuits fit the aggregator.    *)
MCArch           == [k \in Keys |-> SetupArch]
MCProvable       == {B} \X Statements
MCErrors         == {0, 1, -1}
MCNbPublicInputs == [k \in Circuits |-> IF k = A THEN 0 ELSE 1]

NoBatch == batch = [vks |-> <<>>, pis |-> <<>>, proofs |-> <<>>]

MCInit == /\ subject \in Chains /\ Init
          /\ CASE subject = "toy"         -> Toy!IvcInit /\ NoBatch
               [] subject = "aggregation" -> IvcInit /\ NoBatch
               [] subject = "batch"       -> BatchInit /\ IvcInit
               [] subject = "copies"      -> IvcInit /\ NoBatch

MCNext ==
    \/ subject = "toy" /\ Toy!IvcNext /\ UNCHANGED <<batch, vars, subject>>
    \/ subject = "aggregation" /\ AggregationNext /\ UNCHANGED <<batch, vars, subject>>
    \/ subject = "batch" /\ BatchNext /\ UNCHANGED <<chainVars, vars, subject>>
    \/ subject = "copies" /\ Next /\ UNCHANGED <<chainVars, batch, subject>>

MCSpec == MCInit /\ [][MCNext]_aggregationVars

(* A call of copy, once made, runs to its end.                             *)
CopyStep   == subject = "copies" /\ Step /\ UNCHANGED <<chainVars, batch, subject>>
FairMCSpec == MCSpec /\ WF_aggregationVars(CopyStep)

(* The properties of the chain, of each of the two chains.                 *)
ChainSound  == /\ subject = "toy" => Toy!ChainIsSound
               /\ subject = "aggregation" => ChainIsSound
HonestStepsVerify == /\ subject = "toy" => Toy!StepsVerify
                     /\ subject = "aggregation" => StepsVerify
ClaimsProved == subject = "aggregation" => ClaimsAreProved
BatchSound   == subject = "batch" => BatchIsEveryProof
GenesisAccumulatorIsTrivial == subject = "toy" => Toy!GenesisIsTrivial
=============================================================================
