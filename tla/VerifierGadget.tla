---------------------------- MODULE VerifierGadget ----------------------------
(***************************************************************************)
(* The verifier in a circuit (circuits/src/verifier): what it absorbs and  *)
(* squeezes, what it takes the items of the witnessed proof for, and what  *)
(* it asks the opening, next to the verifier of ProofTranscript given the  *)
(* same claim and the same proof.  It reads a proof it cannot reject: what *)
(* is not there is read as a default.                                      *)
(***************************************************************************)
EXTENDS ProofTranscript

VARIABLES g_log,       \* the sponge of TranscriptGadget
          g_taken,     \* what it read, as <<what it takes it for, item>>
          g_queries,   \* its opening queries, as <<label, rotation>>
          g_pc         \* "waiting", "prepared", "failed" or "panicked"

gadgetVars == <<g_log, g_taken, g_queries, g_pc>>

GadgetInit == Init /\ g_log = <<>> /\ g_taken = <<>> /\ g_queries = <<>> /\ g_pc = "waiting"

Default == <<"default">>

(* read_commitment and read_scalar absorb what they read, or the default.  *)
Given(j) == IF j <= Len(received) /\ received[j] # <<"byte">> THEN received[j] ELSE Default

GadgetHear(t, x) ==
    IF IsChallenge(x) THEN [t EXCEPT !.log = Append(@, x)]
    ELSE [log   |-> Append(t.log, Given(t.at + 1)), at |-> t.at + 1,
          taken |-> Append(t.taken, <<x, Given(t.at + 1)>>)]

GadgetHears(absorbed, items) ==
    LET h[n \in 0 .. Len(items)] ==
            IF n = 0 THEN [log |-> absorbed, at |-> 0, taken |-> <<>>]
            ELSE GadgetHear(h[n - 1], items[n])
    IN  h[Len(items)]
-----------------------------------------------------------------------------
(* parse_trace.                                                            *)
GadgetAbsorbs == <<<<"vk">>>> \o claim.commitments
                     \o FlattenSeq([i \in DOMAIN claim.instances |-> AbsorbColumn(claim.instances[i])])

GadgetAccumulators == CeilDiv(Len(cs.permutation), Degree(cs) - 2)

TraceItems ==
    Labels("Advice", NumAdvice) \o Challenges(<<"theta">>)
        \o Labels("LogupMultiplicities", NumLookups)
        \o Challenges(<<"beta", "gamma", "trash_challenge">>)
        \o Labels("PermutationAccumulator", GadgetAccumulators)
        \o LogupCommitments
        \o Labels("Trash", Len(cs.trashcans)) \o Challenges(<<"y">>)
-----------------------------------------------------------------------------
(* verify_algebraic_constraints: one evaluation for each fixed column, not *)
(* for each query of one.                                                  *)
GadgetFixedEvals == cs.num_fixed_columns
                        - Cardinality({i \in DOMAIN cs.selector_flags : cs.selector_flags[i].simple})
FixedEvalsMissing == GadgetFixedEvals < Len(OpenedFixedQueries)
GadgetTakesFor(j) == LET at == Position(SlotsOf(GadgetFixedEvals), j)
                     IN  IF at > Len(cs.queries["fixed"]) THEN <<"nothing">>
                         ELSE Eval(<<"Fixed", cs.queries["fixed"][at][1]>>, cs.queries["fixed"][at][2])

MutGadgetLast(i) == <<Eval(Label("PermutationAccumulator", i), XLast)>>
GadgetLast(i) == IF i < GadgetAccumulators
                 THEN <<Eval(Label("PermutationAccumulator", i), XLast)>> ELSE <<>>

EvalItems ==
    Labels("Quotient", NumQuotients) \o Challenges(<<"x">>)
        \o EvalsOf("CommittedInstance", CommittedQueries(Len(claim.commitments)))
        \o EvalsOf("Advice", cs.queries["advice"])
        \o [j \in 1 .. GadgetFixedEvals |-> GadgetTakesFor(j)]
        \o [i \in DOMAIN cs.permutation |-> Eval(Label("PermutationFixed", i), 0)]
        \o FlattenSeq([i \in 1 .. GadgetAccumulators |->
               <<Eval(Label("PermutationAccumulator", i), 0),
                 Eval(Label("PermutationAccumulator", i), 1)>> \o GadgetLast(i)])
        \o ToEvals(LookupQueries)
        \o [i \in DOMAIN cs.trashcans |-> Eval(Label("Trash", i), 0)]

GadgetQueries ==
    QueriesOf("Advice", cs.queries["advice"])
        \o QueriesOf("CommittedInstance", CommittedQueries(Len(claim.commitments)))
        \o AccumulatorQueries(GadgetAccumulators)
        \o LookupQueries
        \o [i \in DOMAIN cs.trashcans |-> <<Label("Trash", i), 0>>]
        \o QueriesOf("Fixed", OpenedFixedQueries)
        \o [i \in DOMAIN cs.permutation |-> <<Label("PermutationFixed", i), 0>>]
        \o <<<<Linearization, 0>>>>

(* get_point has the points of three rotations, and the rotations of the   *)
(* instance queries have no minimum when there is none.                    *)
UnsupportedRotation ==
    \E q \in ToSet(cs.queries["advice"] \o CommittedQueries(Len(claim.commitments))
                       \o OpenedFixedQueries) : q[2] \notin -1 .. 1
NoInstanceQuery == cs.queries["instance"] = <<>>
WrongInstances  == Len(claim.commitments) + Len(claim.instances) # NumInstance

GadgetPanics == \/ WrongInstances \/ NoInstanceQuery \/ FixedEvalsMissing \/ UnsupportedRotation
                \/ OpeningPanics(GadgetQueries)
-----------------------------------------------------------------------------
(* prepare, which shares nothing with the verifier: it is taken to run     *)
(* after it.  Only a repeated query is an error.                           *)
GadgetPrepare ==
    /\ v_pc \in {"complete", "rejected", "panicked"} /\ g_pc = "waiting"
    /\ LET queries == GadgetQueries
           dummies == DummyQueries(queries)
           all     == queries \o dummies
           opening == IF DuplicatedQuery(all) THEN Challenges(<<"x1", "x2">>) ELSE Opening(all)
           t       == GadgetHears(GadgetAbsorbs,
                                  TraceItems \o EvalItems \o ToEvals(dummies) \o opening)
       IN  IF GadgetPanics
           THEN g_pc' = "panicked" /\ UNCHANGED <<g_log, g_taken, g_queries>>
           ELSE /\ g_log' = t.log /\ g_taken' = t.taken /\ g_queries' = all
                /\ g_pc' = IF DuplicatedQuery(all) THEN "failed" ELSE "prepared"
    /\ UNCHANGED vars

GadgetSpec == /\ GadgetInit
              /\ [][\/ Next /\ UNCHANGED gadgetVars
                    \/ GadgetPrepare]_<<vars, gadgetVars>>
-----------------------------------------------------------------------------
(* The gadget goes through what the verifier goes through, item by item,   *)
(* and asks the same openings; of a proof the verifier stops reading, it   *)
(* reads on with defaults, and never as a proof the verifier would accept. *)
Mirrored ==
    /\ IsPrefix(v_log, g_log) /\ IsPrefix(taken, g_taken)
    /\ v_queries # <<>> => g_queries = v_queries
    /\ v_pc = "complete" => g_pc = "prepared" /\ g_log = v_log
    /\ v_pc = "rejected" /\ position = Len(received) /\ g_pc = "prepared" =>
           Default \in {g_taken[i][2] : i \in DOMAIN g_taken}

(* What the gadget can verify proofs of: every fixed column is queried     *)
(* once, no cell is more than a row away, some instance is queried.        *)
Supported == /\ ~WrongInstances /\ ~NoInstanceQuery /\ ~UnsupportedRotation
             /\ \A col \in 0 .. cs.num_fixed_columns - 1 :
                    Cardinality({i \in DOMAIN cs.queries["fixed"] :
                                     cs.queries["fixed"][i][1] = col}) = 1

GadgetMirrorsVerifier == g_pc # "waiting" /\ Supported => g_pc # "panicked" /\ Mirrored

(* "It is the in-circuit analog of "prepare" from midnight-proofs"         *)
(* (verifier_gadget.rs:852), save for the circuits it refuses on purpose.  *)
GadgetIsAnalog ==
    g_pc # "waiting" /\ ~WrongInstances /\ ~NoInstanceQuery /\ ~UnsupportedRotation
        => g_pc # "panicked" /\ Mirrored
=============================================================================
