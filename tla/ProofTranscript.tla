--------------------------- MODULE ProofTranscript ---------------------------
(***************************************************************************)
(* The prover and the verifier of a configured circuit                     *)
(* (proofs/src/plonk/prover.rs, verifier.rs), through the transcript each  *)
(* of them keeps (transcript/mod.rs) and the opening of the polynomials    *)
(* (poly/kzg/mod.rs).                                                      *)
(*                                                                         *)
(* The hash of a transcript is ideal: its state is the log of what it      *)
(* absorbed and of the challenges squeezed from it, and two challenges are *)
(* equal when they are drawn after equal logs.  A commitment or an         *)
(* evaluation is the name of what it commits to or evaluates: a label, or  *)
(* Eval(label, rotation).  A field element that either side absorbs is     *)
(* <<"F", n>>, be it a length or a value.                                  *)
(*                                                                         *)
(* What decides on the values of the elements is left out: the identities  *)
(* and the pairing check.  "complete" says of a proof that it was read to  *)
(* its end without an error, which the checks on its values follow.        *)
(***************************************************************************)
EXTENDS ConstraintSystem

CONSTANTS Statements,       \* what may be proved: records [instances, committed]
          FeatureSets       \* subsets of {"fewer-point-sets", "single-h-commitment"}

ASSUME StatementsAssumption ==
    \A s \in Statements : s.instances \in Seq(Seq(Nat)) /\ s.committed \in Nat

VARIABLES features,         \* the features the crates are built with
          statement,        \* what is proved: the columns, the first of them committed
          p_log, proof,     \* CircuitTranscript of the prover
          p_queries,        \* its opening queries, as <<label, rotation>>
          p_pc,
          claim,            \* what is verified: [commitments, instances]
          received,         \* the proof as the verifier gets it
          v_log, position,  \* CircuitTranscript of the verifier
          taken,            \* what the verifier has read, as <<what it takes it for, item>>
          v_queries,        \* its opening queries
          v_pc

proverVars   == <<features, statement, p_log, proof, p_queries, p_pc>>
verifierVars == <<claim, received, v_log, position, taken, v_queries, v_pc>>
vars         == <<csVars, proverVars, verifierVars>>

Challenges(names) == [i \in DOMAIN names |-> <<"challenge", names[i]>>]
IsChallenge(item) == item[1] = "challenge"

(* What is written to a proof: all but the challenges.                     *)
Say(t, x)      == IF IsChallenge(x) THEN t ELSE Append(t, x)
Written(items) == LET w[n \in 0 .. Len(items)] == IF n = 0 THEN <<>> ELSE Say(w[n - 1], items[n])
                  IN  w[Len(items)]

(* The elements of a sequence that are in a set, in their order.           *)
Keep(t, x, S) == IF x \in S THEN Append(t, x) ELSE t
Chosen(s, S)  == LET c[n \in 0 .. Len(s)] == IF n = 0 THEN <<>> ELSE Keep(c[n - 1], s[n], S)
                 IN  c[Len(s)]
F(n)              == <<"F", n>>
Label(kind, i)    == <<kind, i - 1>>
Eval(label, at)   == <<"eval", label, at>>
Labels(kind, n)   == [i \in 1 .. n |-> Label(kind, i)]
Linearization     == <<"Linearization">>

(* A polynomial has N values, however long the column it is made from.     *)
CommitTo(values) == <<"Commitment", [i \in 1 .. N |-> IF i <= Len(values) THEN values[i] ELSE 0]>>

MutAbsorbColumn(values) == [i \in DOMAIN values |-> F(values[i])]
AbsorbColumn(values) == <<F(Len(values))>> \o [i \in DOMAIN values |-> F(values[i])]

ClaimOf(s) == [commitments |-> [i \in 1 .. s.committed |-> CommitTo(s.instances[i])],
               instances   |-> SubSeq(s.instances, s.committed + 1, Len(s.instances))]
NoClaim    == [commitments |-> <<>>, instances |-> <<>>]

Init == /\ InitConfiguration
        /\ features \in FeatureSets
        /\ statement \in Statements
        /\ p_log = <<>> /\ proof = <<>> /\ p_queries = <<>> /\ p_pc = "instances"
        /\ claim = NoClaim /\ received = <<>>
        /\ v_log = <<>> /\ position = 0 /\ taken = <<>> /\ v_queries = <<>>
        /\ v_pc = "waiting"
-----------------------------------------------------------------------------
(* The constraint system both sides have from the key.                     *)
XLast         == -(BlindingFactors(cs) + 1)
ChunkLen      == Degree(cs) - 2
NumLookups    == Len(cs.lookups)
NumQuotients  == IF "single-h-commitment" \in features THEN 1 ELSE quotient_degree
IsOpened(q)   == q[1] \notin SimpleColumns(cs)
EvalsOf(kind, queries) == [i \in DOMAIN queries |-> Eval(<<kind, queries[i][1]>>, queries[i][2])]

(* What is written and read for the lookups, one argument after the other. *)
LogupCommitments ==
    FlattenSeq([l \in 1 .. NumLookups |->
        [j \in 1 .. NumChunks(cs, cs.lookups[l]) |-> <<"LogupHelper", l - 1, j - 1>>]
            \o <<Label("LogupAggregator", l)>>])

LogupQueries(l) ==
    <<<<Label("LogupMultiplicities", l), 0>>>>
        \o [j \in 1 .. NumChunks(cs, cs.lookups[l]) |-> <<<<"LogupHelper", l - 1, j - 1>>, 0>>]
        \o <<<<Label("LogupAggregator", l), 0>>, <<Label("LogupAggregator", l), 1>>>>
LookupQueries == FlattenSeq([l \in 1 .. NumLookups |-> LogupQueries(l)])

ToEval(query)   == Eval(query[1], query[2])
ToEvals(queries) == [i \in DOMAIN queries |-> ToEval(queries[i])]
-----------------------------------------------------------------------------
(* The opening of a list of queries, at the point of each rotation.        *)
Point(at)    == at % N
With(t, x)   == IF Contains(t, x) THEN t ELSE Append(t, x)
Distinct(s)  == LET d[n \in 0 .. Len(s)] == IF n = 0 THEN <<>> ELSE With(d[n - 1], s[n])
                IN  d[Len(s)]
Keys(qs)     == Distinct([i \in DOMAIN qs |-> qs[i][1]])
QueriesTo(qs, label) == Chosen(qs, {q \in ToSet(qs) : q[1] = label})
PointsOf(qs, label) == LET own == QueriesTo(qs, label)
                       IN  [i \in DOMAIN own |-> Point(own[i][2])]

(* compute_dummy_queries.                                                  *)
SharedPoints(qs) == LET keys == Keys(qs)
                    IN  Distinct(FlattenSeq([i \in DOMAIN keys |->
                            LET points == PointsOf(qs, keys[i])
                            IN  IF Len(points) = 1 THEN <<>> ELSE points]))
ComputeDummyQueries(qs) ==
    LET keys   == Keys(qs)
        shared == SharedPoints(qs)
        Missing(label) == Chosen(shared, ToSet(shared) \ ToSet(PointsOf(qs, label)))
        Dummies(label) == LET missing == Missing(label)
                          IN  [j \in DOMAIN missing |-> <<label, missing[j]>>]
    IN  FlattenSeq([i \in DOMAIN keys |-> Dummies(keys[i])])
DummyQueries(qs) == IF "fewer-point-sets" \in features THEN ComputeDummyQueries(qs) ELSE <<>>

(* construct_intermediate_sets, and the order the sets are then put in.    *)
DuplicatedQuery(qs) == \E i, j \in DOMAIN qs : /\ i < j /\ qs[i][1] = qs[j][1]
                                               /\ Point(qs[i][2]) = Point(qs[j][2])
PointSets(qs) == LET keys == Keys(qs)
                 IN  Distinct([i \in DOMAIN keys |-> ToSet(PointsOf(qs, keys[i]))])
Before(sets, i, j) == \/ Cardinality(sets[i]) < Cardinality(sets[j])
                      \/ Cardinality(sets[i]) = Cardinality(sets[j]) /\ i < j
SortedSets(qs) ==
    LET sets == PointSets(qs)
        Place(i) == Cardinality({j \in DOMAIN sets : Before(sets, j, i)}) + 1
    IN  [k \in DOMAIN sets |-> sets[CHOOSE i \in DOMAIN sets : Place(i) = k]]
(* The evaluation at x_3 of the combination of the polynomials of a set.   *)
QEvals(qs) == LET sets == SortedSets(qs)
                  keys == Keys(qs)
              IN  [i \in DOMAIN sets |->
                      <<"q_eval", Chosen(keys, {l \in ToSet(keys) : ToSet(PointsOf(qs, l)) = sets[i]})>>]

Opening(qs) == Challenges(<<"x1", "x2">>) \o <<<<"f_com">>>> \o Challenges(<<"x3">>)
                   \o QEvals(qs) \o Challenges(<<"x4">>) \o <<<<"pi">>>>
-----------------------------------------------------------------------------
(* The prover: create_proof.                                               *)
ProverAt(at) == phase = "keyed" /\ p_pc = at

Silent == UNCHANGED <<csVars, features, statement, verifierVars>>

Write(items, next) == /\ p_log' = p_log \o items
                      /\ proof' = proof \o Written(items)
                      /\ p_pc' = next
                      /\ Silent

(* Committed instances go first; the lengths of the others are absorbed.   *)
InstanceItems(s) ==
    FlattenSeq([i \in DOMAIN s.instances |->
        IF i <= s.committed THEN <<CommitTo(s.instances[i])>> ELSE AbsorbColumn(s.instances[i])])

InvalidInstances == \/ Len(statement.instances) # NumInstance
                    \/ Len(statement.instances) < statement.committed
TooLarge(values) == Len(values) > N - (BlindingFactors(cs) + 1)

ComputeInstances ==
    /\ ProverAt("instances") /\ ~InvalidInstances
    /\ \A i \in DOMAIN statement.instances : ~TooLarge(statement.instances[i])
    /\ p_log' = <<<<"vk">>>> \o InstanceItems(statement)
    /\ p_pc' = "advice"
    /\ UNCHANGED <<proof, p_queries>> /\ Silent

InvalidInstancesError == /\ ProverAt("instances") /\ InvalidInstances
                         /\ p_pc' = "refused"
                         /\ UNCHANGED <<p_log, proof, p_queries>> /\ Silent

(* The columns before the first that is too large have been absorbed.      *)
InstanceTooLarge ==
    /\ ProverAt("instances") /\ ~InvalidInstances
    /\ \E i \in DOMAIN statement.instances :
          /\ TooLarge(statement.instances[i])
          /\ \A j \in 1 .. i - 1 : ~TooLarge(statement.instances[j])
          /\ p_log' = <<<<"vk">>>> \o
                 InstanceItems([statement EXCEPT !.instances = SubSeq(@, 1, i - 1)])
    /\ p_pc' = "refused"
    /\ UNCHANGED <<proof, p_queries>> /\ Silent

ParseAdvices == /\ ProverAt("advice")
                /\ Write(Labels("Advice", NumAdvice) \o Challenges(<<"theta">>), "multiplicities")
                /\ UNCHANGED p_queries

WriteMultiplicities ==
    /\ ProverAt("multiplicities")
    /\ Write(Labels("LogupMultiplicities", NumLookups)
                 \o Challenges(<<"beta", "gamma", "trash_challenge">>), "arguments")
    /\ UNCHANGED p_queries

PermutationChunks == Cardinality({(i - 1) \div ChunkLen : i \in DOMAIN cs.permutation})

ArgumentCommitments(trash) ==
    Labels("PermutationAccumulator", PermutationChunks) \o LogupCommitments \o trash

WriteArguments ==
    /\ ProverAt("arguments") /\ Len(cs.trashcans) <= 1
    /\ Write(ArgumentCommitments(Labels("Trash", Len(cs.trashcans))) \o Challenges(<<"y">>),
             "quotient")
    /\ UNCHANGED p_queries

(* The trash polynomials are committed to together, and a commitment to    *)
(* more than one polynomial panics when it is absorbed.                    *)
HashingPanics ==
    /\ ProverAt("arguments") /\ Len(cs.trashcans) > 1
    /\ Write(ArgumentCommitments(<<>>), "panicked")
    /\ UNCHANGED p_queries

WriteQuotient == /\ ProverAt("quotient")
                 /\ Write(Labels("Quotient", NumQuotients) \o Challenges(<<"x">>), "evals")
                 /\ UNCHANGED p_queries

CommittedQueries(committed) ==
    Chosen(cs.queries["instance"], {q \in ToSet(cs.queries["instance"]) : q[1] < committed})
OpenedFixedQueries == Chosen(cs.queries["fixed"], {q \in ToSet(cs.queries["fixed"]) : IsOpened(q)})

PermutationEvals(i) == LET acc == Label("PermutationAccumulator", i)
                       IN  <<Eval(acc, 0), Eval(acc, 1)>>
                               \o (IF i < PermutationChunks THEN <<Eval(acc, XLast)>> ELSE <<>>)

WriteEvals ==
    /\ ProverAt("evals")
    /\ Write(EvalsOf("CommittedInstance", CommittedQueries(statement.committed))
                 \o EvalsOf("Advice", cs.queries["advice"])
                 \o EvalsOf("Fixed", OpenedFixedQueries)
                 \o [i \in DOMAIN cs.permutation |-> Eval(Label("PermutationFixed", i), 0)]
                 \o FlattenSeq([i \in 1 .. PermutationChunks |-> PermutationEvals(i)])
                 \o ToEvals(LookupQueries)
                 \o [i \in DOMAIN cs.trashcans |-> Eval(Label("Trash", i), 0)], "opening")
    /\ UNCHANGED p_queries

QueriesOf(kind, queries) == [i \in DOMAIN queries |-> <<<<kind, queries[i][1]>>, queries[i][2]>>]

(* Argument::open: every accumulator at x and x_next, then, from the last  *)
(* but one down, at x_last.                                                *)
AccumulatorQueries(n) ==
    FlattenSeq([i \in 1 .. n |-> <<<<Label("PermutationAccumulator", i), 0>>,
                                   <<Label("PermutationAccumulator", i), 1>>>>])
        \o [i \in 1 .. Largest({n - 1, 0}) |-> <<Label("PermutationAccumulator", n - i), XLast>>]

ComputeQueries ==
    QueriesOf("Advice", cs.queries["advice"])
        \o QueriesOf("CommittedInstance", CommittedQueries(statement.committed))
        \o AccumulatorQueries(PermutationChunks)
        \o LookupQueries
        \o [i \in DOMAIN cs.trashcans |-> <<Label("Trash", i), 0>>]
        \o QueriesOf("Fixed", OpenedFixedQueries)
        \o [i \in DOMAIN cs.permutation |-> <<Label("PermutationFixed", i), 0>>]
        \o <<<<Linearization, 0>>>>

(* The identities find the evaluations of a cell by the index of its query.*)
IdentitiesPanic == \E cell \in CellsIn(TrashPolynomials(cs)) : cell.index = Unresolved

(* compute_dummy_queries panics on a duplicated query; without it,         *)
(* construct_intermediate_sets returns an error, x1 and x2 being drawn.    *)
OpeningPanics(queries) == "fewer-point-sets" \in features /\ DuplicatedQuery(queries)

MultiOpen ==
    /\ ProverAt("opening") /\ ~IdentitiesPanic /\ ~OpeningPanics(ComputeQueries)
    /\ LET queries == ComputeQueries
           dummies == DummyQueries(queries)
           all     == queries \o dummies
       IN  /\ p_queries' = all
           /\ IF DuplicatedQuery(all)
              THEN Write(Challenges(<<"x1", "x2">>), "refused")
              ELSE Write(ToEvals(dummies) \o Opening(all), "done")

ProverPanics == /\ ProverAt("opening") /\ (IdentitiesPanic \/ OpeningPanics(ComputeQueries))
                /\ p_pc' = "panicked"
                /\ UNCHANGED <<p_log, proof, p_queries>> /\ Silent
-----------------------------------------------------------------------------
(* The proof reaches a verifier whole, cut short, or with a byte too many, *)
(* to be verified against what was proved or against something else.       *)
Deliver ==
    /\ p_pc = "done" /\ v_pc = "waiting"
    /\ \/ claim' = ClaimOf(statement) /\ received' \in {proof, Front(proof), Append(proof, <<"byte">>)}
       \/ claim' \in {ClaimOf(s) : s \in Statements} /\ received' = proof
    /\ v_pc' = "instances"
    /\ UNCHANGED <<csVars, proverVars, v_log, position, taken, v_queries>>

(* The verifier: prepare, then a caller that asserts the transcript empty. *)
VerifierAt(at) == v_pc = at

Hear(t, x) ==
    IF t.short THEN t
    ELSE IF IsChallenge(x) THEN [t EXCEPT !.log = Append(@, x)]
    ELSE IF t.at = Len(received) THEN [t EXCEPT !.short = TRUE]
    ELSE [t EXCEPT !.log = Append(@, received[t.at + 1]), !.at = @ + 1,
                   !.taken = Append(@, <<x, received[t.at + 1]>>)]

Heard(items) ==
    LET h[n \in 0 .. Len(items)] ==
            IF n = 0 THEN [log |-> v_log, at |-> position, taken |-> taken, short |-> FALSE]
            ELSE Hear(h[n - 1], items[n])
    IN  h[Len(items)]

Deaf == UNCHANGED <<csVars, proverVars, claim, received>>

(* Read the items, or fail at the first that is missing.                   *)
Read(items, next) == LET t == Heard(items)
                     IN  /\ v_log' = t.log /\ position' = t.at /\ taken' = t.taken
                         /\ v_pc' = IF t.short THEN "rejected" ELSE next
                         /\ Deaf

AbsorbClaim ==
    /\ VerifierAt("instances")
    /\ IF Len(claim.commitments) + Len(claim.instances) # NumInstance
       THEN v_pc' = "rejected" /\ UNCHANGED v_log
       ELSE /\ v_log' = <<<<"vk">>>> \o claim.commitments
                           \o FlattenSeq([i \in DOMAIN claim.instances |->
                                             AbsorbColumn(claim.instances[i])])
            /\ v_pc' = "advice"
    /\ UNCHANGED <<position, taken, v_queries>> /\ Deaf

ReadAdvices == /\ VerifierAt("advice")
               /\ Read(Labels("Advice", NumAdvice) \o Challenges(<<"theta">>), "multiplicities")
               /\ UNCHANGED v_queries

ReadMultiplicities ==
    /\ VerifierAt("multiplicities")
    /\ Read(Labels("LogupMultiplicities", NumLookups)
                \o Challenges(<<"beta", "gamma", "trash_challenge">>), "arguments")
    /\ UNCHANGED v_queries

MutNumAccumulators == Len(cs.permutation) \div ChunkLen
NumAccumulators == CeilDiv(Len(cs.permutation), ChunkLen)
TrashLabel(t)   == <<"Trash", t.argument_index>>

ReadArguments ==
    /\ VerifierAt("arguments")
    /\ Read(Labels("PermutationAccumulator", NumAccumulators) \o LogupCommitments
                \o [i \in DOMAIN cs.trashcans |-> TrashLabel(cs.trashcans[i])]
                \o Challenges(<<"y">>), "quotient")
    /\ UNCHANGED v_queries

ReadQuotient == /\ VerifierAt("quotient")
                /\ Read(Labels("Quotient", NumQuotients) \o Challenges(<<"x">>), "evals")
                /\ UNCHANGED v_queries

(* One evaluation is read per fixed query but those of simple selectors,   *)
(* then a place is made for each of these: fixed_evals.insert(idx, ONE).   *)
NumFixedEvals == Len(cs.queries["fixed"])
                     - Cardinality({i \in DOMAIN cs.selector_flags : cs.selector_flags[i].simple})
One == 0
MakePlace(slots, i) ==
    IF IsOpened(cs.queries["fixed"][i]) THEN slots ELSE InsertAt(slots, i, One)
SlotsOf(n) ==
    LET slots[i \in 0 .. Len(cs.queries["fixed"])] ==
            IF i = 0 THEN [j \in 1 .. n |-> j] ELSE MakePlace(slots[i - 1], i)
    IN  slots[Len(cs.queries["fixed"])]
FixedSlots == SlotsOf(NumFixedEvals)
MutFixedTakenFor(j) == Eval(<<"Fixed", cs.queries["fixed"][j][1]>>, cs.queries["fixed"][j][2])
FixedTakenFor(j) == LET q == cs.queries["fixed"][Position(FixedSlots, j)]
                    IN  Eval(<<"Fixed", q[1]>>, q[2])

(* The last evaluation is there unless no accumulator is left.             *)
ReadAccumulator(i) == <<Eval(Label("PermutationAccumulator", i), 0),
                        Eval(Label("PermutationAccumulator", i), 1)>>
                          \o (IF NumAccumulators - i > 0
                              THEN <<Eval(Label("PermutationAccumulator", i), XLast)>> ELSE <<>>)

TrashEvals == [i \in DOMAIN cs.trashcans |-> Eval(TrashLabel(cs.trashcans[i]), 0)]

ReadEvals ==
    /\ VerifierAt("evals")
    /\ Read(EvalsOf("CommittedInstance", CommittedQueries(Len(claim.commitments)))
                \o EvalsOf("Advice", cs.queries["advice"])
                \o [j \in 1 .. NumFixedEvals |-> FixedTakenFor(j)]
                \o [i \in DOMAIN cs.permutation |-> Eval(Label("PermutationFixed", i), 0)]
                \o FlattenSeq([i \in 1 .. NumAccumulators |-> ReadAccumulator(i)])
                \o ToEvals(LookupQueries)
                \o TrashEvals, "opening")
    /\ UNCHANGED v_queries

VerifierQueries ==
    QueriesOf("Advice", cs.queries["advice"])
        \o QueriesOf("CommittedInstance", CommittedQueries(Len(claim.commitments)))
        \o AccumulatorQueries(NumAccumulators)
        \o LookupQueries
        \o [i \in DOMAIN TrashEvals |-> <<TrashEvals[i][2], TrashEvals[i][3]>>]
        \o QueriesOf("Fixed", OpenedFixedQueries)
        \o [i \in DOMAIN cs.permutation |-> <<Label("PermutationFixed", i), 0>>]
        \o <<<<Linearization, 0>>>>

MultiPrepare ==
    /\ VerifierAt("opening") /\ ~OpeningPanics(VerifierQueries)
    /\ LET queries == VerifierQueries
           dummies == DummyQueries(queries)
           all     == queries \o dummies
       IN  /\ v_queries' = all
           /\ IF DuplicatedQuery(all)
              THEN Read(Challenges(<<"x1", "x2">>), "rejected")
              ELSE Read(ToEvals(dummies) \o Opening(all), "prepared")

VerifierPanics == /\ VerifierAt("opening") /\ OpeningPanics(VerifierQueries)
                  /\ v_pc' = "panicked"
                  /\ UNCHANGED <<v_log, position, taken, v_queries>> /\ Deaf

AssertEmpty == /\ VerifierAt("prepared")
               /\ v_pc' = IF position = Len(received) THEN "complete" ELSE "rejected"
               /\ UNCHANGED <<v_log, position, taken, v_queries>> /\ Deaf
-----------------------------------------------------------------------------
Next == \/ NextConfiguration /\ UNCHANGED <<proverVars, verifierVars>>
        \/ ComputeInstances \/ InvalidInstancesError \/ InstanceTooLarge
        \/ ParseAdvices \/ WriteMultiplicities \/ WriteArguments \/ HashingPanics
        \/ WriteQuotient \/ WriteEvals \/ MultiOpen \/ ProverPanics
        \/ Deliver
        \/ AbsorbClaim \/ ReadAdvices \/ ReadMultiplicities \/ ReadArguments \/ ReadQuotient
        \/ ReadEvals \/ MultiPrepare \/ VerifierPanics \/ AssertEmpty

Spec == Init /\ [][Next]_vars
-----------------------------------------------------------------------------
Faithful == claim = ClaimOf(statement) /\ received = proof

(* What was written is what was absorbed after the instances, challenges   *)
(* apart, and what was taken is what was read (CircuitTranscript).         *)
TranscriptTypeOK ==
    /\ p_pc \in {"instances", "advice", "multiplicities", "arguments", "quotient", "evals",
                 "opening", "done", "refused", "panicked"}
    /\ v_pc \in {"waiting", "instances", "advice", "multiplicities", "arguments", "quotient",
                 "evals", "opening", "prepared", "complete", "rejected", "panicked"}
    /\ IsSuffix(proof, Written(p_log))
    /\ position = Len(taken) /\ position <= Len(received)
    /\ position = 0 \/ v_log # <<>>

(* The verifier of a proof that reached it whole, for the same instances,  *)
(* absorbs what the prover absorbed and squeezes when it squeezed: it has  *)
(* the same challenges (parse_trace, verify_algebraic_constraints).        *)
SameChallenges == v_pc # "waiting" /\ Faithful => IsPrefix(v_log, p_log)

(* And it takes every item for what it is: each commitment for that of its *)
(* polynomial, each evaluation for that of its polynomial at its rotation, *)
(* the fixed ones past the places left to simple selectors.                *)
ReadForWhatItIs == Faithful => \A i \in DOMAIN taken : taken[i][1] = taken[i][2]

(* Both: the verifier hears what the prover said (parse_trace).            *)
TranscriptsAgree == SameChallenges /\ ReadForWhatItIs

(* Such a proof is prepared, from the queries the prover answered, and read*)
(* to its end; and of the proofs of these instances callers accept no      *)
(* other, neither one cut short nor one followed by bytes (assert_empty).  *)
FaithfulProofsPass ==
    /\ Faithful => /\ v_pc \notin {"rejected", "panicked"}
                   /\ v_pc \in {"prepared", "complete"} => /\ v_queries = p_queries
                                                           /\ position = Len(received)
    /\ v_pc = "complete" /\ claim = ClaimOf(statement) => received = proof

(* The challenges commit to the instances: once a challenge is drawn, logs *)
(* of different instances differ, whichever columns are committed and how  *)
(* values are shared out among the columns.                                *)
ChallengesBindInstances ==
    v_pc \notin {"waiting", "instances", "advice", "rejected", "panicked"}
        /\ claim # ClaimOf(statement)
        => ~IsPrefix(v_log, p_log)

(* The points a polynomial is opened at are distinct, the one of the last  *)
(* usable row among them, however few rows are left to the circuit: no     *)
(* query is duplicated but that of a circuit whose own rotations differ by *)
(* a multiple of the rows (minimum_rows, compute_queries).                 *)
RotationsCollide == \E kind \in Kinds : \E q, r \in ToSet(cs.queries[kind]) :
                        q[1] = r[1] /\ q[2] # r[2] /\ Point(q[2]) = Point(r[2])

QueriesAreDistinct == DuplicatedQuery(p_queries) => RotationsCollide
=============================================================================
