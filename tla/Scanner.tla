------------------------------ MODULE Scanner -------------------------------
(***************************************************************************)
(* The scanner chip (circuits/src/parsing/scanner/): inputs run through    *)
(* automata by lookups, and substring checks that are put off until the    *)
(* end of synthesis.                                                       *)
(*                                                                         *)
(* Cells have values in the field of Prime elements.  A request is what a  *)
(* circuit asks of the chip, with the values its inputs have; what the     *)
(* prover may put in the other cells is searched.                          *)
(***************************************************************************)
EXTENDS Integers, FiniteSets, Sequences, SequencesExt

(***************************************************************************)
(* Regexes with outputs and their automata (circuits/src/parsing/scanner/  *)
(* regex.rs), against the words they denote.                               *)
(*                                                                         *)
(* A behaviour builds one regex, by one call of RegexInstructions after    *)
(* the other.                                                              *)
(***************************************************************************)

(***************************************************************************)
(* Automata over letters with outputs: the constructions that a regex is   *)
(* translated with (circuits/src/parsing/scanner/automaton.rs).            *)
(*                                                                         *)
(* A letter is <<char, output>>.  An automaton has the fields of           *)
(* RawAutomaton; its states are 0 .. nb_states - 1, and its transitions    *)
(* the set of <<source, letter, target>>, whose order and repetitions only *)
(* move the numbers of states.                                             *)
(***************************************************************************)

CONSTANT AlphabetSize       \* bytes are 0 .. AlphabetSize - 1, 256 of them in the code

ASSUME AlphabetAssumption == AlphabetSize \in Nat \ {0}

Chars     == 0 .. AlphabetSize - 1
States(a) == 0 .. a.nb_states - 1

Listed(S) == FoldSet(LAMBDA x, list : Append(list, x), <<>>, S)

RECURSIVE Closure(_, _)
Closure(states, edges) ==
    LET new == {e[2] : e \in {f \in edges : f[1] \in states}} \ states
    IN  IF new = {} THEN states ELSE Closure(states \union new, edges)
-----------------------------------------------------------------------------
Empty   == [deterministic |-> TRUE, complete |-> FALSE, initial_state |-> 0, nb_states |-> 1,
            final_states |-> {}, transitions |-> {}, outputs |-> {}]
Epsilon == [Empty EXCEPT !.final_states = {0}]

ByteConcat(word) ==
    LET letters(i) == {letter \in word[i] : letter[1] < AlphabetSize}
    IN  [Empty EXCEPT
           !.nb_states    = Len(word) + 1,
           !.final_states = {Len(word)},
           !.transitions  = UNION {{<<i - 1, letter, i>> : letter \in letters(i)} :
                                   i \in 1 .. Len(word)},
           !.outputs      = UNION {{letter[2] : letter \in letters(i)} : i \in 1 .. Len(word)}]

Universal == [Empty EXCEPT !.complete = TRUE, !.final_states = {0},
                           !.transitions = {<<0, <<b, 0>>, 0>> : b \in Chars}]

MutLoopOnInitial(a) == FALSE

LoopOnInitial(a)     == \E t \in a.transitions : t[3] = a.initial_state
NothingAfterFinal(a) == \A t \in a.transitions : t[1] \notin a.final_states

MakeOptional(a) ==
    IF a.initial_state \in a.final_states THEN a
    ELSE IF ~LoopOnInitial(a) THEN [a EXCEPT !.final_states = @ \union {a.initial_state}]
    ELSE [a EXCEPT !.initial_state = a.nb_states,
                   !.nb_states     = @ + 1,
                   !.final_states  = @ \union {a.nb_states},
                   !.transitions   = @ \union {<<a.nb_states, t[2], t[3]>> :
                                       t \in {u \in @ : u[1] = a.initial_state}}]
-----------------------------------------------------------------------------
LiveStates(a) ==
    LET reachable == Closure({a.initial_state}, {<<t[1], t[3]>> : t \in a.transitions})
        backward  == {<<t[3], t[1]>> : t \in {u \in a.transitions : u[1] \in reachable}}
    IN  Closure(a.final_states \intersect reachable, backward)

(* filter_map_transitions, with the renaming that numbers what is kept.    *)
Keep(a, kept) ==
    LET name  == [s \in kept |-> Cardinality({r \in kept : r < s})]
        among == {t \in a.transitions : t[1] \in kept /\ t[3] \in kept}
    IN  [a EXCEPT !.nb_states     = Cardinality(kept),
                  !.initial_state = name[@],
                  !.final_states  = {name[s] : s \in @ \intersect kept},
                  !.transitions   = {<<name[t[1]], t[2], name[t[3]]>> : t \in among},
                  !.outputs       = {t[2][2] : t \in among}]

RemoveDeadStates(a) == IF LiveStates(a) = {} THEN Empty
                       ELSE [Keep(a, LiveStates(a)) EXCEPT !.complete = FALSE]

CheckDeterminism(a) ==
    [a EXCEPT !.deterministic =
        @ \/ \A t, u \in a.transitions : t[1] = u[1] /\ t[2] = u[2] => t = u]
-----------------------------------------------------------------------------
(* The states reached are sets of states; the first is that of initials.   *)
Post(a, set, letter) == {t[3] : t \in {u \in a.transitions : u[1] \in set /\ u[2] = letter}}
LettersFrom(a, set, completion) ==
    IF completion THEN Chars \X a.outputs
    ELSE {t[2] : t \in {u \in a.transitions : u[1] \in set}}

RECURSIVE Visited(_, _, _, _)
Visited(a, pending, visited, completion) ==
    IF pending = {} THEN visited
    ELSE LET set  == CHOOSE s \in pending : TRUE
             next == {Post(a, set, letter) : letter \in LettersFrom(a, set, completion)}
         IN  Visited(a, (pending \union next) \ (visited \union {set}), visited \union {set},
                     completion)

PowersetConstruction(a, initials, completion) ==
    LET power == Visited(a, {initials}, {}, completion)
        order == <<initials>> \o Listed(power \ {initials})
        name  == [set \in power |-> (CHOOSE i \in DOMAIN order : order[i] = set) - 1]
    IN  [a EXCEPT
           !.deterministic = TRUE,
           !.complete      = @ \/ completion,
           !.initial_state = 0,
           !.nb_states     = Cardinality(power),
           !.final_states  = {name[set] : set \in {s \in power : s \intersect @ # {}}},
           !.transitions   = UNION {{<<name[set], letter, name[Post(a, set, letter)]>> :
                                       letter \in LettersFrom(a, set, completion)} : set \in power}]

Determinise(a, completion) ==
    IF a.deterministic /\ (completion => a.complete) THEN a
    ELSE PowersetConstruction(a, {a.initial_state}, completion)

(* A copy of a with its states from nb on.                                 *)
Shift(a, nb) == [a EXCEPT !.initial_state = @ + nb,
                          !.final_states  = {s + nb : s \in @},
                          !.transitions   = {<<t[1] + nb, t[2], t[3] + nb>> : t \in @},
                          !.outputs       = {t[2][2] : t \in a.transitions}]

Union(automata) ==
    LET Add(acc, a) ==
            LET b == Shift(a, acc.all.nb_states)
            IN  [all      |-> [acc.all EXCEPT !.nb_states    = @ + a.nb_states,
                                              !.final_states = @ \union b.final_states,
                                              !.transitions  = @ \union b.transitions,
                                              !.outputs      = @ \union b.outputs],
                 initials |-> acc.initials \union {b.initial_state}]
        sum == FoldLeft(Add, [all |-> Empty, initials |-> {}], automata)
    IN  IF Len(automata) = 1 THEN automata[1]
        ELSE PowersetConstruction(sum.all, sum.initials, FALSE)

(* Last to first: the language of a is put before what there is already.   *)
Precede(a, acc) ==
    LET rest == acc.all
        b    == Shift(a, rest.nb_states)
        link == {<<s, t[2], t[3]>> : s \in b.final_states,
                                     t \in {u \in rest.transitions : u[1] = rest.initial_state}}
        grown == [rest EXCEPT !.initial_state = b.initial_state,
                              !.nb_states     = @ + a.nb_states]
    IN  IF NothingAfterFinal(a)
        THEN [all     |-> [grown EXCEPT !.transitions = @ \union
                             {<<t[1], t[2], IF t[3] \in b.final_states THEN rest.initial_state
                                            ELSE t[3]>> : t \in b.transitions}],
              loop    |-> LoopOnInitial(a),
              garbage |-> acc.garbage \union
                             {t[3] : t \in {u \in b.transitions : u[3] \in b.final_states}}]
        ELSE [all     |-> [grown EXCEPT
                             !.transitions  = @ \union b.transitions \union link,
                             !.final_states = IF rest.initial_state \in @
                                              THEN @ \union b.final_states ELSE @],
              loop    |-> LoopOnInitial(a),
              garbage |-> acc.garbage \union (IF acc.loop THEN {} ELSE {rest.initial_state})]

Concat(automata) ==
    LET all == FoldRight(Precede, automata, [all |-> Epsilon, loop |-> FALSE, garbage |-> {}])
    IN  CheckDeterminism([Keep(all.all, States(all.all) \ all.garbage) EXCEPT
            !.deterministic = FALSE,
            !.complete      = \A i \in DOMAIN automata : automata[i].complete])

(* Letters of two automata agree when they are the same byte and one of    *)
(* the outputs is 0 or both are the same.                                  *)
Unify(x, y) == IF x[1] = y[1] /\ (x[2] = y[2] \/ x[2] = 0 \/ y[2] = 0)
               THEN {<<x[1], IF x[2] > y[2] THEN x[2] ELSE y[2]>>} ELSE {}

Inter(a, b) ==
    LET pair(s, t) == s * b.nb_states + t
        joins == UNION {{[from  |-> pair(t[1], u[1]), letter |-> letter, to |-> pair(t[3], u[3]),
                          mixed |-> t[2][2] # u[2][2]] : letter \in Unify(t[2], u[2])} :
                        t \in a.transitions, u \in b.transitions}
        start   == pair(a.initial_state, b.initial_state)
        visited == Closure({start}, {<<j.from, j.to>> : j \in joins})
        used    == {j \in joins : j.from \in visited}
        product == [deterministic |-> a.deterministic /\ b.deterministic /\ \A j \in used : ~j.mixed,
                    complete      |-> a.complete /\ b.complete /\ \A j \in used : ~j.mixed,
                    initial_state |-> start,
                    nb_states     |-> a.nb_states * b.nb_states,
                    final_states  |-> {pair(s, t) : s \in a.final_states, t \in b.final_states},
                    transitions   |-> {<<j.from, j.letter, j.to>> : j \in used},
                    outputs       |-> {j.letter[2] : j \in used}]
    IN  CheckDeterminism(RemoveDeadStates(Keep(product, visited)))
-----------------------------------------------------------------------------
Complement(a) == RemoveDeadStates([a EXCEPT !.final_states = States(a) \ @])

StrictRepeat(a) ==
    CheckDeterminism([a EXCEPT
        !.deterministic = FALSE,
        !.transitions   = @ \union {<<s, t[2], t[3]>> : s \in a.final_states,
                                       t \in {u \in @ : u[1] = a.initial_state}}])

RedirectFinalToInitial(a) ==
    LET back == [a EXCEPT
                   !.transitions  = {<<t[1], t[2], IF t[3] \in a.final_states
                                                   THEN a.initial_state ELSE t[3]>> : t \in @},
                   !.final_states = {a.initial_state}]
    IN  Keep(back, (States(a) \ a.final_states) \union {a.initial_state})

(* The guard holds of an automaton of the empty word alone, whose single   *)
(* state is then counted out: the code goes on with a table of no states.  *)
WeakRepeat(a) ==
    IF NothingAfterFinal(a) /\ (~LoopOnInitial(a) \/ a.initial_state \in a.final_states)
    THEN RedirectFinalToInitial(a)
    ELSE MakeOptional(StrictRepeat(a))
-----------------------------------------------------------------------------
(* Hopcroft's refinement: a class that a distinguisher splits becomes two, *)
(* and so does the distinguisher it may be itself.                         *)
RECURSIVE NerodeCongruence(_, _, _)
NerodeCongruence(a, partition, distinguishers) ==
    IF distinguishers = {} THEN partition
    ELSE LET dist  == CHOOSE d \in distinguishers : TRUE
             Pred(letter) == {t[1] : t \in {u \in a.transitions : u[2] = letter /\ u[3] \in dist}}
             Split(acc, pred) ==
                 LET cut   == {c \in acc.classes : c \intersect pred # {} /\ c \ pred # {}}
                     parts(c) == {c \intersect pred, c \ pred}
                     smaller(c) == IF Cardinality(c \intersect pred) <= Cardinality(c \ pred)
                                   THEN {c \intersect pred} ELSE {c \ pred}
                 IN  [classes |-> (acc.classes \ cut) \union UNION {parts(c) : c \in cut},
                      dists   |-> (acc.dists \ cut) \union
                                  UNION {IF c \in acc.dists THEN parts(c) ELSE smaller(c) : c \in cut}]
             preds == {Pred(letter) : letter \in Chars \X a.outputs}
             done  == FoldLeft(Split, [classes |-> partition, dists |-> distinguishers \ {dist}],
                               Listed(preds))
         IN  NerodeCongruence(a, done.classes, done.dists)

Minimise(a) ==
    LET halves    == {a.final_states, States(a) \ a.final_states} \ {{}}
        partition == NerodeCongruence(a, halves, halves)
        order     == Listed(partition)
        name      == [s \in States(a) |-> (CHOOSE i \in DOMAIN order : s \in order[i]) - 1]
    IN  [a EXCEPT !.deterministic = TRUE,
                  !.nb_states     = Cardinality(partition),
                  !.initial_state = name[@],
                  !.final_states  = {name[s] : s \in @},
                  !.transitions   = {<<name[t[1]], t[2], name[t[3]]>> : t \in @}]

(* An Automaton has one transition per byte: it is an error of the regex   *)
(* if there are two, with different outputs.                               *)
Normalise(a)  == Minimise(Determinise(a, FALSE))
Ambiguous(a)  == \E t, u \in a.transitions : t[1] = u[1] /\ t[2][1] = u[2][1] /\ t # u

MutOffsetStates(a, offset) == a

OffsetStates(a, offset) == [Shift(a, offset) EXCEPT !.nb_states = @ + offset]

CONSTANTS Bytes,            \* sets of letters that calls begin with
          Outputs,          \* outputs given to letters, 0 among them
          MaxWord,          \* bound: words compared
          MaxCalls          \* bound: calls that build a regex

VARIABLES regex, regexCalls

regexVars == <<regex, regexCalls>>
-----------------------------------------------------------------------------
(* RegexInternal.                                                          *)
Single(bytes)   == [op |-> "Single", bytes |-> bytes]
Cat(l)          == [op |-> "Concat", args |-> l]
UnionOf(l)      == [op |-> "Union", args |-> l]
InterOf(l)      == [op |-> "Inter", args |-> l]
Star(strict, r) == [op |-> "Star", strict |-> strict, args |-> <<r>>]
NegOf(r)        == [op |-> "Complement", args |-> <<r>>]

RECURSIVE ContainsOutputs(_), MapLetters(_, _)
ContainsOutputs(r) ==
    IF r.op = "Single" THEN \E letter \in r.bytes : letter[2] # 0
    ELSE \E i \in DOMAIN r.args : ContainsOutputs(r.args[i])
MapLetters(r, f) ==
    IF r.op = "Single" THEN [r EXCEPT !.bytes = {f[letter] : letter \in @}]
    ELSE [r EXCEPT !.args = [i \in DOMAIN @ |-> MapLetters(@[i], f)]]

(* RegexInstructions.                                                      *)
Epsilon0                  == Cat(<<>>)
Or(r, s)                  == UnionOf(<<r, s>>)
And(r, s)                 == InterOf(<<r, s>>)
Minus(r, s)               == And(r, NegOf(s))
Optional(r)               == Or(r, Epsilon0)
Terminated(r, s)          == Cat(<<r, s>>)
NonEmptyList(r)           == Star(TRUE, r)
List(r)                   == Or(NonEmptyList(r), Epsilon0)
Delimited(r, open, close) == Cat(<<open, r, close>>)
SeparatedNonEmptyList(r, sep) == Terminated(r, List(Terminated(sep, r)))
SeparatedList(r, sep)     == Or(Epsilon0, SeparatedNonEmptyList(r, sep))
SeparatedCat(l, sep)      == IF l = <<>> THEN Epsilon0
                             ELSE FoldLeft(LAMBDA acc, r : Cat(<<acc, sep, r>>), Head(l), Tail(l))
Repeat(r, n)              == Cat([i \in 1 .. n |-> r])
SeparatedRepeat(r, n, sep) == SeparatedCat([i \in 1 .. n |-> r], sep)
RepeatAtMost(r, n)        == UnionOf([i \in 1 .. n + 1 |-> Repeat(r, i - 1)])
SeparatedRepeatAtMost(r, n, sep) ==
    UnionOf([i \in 1 .. n + 1 |-> SeparatedRepeat(r, i - 1, sep)])
OutputBytes(r, bytes, output) ==
    MapLetters(r, [letter \in Chars \X Outputs |->
                      IF letter[1] \in bytes THEN <<letter[1], output>> ELSE letter])
ReplaceOutputs(r, old, new) ==
    MapLetters(r, [letter \in Chars \X Outputs |->
                      IF letter[2] = old THEN <<letter[1], new>> ELSE letter])
-----------------------------------------------------------------------------
(* The elements of a union or concatenation, the nested ones in place.     *)
RECURSIVE Flattened(_, _)
Flattened(op, pending) ==
    IF pending = <<>> THEN <<>>
    ELSE IF Last(pending).op = op /\ Last(pending).args # <<>>
         THEN Flattened(op, Front(pending) \o Last(pending).args)
         ELSE <<Last(pending)>> \o Flattened(op, Front(pending))

RECURSIVE ToRawAutomaton(_)

FlattenUnion(l) ==
    LET flat    == SelectSeq(Flattened("Union", l), LAMBDA r : r # UnionOf(<<>>))
        singles == UNION {r.bytes : r \in {s \in ToSet(flat) : s.op = "Single"}}
        others  == SelectSeq(flat, LAMBDA r : r.op # "Single" /\ r # Epsilon0)
                       \o (IF singles = {} THEN <<>> ELSE <<Single(singles)>>)
        stars   == {i \in DOMAIN others : others[i].op = "Star"}
        relaxed == [i \in DOMAIN others |-> IF i \in stars THEN Star(FALSE, others[i].args[1])
                                            ELSE others[i]]
        raw(rs) == [i \in DOMAIN rs |-> ToRawAutomaton(rs[i])]
    IN  IF Epsilon0 \notin ToSet(flat) THEN raw(others)
        ELSE IF stars # {} THEN raw(relaxed)
        ELSE IF others = <<>> THEN <<Epsilon>>
        ELSE raw(Front(others)) \o <<MakeOptional(ToRawAutomaton(Last(others)))>>

FlattenConcat(l) ==
    LET flat == Reverse(SelectSeq(Flattened("Concat", l), LAMBDA r : r # Epsilon0))
        Group(groups, r) ==           \* adjacent Singles make one automaton
            IF r.op = "Single" /\ groups # <<>> /\ Last(groups).op = "word"
            THEN Front(groups) \o <<[op |-> "word", bytes |-> Append(Last(groups).bytes, r.bytes)]>>
            ELSE Append(groups, IF r.op = "Single" THEN [op |-> "word", bytes |-> <<r.bytes>>]
                                ELSE r)
        groups == FoldLeft(Group, <<>>, flat)
    IN  [i \in DOMAIN groups |-> IF groups[i].op = "word" THEN ByteConcat(groups[i].bytes)
                                 ELSE ToRawAutomaton(groups[i])]

ToRawAutomaton(r) ==
    CASE r.op = "Single" -> ByteConcat(<<r.bytes>>)
      [] r.op = "Concat" -> Concat(FlattenConcat(r.args))
      [] r.op = "Union"  -> Union(FlattenUnion(r.args))
      [] r.op = "Inter"  -> FoldLeft(LAMBDA acc, s : Inter(acc, ToRawAutomaton(s)), Universal, r.args)
      [] r.op = "Star"   -> LET a == ToRawAutomaton(r.args[1])
                            IN  IF r.strict THEN StrictRepeat(a) ELSE WeakRepeat(a)
      [] r.op = "Complement" ->
             IF r.args[1].op = "Complement" THEN ToRawAutomaton(r.args[1].args[1])
             ELSE Complement(Determinise(ToRawAutomaton(r.args[1]), TRUE))

ToAutomaton(r) == Normalise(ToRawAutomaton(r))
-----------------------------------------------------------------------------
(* The words of at most n letters that a regex denotes.                    *)
Joined(ls, ms, n) == {w[1] \o w[2] : w \in {v \in ls \X ms : Len(v[1]) + Len(v[2]) <= n}}
WordsOver(letters, n) == UNION {[1 .. k -> letters] : k \in 0 .. n}
Unified(v, w) == IF Len(v) # Len(w) \/ \E i \in DOMAIN v : Unify(v[i], w[i]) = {} THEN {}
                 ELSE {[i \in DOMAIN v |-> CHOOSE letter \in Unify(v[i], w[i]) : TRUE]}

RECURSIVE Iterated(_, _, _), Denoted(_, _)
Iterated(ls, acc, n) == LET more == acc \union Joined(acc, ls, n)
                        IN  IF more = acc THEN acc ELSE Iterated(ls, more, n)
Denoted(r, n) ==
    CASE r.op = "Single" -> {<<letter>> : letter \in r.bytes}
      [] r.op = "Concat" -> FoldLeft(LAMBDA acc, s : Joined(acc, Denoted(s, n), n), {<<>>}, r.args)
      [] r.op = "Union"  -> UNION {Denoted(r.args[i], n) : i \in DOMAIN r.args}
      [] r.op = "Inter"  -> FoldLeft(LAMBDA acc, s : UNION {Unified(v, w) : v \in acc, w \in Denoted(s, n)},
                                     WordsOver(Chars \X {0}, n), r.args)
      [] r.op = "Star"   -> Iterated(Denoted(r.args[1], n),
                                     IF r.strict THEN Denoted(r.args[1], n) ELSE {<<>>}, n)
      [] r.op = "Complement" -> WordsOver(Chars \X {0}, n) \ Denoted(r.args[1], n)

(* The words of at most n letters that lead from a state to a final one.   *)
RECURSIVE Accepted(_, _, _)
Accepted(a, state, n) ==
    (IF state \in a.final_states THEN {<<>>} ELSE {})
    \union (IF n = 0 THEN {}
            ELSE UNION {{<<t[2]>> \o w : w \in Accepted(a, t[3], n - 1)} :
                        t \in {u \in a.transitions : u[1] = state}})

(* The pairs of states that some word tells apart.                         *)
RECURSIVE Apart(_, _)
Apart(a, pairs) ==
    LET Next(s, letter) == {t[3] : t \in {u \in a.transitions : u[1] = s /\ u[2] = letter}}
        now == {p \in States(a) \X States(a) :
                  \/ (p[1] \in a.final_states) # (p[2] \in a.final_states)
                  \/ \E letter \in Chars \X a.outputs :
                       LET n == Next(p[1], letter) \X Next(p[2], letter)
                       IN  IF n = {} THEN Next(p[1], letter) # Next(p[2], letter)
                           ELSE n \intersect pairs # {}}
    IN  IF now = pairs THEN pairs ELSE Apart(a, now)
-----------------------------------------------------------------------------
RegexInit == /\ regex \in {Single(bytes) : bytes \in Bytes} \union {Epsilon0}
             /\ regexCalls = 0

(* A call on the regex that has been built, and on a letter or a list.     *)
Call == /\ regexCalls < MaxCalls
        /\ regexCalls' = regexCalls + 1
        /\ \E other \in {Single(bytes) : bytes \in Bytes} \union {List(Single(bytes)) : bytes \in Bytes} :
             regex' \in {Terminated(regex, other), Terminated(other, regex), Or(regex, other),
                         And(regex, other), Delimited(other, regex, regex),
                         SeparatedList(regex, other), SeparatedRepeatAtMost(other, 2, regex),
                         Optional(regex), NonEmptyList(regex), List(regex), Repeat(regex, 2),
                         RepeatAtMost(regex, 2)}

Output == /\ regexCalls < MaxCalls
          /\ regexCalls' = regexCalls + 1
          /\ \E new \in Outputs :
               regex' \in {OutputBytes(regex, {0}, new), ReplaceOutputs(regex, 0, new)}

(* A negation asserts that there are no outputs below it.                  *)
Neg == /\ regexCalls < MaxCalls
       /\ ~ContainsOutputs(regex)
       /\ regexCalls' = regexCalls + 1
       /\ \E other \in {Single(bytes) : bytes \in Bytes} :
            regex' \in {NegOf(regex), Minus(NonEmptyList(other), regex)}

RegexNext == Call \/ Output \/ Neg
-----------------------------------------------------------------------------
(* What is asked of a regex: what is repeated, complemented or put in a    *)
(* row has a word besides the empty one, an intersection has operands, and *)
(* no outputs have been put below a negation after it was made.            *)
RECURSIVE Supported(_)
Supported(r) ==
    \/ r.op = "Single"
    \/ /\ \A i \in DOMAIN r.args : Supported(r.args[i])
       /\ r.op = "Inter" => r.args # <<>>
       /\ r.op = "Complement" => ~ContainsOutputs(r)
       /\ r.op \in {"Concat", "Star", "Complement"} =>
            \A i \in DOMAIN r.args : \/ Denoted(r.args[i], MaxWord) \ {<<>>} # {}
                                     \/ r.op = "Concat" /\ r.args[i] = Epsilon0

(* The automaton of a regex accepts the words the regex denotes, outputs   *)
(* included, has no state that is of no use and no two states that accept  *)
(* the same.  A regex that gives a byte two outputs after the same word is *)
(* found out.  (Regex::to_automaton; nested choices, repetitions and       *)
(* complements change which construction is taken for a node.)             *)
AutomatonIsExact ==
    Supported(regex) =>
        LET a     == ToAutomaton(regex)
            words == Denoted(regex, MaxWord)
        IN  /\ Accepted(a, a.initial_state, MaxWord) = words
            /\ a.final_states = {} \/ LiveStates(a) = States(a)
            /\ \A s, t \in States(a) : s # t => <<s, t>> \in Apart(a, {})
            /\ \A v, w \in words : \A i \in DOMAIN v \intersect DOMAIN w :
                   /\ SubSeq(v, 1, i - 1) = SubSeq(w, 1, i - 1)
                   /\ v[i][1] = w[i][1] /\ v[i] # w[i]
                   => Ambiguous(a)

CONSTANTS Prime,                \* the field
          AutomatonParallelism,
          SubstringParallelism,
          LenBits,              \* PARSING_MAX_LEN_BITS
          MaxRequests           \* bound: requests of a circuit

(* What check_subsequence needs to pack without wrapping.                  *)
ASSUME PackingAssumption ==
    (2 ^ LenBits + 2 ^ LenBits + 1) * (AlphabetSize + 1) < Prime

VARIABLES automaton_cache,      \* the automata in use, by regex
          max_state,
          parses,               \* the inputs parsed: [regex, input, letters]
          sequence_cache,       \* deferred checks, by sequence
          checks,               \* what was asked for: [kind, sequence, idx, sub]
          in_range              \* whether the range checks made so far hold

parserVars    == <<automaton_cache, max_state, parses>>
substringVars == <<sequence_cache, checks, in_range>>
scannerVars   == <<parserVars, substringVars>>

AlphabetFiller == AlphabetSize          \* ALPHABET_MAX_SIZE, no byte
-----------------------------------------------------------------------------
(* ScannerVec: the payload lies in its buffer as get_lims says, and the    *)
(* rest of it is filler.                                                   *)
ScannerVec(size, a, payload) ==
    LET pad   == (a - (Len(payload) % a)) % a
        start == size - Len(payload) - pad
        In(i) == i > start /\ i <= start + Len(payload)
    IN  [buffer        |-> [i \in 1 .. size |-> IF In(i) THEN payload[i - start] ELSE AlphabetFiller],
         start         |-> start,
         length        |-> Len(payload),
         padding_flags |-> [i \in 1 .. size |-> ~In(i)]]
-----------------------------------------------------------------------------
(* A NativeAutomaton stays where it is on the filler, before the input     *)
(* begins and after it has ended.                                          *)
Native(a) ==
    [initial_state |-> a.initial_state,
     final_states  |-> a.final_states,
     transitions   |-> {<<t[1], t[2][1], t[3], t[2][2]>> : t \in a.transitions}
                       \union {<<s, AlphabetFiller, s, 0>> : s \in a.final_states \union {a.initial_state}}]

(* load_automata_table: the stuck state 0 tells a final state, and serves  *)
(* the rows that are not used.                                             *)
AutomataTable(automata) ==
    {<<0, 0, 0, 0>>} \union UNION {a.transitions \union {<<s, AlphabetFiller, 0, 0>> : s \in a.final_states} :
                                   a \in automata}

(* The cells of parse_automaton: three columns per letter of a row.        *)
StateCell(i)  == IF (i % AutomatonParallelism) = 0 THEN <<i \div AutomatonParallelism, 0>>
                 ELSE <<i \div AutomatonParallelism, 3 * (i % AutomatonParallelism)>>
LetterCell(i) == <<i \div AutomatonParallelism, 3 * (i % AutomatonParallelism) + 1>>
OutputCell(i) == <<i \div AutomatonParallelism, 3 * (i % AutomatonParallelism) + 2>>

AssignedCells(a, input) ==
    LET n        == Len(input)
        last     == n \div AutomatonParallelism
        trailing == {<<last, col>> : col \in 3 * (n % AutomatonParallelism) + 2 ..
                                             3 * AutomatonParallelism - 1} \union {<<last + 1, 0>>}
    IN  (StateCell(0) :> a.initial_state)
        @@ [cell \in {LetterCell(i) : i \in 0 .. n - 1} |->
              input[(CHOOSE i \in 0 .. n - 1 : LetterCell(i) = cell) + 1]]
        @@ (LetterCell(n) :> AlphabetFiller)
        @@ [cell \in trailing |-> 0]

LookupsOf(n) ==
    [i \in 1 .. AutomatonParallelism * ((n \div AutomatonParallelism) + 1) |->
       <<StateCell(i - 1), LetterCell(i - 1), StateCell(i), OutputCell(i - 1)>>]

(* What the prover can assign so that the lookups from the ith on hold.    *)
RECURSIVE Solutions(_, _, _)
Solutions(lookups, table, cells) ==
    IF lookups = <<>> THEN {cells}
    ELSE LET lookup == Head(lookups)
             fits   == {row \in table : \A k \in 1 .. 4 :
                          lookup[k] \in DOMAIN cells => cells[lookup[k]] = row[k]}
         IN  UNION {Solutions(Tail(lookups), table,
                              [cell \in {lookup[k] : k \in 1 .. 4} |->
                                 row[CHOOSE k \in 1 .. 4 : lookup[k] = cell]] @@ cells) : row \in fits}

ParsedOutputs(a, table, input) ==
    {[i \in 1 .. Len(input) |-> cells[OutputCell(i - 1)]] :
        cells \in Solutions(LookupsOf(Len(input)), table, AssignedCells(a, input))}
-----------------------------------------------------------------------------
(* resolve_automaton, then the input: bytes, or the buffer of a vector.    *)
Parse(r, input, payload) ==
    /\ Len(parses) < MaxRequests
    /\ parses' = Append(parses, [regex |-> r, input |-> input, payload |-> payload])
    /\ IF r \in DOMAIN automaton_cache THEN UNCHANGED <<automaton_cache, max_state>>
       ELSE LET a == ToAutomaton(r)
            IN  /\ ~Ambiguous(a)
                /\ automaton_cache' = (r :> Native(OffsetStates(a, max_state))) @@ automaton_cache
                /\ max_state' = max_state + a.nb_states
    /\ UNCHANGED <<regexVars, substringVars>>

ParseFixed(r, input)          == Parse(r, input, input)
ParseVarlen(r, size, a, data) == Parse(r, ScannerVec(size, a, data).buffer, data)
-----------------------------------------------------------------------------
(* The checks, recorded under their sequence.  A check is an index, what   *)
(* is added to it, a sequence of cells and the flags of its filler.        *)
Record(key, check, len) ==
    sequence_cache' = (key :> IF key \in DOMAIN sequence_cache
                              THEN [checks |-> Append(sequence_cache[key].checks, check),
                                    len    |-> sequence_cache[key].len + len]
                              ELSE [checks |-> <<check>>, len |-> len]) @@ sequence_cache

NoFlags(sub)   == [i \in DOMAIN sub |-> FALSE]
MutInRange(idx) == idx < Prime
InRange(idx)   == idx < 2 ^ LenBits
Asked(kind, sequence, idx, sub) ==
    /\ Len(checks) < MaxRequests
    /\ checks' = Append(checks, [kind |-> kind, sequence |-> sequence, idx |-> idx, sub |-> sub])
    /\ UNCHANGED <<regexVars, parserVars>>

CheckSubsequence(key, idx, sub, others) ==
    IF sub = <<>> THEN in_range' = (in_range /\ others) /\ UNCHANGED sequence_cache
    ELSE /\ in_range' = (in_range /\ others /\ InRange(idx))
         /\ Record(key, [idx |-> idx, offset |-> 0, sub |-> sub, flags |-> NoFlags(sub)], Len(sub))

CheckBytes(sequence, idx, sub) ==
    /\ Asked("fixed", sequence, idx, sub)
    /\ CheckSubsequence(sequence, idx, sub, TRUE)

CheckBytesExt(sequence, idx, sub) ==
    /\ Asked("ext", sequence, idx, sub)
    /\ CheckSubsequence(sequence, idx, sub, \A x \in ToSet(sequence \o sub) : x <= AlphabetFiller)

CheckBytesVarlen(sequence, idx, sub) ==
    LET vec(d) == ScannerVec(d.size, d.a, d.payload)
    IN  /\ Asked("varlen", sequence.payload, idx, sub.payload)
        /\ in_range' = (in_range /\ InRange(idx))
        /\ Record(vec(sequence).buffer,
                  [idx |-> idx, offset |-> vec(sequence).start - vec(sub).start,
                   sub |-> vec(sub).buffer, flags |-> vec(sub).padding_flags], sub.size)

CheckBytesVarlenPartial(sequence, idx, sub) ==
    LET vec == ScannerVec(sequence.size, sequence.a, sequence.payload)
    IN  /\ Asked("partial", sequence.payload, idx, sub)
        /\ IF sub = <<>> THEN UNCHANGED <<sequence_cache, in_range>>
           ELSE /\ in_range' = (in_range /\ InRange(idx))
                /\ Record(vec.buffer, [idx |-> idx, offset |-> vec.start, sub |-> sub,
                                       flags |-> NoFlags(sub)], Len(sub))
-----------------------------------------------------------------------------
(* finalise_substring_checks.  The longest sequences come first, those of  *)
(* a chunk lie side by side under one tag, and every column begins with 0. *)
Shorter(x, y) == LET len(z) == sequence_cache[z].len
                 IN  Len(x) > Len(y) \/ (Len(x) = Len(y) /\ len(x) > len(y))
SortedCalls   == SetToSortSeq(DOMAIN sequence_cache, Shorter)

Packed(check) ==
    [i \in DOMAIN check.sub |->
       IF check.flags[i] THEN 0
       ELSE ((check.idx + check.offset + i) * (AlphabetSize + 1) + check.sub[i]) % Prime]
PackedCalls(key) == FlattenSeq([i \in DOMAIN sequence_cache[key].checks |->
                                  Packed(sequence_cache[key].checks[i])])
PaddedTo(column, size, filler) ==
    [i \in 1 .. size |-> IF i <= Len(column) THEN column[i] ELSE filler]

(* The rows of a chunk: for each of its slots a cell of the table and one  *)
(* of the queries.                                                         *)
ChunkRows(keys) ==
    LET size == Max({IF Len(k) > sequence_cache[k].len THEN Len(k) ELSE sequence_cache[k].len :
                     k \in ToSet(keys)}) + 1
        slot(p) == IF p > Len(keys) THEN [table |-> PaddedTo(<<>>, size, 0),
                                          query |-> PaddedTo(<<>>, size, 0)]
                   ELSE [table |-> PaddedTo(<<0>> \o keys[p], size, AlphabetFiller),
                         query |-> PaddedTo(<<0>> \o PackedCalls(keys[p]), size, 0)]
    IN  [row \in 1 .. size |-> [index |-> row - 1,
                                slots |-> [p \in 1 .. SubstringParallelism |->
                                             <<slot(p).table[row], slot(p).query[row]>>]]]

(* The chunks in order, which is that of their tags.                       *)
RECURSIVE SubstringLayout(_)
SubstringLayout(keys) ==
    IF keys = <<>> THEN <<>>
    ELSE LET n == IF Len(keys) < SubstringParallelism THEN Len(keys) ELSE SubstringParallelism
         IN  <<ChunkRows(SubSeq(keys, 1, n))>> \o SubstringLayout(SubSeq(keys, n + 1, Len(keys)))

(* The lookups: per slot, every query of a tag is in the table of the tag. *)
LookupsHold(layout) ==
    \A tag \in DOMAIN layout : \A p \in 1 .. SubstringParallelism :
        LET entries == {(row.index * (AlphabetSize + 1) + row.slots[p][1]) % Prime :
                        row \in ToSet(layout[tag])}
        IN  \A row \in ToSet(layout[tag]) : row.slots[p][2] \in entries

SubstringChecksHold == in_range /\ LookupsHold(SubstringLayout(SortedCalls))
-----------------------------------------------------------------------------
ScannerInit == /\ automaton_cache = << >> /\ max_state = 1 /\ parses = <<>>
               /\ sequence_cache = << >> /\ checks = <<>> /\ in_range = TRUE
-----------------------------------------------------------------------------
(* The lookups of a parse can be satisfied exactly when the automaton      *)
(* accepts the input, and then give the outputs of its run: in a vector,   *)
(* 0 where it is filler.  (Automata share one table, a stuck state and a   *)
(* letter beyond the bytes; two letters share a row.)                      *)
WordsFor(r, payload) == {w \in Denoted(r, Len(payload)) :
                           Len(w) = Len(payload) /\ \A i \in DOMAIN w : w[i][1] = payload[i]}
PaddedOutputs(word, input) ==
    LET start == IF word = <<>> THEN 0 ELSE Min({i \in DOMAIN input : input[i] # AlphabetFiller}) - 1
    IN  [i \in DOMAIN input |-> IF input[i] = AlphabetFiller THEN 0 ELSE word[i - start][2]]
ParsingIsExact ==
    \A i \in DOMAIN parses :
        LET p     == parses[i]
            table == AutomataTable({automaton_cache[r] : r \in DOMAIN automaton_cache})
        IN  ParsedOutputs(automaton_cache[p.regex], table, p.input)
              = {PaddedOutputs(w, p.input) : w \in WordsFor(p.regex, p.payload)}

(* The constraints of the deferred checks hold exactly when every sub      *)
(* occurs in its sequence at its index.                                    *)
Occurs(check) ==
    LET n == Len(check.sub)
    IN  \/ n = 0 /\ (check.kind = "varlen" => InRange(check.idx))
        \/ /\ n > 0 /\ check.idx + n <= Len(check.sequence)
           /\ SubSeq(check.sequence, check.idx + 1, check.idx + n) = check.sub
PaddingUnmatchable == SubstringChecksHold <=> \A i \in DOMAIN checks : Occurs(checks[i])

(* The same but for subs that end with the filler, as check_bytes_ext lets *)
(* them: the padding of a shorter sequence beside a longer one has it too. *)
SubstringsAreExact ==
    (\A i \in DOMAIN checks : checks[i].sub = <<>> \/ Last(checks[i].sub) # AlphabetFiller)
        => PaddingUnmatchable
=============================================================================
