------------------------- MODULE MCProofTranscript -------------------------
(***************************************************************************)
(* Two advice columns, two instance columns, one fixed column and two      *)
(* selectors in a domain of 16 rows.  Every circuit of at most MaxCalls    *)
(* calls out of Calls is configured; those of ProvedCircuits are proved    *)
(* and verified as well.  Circuits of their own are synthesized, by the    *)
(* floor planner that lays out their regions.                              *)
(***************************************************************************)
EXTENDS VerifierGadget, CircuitSynthesis

CONSTANT MaxCalls           \* BOUND on the calls that configure a circuit

a0 == Cell("advice", 0, 0)
a1 == Cell("advice", 0, -1)
a2 == Cell("advice", 0, 1)
b1 == Cell("advice", 1, 1)
f0 == Cell("fixed", 0, 0)
i0 == Cell("instance", 0, 0)
i1 == Cell("instance", 1, 1)
s0 == <<SelectorCell(0)>>
s1 == <<SelectorCell(1)>>

Equal(kind, col)          == [fn |-> "enable_equality", column |-> <<kind, col>>]
Constant                  == [fn |-> "enable_constant", column |-> <<"fixed", 0>>]
Gate(s, polys)            == [fn |-> "create_gate", selector |-> s, polys |-> polys]
Trash(s, polys, queried)  == [fn |-> "create_additive_gate", selector |-> s, polys |-> polys,
                              virtual_cells |-> queried]
Lookup(s, inputs, looked) == [fn |-> "batched_lookup_any", selector |-> s, inputs |-> inputs,
                              table |-> looked]

AllEqual == <<Equal("advice", 0), Equal("instance", 1), Equal("advice", 1), Constant>>

(* Nothing; everything, the simple selector before or after the other one; *)
(* two trash arguments; two lookups, with chunks of their own; a trash     *)
(* argument on cells that were never queried; rotations that collide, in a *)
(* column that is always opened or in one that is when it is committed; as *)
(* many chunks of lookups as the domain has room for, and one too many; a  *)
(* fixed column queried at two rotations, and one never queried; gates     *)
(* without a constraint.                                                   *)
Crowded(n) ==
    [selectors |-> <<>>,
     calls |-> AllEqual \o <<[fn |-> "set_minimum_degree", degree |-> 5],
                             Lookup(<<>>, [j \in 1 .. n |-> <<a0, a0, a0, a0>>], <<f0>>)>>]

ProvedCircuits ==
    {[selectors |-> <<>>, calls |-> <<>>],
     [selectors |-> <<TRUE, FALSE>>,
      calls |-> AllEqual \o <<Gate(s0, <<<<a0, b1>>, <<f0, i0, i1>>>>),
                              Lookup(s1, <<<<a0>>, <<b1>>, <<a1>>>>, <<f0>>),
                              Trash(s1, <<<<a0, f0>>>>, TRUE)>>],
     [selectors |-> <<FALSE, TRUE>>,
      calls |-> <<Gate(s1, <<<<a0, b1>>>>), Gate(s0, <<<<i0, i1>>>>)>> \o AllEqual],
     [selectors |-> <<TRUE, FALSE, TRUE>>,
      calls |-> <<Trash(s1, <<<<a0, a1>>>>, TRUE), Gate(<<SelectorCell(2)>>, <<<<f0, i1>>>>),
                  Trash(s1, <<<<b1>>>>, TRUE), Equal("advice", 1)>>],
     [selectors |-> <<FALSE>>,
      calls |-> <<Lookup(<<>>, <<<<a0>>, <<b1>>, <<a0, b1>>>>, <<f0>>),
                  Lookup(s0, <<<<a1>>>>, <<f0>>)>>],
     [selectors |-> <<FALSE>>, calls |-> <<Trash(s0, <<<<a0>>>>, FALSE)>>],
     [selectors |-> <<>>, calls |-> <<Gate(<<>>, <<<<a0, Cell("advice", 0, N)>>>>)>>],
     [selectors |-> <<>>, calls |-> <<Gate(<<>>, <<<<i0, Cell("instance", 0, N)>>>>)>>],
     [selectors |-> <<TRUE>>,
      calls |-> <<Gate(s0, <<<<f0, Cell("fixed", 0, 1), a0>>>>), Equal("instance", 1)>>],
     [selectors |-> <<>>, calls |-> <<Gate(<<>>, <<<<a0, i1>>>>)>>],
     [selectors |-> <<FALSE>>, calls |-> <<Equal("advice", 1), Gate(s0, <<>>)>>],
     [selectors |-> <<FALSE>>, calls |-> <<Equal("advice", 1), Trash(s0, <<>>, TRUE)>>],
     Crowded(7), Crowded(8)}

(* The same values shared out differently, zeros at the end of a committed *)
(* column, too few columns, an empty one, and too many values.             *)
MCStatements ==
    {[instances |-> <<<<1>>, <<1, 2>>>>, committed |-> 0],
     [instances |-> <<<<1, 1>>, <<2>>>>, committed |-> 0],
     [instances |-> <<<<1>>, <<1, 2>>>>, committed |-> 1],
     [instances |-> <<<<1, 0>>, <<1, 2>>>>, committed |-> 1],
     [instances |-> <<<<1>>, <<1, 2>>>>, committed |-> 2],
     [instances |-> <<<<1>>>>, committed |-> 0],
     [instances |-> <<<<>>, <<1>>>>, committed |-> 0],
     [instances |-> <<<<1>>, [i \in 1 .. 15 |-> 0]>>, committed |-> 0]}

Gates == [fn : {"create_gate"}, selector : {<<>>, s0, s1},
          polys : {<<<<a0, b1>>, <<f0, i0>>>>}]
             \cup [fn : {"create_gate"}, selector : {<<>>}, polys : {<<<<a0, a0, a2, b1>>>>}]
TrashArguments == [fn : {"create_additive_gate"}, selector : {s0, s1},
                   polys : {<<<<b1, f0>>, <<a2>>>>}, virtual_cells : BOOLEAN]

(* Three inputs side by side, one with a selector of its own, and one of   *)
(* degree 5, greater than that of any constraint next to it.               *)
LookupCalls == {Lookup(<<>>, <<<<a0>>, <<b1>>, <<a0, b1>>>>, <<f0>>),
                Lookup(s0, <<<<a2>>>>, <<f0>>),
                Lookup(s1, <<<<a2>>>>, <<f0, f0>> \o s0),
                Lookup(<<>>, <<<<a0, a0, a2, b1, b1>>>>, <<f0>>)}

Equalities == [fn : {"enable_equality"}, column : {<<"advice", 1>>, <<"instance", 0>>, <<"fixed", 0>>}]
                  \cup [fn : {"enable_constant"}, column : {<<"fixed", 0>>}]

Calls == Gates \cup TrashArguments \cup LookupCalls \cup Equalities
             \cup {[fn |-> "set_minimum_degree", degree |-> d] : d \in {5}}

Configurations == [selectors : {<<TRUE, FALSE>>, <<FALSE, TRUE>>},
                   calls : UNION {[1 .. n -> Calls] : n \in 0 .. MaxCalls}]

MCCircuits == ProvedCircuits \cup Configurations

-----------------------------------------------------------------------------
(***************************************************************************)
(* A circuit that is synthesized by both key generations and the prover    *)
(* has up to MaxRegions regions over two advice columns, one fixed column  *)
(* that also holds the constants, one selector and one instance column.    *)
(* The shapes differ in the columns they use and in their height, one      *)
(* assigns the fixed column itself, one leaves a gap in a column, one      *)
(* assigns nothing and only binds an earlier cell to a constant, and one   *)
(* binds a cell of a column outside the permutation.                       *)
(***************************************************************************)
CONSTANTS adv1, adv2, fx, sel, inst,
          MaxRegions        \* BOUND on the regions of a synthesized circuit

MCAdvice    == {adv1, adv2}
MCFixed     == {fx}
MCSelectors == {sel}
MCEquality  == {adv1, fx, inst}

(* Constant values look like references to no region, to be comparable     *)
(* with the values that regions assign.                                    *)
ConstantOf(v, ref) == [value |-> <<0, v, 0>>, cell |-> ref]
RegionOf(cells, equal, consts) == [cells |-> cells, equal |-> equal, constants |-> consts]

(* The regions available to the region at position j.                      *)
RegionsAt(j) ==
    { RegionOf({<<adv1, 0>>, <<sel, 0>>}, {<< <<j, adv1, 0>>, <<0, inst, 0>> >>}, << >>),
      RegionOf({<<adv1, 1>>, <<adv2, 0>>, <<sel, 0>>}, {},
            <<ConstantOf("zero", <<j, adv1, 1>>), ConstantOf("one", <<j, adv1, 1>>)>>),
      RegionOf({<<adv2, 0>>, <<adv2, 1>>, <<fx, 1>>}, {}, << >>),
      RegionOf({<<fx, 0>>, <<adv1, 0>>}, {}, <<ConstantOf("one", <<j, adv1, 0>>)>>),
      RegionOf({<<adv2, 0>>}, {}, <<ConstantOf("one", <<j, adv2, 0>>)>>) }
    \cup IF j = 1 THEN {}
         ELSE { RegionOf({}, {}, <<ConstantOf("zero", <<1, adv1, 0>>)>>),
                RegionOf({<<adv1, 0>>, <<adv1, 1>>}, {<< <<j, adv1, 1>>, <<1, adv1, 0>> >>}, << >>) }

(* A reference names a cell that its own region or one before it assigned. *)
RefersBack(rs) ==
    \A j \in DOMAIN rs : \A ref \in References(rs[j]) :
        ref[1] # 0 => ref[1] <= j /\ <<ref[2], ref[3]>> \in rs[ref[1]].cells

AllRegions == UNION {RegionsAt(j) : j \in 1..MaxRegions}

MCConcreteCircuits ==
    {c \in [constants : {<< >>, <<fx>>},
            regions : UNION {[1..n -> AllRegions] : n \in 1..MaxRegions}] :
        /\ \A j \in DOMAIN c.regions : c.regions[j] \in RegionsAt(j)
        /\ RefersBack(c.regions)}

VARIABLE subject    \* "protocol" or "synthesis": a behaviour is about one of them

(* The other one stays at a first state.  A circuit that is only           *)
(* configured is given no statement of its own.                            *)
OneRegion == [constants |-> <<fx>>,
              regions |-> <<RegionOf({<<adv2, 0>>, <<adv2, 1>>, <<fx, 1>>}, {}, << >>)>>]
MCInit ==
    \/ /\ subject = "protocol" /\ concrete = OneRegion
       /\ SynthesisInit /\ GadgetInit
       /\ circuit \notin ProvedCircuits =>
             /\ features = {}
             /\ statement = [instances |-> <<<<1>>>>, committed |-> 0]
    \/ /\ subject = "synthesis" /\ circuit = [selectors |-> <<>>, calls |-> <<>>]
       /\ features = {} /\ statement = [instances |-> <<<<>>, <<1>>>>, committed |-> 0]
       /\ GadgetInit /\ SynthesisInit

MCNext == \/ /\ subject = "protocol"
             /\ \/ Next /\ UNCHANGED gadgetVars
                \/ GadgetPrepare
             /\ circuit \notin ProvedCircuits => phase = "configure"
             /\ UNCHANGED <<synthesisVars, subject>>
          \/ /\ subject = "synthesis" /\ SynthesisNext
             /\ UNCHANGED <<vars, gadgetVars, subject>>
MCSpec == MCInit /\ [][MCNext]_<<vars, gadgetVars, synthesisVars, subject>>

ProvedSpec == MCInit /\ subject = "protocol" /\ [][MCNext]_<<vars, gadgetVars, synthesisVars, subject>>
=============================================================================
