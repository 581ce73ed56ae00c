------------------------------- MODULE MCRows -------------------------------
(***************************************************************************)
(* The rows of a circuit: how many there are taken to be, how lookup       *)
(* tables fill them, and how the V1 planner slots regions into them.  A    *)
(* behaviour is about one of the three, the subject.                       *)
(*                                                                         *)
(* With six blinding factors the smallest circuit has 16 rows, 9 of them   *)
(* usable: rows 7 to 9 are on either side of that bound, and row 24, the   *)
(* last usable one of 32, on the next.                                     *)
(*                                                                         *)
(* The planner gets all circuits of up to two regions over two advice      *)
(* columns and one fixed column that also takes the constants, where a     *)
(* region uses any set of columns and has one or two rows, or uses no      *)
(* column; and, so that gaps form and are filled, all circuits of up to    *)
(* MaxRegions regions of five shapes that collide in one column and not    *)
(* in another.                                                             *)
(***************************************************************************)
EXTENDS CircuitSizing, TableLayouter, V1Planner

CONSTANTS Subjects, a1, a2, fx, MaxRegions, MaxRows, MaxConstants

VARIABLE subject

MCRegions ==
    {r \in [advice : {{}, {0}, {0, 8}, {9}, {24}}, fixed : {{}, {0}, {7, 8}, {25}},
            selectors : {{}, {0}, {10}}, constants : {0, 9}] :
        r.constants > 0 => r.advice # {}}

(* A region of one row that binds its cell to constants.                   *)
PlainRegions == [advice : {{0}}, fixed : {{}}, selectors : {{0}}, constants : {0, 5}]

MCAdvice == {a1, a2}
MCOther  == {fx}
MCConstantColumns == <<fx>>
MCColumnOrder == <<a1, a2, fx>>

Shapes == [columns : (SUBSET {a1, a2, fx}) \ {{}}, row_count : 1..MaxRows]
            \cup {[columns |-> {}, row_count |-> 0]}

Colliding == { [columns |-> {a1, a2}, row_count |-> 1],
               [columns |-> {a1, fx}, row_count |-> 2],
               [columns |-> {a2, fx}, row_count |-> 1],
               [columns |-> {a2}, row_count |-> 2],
               [columns |-> {fx}, row_count |-> 1] }

MCCircuits == [shapes : UNION {[1..n -> Shapes] : n \in 0..2}
                          \cup UNION {[1..n -> Colliding] : n \in 3..MaxRegions},
               constants : 0..MaxConstants]

NoCircuit == [shapes |-> << >>, constants |-> 0]

MCInit == /\ subject \in Subjects /\ SizingInit /\ Init /\ PlannerInit
          /\ subject # "regions" => circuit = NoCircuit

MCNext == \/ subject = "sizing" /\ SizingNext /\ UNCHANGED <<vars, plannerVars, subject>>
          \/ subject = "tables" /\ Next /\ UNCHANGED <<sizingVars, plannerVars, subject>>
          \/ subject = "regions" /\ PlannerNext /\ UNCHANGED <<vars, sizingVars, subject>>

MCSpec == MCInit /\ [][MCNext]_<<vars, sizingVars, plannerVars, subject>>
=============================================================================
