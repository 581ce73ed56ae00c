--------------------------- MODULE EqualityClasses ---------------------------
(***************************************************************************)
(* What the permutation argument's copy promises its caller, with nothing  *)
(* of how it keeps the promise: a partition of the cells into classes of   *)
(* cells constrained to be equal.  A call names two cells; it returns "Ok" *)
(* exactly when both are cells of the argument, and then the two classes   *)
(* have become one and no other pair of cells has been related.  A call    *)
(* that is refused relates nothing.                                        *)
(***************************************************************************)
CONSTANTS Cells,      \* the cells of the permutation argument
          Refs        \* every reference to a cell a caller may pass

VARIABLES eq,         \* the pairs of cells constrained to be equal
          call,       \* the call in progress, <<left, right>>, or << >>
          answer      \* the last answer: "none", "Ok" or "Err"

vars == <<eq, call, answer>>

Init == /\ eq = {<<c, c>> : c \in Cells}
        /\ call = << >>
        /\ answer = "none"

Invoke(left, right) == /\ call = << >>
                       /\ call' = <<left, right>>
                       /\ answer' = "none"
                       /\ UNCHANGED eq

Grant == /\ call # << >>
         /\ call[1] \in Cells /\ call[2] \in Cells
         /\ eq' = eq \cup {p \in Cells \X Cells :
                              \/ <<p[1], call[1]>> \in eq /\ <<p[2], call[2]>> \in eq
                              \/ <<p[1], call[2]>> \in eq /\ <<p[2], call[1]>> \in eq}
         /\ call' = << >>
         /\ answer' = "Ok"

Refuse == /\ call # << >>
          /\ ~(call[1] \in Cells /\ call[2] \in Cells)
          /\ call' = << >>
          /\ answer' = "Err"
          /\ UNCHANGED eq

Next == \/ \E left, right \in Refs : Invoke(left, right)
        \/ Grant
        \/ Refuse

Spec == Init /\ [][Next]_vars
=============================================================================
