------------------------------ MODULE ChipCalls ------------------------------
(* A call of a chip: every sequence of results that its constraints admit, *)
(* the sequences it stands for, and whether an honest prover makes the     *)
(* call within its precondition.  A test or an assertion that holds has    *)
(* the empty sequence for result; one that does not has none.              *)
VARIABLE call

NoCall == [admitted |-> {}, meant |-> {}, honest |-> FALSE]
Called(admitted, meant, honest) ==
    call' = [admitted |-> admitted, meant |-> meant, honest |-> honest]
Holds(test) == IF test THEN {<<>>} ELSE {}

(* Whatever the prover assigns to the cells that constraints leave free    *)
(* (coordinates of identities, slopes, quotients, carries, randomness and  *)
(* lookups), a call yields what it stands for or nothing; and an honest    *)
(* prover can have each result there is.  Chips of circuits/src/ecc and    *)
(* circuits/src/biguint.                                                   *)
CallsAreExact ==
    /\ call.admitted \subseteq call.meant
    /\ call.honest => call.meant \subseteq call.admitted
=============================================================================
