----------------------------- MODULE KeyValueMap -----------------------------
(***************************************************************************)
(* What a succinct map promises: a value for every leaf, and insertions    *)
(* that change one leaf and no other (circuits/src/instructions/map.rs).   *)
(***************************************************************************)
CONSTANTS Leaves, Values, Default

VARIABLE contents

Init == contents = [l \in Leaves |-> Default]

Put(l, v) == contents' = [contents EXCEPT ![l] = v]

Next == \E l \in Leaves, v \in Values : Put(l, v)

Spec == Init /\ [][Next]_contents
=============================================================================
