----------------------------- MODULE SuccinctMap -----------------------------
(***************************************************************************)
(* The map in a sparse Merkle tree (circuits/src/map/cpu.rs), and the      *)
(* gadget that proves insertions and look-ups (map_gadget.rs).             *)
(*                                                                         *)
(* A node is its <<height, index>>; only nodes on the path of an inserted  *)
(* key are stored.  The leaf of a key is the start of its hash, so any     *)
(* function of the keys, two keys on one leaf included.  In the circuit    *)
(* the values, the paths and the new roots are witnesses: the prover takes *)
(* them from its map, or makes them up.                                    *)
(***************************************************************************)
EXTENDS PoseidonSponge, NaturalRecursion

CONSTANTS Keys, MapValues, Default, Height,
          Placements        \* the functions from keys to leaves that are tried

ASSUME MapAssumption == Height \in Nat \ {0} /\ Default \in MapValues

VARIABLES index,            \* compute_node_index
          mt,               \* a MapMt
          gadget            \* the State of a MapGadget, and what its constraints say

mapVars == <<index, mt, gadget>>

Leaves == 0 .. Pow2[Height] - 1

ASSUME PlacementsAssumption == Placements \subseteq [Keys -> Leaves]

(* The node_index of a leaf, shifted right on the way to the root.         *)
Shifted(leaf) == LET node_index[h \in 0 .. Height] ==
                         IF h = 0 THEN leaf ELSE node_index[h - 1] \div 2
                 IN  node_index

Ancestor(key, height) == Shifted(index[key])[height]

DefaultNode == LET node[h \in 0 .. Height] ==
                       IF h = 0 THEN Default ELSE Hash(<<node[h - 1], node[h - 1]>>)
               IN  node

New == [root |-> DefaultNode[Height], nodes |-> << >>, map |-> << >>]

MutSibling(m, i, height) == DefaultNode[height]
Sibling(m, i, height) ==
    LET sibling == <<height, i + 1 - 2 * (i % 2)>>
    IN  IF sibling \in DOMAIN m.nodes THEN m.nodes[sibling] ELSE DefaultNode[height]

Path(m, key) == [h \in 0 .. Height - 1 |-> Sibling(m, Ancestor(key, h), h)]

(* The nodes from a leaf to the root, given its value and its siblings.    *)
Climb(key, value, path) ==
    LET node[h \in 0 .. Height] ==
            IF h = 0 THEN value
            ELSE IF Ancestor(key, h - 1) % 2 = 1 THEN Hash(<<path[h - 1], node[h - 1]>>)
            ELSE Hash(<<node[h - 1], path[h - 1]>>)
    IN  node

(* HashMap::insert, of one or of several entries.                          *)
With(entries, hash_map) ==
    [k \in DOMAIN entries \cup DOMAIN hash_map |->
        IF k \in DOMAIN entries THEN entries[k] ELSE hash_map[k]]

OnPath(key) == {<<h, Ancestor(key, h)>> : h \in 0 .. Height - 1}

Inserted(m, key, value) ==
    LET climb == Climb(key, value, Path(m, key))
    IN  [root  |-> climb[Height],
         nodes |-> With([n \in OnPath(key) |-> climb[n[1]]], m.nodes),
         map   |-> With([k \in {key} |-> value], m.map)]

Get(m, key) == IF key \in DOMAIN m.map THEN m.map[key] ELSE Default

Verifies(key, value, path, repr) == Climb(key, value, path)[Height] = repr
-----------------------------------------------------------------------------
NoOp   == << >>
Absent == [phase |-> "absent", repr |-> New.root, map |-> New, forged |-> FALSE,
           last |-> NoOp]

MapInit == /\ index \in Placements
           /\ mt = New
           /\ gadget = Absent

(* The map is left alone once the gadget went its own way: they share      *)
(* nothing after InitGadget.                                               *)
Insert == \E key \in Keys, value \in MapValues :
             /\ ~gadget.forged /\ gadget.phase # "unsatisfied"
             /\ mt' = Inserted(mt, key, value)
             /\ UNCHANGED <<index, gadget>>

InitGadget == /\ gadget.phase = "absent"
              /\ gadget' = [gadget EXCEPT !.phase = "ready", !.repr = mt.root, !.map = mt]
              /\ UNCHANGED <<index, mt>>

(* The constraints of insert: one path opens the old root to the current   *)
(* value and the new root to the new one.                                  *)
MutInsertHolds(key, value, current, path, new_root) == Verifies(key, value, path, new_root)
InsertHolds(key, value, current, path, new_root) ==
    Verifies(key, current, path, gadget.repr) /\ Verifies(key, value, path, new_root)

InsertWitnessed(key, value, current, path, new) ==
    gadget' = [gadget EXCEPT !.phase = IF InsertHolds(key, value, current, path, new.root)
                                       THEN "ready" ELSE "unsatisfied",
                             !.repr = new.root, !.map = new,
                             !.last = <<"insert", key, value>>]

UpdateState(key, value) == Inserted(gadget.map, key, value)

GadgetInsert == \E key \in Keys, value \in MapValues :
                   /\ gadget.phase = "ready"
                   /\ InsertWitnessed(key, value, Get(gadget.map, key), Path(gadget.map, key),
                                      UpdateState(key, value))
                   /\ UNCHANGED <<index, mt>>

(* Siblings a prover could make up: any tree of the right height.          *)
Trees == LET tree[h \in 0 .. Height] ==
                 IF h = 0 THEN MapValues ELSE {Hash(<<l, r>>) : l, r \in tree[h - 1]}
         IN  tree
Paths == {path \in [0 .. Height - 1 -> UNION {Trees[h] : h \in 0 .. Height - 1}] :
             \A h \in 0 .. Height - 1 : path[h] \in Trees[h]}

ForgedInsert == \E key \in Keys, value \in MapValues, current \in MapValues, path \in Paths :
                   LET new == [gadget.map EXCEPT !.root = Climb(key, value, path)[Height]]
                   IN  /\ gadget.phase = "ready"
                       /\ InsertHolds(key, value, current, path, new.root)
                       /\ gadget' = [gadget EXCEPT !.repr = new.root, !.forged = TRUE,
                                                   !.last = <<"insert", key, value>>]
                       /\ UNCHANGED <<index, mt>>

GadgetGet == \E key \in Keys :
                LET value == Get(gadget.map, key)
                IN  /\ gadget.phase = "ready"
                    /\ gadget' = IF Verifies(key, value, Path(gadget.map, key), gadget.repr)
                                 THEN [gadget EXCEPT !.last = <<"get", key, value>>]
                                 ELSE [gadget EXCEPT !.phase = "unsatisfied"]
                    /\ UNCHANGED <<index, mt>>

ForgedGet == \E key \in Keys, value \in MapValues, path \in Paths :
                /\ gadget.phase = "ready"
                /\ Verifies(key, value, path, gadget.repr)
                /\ gadget' = [gadget EXCEPT !.last = <<"get", key, value>>, !.forged = TRUE]
                /\ UNCHANGED <<index, mt>>

MapNext == Insert \/ InitGadget \/ GadgetInsert \/ ForgedInsert \/ GadgetGet \/ ForgedGet
MapSpec == MapInit /\ [][MapNext]_mapVars
-----------------------------------------------------------------------------
(* What a root commits to: the values at its leaves.                       *)
Opened(root) ==
    [l \in Leaves |->
        LET node[h \in 0 .. Height] ==
                IF h = Height THEN root
                ELSE node[h + 1].register.blocks[1][1 + (Shifted(l)[h] % 2)]
        IN  node[0]]

Committed == INSTANCE KeyValueMap WITH Values <- MapValues, contents <- Opened(mt.root)

(* The root is always the root of the tree of what was inserted, so an     *)
(* insertion changes one leaf, although it reads siblings that earlier     *)
(* insertions stored or that never were (cpu.rs:96).                       *)
RootImplementsMap == Committed!Spec

(* Whatever witness satisfies them, the constraints of an insertion change *)
(* the representation in the circuit by nothing but the insertion, and the *)
(* answer of a look-up is the one the representation commits to            *)
(* (map_gadget.rs:90).                                                     *)
InsertionsAreProved ==
    [][gadget.phase = "ready" /\ gadget'.phase = "ready" =>
         \E key \in Keys, value \in MapValues :
            /\ gadget'.last = <<"insert", key, value>>
            /\ Opened(gadget'.repr) = [Opened(gadget.repr) EXCEPT ![index[key]] = value]
      ]_(gadget.repr)

AnswersAreCommitted ==
    gadget.last # NoOp /\ gadget.phase = "ready" =>
        gadget.last[3] = Opened(gadget.repr)[index[gadget.last[2]]]

GadgetIsSound == InsertionsAreProved /\ []AnswersAreCommitted

(* As long as no two keys share a leaf, the witness the gadget makes is    *)
(* accepted, insertion after insertion (map_gadget.rs:139), and two maps   *)
(* have one representation if and only if they agree on all keys: it is "a *)
(* (cryptographically unequivocal) succinct representation of the map"     *)
(* (circuits/src/instructions/map.rs:34).                                  *)
MapIsComplete ==
    IsInjective(index) =>
        /\ gadget.forged \/ gadget.phase # "unsatisfied"
        /\ mt.root = gadget.map.root <=>
              \A key \in Keys : Get(mt, key) = Get(gadget.map, key)

(* The gadget proves what happens to the map, no more and no less.         *)
GadgetProvesMap == GadgetIsSound /\ []MapIsComplete
=============================================================================
