--------------------------- MODULE HashingProofs ---------------------------
(***************************************************************************)
(* Proofs about the succinct map, the sponge it hashes with, and hashing   *)
(* vectors of variable length.                                             *)
(*                                                                         *)
(* For every tree height, every set of keys and values, every placement of *)
(* the keys (two on one leaf included) and whatever a prover makes up: the *)
(* root of a map commits to what was inserted, the constraints of the      *)
(* gadget prove insertions and look-ups, and honest witnesses satisfy them.*)
(* For every rate and every order of absorbing and squeezing, a sponge     *)
(* without a fixed length binds its history. For every capacity, filler,   *)
(* resizing and trimming, a vector of variable length reads, compares and  *)
(* hashes as the sequence it stands for.                                   *)
(***************************************************************************)
EXTENDS SuccinctMap, SequenceTheorems, NaturalRecursion

-----------------------------------------------------------------------------
(* The hash of two elements is a block, and holds both.                    *)
Branch(node, bit) == node.register.blocks[1][1 + bit]
Pair(a, b)        == Hash(<<a, b>>)

LEMMA OneChunk ==
  ASSUME NEW a, NEW b
  PROVE  /\ Len(Chunks(<<a, b>>)) = 1
         /\ DOMAIN Chunks(<<a, b>>) = 1 .. 1
         /\ Chunks(<<a, b>>)[1] = Block(<<a, b>>)
         /\ Chunks(<<a, b>>) \in Seq({Block(<<a, b>>)})
  <1> DEFINE q == <<a, b>>
  <1>1. Rate \in Nat /\ Rate >= 2
    BY SpongeAssumption
  <1>2. Len(q) = 2 /\ q \in Seq({a, b})
    OBVIOUS
  <1>3. (Len(q) + Rate - 1) \div Rate = 1
    BY <1>1, <1>2
  <1>4. Len(q) <= 1 * Rate /\ (1 - 1) * Rate + 1 = 1 /\ (1 * Rate <= Len(q) => 1 * Rate = 2)
    BY <1>1, <1>2
  <1>5. SubSeq(q, 1, 2) = q
    BY <1>2, SubSeqFull
  <1> HIDE DEF q
  <1>6. Chunks(q) = [n \in 1 .. 1 |-> Block(SubSeq(q, (n - 1) * Rate + 1,
                                  IF n * Rate <= Len(q) THEN n * Rate ELSE Len(q)))]
    BY <1>3 DEF Chunks
  <1>7. Block(SubSeq(q, (1 - 1) * Rate + 1, IF 1 * Rate <= Len(q) THEN 1 * Rate ELSE Len(q))) = Block(q)
    BY <1>1, <1>2, <1>4, <1>5
  <1>8. \A n \in 1 .. 1 : n = 1
    OBVIOUS
  <1>9. Chunks(q) = [n \in 1 .. 1 |-> Block(q)]
    BY <1>6, <1>7, <1>8
  <1>10. DOMAIN Chunks(q) = 1 .. 1 /\ Chunks(q)[1] = Block(q)
    BY <1>9
  <1>11. Chunks(q) \in [1 .. 1 -> {Block(q)}]
    BY <1>9
  <1> DEFINE S == {Block(q)}
  <1>12. Chunks(q) \in Seq(S)
    <2> HIDE DEF S
    <2> QED
      BY <1>11, SeqDef DEF S
  <1> QED
    BY <1>10, <1>12 DEF q

LEMMA HashOfPair ==
  ASSUME NEW a, NEW b
  PROVE  Branch(Pair(a, b), 0) = a /\ Branch(Pair(a, b), 1) = b
  <1> DEFINE q == <<a, b>>
             c == Chunks(q)
  <1>1. Rate \in Nat /\ Rate >= 2
    BY SpongeAssumption
  <1>2. Len(q) = 2 /\ q[1] = a /\ q[2] = b /\ q \in Seq({a, b}) /\ <<>> \o q = q
    OBVIOUS
  <1>3. c \in Seq({Block(q)}) /\ c[1] = Block(q) /\ Len(c) = 1
    BY OneChunk
  <1>4. Block(q)[1] = a /\ Block(q)[2] = b
    BY <1>1, <1>2 DEF Block
  <1> HIDE DEF c, q
  <1>5. <<>> \o c = c /\ c # <<>>
    BY <1>3, ConcatEmptySeq
  <1> DEFINE s == [register |-> Register(2, <<>>), queue |-> q, squeeze_position |-> 0, input_len |-> 2]
             digested == [capacity |-> 2, blocks |-> c]
  <1> DEFINE start == [register |-> Register(2, <<>>), queue |-> <<>>, squeeze_position |-> 0,
                       input_len |-> 2]
  <1>6. Absorb(Init(2), q) = s
    <2>1. Init(2) = start
      BY DEF Init
    <2>2. start.queue \o q = q
      BY <1>2
    <2>3. [start EXCEPT !.queue = q] = s
      OBVIOUS
    <2>4. [s EXCEPT !.squeeze_position = 0] = s
      OBVIOUS
    <2> HIDE DEF start, s
    <2> QED
      BY <2>1, <2>2, <2>3, <2>4 DEF Absorb
  <1>7. Padded(s) = q
    BY DEF Padded, NoLength
  <1>8. [s.register EXCEPT !.blocks = @ \o Chunks(Padded(s))] = digested
    <2> DEFINE blank == [capacity |-> 2, blocks |-> <<>>]
    <2>1. s.register = blank
      BY DEF Register
    <2>2. Chunks(Padded(s)) = c
      BY <1>7 DEF c
    <2>3. [blank EXCEPT !.blocks = blank.blocks \o c] = digested
      BY <1>5
    <2> HIDE DEF blank, s
    <2> QED
      BY <2>1, <2>2, <2>3
  <1>9. Squeezed(s).output = Element(digested, 0)
    BY <1>8 DEF Squeezed
  <1>10. Element(digested, 0) = [register |-> digested, position |-> 0]
    BY <1>5 DEF Element
  <1> HIDE DEF s, digested
  <1>11. Pair(a, b) = [register |-> digested, position |-> 0]
    BY <1>2, <1>6, <1>9, <1>10 DEF Pair, Hash, q
  <1>12. Pair(a, b).register = digested
    BY <1>11
  <1>13. digested.blocks = c
    BY DEF digested
  <1> QED
    BY <1>3, <1>4, <1>12, <1>13 DEF Branch
-----------------------------------------------------------------------------
(* The functions defined by recursion on the height are what their         *)
(* definitions describe.                                                   *)
LEMMA HeightIsNat == Height \in Nat /\ Height >= 1
  BY MapAssumption

LEMMA DefaultNodes ==
  /\ DefaultNode[0] = Default
  /\ \A h \in 1 .. Height : DefaultNode[h] = Pair(DefaultNode[h - 1], DefaultNode[h - 1])
  <1> DEFINE Is(f, n) == f = [h \in 0 .. n |-> IF h = 0 THEN Default
                                               ELSE Pair(f[h - 1], f[h - 1])]
             P == {n \in 0 .. Height : \E f : Is(f, n)}
  <1>1. 0 \in P
    <2> DEFINE f == [h \in 0 .. 0 |-> Default]
    <2>1. Is(f, 0)
      OBVIOUS
    <2> HIDE DEF f, Is
    <2> QED
      BY <2>1, HeightIsNat
  <1>2. ASSUME NEW n \in 1 .. Height, n - 1 \in P
        PROVE  n \in P
    <2>1. PICK f : Is(f, n - 1)
      BY <1>2
    <2> DEFINE last == Pair(f[n - 1], f[n - 1])
               g == [h \in 0 .. n |-> IF h = n THEN last ELSE f[h]]
    <2>2. \A h \in 0 .. n - 1 : g[h] = f[h]
      BY HeightIsNat
    <2>3. g[n] = last /\ n # 0 /\ n - 1 \in 0 .. n - 1
      BY HeightIsNat
    <2>4. \A h \in 0 .. n - 1 : f[h] = IF h = 0 THEN Default ELSE Pair(f[h - 1], f[h - 1])
      BY <2>1
    <2>5. ASSUME NEW h \in 0 .. n
          PROVE  g[h] = IF h = 0 THEN Default ELSE Pair(g[h - 1], g[h - 1])
      <3>1. h = n \/ (h \in 0 .. n - 1 /\ (h # 0 => h - 1 \in 0 .. n - 1))
        BY HeightIsNat
      <3> HIDE DEF g
      <3> QED
        BY <2>2, <2>3, <2>4, <3>1
    <2>6. g = [h \in 0 .. n |-> g[h]]
      OBVIOUS
    <2> HIDE DEF g
    <2>7. Is(g, n)
      BY <2>5, <2>6
    <2> HIDE DEF Is
    <2> QED
      BY <2>7, HeightIsNat
  <1>3. Height \in P
    <2> HIDE DEF P
    <2> QED
      BY <1>1, <1>2, HeightIsNat, InductionUpTo
  <1>4. DefaultNode = CHOOSE f : Is(f, Height)
    BY DEF DefaultNode, Pair
  <1>5. Is(DefaultNode, Height)
    <2> HIDE DEF Is
    <2> QED
      BY <1>3, <1>4
  <1>6. \A h \in 0 .. Height : DefaultNode[h] = IF h = 0 THEN Default
                                                ELSE Pair(DefaultNode[h - 1], DefaultNode[h - 1])
    BY <1>5
  <1> QED
    BY <1>6, HeightIsNat

(* One step of a climb, from a node to the one above it.                   *)
Above(key, path, h, node) ==
    IF Ancestor(key, h - 1) % 2 = 1 THEN Pair(path[h - 1], node) ELSE Pair(node, path[h - 1])

LEMMA Climbs ==
  ASSUME NEW key, NEW value, NEW path
  PROVE  /\ Climb(key, value, path)[0] = value
         /\ \A h \in 1 .. Height : Climb(key, value, path)[h]
                                     = Above(key, path, h, Climb(key, value, path)[h - 1])
  <1> DEFINE Is(f, n) == f = [h \in 0 .. n |-> IF h = 0 THEN value ELSE Above(key, path, h, f[h - 1])]
             P == {n \in 0 .. Height : \E f : Is(f, n)}
             climb == Climb(key, value, path)
  <1>1. 0 \in P
    <2> DEFINE f == [h \in 0 .. 0 |-> value]
    <2>1. Is(f, 0)
      OBVIOUS
    <2> HIDE DEF f, Is
    <2> QED
      BY <2>1, HeightIsNat
  <1>2. ASSUME NEW n \in 1 .. Height, n - 1 \in P
        PROVE  n \in P
    <2>1. PICK f : Is(f, n - 1)
      BY <1>2
    <2> DEFINE last == Above(key, path, n, f[n - 1])
               g == [h \in 0 .. n |-> IF h = n THEN last ELSE f[h]]
    <2>2. \A h \in 0 .. n - 1 : g[h] = f[h]
      BY HeightIsNat
    <2>3. g[n] = last /\ n # 0 /\ n - 1 \in 0 .. n - 1
      BY HeightIsNat
    <2>4. \A h \in 0 .. n - 1 : f[h] = IF h = 0 THEN value ELSE Above(key, path, h, f[h - 1])
      BY <2>1
    <2>5. ASSUME NEW h \in 0 .. n
          PROVE  g[h] = IF h = 0 THEN value ELSE Above(key, path, h, g[h - 1])
      <3>1. h = n \/ (h \in 0 .. n - 1 /\ (h # 0 => h - 1 \in 0 .. n - 1))
        BY HeightIsNat
      <3> HIDE DEF g
      <3> QED
        BY <2>2, <2>3, <2>4, <3>1
    <2>6. g = [h \in 0 .. n |-> g[h]]
      OBVIOUS
    <2> HIDE DEF g
    <2>7. Is(g, n)
      BY <2>5, <2>6
    <2> HIDE DEF Is
    <2> QED
      BY <2>7, HeightIsNat
  <1>3. Height \in P
    <2> HIDE DEF P
    <2> QED
      BY <1>1, <1>2, HeightIsNat, InductionUpTo
  <1>4. climb = CHOOSE f : Is(f, Height)
    BY DEF Climb, Above, Pair
  <1>5. Is(climb, Height)
    <2> HIDE DEF Is, climb
    <2> QED
      BY <1>3, <1>4
  <1> HIDE DEF climb
  <1>6. \A h \in 0 .. Height : climb[h] = IF h = 0 THEN value ELSE Above(key, path, h, climb[h - 1])
    BY <1>5
  <1>7. climb[0] = value /\ \A h \in 1 .. Height : climb[h] = Above(key, path, h, climb[h - 1])
    BY <1>6, HeightIsNat
  <1> QED
    BY <1>7 DEF climb

LEMMA Shifts ==
  ASSUME NEW leaf \in Nat
  PROVE  /\ Shifted(leaf)[0] = leaf
         /\ \A h \in 0 .. Height : Shifted(leaf)[h] \in Nat
         /\ \A h \in 1 .. Height : Shifted(leaf)[h] = Shifted(leaf)[h - 1] \div 2
  <1> DEFINE Is(f) == f = [h \in 0 .. Height |-> IF h = 0 THEN leaf ELSE f[h - 1] \div 2]
             next  == [p \in (1 .. Height) \X Nat |-> p[2] \div 2]
             index_of == Shifted(leaf)
  <1>1. PICK g : Loops(g, Height, Nat, leaf, next)
    <2>1. Steps(next, 1 .. Height, Nat)
      BY DEF Steps
    <2> HIDE DEF next
    <2> QED
      BY <2>1, HeightIsNat, LoopsExist
  <1>2. g \in [0 .. Height -> Nat] /\ g[0] = leaf
    BY <1>1 DEF Loops
  <1>3. ASSUME NEW h \in 1 .. Height
        PROVE  g[h] = g[h - 1] \div 2
    <2>1. g[h] = next[h, g[h - 1]] /\ g[h - 1] \in Nat
      <3>1. h - 1 \in 0 .. Height
        BY HeightIsNat
      <3> QED
        BY <1>1, <1>2, <3>1 DEF Loops
    <2> QED
      BY <2>1
  <1>4. Is(g)
    <2>1. \A h \in 0 .. Height : h = 0 \/ h \in 1 .. Height
      BY HeightIsNat
    <2> QED
      BY <1>2, <1>3, <2>1
  <1>5. index_of = CHOOSE f : Is(f)
    BY DEF Shifted
  <1>6. Is(index_of)
    <2> HIDE DEF Is, index_of
    <2> QED
      BY <1>4, <1>5
  <1> HIDE DEF index_of
  <1>7. \A h \in 0 .. Height : index_of[h] = IF h = 0 THEN leaf ELSE index_of[h - 1] \div 2
    BY <1>6
  <1> DEFINE P == {h \in 0 .. Height : index_of[h] \in Nat}
  <1>8. 0 .. Height \subseteq P
    <2>1. 0 \in P
      BY <1>7, HeightIsNat
    <2>2. ASSUME NEW h \in 1 .. Height, h - 1 \in P
          PROVE  h \in P
      <3>1. index_of[h] = index_of[h - 1] \div 2 /\ index_of[h - 1] \in Nat
        BY <1>7, <2>2, HeightIsNat
      <3> QED
        BY <3>1
    <2> HIDE DEF P
    <2> QED
      BY <2>1, <2>2, HeightIsNat, InductionUpTo
  <1>9. /\ index_of[0] = leaf /\ \A h \in 0 .. Height : index_of[h] \in Nat
        /\ \A h \in 1 .. Height : index_of[h] = index_of[h - 1] \div 2
    BY <1>7, <1>8, HeightIsNat
  <1> QED
    BY <1>9 DEF index_of
LEMMA LeavesAreNat == Leaves \subseteq Nat
  BY HeightIsNat, Pow2Grows DEF Leaves

(* All leaves are under the root.                                          *)
LEMMA ShiftedToRoot ==
  ASSUME NEW leaf \in Leaves
  PROVE  Shifted(leaf)[Height] = 0
  <1> DEFINE at == Shifted(leaf)
             P == {h \in 0 .. Height : at[h] < Pow2[Height - h]}
  <1>1. leaf \in Nat /\ leaf < Pow2[Height]
    BY LeavesAreNat, HeightIsNat, Pow2Grows DEF Leaves
  <1>2. /\ at[0] = leaf /\ \A h \in 0 .. Height : at[h] \in Nat
        /\ \A h \in 1 .. Height : at[h] = at[h - 1] \div 2
    BY <1>1, Shifts
  <1> HIDE DEF at
  <1>3. 0 \in P
    BY <1>1, <1>2, HeightIsNat
  <1>4. ASSUME NEW h \in 1 .. Height, h - 1 \in P
        PROVE  h \in P
    <2> DEFINE rest == Pow2[Height - h]
    <2>1. Height - h \in Nat /\ Height - h + 1 = Height - (h - 1)
      BY HeightIsNat
    <2>2. Pow2[Height - (h - 1)] = 2 * rest /\ rest \in Nat
      BY <2>1, Pow2Defined, Pow2Grows
    <2>3. at[h - 1] \in Nat /\ at[h] = at[h - 1] \div 2
      BY <1>2, HeightIsNat
    <2>4. at[h - 1] < 2 * rest
      BY <1>4, <2>2
    <2> HIDE DEF rest
    <2>5. at[h] < rest
      BY <2>2, <2>3, <2>4
    <2> QED
      BY <2>5, HeightIsNat DEF rest
  <1>5. Height \in P
    <2> HIDE DEF P
    <2> QED
      BY <1>3, <1>4, HeightIsNat, InductionUpTo
  <1>6. at[Height] < 1 /\ at[Height] \in Nat
    BY <1>2, <1>5, HeightIsNat, Pow2Defined
  <1> QED
    BY <1>6 DEF at

(* The nodes under a root on the way to a leaf.                            *)
LeadsTo(node, root, leaf) ==
    /\ node[Height] = root
    /\ \A h \in 0 .. Height - 1 : node[h] = Branch(node[h + 1], Shifted(leaf)[h] % 2)
    /\ Opened(root)[leaf] = node[0]

LEMMA Opens ==
  ASSUME NEW root, NEW leaf \in Leaves
  PROVE  \E node : LeadsTo(node, root, leaf)
  <1> DEFINE Is(f, n) == f = [h \in Height - n .. Height |->
                                 IF h = Height THEN root ELSE Branch(f[h + 1], Shifted(leaf)[h] % 2)]
             P == {n \in 0 .. Height : \E f : Is(f, n)}
  <1>1. 0 \in P
    <2> DEFINE f == [h \in Height - 0 .. Height |-> root]
    <2>1. \A h \in Height - 0 .. Height : h = Height
      BY HeightIsNat
    <2>2. Is(f, 0)
      BY <2>1
    <2> HIDE DEF f, Is
    <2> QED
      BY <2>2, HeightIsNat
  <1>2. ASSUME NEW n \in 1 .. Height, n - 1 \in P
        PROVE  n \in P
    <2>1. PICK f : Is(f, n - 1)
      BY <1>2
    <2> DEFINE k == Height - n
               last == Branch(f[k + 1], Shifted(leaf)[k] % 2)
               g == [h \in k .. Height |-> IF h = k THEN last ELSE f[h]]
    <2>2. k \in Nat /\ k < Height /\ Height - (n - 1) = k + 1
      BY HeightIsNat
    <2>3. \A h \in k + 1 .. Height : f[h] = IF h = Height THEN root
                                            ELSE Branch(f[h + 1], Shifted(leaf)[h] % 2)
      BY <2>1, <2>2
    <2> HIDE DEF k
    <2>4. \A h \in k + 1 .. Height : g[h] = f[h]
      BY <2>2, HeightIsNat
    <2>5. g[k] = last /\ k # Height /\ k + 1 \in k + 1 .. Height
      BY <2>2, HeightIsNat
    <2>6. ASSUME NEW h \in k .. Height
          PROVE  g[h] = IF h = Height THEN root ELSE Branch(g[h + 1], Shifted(leaf)[h] % 2)
      <3>1. h = k \/ (h \in k + 1 .. Height /\ (h # Height => h + 1 \in k + 1 .. Height))
        BY <2>2, HeightIsNat
      <3> HIDE DEF g
      <3> QED
        BY <2>3, <2>4, <2>5, <3>1
    <2>7. g = [h \in k .. Height |-> g[h]]
      OBVIOUS
    <2> HIDE DEF g
    <2>8. Is(g, n)
      BY <2>6, <2>7 DEF k
    <2> HIDE DEF Is
    <2> QED
      BY <2>8, HeightIsNat
  <1>3. Height \in P
    <2> HIDE DEF P
    <2> QED
      BY <1>1, <1>2, HeightIsNat, InductionUpTo
  <1> DEFINE Whole(f) == f = [h \in 0 .. Height |->
                                 IF h = Height THEN root ELSE Branch(f[h + 1], Shifted(leaf)[h] % 2)]
             node == CHOOSE f : Whole(f)
  <1>4. \E f : Whole(f)
    <2>1. Height - Height = 0
      BY HeightIsNat
    <2> QED
      BY <1>3, <2>1
  <1>5. Opened(root)[leaf] = node[0]
    BY DEF Opened, Branch
  <1>6. Whole(node)
    <2> HIDE DEF Whole
    <2> QED
      BY <1>4
  <1> HIDE DEF node
  <1>7. \A h \in 0 .. Height : node[h] = IF h = Height THEN root
                                         ELSE Branch(node[h + 1], Shifted(leaf)[h] % 2)
    BY <1>6
  <1>8. node[Height] = root /\ \A h \in 0 .. Height - 1 :
           node[h] = Branch(node[h + 1], Shifted(leaf)[h] % 2)
    BY <1>7, HeightIsNat
  <1> QED
    BY <1>5, <1>8 DEF LeadsTo

LEMMA OpenedIsFunction ==
  ASSUME NEW root
  PROVE  Opened(root) = [l \in Leaves |-> Opened(root)[l]]
  BY SMTT(30) DEF Opened
-----------------------------------------------------------------------------
(* What a climb leads to opens to the value it started from, and to what   *)
(* any other climb along these siblings leads to everywhere else.          *)
IndexTyped == index \in [Keys -> Leaves]

LEMMA Ancestors ==
  ASSUME IndexTyped, NEW key \in Keys
  PROVE  /\ Ancestor(key, 0) = index[key] /\ Ancestor(key, Height) = 0
         /\ \A h \in 0 .. Height : Ancestor(key, h) \in Nat
         /\ \A h \in 1 .. Height : Ancestor(key, h) = Ancestor(key, h - 1) \div 2
  <1>1. index[key] \in Leaves /\ index[key] \in Nat
    BY LeavesAreNat DEF IndexTyped
  <1> QED
    BY <1>1, Shifts, ShiftedToRoot DEF Ancestor

LEMMA ClimbBranches ==
  ASSUME IndexTyped, NEW key \in Keys, NEW value, NEW path, NEW h \in 1 .. Height
  PROVE  /\ Branch(Climb(key, value, path)[h], Ancestor(key, h - 1) % 2)
              = Climb(key, value, path)[h - 1]
         /\ Branch(Climb(key, value, path)[h], 1 - (Ancestor(key, h - 1) % 2)) = path[h - 1]
  <1> DEFINE climb == Climb(key, value, path)
             up == Ancestor(key, h - 1)
  <1>1. up \in Nat
    BY Ancestors, HeightIsNat
  <1>2. climb[h] = IF up % 2 = 1 THEN Pair(path[h - 1], climb[h - 1]) ELSE Pair(climb[h - 1], path[h - 1])
    BY Climbs DEF Above
  <1> HIDE DEF climb, up
  <1>3. up % 2 = 0 \/ up % 2 = 1
    BY <1>1
  <1>4. CASE up % 2 = 1
    <2>1. climb[h] = Pair(path[h - 1], climb[h - 1]) /\ 1 - (up % 2) = 0
      BY <1>2, <1>4
    <2> QED
      BY <1>4, <2>1, HashOfPair DEF climb, up
  <1>5. CASE up % 2 = 0
    <2>1. climb[h] = Pair(climb[h - 1], path[h - 1]) /\ 1 - (up % 2) = 1
      BY <1>2, <1>5
    <2> QED
      BY <1>5, <2>1, HashOfPair DEF climb, up
  <1> QED
    BY <1>3, <1>4, <1>5

LEMMA ClimbOpens ==
  ASSUME IndexTyped, NEW key \in Keys, NEW value, NEW path
  PROVE  Opened(Climb(key, value, path)[Height])[index[key]] = value
  <1> DEFINE climb == Climb(key, value, path)
             root  == climb[Height]
             leaf  == index[key]
  <1>1. leaf \in Leaves
    BY DEF IndexTyped
  <1>2. PICK node : LeadsTo(node, root, leaf)
    BY <1>1, Opens
  <1>3. \A h \in 1 .. Height : Branch(climb[h], Ancestor(key, h - 1) % 2) = climb[h - 1]
    BY ClimbBranches
  <1>4. climb[0] = value
    BY Climbs
  <1> HIDE DEF climb
  <1> DEFINE P == {n \in 0 .. Height : node[Height - n] = climb[Height - n]}
  <1>5. 0 \in P
    BY <1>2, HeightIsNat DEF LeadsTo
  <1>6. ASSUME NEW n \in 1 .. Height, n - 1 \in P
        PROVE  n \in P
    <2> DEFINE k == Height - n
    <2>1. k \in 0 .. Height - 1 /\ k + 1 = Height - (n - 1) /\ k + 1 \in 1 .. Height /\ k + 1 - 1 = k
      BY HeightIsNat
    <2>2. node[k + 1] = climb[k + 1]
      BY <1>6, <2>1
    <2> HIDE DEF k
    <2>3. node[k] = Branch(node[k + 1], Ancestor(key, k) % 2)
      BY <1>2, <2>1 DEF LeadsTo, Ancestor
    <2>4. Branch(climb[k + 1], Ancestor(key, k) % 2) = climb[k]
      BY <1>3, <2>1
    <2>5. node[k] = climb[k]
      BY <2>2, <2>3, <2>4
    <2> QED
      BY <2>5, HeightIsNat DEF k
  <1>7. Height \in P
    <2> HIDE DEF P
    <2> QED
      BY <1>5, <1>6, HeightIsNat, InductionUpTo
  <1>8. node[0] = climb[0]
    <2>1. Height - Height = 0
      BY HeightIsNat
    <2> QED
      BY <1>7, <2>1
  <1> QED
    BY <1>2, <1>4, <1>8 DEF LeadsTo, climb

LEMMA Halves ==
  ASSUME NEW a \in Nat, NEW b \in Nat, a \div 2 = b \div 2
  PROVE  a = b <=> a % 2 = b % 2
  OBVIOUS

LEMMA ClimbsOpenAlike ==
  ASSUME IndexTyped, NEW key \in Keys, NEW x, NEW y, NEW path, NEW leaf \in Leaves, leaf # index[key]
  PROVE  Opened(Climb(key, x, path)[Height])[leaf] = Opened(Climb(key, y, path)[Height])[leaf]
  <1> DEFINE cx == Climb(key, x, path)
             cy == Climb(key, y, path)
             at == Shifted(leaf)
             up(h) == Ancestor(key, h)
  <1>1. /\ at[0] = leaf /\ at[Height] = 0 /\ \A h \in 0 .. Height : at[h] \in Nat
        /\ \A h \in 1 .. Height : at[h] = at[h - 1] \div 2
    BY Shifts, ShiftedToRoot, LeavesAreNat
  <1>2. /\ up(0) = index[key] /\ up(Height) = 0 /\ \A h \in 0 .. Height : up(h) \in Nat
        /\ \A h \in 1 .. Height : up(h) = up(h - 1) \div 2
    BY Ancestors
  <1>3. PICK nx : LeadsTo(nx, cx[Height], leaf)
    BY Opens
  <1>4. PICK ny : LeadsTo(ny, cy[Height], leaf)
    BY Opens
  <1>5. \A h \in 1 .. Height : /\ Branch(cx[h], up(h - 1) % 2) = cx[h - 1]
                               /\ Branch(cx[h], 1 - (up(h - 1) % 2)) = path[h - 1]
                               /\ Branch(cy[h], up(h - 1) % 2) = cy[h - 1]
                               /\ Branch(cy[h], 1 - (up(h - 1) % 2)) = path[h - 1]
    BY ClimbBranches
  <1>6. /\ nx[Height] = cx[Height] /\ Opened(cx[Height])[leaf] = nx[0]
        /\ \A h \in 0 .. Height - 1 : nx[h] = Branch(nx[h + 1], at[h] % 2)
    BY <1>3 DEF LeadsTo
  <1>7. /\ ny[Height] = cy[Height] /\ Opened(cy[Height])[leaf] = ny[0]
        /\ \A h \in 0 .. Height - 1 : ny[h] = Branch(ny[h + 1], at[h] % 2)
    BY <1>4 DEF LeadsTo
  <1> HIDE DEF cx, cy, at, up
  <1> DEFINE Alike(h) == IF at[h] = up(h) THEN nx[h] = cx[h] /\ ny[h] = cy[h] ELSE nx[h] = ny[h]
             P == {n \in 0 .. Height : Alike(Height - n)}
  <1>8. 0 \in P
    BY <1>1, <1>2, <1>6, <1>7, HeightIsNat
  <1>9. ASSUME NEW n \in 1 .. Height, n - 1 \in P
        PROVE  n \in P
    <2> DEFINE k == Height - n
               bit == at[k] % 2
               way == up(k) % 2
    <2>1. k \in 0 .. Height - 1 /\ k + 1 = Height - (n - 1) /\ k + 1 \in 1 .. Height /\ k + 1 - 1 = k
          /\ k \in 0 .. Height
      BY HeightIsNat
    <2>2. Alike(k + 1)
      BY <1>9, <2>1
    <2> HIDE DEF k
    <2>3. /\ nx[k] = Branch(nx[k + 1], bit) /\ ny[k] = Branch(ny[k + 1], bit)
          /\ Branch(cx[k + 1], way) = cx[k] /\ Branch(cx[k + 1], 1 - way) = path[k]
          /\ Branch(cy[k + 1], way) = cy[k] /\ Branch(cy[k + 1], 1 - way) = path[k]
      BY <1>5, <1>6, <1>7, <2>1
    <2>4. /\ at[k] \in Nat /\ up(k) \in Nat
          /\ at[k + 1] = at[k] \div 2 /\ up(k + 1) = up(k) \div 2
      BY <1>1, <1>2, <2>1
    <2>5. CASE at[k + 1] # up(k + 1)
      <3>1. at[k] # up(k)
        BY <2>4, <2>5
      <3>2. nx[k + 1] = ny[k + 1]
        BY <2>2, <2>5
      <3> QED
        BY <2>3, <3>1, <3>2 DEF k
    <2>6. CASE at[k + 1] = up(k + 1)
      <3>1. nx[k + 1] = cx[k + 1] /\ ny[k + 1] = cy[k + 1]
        BY <2>2, <2>6
      <3>2. at[k] = up(k) <=> bit = way
        BY <2>4, <2>6, Halves
      <3>3. bit \in {0, 1} /\ way \in {0, 1}
        BY <2>4
      <3> HIDE DEF bit, way
      <3>4. bit = way \/ bit = 1 - way
        BY <3>3
      <3>5. Alike(k)
        BY <2>3, <3>1, <3>2, <3>4
      <3> QED
        BY <3>5 DEF k
    <2> QED
      BY <2>5, <2>6
  <1>10. Height \in P
    <2> HIDE DEF P
    <2> QED
      BY <1>8, <1>9, HeightIsNat, InductionUpTo
  <1>11. Alike(0)
    <2>1. Height - Height = 0
      BY HeightIsNat
    <2> QED
      BY <1>10, <2>1
  <1>12. nx[0] = ny[0]
    BY <1>1, <1>2, <1>11
  <1> QED
    BY <1>6, <1>7, <1>12 DEF cx, cy

(* Two climbs along one path: the second root is the first one with the    *)
(* second value put at the leaf.                                           *)
LEMMA ClimbPuts ==
  ASSUME IndexTyped, NEW key \in Keys, NEW x, NEW y, NEW path
  PROVE  Opened(Climb(key, y, path)[Height])
           = [Opened(Climb(key, x, path)[Height]) EXCEPT ![index[key]] = y]
  <1> DEFINE old == Opened(Climb(key, x, path)[Height])
             new == Opened(Climb(key, y, path)[Height])
  <1>1. old = [l \in Leaves |-> old[l]] /\ new = [l \in Leaves |-> new[l]]
    BY OpenedIsFunction
  <1>2. new[index[key]] = y
    BY ClimbOpens
  <1>3. \A l \in Leaves : l # index[key] => new[l] = old[l]
    BY ClimbsOpenAlike
  <1> HIDE DEF old, new
  <1> QED
    BY <1>1, <1>2, <1>3 DEF old, new
-----------------------------------------------------------------------------
(* The nodes that are stored, and the default ones elsewhere, are the tree *)
(* of hashes over the leaves.  Only leaves of keys are stored.             *)
Node(m, h, i) == IF h = Height THEN m.root
                 ELSE IF <<h, i>> \in DOMAIN m.nodes THEN m.nodes[<<h, i>>] ELSE DefaultNode[h]

Indices(h) == IF h = Height THEN {0} ELSE Nat

IsTree(m) == \A h \in 1 .. Height : \A i \in Indices(h) :
                Node(m, h, i) = Pair(Node(m, h - 1, 2 * i), Node(m, h - 1, 2 * i + 1))

StoresKeys(m) == \A i \in Nat : <<0, i>> \in DOMAIN m.nodes => \E key \in Keys : index[key] = i

TellsLeaves(m) == IsInjective(index) => \A key \in Keys : Get(m, key) = Node(m, 0, index[key])

HoldsTree(m) == IsTree(m) /\ StoresKeys(m) /\ TellsLeaves(m)

LEMMA NewHoldsTree ==
  ASSUME IndexTyped
  PROVE  HoldsTree(New)
  <1>1. New.root = DefaultNode[Height] /\ DOMAIN New.nodes = {} /\ DOMAIN New.map = {}
    BY DEF New
  <1>2. \A h \in 0 .. Height, i \in Nat : Node(New, h, i) = DefaultNode[h]
    BY <1>1 DEF Node
  <1>3. IsTree(New)
    <2>1. ASSUME NEW h \in 1 .. Height, NEW i \in Indices(h)
          PROVE  Node(New, h, i) = Pair(Node(New, h - 1, 2 * i), Node(New, h - 1, 2 * i + 1))
      <3>1. i \in Nat /\ 2 * i \in Nat /\ 2 * i + 1 \in Nat /\ h \in 0 .. Height /\ h - 1 \in 0 .. Height
        BY HeightIsNat DEF Indices
      <3> QED
        BY <1>2, <3>1, DefaultNodes
    <2> QED
      BY <2>1 DEF IsTree
  <1>4. StoresKeys(New)
    BY <1>1 DEF StoresKeys
  <1>5. TellsLeaves(New)
    <2>1. ASSUME NEW key \in Keys
          PROVE  Get(New, key) = Node(New, 0, index[key])
      <3>1. index[key] \in Nat
        <4>1. index[key] \in Leaves
          BY DEF IndexTyped
        <4> QED
          BY <4>1, LeavesAreNat
      <3>2. 0 \in 0 .. Height
        BY HeightIsNat
      <3> QED
        BY <1>1, <1>2, <3>1, <3>2, DefaultNodes DEF Get
    <2> QED
      BY <2>1 DEF TellsLeaves
  <1> QED
    BY <1>3, <1>4, <1>5 DEF HoldsTree

(* The sibling of a node is the other child of the node above.             *)
LEMMA Siblings ==
  ASSUME NEW a \in Nat
  PROVE  /\ a % 2 = 1 => a = 2 * (a \div 2) + 1 /\ a + 1 - 2 * (a % 2) = 2 * (a \div 2)
         /\ a % 2 # 1 => a = 2 * (a \div 2) /\ a + 1 - 2 * (a % 2) = 2 * (a \div 2) + 1
  OBVIOUS

(* From where it is, a tree is climbed along its own nodes.                *)
LEMMA PathIsOfNodes ==
  ASSUME NEW m, NEW key, NEW h \in 0 .. Height - 1
  PROVE  Path(m, key)[h] = Node(m, h, Ancestor(key, h) + 1 - 2 * (Ancestor(key, h) % 2))
  <1>1. h # Height
    BY HeightIsNat
  <1> QED
    BY <1>1 DEF Path, Sibling, Node

LEMMA HonestClimb ==
  ASSUME IndexTyped, NEW m, IsTree(m), NEW key \in Keys
  PROVE  Climb(key, Node(m, 0, index[key]), Path(m, key))[Height] = m.root
  <1> DEFINE climb == Climb(key, Node(m, 0, index[key]), Path(m, key))
             up(h) == Ancestor(key, h)
             P == {h \in 0 .. Height : climb[h] = Node(m, h, up(h))}
  <1>1. /\ up(0) = index[key] /\ up(Height) = 0 /\ \A h \in 0 .. Height : up(h) \in Nat
        /\ \A h \in 1 .. Height : up(h) = up(h - 1) \div 2
    BY Ancestors
  <1>2. 0 \in P
    BY <1>1, Climbs, HeightIsNat
  <1>3. ASSUME NEW h \in 1 .. Height, h - 1 \in P
        PROVE  h \in P
    <2> DEFINE a == up(h - 1)
    <2>1. h - 1 \in 0 .. Height - 1 /\ h \in 0 .. Height
      BY HeightIsNat
    <2>2. a \in Nat /\ up(h) = a \div 2 /\ up(h) \in Indices(h)
      BY <1>1, <2>1, HeightIsNat DEF Indices
    <2>3. climb[h - 1] = Node(m, h - 1, a)
      BY <1>3
    <2>4. Path(m, key)[h - 1] = Node(m, h - 1, a + 1 - 2 * (a % 2))
      BY <2>1, PathIsOfNodes
    <2>5. climb[h] = IF a % 2 = 1 THEN Pair(Path(m, key)[h - 1], climb[h - 1])
                     ELSE Pair(climb[h - 1], Path(m, key)[h - 1])
      BY Climbs DEF Above
    <2>6. Node(m, h, up(h)) = Pair(Node(m, h - 1, 2 * up(h)), Node(m, h - 1, 2 * up(h) + 1))
      BY <2>2 DEF IsTree
    <2> HIDE DEF a, climb, up
    <2>7. climb[h] = Node(m, h, up(h))
      <3>1. CASE a % 2 = 1
        <4>1. a = 2 * up(h) + 1 /\ a + 1 - 2 * (a % 2) = 2 * up(h)
          BY <2>2, <3>1, Siblings
        <4> QED
          BY <2>3, <2>4, <2>5, <2>6, <3>1, <4>1
      <3>2. CASE a % 2 # 1
        <4>1. a = 2 * up(h) /\ a + 1 - 2 * (a % 2) = 2 * up(h) + 1
          BY <2>2, <3>2, Siblings
        <4> QED
          BY <2>3, <2>4, <2>5, <2>6, <3>2, <4>1
      <3> QED
        BY <3>1, <3>2
    <2> QED
      BY <2>1, <2>7
  <1>4. Height \in P
    <2> HIDE DEF P
    <2> QED
      BY <1>2, <1>3, HeightIsNat, InductionUpTo
  <1>5. climb[Height] = m.root
    BY <1>4 DEF Node
  <1> QED
    BY <1>5
(* An insertion replaces the nodes over its leaf and no other.             *)
LEMMA InsertedNodes ==
  ASSUME IndexTyped, NEW m, NEW key \in Keys, NEW value, NEW h \in 0 .. Height, NEW i \in Indices(h)
  PROVE  Node(Inserted(m, key, value), h, i)
           = IF i = Ancestor(key, h) THEN Climb(key, value, Path(m, key))[h] ELSE Node(m, h, i)
  <1> DEFINE climb == Climb(key, value, Path(m, key))
             entries == [n \in OnPath(key) |-> climb[n[1]]]
             new == Inserted(m, key, value)
  <1>1. new.root = climb[Height] /\ new.nodes = With(entries, m.nodes)
    BY DEF Inserted
  <1>2. CASE h = Height
    <2>1. i = 0 /\ Ancestor(key, h) = 0
      BY <1>2, Ancestors DEF Indices
    <2> QED
      BY <1>1, <1>2, <2>1 DEF Node
  <1>3. CASE h # Height
    <2>1. h \in 0 .. Height - 1
      BY <1>3, HeightIsNat
    <2>2. <<h, i>> \in OnPath(key) <=> i = Ancestor(key, h)
      BY <2>1 DEF OnPath
    <2>3. DOMAIN entries = OnPath(key)
      OBVIOUS
    <2>4. <<h, i>> \in OnPath(key) => entries[<<h, i>>] = climb[h]
      OBVIOUS
    <2> DEFINE n == <<h, i>>
    <2> HIDE DEF entries, climb, new, n
    <2>5. DOMAIN new.nodes = OnPath(key) \cup DOMAIN m.nodes
      BY <1>1, <2>3 DEF With
    <2>6. n \in OnPath(key) => new.nodes[n] = entries[n]
      BY <1>1, <2>3 DEF With
    <2>7. n \notin OnPath(key) /\ n \in DOMAIN m.nodes => new.nodes[n] = m.nodes[n]
      BY <1>1, <2>3 DEF With
    <2>8. Node(new, h, i) = IF n \in DOMAIN new.nodes THEN new.nodes[n] ELSE DefaultNode[h]
      BY <1>3 DEF Node, n
    <2>9. Node(m, h, i) = IF n \in DOMAIN m.nodes THEN m.nodes[n] ELSE DefaultNode[h]
      BY <1>3 DEF Node, n
    <2>10. CASE n \in OnPath(key)
      <3>1. Node(new, h, i) = climb[h]
        BY <2>4, <2>5, <2>6, <2>8, <2>10 DEF n
      <3> QED
        BY <2>2, <2>10, <3>1 DEF n, new, climb
    <2>11. CASE n \notin OnPath(key)
      <3>1. Node(new, h, i) = Node(m, h, i)
        BY <2>5, <2>7, <2>8, <2>9, <2>11
      <3> QED
        BY <2>2, <2>11, <3>1 DEF n, new
    <2> QED
      BY <2>10, <2>11
  <1> QED
    BY <1>2, <1>3

LEMMA InsertedIsTree ==
  ASSUME IndexTyped, NEW m, IsTree(m), NEW key \in Keys, NEW value
  PROVE  IsTree(Inserted(m, key, value))
  <1> DEFINE climb == Climb(key, value, Path(m, key))
             new == Inserted(m, key, value)
             up(h) == Ancestor(key, h)
  <1>1. /\ up(Height) = 0 /\ \A h \in 0 .. Height : up(h) \in Nat
        /\ \A h \in 1 .. Height : up(h) = up(h - 1) \div 2
    BY Ancestors
  <1>2. \A h \in 0 .. Height : \A i \in Indices(h) :
           Node(new, h, i) = IF i = up(h) THEN climb[h] ELSE Node(m, h, i)
    BY ZenonT(40), InsertedNodes
  <1>3. \A h \in 1 .. Height :
           climb[h] = IF up(h - 1) % 2 = 1 THEN Pair(Path(m, key)[h - 1], climb[h - 1])
                      ELSE Pair(climb[h - 1], Path(m, key)[h - 1])
    BY Climbs DEF Above
  <1>4. \A h \in 0 .. Height - 1 : Path(m, key)[h] = Node(m, h, up(h) + 1 - 2 * (up(h) % 2))
    BY PathIsOfNodes
  <1> HIDE DEF climb, new, up
  <1>5. ASSUME NEW h \in 1 .. Height, NEW i \in Indices(h)
        PROVE  Node(new, h, i) = Pair(Node(new, h - 1, 2 * i), Node(new, h - 1, 2 * i + 1))
    <2> DEFINE a == up(h - 1)
               l == 2 * i
               r == 2 * i + 1
    <2>1. h - 1 \in 0 .. Height - 1 /\ h \in 0 .. Height /\ h - 1 \in 0 .. Height /\ h - 1 # Height
      BY HeightIsNat
    <2>2. i \in Nat /\ l \in Nat /\ r \in Nat /\ l # r /\ Indices(h - 1) = Nat
      BY <2>1 DEF Indices
    <2>3. a \in Nat /\ up(h) = a \div 2
      BY <1>1, <2>1
    <2>4. /\ Node(new, h - 1, l) = IF l = a THEN climb[h - 1] ELSE Node(m, h - 1, l)
          /\ Node(new, h - 1, r) = IF r = a THEN climb[h - 1] ELSE Node(m, h - 1, r)
      <3> HIDE DEF a, l, r
      <3>1. l \in Indices(h - 1) /\ r \in Indices(h - 1)
        BY <2>2
      <3> QED
        BY <1>2, <2>1, <3>1 DEF a
    <2>5. Node(m, h, i) = Pair(Node(m, h - 1, l), Node(m, h - 1, r))
      BY DEF IsTree
    <2>6. Node(new, h, i) = IF i = up(h) THEN climb[h] ELSE Node(m, h, i)
      BY <1>2, <2>1
    <2>7. CASE i # up(h)
      <3>1. l # a /\ r # a
        BY <2>2, <2>3, <2>7
      <3> HIDE DEF a, l, r
      <3> QED
        BY <2>4, <2>5, <2>6, <2>7, <3>1 DEF l, r
    <2>8. CASE i = up(h) /\ a % 2 = 1
      <3>1. a = r /\ a + 1 - 2 * (a % 2) = l
        BY <2>3, <2>8, Siblings
      <3>2. climb[h] = Pair(Path(m, key)[h - 1], climb[h - 1])
        BY <1>3, <2>8
      <3>3. Path(m, key)[h - 1] = Node(m, h - 1, a + 1 - 2 * (a % 2))
        BY <1>4, <2>1
      <3> HIDE DEF a, l, r
      <3> QED
        BY <2>2, <2>4, <2>6, <2>8, <3>1, <3>2, <3>3 DEF l, r
    <2>9. CASE i = up(h) /\ a % 2 # 1
      <3>1. a = l /\ a + 1 - 2 * (a % 2) = r
        BY <2>3, <2>9, Siblings
      <3>2. climb[h] = Pair(climb[h - 1], Path(m, key)[h - 1])
        BY <1>3, <2>9
      <3>3. Path(m, key)[h - 1] = Node(m, h - 1, a + 1 - 2 * (a % 2))
        BY <1>4, <2>1
      <3> HIDE DEF a, l, r
      <3> QED
        BY <2>2, <2>4, <2>6, <2>9, <3>1, <3>2, <3>3 DEF l, r
    <2> QED
      BY <2>7, <2>8, <2>9
  <1> QED
    BY <1>5 DEF IsTree, new

LEMMA InsertedMap ==
  ASSUME NEW m, NEW key, NEW value, NEW other
  PROVE  Get(Inserted(m, key, value), other) = IF other = key THEN value ELSE Get(m, other)
  <1> DEFINE entries == [k \in {key} |-> value]
             new == Inserted(m, key, value)
  <1>1. new.map = With(entries, m.map)
    BY DEF Inserted
  <1>2. DOMAIN entries = {key} /\ entries[key] = value
    OBVIOUS
  <1> HIDE DEF entries, new
  <1>3. DOMAIN new.map = {key} \cup DOMAIN m.map
    BY <1>1, <1>2 DEF With
  <1>4. new.map[key] = value
    BY <1>1, <1>2 DEF With
  <1>5. other # key /\ other \in DOMAIN m.map => new.map[other] = m.map[other]
    BY <1>1, <1>2 DEF With
  <1> QED
    BY <1>3, <1>4, <1>5 DEF Get, new

LEMMA InsertedHoldsTree ==
  ASSUME IndexTyped, NEW m, HoldsTree(m), NEW key \in Keys, NEW value
  PROVE  HoldsTree(Inserted(m, key, value))
  <1> DEFINE new == Inserted(m, key, value)
             entries == [n \in OnPath(key) |-> Climb(key, value, Path(m, key))[n[1]]]
  <1>1. IsTree(new)
    BY InsertedIsTree DEF HoldsTree
  <1>2. StoresKeys(new)
    <2>1. new.nodes = With(entries, m.nodes)
      BY DEF Inserted
    <2>2. DOMAIN entries = OnPath(key)
      OBVIOUS
    <2> HIDE DEF entries, new
    <2>3. DOMAIN new.nodes = OnPath(key) \cup DOMAIN m.nodes
      BY <2>1, <2>2 DEF With
    <2>4. ASSUME NEW i \in Nat, <<0, i>> \in DOMAIN new.nodes
          PROVE  \E k \in Keys : index[k] = i
      <3>1. CASE <<0, i>> \in DOMAIN m.nodes
        BY <3>1 DEF HoldsTree, StoresKeys
      <3>2. CASE <<0, i>> \in OnPath(key)
        <4>1. i = Ancestor(key, 0)
          BY <3>2 DEF OnPath
        <4> QED
          BY <4>1, Ancestors
      <3> QED
        BY <2>3, <2>4, <3>1, <3>2
    <2> QED
      BY <2>4 DEF StoresKeys
  <1>3. TellsLeaves(new)
    <2>1. ASSUME IsInjective(index), NEW k \in Keys
          PROVE  Get(new, k) = Node(new, 0, index[k])
      <3> HIDE DEF new
      <3>1. index[k] \in Leaves /\ DOMAIN index = Keys
        BY DEF IndexTyped
      <3>2. index[k] \in Indices(0) /\ 0 \in 0 .. Height
        <4>1. Indices(0) = Nat
          BY HeightIsNat DEF Indices
        <4>2. index[k] \in Nat
          BY <3>1, LeavesAreNat
        <4>3. 0 \in 0 .. Height
          BY HeightIsNat
        <4> QED
          BY <4>1, <4>2, <4>3
      <3>3. Node(new, 0, index[k]) = IF index[k] = Ancestor(key, 0)
                                     THEN Climb(key, value, Path(m, key))[0] ELSE Node(m, 0, index[k])
        BY ZenonT(40), <3>2, InsertedNodes DEF new
      <3>4. Ancestor(key, 0) = index[key] /\ Climb(key, value, Path(m, key))[0] = value
        BY Ancestors, Climbs
      <3>5. Get(new, k) = IF k = key THEN value ELSE Get(m, k)
        BY InsertedMap DEF new
      <3>6. Get(m, k) = Node(m, 0, index[k])
        BY <2>1 DEF HoldsTree, TellsLeaves
      <3>7. index[k] = index[key] <=> k = key
        BY <2>1, <3>1 DEF IsInjective
      <3> QED
        BY <3>3, <3>4, <3>5, <3>6, <3>7
    <2> QED
      BY <2>1 DEF TellsLeaves
  <1> QED
    BY <1>1, <1>2, <1>3 DEF HoldsTree
(* The root of a tree opens to its leaves.                                 *)
LEMMA TreeOpens ==
  ASSUME NEW m, IsTree(m), NEW leaf \in Leaves
  PROVE  Opened(m.root)[leaf] = Node(m, 0, leaf)
  <1> DEFINE at == Shifted(leaf)
             tree(h) == Node(m, h, at[h])
  <1>1. /\ at[0] = leaf /\ at[Height] = 0 /\ \A h \in 0 .. Height : at[h] \in Nat
        /\ \A h \in 1 .. Height : at[h] = at[h - 1] \div 2
    BY Shifts, ShiftedToRoot, LeavesAreNat
  <1>2. PICK node : LeadsTo(node, m.root, leaf)
    BY Opens
  <1>3. /\ node[Height] = m.root /\ Opened(m.root)[leaf] = node[0]
        /\ \A h \in 0 .. Height - 1 : node[h] = Branch(node[h + 1], at[h] % 2)
    BY <1>2 DEF LeadsTo
  <1>4. tree(Height) = m.root
    BY DEF Node
  <1> HIDE DEF at
  <1>5. ASSUME NEW h \in 0 .. Height - 1
        PROVE  tree(h) = Branch(tree(h + 1), at[h] % 2)
    <2> DEFINE a == at[h]
               i == at[h + 1]
    <2>1. h + 1 \in 1 .. Height /\ h \in 0 .. Height /\ h + 1 \in 0 .. Height /\ h + 1 - 1 = h
      BY HeightIsNat
    <2>2. a \in Nat /\ i = a \div 2 /\ i \in Nat
      BY <1>1, <2>1
    <2>3. i \in Indices(h + 1)
      BY <1>1, <2>2 DEF Indices
    <2>4. Node(m, h + 1, i) = Pair(Node(m, h, 2 * i), Node(m, h, 2 * i + 1))
      BY <2>1, <2>3 DEF IsTree
    <2>5. CASE a % 2 = 1
      <3>1. a = 2 * i + 1
        BY <2>2, <2>5, Siblings
      <3> HIDE DEF a, i
      <3>2. Branch(Node(m, h + 1, i), 1) = Node(m, h, a)
        BY <2>4, <3>1, HashOfPair
      <3> QED
        BY <2>5, <3>2 DEF a, i
    <2>6. CASE a % 2 # 1
      <3>1. a = 2 * i /\ a % 2 = 0
        BY <2>2, <2>6, Siblings
      <3> HIDE DEF a, i
      <3>2. Branch(Node(m, h + 1, i), 0) = Node(m, h, a)
        BY <2>4, <3>1, HashOfPair
      <3> QED
        BY <3>1, <3>2 DEF a, i
    <2> QED
      BY <2>5, <2>6
  <1> HIDE DEF tree
  <1> DEFINE P == {n \in 0 .. Height : node[Height - n] = tree(Height - n)}
  <1>6. 0 \in P
    BY <1>3, <1>4, HeightIsNat
  <1>7. ASSUME NEW n \in 1 .. Height, n - 1 \in P
        PROVE  n \in P
    <2> DEFINE k == Height - n
    <2>1. k \in 0 .. Height - 1 /\ k + 1 = Height - (n - 1)
      BY HeightIsNat
    <2>2. node[k + 1] = tree(k + 1)
      BY <1>7, <2>1
    <2> HIDE DEF k
    <2>3. node[k] = tree(k)
      BY <1>3, <1>5, <2>1, <2>2
    <2> QED
      BY <2>3, HeightIsNat DEF k
  <1>8. Height \in P
    <2> HIDE DEF P
    <2> QED
      BY <1>6, <1>7, HeightIsNat, InductionUpTo
  <1>9. node[0] = tree(0)
    <2>1. Height - Height = 0
      BY HeightIsNat
    <2> QED
      BY <1>8, <2>1
  <1> QED
    BY <1>1, <1>3, <1>9 DEF tree

LEMMA NewOpens ==
  ASSUME IndexTyped
  PROVE  Opened(New.root) = [l \in Leaves |-> Default]
  <1>1. ASSUME NEW l \in Leaves
        PROVE  Opened(New.root)[l] = Default
    <2>1. Opened(New.root)[l] = Node(New, 0, l)
      BY NewHoldsTree, TreeOpens DEF HoldsTree
    <2>2. Node(New, 0, l) = DefaultNode[0]
      BY HeightIsNat DEF Node, New
    <2> QED
      BY <2>1, <2>2, DefaultNodes
  <1> DEFINE contents == Opened(New.root)
  <1>2. contents = [l \in Leaves |-> contents[l]]
    BY OpenedIsFunction
  <1> HIDE DEF contents
  <1> QED
    BY <1>1, <1>2 DEF contents

(* An honest insertion puts a value at a leaf.                             *)
LEMMA InsertedOpens ==
  ASSUME IndexTyped, NEW m, IsTree(m), NEW key \in Keys, NEW value
  PROVE  Opened(Inserted(m, key, value).root) = [Opened(m.root) EXCEPT ![index[key]] = value]
  <1>1. Inserted(m, key, value).root = Climb(key, value, Path(m, key))[Height]
    BY DEF Inserted
  <1>2. m.root = Climb(key, Node(m, 0, index[key]), Path(m, key))[Height]
    BY HonestClimb
  <1> QED
    BY <1>1, <1>2, ClimbPuts

(* Trees with the same leaves are the same.                                *)
LEMMA SameRoots ==
  ASSUME IndexTyped, IsInjective(index), NEW m, HoldsTree(m), NEW n, HoldsTree(n)
  PROVE  m.root = n.root <=> \A key \in Keys : Get(m, key) = Get(n, key)
  <1>1. ASSUME NEW key \in Keys
        PROVE  /\ Get(m, key) = Opened(m.root)[index[key]]
               /\ Get(n, key) = Opened(n.root)[index[key]]
    <2>1. index[key] \in Leaves
      BY DEF IndexTyped
    <2> QED
      BY <2>1, TreeOpens DEF HoldsTree, TellsLeaves
  <1>2. m.root = n.root => \A key \in Keys : Get(m, key) = Get(n, key)
    BY <1>1
  <1>3. ASSUME \A key \in Keys : Get(m, key) = Get(n, key)
        PROVE  m.root = n.root
    <2> DEFINE P == {h \in 0 .. Height : \A i \in Indices(h) : Node(m, h, i) = Node(n, h, i)}
    <2>1. 0 \in P
      <3>1. Indices(0) = Nat /\ 0 \in 0 .. Height /\ 0 # Height
        BY HeightIsNat DEF Indices
      <3>2. ASSUME NEW i \in Nat
            PROVE  Node(m, 0, i) = Node(n, 0, i)
        <4>1. CASE \E key \in Keys : index[key] = i
          BY <1>3, <4>1 DEF HoldsTree, TellsLeaves
        <4>2. CASE ~ \E key \in Keys : index[key] = i
          <5>1. <<0, i>> \notin DOMAIN m.nodes /\ <<0, i>> \notin DOMAIN n.nodes
            BY <4>2 DEF HoldsTree, StoresKeys
          <5> QED
            BY <3>1, <5>1 DEF Node
        <4> QED
          BY <4>1, <4>2
      <3> QED
        BY <3>1, <3>2
    <2>2. ASSUME NEW h \in 1 .. Height, h - 1 \in P
          PROVE  h \in P
      <3>1. h - 1 # Height /\ h \in 0 .. Height
        BY HeightIsNat
      <3>2. ASSUME NEW i \in Indices(h)
            PROVE  Node(m, h, i) = Node(n, h, i)
        <4>1. 2 * i \in Indices(h - 1) /\ 2 * i + 1 \in Indices(h - 1)
          BY <3>1 DEF Indices
        <4>2. /\ Node(m, h - 1, 2 * i) = Node(n, h - 1, 2 * i)
              /\ Node(m, h - 1, 2 * i + 1) = Node(n, h - 1, 2 * i + 1)
          BY <2>2, <4>1
        <4>3. Node(m, h, i) = Pair(Node(m, h - 1, 2 * i), Node(m, h - 1, 2 * i + 1))
          BY DEF HoldsTree, IsTree
        <4>4. Node(n, h, i) = Pair(Node(n, h - 1, 2 * i), Node(n, h - 1, 2 * i + 1))
          BY DEF HoldsTree, IsTree
        <4> QED
          BY <4>2, <4>3, <4>4
      <3> QED
        BY <3>1, <3>2
    <2>3. Height \in P
      <3> HIDE DEF P
      <3> QED
        BY <2>1, <2>2, HeightIsNat, InductionUpTo
    <2> QED
      BY <2>3 DEF Node, Indices
  <1> QED
    BY <1>2, <1>3
-----------------------------------------------------------------------------
(* The map and the one the gadget witnesses are trees; a gadget whose      *)
(* witnesses were all honest represents the map it witnesses.              *)
GadgetFields == {"phase", "repr", "map", "forged", "last"}

GadgetInv ==
    /\ DOMAIN gadget = GadgetFields
    /\ gadget.forged \in BOOLEAN
    /\ gadget.phase \in {"absent", "ready", "unsatisfied"}
    /\ gadget.phase = "absent" => gadget.last = NoOp /\ ~ gadget.forged
    /\ gadget.phase = "ready" /\ ~ gadget.forged => gadget.repr = gadget.map.root
    /\ IsInjective(index) => gadget.forged \/ gadget.phase # "unsatisfied"

SuccinctInv == /\ IndexTyped
               /\ HoldsTree(mt) /\ HoldsTree(gadget.map)
               /\ GadgetInv
               /\ AnswersAreCommitted

LEMMA TreesStay ==
  ASSUME index' = index, HoldsTree(mt'), HoldsTree(gadget'.map)
  PROVE  HoldsTree(mt)' /\ HoldsTree(gadget.map)'
  BY DEF HoldsTree, IsTree, StoresKeys, TellsLeaves, Node, Get, Indices

LEMMA MapInitInv == MapInit => SuccinctInv
  <1> SUFFICES ASSUME MapInit PROVE SuccinctInv
    OBVIOUS
  <1>1. IndexTyped
    BY PlacementsAssumption DEF MapInit, IndexTyped
  <1>2. gadget = [phase |-> "absent", repr |-> New.root, map |-> New, forged |-> FALSE, last |-> NoOp]
    BY DEF MapInit, Absent
  <1>3. /\ DOMAIN gadget = GadgetFields /\ gadget.phase = "absent" /\ gadget.map = New
        /\ gadget.forged = FALSE /\ gadget.last = NoOp
    BY <1>2 DEF GadgetFields
  <1>4. HoldsTree(mt) /\ HoldsTree(gadget.map)
    BY <1>1, <1>3, NewHoldsTree DEF MapInit
  <1>5. GadgetInv
    BY <1>3 DEF GadgetInv
  <1>6. AnswersAreCommitted
    BY <1>3 DEF AnswersAreCommitted
  <1> QED
    BY <1>1, <1>4, <1>5, <1>6 DEF SuccinctInv

LEMMA InsertInv == SuccinctInv /\ Insert => SuccinctInv'
  <1> SUFFICES ASSUME SuccinctInv, NEW key \in Keys, NEW value \in MapValues,
                      mt' = Inserted(mt, key, value), UNCHANGED <<index, gadget>>
               PROVE  SuccinctInv'
    BY DEF Insert
  <1>1. HoldsTree(mt')
    BY InsertedHoldsTree DEF SuccinctInv
  <1>2. HoldsTree(mt)' /\ HoldsTree(gadget.map)'
    BY <1>1, TreesStay DEF SuccinctInv
  <1>3. IndexTyped' /\ GadgetInv' /\ AnswersAreCommitted'
    BY DEF SuccinctInv, IndexTyped, GadgetInv, AnswersAreCommitted
  <1> QED
    BY <1>2, <1>3 DEF SuccinctInv

LEMMA InitGadgetInv == SuccinctInv /\ InitGadget => SuccinctInv'
  <1> SUFFICES ASSUME SuccinctInv, InitGadget
               PROVE  SuccinctInv'
    OBVIOUS
  <1>1. /\ gadget' = [gadget EXCEPT !.phase = "ready", !.repr = mt.root, !.map = mt]
        /\ gadget.phase = "absent" /\ index' = index /\ mt' = mt
    BY DEF InitGadget
  <1>2. DOMAIN gadget = GadgetFields /\ gadget.last = NoOp /\ ~ gadget.forged /\ gadget.forged \in BOOLEAN
    BY <1>1 DEF SuccinctInv, GadgetInv
  <1>3. /\ DOMAIN gadget' = GadgetFields /\ gadget'.phase = "ready" /\ gadget'.repr = mt.root
        /\ gadget'.map = mt /\ gadget'.forged = gadget.forged /\ gadget'.last = gadget.last
    BY <1>1, <1>2 DEF GadgetFields
  <1>4. HoldsTree(mt)' /\ HoldsTree(gadget.map)'
    BY <1>1, <1>3, TreesStay DEF SuccinctInv
  <1>5. IndexTyped' /\ GadgetInv' /\ AnswersAreCommitted'
    BY <1>1, <1>2, <1>3 DEF SuccinctInv, IndexTyped, GadgetInv, AnswersAreCommitted
  <1> QED
    BY <1>4, <1>5 DEF SuccinctInv

(* The constraints of an insertion, and of a look-up.                      *)
LEMMA VerifiedOpens ==
  ASSUME IndexTyped, NEW key \in Keys, NEW value, NEW path, NEW repr, Verifies(key, value, path, repr)
  PROVE  Opened(repr)[index[key]] = value
  BY ClimbOpens DEF Verifies

LEMMA HonestVerifies ==
  ASSUME IndexTyped, IsInjective(index), NEW m, HoldsTree(m), NEW key \in Keys
  PROVE  Verifies(key, Get(m, key), Path(m, key), m.root)
  <1>1. Get(m, key) = Node(m, 0, index[key])
    BY DEF HoldsTree, TellsLeaves
  <1>2. IsTree(m)
    BY DEF HoldsTree
  <1> QED
    BY <1>1, <1>2, HonestClimb DEF Verifies

LEMMA GadgetInsertInv == SuccinctInv /\ GadgetInsert => SuccinctInv'
  <1> SUFFICES ASSUME SuccinctInv, NEW key \in Keys, NEW value \in MapValues,
                      gadget.phase = "ready",
                      InsertWitnessed(key, value, Get(gadget.map, key), Path(gadget.map, key),
                                      UpdateState(key, value)),
                      UNCHANGED <<index, mt>>
               PROVE  SuccinctInv'
    BY DEF GadgetInsert
  <1> DEFINE new == UpdateState(key, value)
             path == Path(gadget.map, key)
             holds == InsertHolds(key, value, Get(gadget.map, key), path, new.root)
             last == <<"insert", key, value>>
  <1>1. gadget' = [gadget EXCEPT !.phase = IF holds THEN "ready" ELSE "unsatisfied",
                                 !.repr = new.root, !.map = new, !.last = last]
    BY DEF InsertWitnessed
  <1>2. DOMAIN gadget = GadgetFields /\ gadget.forged \in BOOLEAN
    BY DEF SuccinctInv, GadgetInv
  <1>3. new = Inserted(gadget.map, key, value)
    BY DEF UpdateState
  <1>4. new.root = Climb(key, value, path)[Height]
    BY <1>3 DEF Inserted
  <1>5. IndexTyped /\ HoldsTree(gadget.map)
    BY DEF SuccinctInv
  <1>6. holds => Verifies(key, value, path, new.root)
    BY DEF InsertHolds
  <1>7. IsInjective(index) /\ ~ gadget.forged => holds
    <2>1. ASSUME IsInjective(index), ~ gadget.forged
          PROVE  Verifies(key, Get(gadget.map, key), path, gadget.repr)
      <3>1. gadget.repr = gadget.map.root
        BY <2>1 DEF SuccinctInv, GadgetInv
      <3> QED
        BY <1>5, <2>1, <3>1, HonestVerifies
    <2>2. Verifies(key, value, path, new.root)
      BY <1>4 DEF Verifies
    <2> QED
      BY <2>1, <2>2 DEF InsertHolds
  <1>8. HoldsTree(new)
    BY <1>3, <1>5, InsertedHoldsTree
  <1>9. holds => Opened(new.root)[index[key]] = value
    BY <1>5, <1>6, VerifiedOpens
  <1> HIDE DEF holds, new, last
  <1>10. /\ DOMAIN gadget' = GadgetFields /\ gadget'.phase = IF holds THEN "ready" ELSE "unsatisfied"
         /\ gadget'.repr = new.root /\ gadget'.map = new
         /\ gadget'.forged = gadget.forged /\ gadget'.last = last
    BY <1>1, <1>2 DEF GadgetFields
  <1>11. HoldsTree(mt)' /\ HoldsTree(gadget.map)'
    BY <1>8, <1>10, TreesStay DEF SuccinctInv
  <1>12. IndexTyped'
    BY <1>5 DEF IndexTyped
  <1>13. GadgetInv'
    BY <1>2, <1>7, <1>10 DEF GadgetInv
  <1>14. AnswersAreCommitted'
    <2>1. last[2] = key /\ last[3] = value
      BY DEF last
    <2> QED
      BY <1>9, <1>10, <2>1 DEF AnswersAreCommitted
  <1> QED
    BY <1>11, <1>12, <1>13, <1>14 DEF SuccinctInv

LEMMA ForgedInsertInv == SuccinctInv /\ ForgedInsert => SuccinctInv'
  <1> SUFFICES ASSUME SuccinctInv, NEW key \in Keys, NEW value \in MapValues,
                      NEW current \in MapValues, NEW path \in Paths,
                      LET new == [gadget.map EXCEPT !.root = Climb(key, value, path)[Height]]
                      IN  /\ gadget.phase = "ready"
                          /\ InsertHolds(key, value, current, path, new.root)
                          /\ gadget' = [gadget EXCEPT !.repr = new.root, !.forged = TRUE,
                                                      !.last = <<"insert", key, value>>]
                          /\ UNCHANGED <<index, mt>>
               PROVE  SuccinctInv'
    BY DEF ForgedInsert
  <1> DEFINE new == [gadget.map EXCEPT !.root = Climb(key, value, path)[Height]]
             root == new.root
             last == <<"insert", key, value>>
  <1>1. /\ gadget.phase = "ready" /\ InsertHolds(key, value, current, path, root)
        /\ gadget' = [gadget EXCEPT !.repr = root, !.forged = TRUE, !.last = last]
        /\ index' = index /\ mt' = mt
    OBVIOUS
  <1>2. DOMAIN gadget = GadgetFields
    BY DEF SuccinctInv, GadgetInv
  <1>3. Opened(root)[index[key]] = value
    BY <1>1, VerifiedOpens DEF InsertHolds, SuccinctInv
  <1> HIDE DEF root, last
  <1>4. /\ DOMAIN gadget' = GadgetFields /\ gadget'.phase = "ready" /\ gadget'.repr = root
        /\ gadget'.map = gadget.map /\ gadget'.forged = TRUE /\ gadget'.last = last
    BY <1>1, <1>2 DEF GadgetFields
  <1>5. HoldsTree(mt)' /\ HoldsTree(gadget.map)'
    BY <1>1, <1>4, TreesStay DEF SuccinctInv
  <1>6. IndexTyped' /\ GadgetInv'
    BY <1>1, <1>4 DEF SuccinctInv, IndexTyped, GadgetInv
  <1>7. AnswersAreCommitted'
    <2>1. last[2] = key /\ last[3] = value
      BY DEF last
    <2> QED
      BY <1>1, <1>3, <1>4, <2>1 DEF AnswersAreCommitted
  <1> QED
    BY <1>5, <1>6, <1>7 DEF SuccinctInv

LEMMA GadgetGetInv == SuccinctInv /\ GadgetGet => SuccinctInv'
  <1> SUFFICES ASSUME SuccinctInv, NEW key \in Keys,
                      LET value == Get(gadget.map, key)
                      IN  /\ gadget.phase = "ready"
                          /\ gadget' = IF Verifies(key, value, Path(gadget.map, key), gadget.repr)
                                       THEN [gadget EXCEPT !.last = <<"get", key, value>>]
                                       ELSE [gadget EXCEPT !.phase = "unsatisfied"]
                          /\ UNCHANGED <<index, mt>>
               PROVE  SuccinctInv'
    BY DEF GadgetGet
  <1> DEFINE value == Get(gadget.map, key)
             holds == Verifies(key, value, Path(gadget.map, key), gadget.repr)
             last == <<"get", key, value>>
  <1>1. /\ gadget.phase = "ready" /\ index' = index /\ mt' = mt
        /\ gadget' = IF holds THEN [gadget EXCEPT !.last = last]
                     ELSE [gadget EXCEPT !.phase = "unsatisfied"]
    OBVIOUS
  <1>2. DOMAIN gadget = GadgetFields
    BY DEF SuccinctInv, GadgetInv
  <1>3. holds => Opened(gadget.repr)[index[key]] = value
    BY VerifiedOpens DEF SuccinctInv
  <1>4. IsInjective(index) /\ ~ gadget.forged => holds
    <2>1. ASSUME IsInjective(index), ~ gadget.forged
          PROVE  holds
      <3>1. gadget.repr = gadget.map.root
        BY <1>1, <2>1 DEF SuccinctInv, GadgetInv
      <3>2. IndexTyped /\ HoldsTree(gadget.map)
        BY DEF SuccinctInv
      <3> QED
        BY <2>1, <3>1, <3>2, HonestVerifies
    <2> QED
      BY <2>1
  <1>5. last[2] = key /\ last[3] = value
    OBVIOUS
  <1> HIDE DEF holds, last, value
  <1>6. /\ DOMAIN gadget' = GadgetFields /\ gadget'.phase = IF holds THEN "ready" ELSE "unsatisfied"
        /\ gadget'.repr = gadget.repr /\ gadget'.map = gadget.map
        /\ gadget'.forged = gadget.forged /\ gadget'.last = IF holds THEN last ELSE gadget.last
    BY <1>1, <1>2 DEF GadgetFields
  <1>7. HoldsTree(mt)' /\ HoldsTree(gadget.map)'
    BY <1>1, <1>6, TreesStay DEF SuccinctInv
  <1>8. IndexTyped' /\ GadgetInv'
    BY <1>1, <1>4, <1>6 DEF SuccinctInv, IndexTyped, GadgetInv
  <1>9. AnswersAreCommitted'
    BY <1>1, <1>3, <1>5, <1>6 DEF AnswersAreCommitted
  <1> QED
    BY <1>7, <1>8, <1>9 DEF SuccinctInv

LEMMA ForgedGetInv == SuccinctInv /\ ForgedGet => SuccinctInv'
  <1> SUFFICES ASSUME SuccinctInv, NEW key \in Keys, NEW value \in MapValues, NEW path \in Paths,
                      gadget.phase = "ready", Verifies(key, value, path, gadget.repr),
                      gadget' = [gadget EXCEPT !.last = <<"get", key, value>>, !.forged = TRUE],
                      UNCHANGED <<index, mt>>
               PROVE  SuccinctInv'
    BY DEF ForgedGet
  <1> DEFINE last == <<"get", key, value>>
  <1>1. DOMAIN gadget = GadgetFields
    BY DEF SuccinctInv, GadgetInv
  <1>2. Opened(gadget.repr)[index[key]] = value
    BY VerifiedOpens DEF SuccinctInv
  <1>3. last[2] = key /\ last[3] = value
    OBVIOUS
  <1>4. gadget' = [gadget EXCEPT !.last = last, !.forged = TRUE]
    OBVIOUS
  <1> HIDE DEF last
  <1>5. /\ DOMAIN gadget' = GadgetFields /\ gadget'.phase = "ready" /\ gadget'.repr = gadget.repr
        /\ gadget'.map = gadget.map /\ gadget'.forged = TRUE /\ gadget'.last = last
    BY <1>1, <1>4 DEF GadgetFields
  <1>6. HoldsTree(mt)' /\ HoldsTree(gadget.map)'
    BY <1>5, TreesStay DEF SuccinctInv
  <1>7. IndexTyped' /\ GadgetInv'
    BY <1>5 DEF SuccinctInv, IndexTyped, GadgetInv
  <1>8. AnswersAreCommitted'
    BY <1>2, <1>3, <1>5 DEF AnswersAreCommitted
  <1> QED
    BY <1>6, <1>7, <1>8 DEF SuccinctInv
LEMMA MapNextInv == SuccinctInv /\ [MapNext]_mapVars => SuccinctInv'
  <1>1. ASSUME SuccinctInv, UNCHANGED mapVars
        PROVE  SuccinctInv'
    <2>1. index' = index /\ mt' = mt /\ gadget' = gadget
      BY <1>1 DEF mapVars
    <2>2. HoldsTree(mt)' /\ HoldsTree(gadget.map)'
      BY <1>1, <2>1, TreesStay DEF SuccinctInv
    <2> QED
      BY <1>1, <2>1, <2>2 DEF SuccinctInv, IndexTyped, GadgetInv, AnswersAreCommitted
  <1> QED
    BY <1>1, InsertInv, InitGadgetInv, GadgetInsertInv, ForgedInsertInv, GadgetGetInv, ForgedGetInv
       DEF MapNext

THEOREM SuccinctMapsHoldTrees == MapSpec => []SuccinctInv
  BY MapInitInv, MapNextInv, PTL DEF MapSpec

(* The root implements the map: whatever was inserted, and in what order,  *)
(* an insertion changes what the root commits to at the leaf of its key    *)
(* and nowhere else (cpu.rs:96).                                           *)
THEOREM RootsImplementMaps == MapSpec => RootImplementsMap
  <1>1. MapInit => Committed!Init
    <2> SUFFICES ASSUME MapInit PROVE Committed!Init
      OBVIOUS
    <2>1. IndexTyped /\ mt.root = New.root
      BY MapInitInv DEF SuccinctInv, MapInit
    <2> QED
      BY <2>1, NewOpens DEF Committed!Init
  <1>2. SuccinctInv /\ [MapNext]_mapVars => [Committed!Next]_(Opened(mt.root))
    <2>1. ASSUME SuccinctInv, NEW key \in Keys, NEW value \in MapValues, mt' = Inserted(mt, key, value)
          PROVE  Committed!Next
      <3>1. IndexTyped /\ IsTree(mt)
        BY <2>1 DEF SuccinctInv, HoldsTree
      <3>2. index[key] \in Leaves
        BY <3>1 DEF IndexTyped
      <3>3. Opened(mt'.root) = [Opened(mt.root) EXCEPT ![index[key]] = value]
        BY <2>1, <3>1, InsertedOpens
      <3>4. Committed!Put(index[key], value)
        BY <3>3 DEF Committed!Put
      <3> QED
        BY <3>2, <3>4 DEF Committed!Next
    <2>2. ASSUME mt' = mt
          PROVE  Opened(mt.root)' = Opened(mt.root)
      BY <2>2
    <2>3. [MapNext]_mapVars => mt' = mt \/ Insert
      BY DEF MapNext, mapVars, InitGadget, GadgetInsert, ForgedInsert, GadgetGet, ForgedGet
    <2> QED
      BY <2>1, <2>2, <2>3 DEF Insert
  <1> QED
    BY <1>1, <1>2, SuccinctMapsHoldTrees, PTL DEF MapSpec, RootImplementsMap, Committed!Spec

(* The constraints of the gadget prove what happens to the map, whatever   *)
(* the witnesses, and honest witnesses satisfy them (map_gadget.rs:90 and  *)
(* 139); the representation is the same for the same map and for no other  *)
(* (instructions/map.rs:34).                                               *)
LEMMA InsertionProved ==
  ASSUME IndexTyped, NEW key \in Keys, NEW value \in MapValues, NEW current, NEW path, NEW root,
         InsertHolds(key, value, current, path, root)
  PROVE  Opened(root) = [Opened(gadget.repr) EXCEPT ![index[key]] = value]
  <1> DEFINE old == Climb(key, current, path)[Height]
             new == Climb(key, value, path)[Height]
  <1>1. Opened(new) = [Opened(old) EXCEPT ![index[key]] = value]
    BY ClimbPuts
  <1>2. old = gadget.repr /\ new = root
    BY DEF InsertHolds, Verifies
  <1> HIDE DEF old, new
  <1> QED
    BY <1>1, <1>2

LEMMA StepsProved ==
  ASSUME SuccinctInv, MapNext, gadget.phase = "ready", gadget'.phase = "ready",
         gadget'.repr # gadget.repr
  PROVE  \E key \in Keys, value \in MapValues :
            /\ gadget'.last = <<"insert", key, value>>
            /\ Opened(gadget'.repr) = [Opened(gadget.repr) EXCEPT ![index[key]] = value]
  <1>1. DOMAIN gadget = GadgetFields /\ IndexTyped
    BY DEF SuccinctInv, GadgetInv
  <1>2. CASE Insert
    BY <1>2 DEF Insert
  <1>3. CASE InitGadget
    BY <1>3 DEF InitGadget
  <1>4. CASE GadgetInsert
    <2>1. PICK key \in Keys, value \in MapValues :
             InsertWitnessed(key, value, Get(gadget.map, key), Path(gadget.map, key), UpdateState(key, value))
      BY <1>4 DEF GadgetInsert
    <2> DEFINE root == UpdateState(key, value).root
               new == UpdateState(key, value)
               last == <<"insert", key, value>>
               holds == InsertHolds(key, value, Get(gadget.map, key), Path(gadget.map, key), root)
    <2>2. gadget' = [gadget EXCEPT !.phase = IF holds THEN "ready" ELSE "unsatisfied",
                                   !.repr = root, !.map = new, !.last = last]
      BY <2>1 DEF InsertWitnessed
    <2> HIDE DEF root, last, holds, new
    <2>3. /\ gadget'.repr = root /\ gadget'.last = last
          /\ gadget'.phase = IF holds THEN "ready" ELSE "unsatisfied"
      BY <1>1, <2>2 DEF GadgetFields
    <2>4. holds
      BY <2>3
    <2>5. Opened(root) = [Opened(gadget.repr) EXCEPT ![index[key]] = value]
      BY <1>1, <2>4, InsertionProved DEF holds
    <2> QED
      BY <2>3, <2>5 DEF last
  <1>5. CASE ForgedInsert
    <2>1. PICK key \in Keys, value \in MapValues, current \in MapValues, path \in Paths :
             LET new == [gadget.map EXCEPT !.root = Climb(key, value, path)[Height]]
             IN  /\ InsertHolds(key, value, current, path, new.root)
                 /\ gadget' = [gadget EXCEPT !.repr = new.root, !.forged = TRUE,
                                             !.last = <<"insert", key, value>>]
      BY <1>5 DEF ForgedInsert
    <2> DEFINE root == [gadget.map EXCEPT !.root = Climb(key, value, path)[Height]].root
               last == <<"insert", key, value>>
    <2>2. /\ InsertHolds(key, value, current, path, root)
          /\ gadget' = [gadget EXCEPT !.repr = root, !.forged = TRUE, !.last = last]
      BY <2>1
    <2> HIDE DEF root, last
    <2>3. gadget'.repr = root /\ gadget'.last = last
      BY <1>1, <2>2 DEF GadgetFields
    <2>4. Opened(root) = [Opened(gadget.repr) EXCEPT ![index[key]] = value]
      BY <1>1, <2>2, InsertionProved
    <2> QED
      BY <2>3, <2>4 DEF last
  <1>6. CASE GadgetGet
    <2>1. PICK key \in Keys :
             LET value == Get(gadget.map, key)
             IN  gadget' = IF Verifies(key, value, Path(gadget.map, key), gadget.repr)
                           THEN [gadget EXCEPT !.last = <<"get", key, value>>]
                           ELSE [gadget EXCEPT !.phase = "unsatisfied"]
      BY <1>6 DEF GadgetGet
    <2>2. gadget'.repr = gadget.repr
      BY <1>1, <2>1 DEF GadgetFields
    <2> QED
      BY <2>2
  <1>7. CASE ForgedGet
    <2>1. PICK key \in Keys, value \in MapValues :
             gadget' = [gadget EXCEPT !.last = <<"get", key, value>>, !.forged = TRUE]
      BY <1>7 DEF ForgedGet
    <2>2. gadget'.repr = gadget.repr
      BY <1>1, <2>1 DEF GadgetFields
    <2> QED
      BY <2>2
  <1> QED
    BY <1>2, <1>3, <1>4, <1>5, <1>6, <1>7 DEF MapNext

LEMMA MapsAreComplete == SuccinctInv => MapIsComplete
  <1> SUFFICES ASSUME SuccinctInv, IsInjective(index)
               PROVE  /\ gadget.forged \/ gadget.phase # "unsatisfied"
                      /\ mt.root = gadget.map.root <=>
                            \A key \in Keys : Get(mt, key) = Get(gadget.map, key)
    BY DEF MapIsComplete
  <1>1. gadget.forged \/ gadget.phase # "unsatisfied"
    BY DEF SuccinctInv, GadgetInv
  <1>2. IndexTyped /\ HoldsTree(mt) /\ HoldsTree(gadget.map)
    BY DEF SuccinctInv
  <1>3. mt.root = gadget.map.root <=> \A key \in Keys : Get(mt, key) = Get(gadget.map, key)
    BY <1>2, SameRoots
  <1> QED
    BY <1>1, <1>3

THEOREM GadgetsProveMaps == MapSpec => GadgetProvesMap
  <1>1. SuccinctInv /\ [MapNext]_mapVars =>
           [gadget.phase = "ready" /\ gadget'.phase = "ready" =>
              \E key \in Keys, value \in MapValues :
                 /\ gadget'.last = <<"insert", key, value>>
                 /\ Opened(gadget'.repr) = [Opened(gadget.repr) EXCEPT ![index[key]] = value]
           ]_(gadget.repr)
    <2>1. ASSUME UNCHANGED mapVars
          PROVE  gadget'.repr = gadget.repr
      BY <2>1 DEF mapVars
    <2> QED
      BY <2>1, StepsProved
  <1>2. SuccinctInv => AnswersAreCommitted
    BY DEF SuccinctInv
  <1> QED
    BY <1>1, <1>2, MapsAreComplete, SuccinctMapsHoldTrees, PTL
       DEF MapSpec, GadgetProvesMap, GadgetIsSound, InsertionsAreProved

-----------------------------------------------------------------------------
(* Division and remainder by the rate.                                     *)
LEMMA RateIsNat == Rate \in Nat /\ Rate >= 2
  BY SpongeAssumption

LEMMA Divides ==
  ASSUME NEW a \in Nat
  PROVE  /\ a \div Rate \in Nat /\ a % Rate \in 0 .. Rate - 1
         /\ a = (a \div Rate) * Rate + (a % Rate)
  BY RateIsNat

LEMMA DivideBounds ==
  ASSUME NEW a \in Nat, NEW q \in Nat
  PROVE  /\ q <= a \div Rate <=> q * Rate <= a
         /\ (a + Rate) \div Rate = (a \div Rate) + 1
  <1> DEFINE d == a \div Rate
             r == a % Rate
  <1>1. d \in Nat /\ r \in 0 .. Rate - 1 /\ a = d * Rate + r
    BY Divides
  <1> HIDE DEF d, r
  <1>2. ASSUME q <= d
        PROVE  q * Rate <= a
    <2>1. q * Rate <= d * Rate
      BY <1>1, <1>2, RateIsNat
    <2>2. d * Rate \in Nat /\ q * Rate \in Nat
      BY <1>1, RateIsNat
    <2> QED
      BY <1>1, <2>1, <2>2, RateIsNat
  <1>3. ASSUME q > d
        PROVE  q * Rate > a
    <2>1. (d + 1) * Rate <= q * Rate
      BY <1>1, <1>3, RateIsNat
    <2>2. (d + 1) * Rate = d * Rate + Rate
      BY <1>1, RateIsNat
    <2>3. d * Rate \in Nat /\ q * Rate \in Nat
      BY <1>1, RateIsNat
    <2> QED
      BY <1>1, <2>1, <2>2, <2>3, RateIsNat
  <1>4. q * Rate \in Nat
    BY RateIsNat
  <1>5. q <= d <=> q * Rate <= a
    BY <1>1, <1>2, <1>3, <1>4
  <1>6. (a + Rate) \div Rate = (a \div Rate) + 1
    BY RateIsNat
  <1> QED
    BY <1>5, <1>6 DEF d
(* A block that is not all zero ends in its last element that is not.      *)
Blocks == [1 .. Rate -> Nat]

LEMMA LastIsLength ==
  ASSUME NEW block \in Blocks, NEW i \in 1 .. Rate, \A j \in 1 .. Rate : j > i => block[j] = 0
  PROVE  LastLength(block) = block[i] \/ block[i] = 0
  <1> DEFINE used == {j \in 1 .. Rate : block[j] # 0}
             last == CHOOSE k \in used : \A j \in used : j <= k
  <1>1. CASE block[i] # 0
    <2>1. i \in used /\ \A j \in used : j <= i
      BY <1>1, RateIsNat
    <2>2. last \in used /\ \A j \in used : j <= last
      <3> HIDE DEF used
      <3> QED
        BY <2>1
    <2>3. last = i
      BY <2>1, <2>2, RateIsNat
    <2>4. LastLength(block) = block[last]
      BY <2>1 DEF LastLength
    <2> QED
      BY <2>3, <2>4
  <1> QED
    BY <1>1

LEMMA NoLastLength ==
  ASSUME NEW block, \A j \in 1 .. Rate : block[j] = 0
  PROVE  LastLength(block) = 0
  BY DEF LastLength

LEMMA LastLengthTyped ==
  ASSUME NEW block \in Blocks
  PROVE  LastLength(block) \in Nat
  <1> DEFINE used == {j \in 1 .. Rate : block[j] # 0}
  <1>1. CASE used = {}
    BY <1>1 DEF LastLength
  <1>2. CASE used # {}
    <2>1. IsFiniteSet(used)
      <3>1. IsFiniteSet(1 .. Rate)
        BY RateIsNat, FS_Interval
      <3> QED
        BY <3>1, FS_Subset
    <2>2. used \in SUBSET Int
      BY RateIsNat
    <2>3. \E n \in used : \A m \in used : m <= n
      <3> HIDE DEF used
      <3> QED
        BY <1>2, <2>1, <2>2, LargestOfSet
    <2> DEFINE last == CHOOSE k \in used : \A j \in used : j <= k
    <2>4. last \in used
      <3> HIDE DEF used
      <3> QED
        BY <2>3
    <2>5. LastLength(block) = block[last]
      BY <1>2 DEF LastLength
    <2>6. last \in 1 .. Rate
      BY <2>4
    <2> HIDE DEF last
    <2> QED
      BY <2>5, <2>6 DEF Blocks
  <1> QED
    BY <1>1, <1>2

(* The chunks of a queue hold its elements, and zeros.                     *)
LEMMA BlocksTyped ==
  ASSUME NEW chunk, NEW n \in Nat, Len(chunk) = n, \A i \in 1 .. n : chunk[i] \in Nat
  PROVE  Block(chunk) \in Blocks
  BY DEF Block, Blocks

LEMMA ChunksHold ==
  ASSUME NEW q \in Seq(Nat), q # <<>>
  PROVE  /\ Chunks(q) \in Seq(Blocks)
         /\ Len(Chunks(q)) = ((Len(q) - 1) \div Rate) + 1
         /\ \A b \in 1 .. Len(Chunks(q)), i \in 1 .. Rate :
               Chunks(q)[b][i] = IF (b - 1) * Rate + i <= Len(q) THEN q[(b - 1) * Rate + i] ELSE 0
  <1> DEFINE m == ((Len(q) - 1) \div Rate) + 1
             end(b) == IF b * Rate <= Len(q) THEN b * Rate ELSE Len(q)
             chunk(b) == SubSeq(q, (b - 1) * Rate + 1, end(b))
             c == Chunks(q)
  <1>1. Len(q) \in Nat /\ Len(q) >= 1 /\ \A i \in 1 .. Len(q) : q[i] \in Nat
    BY EmptySeq
  <1>2. (Len(q) + Rate - 1) \div Rate = m
    <2>1. Len(q) - 1 \in Nat /\ Len(q) + Rate - 1 = (Len(q) - 1) + Rate
      BY <1>1, RateIsNat
    <2>2. ((Len(q) - 1) + Rate) \div Rate = m
      BY <2>1, DivideBounds
    <2> QED
      BY <2>1, <2>2
  <1>3. m \in Nat
    <2>1. Len(q) - 1 \in Nat
      BY <1>1
    <2>2. (Len(q) - 1) \div Rate \in Nat
      BY <2>1, Divides
    <2> QED
      BY <2>2
  <1>4. c = [b \in 1 .. m |-> Block(chunk(b))]
    BY <1>2 DEF Chunks
  <1>5. ASSUME NEW b \in 1 .. m
        PROVE  /\ Block(chunk(b)) \in Blocks
               /\ \A i \in 1 .. Rate : Block(chunk(b))[i]
                     = IF (b - 1) * Rate + i <= Len(q) THEN q[(b - 1) * Rate + i] ELSE 0
    <2> DEFINE s == (b - 1) * Rate
               L == Len(q)
    <2>1. s \in Nat /\ b * Rate = s + Rate /\ b - 1 \in Nat
      BY <1>3, RateIsNat
    <2>2. s <= L - 1
      <3>1. b - 1 <= (L - 1) \div Rate
        BY SMTT(30), <1>1, <1>3, Divides
      <3>2. L - 1 \in Nat
        BY <1>1
      <3> QED
        BY <2>1, <3>1, <3>2, DivideBounds
    <2> DEFINE e == IF s + Rate <= L THEN s + Rate ELSE L
    <2>3. end(b) = e
      BY <2>1
    <2> HIDE DEF s, L, end
    <2>4. L \in Nat /\ e \in Nat /\ s < e /\ e <= L /\ e - s <= Rate
      BY <1>1, <2>1, <2>2, RateIsNat DEF L
    <2>5. \A i \in s + 1 .. e : q[i] \in Nat
      BY <1>1, <2>1, <2>4 DEF L
    <2> DEFINE t == SubSeq(q, s + 1, e)
    <2> HIDE DEF e
    <2>6. /\ Len(t) = e - s /\ \A i \in 1 .. e - s : t[i] = q[s + 1 + i - 1]
          /\ t \in Seq(Nat)
      <3>1. s + 1 \in Int /\ e \in Int /\ s + 1 <= e /\ e - (s + 1) + 1 = e - s
        BY <2>1, <2>4
      <3> HIDE DEF t
      <3> QED
        BY <2>5, <3>1, SubSeqProperties DEF t
    <2>7. chunk(b) = t
      BY <2>3 DEF s
    <2> HIDE DEF t, chunk
    <2>8. Block(t) \in Blocks
      <3>1. Len(t) \in Nat /\ \A i \in 1 .. Len(t) : t[i] \in Nat
        BY <2>6
      <3> QED
        BY <3>1, BlocksTyped
    <2>9. ASSUME NEW i \in 1 .. Rate
          PROVE  Block(t)[i] = IF s + i <= L THEN q[s + i] ELSE 0
      <3>1. Block(t)[i] = IF i <= e - s THEN t[i] ELSE 0
        BY <2>6 DEF Block
      <3>2. i <= e - s <=> s + i <= L
        BY <2>1, <2>4, RateIsNat DEF e
      <3>3. i <= e - s => i \in 1 .. e - s /\ s + 1 + i - 1 = s + i
        BY <2>1, <2>4, RateIsNat
      <3> QED
        BY <2>6, <3>1, <3>2, <3>3
    <2> QED
      BY <2>7, <2>8, <2>9 DEF s, L
  <1> DEFINE B == Blocks
  <1>6. c \in [1 .. m -> B]
    <2> HIDE DEF chunk, m, B
    <2> QED
      BY <1>4, <1>5 DEF B
  <1> HIDE DEF B, m, chunk
  <1>7. c \in Seq(B)
    BY <1>3, <1>6, SeqDef
  <1> HIDE DEF c
  <1>8. Len(c) = m
    <2>1. DOMAIN c = 1 .. m /\ DOMAIN c = 1 .. Len(c) /\ Len(c) \in Nat
      BY <1>6, <1>7, LenProperties
    <2> QED
      BY <1>3, <2>1
  <1>9. \A b \in 1 .. m, i \in 1 .. Rate :
           c[b][i] = IF (b - 1) * Rate + i <= Len(q) THEN q[(b - 1) * Rate + i] ELSE 0
    BY <1>4, <1>5
  <1> QED
    BY <1>7, <1>8, <1>9 DEF c, m, B
(* Where the segment that ends with a block starts, and what it was.       *)
First(blocks, n) == n - ((LastLength(blocks[n]) + Rate) \div Rate)
Segment(blocks, first, length) ==
    [k \in 1 .. length |-> blocks[first + 1 + ((k - 1) \div Rate)][1 + ((k - 1) % Rate)]]
UptoStep(blocks, f, n) ==
    IF n = 0 \/ First(blocks, n) < 0 THEN <<>>
    ELSE Append(f[First(blocks, n)], Segment(blocks, First(blocks, n), LastLength(blocks[n])))

LEMMA FirstBounds ==
  ASSUME NEW blocks \in Seq(Blocks), NEW n \in 1 .. Len(blocks)
  PROVE  First(blocks, n) \in Int /\ First(blocks, n) <= n - 1 /\ n \in Nat
  <1> DEFINE length == LastLength(blocks[n])
  <1>1. blocks[n] \in Blocks /\ n \in Nat
    <2> DEFINE B == Blocks
    <2> HIDE DEF B
    <2>1. blocks \in Seq(B)
      BY DEF B
    <2>2. blocks[n] \in B /\ Len(blocks) \in Nat
      BY <2>1, ElementOfSeq, LenProperties
    <2> QED
      BY <2>2 DEF B
  <1>2. length \in Nat
    BY <1>1, LastLengthTyped
  <1>3. First(blocks, n) = n - ((length + Rate) \div Rate)
    BY DEF First
  <1> HIDE DEF length
  <1>4. (length + Rate) \div Rate = (length \div Rate) + 1 /\ length \div Rate \in Nat
    BY <1>2, DivideBounds, Divides
  <1> QED
    BY <1>1, <1>3, <1>4

LEMMA Unpads ==
  ASSUME NEW blocks \in Seq(Blocks)
  PROVE  \E f : /\ \A n \in 0 .. Len(blocks) : f[n] = UptoStep(blocks, f, n)
                /\ Unpadded(blocks) = f[Len(blocks)]
  <1> DEFINE m == Len(blocks)
             Is(f, n) == f = [k \in 0 .. n |-> UptoStep(blocks, f, k)]
             P == {n \in 0 .. m : \E f : Is(f, n)}
             upto == CHOOSE f : Is(f, m)
  <1>1. m \in Nat
    BY LenProperties
  <1>2. Unpadded(blocks) = upto[m]
    BY DEF Unpadded, UptoStep, First, Segment
  <1>3. \A k \in 1 .. m : First(blocks, k) \in Int /\ First(blocks, k) <= k - 1 /\ k \in Nat
    BY FirstBounds
  <1> HIDE DEF m
  <1>4. 0 \in P
    <2> DEFINE f == [k \in 0 .. 0 |-> <<>>]
    <2>1. Is(f, 0)
      BY DEF UptoStep
    <2> HIDE DEF f, Is
    <2> QED
      BY <1>1, <2>1
  <1>5. ASSUME NEW n \in 1 .. m, n - 1 \in P
        PROVE  n \in P
    <2>1. PICK f : Is(f, n - 1)
      BY <1>5
    <2> DEFINE last == UptoStep(blocks, f, n)
               g == [k \in 0 .. n |-> IF k = n THEN last ELSE f[k]]
    <2>2. \A k \in 0 .. n - 1 : g[k] = f[k]
      BY <1>1
    <2>3. g[n] = last
      BY <1>1
    <2>4. \A k \in 0 .. n - 1 : f[k] = UptoStep(blocks, f, k)
      BY <2>1
    <2>5. g = [k \in 0 .. n |-> g[k]]
      OBVIOUS
    <2> HIDE DEF g
    <2>6. ASSUME NEW k \in 0 .. n
          PROVE  UptoStep(blocks, g, k) = UptoStep(blocks, f, k)
      <3>1. CASE k = 0
        BY <3>1 DEF UptoStep
      <3>2. CASE k # 0 /\ First(blocks, k) < 0
        BY <3>2 DEF UptoStep
      <3>3. CASE k # 0 /\ ~ (First(blocks, k) < 0)
        <4>1. First(blocks, k) \in 0 .. n - 1
          BY <1>1, <1>3, <3>3
        <4>2. g[First(blocks, k)] = f[First(blocks, k)]
          BY <2>2, <4>1
        <4> QED
          BY <3>3, <4>2 DEF UptoStep
      <3> QED
        BY <3>1, <3>2, <3>3
    <2>7. ASSUME NEW k \in 0 .. n
          PROVE  g[k] = UptoStep(blocks, g, k)
      <3>1. k = n \/ k \in 0 .. n - 1
        BY <1>1
      <3> QED
        BY <2>2, <2>3, <2>4, <2>6, <3>1
    <2>8. Is(g, n)
      BY <2>5, <2>7
    <2> HIDE DEF Is
    <2> QED
      BY <1>1, <2>8
  <1>6. m \in P
    <2> HIDE DEF P, Is, upto
    <2>1. \A n \in 1 .. m : n - 1 \in P => n \in P
      BY <1>5
    <2>2. 0 .. m \subseteq P
      BY <1>1, <1>4, <2>1, InductionUpTo
    <2> QED
      BY <1>1, <2>2
  <1>7. Is(upto, m)
    <2> HIDE DEF Is
    <2> QED
      BY <1>6
  <1> HIDE DEF upto
  <1>8. \A n \in 0 .. m : upto[n] = UptoStep(blocks, upto, n)
    BY <1>7
  <1> QED
    BY <1>2, <1>8 DEF m

(* Blocks that follow change nothing of what came before.                  *)
LEMMA UnpadsMore ==
  ASSUME NEW blocks \in Seq(Blocks), NEW more \in Seq(Blocks), NEW f, NEW g,
         \A n \in 0 .. Len(blocks) : f[n] = UptoStep(blocks, f, n),
         \A n \in 0 .. Len(blocks \o more) : g[n] = UptoStep(blocks \o more, g, n)
  PROVE  g[Len(blocks)] = f[Len(blocks)]
  <1> DEFINE m == Len(blocks)
             all == blocks \o more
             P == {n \in 0 .. m : \A k \in 0 .. n : g[k] = f[k]}
  <1>1. m \in Nat /\ Len(all) \in Nat /\ m <= Len(all) /\ \A n \in 1 .. m : all[n] = blocks[n]
    <2>1. /\ Len(all) = Len(blocks) + Len(more)
          /\ \A n \in 1 .. Len(blocks) + Len(more) : all[n] = IF n <= Len(blocks) THEN blocks[n]
                                                             ELSE more[n - Len(blocks)]
      BY ConcatProperties
    <2>2. Len(blocks) \in Nat /\ Len(more) \in Nat
      BY LenProperties
    <2> HIDE DEF all
    <2> QED
      BY <2>1, <2>2
  <1>2. /\ \A n \in 0 .. m : f[n] = UptoStep(blocks, f, n)
        /\ \A n \in 0 .. Len(all) : g[n] = UptoStep(all, g, n)
    OBVIOUS
  <1>3. \A n \in 1 .. m : First(blocks, n) \in Int /\ First(blocks, n) <= n - 1 /\ n \in Nat
    BY FirstBounds
  <1>4. \A n \in 1 .. m : LastLength(blocks[n]) \in Nat
    <2> DEFINE B == Blocks
    <2>1. \A n \in 1 .. m : blocks[n] \in B
      <3>1. blocks \in Seq(B)
        OBVIOUS
      <3> HIDE DEF B
      <3> QED
        BY <3>1, ElementOfSeq
    <2> QED
      BY <2>1, LastLengthTyped
  <1> HIDE DEF m, all
  <1>5. 0 \in P
    <2>1. UptoStep(all, g, 0) = UptoStep(blocks, f, 0)
      BY DEF UptoStep
    <2> QED
      BY <1>1, <1>2, <2>1
  <1>6. ASSUME NEW n \in 1 .. m, n - 1 \in P
        PROVE  n \in P
    <2> DEFINE first == First(blocks, n)
               length == LastLength(blocks[n])
    <2>1. all[n] = blocks[n] /\ First(all, n) = first /\ LastLength(all[n]) = length
      BY <1>1 DEF First
    <2>2. first \in Int /\ first <= n - 1 /\ n \in Nat /\ length \in Nat
      BY <1>3, <1>4
    <2>3. f[n] = UptoStep(blocks, f, n) /\ g[n] = UptoStep(all, g, n)
      BY <1>1, <1>2
    <2>4. CASE first < 0
      <3>1. f[n] = <<>> /\ g[n] = <<>>
        BY <2>1, <2>3, <2>4 DEF UptoStep
      <3> QED
        BY SMTT(30), <1>1, <1>6, <3>1
    <2>5. CASE ~ (first < 0)
      <3>1. first \in 0 .. n - 1
        BY <2>2, <2>5
      <3>2. g[first] = f[first]
        BY <1>6, <3>1
      <3>3. first = n - ((length + Rate) \div Rate)
        BY DEF First
      <3>4. (length + Rate) \div Rate = (length \div Rate) + 1 /\ length \div Rate \in Nat
        BY <2>2, DivideBounds, Divides
      <3>5. ASSUME NEW k \in 1 .. length
            PROVE  all[first + 1 + ((k - 1) \div Rate)] = blocks[first + 1 + ((k - 1) \div Rate)]
        <4> DEFINE q == (k - 1) \div Rate
        <4>1. k - 1 \in Nat /\ k - 1 <= length
          BY <2>2
        <4>2. q \in Nat /\ q * Rate <= k - 1 /\ q * Rate \in Nat
          BY <4>1, Divides, DivideBounds, RateIsNat
        <4>3. q * Rate <= length
          <5> HIDE DEF q
          <5> QED
            BY <2>2, <4>1, <4>2
        <4>4. q <= length \div Rate
          BY <2>2, <4>2, <4>3, DivideBounds
        <4> HIDE DEF q, first, length
        <4>5. first + 1 + q \in 1 .. m
          BY SMTT(30), <1>1, <2>2, <3>1, <3>3, <3>4, <4>2, <4>4
        <4> QED
          BY <1>1, <4>5 DEF q
      <3>6. Segment(all, first, length) = Segment(blocks, first, length)
        <4> HIDE DEF first, length
        <4> QED
          BY <3>5 DEF Segment
      <3>7. f[n] = Append(f[first], Segment(blocks, first, length))
        BY <2>2, <2>3, <2>5 DEF UptoStep
      <3>8. g[n] = Append(g[first], Segment(all, first, length))
        BY <2>1, <2>2, <2>3, <2>5 DEF UptoStep
      <3>9. g[n] = f[n]
        BY <3>2, <3>6, <3>7, <3>8
      <3> QED
        BY <1>1, <1>6, <3>9
    <2> QED
      BY <2>4, <2>5
  <1>7. m \in P
    <2> HIDE DEF P
    <2> QED
      BY <1>1, <1>5, <1>6, InductionUpTo
  <1> QED
    BY <1>1, <1>7 DEF m
(* What was digested last is read back from the last blocks.               *)
LEMMA PaddingIsRead ==
  ASSUME NEW q \in Seq(Nat)
  PROVE  /\ Chunks(Append(q, Len(q))) \in Seq(Blocks)
         /\ Len(Chunks(Append(q, Len(q)))) = (Len(q) \div Rate) + 1
         /\ LastLength(Chunks(Append(q, Len(q)))[(Len(q) \div Rate) + 1]) = Len(q)
         /\ \A k \in 1 .. Len(q) :
               Chunks(Append(q, Len(q)))[((k - 1) \div Rate) + 1][1 + ((k - 1) % Rate)] = q[k]
  <1> DEFINE L == Len(q)
             p == Append(q, Len(q))
             c == Chunks(p)
             d == L \div Rate
             r == L % Rate
  <1>1. L \in Nat
    BY LenProperties
  <1>2. /\ p \in Seq(Nat) /\ Len(p) = L + 1 /\ p # <<>> /\ p[L + 1] = L
        /\ \A k \in 1 .. L : p[k] = q[k]
    <2>1. p \in Seq(Nat) /\ Len(p) = L + 1
      BY <1>1, AppendProperties
    <2>2. p[L + 1] = L /\ \A k \in 1 .. L : p[k] = q[k]
      BY <1>1
    <2>3. p # <<>>
      BY <1>1, <2>1, EmptySeq
    <2> QED
      BY <2>1, <2>2, <2>3
  <1>3. d \in Nat /\ r \in 0 .. Rate - 1 /\ L = d * Rate + r /\ d * Rate \in Nat
    <2> HIDE DEF L
    <2>1. d \in Nat /\ r \in 0 .. Rate - 1 /\ L = d * Rate + r
      BY <1>1, Divides
    <2> HIDE DEF d
    <2> QED
      BY <2>1, RateIsNat
  <1> HIDE DEF p, L
  <1>4. /\ c \in Seq(Blocks) /\ Len(c) = ((Len(p) - 1) \div Rate) + 1
        /\ \A b \in 1 .. Len(c), i \in 1 .. Rate :
              c[b][i] = IF (b - 1) * Rate + i <= Len(p) THEN p[(b - 1) * Rate + i] ELSE 0
    BY <1>2, ChunksHold
  <1>5. Len(c) = d + 1
    <2>1. Len(p) - 1 = L
      BY <1>1, <1>2
    <2> QED
      BY <1>4, <2>1
  <1> HIDE DEF c, d, r
  <1>6. \A b \in 0 .. d, i \in 1 .. Rate :
           c[b + 1][i] = IF b * Rate + i <= L + 1 THEN p[b * Rate + i] ELSE 0
    <2>1. ASSUME NEW b \in 0 .. d, NEW i \in 1 .. Rate
          PROVE  c[b + 1][i] = IF b * Rate + i <= L + 1 THEN p[b * Rate + i] ELSE 0
      <3>1. b + 1 \in 1 .. Len(c) /\ b + 1 - 1 = b
        BY <1>3, <1>5
      <3> QED
        BY <1>2, <1>4, <3>1
    <2> QED
      BY <2>1
  <1> DEFINE last == c[d + 1]
             at == r + 1
  <1>7. last \in Blocks
    <2> DEFINE B == Blocks
    <2>1. c \in Seq(B) /\ d + 1 \in 1 .. Len(c)
      BY <1>3, <1>4, <1>5
    <2> HIDE DEF B
    <2>2. c[d + 1] \in B
      BY <2>1, ElementOfSeq
    <2> QED
      BY <2>2 DEF B
  <1>8. \A i \in 1 .. Rate : last[i] = IF d * Rate + i <= L + 1 THEN p[d * Rate + i] ELSE 0
    BY <1>3, <1>6
  <1> HIDE DEF last
  <1>9. at \in 1 .. Rate /\ last[at] = L
    <2>1. at \in 1 .. Rate /\ d * Rate + at = L + 1
      BY <1>1, <1>3, RateIsNat
    <2> QED
      BY <1>2, <1>8, <2>1
  <1>10. \A j \in 1 .. Rate : j > at => last[j] = 0
    <2>1. ASSUME NEW j \in 1 .. Rate, j > at
          PROVE  ~ (d * Rate + j <= L + 1)
      BY <1>1, <1>3, <2>1, RateIsNat
    <2> QED
      BY <1>8, <2>1
  <1>11. LastLength(last) = L
    <2>1. LastLength(last) = last[at] \/ last[at] = 0
      BY <1>7, <1>9, <1>10, LastIsLength
    <2>2. CASE L = 0
      <3>1. r = 0
        BY <1>3, <2>2, RateIsNat
      <3>2. \A j \in 1 .. Rate : j = at \/ j > at
        BY <3>1, RateIsNat
      <3>3. \A j \in 1 .. Rate : last[j] = 0
        BY <1>9, <1>10, <2>2, <3>2
      <3> QED
        BY <2>2, <3>3, NoLastLength
    <2> QED
      BY <1>9, <2>1, <2>2
  <1>12. ASSUME NEW k \in 1 .. L
         PROVE  c[((k - 1) \div Rate) + 1][1 + ((k - 1) % Rate)] = q[k]
    <2> DEFINE b == (k - 1) \div Rate
               i == 1 + ((k - 1) % Rate)
    <2>1. k - 1 \in Nat /\ k - 1 <= L /\ k \in Nat
      BY <1>1
    <2>2. b \in Nat /\ i \in 1 .. Rate /\ b * Rate \in Nat /\ k - 1 = b * Rate + (i - 1)
      BY <2>1, Divides, RateIsNat
    <2> HIDE DEF b, i
    <2>3. b * Rate + i = k /\ b * Rate <= L
      BY <1>1, <2>1, <2>2, RateIsNat
    <2>4. b <= d
      BY <1>1, <2>2, <2>3, DivideBounds DEF d
    <2>5. b \in 0 .. d /\ k <= L + 1
      BY <1>1, <1>3, <2>2, <2>4
    <2>6. c[b + 1][i] = p[k]
      BY <1>6, <2>2, <2>3, <2>5
    <2> QED
      BY <1>2, <2>6 DEF b, i
  <1> QED
    BY <1>4, <1>5, <1>11, <1>12 DEF last, c, d, p, L

LEMMA UnpadsChunks ==
  ASSUME NEW blocks \in Seq(Blocks), NEW q \in Seq(Nat)
  PROVE  Unpadded(blocks \o Chunks(Append(q, Len(q)))) = Append(Unpadded(blocks), q)
  <1> DEFINE L == Len(q)
             c == Chunks(Append(q, Len(q)))
             d == L \div Rate
             all == blocks \o c
             m == Len(blocks)
             n == Len(all)
             B == Blocks
  <1>1. L \in Nat /\ m \in Nat /\ d \in Nat
    BY LenProperties, Divides
  <1>2. /\ c \in Seq(B) /\ Len(c) = d + 1 /\ LastLength(c[d + 1]) = L
        /\ \A k \in 1 .. L : c[((k - 1) \div Rate) + 1][1 + ((k - 1) % Rate)] = q[k]
    BY PaddingIsRead
  <1>3. blocks \in Seq(B)
    OBVIOUS
  <1> HIDE DEF c, B
  <1>4. /\ all \in Seq(B) /\ n = m + d + 1 /\ n \in Nat
        /\ \A k \in 1 .. d + 1 : all[m + k] = c[k]
    <2>1. all \in Seq(B)
      BY <1>2, <1>3, ConcatProperties
    <2>2. Len(all) = Len(blocks) + Len(c)
      BY <1>2, <1>3, ConcatProperties
    <2>3. \A k \in 1 .. Len(blocks) + Len(c) : all[k] = IF k <= Len(blocks) THEN blocks[k]
                                                       ELSE c[k - Len(blocks)]
      BY <1>2, <1>3, ConcatProperties
    <2> HIDE DEF all, m, d
    <2>4. ASSUME NEW k \in 1 .. d + 1
          PROVE  all[m + k] = c[k]
      <3>1. m + k \in 1 .. m + (d + 1) /\ ~ (m + k <= m) /\ m + k - m = k
        BY <1>1
      <3> QED
        BY <1>2, <2>3, <3>1 DEF m
    <2>5. n = m + d + 1 /\ n \in Nat
      BY <1>1, <1>2, <2>2 DEF m
    <2> QED
      BY <2>1, <2>4, <2>5
  <1>5. PICK f : /\ \A k \in 0 .. Len(blocks) : f[k] = UptoStep(blocks, f, k)
                 /\ Unpadded(blocks) = f[Len(blocks)]
    BY Unpads
  <1>6. PICK g : /\ \A k \in 0 .. Len(all) : g[k] = UptoStep(all, g, k)
                 /\ Unpadded(all) = g[Len(all)]
    BY <1>4, Unpads DEF B
  <1>7. g[m] = f[m]
    BY <1>2, <1>5, <1>6, UnpadsMore DEF B
  <1> HIDE DEF all, m, n, L, d
  <1>8. g[n] = UptoStep(all, g, n) /\ Unpadded(all) = g[n] /\ Unpadded(blocks) = f[m]
    BY <1>4, <1>5, <1>6 DEF n, m
  <1>9. LastLength(all[n]) = L
    <2>1. d + 1 \in 1 .. d + 1 /\ n = m + (d + 1)
      BY <1>1, <1>4
    <2>2. all[n] = c[d + 1]
      BY <1>4, <2>1
    <2> QED
      BY <1>2, <2>2
  <1>10. First(all, n) = m
    <2>1. (L + Rate) \div Rate = d + 1
      BY <1>1, DivideBounds DEF d
    <2>2. First(all, n) = n - (d + 1)
      BY <1>9, <2>1 DEF First
    <2> QED
      BY <1>1, <1>4, <2>2
  <1>11. g[n] = Append(g[m], Segment(all, m, L))
    <2>1. n # 0 /\ ~ (m < 0)
      BY <1>1, <1>4
    <2> QED
      BY <1>8, <1>9, <1>10, <2>1 DEF UptoStep
  <1>12. Segment(all, m, L) = q
    <2>1. ASSUME NEW k \in 1 .. L
          PROVE  all[m + 1 + ((k - 1) \div Rate)][1 + ((k - 1) % Rate)] = q[k]
      <3> DEFINE b == (k - 1) \div Rate
      <3>1. k - 1 \in Nat /\ k - 1 <= L
        BY <1>1
      <3>2. b \in Nat /\ b * Rate <= k - 1 /\ b * Rate \in Nat
        BY <3>1, Divides, DivideBounds, RateIsNat
      <3> HIDE DEF b
      <3>3. b * Rate <= L
        BY <1>1, <3>1, <3>2
      <3>4. b <= d
        BY <1>1, <3>2, <3>3, DivideBounds DEF d
      <3>5. b + 1 \in 1 .. d + 1 /\ m + 1 + b = m + (b + 1)
        BY <1>1, <3>2, <3>4
      <3>6. all[m + 1 + b] = c[b + 1]
        BY <1>4, <3>5
      <3> QED
        BY <1>2, <3>6 DEF b
    <2>2. Segment(all, m, L) = [k \in 1 .. L |-> q[k]]
      BY <2>1 DEF Segment
    <2>3. q = [k \in 1 .. L |-> q[k]]
      BY LenProperties DEF L
    <2> QED
      BY <2>2, <2>3
  <1> QED
    BY <1>7, <1>8, <1>11, <1>12 DEF all, c
-----------------------------------------------------------------------------
(* A sponge without a fixed length: every output came before what is       *)
(* squeezed next, from fewer blocks or from an earlier position.           *)
SpongeFields == {"register", "queue", "squeeze_position", "input_len"}
Registers    == [capacity : {NoLength}, blocks : Seq(Blocks)]
Squeezes     == [register : Registers, position : Nat]

Before(output, s) ==
    \/ Len(output.register.blocks) < Len(s.register.blocks)
    \/ /\ Len(output.register.blocks) = Len(s.register.blocks)
       /\ s.squeeze_position = 0 \/ output.position < s.squeeze_position

Distinct(s) == \A i, j \in 1 .. Len(s) : s[i] = s[j] => i = j

History == /\ sponge.register \in Registers
           /\ sponge.queue \in Seq(Nat)
           /\ sponge.squeeze_position \in 0 .. Rate - 1
           /\ sponge.squeeze_position > 0 => sponge.register.blocks # <<>>
           /\ Unpadded(sponge.register.blocks) = segments
           /\ outputs \in Seq(Squeezes)
           /\ \A i \in 1 .. Len(outputs) : Before(outputs[i], sponge)
           /\ Distinct(outputs)

SpongeInv == /\ DOMAIN sponge = SpongeFields
             /\ sponge.input_len = NoLength => History

LEMMA UnpadsNothing == Unpadded(<<>>) = <<>>
  <1> DEFINE none == <<>>
  <1>1. none \in Seq(Blocks) /\ Len(none) = 0
    OBVIOUS
  <1> HIDE DEF none
  <1>2. PICK f : /\ \A n \in 0 .. Len(none) : f[n] = UptoStep(none, f, n)
                 /\ Unpadded(none) = f[Len(none)]
    BY <1>1, Unpads
  <1>3. f[0] = UptoStep(none, f, 0) /\ Unpadded(none) = f[0]
    BY <1>1, <1>2
  <1> QED
    BY <1>3 DEF UptoStep, none

LEMMA SpongeInitInv == SpongeInit => SpongeInv
  <1> SUFFICES ASSUME NEW input_len \in Lengths, sponge = Init(input_len), segments = <<>>,
                      outputs = <<>>
               PROVE  SpongeInv
    BY DEF SpongeInit
  <1> DEFINE blank == [capacity |-> input_len, blocks |-> <<>>]
  <1>1. sponge = [register |-> blank, queue |-> <<>>, squeeze_position |-> 0, input_len |-> input_len]
    BY DEF Init, Register
  <1>2. /\ DOMAIN sponge = SpongeFields /\ sponge.register = blank /\ sponge.queue = <<>>
        /\ sponge.squeeze_position = 0 /\ sponge.input_len = input_len
    <2> HIDE DEF blank
    <2> QED
      BY <1>1 DEF SpongeFields
  <1>3. ASSUME input_len = NoLength
        PROVE  History
    <2>1. blank \in Registers /\ blank.blocks = <<>>
      BY <1>3 DEF Registers
    <2>2. <<>> \in Seq(Nat) /\ outputs \in Seq(Squeezes) /\ Len(outputs) = 0
      OBVIOUS
    <2> HIDE DEF blank
    <2>3. Distinct(outputs) /\ \A i \in 1 .. Len(outputs) : Before(outputs[i], sponge)
      BY <2>2 DEF Distinct
    <2> QED
      BY <1>2, <2>1, <2>2, <2>3, UnpadsNothing, RateIsNat DEF History
  <1> QED
    BY <1>2, <1>3 DEF SpongeInv

LEMMA AbsorbInv == SpongeInv /\ AbsorbInputs => SpongeInv'
  <1> SUFFICES ASSUME SpongeInv, NEW n \in 0 .. 2, NEW inputs \in [1 .. n -> Inputs],
                      sponge' = Absorb(sponge, inputs), UNCHANGED <<segments, outputs>>
               PROVE  SpongeInv'
    BY DEF AbsorbInputs
  <1>1. DOMAIN sponge = SpongeFields
    BY DEF SpongeInv
  <1>2. sponge' = [sponge EXCEPT !.queue = sponge.queue \o inputs, !.squeeze_position = 0]
    BY DEF Absorb
  <1> DEFINE queue == sponge.queue \o inputs
  <1> HIDE DEF queue
  <1>3. /\ DOMAIN sponge' = SpongeFields /\ sponge'.register = sponge.register
        /\ sponge'.queue = queue /\ sponge'.squeeze_position = 0
        /\ sponge'.input_len = sponge.input_len
    BY <1>1, <1>2 DEF SpongeFields, queue
  <1>4. ASSUME History
        PROVE  History'
    <2>1. inputs \in Seq(Nat)
      <3>1. n \in Nat
        OBVIOUS
      <3>2. \A i \in 1 .. n : inputs[i] \in Nat
        BY SpongeAssumption
      <3>3. inputs = [i \in 1 .. n |-> inputs[i]]
        OBVIOUS
      <3>4. inputs \in [1 .. n -> Nat]
        BY <3>2, <3>3
      <3> QED
        BY <3>1, <3>4, SeqDef
    <2>2. queue \in Seq(Nat)
      BY <1>4, <2>1, ConcatProperties DEF History, queue
    <2>3. ASSUME NEW i \in 1 .. Len(outputs)
          PROVE  Before(outputs[i], sponge')
      <3>1. Before(outputs[i], sponge)
        BY <1>4 DEF History
      <3> QED
        BY <1>3, <3>1 DEF Before
    <2> QED
      BY <1>3, <1>4, <2>2, <2>3, RateIsNat DEF History, Before, Distinct
  <1> QED
    BY <1>3, <1>4 DEF SpongeInv

(* A new output, after all the others, is none of them.                    *)
LEMMA OutputsGrow ==
  ASSUME NEW s \in Seq(Squeezes), NEW new \in Squeezes, Distinct(s),
         \A i \in 1 .. Len(s) : s[i] # new
  PROVE  /\ Append(s, new) \in Seq(Squeezes)
         /\ Distinct(Append(s, new))
         /\ Len(Append(s, new)) = Len(s) + 1
         /\ \A i \in 1 .. Len(s) + 1 : Append(s, new)[i] = IF i = Len(s) + 1 THEN new ELSE s[i]
  <1> DEFINE t == Append(s, new)
             S == Squeezes
  <1>1. Len(s) \in Nat
    BY LenProperties
  <1>2. s \in Seq(S) /\ new \in S
    OBVIOUS
  <1> HIDE DEF S
  <1>3. t \in Seq(S) /\ Len(t) = Len(s) + 1
    BY <1>2, AppendProperties
  <1>4. \A i \in 1 .. Len(s) + 1 : t[i] = IF i = Len(s) + 1 THEN new ELSE s[i]
    BY <1>1, <1>2, AppendProperties
  <1> HIDE DEF t
  <1>5. ASSUME NEW i \in 1 .. Len(t), NEW j \in 1 .. Len(t), t[i] = t[j]
        PROVE  i = j
    <2>1. i \in 1 .. Len(s) \/ i = Len(s) + 1
      BY <1>1, <1>3
    <2>2. j \in 1 .. Len(s) \/ j = Len(s) + 1
      BY <1>1, <1>3
    <2>3. \A k \in 1 .. Len(s) : k # Len(s) + 1 /\ k \in 1 .. Len(s) + 1
      BY <1>1
    <2> QED
      BY <1>3, <1>4, <1>5, <2>1, <2>2, <2>3 DEF Distinct
  <1>6. Distinct(t)
    BY <1>5 DEF Distinct
  <1> QED
    BY <1>3, <1>4, <1>6 DEF t, S

LEMMA SqueezeMoreInv ==
  ASSUME SpongeInv, Squeeze, History, sponge.squeeze_position > 0
  PROVE  DOMAIN sponge' = SpongeFields /\ History'
  <1> DEFINE at == sponge.squeeze_position
             next == (at + 1) % Rate
             m == Len(sponge.register.blocks)
             new == [register |-> sponge.register, position |-> at]
  <1>1. at \in 1 .. Rate - 1 /\ DOMAIN sponge = SpongeFields
    BY RateIsNat DEF SpongeInv, History
  <1>2. at % Rate = at /\ next = (IF at + 1 = Rate THEN 0 ELSE at + 1)
    BY <1>1, RateIsNat
  <1>3. sponge' = [sponge EXCEPT !.squeeze_position = next]
    BY DEF Squeeze, Squeezed
  <1>4. /\ outputs' = Append(outputs, Element(sponge.register, at % Rate))
        /\ segments' = segments
    BY DEF Squeeze, Squeezed
  <1>5. Element(sponge.register, at % Rate) = new
    BY <1>2 DEF Element, History
  <1>6. sponge.register \in Registers /\ sponge.register.blocks \in Seq(Blocks) /\ m \in Nat
    BY LenProperties DEF History, Registers
  <1>7. new \in Squeezes /\ new.register = sponge.register /\ new.position = at
    BY <1>1, <1>6, RateIsNat DEF Squeezes
  <1> HIDE DEF next, new, at
  <1>8. /\ DOMAIN sponge' = SpongeFields /\ sponge'.register = sponge.register
        /\ sponge'.queue = sponge.queue /\ sponge'.squeeze_position = next
    BY <1>1, <1>3 DEF SpongeFields
  <1>9. outputs \in Seq(Squeezes) /\ Distinct(outputs) /\ Len(outputs) \in Nat
    BY LenProperties DEF History
  <1>10. \A i \in 1 .. Len(outputs) : Before(outputs[i], sponge) /\ outputs[i] \in Squeezes
    <2> DEFINE S == Squeezes
    <2>1. outputs \in Seq(S)
      BY <1>9
    <2> HIDE DEF S
    <2>2. \A i \in 1 .. Len(outputs) : outputs[i] \in S
      BY <2>1, ElementOfSeq
    <2> QED
      BY <2>2 DEF History, S
  <1>11. ASSUME NEW i \in 1 .. Len(outputs)
         PROVE  outputs[i] # new /\ Before(outputs[i], sponge')
    <2> DEFINE o == outputs[i]
    <2>1. o.position \in Nat /\ o.register.blocks \in Seq(Blocks)
      BY <1>10 DEF Squeezes, Registers
    <2>2. Len(o.register.blocks) \in Nat
      BY <2>1, LenProperties
    <2>3. Before(o, sponge)
      BY <1>10
    <2> HIDE DEF o
    <2>4. Len(o.register.blocks) < m \/ (Len(o.register.blocks) = m /\ o.position < at)
      BY <1>1, <2>3, RateIsNat DEF Before, at
    <2>5. o # new
      BY <1>6, <1>7, <1>1, <2>1, <2>2, <2>4, RateIsNat
    <2>6. Before(o, sponge')
      BY <1>1, <1>2, <1>8, <2>1, <2>4, RateIsNat DEF Before
    <2> QED
      BY <2>5, <2>6 DEF o
  <1>12. /\ outputs' \in Seq(Squeezes) /\ Distinct(outputs') /\ Len(outputs') = Len(outputs) + 1
         /\ \A i \in 1 .. Len(outputs) + 1 :
               outputs'[i] = IF i = Len(outputs) + 1 THEN new ELSE outputs[i]
    BY <1>4, <1>5, <1>7, <1>9, <1>11, OutputsGrow
  <1>13. Before(new, sponge')
    BY <1>1, <1>2, <1>7, <1>8, RateIsNat DEF Before
  <1>14. \A i \in 1 .. Len(outputs') : Before(outputs'[i], sponge')
    <2>1. \A i \in 1 .. Len(outputs) + 1 : i = Len(outputs) + 1 \/ i \in 1 .. Len(outputs)
      BY <1>9
    <2> QED
      BY <1>11, <1>12, <1>13, <2>1
  <1>15. next \in 0 .. Rate - 1
    BY <1>1, <1>2, RateIsNat
  <1>16. sponge.register.blocks # <<>> /\ Unpadded(sponge.register.blocks) = segments
         /\ sponge.queue \in Seq(Nat)
    BY <1>1 DEF History, at
  <1>17. History'
    BY <1>4, <1>6, <1>8, <1>12, <1>14, <1>15, <1>16 DEF History, Before, Distinct
  <1> QED
    BY <1>8, <1>17

LEMMA SqueezeDigestInv ==
  ASSUME SpongeInv, Squeeze, History, sponge.squeeze_position = 0,
         sponge.input_len = NoLength
  PROVE  DOMAIN sponge' = SpongeFields /\ History'
  <1> DEFINE q == sponge.queue
             c == Chunks(Append(q, Len(q)))
             old == sponge.register.blocks
             all == old \o c
             digested == [sponge.register EXCEPT !.blocks = sponge.register.blocks \o c]
             new == [register |-> digested, position |-> 0]
             B == Blocks
  <1>1. DOMAIN sponge = SpongeFields /\ q \in Seq(Nat) /\ sponge.register \in Registers
    BY DEF SpongeInv, History
  <1>2. Padded(sponge) = Append(q, Len(q))
    BY DEF Padded
  <1>3. 1 % Rate = 1
    BY RateIsNat
  <1>4. sponge' = [sponge EXCEPT !.register = digested, !.queue = <<>>, !.squeeze_position = 1]
    <2>1. sponge' = [sponge EXCEPT !.register = digested, !.queue = <<>>,
                                   !.squeeze_position = 1 % Rate]
      BY <1>2 DEF Squeeze, Squeezed
    <2> HIDE DEF digested
    <2> QED
      BY <1>3, <2>1
  <1>5. outputs' = Append(outputs, Element(digested, 0)) /\ segments' = Append(segments, q)
    BY <1>2 DEF Squeeze, Squeezed
  <1>6. c \in Seq(Blocks) /\ Len(c) = (Len(q) \div Rate) + 1
    BY <1>1, PaddingIsRead
  <1>7. old \in Seq(Blocks) /\ sponge.register = [capacity |-> NoLength, blocks |-> old]
    BY <1>1 DEF Registers
  <1>8. Unpadded(all) = Append(segments, q)
    BY <1>1, <1>7, UnpadsChunks DEF History
  <1>9. digested = [capacity |-> NoLength, blocks |-> all]
    <2> DEFINE r == sponge.register
    <2>1. digested = [r EXCEPT !.blocks = all] /\ r = [capacity |-> NoLength, blocks |-> old]
      BY <1>7
    <2> HIDE DEF r, all, old, digested
    <2> QED
      BY <2>1
  <1> HIDE DEF c
  <1>10. /\ Len(old) \in Nat /\ all \in Seq(B) /\ Len(all) > Len(old) /\ Len(all) \in Nat
    <2>1. Len(q) \in Nat /\ Len(old) \in Nat
      BY <1>1, <1>7, LenProperties
    <2>2. Len(q) \div Rate \in Nat
      BY <2>1, Divides
    <2>3. c \in Seq(B) /\ old \in Seq(B)
      BY <1>6, <1>7
    <2> HIDE DEF B, old
    <2>4. all \in Seq(B) /\ Len(all) = Len(old) + Len(c)
      BY <2>3, ConcatProperties
    <2> HIDE DEF all
    <2> QED
      BY <1>6, <2>1, <2>2, <2>4
  <1> HIDE DEF all, old, digested
  <1>11. digested \in Registers /\ digested.blocks = all
    BY <1>9, <1>10 DEF Registers
  <1>12. all # <<>>
    BY <1>10
  <1>13. Element(digested, 0) = new
    BY <1>11, <1>12 DEF Element
  <1>14. new \in Squeezes /\ new.register.blocks = all /\ new.position = 0
    BY <1>11 DEF Squeezes
  <1> HIDE DEF new
  <1>15. /\ DOMAIN sponge' = SpongeFields /\ sponge'.register = digested
         /\ sponge'.queue = <<>> /\ sponge'.squeeze_position = 1
    BY <1>1, <1>4 DEF SpongeFields
  <1>16. outputs \in Seq(Squeezes) /\ Distinct(outputs) /\ Len(outputs) \in Nat
    BY LenProperties DEF History
  <1>17. \A i \in 1 .. Len(outputs) : Before(outputs[i], sponge) /\ outputs[i] \in Squeezes
    <2> DEFINE S == Squeezes
    <2>1. outputs \in Seq(S)
      BY <1>16
    <2> HIDE DEF S
    <2>2. \A i \in 1 .. Len(outputs) : outputs[i] \in S
      BY <2>1, ElementOfSeq
    <2> QED
      BY <2>2 DEF History, S
  <1>18. ASSUME NEW i \in 1 .. Len(outputs)
         PROVE  outputs[i] # new /\ Before(outputs[i], sponge')
    <2> DEFINE o == outputs[i]
    <2>1. o.register.blocks \in Seq(Blocks)
      BY <1>17 DEF Squeezes, Registers
    <2>2. Len(o.register.blocks) \in Nat
      BY <2>1, LenProperties
    <2>3. Before(o, sponge)
      BY <1>17
    <2> HIDE DEF o
    <2>4. Len(o.register.blocks) <= Len(old)
      BY <1>10, <2>2, <2>3 DEF Before, old
    <2>5. o # new
      BY <1>10, <1>14, <2>2, <2>4
    <2>6. Before(o, sponge')
      BY <1>10, <1>11, <1>15, <2>2, <2>4 DEF Before
    <2> QED
      BY <2>5, <2>6 DEF o
  <1>19. /\ outputs' \in Seq(Squeezes) /\ Distinct(outputs') /\ Len(outputs') = Len(outputs) + 1
         /\ \A i \in 1 .. Len(outputs) + 1 :
               outputs'[i] = IF i = Len(outputs) + 1 THEN new ELSE outputs[i]
    BY <1>5, <1>13, <1>14, <1>16, <1>18, OutputsGrow
  <1>20. Before(new, sponge')
    BY <1>11, <1>14, <1>15 DEF Before
  <1>21. \A i \in 1 .. Len(outputs') : Before(outputs'[i], sponge')
    <2>1. \A i \in 1 .. Len(outputs) + 1 : i = Len(outputs) + 1 \/ i \in 1 .. Len(outputs)
      BY <1>16
    <2> QED
      BY <1>18, <1>19, <1>20, <2>1
  <1>22. 1 \in 0 .. Rate - 1 /\ <<>> \in Seq(Nat)
    BY RateIsNat
  <1>23. History'
    BY <1>5, <1>8, <1>11, <1>12, <1>15, <1>19, <1>21, <1>22 DEF History, Distinct, Before
  <1> QED
    BY <1>15, <1>23

LEMMA SqueezeInv == SpongeInv /\ Squeeze => SpongeInv'
  <1> SUFFICES ASSUME SpongeInv, Squeeze
               PROVE  SpongeInv'
    OBVIOUS
  <1>1. CASE sponge.input_len # NoLength
    <2>1. DOMAIN sponge' = DOMAIN sponge
      BY DEF Squeeze, Squeezed
    <2>2. sponge'.input_len = sponge.input_len
      BY DEF Squeeze, Squeezed, SpongeInv, SpongeFields
    <2> QED
      BY <1>1, <2>1, <2>2 DEF SpongeInv
  <1>2. CASE sponge.input_len = NoLength
    <2>1. History
      BY <1>2 DEF SpongeInv
    <2>2. CASE sponge.squeeze_position > 0
      BY <2>1, <2>2, SqueezeMoreInv DEF SpongeInv
    <2>3. CASE ~ (sponge.squeeze_position > 0)
      <3>1. sponge.squeeze_position = 0
        BY <2>1, <2>3, RateIsNat DEF History
      <3> QED
        BY <1>2, <2>1, <3>1, SqueezeDigestInv DEF SpongeInv
    <2> QED
      BY <2>2, <2>3
  <1> QED
    BY <1>1, <1>2

LEMMA SpongeNextInv == SpongeInv /\ [SpongeNext]_spongeVars => SpongeInv'
  <1>1. SpongeInv /\ UNCHANGED spongeVars => SpongeInv'
    BY DEF SpongeInv, History, Before, Distinct, spongeVars
  <1> QED
    BY <1>1, AbsorbInv, SqueezeInv DEF SpongeNext

LEMMA HistoriesBind == SpongeInv => SpongeBindsHistory
  <1> SUFFICES ASSUME SpongeInv, sponge.input_len = NoLength
               PROVE  Unpadded(sponge.register.blocks) = segments /\ IsInjective(outputs)
    BY DEF SpongeBindsHistory
  <1>1. Unpadded(sponge.register.blocks) = segments /\ outputs \in Seq(Squeezes)
        /\ Distinct(outputs)
    BY DEF SpongeInv, History
  <1>2. DOMAIN outputs = 1 .. Len(outputs)
    BY <1>1, LenProperties
  <1> QED
    BY <1>1, <1>2 DEF IsInjective, Distinct

(* A sponge without a fixed length binds its history, for every rate, all  *)
(* inputs and every order of absorbing and squeezing: what was absorbed    *)
(* before each permutation can be read back from the register, although    *)
(* paddings are elements like the ones absorbed, and no output comes twice *)
(* (poseidon_cpu.rs:140-178).                                              *)
THEOREM SpongesBindHistory == SpongeSpec => []SpongeBindsHistory
  <1>1. SpongeInit => SpongeInv
    BY SpongeInitInv
  <1>2. SpongeInv /\ [SpongeNext]_spongeVars => SpongeInv'
    BY SpongeNextInv
  <1>3. SpongeInv => SpongeBindsHistory
    BY HistoriesBind
  <1> QED
    BY <1>1, <1>2, <1>3, PTL DEF SpongeSpec
-----------------------------------------------------------------------------
(* Division and remainder by the size of a chunk.                          *)
Moduli == Nat \ {0, 1}

LEMMA Quotients ==
  ASSUME NEW a \in Moduli, NEW n \in Nat
  PROVE  /\ n \div a \in Nat /\ n % a \in 0 .. a - 1
         /\ n = (n \div a) * a + (n % a)
  BY DEF Moduli

LEMMA QuotientsAgree ==
  ASSUME NEW a \in Moduli, NEW p \in Int, NEW q \in Int,
         NEW r \in 0 .. a - 1, NEW s \in 0 .. a - 1, p * a + r = q * a + s
  PROVE  p = q /\ r = s
  <1>1. ASSUME NEW x \in Int, NEW y \in Int, x < y
        PROVE  x * a + a <= y * a /\ x * a \in Int /\ y * a \in Int
    <2>1. (x + 1) * a <= y * a
      BY <1>1 DEF Moduli
    <2>2. (x + 1) * a = x * a + a /\ x * a \in Int /\ y * a \in Int
      BY DEF Moduli
    <2> QED
      BY <2>1, <2>2
  <1>2. p * a \in Int /\ q * a \in Int /\ a \in Nat
    BY DEF Moduli
  <1>3. ~ p < q
    <2>1. p < q => p * a + a <= q * a
      BY <1>1
    <2> QED
      BY <1>2, <2>1
  <1>4. ~ q < p
    <2>1. q < p => q * a + a <= p * a
      BY <1>1
    <2> QED
      BY <1>2, <2>1
  <1>5. p = q
    BY <1>3, <1>4
  <1> QED
    BY <1>2, <1>5

LEMMA QuotientIs ==
  ASSUME NEW a \in Moduli, NEW q \in Nat, NEW r \in 0 .. a - 1
  PROVE  (q * a + r) % a = r /\ (q * a + r) \div a = q /\ q * a \in Nat
  <1> DEFINE n == q * a + r
  <1>1. q * a \in Nat /\ n \in Nat
    BY DEF Moduli
  <1>2. n \div a \in Nat /\ n % a \in 0 .. a - 1 /\ n = (n \div a) * a + (n % a)
    BY <1>1, Quotients
  <1>3. q = n \div a /\ r = n % a
    <2> DEFINE p == n \div a
               s == n % a
    <2>1. p \in Int /\ q \in Int /\ s \in 0 .. a - 1 /\ p * a + s = q * a + r
      BY <1>2
    <2> HIDE DEF p, s
    <2>2. p = q /\ s = r
      BY <2>1, QuotientsAgree
    <2> QED
      BY <2>2 DEF p, s
  <1> QED
    BY <1>1, <1>3

LEMMA MultiplesCompare ==
  ASSUME NEW a \in Moduli, NEW p \in Nat, NEW q \in Nat
  PROVE  /\ p * a \in Nat /\ q * a \in Nat
         /\ p <= q <=> p * a <= q * a
         /\ p < q <=> p * a < q * a
         /\ p < q => p * a + a <= q * a
         /\ p <= q => (q - p) * a = q * a - p * a
  <1>1. ASSUME NEW x \in Nat, NEW y \in Nat, x < y
        PROVE  x * a + a <= y * a /\ x * a < y * a
    <2>1. (x + 1) * a <= y * a
      BY <1>1 DEF Moduli
    <2>2. (x + 1) * a = x * a + a /\ x * a \in Nat /\ y * a \in Nat /\ a > 0
      BY DEF Moduli
    <2> DEFINE X == x * a
               Y == y * a
               Z == (x + 1) * a
    <2>3. Z <= Y /\ Z = X + a /\ X \in Nat /\ Y \in Nat /\ a \in Nat /\ a > 0
      BY <2>1, <2>2 DEF Moduli
    <2> HIDE DEF X, Y, Z
    <2>4. X + a <= Y /\ X < Y
      BY <2>3
    <2> QED
      BY <2>4 DEF X, Y
  <1>2. p * a \in Nat /\ q * a \in Nat
    BY DEF Moduli
  <1>3. p < q => p * a < q * a /\ p * a + a <= q * a
    BY <1>1
  <1>4. q < p => q * a < p * a
    BY <1>1
  <1>5. p = q \/ p < q \/ q < p
    OBVIOUS
  <1>6. (q - p) * a = q * a - p * a
    BY DEF Moduli
  <1> QED
    BY <1>2, <1>3, <1>4, <1>5, <1>6
-----------------------------------------------------------------------------
(* Where the data of a vector is: count chunks, the last used of which     *)
(* hold it, from the start of a chunk.                                     *)
Places(size, a, len, count, used) ==
    /\ count \in Nat /\ used \in Nat /\ used <= count
    /\ size = count * a /\ (count - used) * a = count * a - used * a
    /\ len <= used * a /\ used * a < len + a
    /\ Rounded(len, a) = used * a
    /\ Lims(size, a, len).start = (count - used) * a
    /\ Lims(size, a, len).end = (count - used) * a + len

LEMMA PadIs ==
  ASSUME NEW a \in Moduli, NEW r \in 0 .. a - 1
  PROVE  (a - r) % a = IF r = 0 THEN 0 ELSE a - r
  <1>1. a \in Nat /\ 1 * a + 0 = a /\ 0 \in 0 .. a - 1
    BY DEF Moduli
  <1>2. CASE r = 0
    <2>1. (1 * a + 0) % a = 0
      BY <1>1, QuotientIs
    <2> QED
      BY <1>1, <1>2, <2>1
  <1>3. CASE r # 0
    <2>1. a - r \in 0 .. a - 1 /\ 0 * a + (a - r) = a - r
      BY <1>1, <1>3
    <2>2. (0 * a + (a - r)) % a = a - r
      BY <2>1, QuotientIs
    <2> QED
      BY <1>3, <2>1, <2>2
  <1> QED
    BY <1>2, <1>3

LEMMA Placement ==
  ASSUME NEW a \in Moduli, NEW count \in Nat, NEW len \in Nat, len <= count * a
  PROVE  \E used \in Nat : Places(count * a, a, len, count, used)
  <1> DEFINE q == len \div a
             r == len % a
             used == IF r = 0 THEN q ELSE q + 1
  <1>1. q \in Nat /\ r \in 0 .. a - 1 /\ len = q * a + r
    BY Quotients
  <1>2. (a - r) % a = IF r = 0 THEN 0 ELSE a - r
    BY <1>1, PadIs
  <1>3. a \in Nat /\ a >= 2
    BY DEF Moduli
  <1>4. Rounded(len, a) = IF r = 0 THEN len ELSE len - r + a
    BY DEF Rounded
  <1>5. /\ Lims(count * a, a, len).start = count * a - len - ((a - r) % a)
        /\ Lims(count * a, a, len).end = count * a - ((a - r) % a)
    BY DEF Lims
  <1> DEFINE size == count * a
             qa == q * a
             lims == Lims(size, a, len)
             round == Rounded(len, a)
  <1>6. size \in Nat /\ qa \in Nat /\ (q + 1) * a = qa + a
    BY <1>1, <1>3
  <1> HIDE DEF q, r
  <1>7. used \in Nat /\ used * a = IF r = 0 THEN qa ELSE qa + a
    BY <1>1, <1>6
  <1>8. used <= count
    <2>1. q <= count /\ (r # 0 => q < count)
      <3>1. qa <= size /\ (r # 0 => qa < size)
        BY <1>1, <1>3, <1>6
      <3> QED
        BY <1>1, <3>1, MultiplesCompare
    <2> QED
      BY <1>1, <2>1
  <1> HIDE DEF used
  <1>9. (count - used) * a = size - used * a
    BY <1>7, <1>8, MultiplesCompare
  <1>10. round = used * a /\ len <= used * a /\ used * a < len + a
    <2> HIDE DEF qa, round
    <2>1. len = qa + r /\ round = IF r = 0 THEN len ELSE len - r + a
      BY <1>1, <1>4 DEF qa, round
    <2> QED
      BY <1>1, <1>3, <1>6, <1>7, <2>1
  <1>11. /\ lims.start = size - used * a
         /\ lims.end = size - used * a + len
    <2>1. lims.start = size - len - ((a - r) % a) /\ lims.end = size - ((a - r) % a)
      BY <1>5
    <2>2. len = qa + r
      BY <1>1
    <2> DEFINE start == lims.start
               end == lims.end
               pad == (a - r) % a
               ua == used * a
    <2>3. /\ start = size - len - pad /\ end = size - pad
          /\ pad = IF r = 0 THEN 0 ELSE a - r
          /\ ua = IF r = 0 THEN qa ELSE qa + a
      BY <1>2, <1>7, <2>1
    <2> HIDE DEF size, qa, lims, start, end, pad, ua
    <2>4. start = size - ua /\ end = size - ua + len
      BY <1>1, <1>3, <1>6, <2>2, <2>3
    <2> QED
      BY <2>4 DEF start, end, ua
  <1> QED
    BY <1>7, <1>8, <1>9, <1>10, <1>11 DEF Places
-----------------------------------------------------------------------------
(* A vector holds a sequence at its place, in a whole number of chunks.    *)
Start(v)  == Lims(Size(v), v.alignment, v.len).start
Vectors   == [alignment : {Rate, Block256}, buffer : Seq(Nat), len : Nat]
Chunked(v) == \E count \in Nat \ {0} : Size(v) = count * v.alignment

Holds(v, data) ==
    /\ v \in Vectors /\ Chunked(v)
    /\ data \in Seq(Nat) /\ Len(data) = v.len /\ v.len <= Size(v)
    /\ \A i \in 1 .. v.len : v.buffer[Start(v) + i] = data[i]

VectorInv == Holds(vector, payload) /\ Size(vector) <= MaxVector

LEMMA Alignments == {Rate, Block256} \subseteq Moduli
  BY SpongeAssumption, VectorAssumption DEF Moduli

LEMMA TabulatedIsSeq ==
  ASSUME NEW S, NEW n \in Nat, NEW f \in [1 .. n -> S]
  PROVE  f \in Seq(S) /\ Len(f) = n
  <1>1. f \in Seq(S)
    BY SeqDef
  <1>2. DOMAIN f = 1 .. Len(f) /\ Len(f) \in Nat /\ DOMAIN f = 1 .. n
    BY <1>1, LenProperties
  <1> QED
    BY <1>1, <1>2

(* The place of a sequence of a given length, in numbers.                  *)
LEMMA PlaceOf ==
  ASSUME NEW a \in Moduli, NEW size \in Nat, NEW len \in Nat, len <= size,
         \E count \in Nat \ {0} : size = count * a
  PROVE  \E count \in Nat \ {0}, used \in Nat : Places(size, a, len, count, used)
  <1>1. PICK count \in Nat \ {0} : size = count * a
    OBVIOUS
  <1>2. len <= count * a
    BY <1>1
  <1>3. \E used \in Nat : Places(count * a, a, len, count, used)
    BY <1>2, Placement
  <1> QED
    BY <1>1, <1>3

LEMMA LimsBounds ==
  ASSUME NEW a \in Moduli, NEW size \in Nat, NEW len \in Nat, len <= size,
         \E count \in Nat \ {0} : size = count * a
  PROVE  LET lims == Lims(size, a, len)
         IN  /\ lims = [start |-> lims.start, end |-> lims.end]
             /\ lims.start \in Nat /\ lims.end = lims.start + len /\ lims.end <= size
             /\ Rounded(len, a) \in Nat /\ lims.start = size - Rounded(len, a)
             /\ len <= Rounded(len, a) /\ Rounded(len, a) < len + a
             /\ lims.start % a = 0 /\ size >= a
  <1> DEFINE lims == Lims(size, a, len)
             round == Rounded(len, a)
  <1>1. PICK count \in Nat \ {0}, used \in Nat : Places(size, a, len, count, used)
    BY PlaceOf
  <1> DEFINE X == count * a
             U == used * a
             D == (count - used) * a
  <1>2. /\ used <= count /\ size = X /\ D = X - U /\ len <= U /\ U < len + a
        /\ round = U /\ lims.start = D /\ lims.end = D + len
    BY <1>1 DEF Places
  <1>3. X \in Nat /\ U \in Nat /\ U <= X /\ a \in Nat /\ X >= a
    <2>1. 1 <= count /\ 1 \in Nat /\ count \in Nat
      OBVIOUS
    <2>2. 1 * a <= X
      BY <2>1, MultiplesCompare
    <2>3. 1 * a = a /\ a \in Nat
      BY DEF Moduli
    <2>4. X \in Nat /\ U \in Nat /\ U <= X
      BY <1>2, MultiplesCompare
    <2> QED
      BY <2>2, <2>3, <2>4
  <1>4. lims = [start |-> lims.start, end |-> lims.end]
    BY DEF Lims
  <1>5. lims.start % a = 0
    <2>1. count - used \in Nat /\ 0 \in 0 .. a - 1
      BY <1>2, <1>3 DEF Moduli
    <2>2. (D + 0) % a = 0
      BY <2>1, QuotientIs
    <2>3. D + 0 = D
      BY <1>2, <1>3
    <2> QED
      BY <1>2, <2>2, <2>3
  <1> HIDE DEF lims, round, X, U, D
  <1>6. /\ lims.start \in Nat /\ lims.end = lims.start + len /\ lims.end <= size
        /\ round \in Nat /\ lims.start = size - round
        /\ len <= round /\ round < len + a /\ size >= a
    BY <1>2, <1>3
  <1> QED
    BY <1>4, <1>5, <1>6 DEF lims, round

LEMMA HoldsFacts ==
  ASSUME NEW v, NEW data, Holds(v, data)
  PROVE  /\ v.alignment \in Moduli /\ v.alignment \in {Rate, Block256}
         /\ v.buffer \in Seq(Nat) /\ v.len \in Nat
         /\ Size(v) \in Nat /\ v.len <= Size(v)
         /\ \E count \in Nat \ {0} : Size(v) = count * v.alignment
         /\ Start(v) \in Nat /\ Start(v) + v.len <= Size(v)
         /\ Start(v) = Size(v) - Rounded(v.len, v.alignment)
         /\ Rounded(v.len, v.alignment) \in Nat
         /\ v.len <= Rounded(v.len, v.alignment)
         /\ Size(v) >= v.alignment
         /\ data \in Seq(Nat) /\ Len(data) = v.len
  <1>1. /\ v.alignment \in Moduli /\ v.alignment \in {Rate, Block256}
        /\ v.buffer \in Seq(Nat) /\ v.len \in Nat
    BY Alignments DEF Holds, Vectors
  <1>2. /\ Size(v) \in Nat /\ v.len <= Size(v)
        /\ \E count \in Nat \ {0} : Size(v) = count * v.alignment
        /\ data \in Seq(Nat) /\ Len(data) = v.len
    BY <1>1, LenProperties DEF Holds, Chunked, Size
  <1> DEFINE a == v.alignment
             size == Size(v)
             len == v.len
             start == Lims(size, a, len).start
             end == Lims(size, a, len).end
             round == Rounded(len, a)
  <1>3. a \in Moduli /\ size \in Nat /\ len \in Nat /\ len <= size
    BY <1>1, <1>2
  <1>4. \E count \in Nat \ {0} : size = count * a
    BY <1>2
  <1> HIDE DEF a, size, len
  <1>5. /\ start \in Nat /\ end = start + len /\ end <= size
        /\ round \in Nat /\ start = size - round /\ len <= round /\ size >= a
    BY <1>3, <1>4, LimsBounds
  <1> HIDE DEF start, end, round
  <1>6. start \in Nat /\ start + len <= size /\ start = size - round /\ round \in Nat
        /\ len <= round /\ size >= a
    BY <1>5
  <1> QED
    BY <1>1, <1>2, <1>6 DEF a, size, len, start, round, Start

(* Putting a sequence in place.                                            *)
LEMMA AssignedHolds ==
  ASSUME NEW a \in {Rate, Block256}, NEW count \in Nat \ {0}, NEW size, size = count * a,
         NEW data \in Seq(Nat), Len(data) <= size, NEW filler,
         \A i \in (1 .. size) \ (Lims(size, a, Len(data)).start + 1 .. Lims(size, a, Len(data)).end) :
            filler[i] \in Nat
  PROVE  /\ Holds(Assigned(a, size, data, filler), data)
         /\ Size(Assigned(a, size, data, filler)) = size
         /\ Assigned(a, size, data, filler).alignment = a
         /\ Assigned(a, size, data, filler).len = Len(data)
  <1> DEFINE len == Len(data)
             start == Lims(size, a, len).start
             end == Lims(size, a, len).end
             buffer == [i \in 1 .. size |-> IF i \in start + 1 .. end
                                            THEN data[i - start] ELSE filler[i]]
             v == [alignment |-> a, len |-> len, buffer |-> buffer]
  <1>1. a \in Moduli /\ a \in Nat /\ len \in Nat
    BY Alignments, LenProperties DEF Moduli
  <1>2. size \in Nat
    BY <1>1
  <1>3. \E n \in Nat \ {0} : size = n * a
    OBVIOUS
  <1>4. start \in Nat /\ end = start + len /\ end <= size
    BY <1>1, <1>2, <1>3, LimsBounds
  <1>5. \A i \in 1 .. len : data[i] \in Nat
    BY ElementOfSeq
  <1>6. \A i \in (1 .. size) \ (start + 1 .. end) : filler[i] \in Nat
    OBVIOUS
  <1>7. v = Assigned(a, size, data, filler)
    BY DEF Assigned
  <1> HIDE DEF len, start, end
  <1>8. buffer \in [1 .. size -> Nat]
    <2>1. ASSUME NEW i \in 1 .. size
          PROVE  (IF i \in start + 1 .. end THEN data[i - start] ELSE filler[i]) \in Nat
      <3>1. i \in start + 1 .. end => i - start \in 1 .. len
        BY <1>1, <1>2, <1>4
      <3> QED
        BY <1>5, <1>6, <3>1
    <2> QED
      BY <2>1
  <1>9. \A i \in 1 .. len : buffer[start + i] = data[i]
    <2>1. ASSUME NEW i \in 1 .. len
          PROVE  buffer[start + i] = data[i]
      <3> DEFINE k == start + i
      <3>1. k \in 1 .. size /\ k \in start + 1 .. end /\ k - start = i
        BY <1>1, <1>2, <1>4
      <3> HIDE DEF k
      <3>2. buffer[k] = data[k - start]
        BY <3>1
      <3> QED
        BY <3>1, <3>2 DEF k
    <2> QED
      BY <2>1
  <1> HIDE DEF buffer
  <1>10. buffer \in Seq(Nat) /\ Len(buffer) = size
    BY <1>2, <1>8, TabulatedIsSeq
  <1>11. v.alignment = a /\ v.len = len /\ v.buffer = buffer
    OBVIOUS
  <1>12. v \in Vectors
    BY <1>1, <1>10 DEF Vectors
  <1> HIDE DEF v
  <1>13. Size(v) = size /\ Start(v) = start
    BY <1>10, <1>11 DEF Size, Start, start
  <1>14. Holds(v, data)
    <2>1. Chunked(v)
      BY <1>3, <1>11, <1>13 DEF Chunked
    <2>2. len = Len(data) /\ len <= size
      BY DEF len
    <2> QED
      BY <1>9, <1>11, <1>12, <1>13, <2>1, <2>2 DEF Holds
  <1> QED
    BY <1>7, <1>11, <1>13, <1>14 DEF len
-----------------------------------------------------------------------------
(* Resizing and trimming move the payload with them.                       *)
LEMMA RepsAreSeq ==
  ASSUME NEW n \in Nat
  PROVE  Reps(n) \in Seq(Nat) /\ Len(Reps(n)) = n
  <1>1. Reps(n) \in [1 .. n -> Nat]
    BY DEF Reps, Filler
  <1> QED
    BY <1>1, TabulatedIsSeq

LEMMA ResizedHolds ==
  ASSUME NEW v, NEW data, Holds(v, data), NEW size \in Nat, size > Size(v),
         \E count \in Nat \ {0} : size = count * v.alignment
  PROVE  Holds(Resized(v, size), data) /\ Size(Resized(v, size)) = size
  <1> DEFINE a == v.alignment
             len == v.len
             old == Size(v)
             n == size - old
             buffer == Reps(n) \o v.buffer
             w == Resized(v, size)
             round == Rounded(len, a)
  <1>1. /\ a \in Moduli /\ a \in {Rate, Block256} /\ v.buffer \in Seq(Nat) /\ len \in Nat
        /\ old \in Nat /\ len <= old /\ Start(v) = old - round /\ round \in Nat
        /\ Start(v) \in Nat /\ Start(v) + len <= old
        /\ data \in Seq(Nat) /\ Len(data) = len
    BY HoldsFacts
  <1>2. w = [alignment |-> a, buffer |-> buffer, len |-> len]
    <2>1. v = [alignment |-> a, buffer |-> v.buffer, len |-> len]
      BY DEF Holds, Vectors
    <2>2. w = [v EXCEPT !.buffer = buffer]
      BY DEF Resized
    <2> HIDE DEF buffer, w, a, len
    <2> QED
      BY <2>1, <2>2
  <1> DEFINE b == v.buffer
             r == Reps(n)
  <1>3. n \in Nat /\ n + old = size
    <2> HIDE DEF old
    <2> QED
      BY <1>1 DEF old
  <1>4. r \in Seq(Nat) /\ Len(r) = n
    <2> HIDE DEF n
    <2> QED
      BY <1>3, RepsAreSeq
  <1>5. b \in Seq(Nat) /\ Len(b) = old
    BY <1>1 DEF Size
  <1> HIDE DEF r, b
  <1> DEFINE c == r \o b
  <1>6. /\ c \in Seq(Nat) /\ Len(c) = Len(r) + Len(b)
        /\ \A i \in 1 .. Len(r) + Len(b) : c[i] = IF i <= Len(r) THEN r[i] ELSE b[i - Len(r)]
    BY <1>4, <1>5, ConcatProperties
  <1>7. buffer = c
    BY DEF r, b
  <1> HIDE DEF old, n, buffer, c
  <1>8. ASSUME NEW i \in 1 .. old
        PROVE  c[n + i] = b[i]
    <2> DEFINE k == n + i
    <2>1. k \in 1 .. Len(r) + Len(b) /\ ~ (k <= Len(r)) /\ k - Len(r) = i
      BY <1>1, <1>3, <1>4, <1>5
    <2> HIDE DEF k
    <2>2. c[k] = b[k - Len(r)]
      BY <1>6, <2>1
    <2> QED
      BY <2>1, <2>2 DEF k
  <1>9. w.alignment = a /\ w.len = len /\ w.buffer = c
    BY <1>2, <1>7
  <1>10. Size(w) = size
    BY <1>3, <1>4, <1>5, <1>6, <1>9 DEF Size
  <1>11. w \in Vectors
    BY <1>1, <1>2, <1>6, <1>7 DEF Vectors
  <1>12. \E count \in Nat \ {0} : size = count * a
    OBVIOUS
  <1> HIDE DEF a, len, w
  <1>13. Chunked(w)
    BY <1>9, <1>10, <1>12 DEF Chunked
  <1>14. len <= size
    BY <1>1, <1>3 DEF old
  <1>15. Start(w) = n + Start(v)
    <2> DEFINE s == Lims(size, a, len).start
    <2>1. s = size - round
      BY <1>1, <1>12, <1>14, LimsBounds
    <2>2. Start(w) = s
      BY <1>9, <1>10 DEF Start
    <2> HIDE DEF s, round
    <2> QED
      BY <1>1, <1>3, <2>1, <2>2
  <1>16. ASSUME NEW i \in 1 .. len
         PROVE  w.buffer[Start(w) + i] = data[i]
    <2>1. Start(v) + i \in 1 .. old /\ Start(w) + i = n + (Start(v) + i)
      <3> DEFINE s == Start(v)
                 t == Start(w)
      <3>1. /\ s \in Nat /\ s + len <= old /\ t = n + s /\ n \in Nat /\ len \in Nat
            /\ old \in Nat
        BY <1>1, <1>3, <1>15
      <3> HIDE DEF s, t
      <3>2. s + i \in 1 .. old /\ t + i = n + (s + i)
        BY <3>1
      <3> QED
        BY <3>2 DEF s, t
    <2>2. c[n + (Start(v) + i)] = b[Start(v) + i]
      BY <1>8, <2>1
    <2>3. b[Start(v) + i] = data[i]
      BY DEF Holds, b, len
    <2> QED
      BY <1>9, <2>1, <2>2, <2>3
  <1> QED
    BY <1>1, <1>9, <1>10, <1>11, <1>13, <1>14, <1>16 DEF Holds, w

LEMMA RoundedIs ==
  ASSUME NEW a \in Moduli, NEW q \in Nat, NEW r \in 0 .. a - 1
  PROVE  Rounded(q * a + r, a) = IF r = 0 THEN q * a ELSE q * a + a
  <1> DEFINE X == q * a
  <1>1. (X + r) % a = r /\ X \in Nat /\ a \in Nat
    BY QuotientIs DEF Moduli
  <1> HIDE DEF X
  <1>2. Rounded(X + r, a) = IF r = 0 THEN X + r ELSE X + r - r + a
    BY <1>1 DEF Rounded
  <1>3. Rounded(X + r, a) = IF r = 0 THEN X ELSE X + a
    BY <1>1, <1>2
  <1> QED
    BY <1>3 DEF X

(* What is left of the rounded length when n elements are trimmed.         *)
LEMMA RoundedTrim ==
  ASSUME NEW a \in Moduli, NEW len \in Nat, NEW n \in Nat, n <= len
  PROVE  Rounded(len, a) - Rounded(len - n, a)
            = (n - (n % a)) + (IF (len % a = 0) # (len % a <= n % a) THEN a ELSE 0)
  <1> DEFINE q == len \div a
             r == len % a
             m == n \div a
             t == n % a
             Q == q * a
             M == m * a
  <1>1. q \in Nat /\ r \in 0 .. a - 1 /\ len = Q + r /\ m \in Nat /\ t \in 0 .. a - 1 /\ n = M + t
    BY Quotients
  <1>2. Q \in Nat /\ M \in Nat /\ a \in Nat /\ a >= 2
    BY <1>1 DEF Moduli
  <1>3. Rounded(len, a) = IF r = 0 THEN Q ELSE Q + a
    BY <1>1, RoundedIs
  <1>4. ASSUME NEW p \in Nat, NEW s \in 0 .. a - 1, NEW P, P = p * a, len - n = P + s
        PROVE  Rounded(len - n, a) = IF s = 0 THEN P ELSE P + a
    BY <1>4, RoundedIs
  <1>5. /\ m <= q => (q - m) * a = Q - M
        /\ q < m => Q + a <= M
        /\ q <= m => Q <= M
    BY <1>1, MultiplesCompare
  <1>6. m <= q
    <2> HIDE DEF q, m, r, t, Q, M
    <2> QED
      BY <1>1, <1>2, <1>5
  <1>7. t > r => m <= q - 1 /\ q - 1 - m \in Nat /\ (q - 1 - m) * a = Q - M - a
    <2>1. t > r => m < q
      <3> HIDE DEF q, m, r, t, Q, M
      <3> QED
        BY <1>1, <1>2, <1>5, <1>6
    <2>2. (q - 1 - m) * a = Q - M - a
      <3>1. q - 1 - m = (q - m) - 1 /\ q - m \in Int
        BY <1>1
      <3>2. ((q - m) - 1) * a = (q - m) * a - a
        BY <1>1, <1>2
      <3> QED
        BY <1>2, <1>5, <1>6, <3>1, <3>2
    <2> HIDE DEF q, m, r, t, Q, M
    <2> QED
      BY <1>1, <2>1, <2>2
  <1> DEFINE Z == Rounded(len - n, a)
             Y == Rounded(len, a)
  <1>8. t <= r => Z = IF r = t THEN Q - M ELSE Q - M + a
    <2> DEFINE P == (q - m) * a
    <2>1. ASSUME t <= r
          PROVE  q - m \in Nat /\ r - t \in 0 .. a - 1 /\ P = Q - M /\ len - n = P + (r - t)
      <3>1. P = Q - M
        BY <1>5, <1>6
      <3> HIDE DEF q, m, r, t, Q, M, P
      <3> QED
        BY <1>1, <1>2, <1>6, <2>1, <3>1
    <2>2. ASSUME t <= r
          PROVE  Z = IF r - t = 0 THEN P ELSE P + a
      BY <2>1, <2>2, <1>4
    <2> HIDE DEF q, m, r, t, Q, M, P, Z
    <2> QED
      BY <1>1, <1>2, <2>1, <2>2
  <1>9. t > r => Z = Q - M
    <2> DEFINE P == (q - 1 - m) * a
    <2>1. ASSUME t > r
          PROVE  /\ q - 1 - m \in Nat /\ a + r - t \in 1 .. a - 1
                 /\ P = Q - M - a /\ len - n = P + (a + r - t)
      <3>1. q - 1 - m \in Nat /\ P = Q - M - a
        BY <1>7, <2>1
      <3> HIDE DEF q, m, r, t, Q, M, P
      <3> QED
        BY <1>1, <1>2, <2>1, <3>1
    <2>2. ASSUME t > r
          PROVE  Z = IF a + r - t = 0 THEN P ELSE P + a
      <3>1. a + r - t \in 0 .. a - 1
        BY <2>1, <2>2
      <3> QED
        BY <2>1, <2>2, <3>1, <1>4
    <2> HIDE DEF q, m, r, t, Q, M, P, Z
    <2> QED
      BY <1>1, <1>2, <2>1, <2>2
  <1> DEFINE x == IF (r = 0) # (r <= t) THEN a ELSE 0
  <1>10. Y - Z = (n - t) + x
    <2>1. Y = IF r = 0 THEN Q ELSE Q + a
      BY <1>3
    <2> HIDE DEF q, m, r, t, Q, M, Z, Y
    <2>2. CASE r = 0 /\ t = 0
      BY <1>1, <1>2, <1>8, <2>1, <2>2
    <2>3. CASE r = 0 /\ t > 0
      BY <1>1, <1>2, <1>9, <2>1, <2>3
    <2>4. CASE r > 0 /\ t < r
      BY <1>1, <1>2, <1>8, <2>1, <2>4
    <2>5. CASE r > 0 /\ t = r
      BY <1>1, <1>2, <1>8, <2>1, <2>5
    <2>6. CASE r > 0 /\ t > r
      BY <1>1, <1>2, <1>9, <2>1, <2>6
    <2> QED
      BY <1>1, <2>2, <2>3, <2>4, <2>5, <2>6
  <1> QED
    BY <1>10

LEMMA TrimmedHolds ==
  ASSUME NEW v, NEW data, Holds(v, data), NEW n \in Nat, n <= v.len
  PROVE  /\ Holds(Trimmed(v, n), SubSeq(data, n + 1, Len(data)))
         /\ Size(Trimmed(v, n)) = Size(v)
  <1> DEFINE a == v.alignment
             len == v.len
             size == Size(v)
             t == n % a
             b == v.buffer
             part == SubSeq(b, t + 1, size)
             c == Reps(a) \o part \o Reps(t)
             adjust == NeedsAdjust(v, t)
             from == IF adjust THEN 0 ELSE a
             d == SubSeq(c, from + 1, from + size)
             w == Trimmed(v, n)
             rest == SubSeq(data, n + 1, Len(data))
             round == Rounded(len, a)
             left == Rounded(len - n, a)
             s == Start(v)
  <1>1. /\ a \in Moduli /\ a \in {Rate, Block256} /\ b \in Seq(Nat) /\ len \in Nat
        /\ size \in Nat /\ len <= size /\ s = size - round /\ round \in Nat
        /\ s \in Nat /\ s + len <= size /\ size >= a /\ len <= round
        /\ data \in Seq(Nat) /\ Len(data) = len
        /\ \E count \in Nat \ {0} : size = count * a
    BY HoldsFacts
  <1>2. a \in Nat /\ a >= 2
    BY <1>1 DEF Moduli
  <1>3. t \in 0 .. a - 1 /\ t <= n
    <2> DEFINE q == n \div a
               Q == q * a
    <2>1. q \in Nat /\ t \in 0 .. a - 1 /\ n = Q + t
      BY <1>1, Quotients
    <2>2. Q \in Nat
      BY <1>2, <2>1
    <2> HIDE DEF q, Q, t
    <2> QED
      BY <1>2, <2>1, <2>2
  <1>4. round - left = (n - t) + (IF adjust THEN a ELSE 0)
    <2>1. adjust <=> ((len % a = 0) # (len % a <= t))
      BY DEF NeedsAdjust
    <2>2. n <= len
      OBVIOUS
    <2> HIDE DEF adjust, a, len
    <2>3. round - left = (n - (n % a)) + (IF (len % a = 0) # (len % a <= n % a) THEN a ELSE 0)
      BY <1>1, <2>2, RoundedTrim
    <2>4. ((len % a = 0) # (len % a <= n % a)) <=> adjust
      BY <2>1
    <2> HIDE DEF round, left
    <2> QED
      BY <2>3, <2>4
  <1>5. w = [alignment |-> a, buffer |-> d, len |-> len - n]
    <2>1. v = [alignment |-> a, buffer |-> b, len |-> len]
      BY DEF Holds, Vectors
    <2>2. w = [v EXCEPT !.buffer = d, !.len = len - n]
      BY DEF Trimmed
    <2> HIDE DEF d, w, a, len, b
    <2> QED
      BY <2>1, <2>2
  <1>6. n <= len
    OBVIOUS
  <1> HIDE DEF adjust, t, s, size, len, a
  <1>17. t \in Nat /\ size \in Nat /\ t + 1 <= size /\ t < a
    <2>1. size \in Nat /\ size >= a
      BY <1>1
    <2> QED
      BY <1>2, <1>3, <2>1
  <1>7. /\ part \in Seq(Nat) /\ Len(part) = size - t
        /\ \A i \in 1 .. size - t : part[i] = b[t + i]
    <2>1. t + 1 \in Int /\ size \in Int /\ t + 1 <= size /\ size - (t + 1) + 1 = size - t
      BY <1>17
    <2>2. \A i \in t + 1 .. size : b[i] \in Nat
      <3>1. Len(b) = size /\ \A i \in 1 .. Len(b) : b[i] \in Nat
        BY <1>1, ElementOfSeq DEF size, Size
      <3>2. \A i \in t + 1 .. size : i \in 1 .. size
        BY <1>1, <1>2, <1>3
      <3> QED
        BY <3>1, <3>2
    <2> DEFINE m == t + 1
    <2>3. m \in Int /\ size \in Int /\ \A i \in m .. size : b[i] \in Nat
      BY <2>1, <2>2
    <2>4. /\ part = SubSeq(b, m, size) /\ m <= size /\ size - m + 1 = size - t
          /\ \A i \in 1 .. size - t : m + i - 1 = t + i
      BY <1>1, <1>2, <1>3, <2>1
    <2> HIDE DEF m, b, part
    <2>5. /\ SubSeq(b, m, size) \in Seq(Nat)
          /\ Len(SubSeq(b, m, size)) = IF m <= size THEN size - m + 1 ELSE 0
          /\ \A i \in 1 .. size - m + 1 : SubSeq(b, m, size)[i] = b[m + i - 1]
      BY <2>3, SubSeqProperties
    <2> QED
      BY <2>4, <2>5
  <1> HIDE DEF part, b
  <1>8. /\ c \in Seq(Nat) /\ Len(c) = size + a
        /\ \A i \in 1 .. size - t : c[a + i] = part[i]
    <2> DEFINE x == Reps(a)
               y == Reps(t)
               z == x \o part
    <2>1. x \in Seq(Nat) /\ Len(x) = a /\ y \in Seq(Nat) /\ Len(y) = t
      BY <1>2, <1>3, RepsAreSeq
    <2>2. c = z \o y
      OBVIOUS
    <2> HIDE DEF x, y
    <2>3. /\ z \in Seq(Nat) /\ Len(z) = Len(x) + Len(part)
          /\ \A i \in 1 .. Len(x) + Len(part) : z[i] = IF i <= Len(x) THEN x[i]
                                                      ELSE part[i - Len(x)]
      BY <1>7, <2>1, ConcatProperties
    <2> HIDE DEF z
    <2> DEFINE e == z \o y
    <2>4. /\ e \in Seq(Nat) /\ Len(e) = Len(z) + Len(y)
          /\ \A i \in 1 .. Len(z) + Len(y) : e[i] = IF i <= Len(z) THEN z[i] ELSE y[i - Len(z)]
      BY <2>1, <2>3, ConcatProperties
    <2> HIDE DEF e
    <2>5. Len(e) = size + a /\ Len(z) = a + (size - t)
      BY <1>1, <1>2, <1>3, <1>7, <2>1, <2>3, <2>4
    <2>6. ASSUME NEW i \in 1 .. size - t
          PROVE  e[a + i] = part[i]
      <3> DEFINE k == a + i
      <3>1. /\ k \in 1 .. Len(z) + Len(y) /\ k <= Len(z) /\ k \in 1 .. Len(x) + Len(part)
            /\ ~ (k <= Len(x)) /\ k - Len(x) = i
        BY <1>1, <1>2, <1>3, <1>7, <2>1, <2>5
      <3> HIDE DEF k
      <3>2. e[k] = z[k]
        BY <2>4, <3>1
      <3>3. z[k] = part[k - Len(x)]
        BY <2>3, <3>1
      <3> QED
        BY <3>1, <3>2, <3>3 DEF k
    <2>7. c = e
      BY <2>2 DEF e
    <2> HIDE DEF c
    <2> QED
      BY <2>4, <2>5, <2>6, <2>7
  <1> HIDE DEF c
  <1>9. from \in Nat /\ from <= a
    BY <1>2
  <1> HIDE DEF from
  <1>10. /\ d \in Seq(Nat) /\ Len(d) = size
         /\ \A i \in 1 .. size : d[i] = c[from + i]
    <2> DEFINE m == from + 1
               z == from + size
    <2>1. /\ m \in Int /\ z \in Int /\ m <= z /\ z - m + 1 = size
          /\ \A i \in 1 .. size : m + i - 1 = from + i
      BY <1>1, <1>2, <1>9
    <2>2. \A i \in m .. z : c[i] \in Nat
      <3>1. \A i \in 1 .. Len(c) : c[i] \in Nat
        BY <1>8, ElementOfSeq
      <3> DEFINE l == Len(c)
      <3>2. l = size + a /\ size \in Nat
        BY <1>8, <1>17
      <3> HIDE DEF l
      <3>3. \A i \in m .. z : i \in 1 .. l
        BY <1>2, <1>9, <3>2
      <3> QED
        BY <3>1, <3>3 DEF l
    <2>3. d = SubSeq(c, m, z)
      OBVIOUS
    <2> HIDE DEF m, z, d
    <2>4. /\ SubSeq(c, m, z) \in Seq(Nat)
          /\ Len(SubSeq(c, m, z)) = IF m <= z THEN z - m + 1 ELSE 0
          /\ \A i \in 1 .. z - m + 1 : SubSeq(c, m, z)[i] = c[m + i - 1]
      BY <2>1, <2>2, SubSeqProperties
    <2> QED
      BY <2>1, <2>3, <2>4
  <1> HIDE DEF d
  <1>11. w.alignment = a /\ w.len = len - n /\ w.buffer = d /\ w \in Vectors
    BY <1>1, <1>5, <1>6, <1>10 DEF Vectors
  <1> HIDE DEF w
  <1>12. Size(w) = size /\ len - n \in Nat /\ len - n <= size
    BY <1>1, <1>6, <1>10, <1>11 DEF Size
  <1>13. Start(w) = size - left /\ left \in Nat /\ Start(w) \in Nat /\ Start(w) + (len - n) <= size
    <2> DEFINE l == len - n
               lims == Lims(size, a, l)
    <2>1. l \in Nat /\ l <= size
      BY <1>12
    <2>2. Start(w) = lims.start
      BY <1>11, <1>12 DEF Start
    <2> HIDE DEF l
    <2>3. /\ lims.start \in Nat /\ lims.end = lims.start + l /\ lims.end <= size
          /\ Rounded(l, a) \in Nat /\ lims.start = size - Rounded(l, a)
      BY <1>1, <2>1, LimsBounds
    <2>4. left = Rounded(l, a)
      BY DEF l
    <2> HIDE DEF left, lims
    <2>5. lims.start + l <= size
      BY <2>3
    <2> QED
      BY <2>2, <2>3, <2>4, <2>5 DEF l
  <1>14. /\ rest \in Seq(Nat) /\ Len(rest) = len - n
         /\ \A i \in 1 .. len - n : rest[i] = data[n + i]
    <2> DEFINE m == n + 1
    <2>1. /\ m \in Int /\ len \in Int /\ (IF m <= len THEN len - m + 1 ELSE 0) = len - n
          /\ len - m + 1 = len - n /\ \A i \in 1 .. len - n : m + i - 1 = n + i
      BY <1>1, <1>6
    <2>2. \A i \in m .. len : data[i] \in Nat
      <3>1. \A i \in 1 .. Len(data) : data[i] \in Nat
        BY <1>1, ElementOfSeq
      <3>2. \A i \in m .. len : i \in 1 .. Len(data)
        BY <1>1, <1>6
      <3> QED
        BY <3>1, <3>2
    <2>3. rest = SubSeq(data, m, len)
      BY <1>1
    <2> HIDE DEF m, rest
    <2>4. /\ SubSeq(data, m, len) \in Seq(Nat)
          /\ Len(SubSeq(data, m, len)) = IF m <= len THEN len - m + 1 ELSE 0
          /\ \A i \in 1 .. len - m + 1 : SubSeq(data, m, len)[i] = data[m + i - 1]
      BY <2>1, <2>2, SubSeqProperties
    <2> QED
      BY <2>1, <2>3, <2>4
  <1> HIDE DEF rest, round, left
  <1>15. ASSUME NEW i \in 1 .. len - n
         PROVE  w.buffer[Start(w) + i] = rest[i]
    <2> DEFINE x == Start(w) + i
               j == s + n + i - t
    <2>1. x \in 1 .. size
      <3> DEFINE sw == Start(w)
      <3>1. sw \in Nat /\ sw + (len - n) <= size
        BY <1>13
      <3> HIDE DEF sw
      <3>2. sw + i \in 1 .. size
        BY <1>1, <1>6, <3>1
      <3> QED
        BY <3>2 DEF sw
    <2>2. from = IF adjust THEN 0 ELSE a
      BY DEF from
    <2>3. from + x = a + j
      <3> DEFINE sw == Start(w)
      <3>1. sw = size - left /\ sw \in Nat
        BY <1>13
      <3> HIDE DEF sw
      <3>2. from + (sw + i) = a + j
        BY <1>1, <1>2, <1>3, <1>4, <1>13, <2>2, <3>1
      <3> QED
        BY <3>2 DEF sw
    <2>4. j \in 1 .. size - t /\ t + j = s + (n + i) /\ n + i \in 1 .. len
      BY <1>1, <1>2, <1>3, <1>6
    <2> HIDE DEF x, j
    <2>5. d[x] = c[a + j]
      BY <1>10, <2>1, <2>3
    <2>6. c[a + j] = part[j]
      BY <1>8, <2>4
    <2>7. part[j] = b[t + j]
      BY <1>7, <2>4
    <2> DEFINE k == n + i
    <2>8. t + j = s + k /\ k \in 1 .. len
      BY <2>4
    <2> HIDE DEF k
    <2>9. b[s + k] = data[k]
      BY <2>8 DEF Holds, b, s, len
    <2>10. rest[i] = data[k]
      BY <1>14 DEF k
    <2> QED
      BY <1>11, <2>5, <2>6, <2>7, <2>8, <2>9, <2>10 DEF x
  <1>16. Chunked(w)
    BY <1>1, <1>11, <1>12 DEF Chunked
  <1> QED
    BY <1>11, <1>12, <1>14, <1>15, <1>16 DEF Holds, rest, w, size
-----------------------------------------------------------------------------
LEMMA VectorInitInv == VectorInit => VectorInv
  <1> SUFFICES ASSUME VectorInit
               PROVE  VectorInv
    OBVIOUS
  <1>10. PICK a \in {Rate, Block256} : \E size \in {n \in 1 .. MaxVector : n % a = 0} :
           \E len \in 0 .. size : \E data \in [1 .. len -> Elements] :
            LET lims == Lims(size, a, len)
            IN  \E filler \in [(1 .. size) \ (lims.start + 1 .. lims.end) -> Elements] :
                /\ vector = Assigned(a, size, data, filler)
                /\ payload = data /\ satisfied = TRUE
    BY DEF VectorInit
  <1>1. PICK size \in {n \in 1 .. MaxVector : n % a = 0} :
           \E len \in 0 .. size : \E data \in [1 .. len -> Elements] :
            LET lims == Lims(size, a, len)
            IN  \E filler \in [(1 .. size) \ (lims.start + 1 .. lims.end) -> Elements] :
                /\ vector = Assigned(a, size, data, filler)
                /\ payload = data /\ satisfied = TRUE
    BY <1>10
  <1>11. PICK len \in 0 .. size : \E data \in [1 .. len -> Elements] :
            \E filler \in [(1 .. size) \ (Lims(size, a, len).start + 1 .. Lims(size, a, len).end)
                               -> Elements] :
                vector = Assigned(a, size, data, filler) /\ payload = data
    BY <1>1
  <1>2. PICK data \in [1 .. len -> Elements],
             filler \in [(1 .. size) \ (Lims(size, a, len).start + 1 .. Lims(size, a, len).end)
                            -> Elements] :
                /\ vector = Assigned(a, size, data, filler)
                /\ payload = data
    BY <1>11
  <1>3. size \in Nat /\ size >= 1 /\ len \in Nat /\ len <= size /\ size % a = 0
    BY VectorAssumption
  <1>4. a \in Moduli
    BY Alignments
  <1> DEFINE count == size \div a
  <1>5. count \in Nat \ {0} /\ size = count * a
    <2>1. count \in Nat /\ size = count * a + (size % a)
      BY <1>3, <1>4, Quotients
    <2>2. a \in Nat
      BY <1>4 DEF Moduli
    <2> HIDE DEF count
    <2>3. count * a \in Nat
      BY <2>1, <2>2
    <2>4. size = count * a
      BY <1>3, <2>1, <2>3
    <2>5. count # 0
      <3>1. 0 * a = 0
        BY <2>2
      <3> QED
        BY <1>3, <2>4, <3>1
    <2> QED
      BY <2>1, <2>4, <2>5
  <1>6. data \in Seq(Nat) /\ Len(data) = len
    <2>1. data \in [1 .. len -> Nat]
      BY VectorAssumption
    <2> QED
      BY <1>3, <2>1, TabulatedIsSeq
  <1> HIDE DEF count
  <1>7. \A i \in (1 .. size) \ (Lims(size, a, Len(data)).start + 1 .. Lims(size, a, Len(data)).end) :
            filler[i] \in Nat
    <2>1. Len(data) = len /\ Elements \subseteq Nat
      BY <1>6, VectorAssumption
    <2> QED
      BY <2>1
  <1>8. Len(data) <= size
    BY <1>3, <1>6
  <1>9. Holds(Assigned(a, size, data, filler), data) /\ Size(Assigned(a, size, data, filler)) = size
    BY <1>5, <1>6, <1>7, <1>8, AssignedHolds
  <1>12. size <= MaxVector
    BY VectorAssumption
  <1> QED
    BY <1>2, <1>9, <1>12 DEF VectorInv

LEMMA ResizeInv == VectorInv /\ Resize => VectorInv'
  <1> SUFFICES ASSUME VectorInv, Resize
               PROVE  VectorInv'
    OBVIOUS
  <1>1. PICK size \in Size(vector) + 1 .. MaxVector :
           /\ size % vector.alignment = 0
           /\ vector' = Resized(vector, size) /\ payload' = payload
    BY DEF Resize
  <1> DEFINE a == vector.alignment
             old == Size(vector)
             count == size \div a
  <1>2. a \in Moduli /\ old \in Nat /\ Holds(vector, payload)
    BY HoldsFacts DEF VectorInv
  <1>3. size \in Nat /\ size > old
    <2>1. old + 1 \in Nat /\ size \in old + 1 .. MaxVector
      BY <1>2
    <2> HIDE DEF old
    <2> QED
      BY <1>2, <2>1, VectorAssumption
  <1>4. count \in Nat /\ size = count * a + (size % a) /\ size % a = 0
    BY <1>1, <1>2, <1>3, Quotients
  <1>5. a \in Nat
    BY <1>2 DEF Moduli
  <1> HIDE DEF a, count, old
  <1>6. count * a \in Nat /\ 0 * a = 0
    BY <1>4, <1>5
  <1>7. size = count * a
    BY <1>3, <1>4, <1>6
  <1>8. count \in Nat \ {0}
    BY <1>2, <1>3, <1>4, <1>6, <1>7
  <1>9. \E n \in Nat \ {0} : size = n * vector.alignment
    BY <1>7, <1>8 DEF a
  <1>10. Holds(Resized(vector, size), payload) /\ Size(Resized(vector, size)) = size
    BY <1>2, <1>3, <1>9, ResizedHolds DEF old
  <1>11. size <= MaxVector
    <2>1. Size(vector) + 1 \in Int /\ MaxVector \in Int
      BY <1>2, VectorAssumption DEF old
    <2> DEFINE m == Size(vector) + 1
    <2>2. size \in m .. MaxVector /\ m \in Int
      BY <2>1
    <2> HIDE DEF m
    <2> QED
      BY <2>1, <2>2
  <1> QED
    BY <1>1, <1>10, <1>11 DEF VectorInv

LEMMA TrimInv == VectorInv /\ TrimBeginning => VectorInv'
  <1> SUFFICES ASSUME VectorInv, TrimBeginning
               PROVE  VectorInv'
    OBVIOUS
  <1>1. PICK n \in 0 .. Size(vector) :
           IF n <= vector.len
           THEN /\ vector' = Trimmed(vector, n)
                /\ payload' = SubSeq(payload, n + 1, Len(payload))
           ELSE UNCHANGED <<vector, payload>>
    BY DEF TrimBeginning
  <1>2. CASE n <= vector.len
    <2>1. Holds(vector, payload) /\ n \in Nat
      BY HoldsFacts DEF VectorInv
    <2>2. /\ Holds(Trimmed(vector, n), SubSeq(payload, n + 1, Len(payload)))
          /\ Size(Trimmed(vector, n)) = Size(vector)
      BY <1>2, <2>1, TrimmedHolds
    <2>3. Size(vector) <= MaxVector
      BY DEF VectorInv
    <2> QED
      BY <1>1, <1>2, <2>2, <2>3 DEF VectorInv
  <1>3. CASE ~ (n <= vector.len)
    <2>1. vector' = vector /\ payload' = payload
      BY <1>1, <1>3
    <2> QED
      BY <2>1 DEF VectorInv
  <1> QED
    BY <1>2, <1>3

LEMMA VectorNextInv == VectorInv /\ [VectorNext]_vectorVars => VectorInv'
  <1>1. UNCHANGED vectorVars /\ VectorInv => VectorInv'
    BY DEF VectorInv, vectorVars
  <1> QED
    BY <1>1, ResizeInv, TrimInv DEF VectorNext
-----------------------------------------------------------------------------
(* The limits computed in the circuit, and the padding flags, tell where   *)
(* the payload is.                                                         *)
LEMMA LimitsAreLims ==
  ASSUME NEW v, NEW data, Holds(v, data)
  PROVE  Limits(v) = Lims(Size(v), v.alignment, v.len)
  <1> DEFINE a == v.alignment
             len == v.len
             size == Size(v)
             r == len % a
             pad == (a - r) % a
  <1>1. a \in Moduli /\ len \in Nat /\ size \in Nat
    BY HoldsFacts
  <1>2. r \in 0 .. a - 1 /\ pad = (IF r = 0 THEN 0 ELSE a - r) /\ a \in Nat
    <2>1. r \in 0 .. a - 1
      BY <1>1, Quotients
    <2> QED
      BY <1>1, <2>1, PadIs DEF Moduli
  <1>3. Lims(size, a, len) = [start |-> size - len - pad, end |-> size - pad]
    BY DEF Lims
  <1> DEFINE end == IF r = 0 THEN r + size - a + a ELSE r + size - a
  <1>4. Limits(v) = [start |-> end - len, end |-> end]
    BY DEF Limits
  <1> HIDE DEF a, len, size, r, pad
  <1>5. end = size - pad /\ end - len = size - len - pad
    BY <1>1, <1>2
  <1> HIDE DEF end
  <1>6. Limits(v) = Lims(size, a, len)
    BY <1>3, <1>4, <1>5
  <1> QED
    BY <1>6 DEF size, a, len

Inside(v, i) == Start(v) <= i /\ i < Start(v) + v.len

LEMMA FlipsAtEnds ==
  ASSUME NEW v, NEW data, Holds(v, data), NEW i \in 0 .. Size(v) - 1
  PROVE  Flips(v, i) <=> i = Start(v) \/ i = Start(v) + v.len
  <1> DEFINE a == v.alignment
             len == v.len
             size == Size(v)
             start == Lims(size, a, len).start
             end == Lims(size, a, len).end
             round == Rounded(len, a)
  <1>1. a \in Moduli /\ len \in Nat /\ size \in Nat /\ len <= size
    BY HoldsFacts
  <1>2. \E count \in Nat \ {0} : size = count * a
    BY HoldsFacts
  <1>3. Limits(v).start = start /\ Limits(v).end = end
    BY LimitsAreLims
  <1>4. Flips(v, i) <=> IF i <= size - a THEN i % a = 0 /\ start = i ELSE end = i
    BY <1>3 DEF Flips
  <1>5. Start(v) = start /\ i \in 0 .. size - 1
    BY DEF Start
  <1> HIDE DEF a, len, size
  <1>6. /\ start \in Nat /\ end = start + len /\ end <= size
        /\ round \in Nat /\ start = size - round /\ len <= round /\ round < len + a
        /\ start % a = 0 /\ size >= a
    BY <1>1, <1>2, LimsBounds
  <1>7. a \in Nat
    BY <1>1 DEF Moduli
  <1>10. round = 0 \/ round >= a
    <2>1. PICK count \in Nat \ {0}, used \in Nat : Places(size, a, len, count, used)
      BY <1>1, <1>2, PlaceOf
    <2>2. round = used * a
      BY <2>1 DEF Places
    <2>3. used = 0 \/ 1 <= used
      OBVIOUS
    <2>4. used = 0 => used * a = 0
      BY <1>7
    <2>5. 1 <= used => 1 * a <= used * a
      BY <1>1, MultiplesCompare
    <2>6. 1 * a = a
      BY <1>7
    <2> QED
      BY <2>2, <2>3, <2>4, <2>5, <2>6
  <1> HIDE DEF start, end, round
  <1>8. (IF i <= size - a THEN i % a = 0 /\ start = i ELSE end = i) <=> (i = start \/ i = start + len)
    <2>1. i = start => i % a = 0
      BY <1>6
    <2>2. end > size - a
      BY <1>1, <1>6, <1>7
    <2>3. i = start => i <= size - a
      BY <1>1, <1>5, <1>6, <1>7, <1>10
    <2> HIDE DEF Inside
    <2> QED
      BY <1>1, <1>5, <1>6, <1>7, <2>1, <2>2, <2>3
  <1> QED
    BY <1>4, <1>5, <1>8 DEF len

(* A flag flips where the payload is entered and where it is left.         *)
LEMMA FlipsChange ==
  ASSUME NEW v, NEW data, Holds(v, data)
  PROVE  /\ Flips(v, 0) = Inside(v, 0)
         /\ \A i \in 1 .. Size(v) - 1 : Flips(v, i) = (Inside(v, i - 1) # Inside(v, i))
         /\ \A i \in 0 .. Size(v) - 1 : Inside(v, i) \in BOOLEAN /\ Flips(v, i) \in BOOLEAN
  <1> DEFINE a == v.alignment
             s == Start(v)
             e == Start(v) + v.len
             size == Size(v)
             round == Rounded(v.len, a)
  <1>1. /\ size \in Nat /\ s \in Nat /\ v.len \in Nat /\ s + v.len <= size
        /\ a \in Moduli /\ size >= a /\ s = size - round
    BY HoldsFacts
  <1>2. v.len = 0 => round = 0
    <2>1. a \in Moduli /\ 0 \in 0 .. a - 1
      BY <1>1 DEF Moduli
    <2> HIDE DEF a
    <2>2. Rounded(0 * a + 0, a) = 0 * a
      BY <2>1, RoundedIs
    <2>3. 0 * a = 0 /\ 0 * a + 0 = 0
      BY <2>1 DEF Moduli
    <2> QED
      BY <2>2, <2>3 DEF a
  <1>3. \A i \in 0 .. size - 1 : Flips(v, i) <=> i = s \/ i = e
    BY FlipsAtEnds
  <1>4. \A i \in 0 .. size - 1 : Inside(v, i) <=> s <= i /\ i < e
    BY DEF Inside
  <1>5. s <= e /\ (s = e => e = size) /\ e \in Nat /\ size > 0
    <2> DEFINE l == v.len
    <2>1. /\ size \in Nat /\ s \in Nat /\ l \in Nat /\ s = size - round /\ e = s + l
          /\ (l = 0 => round = 0) /\ a \in Nat /\ a > 0 /\ size >= a
      BY <1>1, <1>2 DEF Moduli
    <2> HIDE DEF l, size, s, round, e, a
    <2> QED
      BY <2>1
  <1>6. \A i \in 0 .. size - 1 : Inside(v, i) \in BOOLEAN /\ Flips(v, i) \in BOOLEAN
    BY DEF Inside, Flips
  <1>10. size \in Nat /\ s \in Nat
    BY <1>1
  <1> HIDE DEF s, e, size
  <1>7. Flips(v, 0) = Inside(v, 0)
    <2>1. 0 \in 0 .. size - 1
      BY <1>5, <1>10
    <2>2. (0 = s \/ 0 = e) <=> (s <= 0 /\ 0 < e)
      BY <1>5, <1>10
    <2> QED
      BY <1>3, <1>4, <1>6, <2>1, <2>2
  <1>8. ASSUME NEW i \in 1 .. size - 1
        PROVE  Flips(v, i) = (Inside(v, i - 1) # Inside(v, i))
    <2> DEFINE x == s <= i - 1 /\ i - 1 < e
               y == s <= i /\ i < e
               z == i = s \/ i = e
    <2>1. i \in 0 .. size - 1 /\ i - 1 \in 0 .. size - 1
      BY <1>10
    <2>2. z <=> (x # y)
      BY <1>5, <1>10
    <2>3. /\ Inside(v, i - 1) <=> x
          /\ Inside(v, i) <=> y
          /\ Flips(v, i) <=> z
      BY <1>3, <1>4, <2>1
    <2>4. x \in BOOLEAN /\ y \in BOOLEAN /\ z \in BOOLEAN
      OBVIOUS
    <2> HIDE DEF x, y, z
    <2>5. Inside(v, i - 1) = x /\ Inside(v, i) = y /\ Flips(v, i) = z
      BY <1>6, <2>1, <2>3, <2>4
    <2> QED
      BY <2>2, <2>4, <2>5
  <1> QED
    BY <1>6, <1>7, <1>8 DEF size

LEMMA FlagStep ==
  ASSUME NEW x \in BOOLEAN, NEW y \in BOOLEAN, NEW z, z = (x # y)
  PROVE  (~y) = ((~x) # z)
  <1>1. CASE x = TRUE /\ y = TRUE
    BY <1>1
  <1>2. CASE x = TRUE /\ y = FALSE
    BY <1>2
  <1>3. CASE x = FALSE /\ y = TRUE
    BY <1>3
  <1>4. CASE x = FALSE /\ y = FALSE
    BY <1>4
  <1> QED
    BY <1>1, <1>2, <1>3, <1>4

Flags(v, flag) ==
    flag = [i \in 0 .. Size(v) - 1 |-> IF i = 0 THEN ~Flips(v, 0) ELSE flag[i - 1] # Flips(v, i)]

LEMMA FlagsAre ==
  ASSUME NEW v, NEW data, Holds(v, data), NEW flag, Flags(v, flag)
  PROVE  \A i \in 0 .. Size(v) - 1 : flag[i] = ~Inside(v, i)
  <1> DEFINE n == Size(v) - 1
             P == {i \in 0 .. n : flag[i] = ~Inside(v, i)}
  <1>1. n \in Nat
    <2>1. Size(v) \in Nat /\ v.alignment \in Moduli /\ Size(v) >= v.alignment
      BY HoldsFacts
    <2> QED
      BY <2>1 DEF Moduli
  <1>2. flag = [i \in 0 .. n |-> IF i = 0 THEN ~Flips(v, 0) ELSE flag[i - 1] # Flips(v, i)]
    BY DEF Flags
  <1>3. /\ Flips(v, 0) = Inside(v, 0)
        /\ \A i \in 1 .. n : Flips(v, i) = (Inside(v, i - 1) # Inside(v, i))
        /\ \A i \in 0 .. n : Inside(v, i) \in BOOLEAN
    BY FlipsChange
  <1> HIDE DEF n
  <1>4. 0 \in P
    <2>1. 0 \in 0 .. n
      BY <1>1
    <2>2. flag[0] = ~Flips(v, 0)
      BY <1>2, <2>1
    <2> QED
      BY <1>3, <2>1, <2>2
  <1>5. ASSUME NEW i \in 1 .. n, i - 1 \in P
        PROVE  i \in P
    <2>1. i \in 0 .. n /\ i - 1 \in 0 .. n /\ i # 0
      BY <1>1
    <2>2. flag[i] = (flag[i - 1] # Flips(v, i))
      BY <1>2, <2>1
    <2>3. flag[i - 1] = ~Inside(v, i - 1)
      BY <1>5
    <2>4. (~Inside(v, i)) = ((~Inside(v, i - 1)) # Flips(v, i))
      <3> DEFINE x == Inside(v, i - 1)
                 y == Inside(v, i)
                 z == Flips(v, i)
      <3>1. x \in BOOLEAN /\ y \in BOOLEAN /\ z = (x # y)
        BY <1>3, <2>1
      <3> HIDE DEF x, y, z
      <3>2. (~y) = ((~x) # z)
        BY <3>1, FlagStep
      <3> QED
        BY <3>2 DEF x, y, z
    <2>5. flag[i] = ~Inside(v, i)
      <3> DEFINE p == flag[i - 1]
                 q == flag[i]
                 z == Flips(v, i)
                 x == ~Inside(v, i - 1)
                 y == ~Inside(v, i)
      <3>1. p = x /\ q = (p # z) /\ y = (x # z)
        BY <2>2, <2>3, <2>4
      <3> HIDE DEF p, q, z, x, y
      <3>2. q = y
        BY <3>1
      <3> QED
        BY <3>2 DEF q, y
    <2> QED
      BY <2>1, <2>5
  <1>6. 0 .. n \subseteq P
    <2> HIDE DEF P
    <2> QED
      BY <1>1, <1>4, <1>5, InductionUpTo
  <1> QED
    BY <1>6 DEF n

LEMMA PaddingFlags ==
  ASSUME NEW v, NEW data, Holds(v, data)
  PROVE  \A i \in 1 .. Size(v) : PaddingFlag(v)[i] <=> i \notin Start(v) + 1 .. Start(v) + v.len
  <1> DEFINE size == Size(v)
             f == CHOOSE flag : Flags(v, flag)
             g == [i \in 0 .. size - 1 |-> ~Inside(v, i)]
  <1>1. size \in Nat /\ Start(v) \in Nat /\ v.len \in Nat
    BY HoldsFacts
  <1>2. PaddingFlag(v) = [i \in 1 .. size |-> f[i - 1]]
    BY DEF PaddingFlag, Flags
  <1>3. Flags(v, g)
    <2>1. /\ Flips(v, 0) = Inside(v, 0)
          /\ \A i \in 1 .. size - 1 : Flips(v, i) = (Inside(v, i - 1) # Inside(v, i))
          /\ \A i \in 0 .. size - 1 : Inside(v, i) \in BOOLEAN
      BY FlipsChange
    <2> HIDE DEF size
    <2>2. ASSUME NEW i \in 0 .. size - 1
          PROVE  g[i] = IF i = 0 THEN ~Flips(v, 0) ELSE g[i - 1] # Flips(v, i)
      <3>1. g[i] = ~Inside(v, i)
        OBVIOUS
      <3>2. CASE i = 0
        <4> HIDE DEF g
        <4> QED
          BY <2>1, <3>1, <3>2
      <3>3. CASE i # 0
        <4>1. i - 1 \in 0 .. size - 1 /\ i \in 1 .. size - 1
          BY <1>1, <3>3
        <4>2. g[i - 1] = ~Inside(v, i - 1)
          BY <4>1
        <4> DEFINE x == Inside(v, i - 1)
                   y == Inside(v, i)
                   z == Flips(v, i)
                   p == g[i]
                   q == g[i - 1]
        <4>3. x \in BOOLEAN /\ y \in BOOLEAN /\ z = (x # y)
          BY <2>1, <4>1
        <4>4. p = ~y /\ q = ~x
          BY <3>1, <4>2
        <4> HIDE DEF x, y, z, p, q, g
        <4>5. (~y) = ((~x) # z)
          BY <4>3, FlagStep
        <4>6. p = (q # z)
          BY <4>4, <4>5
        <4> QED
          BY <3>3, <4>6 DEF p, q, z
      <3> HIDE DEF g
      <3> QED
        BY <3>2, <3>3
    <2> DEFINE h == [i \in 0 .. size - 1 |-> IF i = 0 THEN ~Flips(v, 0) ELSE g[i - 1] # Flips(v, i)]
    <2>3. g = h
      <3>1. DOMAIN g = 0 .. size - 1
        OBVIOUS
      <3>2. g = [i \in 0 .. size - 1 |-> g[i]]
        OBVIOUS
      <3> HIDE DEF g
      <3> QED
        BY <2>2, <3>1, <3>2
    <2> HIDE DEF g
    <2> QED
      BY <2>3 DEF Flags, size
  <1> HIDE DEF g
  <1>4. Flags(v, f)
    BY <1>3
  <1> HIDE DEF f
  <1>5. \A i \in 0 .. size - 1 : f[i] = ~Inside(v, i)
    BY <1>4, FlagsAre
  <1> HIDE DEF size
  <1>6. ASSUME NEW i \in 1 .. size
        PROVE  PaddingFlag(v)[i] <=> i \notin Start(v) + 1 .. Start(v) + v.len
    <2>1. i - 1 \in 0 .. size - 1
      BY <1>1
    <2>2. PaddingFlag(v)[i] = f[i - 1]
      BY <1>2
    <2> DEFINE s == Start(v)
               l == v.len
    <2>3. s \in Nat /\ l \in Nat
      BY <1>1
    <2>4. Inside(v, i - 1) <=> s <= i - 1 /\ i - 1 < s + l
      BY DEF Inside
    <2> HIDE DEF s, l
    <2>5. s <= i - 1 /\ i - 1 < s + l <=> i \in s + 1 .. s + l
      BY <1>1, <2>3
    <2> QED
      BY <1>5, <2>1, <2>2, <2>4, <2>5 DEF s, l
  <1> QED
    BY <1>6 DEF size

LEMMA ReadInPlace ==
  ASSUME NEW v, NEW data, Holds(v, data)
  PROVE  SubSeq(v.buffer, Start(v) + 1, Start(v) + v.len) = data
  <1> DEFINE b == v.buffer
             s == Start(v)
             l == v.len
             m == s + 1
             n == s + l
             part == SubSeq(b, m, n)
  <1>1. /\ b \in Seq(Nat) /\ l \in Nat /\ s \in Nat /\ s + l <= Size(v)
        /\ data \in Seq(Nat) /\ Len(data) = l
    BY HoldsFacts
  <1>2. \A i \in 1 .. l : b[s + i] = data[i]
    BY DEF Holds
  <1>3. Len(b) = Size(v) /\ Len(b) \in Nat /\ \A i \in 1 .. Len(b) : b[i] \in Nat
    BY <1>1, LenProperties, ElementOfSeq DEF Size
  <1> HIDE DEF b, s, l
  <1>4. \A i \in m .. n : b[i] \in Nat
    <2>1. \A i \in m .. n : i \in 1 .. Len(b)
      <3> DEFINE k == Len(b)
      <3>1. k \in Nat /\ s + l <= k
        BY <1>1, <1>3
      <3> HIDE DEF k
      <3>2. \A i \in m .. n : i \in 1 .. k
        BY <1>1, <3>1
      <3> QED
        BY <3>2 DEF k
    <2> QED
      BY <1>3, <2>1
  <1>5. /\ m \in Int /\ n \in Int /\ (IF m <= n THEN n - m + 1 ELSE 0) = l /\ n - m + 1 = l
        /\ \A i \in 1 .. l : m + i - 1 = s + i
    BY <1>1
  <1> HIDE DEF m, n
  <1>6. /\ part \in Seq(Nat)
        /\ Len(part) = IF m <= n THEN n - m + 1 ELSE 0
        /\ \A i \in 1 .. n - m + 1 : part[i] = b[m + i - 1]
    BY <1>4, <1>5, SubSeqProperties
  <1> HIDE DEF part
  <1>7. \A i \in 1 .. l : part[i] = data[i]
    BY <1>2, <1>5, <1>6
  <1>8. Len(part) = l
    BY <1>5, <1>6
  <1>9. part = data
    <2>1. /\ part = [i \in 1 .. l |-> part[i]] /\ data = [i \in 1 .. l |-> data[i]]
      BY <1>1, <1>6, <1>8, LenProperties
    <2> QED
      BY <1>7, <2>1
  <1> QED
    BY <1>9 DEF part, m, n, b, s, l

LEMMA PayloadsInPlace == VectorInv => PayloadInPlace
  <1> SUFFICES ASSUME VectorInv
               PROVE  PayloadInPlace
    OBVIOUS
  <1> DEFINE a == vector.alignment
             len == vector.len
             size == Size(vector)
             lims == Lims(size, a, len)
             round == Rounded(len, a)
  <1>1. Holds(vector, payload)
    BY DEF VectorInv
  <1>2. a \in Moduli /\ len \in Nat /\ size \in Nat /\ len <= size /\ Len(payload) = len
    BY <1>1, HoldsFacts
  <1>3. \E count \in Nat \ {0} : size = count * a
    BY <1>1, HoldsFacts
  <1>4. Limits(vector) = lims
    BY <1>1, LimitsAreLims
  <1>5. lims.start = Start(vector)
    BY DEF Start
  <1>6. \A i \in 1 .. size : PaddingFlag(vector)[i] <=> i \notin Start(vector) + 1 .. Start(vector) + len
    BY <1>1, PaddingFlags
  <1>7. SubSeq(vector.buffer, Start(vector) + 1, Start(vector) + len) = payload
    BY <1>1, ReadInPlace
  <1> HIDE DEF a, size, len
  <1>8. /\ lims.start \in Nat /\ lims.end = lims.start + len /\ lims.end <= size
        /\ round \in Nat /\ lims.start = size - round /\ len <= round /\ round < len + a
        /\ lims.start % a = 0
    BY <1>2, <1>3, LimsBounds
  <1>9. size - lims.end < a
    <2> DEFINE s == lims.start
               e == lims.end
    <2>1. e = s + len /\ s = size - round /\ a \in Nat
      BY <1>2, <1>8 DEF Moduli
    <2> HIDE DEF s, e, round
    <2>2. size - e < a
      BY <1>2, <1>8, <2>1
    <2> QED
      BY <2>2 DEF e
  <1>10. lims.end = Start(vector) + len
    BY <1>5, <1>8
  <1> HIDE DEF lims
  <1> QED
    BY <1>2, <1>4, <1>5, <1>6, <1>7, <1>8, <1>9, <1>10 DEF PayloadInPlace, a, size, len, lims
-----------------------------------------------------------------------------
(* Comparing vectors compares what they hold.                              *)
LEMMA SequencesEqual ==
  ASSUME NEW p \in Seq(Nat), NEW q \in Seq(Nat), Len(p) = Len(q),
         \A i \in 1 .. Len(p) : p[i] = q[i]
  PROVE  p = q
  <1>1. p = [i \in 1 .. Len(p) |-> p[i]] /\ q = [i \in 1 .. Len(q) |-> q[i]]
    BY LenProperties
  <1> QED
    BY <1>1

LEMMA ComparesVectors ==
  ASSUME NEW v, NEW w, NEW p, NEW q, Holds(v, p), Holds(w, q),
         v.alignment = w.alignment, Size(v) = Size(w)
  PROVE  IsEqual(v, w) <=> p = q
  <1> DEFINE l == v.len
             s == Start(v)
             size == Size(v)
  <1>1. /\ size \in Nat /\ s \in Nat /\ l \in Nat /\ s + l <= size
        /\ p \in Seq(Nat) /\ Len(p) = l
    BY HoldsFacts
  <1>2. q \in Seq(Nat) /\ Len(q) = w.len
    BY HoldsFacts
  <1>3. \A i \in 1 .. size : PaddingFlag(v)[i] <=> i \notin s + 1 .. s + l
    BY PaddingFlags
  <1>4. \A i \in 1 .. l : v.buffer[s + i] = p[i]
    BY DEF Holds
  <1>5. w.len = l => \A i \in 1 .. l : w.buffer[s + i] = q[i]
    <2>1. \A i \in 1 .. w.len : w.buffer[Start(w) + i] = q[i]
      BY DEF Holds
    <2>2. w.len = l => Start(w) = s
      BY DEF Start
    <2> QED
      BY <2>1, <2>2
  <1>6. IsEqual(v, w) <=> /\ \A i \in 1 .. size : PaddingFlag(v)[i] \/ v.buffer[i] = w.buffer[i]
                          /\ l = w.len
    BY DEF IsEqual
  <1> HIDE DEF l, s, size
  <1>7. ASSUME IsEqual(v, w)
        PROVE  p = q
    <2>1. ASSUME NEW i \in 1 .. l
          PROVE  p[i] = q[i]
      <3> DEFINE k == s + i
      <3>1. k \in 1 .. size /\ k \in s + 1 .. s + l
        BY <1>1
      <3>2. w.len = l /\ v.buffer[k] = p[i] /\ w.buffer[k] = q[i]
        BY <1>4, <1>5, <1>6, <1>7
      <3> HIDE DEF k
      <3>3. v.buffer[k] = w.buffer[k]
        BY <1>3, <1>6, <1>7, <3>1
      <3> QED
        BY <3>2, <3>3
    <2>2. Len(p) = Len(q) /\ \A i \in 1 .. Len(p) : p[i] = q[i]
      BY <1>1, <1>2, <1>6, <1>7, <2>1
    <2> QED
      BY <1>1, <1>2, <2>2, SequencesEqual
  <1>8. ASSUME p = q
        PROVE  IsEqual(v, w)
    <2>1. w.len = l
      BY <1>1, <1>2, <1>8
    <2>2. ASSUME NEW i \in 1 .. size, ~PaddingFlag(v)[i]
          PROVE  v.buffer[i] = w.buffer[i]
      <3> DEFINE k == i - s
      <3>1. i \in s + 1 .. s + l
        BY <1>3, <2>2
      <3>2. k \in 1 .. l /\ s + k = i
        BY <1>1, <3>1
      <3> HIDE DEF k
      <3>3. v.buffer[s + k] = p[k] /\ w.buffer[s + k] = q[k]
        BY <1>4, <1>5, <2>1, <3>2
      <3> QED
        BY <1>8, <3>2, <3>3
    <2> QED
      BY <1>6, <2>1, <2>2
  <1> QED
    BY <1>7, <1>8

LEMMA ComparesToFixed ==
  ASSUME NEW v, NEW p, NEW q \in Seq(Nat), Holds(v, p)
  PROVE  IsEqualToFixed(v, q) <=> p = q
  <1> DEFINE l == v.len
             s == Start(v)
             t == Lims(Size(v), v.alignment, Len(q)).start
  <1>1. l \in Nat /\ p \in Seq(Nat) /\ Len(p) = l /\ Len(q) \in Nat
    BY HoldsFacts
  <1>2. \A i \in 1 .. l : v.buffer[s + i] = p[i]
    BY DEF Holds
  <1>3. Len(q) = l => t = s
    BY DEF Start
  <1>4. IsEqualToFixed(v, q) <=> /\ l = Len(q)
                                 /\ \A i \in 1 .. Len(q) : v.buffer[t + i] = q[i]
    BY DEF IsEqualToFixed
  <1> HIDE DEF l, s, t
  <1>5. ASSUME IsEqualToFixed(v, q)
        PROVE  p = q
    <2>1. Len(p) = Len(q) /\ \A i \in 1 .. Len(p) : p[i] = q[i]
      BY <1>1, <1>2, <1>3, <1>4, <1>5
    <2> QED
      BY <1>1, <2>1, SequencesEqual
  <1>6. ASSUME p = q
        PROVE  IsEqualToFixed(v, q)
    BY <1>1, <1>2, <1>3, <1>4, <1>6
  <1> QED
    BY <1>5, <1>6

LEMMA EqualityIgnoresFillers == VectorInv => EqualityIgnoresFiller
  <1> SUFFICES ASSUME VectorInv,
                      NEW len \in {vector.len, (vector.len + 1) % (Size(vector) + 1)},
                      NEW data \in [1 .. len -> Elements], NEW x \in Elements
               PROVE  LET other == Assigned(vector.alignment, Size(vector), data,
                                            [i \in 1 .. Size(vector) |-> x])
                      IN  /\ IsEqual(vector, other) <=> payload = data
                          /\ IsEqualToFixed(vector, data) <=> payload = data
    BY DEF EqualityIgnoresFiller
  <1> DEFINE a == vector.alignment
             size == Size(vector)
             filler == [i \in 1 .. size |-> x]
             other == Assigned(a, size, data, filler)
  <1>1. Holds(vector, payload)
    BY DEF VectorInv
  <1>2. a \in {Rate, Block256} /\ size \in Nat /\ vector.len \in Nat /\ vector.len <= size
    BY <1>1, HoldsFacts
  <1>3. PICK count \in Nat \ {0} : size = count * a
    BY <1>1, HoldsFacts
  <1>4. len \in Nat /\ len <= size
    <2> DEFINE n == vector.len
               m == size + 1
    <2>1. n \in Nat /\ n <= size /\ m \in Nat /\ m > 0 /\ m = size + 1
          /\ len \in {n, (n + 1) % m}
      BY <1>2
    <2> HIDE DEF n, m
    <2>2. (n + 1) % m \in 0 .. m - 1
      BY <2>1
    <2> HIDE DEF size
    <2> QED
      BY <1>2, <2>1, <2>2
  <1>5. data \in Seq(Nat) /\ Len(data) = len
    <2>1. data \in [1 .. len -> Nat]
      BY VectorAssumption
    <2> QED
      BY <1>4, <2>1, TabulatedIsSeq
  <1> HIDE DEF size, a
  <1>6. \A i \in (1 .. size) \ (Lims(size, a, Len(data)).start + 1 .. Lims(size, a, Len(data)).end) :
            filler[i] \in Nat
    BY VectorAssumption
  <1> HIDE DEF filler
  <1>7. Len(data) <= size
    BY <1>4, <1>5
  <1>8. Holds(other, data) /\ Size(other) = size /\ other.alignment = a
    BY <1>2, <1>3, <1>5, <1>6, <1>7, AssignedHolds
  <1> HIDE DEF other
  <1>9. IsEqual(vector, other) <=> payload = data
    BY <1>1, <1>8, ComparesVectors DEF size, a
  <1>10. IsEqualToFixed(vector, data) <=> payload = data
    BY <1>1, <1>5, ComparesToFixed
  <1> QED
    BY <1>9, <1>10 DEF other, filler, size, a
-----------------------------------------------------------------------------
(* The chunks that are added are the last ones, as many as are used.       *)
LEMMA UpdatingIs ==
  ASSUME NEW v, NEW count, NEW used, v.alignment \in Moduli,
         Places(Size(v), v.alignment, v.len, count, used), NEW i \in Nat
  PROVE  Updating(v, i) <=> count - used <= i
  <1> DEFINE a == v.alignment
             first == count - used
             D == first * a
             C == count * a
             U == used * a
  <1>1. /\ count \in Nat /\ used \in Nat /\ used <= count
        /\ Size(v) = C /\ D = C - U /\ Rounded(v.len, a) = U
    BY DEF Places
  <1>2. first \in Nat /\ a \in Moduli
    BY <1>1
  <1>3. D \in Nat /\ C \in Nat /\ U \in Nat
    BY <1>1, <1>2, MultiplesCompare
  <1>4. Updating(v, i) <=> \E j \in 0 .. i : U = C - j * a
    BY <1>1 DEF Updating
  <1>5. ASSUME NEW j \in Nat
        PROVE  U = C - j * a <=> j = first
    <2> DEFINE J == j * a
    <2>1. J \in Nat /\ (j <= first <=> J <= D) /\ (j < first <=> J < D)
      BY <1>2, MultiplesCompare
    <2> HIDE DEF J, D, C, U, first
    <2>2. j = first <=> J = D
      BY <1>2, <1>3, <2>1
    <2>3. U = C - J <=> J = D
      BY <1>1, <1>3, <2>1
    <2> QED
      BY <2>2, <2>3 DEF J
  <1> HIDE DEF D, C, U, first
  <1>6. ASSUME Updating(v, i)
        PROVE  first <= i
    <2>1. PICK j \in 0 .. i : U = C - j * a
      BY <1>4, <1>6
    <2>2. j = first
      BY <1>5, <2>1
    <2> QED
      BY <2>2
  <1>7. ASSUME first <= i
        PROVE  Updating(v, i)
    <2>1. first \in 0 .. i
      BY <1>2, <1>7
    <2>2. U = C - first * a
      BY <1>2, <1>5
    <2> QED
      BY <1>4, <2>1, <2>2
  <1> QED
    BY <1>6, <1>7 DEF first

LEMMA SubSeqGrows ==
  ASSUME NEW S, NEW c \in Seq(S), NEW f \in Nat, NEW i \in 1 .. Len(c)
  PROVE  SubSeq(c, f + 1, i) = IF f <= i - 1 THEN Append(SubSeq(c, f + 1, i - 1), c[i])
                               ELSE SubSeq(c, f + 1, i - 1)
  <1> DEFINE m == f + 1
             k == i - 1
             x == SubSeq(c, m, i)
             y == SubSeq(c, m, k)
             l == Len(c)
  <1>1. l \in Nat /\ \A j \in 1 .. l : c[j] \in S
    BY LenProperties, ElementOfSeq
  <1>2. m \in Int /\ m >= 1 /\ k \in Int /\ i \in 1 .. l
    OBVIOUS
  <1> HIDE DEF l
  <1>3. CASE f <= i - 1
    <2>1. \A j \in m .. i : j \in 1 .. l
      BY <1>1, <1>2
    <2>2. \A j \in m .. k : j \in 1 .. l
      BY <1>1, <1>2
    <2>3. \A j \in m .. i : c[j] \in S
      BY <1>1, <2>1
    <2>4. \A j \in m .. k : c[j] \in S
      BY <1>1, <2>2
    <2>5. i \in Int /\ i - m + 1 = i - f /\ k - m + 1 = i - f - 1 /\ i - f \in Nat
          /\ (IF m <= i THEN i - m + 1 ELSE 0) = i - f /\ i - f - 1 \in Nat
          /\ (IF m <= k THEN k - m + 1 ELSE 0) = i - f - 1
          /\ i - f - 1 + 1 = i - f /\ m + (i - f) - 1 = i
      BY <1>2, <1>3
    <2> HIDE DEF m, k
    <2>6. /\ x \in Seq(S) /\ Len(x) = i - f /\ \A j \in 1 .. i - f : x[j] = c[m + j - 1]
      BY <1>2, <2>3, <2>5, SubSeqProperties
    <2>7. /\ y \in Seq(S) /\ Len(y) = i - f - 1 /\ \A j \in 1 .. i - f - 1 : y[j] = c[m + j - 1]
      BY <1>2, <2>4, <2>5, SubSeqProperties
    <2> HIDE DEF x, y
    <2> DEFINE n == i - f
               z == Append(y, c[i])
    <2>8. n \in Nat /\ n - 1 \in Nat /\ n >= 1
      BY <2>5
    <2>9. c[i] \in S
      BY <1>1, <1>2
    <2>10. z \in Seq(S) /\ Len(z) = Len(y) + 1 /\ z[Len(y) + 1] = c[i]
           /\ \A j \in 1 .. Len(y) : z[j] = y[j]
      BY <2>7, <2>9, AppendProperties
    <2> HIDE DEF z
    <2>11. Len(z) = n /\ \A j \in 1 .. n : x[j] = z[j]
      <3>1. Len(y) = n - 1 /\ n - 1 + 1 = n
        BY <2>7, <2>8
      <3>2. x[n] = z[n]
        <4>1. n \in 1 .. n
          BY <2>8
        <4>2. x[n] = c[m + n - 1] /\ m + n - 1 = i
          BY <2>5, <2>6, <4>1
        <4> HIDE DEF n
        <4> QED
          BY <2>10, <3>1, <4>2
      <3> HIDE DEF n
      <3>3. \A j \in 1 .. n : j = n \/ j \in 1 .. n - 1
        BY <2>8
      <3>4. \A j \in 1 .. n - 1 : x[j] = z[j]
        <4>1. \A j \in 1 .. n - 1 : j \in 1 .. n
          BY <2>8
        <4>2. \A j \in 1 .. n - 1 : z[j] = y[j] /\ y[j] = c[m + j - 1]
          BY <2>7, <2>10, <3>1 DEF n
        <4>3. \A j \in 1 .. n : x[j] = c[m + j - 1]
          BY <2>6 DEF n
        <4> QED
          BY <4>1, <4>2, <4>3
      <3> QED
        BY <2>10, <3>1, <3>2, <3>3, <3>4
    <2>12. x = z
      <3>1. x = [j \in 1 .. Len(x) |-> x[j]] /\ z = [j \in 1 .. Len(z) |-> z[j]]
        BY <2>6, <2>10, LenProperties
      <3> QED
        BY <2>6, <2>11, <3>1
    <2> QED
      BY <1>3, <2>12 DEF x, y, z, m, k
  <1>4. CASE ~ (f <= i - 1)
    <2>1. i < m /\ k < m
      BY <1>2, <1>4
    <2>2. x = <<>> /\ y = <<>>
      BY <1>2, <2>1, SubSeqEmpty
    <2> QED
      BY <1>4, <2>2
  <1> QED
    BY <1>3, <1>4

UpdatedUpTo(v, chunks, f) ==
    f = [i \in 0 .. Len(chunks) |->
            IF i = 0 THEN <<>> ELSE CondUpdate(v, f[i - 1], i - 1, chunks[i])]

LEMMA UpdatedIs ==
  ASSUME NEW v, NEW S, NEW chunks \in Seq(S), NEW first \in Nat,
         \A i \in Nat : Updating(v, i) <=> first <= i
  PROVE  Updated(v, chunks) = SubSeq(chunks, first + 1, Len(chunks))
  <1> DEFINE m == Len(chunks)
             g == [i \in 0 .. m |-> SubSeq(chunks, first + 1, i)]
             f == CHOOSE x : UpdatedUpTo(v, chunks, x)
             P == {i \in 0 .. m : f[i] = SubSeq(chunks, first + 1, i)}
  <1>1. m \in Nat
    BY LenProperties
  <1>2. SubSeq(chunks, first + 1, 0) = <<>>
    BY SubSeqEmpty
  <1>3. ASSUME NEW i \in 1 .. m
        PROVE  CondUpdate(v, SubSeq(chunks, first + 1, i - 1), i - 1, chunks[i])
                  = SubSeq(chunks, first + 1, i)
    <2>1. i - 1 \in Nat
      OBVIOUS
    <2>2. Updating(v, i - 1) <=> first <= i - 1
      BY <2>1
    <2>3. SubSeq(chunks, first + 1, i) = IF first <= i - 1
                                         THEN Append(SubSeq(chunks, first + 1, i - 1), chunks[i])
                                         ELSE SubSeq(chunks, first + 1, i - 1)
      BY SubSeqGrows
    <2> QED
      BY <2>2, <2>3 DEF CondUpdate
  <1>4. Updated(v, chunks) = f[m]
    BY DEF Updated, UpdatedUpTo
  <1>5. UpdatedUpTo(v, chunks, g)
    <2> DEFINE h == [i \in 0 .. m |->
                        IF i = 0 THEN <<>> ELSE CondUpdate(v, g[i - 1], i - 1, chunks[i])]
    <2>1. ASSUME NEW i \in 0 .. m
          PROVE  g[i] = IF i = 0 THEN <<>> ELSE CondUpdate(v, g[i - 1], i - 1, chunks[i])
      <3>1. g[i] = SubSeq(chunks, first + 1, i)
        OBVIOUS
      <3>2. CASE i = 0
        BY <1>2, <3>1, <3>2
      <3>3. CASE i # 0
        <4>1. i \in 1 .. m /\ i - 1 \in 0 .. m
          BY <1>1, <3>3
        <4>2. g[i - 1] = SubSeq(chunks, first + 1, i - 1)
          BY <4>1
        <4> HIDE DEF g
        <4> QED
          BY <1>3, <3>1, <3>3, <4>1, <4>2
      <3> HIDE DEF g
      <3> QED
        BY <3>2, <3>3
    <2>2. g = [i \in 0 .. m |-> g[i]]
      OBVIOUS
    <2> HIDE DEF g
    <2>3. g = h
      BY <2>1, <2>2
    <2> QED
      BY <2>3 DEF UpdatedUpTo
  <1> HIDE DEF g
  <1>6. UpdatedUpTo(v, chunks, f)
    BY <1>5
  <1> HIDE DEF f
  <1>7. f = [i \in 0 .. m |-> IF i = 0 THEN <<>> ELSE CondUpdate(v, f[i - 1], i - 1, chunks[i])]
    BY <1>6 DEF UpdatedUpTo
  <1> HIDE DEF m
  <1>8. 0 \in P
    <2>1. 0 \in 0 .. m
      BY <1>1
    <2> QED
      BY <1>2, <1>7, <2>1
  <1>9. ASSUME NEW i \in 1 .. m, i - 1 \in P
        PROVE  i \in P
    <2>1. i \in 0 .. m /\ i # 0 /\ f[i - 1] = SubSeq(chunks, first + 1, i - 1)
      BY <1>1, <1>9
    <2>2. f[i] = CondUpdate(v, f[i - 1], i - 1, chunks[i])
      BY <1>7, <2>1
    <2> QED
      BY <1>3, <2>1, <2>2
  <1>10. 0 .. m \subseteq P
    <2> HIDE DEF P
    <2> QED
      BY <1>1, <1>8, <1>9, InductionUpTo
  <1>11. m \in P
    BY <1>1, <1>10
  <1> QED
    BY <1>4, <1>11 DEF m

(* The chunk at some index, and what it holds of the sequence.             *)
LEMMA ChunkIs ==
  ASSUME NEW v, NEW data, Holds(v, data), NEW count \in Nat, Size(v) = count * v.alignment,
         NEW j \in 0 .. count - 1
  PROVE  /\ Chunk(v, j) \in Seq(Nat) /\ Len(Chunk(v, j)) = v.alignment
         /\ DOMAIN Chunk(v, j) = 1 .. v.alignment
         /\ \A i \in 1 .. v.alignment : Chunk(v, j)[i] = v.buffer[j * v.alignment + i]
  <1> DEFINE a == v.alignment
             b == v.buffer
             x == Chunk(v, j)
             J == j * a
             m == J + 1
             n == (j + 1) * a
  <1>1. a \in Moduli /\ b \in Seq(Nat) /\ Len(b) = count * a
    BY HoldsFacts DEF Size
  <1>2. a \in Nat /\ a >= 2
    BY <1>1 DEF Moduli
  <1>3. J \in Nat /\ n = J + a /\ n <= count * a /\ count * a \in Nat
    <2>1. j \in Nat /\ j + 1 \in Nat /\ j + 1 <= count
      OBVIOUS
    <2>2. (j + 1) * a <= count * a /\ count * a \in Nat /\ j * a \in Nat
      BY <1>1, <2>1, MultiplesCompare
    <2>3. (j + 1) * a = j * a + a
      <3> HIDE DEF a
      <3>1. a \in Int /\ j \in Int
        BY <1>2, <2>1
      <3> QED
        BY <3>1
    <2> QED
      BY <2>2, <2>3
  <1>4. x = SubSeq(b, m, n)
    BY DEF Chunk
  <1> DEFINE l == count * a
  <1>5. \A i \in 1 .. l : b[i] \in Nat
    BY <1>1, ElementOfSeq
  <1> HIDE DEF a, b, x, J, n, l
  <1>6. /\ m \in Int /\ n \in Int /\ (IF m <= n THEN n - m + 1 ELSE 0) = a /\ n - m + 1 = a
        /\ \A i \in 1 .. a : m + i - 1 = J + i
    BY <1>2, <1>3
  <1>7. \A i \in m .. n : b[i] \in Nat
    <2>1. \A i \in m .. n : i \in 1 .. l
      BY <1>2, <1>3 DEF l
    <2> QED
      BY <1>5, <2>1
  <1> HIDE DEF m
  <1> DEFINE y == SubSeq(b, m, n)
  <1>8. /\ y \in Seq(Nat) /\ Len(y) = IF m <= n THEN n - m + 1 ELSE 0
        /\ \A i \in 1 .. n - m + 1 : y[i] = b[m + i - 1]
    BY <1>6, <1>7, SubSeqProperties
  <1>9. x = y
    BY <1>4
  <1> HIDE DEF y
  <1>10. x \in Seq(Nat) /\ Len(x) = a /\ \A i \in 1 .. a : x[i] = b[J + i]
    BY <1>6, <1>8, <1>9
  <1>11. DOMAIN x = 1 .. Len(x)
    BY <1>10, LenProperties
  <1> QED
    BY <1>10, <1>11 DEF x, a, b, J

LEMMA ChunkHolds ==
  ASSUME NEW v, NEW data, Holds(v, data), NEW count, NEW used,
         Places(Size(v), v.alignment, v.len, count, used),
         NEW b \in 1 .. used, NEW i \in 1 .. v.alignment, (b - 1) * v.alignment + i <= v.len
  PROVE  Chunk(v, count - used + b - 1)[i] = data[(b - 1) * v.alignment + i]
  <1> DEFINE a == v.alignment
             first == count - used
             j == count - used + b - 1
             k == (b - 1) * a + i
             D == first * a
             E == (b - 1) * a
  <1>1. /\ count \in Nat /\ used \in Nat /\ used <= count
        /\ Size(v) = count * a /\ Start(v) = D
    BY DEF Places, Start
  <1>2. a \in Moduli /\ a \in Nat
    BY HoldsFacts DEF Moduli
  <1>3. j \in 0 .. count - 1 /\ first \in Nat /\ b - 1 \in Nat /\ j = first + (b - 1)
    BY <1>1
  <1>4. j * a = D + E /\ D \in Nat /\ E \in Nat
    <2>1. (first + (b - 1)) * a = D + E
      BY <1>2, <1>3
    <2> QED
      BY <1>2, <1>3, <2>1
  <1>5. Chunk(v, j)[i] = v.buffer[j * a + i]
    <2> HIDE DEF j
    <2> QED
      BY <1>1, <1>3, ChunkIs
  <1>6. k \in 1 .. v.len /\ j * a + i = D + k
    <2>1. k = E + i /\ k <= v.len /\ v.len \in Nat /\ i \in 1 .. a
      BY HoldsFacts
    <2> DEFINE l == v.len
               J == j * a
    <2>2. J = D + E /\ k = E + i /\ k <= l /\ l \in Nat
      BY <1>4, <2>1
    <2> HIDE DEF l, J, D, E, k
    <2>3. k \in 1 .. l /\ J + i = D + k
      BY <1>2, <1>4, <2>1, <2>2
    <2> QED
      BY <2>3 DEF l, J
  <1> HIDE DEF k, D, j
  <1>7. v.buffer[D + k] = data[k]
    BY <1>1, <1>6 DEF Holds
  <1> QED
    BY <1>5, <1>6, <1>7 DEF k, j

(* How much of the last chunk is used.                                     *)
LEMMA LastUsed ==
  ASSUME NEW a \in Moduli, NEW size, NEW len \in Nat, NEW count, NEW used,
         Places(size, a, len, count, used)
  PROVE  /\ len = 0 <=> used = 0
         /\ len # 0 => /\ len - (used - 1) * a \in 1 .. a
                       /\ (used - 1) * a \in Nat /\ used * a = (used - 1) * a + a
                       /\ len % a = IF len - (used - 1) * a = a THEN 0 ELSE len - (used - 1) * a
                       /\ (len - 1) \div a = used - 1
  <1> DEFINE U == used * a
             W == (used - 1) * a
             e == len - W
  <1>1. used \in Nat /\ len <= U /\ U < len + a /\ a \in Nat /\ a >= 2
    BY DEF Places, Moduli
  <1>2. W = U - a /\ U \in Nat
    BY <1>1
  <1>3. len = 0 <=> used = 0
    <2>1. used = 0 => U = 0
      BY <1>1
    <2>2. 1 <= used => 1 * a <= U
      BY <1>1, MultiplesCompare
    <2>3. 1 * a = a
      BY <1>1
    <2> HIDE DEF U
    <2> QED
      BY <1>1, <1>2, <2>1, <2>2, <2>3
  <1>4. ASSUME len # 0
        PROVE  e \in 1 .. a /\ W \in Nat /\ U = W + a /\ used - 1 \in Nat /\ len = W + e
    <2>1. used - 1 \in Nat
      BY <1>1, <1>3, <1>4
    <2>2. W \in Nat
      BY <1>1, <2>1
    <2> HIDE DEF U, W
    <2>3. e \in 1 .. a /\ U = W + a /\ len = W + e
      BY <1>1, <1>2, <2>2
    <2> QED
      BY <2>1, <2>2, <2>3
  <1>5. ASSUME len # 0
        PROVE  len % a = IF e = a THEN 0 ELSE e
    <2>1. CASE e = a
      <3>1. len = U + 0 /\ 0 \in 0 .. a - 1
        BY <1>1, <1>4, <1>5, <2>1
      <3>2. (U + 0) % a = 0
        BY <1>1, <3>1, QuotientIs
      <3> QED
        BY <2>1, <3>1, <3>2
    <2>2. CASE e # a
      <3>1. e \in 0 .. a - 1 /\ used - 1 \in Nat /\ len = W + e
        BY <1>1, <1>4, <1>5, <2>2
      <3> HIDE DEF e
      <3>2. (W + e) % a = e
        BY <3>1, QuotientIs
      <3> QED
        BY <2>2, <3>1, <3>2
    <2> QED
      BY <2>1, <2>2
  <1>6. ASSUME len # 0
        PROVE  (len - 1) \div a = used - 1
    <2> DEFINE d == e - 1
               q == used - 1
    <2>1. d \in 0 .. a - 1 /\ q \in Nat /\ len - 1 = q * a + d
      <3> HIDE DEF e
      <3>1. d \in 0 .. a - 1 /\ q \in Nat /\ len - 1 = W + d
        <4> HIDE DEF W
        <4> QED
          BY <1>1, <1>4, <1>6
      <3> QED
        BY <3>1
    <2> HIDE DEF d, q
    <2>2. (q * a + d) \div a = q
      BY <2>1, QuotientIs
    <2> QED
      BY <2>1, <2>2 DEF q
  <1> HIDE DEF e
  <1> QED
    BY <1>3, <1>4, <1>5, <1>6 DEF e
-----------------------------------------------------------------------------
(* Poseidon: the chunks added are those of the payload, the last one cut.  *)
PoseidonChunk(v, count, i) ==
    IF i = count - 1 THEN LastChunk(Chunk(v, i), v.len % Rate) ELSE Chunk(v, i)

LEMMA CountOfChunks ==
  ASSUME NEW v, NEW data, Holds(v, data), NEW count \in Nat, Size(v) = count * v.alignment
  PROVE  Size(v) \div v.alignment = count
  <1> DEFINE a == v.alignment
  <1>1. a \in Moduli /\ 0 \in 0 .. a - 1
    BY HoldsFacts DEF Moduli
  <1> HIDE DEF a
  <1>2. (count * a + 0) \div a = count /\ count * a \in Nat
    BY <1>1, QuotientIs
  <1>3. count * a + 0 = count * a
    BY <1>2
  <1> QED
    BY <1>2, <1>3 DEF a

LEMMA NoChunks == Chunks(<<>>) = <<>>
  <1> DEFINE none == <<>>
             n == (Len(none) + Rate - 1) \div Rate
             block(b) == Block(SubSeq(none, (b - 1) * Rate + 1,
                                  IF b * Rate <= Len(none) THEN b * Rate ELSE Len(none)))
  <1>1. Len(none) = 0
    OBVIOUS
  <1>2. n = 0
    <2>1. Rate \in Moduli /\ Rate \in Nat /\ Rate >= 2
      BY SpongeAssumption DEF Moduli
    <2>2. Rate - 1 \in 0 .. Rate - 1 /\ 0 * Rate + (Rate - 1) = Rate - 1 /\ 0 \in Nat
      BY <2>1
    <2>3. (0 * Rate + (Rate - 1)) \div Rate = 0
      BY <2>1, <2>2, QuotientIs
    <2>4. Len(none) + Rate - 1 = Rate - 1
      BY <1>1, <2>1
    <2> QED
      BY <2>2, <2>3, <2>4
  <1>3. Chunks(none) = [b \in 1 .. n |-> block(b)]
    BY DEF Chunks
  <1> HIDE DEF none, n, block
  <1>4. 1 .. 0 = {}
    OBVIOUS
  <1>5. Chunks(none) = [b \in {} |-> block(b)]
    BY <1>2, <1>3, <1>4
  <1>6. Chunks(none) = <<>>
    BY <1>5
  <1> QED
    BY <1>6 DEF none

LEMMA PoseidonChunkIs ==
  ASSUME NEW v, NEW data, Holds(v, data), v.alignment = Rate, NEW count, NEW used,
         Places(Size(v), v.alignment, v.len, count, used), NEW b \in 1 .. used
  PROVE  /\ PoseidonChunk(v, count, count - used + b - 1) \in Blocks
         /\ \A i \in 1 .. Rate :
               PoseidonChunk(v, count, count - used + b - 1)[i]
                  = IF (b - 1) * Rate + i <= v.len THEN data[(b - 1) * Rate + i] ELSE 0
  <1> DEFINE j == count - used + b - 1
             c == Chunk(v, j)
             len == v.len
             W == (used - 1) * Rate
             E == (b - 1) * Rate
             e == len - W
  <1>1. /\ count \in Nat /\ used \in Nat /\ used <= count /\ Size(v) = count * v.alignment
    BY DEF Places
  <1>2. v.alignment \in Moduli /\ Rate \in Nat /\ Rate >= 2 /\ len \in Nat
    BY HoldsFacts, RateIsNat
  <1>3. j \in 0 .. count - 1 /\ b - 1 \in Nat /\ used - 1 \in Nat /\ (j = count - 1 <=> b = used)
    BY <1>1
  <1>4. /\ c \in Seq(Nat) /\ Len(c) = Rate /\ DOMAIN c = 1 .. Rate
    <2> HIDE DEF j
    <2> QED
      BY <1>1, <1>3, ChunkIs
  <1>5. \A i \in 1 .. Rate : c[i] \in Nat
    BY <1>4, ElementOfSeq
  <1>6. \A i \in 1 .. Rate : E + i <= len => c[i] = data[E + i]
    <2> TAKE i \in 1 .. Rate
    <2> HAVE E + i <= len
    <2> QED
      BY ChunkHolds
  <1>7. len # 0 /\ e \in 1 .. Rate /\ W \in Nat /\ len % Rate = IF e = Rate THEN 0 ELSE e
    <2> DEFINE a == v.alignment
               size == Size(v)
    <2>1. a \in Moduli /\ len \in Nat /\ Places(size, a, len, count, used) /\ a = Rate
      BY <1>2
    <2> HIDE DEF a, size, len
    <2>2. /\ len = 0 <=> used = 0
          /\ len # 0 => /\ len - (used - 1) * a \in 1 .. a
                        /\ (used - 1) * a \in Nat
                        /\ len % a = IF len - (used - 1) * a = a THEN 0 ELSE len - (used - 1) * a
      BY <2>1, LastUsed
    <2>3. used # 0
      BY <1>1
    <2> QED
      BY <2>1, <2>2, <2>3
  <1>8. E \in Nat /\ (b = used => E = W) /\ (b < used => E + Rate <= W)
    <2>1. E \in Nat
      BY <1>2, <1>3
    <2>2. b < used => E + Rate <= W
      <3>1. b < used => b - 1 < used - 1
        BY <1>1
      <3>2. Rate \in Moduli
        BY SpongeAssumption DEF Moduli
      <3> QED
        BY <1>3, <3>1, <3>2, MultiplesCompare
    <2> QED
      BY <2>1, <2>2
  <1> HIDE DEF j, c, E, W, len
  <1>9. CASE b = used
    <2> DEFINE r == len % Rate
               x == LastChunk(c, r)
    <2>1. PoseidonChunk(v, count, j) = x
      BY <1>3, <1>9 DEF PoseidonChunk, c, len
    <2>2. x = [i \in 1 .. Rate |-> IF r \in 1 .. i - 1 THEN 0 ELSE c[i]]
      BY <1>4 DEF LastChunk
    <2> HIDE DEF r, x
    <2>3. x \in Blocks
      BY <1>5, <2>2 DEF Blocks
    <2>4. ASSUME NEW i \in 1 .. Rate
          PROVE  x[i] = IF E + i <= len THEN data[E + i] ELSE 0
      <3>1. r \in 1 .. i - 1 <=> ~ (E + i <= len)
        <4>1. r = IF e = Rate THEN 0 ELSE e
          BY <1>7 DEF r
        <4>2. E = W /\ len = W + e
          <5> QED
            BY <1>2, <1>7, <1>8, <1>9
        <4>3. e \in 1 .. Rate /\ W \in Nat
          BY <1>7
        <4> HIDE DEF e
        <4> QED
          BY <1>2, <4>1, <4>2, <4>3
      <3> QED
        BY <1>6, <2>2, <3>1
    <2> QED
      BY <2>1, <2>3, <2>4 DEF j, E, len
  <1>10. CASE b # used
    <2>1. PoseidonChunk(v, count, j) = c
      BY <1>3, <1>10 DEF PoseidonChunk, c
    <2>2. c \in Blocks
      <3>1. c \in [1 .. Rate -> Nat]
        BY <1>4, LenProperties
      <3> QED
        BY <3>1 DEF Blocks
    <2>3. ASSUME NEW i \in 1 .. Rate
          PROVE  E + i <= len
      <3>1. E + Rate <= W /\ W < len /\ W \in Nat /\ E \in Nat
        <4>1. b < used
          BY <1>1, <1>10
        <4> QED
          BY <1>2, <1>7, <1>8, <4>1
      <3> QED
        BY <1>2, <3>1
    <2> QED
      BY <1>6, <2>1, <2>2, <2>3 DEF j, E, len
  <1> QED
    BY <1>9, <1>10

LEMMA PoseidonHashes ==
  ASSUME NEW v, NEW data, Holds(v, data), v.alignment = Rate, Size(v) <= MaxVector
  PROVE  PoseidonVarLen(v) = Hash(data)
  <1> DEFINE len == v.len
             a == v.alignment
             size == Size(v)
  <1>1. /\ a \in Moduli /\ len \in Nat /\ size \in Nat /\ len <= size
        /\ \E n \in Nat \ {0} : size = n * a
        /\ data \in Seq(Nat) /\ Len(data) = len
    BY HoldsFacts
  <1>2. \E n \in Nat \ {0}, u \in Nat : Places(size, a, len, n, u)
    <2> HIDE DEF a, size, len
    <2> QED
      BY <1>1, PlaceOf
  <1>3. PICK count \in Nat \ {0}, used \in Nat : Places(size, a, len, count, used)
    BY <1>2
  <1> DEFINE first == count - used
             chunk(i) == PoseidonChunk(v, count, i)
             cs == [i \in 1 .. count |-> chunk(i - 1)]
             S == {chunk(i - 1) : i \in 1 .. count}
             p == Chunks(data)
  <1>4. used <= count /\ size = count * a /\ first \in Nat /\ count \in Nat
    BY <1>3 DEF Places
  <1>5. size \div Rate = count
    BY <1>4, CountOfChunks
  <1>6. PoseidonVarLen(v) = Element(Register(len, Updated(v, cs)), 0)
    BY <1>5 DEF PoseidonVarLen, PoseidonChunk
  <1>7. Hash(data) = Element(Register(len, p), 0)
    <2>1. len # NoLength
      <3>1. size <= MaxVector /\ MaxVector < NoLength /\ MaxVector \in Nat
        BY VectorAssumption
      <3> DEFINE m == MaxVector
      <3>2. size <= m /\ m < NoLength /\ m \in Nat /\ len \in Nat /\ len <= size /\ size \in Nat
        BY <1>1, <3>1
      <3> HIDE DEF m, size, len
      <3> QED
        BY <3>2
    <2>2. Len(data) = len
      BY <1>1
    <2> DEFINE st == Absorb(Init(len), data)
    <2>3. st = [register |-> Register(len, <<>>), queue |-> <<>> \o data,
                squeeze_position |-> 0, input_len |-> len]
      <3> DEFINE s0 == Init(len)
      <3>1. s0 = [register |-> Register(len, <<>>), queue |-> <<>>,
                  squeeze_position |-> 0, input_len |-> len]
        BY DEF Init
      <3>2. st = [s0 EXCEPT !.queue = @ \o data, !.squeeze_position = 0]
        BY DEF Absorb
      <3> HIDE DEF s0, st, len
      <3>3. s0.queue = <<>>
        BY <3>1
      <3>4. st = [s0 EXCEPT !.queue = <<>> \o data, !.squeeze_position = 0]
        BY <3>2, <3>3
      <3> DEFINE d == <<>> \o data
                 rg == Register(len, <<>>)
      <3>5. /\ s0 = [register |-> rg, queue |-> <<>>, squeeze_position |-> 0, input_len |-> len]
            /\ st = [s0 EXCEPT !.queue = d, !.squeeze_position = 0]
        BY <3>1, <3>4
      <3> HIDE DEF d, rg
      <3>6. st = [register |-> rg, queue |-> d, squeeze_position |-> 0, input_len |-> len]
        BY <3>5
      <3> QED
        BY <3>6 DEF d, rg
    <2>4. <<>> \o data = data
      BY <1>1, ConcatEmptySeq
    <2> HIDE DEF len, st
    <2>5. st = [register |-> Register(len, <<>>), queue |-> data,
                squeeze_position |-> 0, input_len |-> len]
      BY <2>3, <2>4
    <2>6. Padded(st) = data /\ st.squeeze_position = 0 /\ st.register = Register(len, <<>>)
      BY <2>1, <2>5 DEF Padded
    <2> DEFINE reg == Register(len, <<>>)
               digested == [reg EXCEPT !.blocks = @ \o p]
    <2>7. ~ (st.squeeze_position > 0)
      BY <2>6
    <2>8. Squeezed(st).output = Element(digested, 0)
      BY <2>6, <2>7 DEF Squeezed
    <2>9. digested = Register(len, p)
      <3>1. <<>> \o p = p
        <4>1. data = <<>> => p = <<>>
          BY NoChunks
        <4>2. data # <<>> => p \in Seq(Blocks)
          <5>1. data \in Seq(Nat)
            BY <1>1
          <5> QED
            BY <5>1, ChunksHold
        <4> DEFINE B == Blocks
        <4>3. p \in Seq(B)
          <5>1. <<>> \in Seq(B)
            OBVIOUS
          <5> HIDE DEF p, B
          <5> QED
            BY <4>1, <4>2, <5>1 DEF B
        <4> HIDE DEF p, B
        <4> QED
          BY <4>3, ConcatEmptySeq
      <3>2. digested = [capacity |-> len, blocks |-> <<>> \o p]
        <4> HIDE DEF p
        <4> QED
          BY DEF Register
      <3> HIDE DEF p, digested
      <3> QED
        BY <3>1, <3>2 DEF Register
    <2>10. Hash(data) = Squeezed(st).output
      BY <2>2 DEF Hash, st
    <2> QED
      BY <2>8, <2>9, <2>10
  <1>8. cs \in Seq(S) /\ Len(cs) = count
    <2>1. cs \in [1 .. count -> S]
      OBVIOUS
    <2> HIDE DEF cs, S
    <2> QED
      BY <1>4, <2>1, TabulatedIsSeq
  <1>9. Updated(v, cs) = SubSeq(cs, first + 1, count)
    <2>1. \A i \in Nat : Updating(v, i) <=> first <= i
      BY <1>1, <1>3, UpdatingIs
    <2> HIDE DEF cs, S, first
    <2>2. Updated(v, cs) = SubSeq(cs, first + 1, Len(cs))
      BY <1>4, <1>8, <2>1, UpdatedIs
    <2> QED
      BY <1>8, <2>2
  <1>10. /\ len = 0 <=> used = 0
         /\ len # 0 => (len - 1) \div a = used - 1
    <2> HIDE DEF a, size, len
    <2> QED
      BY <1>1, <1>3, LastUsed
  <1>11. \A i \in 1 .. count : cs[i] = chunk(i - 1) /\ chunk(i - 1) \in S
    OBVIOUS
  <1>12. \A b \in 1 .. used : /\ chunk(first + b - 1) \in Blocks
                              /\ \A i \in 1 .. Rate : chunk(first + b - 1)[i]
                                    = IF (b - 1) * Rate + i <= len THEN data[(b - 1) * Rate + i] ELSE 0
    <2> SUFFICES ASSUME NEW b \in 1 .. used
                 PROVE  /\ chunk(first + b - 1) \in Blocks
                        /\ \A i \in 1 .. Rate : chunk(first + b - 1)[i]
                              = IF (b - 1) * Rate + i <= len THEN data[(b - 1) * Rate + i] ELSE 0
      OBVIOUS
    <2>1. Places(Size(v), v.alignment, v.len, count, used)
      BY <1>3
    <2> HIDE DEF cs, S, p
    <2> DEFINE x == PoseidonChunk(v, count, count - used + b - 1)
    <2> HIDE DEF first, chunk
    <2>2. x \in Blocks
      BY <2>1, PoseidonChunkIs
    <2>3. ASSUME NEW i \in 1 .. Rate
          PROVE  x[i] = IF (b - 1) * Rate + i <= v.len THEN data[(b - 1) * Rate + i] ELSE 0
      BY <2>1, PoseidonChunkIs
    <2>4. chunk(first + b - 1) = x
      BY DEF chunk, first
    <2> HIDE DEF x
    <2> QED
      BY <2>2, <2>3, <2>4
  <1> HIDE DEF chunk, cs, S
  <1>13. SubSeq(cs, first + 1, count) = p
    <2>1. CASE len = 0
      <3>1. data = <<>>
        BY <1>1, <2>1, EmptySeq
      <3>2. count < first + 1
        BY <1>4, <1>10, <2>1
      <3>3. SubSeq(cs, first + 1, count) = <<>>
        BY <1>4, <3>2, SubSeqEmpty
      <3> QED
        BY <3>1, <3>3, NoChunks
    <2>2. CASE len # 0
      <3> DEFINE m == first + 1
                 x == SubSeq(cs, m, count)
      <3>1. used >= 1 /\ used \in Nat /\ used - 1 + 1 = used
        BY <1>10, <2>2
      <3>2. data # <<>>
        BY <1>1, <2>2
      <3>3. /\ p \in Seq(Blocks) /\ Len(p) = ((Len(data) - 1) \div Rate) + 1
            /\ \A b \in 1 .. Len(p), i \in 1 .. Rate :
                  p[b][i] = IF (b - 1) * Rate + i <= Len(data) THEN data[(b - 1) * Rate + i] ELSE 0
        BY <1>1, <3>2, ChunksHold
      <3>4. Len(p) = used
        BY <1>1, <1>10, <2>2, <3>1, <3>3
      <3>5. /\ m \in Int /\ count \in Int /\ (IF m <= count THEN count - m + 1 ELSE 0) = used
            /\ count - m + 1 = used
            /\ \A b \in 1 .. used : m + b - 1 = first + b /\ first + b \in 1 .. count
        BY <1>4, <3>1
      <3>6. \A i \in m .. count : cs[i] \in S
        <4>1. \A i \in m .. count : i \in 1 .. count
          BY <1>4
        <4> QED
          BY <1>11, <4>1
      <3> HIDE DEF m, x, p
      <3>7. /\ x \in Seq(S) /\ Len(x) = used
            /\ \A b \in 1 .. used : x[b] = cs[first + b]
        <4> DEFINE y == SubSeq(cs, m, count)
        <4>1. x = y
          BY DEF x
        <4> HIDE DEF y
        <4>2. /\ y \in Seq(S) /\ Len(y) = IF m <= count THEN count - m + 1 ELSE 0
              /\ \A i \in 1 .. count - m + 1 : y[i] = cs[m + i - 1]
          BY <3>5, <3>6, SubSeqProperties DEF y
        <4> QED
          BY <3>5, <4>1, <4>2
      <3>8. ASSUME NEW b \in 1 .. used
            PROVE  x[b] = p[b]
        <4>1. x[b] = chunk(first + b - 1)
          BY <1>11, <3>5, <3>7
        <4>2. p[b] \in Blocks
          <5> DEFINE B == Blocks
          <5>1. p \in Seq(B) /\ Len(p) = used
            BY <3>3, <3>4
          <5> HIDE DEF B
          <5> QED
            BY <5>1, ElementOfSeq DEF B
        <4>3. x[b] \in Blocks
          BY <1>12, <4>1
        <4> DEFINE xb == x[b]
                   pb == p[b]
        <4>4. ASSUME NEW i \in 1 .. Rate
              PROVE  xb[i] = pb[i]
          <5> DEFINE e == IF (b - 1) * Rate + i <= len THEN data[(b - 1) * Rate + i] ELSE 0
          <5>1. xb[i] = e
            BY <1>12, <4>1
          <5>2. b \in 1 .. Len(p) /\ Len(data) = len
            BY <1>1, <3>4
          <5>3. pb[i] = e
            BY <3>3, <5>2
          <5> HIDE DEF e, xb, pb
          <5> QED
            BY <5>1, <5>3
        <4>5. xb \in [1 .. Rate -> Nat] /\ pb \in [1 .. Rate -> Nat]
          BY <4>2, <4>3 DEF Blocks
        <4> HIDE DEF xb, pb
        <4>7. xb = [i \in 1 .. Rate |-> xb[i]] /\ pb = [i \in 1 .. Rate |-> pb[i]]
          BY <4>5
        <4>6. xb = pb
          BY <4>4, <4>7
        <4> QED
          BY <4>6 DEF xb, pb
      <3>9. x = p
        <4>1. x = [b \in 1 .. used |-> x[b]]
          BY <3>7, LenProperties
        <4>2. p = [b \in 1 .. used |-> p[b]]
          <5> DEFINE B == Blocks
          <5>1. p \in Seq(B) /\ Len(p) = used
            BY <3>3, <3>4
          <5> HIDE DEF B
          <5> QED
            BY <5>1, LenProperties
        <4> QED
          BY <3>8, <4>1, <4>2
      <3> QED
        BY <3>9 DEF x, m
    <2> QED
      BY <2>1, <2>2
  <1> QED
    BY <1>6, <1>7, <1>9, <1>13
-----------------------------------------------------------------------------
(* SHA-256: a message padded to n blocks, element by element.              *)
PaddedAt(bytes, total, x) ==
    IF x <= Len(bytes) THEN bytes[x]
    ELSE IF x = Len(bytes) + 1 THEN Marker
    ELSE IF x <= total - LengthBytes THEN 0
    ELSE LengthField(Len(bytes))[x - (total - LengthBytes)]

PaddedBlock(bytes, n, b) ==
    [i \in 1 .. Block256 |-> PaddedAt(bytes, n * Block256, (b - 1) * Block256 + i)]

BlocksOf(bytes, n) == [b \in 1 .. n |-> PaddedBlock(bytes, n, b)]

Digits(len) == {LengthField(len)[i] : i \in 1 .. LengthBytes}
Symbols(len) == Nat \cup Digits(len)

LEMMA BlockSizes ==
  /\ Block256 \in Moduli /\ Block256 \in Nat /\ Block256 >= 2
  /\ LengthBytes \in Nat /\ LengthBytes >= 1 /\ LengthBytes <= Block256 - 1
  BY VectorAssumption DEF Moduli

LEMMA FieldIsSeq ==
  ASSUME NEW len
  PROVE  LengthField(len) \in Seq(Symbols(len)) /\ Len(LengthField(len)) = LengthBytes
  <1> DEFINE S == Symbols(len)
             f == LengthField(len)
  <1>1. DOMAIN f = 1 .. LengthBytes /\ f = [i \in 1 .. LengthBytes |-> f[i]]
    BY DEF LengthField
  <1>2. \A i \in 1 .. LengthBytes : f[i] \in S
    BY DEF Symbols, Digits
  <1> HIDE DEF f, S
  <1>3. f \in [1 .. LengthBytes -> S]
    BY <1>1, <1>2
  <1> QED
    BY <1>3, BlockSizes, TabulatedIsSeq DEF f, S

LEMMA Slices ==
  ASSUME NEW S, NEW c \in Seq(S), NEW m \in Nat, NEW a \in Nat, m + a <= Len(c)
  PROVE  SubSeq(c, m + 1, m + a) = [i \in 1 .. a |-> c[m + i]]
  <1> DEFINE l == Len(c)
             x == m + 1
             y == m + a
             s == SubSeq(c, x, y)
  <1>1. l \in Nat /\ \A i \in 1 .. l : c[i] \in S
    BY LenProperties, ElementOfSeq
  <1>2. m + a <= l
    OBVIOUS
  <1> HIDE DEF l
  <1>3. /\ x \in Int /\ y \in Int /\ (IF x <= y THEN y - x + 1 ELSE 0) = a /\ y - x + 1 = a
        /\ \A i \in 1 .. a : x + i - 1 = m + i
    OBVIOUS
  <1>4. \A i \in x .. y : c[i] \in S
    <2>1. \A i \in x .. y : i \in 1 .. l
      BY <1>1, <1>2
    <2> QED
      BY <1>1, <2>1
  <1> HIDE DEF x, y
  <1> DEFINE t == SubSeq(c, x, y)
  <1>5. /\ t \in Seq(S) /\ Len(t) = IF x <= y THEN y - x + 1 ELSE 0
        /\ \A i \in 1 .. y - x + 1 : t[i] = c[x + i - 1]
    BY <1>3, <1>4, SubSeqProperties
  <1> HIDE DEF t
  <1>6. Len(t) = a /\ \A i \in 1 .. a : t[i] = c[m + i]
    BY <1>3, <1>5
  <1>7. t = [i \in 1 .. a |-> t[i]]
    BY <1>5, <1>6, LenProperties
  <1>8. t = [i \in 1 .. a |-> c[m + i]]
    BY <1>6, <1>7
  <1> QED
    BY <1>8 DEF t, x, y

(* The zeros between the marker and the length fill the last block.        *)
LEMMA ZerosFill ==
  ASSUME NEW q \in Nat, NEW s \in 1 .. Block256, NEW u, u = q * Block256 + s
  PROVE  (Block256 - (u % Block256)) % Block256 = Block256 - s
  <1> DEFINE B == Block256
             Q == q * B
  <1>1. B \in Moduli /\ B \in Nat /\ B >= 2
    BY BlockSizes
  <1>2. CASE s = B
    <2>1. (q + 1) * B = Q + B /\ Q \in Nat /\ q + 1 \in Nat /\ 0 \in 0 .. B - 1
      BY <1>1
    <2>2. ((q + 1) * B + 0) % B = 0
      BY <1>1, <2>1, QuotientIs
    <2>3. (q + 1) * B + 0 = u
      BY <1>1, <1>2, <2>1
    <2>4. u % B = 0
      BY <2>2, <2>3
    <2>5. (B - 0) % B = 0
      BY <1>1, <2>1, PadIs
    <2> HIDE DEF B
    <2>6. (B - (u % B)) % B = B - s
      BY <1>1, <1>2, <2>4, <2>5
    <2> QED
      BY <2>6 DEF B
  <1>3. CASE s # B
    <2>1. s \in 0 .. B - 1 /\ s # 0
      BY <1>1, <1>3
    <2>2. (Q + s) % B = s
      BY <1>1, <2>1, QuotientIs
    <2>3. (B - s) % B = B - s
      BY <1>1, <2>1, PadIs
    <2> QED
      BY <2>2, <2>3
  <1> QED
    BY <1>2, <1>3

(* Where the padding of a message ends.                                    *)
Needed(k, f) == IF f >= Block256 - LengthBytes THEN k + 2 ELSE k + 1

LEMMA PaddedLength ==
  ASSUME NEW k \in Nat, NEW f \in 0 .. Block256, NEW len, len = k * Block256 + f
  PROVE  LET used  == len + 1 + LengthBytes
             zeros == (Block256 - (used % Block256)) % Block256
         IN  /\ zeros \in Nat
             /\ len + 1 + zeros + LengthBytes = Needed(k, f) * Block256
             /\ Needed(k, f) \in Nat /\ Needed(k, f) * Block256 \in Nat /\ len \in Nat
  <1> DEFINE B == Block256
             L == LengthBytes
             used == len + 1 + L
             zeros == (B - (used % B)) % B
             K == k * B
             n == Needed(k, f)
  <1>1. B \in Nat /\ B >= 2 /\ L \in Nat /\ L >= 1 /\ L <= B - 1
    BY BlockSizes
  <1>2. K \in Nat /\ (k + 1) * B = K + B /\ (k + 2) * B = K + B + B
    BY <1>1
  <1>3. CASE f < B - L
    <2> DEFINE s == f + 1 + L
    <2>1. s \in 1 .. B /\ used = K + s
      <3> HIDE DEF K
      <3> QED
        BY <1>1, <1>2, <1>3 DEF K
    <2>2. zeros = B - s
      <3> HIDE DEF s, used
      <3> QED
        BY <2>1, ZerosFill
    <2>3. n = k + 1
      BY <1>1, <1>3 DEF Needed
    <2>4. n * B = K + B
      BY <1>2, <2>3
    <2> DEFINE N == n * B
    <2>5. N = K + B /\ len = K + f
      BY <2>4
    <2> HIDE DEF zeros, n, N, K, B, L
    <2>6. zeros \in Nat /\ len + 1 + zeros + L = N /\ n \in Nat /\ N \in Nat /\ len \in Nat
      BY <1>1, <1>2, <1>3, <2>1, <2>2, <2>3, <2>5 DEF B
    <2> QED
      BY <2>6 DEF N, n, zeros, B, L
  <1>4. CASE ~ (f < B - L)
    <2> DEFINE s == f + 1 + L - B
    <2>1. s \in 1 .. B /\ used = (k + 1) * B + s /\ k + 1 \in Nat
      <3> DEFINE K1 == (k + 1) * B
      <3>1. K1 = K + B /\ len = K + f /\ f \in 0 .. B
        BY <1>2
      <3> HIDE DEF K, K1, B, L
      <3>2. s \in 1 .. B /\ used = K1 + s
        BY <1>1, <1>2, <1>4, <3>1
      <3> QED
        BY <3>2 DEF K1
    <2>2. zeros = B - s
      <3> DEFINE q == k + 1
      <3>1. used = q * B + s /\ q \in Nat /\ s \in 1 .. Block256
        BY <2>1
      <3> HIDE DEF s, used, q
      <3> QED
        BY <3>1, ZerosFill
    <2>3. n = k + 2
      BY <1>1, <1>4 DEF Needed
    <2>4. n * B = K + B + B
      BY <1>2, <2>3
    <2> DEFINE N == n * B
    <2>5. N = K + B + B /\ len = K + f
      BY <2>4
    <2> HIDE DEF zeros, n, N, K, B, L
    <2>6. zeros \in Nat /\ len + 1 + zeros + L = N /\ n \in Nat /\ N \in Nat /\ len \in Nat
      BY <1>1, <1>2, <1>4, <2>1, <2>2, <2>3, <2>5 DEF B
    <2> QED
      BY <2>6 DEF N, n, zeros, B, L
  <1> QED
    BY <1>3, <1>4

LEMMA Joins ==
  ASSUME NEW S, NEW s \in Seq(S), NEW t \in Seq(S), NEW m, NEW n, Len(s) = m, Len(t) = n
  PROVE  /\ s \o t \in Seq(S) /\ Len(s \o t) = m + n
         /\ \A i \in 1 .. m + n : (s \o t)[i] = IF i <= m THEN s[i] ELSE t[i - m]
  BY ConcatProperties

LEMMA BytesPadded ==
  ASSUME NEW bytes \in Seq(Nat), NEW zeros \in Nat
  PROVE  LET len  == Len(bytes)
             text == bytes \o <<Marker>> \o Reps(zeros) \o LengthField(len)
             total == len + 1 + zeros + LengthBytes
         IN  /\ text \in Seq(Symbols(len)) /\ Len(text) = total
             /\ \A x \in 1 .. total : text[x] = PaddedAt(bytes, total, x)
  <1> DEFINE len == Len(bytes)
             S == Symbols(len)
             L == LengthBytes
             total == len + 1 + zeros + L
             mark == <<Marker>>
             r == Reps(zeros)
             field == LengthField(len)
             s1 == bytes \o mark
             s2 == s1 \o r
             s3 == s2 \o field
  <1>1. len \in Nat /\ L \in Nat /\ L >= 1
    BY LenProperties, BlockSizes
  <1>2. bytes \in Seq(S)
    BY SeqMonotonic DEF Symbols
  <1>3. mark \in Seq(S) /\ Len(mark) = 1 /\ mark[1] = Marker
    <2>1. Marker \in Nat
      BY DEF Marker
    <2>2. Marker \in S
      BY <2>1 DEF Symbols
    <2> HIDE DEF S
    <2> QED
      BY <2>2
  <1>4. r \in Seq(S) /\ Len(r) = zeros /\ \A i \in 1 .. zeros : r[i] = 0
    <2>1. r \in Seq(Nat) /\ Len(r) = zeros
      BY RepsAreSeq
    <2>2. Nat \subseteq S
      BY DEF Symbols
    <2>3. \A i \in 1 .. zeros : r[i] = 0
      BY DEF Reps, Filler
    <2> HIDE DEF r, S
    <2>4. r \in Seq(S)
      BY <2>1, <2>2, SeqMonotonic
    <2> QED
      BY <2>1, <2>3, <2>4
  <1>5. field \in Seq(S) /\ Len(field) = L
    BY FieldIsSeq
  <1> HIDE DEF S, mark, r, field, L
  <1>6. /\ s1 \in Seq(S) /\ Len(s1) = len + 1
        /\ \A i \in 1 .. len + 1 : s1[i] = IF i <= len THEN bytes[i] ELSE mark[i - len]
    BY <1>2, <1>3, ConcatProperties
  <1> HIDE DEF s1
  <1>7. /\ s2 \in Seq(S) /\ Len(s2) = len + 1 + zeros
        /\ \A i \in 1 .. len + 1 + zeros : s2[i] = IF i <= len + 1 THEN s1[i] ELSE r[i - (len + 1)]
    <2> DEFINE m == len + 1
    <2>1. Len(s1) = m /\ s1 \in Seq(S) /\ r \in Seq(S) /\ Len(r) = zeros
      BY <1>4, <1>6
    <2> HIDE DEF m
    <2> DEFINE n == zeros
    <2>2. Len(r) = n
      BY <2>1
    <2> HIDE DEF n
    <2>3. /\ s2 \in Seq(S) /\ Len(s2) = m + n
          /\ \A i \in 1 .. m + n : s2[i] = IF i <= m THEN s1[i] ELSE r[i - m]
      BY <2>1, <2>2, Joins
    <2> QED
      BY <2>3 DEF m, n
  <1> HIDE DEF s2
  <1>8. /\ s3 \in Seq(S) /\ Len(s3) = total
        /\ \A i \in 1 .. total : s3[i] = IF i <= len + 1 + zeros THEN s2[i]
                                         ELSE field[i - (len + 1 + zeros)]
    <2> DEFINE m == len + 1 + zeros
    <2>1. Len(s2) = m /\ s2 \in Seq(S) /\ field \in Seq(S) /\ Len(field) = L
      BY <1>5, <1>7
    <2> HIDE DEF m
    <2>2. /\ s3 \in Seq(S) /\ Len(s3) = m + L
          /\ \A i \in 1 .. m + L : s3[i] = IF i <= m THEN s2[i] ELSE field[i - m]
      BY <2>1, Joins
    <2> QED
      BY <2>2 DEF m
  <1> HIDE DEF s3, len
  <1>9. ASSUME NEW x \in 1 .. total
        PROVE  s3[x] = IF x <= len THEN bytes[x] ELSE IF x = len + 1 THEN Marker
                       ELSE IF x <= total - L THEN 0 ELSE field[x - (total - L)]
    <2>1. total - L = len + 1 + zeros
      BY <1>1
    <2>2. CASE x <= len
      <3>1. x \in 1 .. len + 1 /\ x \in 1 .. len + 1 + zeros /\ x <= len + 1 + zeros /\ x <= len + 1
        BY <1>1, <2>2
      <3> QED
        BY <1>6, <1>7, <1>8, <2>2, <3>1
    <2>3. CASE x = len + 1
      <3>1. /\ x \in 1 .. len + 1 /\ x \in 1 .. len + 1 + zeros /\ x <= len + 1 + zeros
            /\ x <= len + 1 /\ ~ (x <= len) /\ x - len = 1
        BY <1>1, <2>3
      <3> QED
        BY <1>3, <1>6, <1>7, <1>8, <2>3, <3>1
    <2>4. CASE x > len + 1 /\ x <= len + 1 + zeros
      <3>1. /\ x \in 1 .. len + 1 + zeros /\ ~ (x <= len + 1) /\ ~ (x <= len) /\ x # len + 1
            /\ x - (len + 1) \in 1 .. zeros
        BY <1>1, <2>4
      <3>2. s3[x] = 0
        BY <1>4, <1>7, <1>8, <2>4, <3>1
      <3> QED
        BY <2>1, <2>4, <3>1, <3>2
    <2>5. CASE x > len + 1 + zeros
      <3>1. ~ (x <= len + 1 + zeros) /\ ~ (x <= len) /\ x # len + 1
        BY <1>1, <2>5
      <3> HIDE DEF total
      <3> QED
        BY <1>8, <2>1, <3>1
    <2> QED
      BY <1>1, <2>2, <2>3, <2>4, <2>5
  <1>10. \A x \in 1 .. total : s3[x] = PaddedAt(bytes, total, x)
    BY <1>9 DEF PaddedAt, len, field, L
  <1> QED
    BY <1>8, <1>10 DEF s3, s2, s1, mark, r, field, len, S, L

LEMMA ShaOfBytes ==
  ASSUME NEW bytes \in Seq(Nat), NEW k \in Nat, NEW f \in 0 .. Block256,
         Len(bytes) = k * Block256 + f
  PROVE  Sha256Blocks(bytes) = BlocksOf(bytes, Needed(k, f))
  <1> DEFINE B == Block256
             len == Len(bytes)
             n == Needed(k, f)
             used == len + 1 + LengthBytes
             zeros == (B - (used % B)) % B
             S == Symbols(len)
             text == bytes \o <<Marker>> \o Reps(zeros) \o LengthField(len)
             total == len + 1 + zeros + LengthBytes
  <1>1. zeros \in Nat /\ total = n * B /\ n \in Nat /\ n * B \in Nat
    BY PaddedLength
  <1>2. /\ text \in Seq(S) /\ Len(text) = total
        /\ \A x \in 1 .. total : text[x] = PaddedAt(bytes, total, x)
    <2> HIDE DEF zeros
    <2> QED
      BY <1>1, BytesPadded
  <1>3. Sha256Blocks(bytes) = [b \in 1 .. Len(text) \div B |->
                                  SubSeq(text, (b - 1) * B + 1, b * B)]
    BY DEF Sha256Blocks
  <1> HIDE DEF text, zeros, S, total
  <1>4. B \in Moduli /\ B \in Nat /\ B >= 2
    BY BlockSizes
  <1>5. Len(text) \div B = n
    <2>1. 0 \in 0 .. B - 1
      BY <1>4
    <2> HIDE DEF B, n
    <2>2. (n * B + 0) \div B = n
      BY <1>1, <1>4, <2>1, QuotientIs
    <2>3. n * B + 0 = n * B
      BY <1>1
    <2> QED
      BY <1>1, <1>2, <2>2, <2>3
  <1> HIDE DEF n
  <1>6. ASSUME NEW b \in 1 .. n
        PROVE  SubSeq(text, (b - 1) * B + 1, b * B) = PaddedBlock(bytes, n, b)
    <2> DEFINE m == (b - 1) * B
    <2>1. b \in Nat /\ b - 1 \in Nat /\ b <= n
      BY <1>1
    <2>2. m \in Nat /\ b * B = m + B
      BY <1>4, <2>1
    <2>3. b * B <= n * B
      BY <1>1, <1>4, <2>1, MultiplesCompare
    <2>4. Len(text) = n * B
      BY <1>1, <1>2
    <2>5. m + B <= Len(text)
      BY <2>2, <2>3, <2>4
    <2> HIDE DEF m, B
    <2>6. SubSeq(text, m + 1, m + B) = [i \in 1 .. B |-> text[m + i]]
      BY <1>2, <1>4, <2>2, <2>5, Slices
    <2>7. ASSUME NEW i \in 1 .. B
          PROVE  text[m + i] = PaddedAt(bytes, n * B, m + i)
      <3> DEFINE N == n * B
      <3>1. m + B <= N /\ N \in Nat /\ total = N
        BY <1>1, <2>4, <2>5
      <3> HIDE DEF N
      <3>2. m + i \in 1 .. total
        BY <1>4, <2>2, <3>1
      <3>3. text[m + i] = PaddedAt(bytes, total, m + i)
        BY <1>2, <3>2
      <3> QED
        BY <3>1, <3>3 DEF N
    <2>8. PaddedBlock(bytes, n, b) = [i \in 1 .. B |-> PaddedAt(bytes, n * B, m + i)]
      BY DEF PaddedBlock, m, B
    <2> QED
      BY <2>2, <2>6, <2>7, <2>8 DEF m
  <1>7. Sha256Blocks(bytes) = BlocksOf(bytes, n)
    BY <1>3, <1>5, <1>6 DEF BlocksOf
  <1> QED
    BY <1>7 DEF n

(* The padded last chunk of a vector, element by element.                  *)
FinalChunk(v) == Chunk(v, (Size(v) \div Block256) - 1)
TailAt(v, chunk, f, j) ==
    IF j = (IF ExtraBlock(v.len) THEN f ELSE f + Block256) + 1 THEN Marker
    ELSE IF j <= Block256 THEN (IF j <= f THEN chunk[j] ELSE 0)
    ELSE IF j <= Block256 + (Block256 - LengthBytes)
         THEN (IF ~ExtraBlock(v.len) /\ j - Block256 <= f THEN chunk[j - Block256] ELSE 0)
         ELSE LengthField(v.len)[j - (Block256 + (Block256 - LengthBytes))]

LEMMA MergedIs ==
  ASSUME NEW S, Nat \subseteq S, NEW chunk \in Seq(Nat), NEW a \in Nat, Len(chunk) = a,
         NEW len \in 0 .. a, NEW n \in 0 .. a
  PROVE  /\ Merged(chunk, len, n) \in Seq(S) /\ Len(Merged(chunk, len, n)) = n
         /\ \A i \in 1 .. n : Merged(chunk, len, n)[i] = IF i <= len THEN chunk[i] ELSE 0
  <1> DEFINE x == Merged(chunk, len, n)
  <1>1. x = [i \in 1 .. n |-> IF i <= len THEN chunk[i] ELSE 0]
    BY DEF Merged
  <1>2. \A i \in 1 .. a : chunk[i] \in Nat
    BY ElementOfSeq
  <1>3. \A i \in 1 .. n : (IF i <= len THEN chunk[i] ELSE 0) \in S
    <2>1. \A i \in 1 .. n : i \in 1 .. a
      OBVIOUS
    <2> QED
      BY <1>2, <2>1
  <1> HIDE DEF x
  <1>4. x \in [1 .. n -> S]
    BY <1>1, <1>3
  <1>5. n \in Nat
    OBVIOUS
  <1>6. x \in Seq(S) /\ Len(x) = n
    BY <1>4, <1>5, TabulatedIsSeq
  <1>7. \A i \in 1 .. n : x[i] = IF i <= len THEN chunk[i] ELSE 0
    BY <1>1
  <1> QED
    BY <1>6, <1>7 DEF x

LEMMA TailIs ==
  ASSUME NEW v, NEW data, Holds(v, data), v.alignment = Block256,
         NEW f \in 0 .. Block256, FinalBlockLen(v.len) = f
  PROVE  /\ ComputePadding(v) \in Seq(Symbols(v.len)) /\ Len(ComputePadding(v)) = 2 * Block256
         /\ \A j \in 1 .. 2 * Block256 : ComputePadding(v)[j] = TailAt(v, FinalChunk(v), f, j)
         /\ ExtraBlock(v.len) <=> f >= Block256 - LengthBytes
  <1> DEFINE B == Block256
             L == LengthBytes
             M == B - L
             len == v.len
             S == Symbols(len)
             chunk == FinalChunk(v)
             extra == ExtraBlock(len)
             g == IF extra THEN 0 ELSE f
             x == Merged(chunk, f, B)
             y == Merged(chunk, g, M)
             z == LengthField(len)
             s == x \o y
             t == s \o z
             mark == (IF extra THEN f ELSE f + B) + 1
             w == ComputePadding(v)
  <1>1. B \in Nat /\ B >= 2 /\ L \in Nat /\ L >= 1 /\ L <= B - 1 /\ M \in 0 .. B
    BY BlockSizes
  <1>2. extra <=> f >= M
    BY DEF ExtraBlock
  <1>3. w = [t EXCEPT ![mark] = Marker]
    BY DEF ComputePadding, FinalChunk
  <1>4. chunk \in Seq(Nat) /\ Len(chunk) = B
    <2>1. PICK count \in Nat \ {0} : Size(v) = count * v.alignment
      BY HoldsFacts
    <2>2. Size(v) \div B = count
      BY <2>1, CountOfChunks
    <2>3. count - 1 \in 0 .. count - 1 /\ count \in Nat
      OBVIOUS
    <2> DEFINE j == count - 1
    <2>4. chunk = Chunk(v, j)
      BY <2>2 DEF FinalChunk
    <2> HIDE DEF j, chunk
    <2>5. j \in 0 .. count - 1
      BY <2>3 DEF j
    <2>6. Chunk(v, j) \in Seq(Nat) /\ Len(Chunk(v, j)) = v.alignment
      BY <2>1, <2>3, <2>5, ChunkIs
    <2> QED
      BY <2>4, <2>6
  <1>5. Nat \subseteq S /\ z \in Seq(S) /\ Len(z) = L
    <2>1. Nat \subseteq S
      BY DEF Symbols
    <2> QED
      BY <2>1, FieldIsSeq
  <1> HIDE DEF B, L, M, len, S, chunk, extra
  <1>6. g \in 0 .. B /\ f \in 0 .. B /\ B \in 0 .. B
    BY <1>1 DEF B
  <1> HIDE DEF g
  <1>7. /\ x \in Seq(S) /\ Len(x) = B
        /\ \A i \in 1 .. B : x[i] = IF i <= f THEN chunk[i] ELSE 0
    <2>1. Nat \subseteq S
      BY <1>5
    <2>2. B \in Nat /\ f \in 0 .. B /\ B \in 0 .. B /\ chunk \in Seq(Nat) /\ Len(chunk) = B
      BY <1>1, <1>4, <1>6
    <2>3. x \in Seq(S)
      BY <2>1, <2>2, MergedIs
    <2>4. Len(x) = B
      BY <2>1, <2>2, MergedIs
    <2>5. ASSUME NEW i \in 1 .. B
          PROVE  x[i] = IF i <= f THEN chunk[i] ELSE 0
      BY DEF Merged
    <2> QED
      BY <2>3, <2>4, <2>5
  <1>8. /\ y \in Seq(S) /\ Len(y) = M
        /\ \A i \in 1 .. M : y[i] = IF i <= g THEN chunk[i] ELSE 0
    <2>1. Nat \subseteq S
      BY <1>5
    <2>2. B \in Nat /\ g \in 0 .. B /\ M \in 0 .. B /\ chunk \in Seq(Nat) /\ Len(chunk) = B
      BY <1>1, <1>4, <1>6
    <2>3. y \in Seq(S)
      BY <2>1, <2>2, MergedIs
    <2>4. Len(y) = M
      BY <2>1, <2>2, MergedIs
    <2>5. ASSUME NEW i \in 1 .. M
          PROVE  y[i] = IF i <= g THEN chunk[i] ELSE 0
      BY DEF Merged
    <2> QED
      BY <2>3, <2>4, <2>5
  <1> HIDE DEF x, y, z
  <1>9. /\ s \in Seq(S) /\ Len(s) = B + M
        /\ \A i \in 1 .. B + M : s[i] = IF i <= B THEN x[i] ELSE y[i - B]
    BY <1>7, <1>8, Joins
  <1> HIDE DEF s
  <1>10. /\ t \in Seq(S) /\ Len(t) = 2 * B
         /\ \A i \in 1 .. 2 * B : t[i] = IF i <= B + M THEN s[i] ELSE z[i - (B + M)]
    <2> DEFINE m == B + M
    <2>1. m + L = 2 * B
      BY <1>1 DEF M
    <2>2. Len(s) = m
      BY <1>9
    <2> HIDE DEF m
    <2>3. /\ t \in Seq(S) /\ Len(t) = m + L
          /\ \A i \in 1 .. m + L : t[i] = IF i <= m THEN s[i] ELSE z[i - m]
      BY <1>5, <1>9, <2>2, Joins
    <2> QED
      BY <2>1, <2>3 DEF m
  <1> HIDE DEF t
  <1>11. mark \in 1 .. 2 * B
    BY <1>1, <1>2, <1>6
  <1> HIDE DEF mark
  <1> DEFINE D == 2 * B
  <1>12. D \in Nat
    BY <1>1
  <1>13. t = [i \in 1 .. D |-> t[i]] /\ \A i \in 1 .. D : t[i] \in S
    BY <1>10, LenProperties, ElementOfSeq
  <1> HIDE DEF D
  <1>14. w = [i \in 1 .. D |-> IF i = mark THEN Marker ELSE t[i]]
    <2>1. t \in [1 .. D -> S]
      BY <1>13
    <2> HIDE DEF w
    <2> QED
      BY <1>3, <2>1
  <1> HIDE DEF w
  <1>15. w \in Seq(S) /\ Len(w) = D
    <2>1. Marker \in S
      <3>1. Marker \in Nat
        BY DEF Marker
      <3> QED
        BY <1>5, <3>1
    <2>2. w \in [1 .. D -> S]
      BY <1>13, <1>14, <2>1
    <2> QED
      BY <1>12, <2>2, TabulatedIsSeq
  <1>16. ASSUME NEW j \in 1 .. D
         PROVE  w[j] = IF j = mark THEN Marker
                       ELSE IF j <= B THEN (IF j <= f THEN chunk[j] ELSE 0)
                       ELSE IF j <= B + M THEN (IF ~extra /\ j - B <= f THEN chunk[j - B] ELSE 0)
                       ELSE z[j - (B + M)]
    <2>1. w[j] = IF j = mark THEN Marker ELSE t[j]
      BY <1>14
    <2>2. j \in 1 .. 2 * B
      BY DEF D
    <2>3. CASE j <= B
      <3>1. j \in 1 .. B + M /\ j <= B + M /\ j \in 1 .. B
        BY <1>1, <2>2, <2>3
      <3>2. t[j] = x[j]
        BY <1>9, <1>10, <2>2, <2>3, <3>1
      <3> QED
        BY <1>7, <2>1, <2>3, <3>1, <3>2
    <2>4. CASE j > B /\ j <= B + M
      <3> DEFINE k == j - B
      <3>1. j \in 1 .. B + M /\ ~ (j <= B) /\ k \in 1 .. M
        BY <1>1, <2>2, <2>4
      <3>2. t[j] = y[k]
        BY <1>9, <1>10, <2>2, <2>4, <3>1
      <3> HIDE DEF k
      <3>3. y[k] = IF k <= g THEN chunk[k] ELSE 0
        BY <1>8, <3>1
      <3>4. k <= g <=> ~extra /\ k <= f
        BY <1>1, <3>1 DEF g
      <3>5. w[j] = IF j = mark THEN Marker ELSE IF ~extra /\ k <= f THEN chunk[k] ELSE 0
        BY <2>1, <3>2, <3>3, <3>4
      <3> QED
        BY <2>4, <3>1, <3>5 DEF k
    <2>5. CASE j > B + M
      <3>1. ~ (j <= B) /\ ~ (j <= B + M)
        BY <1>1, <2>2, <2>5
      <3> QED
        BY <1>10, <2>1, <2>2, <3>1
    <2> QED
      BY <1>1, <2>2, <2>3, <2>4, <2>5
  <1>17. \A j \in 1 .. D : w[j] = TailAt(v, chunk, f, j)
    BY <1>16 DEF TailAt, mark, B, M, L, extra, z, len
  <1> QED
    BY <1>2, <1>15, <1>17 DEF w, D, B, M, L, extra, len, S, chunk

LEMMA AppendsLast ==
  ASSUME NEW S, NEW s \in Seq(S), NEW t \in Seq(S), NEW x \in S, NEW m \in Nat,
         Len(s) = m, Len(t) = m + 1, t[m + 1] = x, \A i \in 1 .. m : t[i] = s[i]
  PROVE  s \o <<x>> = t
  <1> DEFINE one == <<x>>
             w == s \o one
  <1>1. one \in Seq(S) /\ Len(one) = 1 /\ one[1] = x
    OBVIOUS
  <1> HIDE DEF one
  <1>2. /\ w \in Seq(S) /\ Len(w) = m + 1
        /\ \A i \in 1 .. m + 1 : w[i] = IF i <= m THEN s[i] ELSE one[i - m]
    <2> DEFINE u == 1
    <2>1. one \in Seq(S) /\ Len(one) = u
      BY <1>1
    <2> HIDE DEF u
    <2>2. /\ w \in Seq(S) /\ Len(w) = m + u
          /\ \A i \in 1 .. m + u : w[i] = IF i <= m THEN s[i] ELSE one[i - m]
      BY <2>1, Joins
    <2> QED
      BY <2>2 DEF u
  <1> HIDE DEF w
  <1>3. ASSUME NEW i \in 1 .. m + 1
        PROVE  w[i] = t[i]
    <2>1. CASE i <= m
      <3>1. i \in 1 .. m
        BY <2>1
      <3> QED
        BY <1>2, <2>1, <3>1
    <2>2. CASE ~ (i <= m)
      <3>1. i = m + 1 /\ i - m = 1
        BY <2>2
      <3>2. w[i] = one[1]
        BY <1>2, <2>2, <3>1
      <3> QED
        BY <1>1, <3>1, <3>2
    <2> QED
      BY <2>1, <2>2
  <1> DEFINE n == m + 1
  <1>4. w = [i \in 1 .. n |-> w[i]] /\ t = [i \in 1 .. n |-> t[i]]
    BY <1>2, LenProperties
  <1> HIDE DEF n
  <1>5. \A i \in 1 .. n : w[i] = t[i]
    BY <1>3 DEF n
  <1>6. w = t
    BY <1>4, <1>5
  <1> QED
    BY <1>6 DEF w, one

(* How the payload is cut: k full chunks, and f of the last chunk.         *)
Cut(v, count, used, k, f) ==
    /\ k \in Nat /\ f \in 0 .. Block256
    /\ v.len = k * Block256 + f
    /\ FinalBlockLen(v.len) = f
    /\ v.len # 0 => used = k + 1
    /\ v.len = 0 => used = 0 /\ k = 0 /\ f = 0

LEMMA CutIs ==
  ASSUME NEW v, NEW data, Holds(v, data), v.alignment = Block256, NEW count, NEW used,
         Places(Size(v), v.alignment, v.len, count, used)
  PROVE  \E k, f : Cut(v, count, used, k, f)
  <1> DEFINE B == Block256
             len == v.len
             size == Size(v)
             W == (used - 1) * B
             e == len - W
  <1>1. B \in Moduli /\ B \in Nat /\ len \in Nat /\ B >= 2 /\ v.alignment = B
    BY BlockSizes, HoldsFacts
  <1>2. used \in Nat
    BY DEF Places
  <1>3. /\ len = 0 <=> used = 0
        /\ len # 0 => /\ e \in 1 .. B /\ W \in Nat
                      /\ len % B = IF e = B THEN 0 ELSE e
    <2>1. Places(size, B, len, count, used)
      OBVIOUS
    <2> HIDE DEF B, size, len
    <2> QED
      BY <1>1, <2>1, LastUsed
  <1>4. FinalBlockLen(len) = IF len % B = 0 /\ len # 0 THEN B ELSE len % B
    BY DEF FinalBlockLen
  <1> HIDE DEF len
  <1>5. CASE len = 0
    <2>1. 0 % B = 0
      <3>1. (0 * B + 0) % B = 0
        <4>1. 0 \in 0 .. B - 1 /\ 0 \in Nat
          BY <1>1
        <4> HIDE DEF B
        <4> QED
          BY <1>1, <4>1, QuotientIs
      <3>2. 0 * B + 0 = 0
        BY <1>1
      <3> QED
        BY <3>1, <3>2
    <2>2. FinalBlockLen(len) = 0
      BY <1>4, <1>5, <2>1
    <2>3. 0 = 0 * B + 0 /\ 0 \in 0 .. B
      BY <1>1
    <2>4. Cut(v, count, used, 0, 0)
      BY <1>3, <1>5, <2>2, <2>3 DEF Cut, len
    <2> QED
      BY <2>4
  <1>6. CASE len # 0
    <2> DEFINE k == used - 1
    <2>1. k \in Nat /\ used = k + 1
      BY <1>2, <1>3, <1>6
    <2>2. e \in 1 .. B /\ W \in Nat /\ len % B = IF e = B THEN 0 ELSE e
      BY <1>3, <1>6
    <2>3. W = k * B
      OBVIOUS
    <2> HIDE DEF W, k
    <2>4. len = W + e /\ e \in 0 .. B
      BY <1>1, <2>2
    <2> HIDE DEF e
    <2>5. FinalBlockLen(len) = e
      BY <1>1, <1>4, <1>6, <2>2
    <2>6. Cut(v, count, used, k, e)
      BY <1>6, <2>1, <2>3, <2>4, <2>5 DEF Cut, len
    <2> QED
      BY <2>6
  <1> QED
    BY <1>5, <1>6

(* The full chunks, and the one or two blocks the last is spread over, are *)
(* the blocks of the padded payload.                                       *)
LEMMA FullChunk ==
  ASSUME NEW v, NEW data, Holds(v, data), v.alignment = Block256, NEW count, NEW used,
         Places(Size(v), v.alignment, v.len, count, used),
         NEW k, NEW f, Cut(v, count, used, k, f), NEW n, NEW b \in 1 .. k,
         NEW j, j = count - used + b - 1
  PROVE  Chunk(v, j) = PaddedBlock(data, n, b)
  <1> DEFINE B == Block256
             len == v.len
             c == Chunk(v, j)
             m == (b - 1) * B
  <1>1. B \in Moduli /\ B \in Nat /\ len \in Nat /\ Len(data) = len /\ v.alignment = B
    BY BlockSizes, HoldsFacts
  <1>2. k \in Nat /\ f \in 0 .. B /\ len = k * B + f /\ k >= 1 /\ b \in Nat /\ b - 1 \in Nat
    BY DEF Cut
  <1>3. len # 0 /\ used = k + 1
    BY <1>2 DEF Cut
  <1>4. count \in Nat /\ used \in Nat /\ used <= count /\ Size(v) = count * v.alignment
    BY DEF Places
  <1>5. b \in 1 .. used /\ j \in 0 .. count - 1
    BY <1>2, <1>3, <1>4
  <1>6. c \in Seq(Nat) /\ Len(c) = B /\ DOMAIN c = 1 .. B
    BY <1>1, <1>4, <1>5, ChunkIs
  <1>7. m \in Nat /\ m + B <= len
    <2>1. b * B <= k * B /\ k * B \in Nat /\ b * B \in Nat /\ m \in Nat
      BY <1>1, <1>2, MultiplesCompare
    <2>2. m + B = b * B
      <3> HIDE DEF B
      <3> QED
        BY <1>1, <1>2
    <2> DEFINE X == k * B
               Y == b * B
    <2>3. Y <= X /\ X \in Nat /\ Y \in Nat /\ m \in Nat /\ m + B = Y /\ len = X + f
      BY <1>2, <2>1, <2>2
    <2> HIDE DEF X, Y, m, B, len
    <2> QED
      BY <1>1, <1>2, <2>3
  <1>8. ASSUME NEW i \in 1 .. B
        PROVE  c[i] = PaddedAt(data, n * B, m + i)
    <2>1. m + i <= len
      <3> HIDE DEF m, len, B
      <3> QED
        BY <1>1, <1>7
    <2>2. Chunk(v, count - used + b - 1)[i] = data[(b - 1) * v.alignment + i]
      <3>1. (b - 1) * v.alignment + i <= v.len /\ i \in 1 .. v.alignment
        BY <1>1, <2>1
      <3> QED
        BY <1>5, <3>1, ChunkHolds
    <2>3. c[i] = data[m + i]
      BY <1>1, <2>2
    <2> HIDE DEF c, m
    <2>4. PaddedAt(data, n * B, m + i) = data[m + i]
      BY <1>1, <2>1 DEF PaddedAt
    <2> QED
      BY <2>3, <2>4
  <1>9. PaddedBlock(data, n, b) = [i \in 1 .. B |-> PaddedAt(data, n * B, m + i)]
    BY DEF PaddedBlock
  <1> HIDE DEF B, c, m
  <1>10. c = [i \in 1 .. B |-> c[i]]
    BY <1>6, LenProperties
  <1>11. c = PaddedBlock(data, n, b)
    BY <1>8, <1>9, <1>10
  <1> QED
    BY <1>11 DEF c

LEMMA FullChunks ==
  ASSUME NEW v, NEW data, Holds(v, data), v.alignment = Block256, NEW count, NEW used,
         Places(Size(v), v.alignment, v.len, count, used),
         NEW k, NEW f, Cut(v, count, used, k, f), NEW n
  PROVE  \A b \in 1 .. k : Chunk(v, count - used + b - 1) = PaddedBlock(data, n, b)
  <1> SUFFICES ASSUME NEW b \in 1 .. k
               PROVE  Chunk(v, count - used + b - 1) = PaddedBlock(data, n, b)
    OBVIOUS
  <1> DEFINE j == count - used + b - 1
  <1>1. j = count - used + b - 1
    OBVIOUS
  <1> HIDE DEF j
  <1>2. Chunk(v, j) = PaddedBlock(data, n, b)
    BY <1>1, FullChunk
  <1> QED
    BY <1>1, <1>2

LEMMA LastHolds ==
  ASSUME NEW v, NEW data, Holds(v, data), v.alignment = Block256, NEW count, NEW used,
         Places(Size(v), v.alignment, v.len, count, used),
         NEW k, NEW f, Cut(v, count, used, k, f), NEW i \in 1 .. f
  PROVE  FinalChunk(v)[i] = data[k * Block256 + i]
  <1> DEFINE B == Block256
             a == v.alignment
  <1>1. k \in Nat /\ f \in 0 .. B /\ v.len = k * B + f /\ B \in Nat /\ a = B
    BY BlockSizes DEF Cut
  <1>2. f >= 1 /\ i \in 1 .. B
    BY <1>1
  <1>3. v.len # 0 /\ used = k + 1
    BY <1>1, <1>2 DEF Cut
  <1>4. count \in Nat /\ used \in Nat /\ used <= count /\ Size(v) = count * a
    BY DEF Places
  <1>5. Size(v) \div B = count
    BY <1>1, <1>4, CountOfChunks
  <1>6. k + 1 \in 1 .. used /\ count - used + (k + 1) - 1 = count - 1 /\ k + 1 - 1 = k
    BY <1>1, <1>3, <1>4
  <1>7. k * a + i <= v.len /\ i \in 1 .. a
    <2> DEFINE X == k * B
               l == v.len
    <2>1. l = X + f /\ X \in Nat
      BY <1>1
    <2> HIDE DEF X, l
    <2>2. X + i <= l
      BY <1>1, <2>1
    <2> QED
      BY <1>1, <1>2, <2>2 DEF X, l
  <1> DEFINE b == k + 1
  <1>8. Chunk(v, count - used + b - 1)[i] = data[(b - 1) * v.alignment + i]
    <2>1. b \in 1 .. used /\ b - 1 = k
      <3>1. b \in 1 .. used
        BY <1>6
      <3>2. k \in Nat
        BY <1>1
      <3> QED
        BY <3>1, <3>2
    <2>2. i \in 1 .. v.alignment
      BY <1>7
    <2> HIDE DEF b
    <2>3. (b - 1) * v.alignment + i <= v.len
      <3>1. k * v.alignment + i <= v.len
        BY <1>7
      <3> QED
        BY <2>1, <3>1
    <2> QED
      BY <2>1, <2>2, <2>3, ChunkHolds
  <1>9. count - used + b - 1 = count - 1 /\ (b - 1) * v.alignment + i = k * B + i
    BY <1>1, <1>6
  <1>10. FinalChunk(v) = Chunk(v, count - 1)
    BY <1>5 DEF FinalChunk
  <1> HIDE DEF b
  <1> QED
    BY <1>8, <1>9, <1>10

LEMMA TailBlocks ==
  ASSUME NEW v, NEW data, Holds(v, data), v.alignment = Block256, NEW count, NEW used,
         Places(Size(v), v.alignment, v.len, count, used),
         NEW k, NEW f, Cut(v, count, used, k, f)
  PROVE  /\ ExtraBlock(v.len) <=> f >= Block256 - LengthBytes
         /\ ExtraBlock(v.len) =>
               /\ SubSeq(ComputePadding(v), 1, Block256) = PaddedBlock(data, k + 2, k + 1)
               /\ SubSeq(ComputePadding(v), Block256 + 1, 2 * Block256)
                     = PaddedBlock(data, k + 2, k + 2)
         /\ ~ExtraBlock(v.len) =>
               SubSeq(ComputePadding(v), Block256 + 1, 2 * Block256)
                  = PaddedBlock(data, k + 1, k + 1)
  <1> DEFINE B == Block256
             L == LengthBytes
             M == B - L
             len == v.len
             S == Symbols(len)
             tail == ComputePadding(v)
             chunk == FinalChunk(v)
             extra == ExtraBlock(len)
             field == LengthField(len)
             X == k * B
  <1>1. B \in Nat /\ B >= 2 /\ L \in Nat /\ L >= 1 /\ L <= B - 1 /\ M \in 1 .. B - 1 /\ M + L = B
    BY BlockSizes
  <1>2. k \in Nat /\ f \in 0 .. B /\ len = X + f /\ FinalBlockLen(len) = f /\ X \in Nat
    BY <1>1 DEF Cut
  <1>3. Len(data) = len
    BY HoldsFacts
  <1>4. /\ tail \in Seq(S) /\ Len(tail) = 2 * B
        /\ \A j \in 1 .. 2 * B : tail[j] = TailAt(v, chunk, f, j)
        /\ extra <=> f >= M
    BY <1>2, TailIs
  <1>5. \A i \in 1 .. f : chunk[i] = data[X + i]
    BY LastHolds
  <1>6. (k + 1) * B = X + B /\ (k + 2) * B = X + B + B
    BY <1>1, <1>2
  <1>7. /\ PaddedBlock(data, k + 2, k + 1) = [i \in 1 .. B |-> PaddedAt(data, X + B + B, X + i)]
        /\ PaddedBlock(data, k + 2, k + 2) = [i \in 1 .. B |-> PaddedAt(data, X + B + B, X + B + i)]
        /\ PaddedBlock(data, k + 1, k + 1) = [i \in 1 .. B |-> PaddedAt(data, X + B, X + i)]
    <2>1. \A m, b : PaddedBlock(data, m, b)
                       = [i \in 1 .. B |-> PaddedAt(data, m * B, (b - 1) * B + i)]
      BY DEF PaddedBlock
    <2> DEFINE m1 == k + 1
               m2 == k + 2
    <2>2. /\ m1 * B = X + B /\ m2 * B = X + B + B
          /\ (m1 - 1) * B = X /\ (m2 - 1) * B = X + B
      <3>1. m1 - 1 = k /\ m2 - 1 = k + 1
        BY <1>2
      <3> QED
        BY <1>6, <3>1
    <2> HIDE DEF m1, m2, X, B
    <2>3. /\ PaddedBlock(data, m2, m1) = [i \in 1 .. B |-> PaddedAt(data, m2 * B, (m1 - 1) * B + i)]
          /\ PaddedBlock(data, m2, m2) = [i \in 1 .. B |-> PaddedAt(data, m2 * B, (m2 - 1) * B + i)]
          /\ PaddedBlock(data, m1, m1) = [i \in 1 .. B |-> PaddedAt(data, m1 * B, (m1 - 1) * B + i)]
      BY <2>1
    <2>4. /\ PaddedBlock(data, m2, m1) = [i \in 1 .. B |-> PaddedAt(data, X + B + B, X + i)]
          /\ PaddedBlock(data, m2, m2) = [i \in 1 .. B |-> PaddedAt(data, X + B + B, X + B + i)]
          /\ PaddedBlock(data, m1, m1) = [i \in 1 .. B |-> PaddedAt(data, X + B, X + i)]
      BY <2>2, <2>3
    <2> QED
      BY <2>4 DEF m1, m2
  <1>8. \A total, x : PaddedAt(data, total, x)
                         = IF x <= len THEN data[x] ELSE IF x = len + 1 THEN Marker
                           ELSE IF x <= total - L THEN 0 ELSE field[x - (total - L)]
    BY <1>3 DEF PaddedAt
  <1>9. \A j : TailAt(v, chunk, f, j)
                  = IF j = (IF extra THEN f ELSE f + B) + 1 THEN Marker
                    ELSE IF j <= B THEN (IF j <= f THEN chunk[j] ELSE 0)
                    ELSE IF j <= B + M THEN (IF ~extra /\ j - B <= f THEN chunk[j - B] ELSE 0)
                    ELSE field[j - (B + M)]
    BY DEF TailAt
  <1> HIDE DEF B, L, M, len, S, tail, chunk, extra, field, X
  <1>10. SubSeq(tail, 1, B) = [i \in 1 .. B |-> tail[i]]
    <2> DEFINE z == 0
    <2>1. z \in Nat /\ z + B <= Len(tail) /\ z + 1 = 1 /\ z + B = B /\ \A i \in 1 .. B : z + i = i
      BY <1>1, <1>4
    <2> HIDE DEF z
    <2>2. SubSeq(tail, z + 1, z + B) = [i \in 1 .. B |-> tail[z + i]]
      BY <1>1, <1>4, <2>1, Slices
    <2> QED
      BY <2>1, <2>2
  <1>11. SubSeq(tail, B + 1, 2 * B) = [i \in 1 .. B |-> tail[B + i]]
    <2>1. B + B <= Len(tail) /\ B + B = 2 * B
      BY <1>1, <1>4
    <2>2. SubSeq(tail, B + 1, B + B) = [i \in 1 .. B |-> tail[B + i]]
      BY <1>1, <1>4, <2>1, Slices
    <2> QED
      BY <2>1, <2>2
  <1>12. \A i \in 1 .. B : /\ tail[i] = TailAt(v, chunk, f, i)
                           /\ tail[B + i] = TailAt(v, chunk, f, B + i)
    <2>1. \A i \in 1 .. B : i \in 1 .. 2 * B /\ B + i \in 1 .. 2 * B
      BY <1>1
    <2> QED
      BY <1>4, <2>1
  <1>13. ASSUME extra, NEW i \in 1 .. B
         PROVE  tail[i] = PaddedAt(data, X + B + B, X + i)
    <2> DEFINE x == X + i
               total == X + B + B
    <2>1. tail[i] = IF i = f + 1 THEN Marker ELSE IF i <= f THEN chunk[i] ELSE 0
      BY <1>9, <1>12, <1>13
    <2>2. PaddedAt(data, total, x) = IF x <= len THEN data[x] ELSE IF x = len + 1 THEN Marker
                                     ELSE IF x <= total - L THEN 0 ELSE field[x - (total - L)]
      BY <1>8
    <2>3. /\ x <= len <=> i <= f
          /\ x = len + 1 <=> i = f + 1
          /\ x <= total - L
          /\ i <= f => i \in 1 .. f
          /\ i = f + 1 => ~ (i <= f)
      BY <1>1, <1>2
    <2>4. i <= f => chunk[i] = data[x]
      BY <1>5, <2>3
    <2> HIDE DEF x, total
    <2>5. tail[i] = PaddedAt(data, total, x)
      BY <2>1, <2>2, <2>3, <2>4
    <2> QED
      BY <2>5 DEF x, total
  <1>14. ASSUME extra, NEW i \in 1 .. B
         PROVE  tail[B + i] = PaddedAt(data, X + B + B, X + B + i)
    <2> DEFINE x == X + B + i
               total == X + B + B
               j == B + i
    <2>1. /\ ~ (j <= B) /\ (j <= B + M <=> i <= M) /\ j - (B + M) = i - M
      BY <1>1
    <2>2. TailAt(v, chunk, f, j) = IF j = f + 1 THEN Marker
                                   ELSE IF j <= B + M THEN 0 ELSE field[j - (B + M)]
      BY <1>9, <1>14, <2>1
    <2>3. PaddedAt(data, total, x) = IF x <= len THEN data[x] ELSE IF x = len + 1 THEN Marker
                                     ELSE IF x <= total - L THEN 0 ELSE field[x - (total - L)]
      BY <1>8
    <2>4. /\ ~ (x <= len)
          /\ x = len + 1 <=> j = f + 1
          /\ x <= total - L <=> i <= M
          /\ x - (total - L) = i - M
      BY <1>1, <1>2 DEF M
    <2>5. tail[j] = TailAt(v, chunk, f, j)
      BY <1>12
    <2> HIDE DEF x, total, j
    <2>6. tail[j] = PaddedAt(data, total, x)
      BY <2>1, <2>2, <2>3, <2>4, <2>5
    <2> QED
      BY <2>6 DEF x, total, j
  <1>15. ASSUME ~extra, NEW i \in 1 .. B
         PROVE  tail[B + i] = PaddedAt(data, X + B, X + i)
    <2> DEFINE x == X + i
               total == X + B
               j == B + i
    <2>1. /\ ~ (j <= B) /\ (j <= B + M <=> i <= M) /\ j - (B + M) = i - M /\ j - B = i
          /\ j = f + B + 1 <=> i = f + 1
      BY <1>1, <1>2
    <2>2. TailAt(v, chunk, f, j) = IF i = f + 1 THEN Marker
                                   ELSE IF i <= M THEN (IF i <= f THEN chunk[i] ELSE 0)
                                   ELSE field[i - M]
      <3>1. TailAt(v, chunk, f, j)
               = IF j = f + B + 1 THEN Marker
                 ELSE IF j <= B THEN (IF j <= f THEN chunk[j] ELSE 0)
                 ELSE IF j <= B + M THEN (IF j - B <= f THEN chunk[j - B] ELSE 0)
                 ELSE field[j - (B + M)]
        BY <1>9, <1>15
      <3> HIDE DEF j
      <3> QED
        BY <2>1, <3>1
    <2>3. PaddedAt(data, total, x) = IF x <= len THEN data[x] ELSE IF x = len + 1 THEN Marker
                                     ELSE IF x <= total - L THEN 0 ELSE field[x - (total - L)]
      BY <1>8
    <2>4. /\ x <= len <=> i <= f
          /\ x = len + 1 <=> i = f + 1
          /\ x <= total - L <=> i <= M
          /\ x - (total - L) = i - M
          /\ i <= f => i \in 1 .. f
          /\ i <= f => i <= M
          /\ i = f + 1 => ~ (i <= f)
      <3>1. ~ (f >= M)
        BY <1>4, <1>15
      <3> QED
        BY <1>1, <1>2, <3>1 DEF M
    <2>5. tail[j] = TailAt(v, chunk, f, j)
      BY <1>12
    <2>6. i <= f => chunk[i] = data[x]
      BY <1>5, <2>4
    <2> HIDE DEF x, total, j
    <2>7. tail[j] = PaddedAt(data, total, x)
      BY <2>2, <2>3, <2>4, <2>5, <2>6
    <2> QED
      BY <2>7 DEF x, total, j
  <1>16. extra => /\ SubSeq(tail, 1, B) = PaddedBlock(data, k + 2, k + 1)
                  /\ SubSeq(tail, B + 1, 2 * B) = PaddedBlock(data, k + 2, k + 2)
    BY <1>7, <1>10, <1>11, <1>13, <1>14
  <1>17. ~extra => SubSeq(tail, B + 1, 2 * B) = PaddedBlock(data, k + 1, k + 1)
    BY <1>7, <1>11, <1>15
  <1> QED
    BY <1>4, <1>16, <1>17 DEF B, L, M, len, tail, extra

LEMMA ShaHashes ==
  ASSUME NEW v, NEW data, Holds(v, data), v.alignment = Block256
  PROVE  Sha256VarLen(v) = Sha256Blocks(data)
  <1> DEFINE B == Block256
             len == v.len
             a == v.alignment
             size == Size(v)
  <1>1. /\ a \in Moduli /\ len \in Nat /\ size \in Nat /\ len <= size
        /\ \E m \in Nat \ {0} : size = m * a
        /\ data \in Seq(Nat) /\ Len(data) = len
    BY HoldsFacts
  <1>2. \E m \in Nat \ {0}, u \in Nat : Places(size, a, len, m, u)
    <2> HIDE DEF a, size, len
    <2> QED
      BY <1>1, PlaceOf
  <1>3. PICK count, used : /\ count \in Nat \ {0} /\ used \in Nat
                           /\ Places(size, a, len, count, used)
    BY <1>2
  <1>4. PICK k, f : Cut(v, count, used, k, f)
    BY <1>3, CutIs
  <1>5. /\ k \in Nat /\ f \in 0 .. B /\ len = k * B + f
        /\ len # 0 => used = k + 1
        /\ len = 0 => used = 0 /\ k = 0
    BY <1>4 DEF Cut
  <1> DEFINE n == Needed(k, f)
             first == count - used
             cs == [i \in 1 .. count - 1 |-> Chunk(v, i - 1)]
             T == {Chunk(v, i - 1) : i \in 1 .. count - 1}
             S == {PaddedBlock(data, n, b) : b \in Nat}
             full == Updated(v, cs)
             tail == ComputePadding(v)
             extra == ExtraBlock(len)
             one == SubSeq(tail, 1, B)
             two == SubSeq(tail, B + 1, 2 * B)
             padded == BlocksOf(data, n)
  <1>6. Sha256Blocks(data) = padded
    BY <1>1, <1>5, ShaOfBytes
  <1>7. /\ used <= count /\ size = count * a /\ first \in Nat
        /\ count \in Nat \ {0} /\ used \in Nat
    BY <1>3 DEF Places
  <1>8. size \div B = count
    BY <1>7, CountOfChunks
  <1>9. Sha256VarLen(v) = full \o (IF extra THEN <<one>> ELSE <<>>) \o <<two>>
    BY <1>8 DEF Sha256VarLen
  <1>10. /\ extra <=> f >= B - LengthBytes
         /\ extra => one = PaddedBlock(data, k + 2, k + 1) /\ two = PaddedBlock(data, k + 2, k + 2)
         /\ ~extra => two = PaddedBlock(data, k + 1, k + 1)
    BY <1>3, <1>4, TailBlocks
  <1>11. n = IF extra THEN k + 2 ELSE k + 1
    BY <1>10 DEF Needed
  <1>12. \A b \in 1 .. k : Chunk(v, first + b - 1) = PaddedBlock(data, n, b)
    <2>1. Places(Size(v), v.alignment, v.len, count, used)
      BY <1>3
    <2> HIDE DEF n
    <2> QED
      BY <1>4, <2>1, FullChunks
  <1>13. full = SubSeq(cs, first + 1, count - 1) /\ cs \in Seq(T) /\ Len(cs) = count - 1
    <2>1. \A i \in Nat : Updating(v, i) <=> first <= i
      BY <1>1, <1>3, UpdatingIs
    <2>2. count - 1 \in Nat
      BY <1>7
    <2>3. cs \in [1 .. count - 1 -> T]
      OBVIOUS
    <2> HIDE DEF cs, T, first
    <2>4. cs \in Seq(T) /\ Len(cs) = count - 1
      BY <2>2, <2>3, TabulatedIsSeq
    <2>5. full = SubSeq(cs, first + 1, Len(cs))
      BY <1>7, <2>1, <2>4, UpdatedIs
    <2> QED
      BY <2>4, <2>5
  <1>14. \A i \in 1 .. count - 1 : cs[i] = Chunk(v, i - 1)
    OBVIOUS
  <1>15. /\ padded = [b \in 1 .. n |-> PaddedBlock(data, n, b)]
         /\ \A b \in Nat : PaddedBlock(data, n, b) \in S
    BY DEF BlocksOf
  <1> HIDE DEF full, cs, T, S, tail, one, two, padded, extra, n, size, a, len, B
  <1>16. n \in Nat /\ n >= k + 1
    BY <1>5, <1>11
  <1>17. padded \in Seq(S) /\ Len(padded) = n /\ \A b \in 1 .. n : padded[b] = PaddedBlock(data, n, b)
    <2>1. \A b \in 1 .. n : PaddedBlock(data, n, b) \in S
      BY <1>15, <1>16
    <2>2. padded \in [1 .. n -> S]
      BY <1>15, <2>1
    <2> QED
      BY <1>15, <1>16, <2>2, TabulatedIsSeq
  <1>18. full \in Seq(S) /\ Len(full) = k /\ \A b \in 1 .. k : full[b] = PaddedBlock(data, n, b)
    <2>1. full = [b \in 1 .. k |-> Chunk(v, first + b - 1)]
      <3>1. CASE len = 0
        <4>1. count - 1 < first + 1 /\ count - 1 \in Int /\ first + 1 \in Int
          BY <1>5, <1>7, <3>1
        <4>2. full = <<>>
          BY <1>13, <4>1, SubSeqEmpty
        <4>3. k = 0 /\ 1 .. 0 = {}
          BY <1>5, <3>1
        <4>4. <<>> = [b \in 1 .. 0 |-> Chunk(v, first + b - 1)]
          BY <4>3
        <4> QED
          BY <4>2, <4>3, <4>4
      <3>2. CASE len # 0
        <4>1. used = k + 1 /\ first + k = count - 1 /\ first \in Nat /\ first + k <= Len(cs)
          BY <1>5, <1>7, <1>13, <3>2
        <4> HIDE DEF first
        <4>2. SubSeq(cs, first + 1, first + k) = [b \in 1 .. k |-> cs[first + b]]
          BY <1>5, <1>13, <4>1, Slices
        <4>3. \A b \in 1 .. k : first + b \in 1 .. count - 1
          BY <1>5, <4>1
        <4>4. \A b \in 1 .. k : cs[first + b] = Chunk(v, first + b - 1)
          <5> SUFFICES ASSUME NEW b \in 1 .. k
                       PROVE  cs[first + b] = Chunk(v, first + b - 1)
            OBVIOUS
          <5> DEFINE j == first + b
          <5>1. j \in 1 .. count - 1
            BY <4>3
          <5> HIDE DEF j
          <5>2. cs[j] = Chunk(v, j - 1)
            BY <1>14, <5>1
          <5>3. first + b = j /\ first + b - 1 = j - 1
            BY <4>1 DEF j
          <5> QED
            BY <5>2, <5>3
        <4> QED
          BY <1>13, <4>1, <4>2, <4>4
      <3> QED
        BY <3>1, <3>2
    <2>2. full = [b \in 1 .. k |-> PaddedBlock(data, n, b)]
      BY <1>12, <2>1
    <2>3. \A b \in 1 .. k : PaddedBlock(data, n, b) \in S
      BY <1>5, <1>15
    <2>4. full \in [1 .. k -> S]
      BY <2>2, <2>3
    <2> QED
      BY <1>5, <2>2, <2>4, TabulatedIsSeq
  <1>19. CASE extra
    <2> DEFINE half == [b \in 1 .. k + 1 |-> PaddedBlock(data, n, b)]
               m == k + 1
    <2>1. n = k + 2 /\ one = PaddedBlock(data, n, k + 1) /\ two = PaddedBlock(data, n, k + 2)
      BY <1>10, <1>11, <1>19
    <2>2. one \in S /\ two \in S /\ m \in Nat /\ m + 1 = n /\ k + 2 = n
      <3>1. k + 1 \in Nat /\ k + 2 \in Nat /\ k + 1 + 1 = k + 2
        BY <1>5
      <3> QED
        BY <1>15, <2>1, <3>1
    <2>3. half \in [1 .. m -> S] /\ \A b \in 1 .. m : half[b] = PaddedBlock(data, n, b)
      <3>1. \A b \in 1 .. m : b \in Nat
        BY <2>2
      <3>2. \A b \in 1 .. m : PaddedBlock(data, n, b) \in S
        BY <1>15, <3>1
      <3> QED
        BY <3>2
    <2> HIDE DEF half
    <2>4. half \in Seq(S) /\ Len(half) = m
      BY <2>2, <2>3, TabulatedIsSeq
    <2>5. full \o <<one>> = half
      <3>1. Len(half) = k + 1
        BY <2>4
      <3>2. half[k + 1] = one
        <4>1. k + 1 \in 1 .. m
          BY <1>5
        <4> QED
          BY <2>1, <2>3, <4>1
      <3>3. \A b \in 1 .. k : half[b] = full[b]
        <4>1. \A b \in 1 .. k : b \in 1 .. m
          BY <1>5
        <4> QED
          BY <1>18, <2>3, <4>1
      <3> QED
        BY <1>5, <1>18, <2>2, <2>4, <3>1, <3>2, <3>3, AppendsLast
    <2> HIDE DEF m
    <2>6. half \o <<two>> = padded
      <3>1. Len(padded) = m + 1 /\ padded[m + 1] = two
        <4>1. n \in 1 .. n /\ two = PaddedBlock(data, n, n)
          BY <1>5, <1>16, <2>1, <2>2
        <4> QED
          BY <1>17, <2>2, <4>1
      <3>2. \A b \in 1 .. m : padded[b] = half[b]
        <4>1. \A b \in 1 .. m : b \in 1 .. n
          BY <2>2
        <4> QED
          BY <1>17, <2>3, <4>1
      <3> QED
        BY <1>17, <2>2, <2>4, <3>1, <3>2, AppendsLast
    <2>7. Sha256VarLen(v) = full \o <<one>> \o <<two>>
      BY <1>9, <1>19
    <2> QED
      BY <1>6, <2>5, <2>6, <2>7
  <1>20. CASE ~extra
    <2>1. n = k + 1 /\ two = PaddedBlock(data, n, k + 1)
      BY <1>10, <1>11, <1>20
    <2>2. full \o <<>> = full
      BY <1>18, ConcatEmptySeq
    <2>3. two \in S
      <3>1. k + 1 \in Nat
        BY <1>5
      <3> QED
        BY <1>15, <2>1, <3>1
    <2>4. full \o <<two>> = padded
      <3>1. Len(padded) = k + 1 /\ padded[k + 1] = two
        <4>1. k + 1 \in 1 .. n
          BY <1>5, <2>1
        <4> QED
          BY <1>17, <2>1, <4>1
      <3>2. \A b \in 1 .. k : padded[b] = full[b]
        <4>1. \A b \in 1 .. k : b \in 1 .. n
          BY <1>5, <2>1
        <4> QED
          BY <1>17, <1>18, <4>1
      <3> QED
        BY <1>5, <1>17, <1>18, <2>3, <3>1, <3>2, AppendsLast
    <2>5. Sha256VarLen(v) = full \o <<>> \o <<two>>
      BY <1>9, <1>20
    <2> QED
      BY <1>6, <2>2, <2>4, <2>5
  <1> QED
    BY <1>19, <1>20

LEMMA VectorsHashPayloads == VectorInv => HashesPayload
  <1>1. ASSUME VectorInv, vector.alignment = Rate
        PROVE  PoseidonVarLen(vector) = Hash(payload)
    BY <1>1, PoseidonHashes DEF VectorInv
  <1>2. ASSUME VectorInv, vector.alignment = Block256
        PROVE  Sha256VarLen(vector) = Sha256Blocks(payload)
    BY <1>2, ShaHashes DEF VectorInv
  <1> QED
    BY <1>1, <1>2 DEF HashesPayload

(* Whatever the prover puts around it, however the vector is resized and   *)
(* trimmed, for every rate, size of a block and length: a vector is found, *)
(* compared and hashed as the sequence it stands for (vector_gadget.rs,    *)
(* poseidon_varlen.rs, sha256_varlen.rs).                                  *)
THEOREM VectorsAreTheirPayloads == VectorSpec => []VectorIsItsPayload
  <1>1. VectorInv => VectorIsItsPayload
    BY PayloadsInPlace, EqualityIgnoresFillers, VectorsHashPayloads DEF VectorIsItsPayload
  <1> QED
    BY <1>1, VectorInitInv, VectorNextInv, PTL DEF VectorSpec
=============================================================================
