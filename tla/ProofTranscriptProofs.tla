------------------------ MODULE ProofTranscriptProofs ------------------------
(***************************************************************************)
(* Proofs about the prover and the verifier: for every circuit, statement, *)
(* set of features and size of the domain, the verifier of a proof that    *)
(* reaches it whole hears what the prover said and accepts to read it, and *)
(* the verifier in a circuit goes through what the verifier goes through.  *)
(***************************************************************************)
EXTENDS VerifierGadget, ConstraintSystemProofs

-----------------------------------------------------------------------------
(* Sequences, whatever their elements are.                                 *)
IsSeq(s) == \E S : s \in Seq(S)

LEMMA SeqFacts ==
  ASSUME NEW s, IsSeq(s)
  PROVE  /\ Len(s) \in Nat /\ DOMAIN s = 1 .. Len(s)
         /\ s \in Seq(ToSet(s)) /\ \A i \in 1 .. Len(s) : s[i] \in ToSet(s)
  <1>1. PICK S : s \in Seq(S)
    BY DEF IsSeq
  <1>2. Len(s) \in Nat /\ DOMAIN s = 1 .. Len(s) /\ s \in [1 .. Len(s) -> S]
    BY <1>1, LenProperties
  <1>3. \A i \in 1 .. Len(s) : s[i] \in ToSet(s)
    BY <1>2 DEF ToSet
  <1>4. s \in [1 .. Len(s) -> ToSet(s)]
    BY <1>2, <1>3
  <1> QED
    BY <1>2, <1>3, <1>4, SequenceOf

LEMMA SeqMade ==
  ASSUME NEW n \in Nat, NEW s, s = [i \in 1 .. n |-> s[i]]
  PROVE  IsSeq(s) /\ Len(s) = n
  <1> DEFINE S == {s[i] : i \in 1 .. n}
  <1>1. s \in [1 .. n -> S]
    <2>1. \A i \in 1 .. n : s[i] \in S
      OBVIOUS
    <2> HIDE DEF S
    <2> QED
      BY <2>1
  <1> HIDE DEF S
  <1>2. s \in Seq(S) /\ Len(s) = n
    BY <1>1, SequenceOf, LenProperties
  <1> QED
    BY <1>2 DEF IsSeq

LEMMA SeqInSet ==
  ASSUME NEW S, NEW s \in Seq(S)
  PROVE  IsSeq(s)
  BY DEF IsSeq

LEMMA SameSeq ==
  ASSUME NEW s, IsSeq(s), NEW t, IsSeq(t), Len(s) = Len(t),
         \A i \in 1 .. Len(s) : s[i] = t[i]
  PROVE  s = t
  <1> DEFINE S == ToSet(s) \cup ToSet(t)
  <1>1. s \in Seq(ToSet(s)) /\ t \in Seq(ToSet(t))
    BY SeqFacts
  <1>2. s \in Seq(S) /\ t \in Seq(S)
    BY <1>1
  <1> HIDE DEF S
  <1> QED
    BY <1>2, SeqEqual

LEMMA SecondElements ==
  ASSUME NEW s, IsSeq(s), NEW t, IsSeq(t)
  PROVE  \A i \in 1 .. Len(t) : (s \o t)[Len(s) + i] = t[i]
  <1> DEFINE S == ToSet(s) \cup ToSet(t)
             u == s \o t
             m == Len(s)
             n == Len(t)
  <1>1. s \in Seq(ToSet(s)) /\ t \in Seq(ToSet(t)) /\ Len(s) \in Nat /\ Len(t) \in Nat
    BY SeqFacts
  <1>2. s \in Seq(S) /\ t \in Seq(S)
    BY <1>1
  <1> HIDE DEF S
  <1>3. /\ u \in Seq(S) /\ Len(u) = Len(s) + Len(t)
        /\ \A i \in 1 .. Len(s) + Len(t) : u[i] = IF i <= Len(s) THEN s[i] ELSE t[i - Len(s)]
    BY <1>2, ConcatProperties
  <1>4. m \in Nat /\ n \in Nat /\ \A i \in 1 .. m + n : u[i] = IF i <= m THEN s[i] ELSE t[i - m]
    BY <1>1, <1>3
  <1> HIDE DEF u, m, n
  <1>5. \A i \in 1 .. n : m + i \in 1 .. m + n /\ ~(m + i <= m) /\ m + i - m = i
    BY <1>4
  <1>6. \A i \in 1 .. n : u[m + i] = t[i]
    BY <1>4, <1>5
  <1> QED
    BY <1>6 DEF u, m, n

LEMMA Joined ==
  ASSUME NEW s, IsSeq(s), NEW t, IsSeq(t)
  PROVE  /\ IsSeq(s \o t) /\ Len(s \o t) = Len(s) + Len(t)
         /\ Len(s) \in Nat /\ Len(t) \in Nat
         /\ \A i \in 1 .. Len(s) : (s \o t)[i] = s[i]
         /\ \A i \in 1 .. Len(t) : (s \o t)[Len(s) + i] = t[i]
         /\ \A i \in Len(s) + 1 .. Len(s) + Len(t) : (s \o t)[i] = t[i - Len(s)]
         /\ ToSet(s \o t) = ToSet(s) \cup ToSet(t)
  <1> DEFINE S == ToSet(s) \cup ToSet(t)
  <1>1. /\ s \in Seq(ToSet(s)) /\ t \in Seq(ToSet(t)) /\ Len(s) \in Nat /\ Len(t) \in Nat
        /\ DOMAIN s = 1 .. Len(s) /\ DOMAIN t = 1 .. Len(t)
    BY SeqFacts
  <1>2. s \in Seq(S) /\ t \in Seq(S)
    BY <1>1
  <1> DEFINE u == s \o t
  <1> HIDE DEF S
  <1>3. /\ u \in Seq(S) /\ Len(u) = Len(s) + Len(t)
        /\ \A i \in 1 .. Len(s) + Len(t) : u[i] = IF i <= Len(s) THEN s[i] ELSE t[i - Len(s)]
    BY <1>2, ConcatProperties
  <1>4. DOMAIN u = 1 .. Len(s) + Len(t)
    BY <1>3, LenProperties
  <1> DEFINE m == Len(s)
             n == Len(t)
  <1>5. /\ m \in Nat /\ n \in Nat /\ Len(u) = m + n
        /\ \A i \in 1 .. m : u[i] = s[i]
        /\ \A i \in 1 .. n : u[m + i] = t[i]
        /\ \A i \in m + 1 .. m + n : u[i] = t[i - m]
    <2> HIDE DEF u
    <2>1. \A i \in 1 .. m + n : u[i] = IF i <= m THEN s[i] ELSE t[i - m]
      BY <1>3
    <2>2. m \in Nat /\ n \in Nat
      BY <1>1
    <2> HIDE DEF m, n
    <2>3. \A i \in 1 .. m : i \in 1 .. m + n /\ i <= m
      BY <2>2
    <2>4. \A i \in 1 .. n : m + i \in 1 .. m + n /\ ~ (m + i <= m) /\ m + i - m = i
      BY <2>2
    <2>5. \A i \in m + 1 .. m + n : i \in 1 .. m + n /\ ~ (i <= m)
      BY <2>2
    <2>6. Len(u) = m + n
      BY <1>3 DEF m, n
    <2> QED
      BY <2>1, <2>2, <2>3, <2>4, <2>5, <2>6
  <1>6. ToSet(u) = ToSet(s) \cup ToSet(t)
    <2> HIDE DEF u
    <2>1. ASSUME NEW x \in ToSet(u)
          PROVE  x \in ToSet(s) \cup ToSet(t)
      BY <1>3, ElementsTyped DEF S
    <2>2. ASSUME NEW x \in ToSet(s)
          PROVE  x \in ToSet(u)
      <3>1. PICK i \in 1 .. m : x = s[i]
        BY <1>1 DEF ToSet
      <3>2. i \in 1 .. m + n /\ u[i] = x
        BY <1>5, <3>1
      <3> QED
        BY <1>4, <3>2 DEF ToSet
    <2>3. ASSUME NEW x \in ToSet(t)
          PROVE  x \in ToSet(u)
      <3>1. PICK i \in 1 .. n : x = t[i]
        BY <1>1 DEF ToSet
      <3>2. m + i \in 1 .. m + n /\ u[m + i] = x
        BY <1>5, <3>1
      <3> QED
        BY <1>4, <3>2 DEF ToSet
    <2> QED
      BY <2>1, <2>2, <2>3
  <1> QED
    BY <1>3, <1>5, <1>6, SeqInSet

LEMMA Longer ==
  ASSUME NEW s, IsSeq(s), NEW x
  PROVE  /\ IsSeq(Append(s, x)) /\ Len(Append(s, x)) = Len(s) + 1 /\ Len(s) \in Nat
         /\ \A i \in 1 .. Len(s) : Append(s, x)[i] = s[i]
         /\ Append(s, x)[Len(s) + 1] = x
         /\ ToSet(Append(s, x)) = ToSet(s) \cup {x}
  <1> DEFINE S == ToSet(s) \cup {x}
  <1>1. s \in Seq(ToSet(s)) /\ Len(s) \in Nat
    BY SeqFacts
  <1>2. s \in Seq(S) /\ x \in S
    BY <1>1
  <1> HIDE DEF S
  <1> DEFINE u == Append(s, x)
  <1>3. /\ u \in Seq(S) /\ Len(u) = Len(s) + 1
        /\ \A i \in 1 .. Len(s) : u[i] = s[i]
        /\ u[Len(s) + 1] = x /\ ToSet(u) = ToSet(s) \cup {x}
    BY <1>2, AppendedSet
  <1> HIDE DEF u
  <1>4. IsSeq(u)
    BY <1>3, SeqInSet
  <1> QED
    BY <1>1, <1>3, <1>4 DEF u

LEMMA Nothing ==
  /\ IsSeq(<<>>) /\ Len(<<>>) = 0 /\ ToSet(<<>>) = {} /\ \A S : <<>> \in Seq(S)
  /\ \A s : IsSeq(s) /\ Len(s) = 0 => s = <<>>
  <1>1. <<>> \in Seq({}) /\ Len(<<>>) = 0 /\ \A S : <<>> \in Seq(S)
    OBVIOUS
  <1>2. IsSeq(<<>>)
    BY <1>1, SeqInSet
  <1>3. ToSet(<<>>) = {}
    <2>1. DOMAIN <<>> = {}
      OBVIOUS
    <2> QED
      BY <2>1 DEF ToSet
  <1>4. ASSUME NEW s, IsSeq(s), Len(s) = 0
        PROVE  s = <<>>
    <2>1. \A i \in 1 .. Len(s) : s[i] = <<>>[i]
      BY <1>4
    <2> QED
      BY <1>1, <1>2, <1>4, <2>1, SameSeq
  <1> QED
    BY <1>1, <1>2, <1>3, <1>4

LEMMA JoinedThen ==
  ASSUME NEW s, IsSeq(s), NEW t, IsSeq(t), NEW u, IsSeq(u)
  PROVE  (s \o t) \o u = s \o (t \o u)
  <1> DEFINE S == ToSet(s) \cup ToSet(t) \cup ToSet(u)
  <1>1. s \in Seq(ToSet(s)) /\ t \in Seq(ToSet(t)) /\ u \in Seq(ToSet(u))
    BY SeqFacts
  <1>2. s \in Seq(S) /\ t \in Seq(S) /\ u \in Seq(S)
    BY <1>1
  <1> HIDE DEF S
  <1> QED
    BY <1>2, ConcatAssociative

LEMMA JoinedNothing ==
  ASSUME NEW s, IsSeq(s)
  PROVE  s \o <<>> = s /\ <<>> \o s = s
  <1>1. s \in Seq(ToSet(s))
    BY SeqFacts
  <1> QED
    BY <1>1, ConcatEmptySeq

(* A longer sequence joined is the element appended to what was joined.    *)
LEMMA JoinedLonger ==
  ASSUME NEW s, IsSeq(s), NEW t, IsSeq(t), NEW x
  PROVE  s \o Append(t, x) = Append(s \o t, x)
  <1> DEFINE S == ToSet(s) \cup ToSet(t) \cup {x}
  <1>1. s \in Seq(ToSet(s)) /\ t \in Seq(ToSet(t))
    BY SeqFacts
  <1>2. s \in Seq(S) /\ t \in Seq(S) /\ x \in S
    BY <1>1
  <1> HIDE DEF S
  <1> QED
    BY <1>2

LEMMA OneElement ==
  ASSUME NEW x
  PROVE  IsSeq(<<x>>) /\ Len(<<x>>) = 1 /\ <<x>>[1] = x /\ ToSet(<<x>>) = {x}
  <1>1. <<x>> \in Seq({x}) /\ Len(<<x>>) = 1 /\ <<x>>[1] = x
    OBVIOUS
  <1>2. IsSeq(<<x>>)
    BY <1>1, SeqInSet
  <1>3. \A i \in 1 .. 1 : i = 1
    OBVIOUS
  <1>4. DOMAIN <<x>> = 1 .. 1
    BY <1>1, <1>2, SeqFacts
  <1>5. ToSet(<<x>>) = {x}
    BY <1>1, <1>3, <1>4 DEF ToSet
  <1> QED
    BY <1>1, <1>2, <1>5

LEMMA TwoElements ==
  ASSUME NEW x, NEW y
  PROVE  IsSeq(<<x, y>>) /\ Len(<<x, y>>) = 2 /\ <<x, y>>[1] = x /\ <<x, y>>[2] = y
  <1>1. <<x, y>> \in Seq({x, y}) /\ Len(<<x, y>>) = 2 /\ <<x, y>>[1] = x /\ <<x, y>>[2] = y
    OBVIOUS
  <1> QED
    BY <1>1, SeqInSet

LEMMA PrefixElements ==
  ASSUME NEW s, IsSeq(s), NEW t, IsSeq(t)
  PROVE  IsPrefix(s, t) <=> Len(s) <= Len(t) /\ \A i \in 1 .. Len(s) : s[i] = t[i]
  <1> DEFINE m == Len(s)
             u == SubSeq(t, 1, m)
  <1>1. /\ m \in Nat /\ Len(t) \in Nat
        /\ s \in Seq(ToSet(s)) /\ \A i \in 1 .. Len(t) : t[i] \in ToSet(t)
    BY SeqFacts
  <1>2. SubSeq(s, 1, m) = s
    BY <1>1, SubSeqFull
  <1>3. ASSUME m <= Len(t)
        PROVE  IsSeq(u) /\ Len(u) = m /\ \A i \in 1 .. m : u[i] = t[i]
    <2>1. \A i \in 1 .. m : i \in 1 .. Len(t)
      BY <1>1, <1>3
    <2>2. \A i \in 1 .. m : t[i] \in ToSet(t)
      BY <1>1, <2>1
    <2>3. m \in Int /\ 1 \in Int /\ m - 1 + 1 = m /\ (m = 0 \/ 1 <= m)
      BY <1>1
    <2> HIDE DEF m
    <2>4. /\ u \in Seq(ToSet(t))
          /\ Len(u) = IF 1 <= m THEN m - 1 + 1 ELSE 0
          /\ \A i \in 1 .. m - 1 + 1 : u[i] = t[1 + i - 1]
      BY <2>2, <2>3, SubSeqProperties
    <2>5. Len(u) = m
      <3> HIDE DEF u
      <3> QED
        BY <2>3, <2>4
    <2>6. \A i \in 1 .. m : u[i] = t[i]
      <3>1. \A i \in 1 .. m : 1 + i - 1 = i
        BY <2>3
      <3> HIDE DEF u
      <3> QED
        BY <2>3, <2>4, <3>1
    <2> QED
      BY <2>4, <2>5, <2>6, SeqInSet
  <1>4. IsPrefix(s, t) <=> m <= Len(t) /\ s = u
    BY <1>2 DEF IsPrefix
  <1> HIDE DEF u, m
  <1>5. m <= Len(t) => (s = u <=> \A i \in 1 .. m : s[i] = t[i])
    <2>1. ASSUME m <= Len(t), \A i \in 1 .. m : s[i] = t[i]
          PROVE  s = u
      <3>1. IsSeq(u) /\ Len(u) = m /\ \A i \in 1 .. m : s[i] = u[i]
        BY <1>3, <2>1
      <3> QED
        BY <3>1, SameSeq DEF m
    <2> QED
      BY <1>3, <2>1
  <1> QED
    BY <1>4, <1>5 DEF m

LEMMA PrefixOfJoined ==
  ASSUME NEW s, IsSeq(s), NEW t, IsSeq(t)
  PROVE  IsPrefix(s, s \o t)
  <1>1. /\ IsSeq(s \o t) /\ Len(s) <= Len(s \o t)
        /\ \A i \in 1 .. Len(s) : s[i] = (s \o t)[i]
    BY Joined
  <1> QED
    BY <1>1, PrefixElements

LEMMA PrefixThen ==
  ASSUME NEW s, IsSeq(s), NEW t, IsSeq(t), NEW u, IsSeq(u), IsPrefix(s, t), IsPrefix(t, u)
  PROVE  IsPrefix(s, u)
  <1>1. /\ Len(s) <= Len(t) /\ \A i \in 1 .. Len(s) : s[i] = t[i]
        /\ Len(t) <= Len(u) /\ \A i \in 1 .. Len(t) : t[i] = u[i]
    BY PrefixElements
  <1>2. Len(s) \in Nat /\ Len(t) \in Nat /\ Len(u) \in Nat
    BY SeqFacts
  <1>3. Len(s) <= Len(u) /\ \A i \in 1 .. Len(s) : s[i] = u[i]
    BY <1>1, <1>2
  <1> QED
    BY <1>3, PrefixElements

LEMMA SuffixOfJoined ==
  ASSUME NEW s, IsSeq(s), NEW t, IsSeq(t)
  PROVE  IsSuffix(t, s \o t)
  <1> DEFINE u == s \o t
             m == Len(s)
             n == Len(t)
  <1>1. /\ IsSeq(u) /\ Len(u) = m + n /\ m \in Nat /\ n \in Nat
        /\ \A i \in m + 1 .. m + n : u[i] = t[i - m]
    BY Joined
  <1> HIDE DEF u, m
  <1>2. ASSUME NEW r, IsSeq(r)
        PROVE  IsSeq(Reverse(r)) /\ Len(Reverse(r)) = Len(r)
               /\ \A i \in 1 .. Len(r) : Reverse(r)[i] = r[Len(r) - i + 1]
    <2> DEFINE x == Reverse(r)
    <2>1. Len(r) \in Nat
      BY <1>2, SeqFacts
    <2>2. x = [i \in 1 .. Len(r) |-> x[i]] /\ \A i \in 1 .. Len(r) : x[i] = r[Len(r) - i + 1]
      BY DEF Reverse
    <2> HIDE DEF x
    <2>3. IsSeq(x) /\ Len(x) = Len(r)
      BY <2>1, <2>2, SeqMade
    <2> QED
      BY <2>2, <2>3 DEF x
  <1>3. /\ IsSeq(Reverse(u)) /\ Len(Reverse(u)) = m + n
        /\ \A i \in 1 .. m + n : Reverse(u)[i] = u[m + n - i + 1]
    BY <1>1, <1>2
  <1>4. /\ IsSeq(Reverse(t)) /\ Len(Reverse(t)) = n
        /\ \A i \in 1 .. n : Reverse(t)[i] = t[n - i + 1]
    BY <1>2 DEF n
  <1> HIDE DEF n
  <1>5. \A i \in 1 .. n : Reverse(t)[i] = Reverse(u)[i]
    <2> SUFFICES ASSUME NEW i \in 1 .. n
                 PROVE  Reverse(t)[i] = Reverse(u)[i]
      OBVIOUS
    <2>1. i \in 1 .. m + n /\ m + n - i + 1 \in m + 1 .. m + n /\ m + n - i + 1 - m = n - i + 1
      BY <1>1
    <2> QED
      BY <1>1, <1>3, <1>4, <2>1
  <1>6. n <= m + n
    BY <1>1
  <1>7. IsPrefix(Reverse(t), Reverse(u))
    BY <1>3, <1>4, <1>5, <1>6, PrefixElements
  <1> QED
    BY <1>7 DEF IsSuffix, u

-----------------------------------------------------------------------------
(* What the loops over sequences compute, step by step.                    *)
LEMMA WrittenLoop ==
  ASSUME NEW items, IsSeq(items)
  PROVE  \E f : /\ f[0] = <<>> /\ \A n \in 1 .. Len(items) : f[n] = Say(f[n - 1], items[n])
               /\ \A n \in 0 .. Len(items) : f[n] \in Seq(ToSet(items))
               /\ Written(items) = f[Len(items)]
  <1> DEFINE m == Len(items)
             S == Seq(ToSet(items))
             next == [p \in (1 .. m) \X S |-> Say(p[2], items[p[1]])]
             Is(f) == f = [n \in 0 .. m |-> IF n = 0 THEN <<>> ELSE Say(f[n - 1], items[n])]
  <1>1. m \in Nat /\ <<>> \in S /\ \A n \in 1 .. m : n - 1 \in 0 .. m /\ n \in 0 .. m /\ n # 0
    BY SeqFacts, Nothing
  <1>2. ASSUME NEW n \in 1 .. m, NEW x \in S
        PROVE  Say(x, items[n]) \in S
    <2>1. items[n] \in ToSet(items)
      BY SeqFacts
    <2> HIDE DEF m
    <2> QED
      BY <2>1 DEF Say
  <1>3. PICK g : Loops(g, m, S, <<>>, next)
    <2>1. Steps(next, 1 .. m, S)
      BY <1>2 DEF Steps
    <2> HIDE DEF m, S, next
    <2> QED
      BY <1>1, <2>1, LoopsExist
  <1>4. Is(g)
    <2>1. \A n \in 1 .. m : g[n] = Say(g[n - 1], items[n])
      <3> SUFFICES ASSUME NEW n \in 1 .. m
                   PROVE  g[n] = Say(g[n - 1], items[n])
        OBVIOUS
      <3>1. g[n] = next[n, g[n - 1]] /\ g[n - 1] \in S
        BY <1>1, <1>3 DEF Loops
      <3> HIDE DEF m, S
      <3> QED
        BY <3>1
    <2>2. g \in [0 .. m -> S] /\ g[0] = <<>>
      BY <1>3 DEF Loops
    <2>3. \A n \in 0 .. m : n = 0 \/ n \in 1 .. m
      BY <1>1
    <2> HIDE DEF m, S, next
    <2> QED
      BY <2>1, <2>2, <2>3
  <1>5. PICK q : Is(q) /\ Written(items) = q[m]
    <2> DEFINE q == CHOOSE f : Is(f)
    <2>1. Written(items) = q[m]
      BY DEF Written
    <2>2. Is(q)
      <3> HIDE DEF Is
      <3> QED
        BY <1>4
    <2> HIDE DEF q, Is
    <2> QED
      BY <2>1, <2>2
  <1>6. q[0] = <<>> /\ \A n \in 1 .. m : q[n] = Say(q[n - 1], items[n])
    <2> HIDE DEF m, S
    <2> QED
      BY <1>1, <1>5
  <1> DEFINE P == {n \in 0 .. m : q[n] \in S}
  <1>7. 0 .. m \subseteq P
    <2>1. 0 \in P
      <3>1. 0 \in 0 .. m /\ q[0] \in S
        <4> HIDE DEF m, S, Is
        <4> QED
          BY <1>1, <1>6
      <3> HIDE DEF m, S, Is
      <3> QED
        BY <3>1
    <2>2. ASSUME NEW n \in 1 .. m, n - 1 \in P
          PROVE  n \in P
      BY <1>1, <1>2, <1>6, <2>2
    <2> HIDE DEF P, m
    <2> QED
      BY <1>1, <2>1, <2>2, InductionUpTo
  <1> HIDE DEF Is
  <1> QED
    BY <1>5, <1>6, <1>7

ChosenBy(f, s, A) ==
    /\ f[0] = <<>> /\ \A n \in 1 .. Len(s) : f[n] = Keep(f[n - 1], s[n], A)
    /\ \A n \in 0 .. Len(s) : f[n] \in Seq(ToSet(s) \cap A)
    /\ Chosen(s, A) = f[Len(s)]

LEMMA ChosenLoop ==
  ASSUME NEW s, IsSeq(s), NEW A
  PROVE  \E f : ChosenBy(f, s, A)
  <1> DEFINE m == Len(s)
             S == Seq(ToSet(s) \cap A)
             next == [p \in (1 .. m) \X S |-> Keep(p[2], s[p[1]], A)]
             Is(f) == f = [n \in 0 .. m |-> IF n = 0 THEN <<>> ELSE Keep(f[n - 1], s[n], A)]
  <1>1. m \in Nat /\ <<>> \in S /\ \A n \in 1 .. m : n - 1 \in 0 .. m /\ n \in 0 .. m /\ n # 0
    BY SeqFacts, Nothing
  <1>2. ASSUME NEW n \in 1 .. m, NEW x \in S
        PROVE  Keep(x, s[n], A) \in S
    <2>1. s[n] \in ToSet(s)
      BY SeqFacts
    <2> HIDE DEF m
    <2> QED
      BY <2>1 DEF Keep
  <1>3. PICK g : Loops(g, m, S, <<>>, next)
    <2>1. Steps(next, 1 .. m, S)
      BY <1>2 DEF Steps
    <2> HIDE DEF m, S, next
    <2> QED
      BY <1>1, <2>1, LoopsExist
  <1>4. Is(g)
    <2>1. \A n \in 1 .. m : g[n] = Keep(g[n - 1], s[n], A)
      <3> SUFFICES ASSUME NEW n \in 1 .. m
                   PROVE  g[n] = Keep(g[n - 1], s[n], A)
        OBVIOUS
      <3>1. g[n] = next[n, g[n - 1]] /\ g[n - 1] \in S
        BY <1>1, <1>3 DEF Loops
      <3> HIDE DEF m, S
      <3> QED
        BY <3>1
    <2>2. g \in [0 .. m -> S] /\ g[0] = <<>>
      BY <1>3 DEF Loops
    <2>3. \A n \in 0 .. m : n = 0 \/ n \in 1 .. m
      BY <1>1
    <2> HIDE DEF m, S, next
    <2> QED
      BY <2>1, <2>2, <2>3
  <1>5. PICK q : Is(q) /\ Chosen(s, A) = q[m]
    <2> DEFINE q == CHOOSE f : Is(f)
    <2>1. Chosen(s, A) = q[m]
      BY DEF Chosen
    <2>2. Is(q)
      <3> HIDE DEF Is
      <3> QED
        BY <1>4
    <2> HIDE DEF q, Is
    <2> QED
      BY <2>1, <2>2
  <1>6. q[0] = <<>> /\ \A n \in 1 .. m : q[n] = Keep(q[n - 1], s[n], A)
    <2> HIDE DEF m, S
    <2> QED
      BY <1>1, <1>5
  <1> DEFINE P == {n \in 0 .. m : q[n] \in S}
  <1>7. 0 .. m \subseteq P
    <2>1. 0 \in P
      <3>1. 0 \in 0 .. m /\ q[0] \in S
        <4> HIDE DEF m, S, Is
        <4> QED
          BY <1>1, <1>6
      <3> HIDE DEF m, S, Is
      <3> QED
        BY <3>1
    <2>2. ASSUME NEW n \in 1 .. m, n - 1 \in P
          PROVE  n \in P
      BY <1>1, <1>2, <1>6, <2>2
    <2> HIDE DEF P, m
    <2> QED
      BY <1>1, <2>1, <2>2, InductionUpTo
  <1> HIDE DEF Is
  <1> QED
    BY <1>5, <1>6, <1>7 DEF ChosenBy

LEMMA DistinctLoop ==
  ASSUME NEW s, IsSeq(s)
  PROVE  \E f : /\ f[0] = <<>> /\ \A n \in 1 .. Len(s) : f[n] = With(f[n - 1], s[n])
               /\ \A n \in 0 .. Len(s) : f[n] \in Seq(ToSet(s))
               /\ Distinct(s) = f[Len(s)]
  <1> DEFINE m == Len(s)
             S == Seq(ToSet(s))
             next == [p \in (1 .. m) \X S |-> With(p[2], s[p[1]])]
             Is(f) == f = [n \in 0 .. m |-> IF n = 0 THEN <<>> ELSE With(f[n - 1], s[n])]
  <1>1. m \in Nat /\ <<>> \in S /\ \A n \in 1 .. m : n - 1 \in 0 .. m /\ n \in 0 .. m /\ n # 0
    BY SeqFacts, Nothing
  <1>2. ASSUME NEW n \in 1 .. m, NEW x \in S
        PROVE  With(x, s[n]) \in S
    <2>1. s[n] \in ToSet(s)
      BY SeqFacts
    <2> HIDE DEF m
    <2> QED
      BY <2>1 DEF With
  <1>3. PICK g : Loops(g, m, S, <<>>, next)
    <2>1. Steps(next, 1 .. m, S)
      BY <1>2 DEF Steps
    <2> HIDE DEF m, S, next
    <2> QED
      BY <1>1, <2>1, LoopsExist
  <1>4. Is(g)
    <2>1. \A n \in 1 .. m : g[n] = With(g[n - 1], s[n])
      <3> SUFFICES ASSUME NEW n \in 1 .. m
                   PROVE  g[n] = With(g[n - 1], s[n])
        OBVIOUS
      <3>1. g[n] = next[n, g[n - 1]] /\ g[n - 1] \in S
        BY <1>1, <1>3 DEF Loops
      <3> HIDE DEF m, S
      <3> QED
        BY <3>1
    <2>2. g \in [0 .. m -> S] /\ g[0] = <<>>
      BY <1>3 DEF Loops
    <2>3. \A n \in 0 .. m : n = 0 \/ n \in 1 .. m
      BY <1>1
    <2> HIDE DEF m, S, next
    <2> QED
      BY <2>1, <2>2, <2>3
  <1>5. PICK q : Is(q) /\ Distinct(s) = q[m]
    <2> DEFINE q == CHOOSE f : Is(f)
    <2>1. Distinct(s) = q[m]
      BY DEF Distinct
    <2>2. Is(q)
      <3> HIDE DEF Is
      <3> QED
        BY <1>4
    <2> HIDE DEF q, Is
    <2> QED
      BY <2>1, <2>2
  <1>6. q[0] = <<>> /\ \A n \in 1 .. m : q[n] = With(q[n - 1], s[n])
    <2> HIDE DEF m, S
    <2> QED
      BY <1>1, <1>5
  <1> DEFINE P == {n \in 0 .. m : q[n] \in S}
  <1>7. 0 .. m \subseteq P
    <2>1. 0 \in P
      <3>1. 0 \in 0 .. m /\ q[0] \in S
        <4> HIDE DEF m, S, Is
        <4> QED
          BY <1>1, <1>6
      <3> HIDE DEF m, S, Is
      <3> QED
        BY <3>1
    <2>2. ASSUME NEW n \in 1 .. m, n - 1 \in P
          PROVE  n \in P
      BY <1>1, <1>2, <1>6, <2>2
    <2> HIDE DEF P, m
    <2> QED
      BY <1>1, <2>1, <2>2, InductionUpTo
  <1> HIDE DEF Is
  <1> QED
    BY <1>5, <1>6, <1>7

LEMMA GrowingLoop ==
  ASSUME NEW m \in Nat, NEW w, \A n \in 0 .. m : IsSeq(w[n]),
         \A n \in 1 .. m : IsPrefix(w[n - 1], w[n])
  PROVE  \A n \in 0 .. m : IsPrefix(w[n], w[m])
  <1> DEFINE P == {k \in 0 .. m : \A n \in 0 .. k : IsPrefix(w[n], w[k])}
  <1>1. \A k \in 0 .. m : IsPrefix(w[k], w[k])
    <2> SUFFICES ASSUME NEW k \in 0 .. m
                 PROVE  IsPrefix(w[k], w[k])
      OBVIOUS
    <2>1. Len(w[k]) \in Nat
      BY SeqFacts
    <2> QED
      BY <2>1, PrefixElements
  <1>2. 0 \in P
    <2>1. 0 \in 0 .. m /\ \A n \in 0 .. 0 : n = 0
      OBVIOUS
    <2> QED
      BY <1>1, <2>1
  <1>3. ASSUME NEW k \in 1 .. m, k - 1 \in P
        PROVE  k \in P
    <2> SUFFICES ASSUME NEW n \in 0 .. k
                 PROVE  IsPrefix(w[n], w[k])
      OBVIOUS
    <2>1. k \in 0 .. m /\ k - 1 \in 0 .. m /\ n \in 0 .. m /\ (n = k \/ n \in 0 .. k - 1)
      OBVIOUS
    <2>2. CASE n = k
      BY <1>1, <2>1, <2>2
    <2>3. CASE n \in 0 .. k - 1
      <3>1. IsPrefix(w[n], w[k - 1]) /\ IsPrefix(w[k - 1], w[k])
        BY <1>3, <2>3
      <3>2. IsSeq(w[n]) /\ IsSeq(w[k - 1]) /\ IsSeq(w[k])
        BY <2>1
      <3> QED
        BY <3>1, <3>2, PrefixThen
    <2> QED
      BY <2>1, <2>2, <2>3
  <1>4. 0 .. m \subseteq P
    <2> HIDE DEF P
    <2> QED
      BY <1>2, <1>3, InductionUpTo
  <1>5. m \in 0 .. m
    OBVIOUS
  <1> QED
    BY <1>4, <1>5

LEMMA PrefixOfLonger ==
  ASSUME NEW s, IsSeq(s), NEW x
  PROVE  IsPrefix(s, Append(s, x)) /\ IsPrefix(s, s)
  <1>1. /\ IsSeq(Append(s, x)) /\ Len(s) <= Len(Append(s, x)) /\ Len(s) <= Len(s)
        /\ \A i \in 1 .. Len(s) : s[i] = Append(s, x)[i]
    BY Longer
  <1> QED
    BY <1>1, PrefixElements

LEMMA WrittenTyped ==
  ASSUME NEW items, IsSeq(items)
  PROVE  Written(items) \in Seq(ToSet(items)) /\ IsSeq(Written(items))
  <1>1. PICK w : /\ \A n \in 0 .. Len(items) : w[n] \in Seq(ToSet(items))
                 /\ Written(items) = w[Len(items)]
    BY WrittenLoop
  <1>2. Len(items) \in 0 .. Len(items)
    BY SeqFacts
  <1> QED
    BY <1>1, <1>2, SeqInSet

LEMMA ChosenTyped ==
  ASSUME NEW s, IsSeq(s), NEW A
  PROVE  Chosen(s, A) \in Seq(ToSet(s) \cap A) /\ IsSeq(Chosen(s, A))
  <1>1. PICK w : ChosenBy(w, s, A)
    BY ChosenLoop
  <1>2. Len(s) \in 0 .. Len(s)
    BY SeqFacts
  <1> QED
    BY <1>1, <1>2, SeqInSet DEF ChosenBy

LEMMA DistinctTyped ==
  ASSUME NEW s, IsSeq(s)
  PROVE  Distinct(s) \in Seq(ToSet(s)) /\ IsSeq(Distinct(s))
  <1>1. PICK w : /\ \A n \in 0 .. Len(s) : w[n] \in Seq(ToSet(s))
                 /\ Distinct(s) = w[Len(s)]
    BY DistinctLoop
  <1>2. Len(s) \in 0 .. Len(s)
    BY SeqFacts
  <1> QED
    BY <1>1, <1>2, SeqInSet

LEMMA SayJoined ==
  ASSUME NEW s, IsSeq(s), NEW t, IsSeq(t), NEW x
  PROVE  s \o Say(t, x) = Say(s \o t, x)
  BY JoinedLonger DEF Say

LEMMA WrittenJoined ==
  ASSUME NEW s, IsSeq(s), NEW t, IsSeq(t)
  PROVE  Written(s \o t) = Written(s) \o Written(t)
  <1> DEFINE u == s \o t
             m == Len(s)
             k == Len(t)
  <1>1. /\ IsSeq(u) /\ Len(u) = m + k /\ m \in Nat /\ k \in Nat
        /\ \A i \in 1 .. m : u[i] = s[i]
        /\ \A i \in 1 .. k : u[m + i] = t[i]
    <2>1. IsSeq(u) /\ Len(u) = m + k
      BY Joined
    <2>2. m \in Nat /\ k \in Nat
      BY Joined
    <2>3. \A i \in 1 .. m : u[i] = s[i]
      BY Joined
    <2>4. \A i \in 1 .. k : u[m + i] = t[i]
      BY Joined
    <2> QED
      BY <2>1, <2>2, <2>3, <2>4
  <1> HIDE DEF u, m, k
  <1>2. PICK w : /\ w[0] = <<>> /\ \A n \in 1 .. m + k : w[n] = Say(w[n - 1], u[n])
                 /\ Written(u) = w[m + k]
    <2>1. PICK w : /\ w[0] = <<>> /\ \A n \in 1 .. Len(u) : w[n] = Say(w[n - 1], u[n])
                   /\ \A n \in 0 .. Len(u) : w[n] \in Seq(ToSet(u))
                   /\ Written(u) = w[Len(u)]
      <3>1. IsSeq(u)
        BY <1>1
      <3> QED
        BY <3>1, WrittenLoop
    <2> QED
      BY <1>1, <2>1
  <1>3. PICK a : /\ a[0] = <<>> /\ \A n \in 1 .. m : a[n] = Say(a[n - 1], s[n])
                 /\ \A n \in 0 .. m : a[n] \in Seq(ToSet(s))
                 /\ Written(s) = a[m]
    BY WrittenLoop DEF m
  <1>4. PICK b : /\ b[0] = <<>> /\ \A n \in 1 .. k : b[n] = Say(b[n - 1], t[n])
                 /\ \A n \in 0 .. k : b[n] \in Seq(ToSet(t))
                 /\ Written(t) = b[k]
    BY WrittenLoop DEF k
  <1>5. \A n \in 0 .. m : w[n] = a[n]
    <2> DEFINE P == {n \in 0 .. m : w[n] = a[n]}
    <2>1. 0 \in P
      BY <1>1, <1>2, <1>3
    <2>2. ASSUME NEW n \in 1 .. m, n - 1 \in P
          PROVE  n \in P
      <3>1. n \in 1 .. m + k /\ n \in 0 .. m
        BY <1>1
      <3>2. w[n - 1] = a[n - 1] /\ u[n] = s[n]
        BY <1>1, <2>2
      <3>3. w[n] = Say(w[n - 1], u[n]) /\ a[n] = Say(a[n - 1], s[n])
        BY <1>2, <1>3, <3>1
      <3> QED
        BY <3>1, <3>2, <3>3
    <2> HIDE DEF P
    <2>3. 0 .. m \subseteq P
      BY <1>1, <2>1, <2>2, InductionUpTo
    <2> QED
      BY <2>3 DEF P
  <1>6. IsSeq(a[m]) /\ \A n \in 0 .. k : IsSeq(b[n])
    <2>1. m \in 0 .. m
      BY <1>1
    <2> QED
      BY <1>3, <1>4, <2>1, SeqInSet
  <1>7. \A n \in 0 .. k : w[m + n] = a[m] \o b[n]
    <2> DEFINE P == {n \in 0 .. k : w[m + n] = a[m] \o b[n]}
    <2>1. 0 \in P
      <3>1. m + 0 = m /\ m \in 0 .. m /\ 0 \in 0 .. k
        BY <1>1
      <3>2. w[m] = a[m] /\ a[m] \o <<>> = a[m]
        BY <1>5, <1>6, <3>1, JoinedNothing
      <3> QED
        BY <1>4, <3>1, <3>2
    <2>2. ASSUME NEW n \in 1 .. k, n - 1 \in P
          PROVE  n \in P
      <3>1. m + n \in 1 .. m + k /\ m + n - 1 = m + (n - 1) /\ n - 1 \in 0 .. k /\ n \in 0 .. k
        BY <1>1
      <3>2. w[m + n] = Say(w[m + n - 1], u[m + n]) /\ u[m + n] = t[n]
        BY <1>1, <1>2, <3>1
      <3>3. w[m + n - 1] = a[m] \o b[n - 1]
        BY <2>2, <3>1
      <3>4. b[n] = Say(b[n - 1], t[n])
        BY <1>4
      <3>5. a[m] \o Say(b[n - 1], t[n]) = Say(a[m] \o b[n - 1], t[n])
        <4>1. IsSeq(a[m]) /\ IsSeq(b[n - 1])
          BY <1>6, <3>1
        <4> DEFINE x == a[m]
                   y == b[n - 1]
                   z == t[n]
        <4>2. IsSeq(x) /\ IsSeq(y)
          BY <4>1
        <4> HIDE DEF x, y, z
        <4>3. x \o Say(y, z) = Say(x \o y, z)
          BY <4>2, SayJoined
        <4> QED
          BY <4>3 DEF x, y, z
      <3> QED
        BY <3>1, <3>2, <3>3, <3>4, <3>5
    <2> HIDE DEF P
    <2>3. 0 .. k \subseteq P
      BY <1>1, <2>1, <2>2, InductionUpTo
    <2> QED
      BY <2>3 DEF P
  <1>8. k \in 0 .. k
    BY <1>1
  <1> QED
    BY <1>2, <1>3, <1>4, <1>7, <1>8 DEF u

(* A sequence of sequences flattened.                                      *)
LEMMA FlattenLoop ==
  ASSUME NEW ss, IsSeq(ss), \A i \in 1 .. Len(ss) : IsSeq(ss[i])
  PROVE  \E f : /\ f[0] = <<>> /\ \A n \in 1 .. Len(ss) : f[n] = f[n - 1] \o ss[n]
                /\ \A n \in 0 .. Len(ss) : IsSeq(f[n])
                /\ FlattenSeq(ss) = f[Len(ss)]
  <1> DEFINE m == Len(ss)
             S == Seq(UNION {ToSet(ss[i]) : i \in 1 .. m})
             next == [p \in (1 .. m) \X S |-> p[2] \o ss[p[1]]]
             Is(g) == g = [i \in 1 .. m |-> IF i = 1 THEN ss[i] ELSE g[i - 1] \o ss[i]]
  <1>1. m \in Nat /\ <<>> \in S /\ \A n \in 1 .. m : n - 1 \in 0 .. m /\ n \in 0 .. m /\ n # 0
    BY SeqFacts, Nothing
  <1>2. ASSUME NEW n \in 1 .. m, NEW x \in S
        PROVE  x \o ss[n] \in S
    <2>1. ss[n] \in Seq(ToSet(ss[n]))
      BY SeqFacts
    <2>2. ss[n] \in S
      BY <2>1
    <2> QED
      BY <2>2, ConcatProperties
  <1>3. PICK f : Loops(f, m, S, <<>>, next)
    <2>1. Steps(next, 1 .. m, S)
      BY <1>2 DEF Steps
    <2> HIDE DEF m, S, next
    <2> QED
      BY <1>1, <2>1, LoopsExist
  <1>4. /\ f[0] = <<>> /\ \A n \in 1 .. m : f[n] = f[n - 1] \o ss[n]
        /\ \A n \in 0 .. m : IsSeq(f[n])
    <2>1. ASSUME NEW n \in 1 .. m
          PROVE  f[n] = f[n - 1] \o ss[n]
      <3>1. f[n] = next[n, f[n - 1]] /\ f[n - 1] \in S
        BY <1>1, <1>3 DEF Loops
      <3> HIDE DEF m, S
      <3> QED
        BY <3>1
    <2>2. f \in [0 .. m -> S] /\ f[0] = <<>>
      BY <1>3 DEF Loops
    <2>3. \A n \in 0 .. m : IsSeq(f[n])
      BY <2>2, SeqInSet
    <2> QED
      BY <2>1, <2>2, <2>3
  <1> HIDE DEF S, next
  <1>5. CASE m = 0
    <2>1. ss = <<>> /\ FlattenSeq(ss) = ss
      BY <1>5, Nothing DEF FlattenSeq
    <2> QED
      BY <1>4, <1>5, <2>1
  <1>6. CASE m # 0
    <2> DEFINE g == [i \in 1 .. m |-> f[i]]
    <2>1. Is(g)
      <3>1. \A i \in 1 .. m : f[i] = IF i = 1 THEN ss[i] ELSE g[i - 1] \o ss[i]
        <4> SUFFICES ASSUME NEW i \in 1 .. m
                     PROVE  f[i] = IF i = 1 THEN ss[i] ELSE g[i - 1] \o ss[i]
          OBVIOUS
        <4>1. f[i] = f[i - 1] \o ss[i] /\ IsSeq(ss[i])
          BY <1>4
        <4>2. CASE i = 1
          <5>1. i - 1 = 0 /\ <<>> \o ss[i] = ss[i]
            BY <4>1, <4>2, JoinedNothing
          <5> QED
            BY <1>4, <4>1, <4>2, <5>1
        <4>3. CASE i # 1
          <5>1. i - 1 \in 1 .. m
            BY <1>1, <4>3
          <5> HIDE DEF m
          <5> QED
            BY <4>1, <4>3, <5>1
        <4> QED
          BY <4>2, <4>3
      <3> HIDE DEF m
      <3> QED
        BY <3>1
    <2>2. PICK q : Is(q) /\ FlattenSeq(ss) = q[m]
      <3> DEFINE q == CHOOSE h : Is(h)
      <3>1. FlattenSeq(ss) = q[m]
        BY <1>6 DEF FlattenSeq
      <3>2. Is(q)
        <4> HIDE DEF Is, g
        <4> QED
          BY <2>1
      <3> HIDE DEF q, Is
      <3> QED
        BY <3>1, <3>2
    <2>3. \A i \in 1 .. m : q[i] = IF i = 1 THEN ss[i] ELSE q[i - 1] \o ss[i]
      <3> HIDE DEF m
      <3> QED
        BY <2>2
    <2> HIDE DEF Is, g
    <2> DEFINE P == {n \in 0 .. m : n # 0 => q[n] = f[n]}
    <2>4. 0 \in P
      BY <1>1
    <2>5. ASSUME NEW n \in 1 .. m, n - 1 \in P
          PROVE  n \in P
      <3>1. f[n] = f[n - 1] \o ss[n] /\ IsSeq(ss[n]) /\ n \in 0 .. m
        BY <1>1, <1>4
      <3>2. CASE n = 1
        <4>1. n - 1 = 0 /\ <<>> \o ss[n] = ss[n]
          BY <3>1, <3>2, JoinedNothing
        <4> QED
          BY <1>4, <2>3, <3>1, <3>2, <4>1
      <3>3. CASE n # 1
        <4>1. n - 1 # 0 /\ q[n - 1] = f[n - 1]
          BY <2>5, <3>3
        <4> QED
          BY <2>3, <3>1, <3>3, <4>1
      <3> QED
        BY <3>2, <3>3
    <2>6. 0 .. m \subseteq P
      <3> HIDE DEF P, m
      <3> QED
        BY <1>1, <2>4, <2>5, InductionUpTo
    <2>7. m \in 0 .. m
      BY <1>1
    <2>8. q[m] = f[m]
      <3> HIDE DEF m
      <3> QED
        BY <1>6, <2>6, <2>7
    <2> QED
      BY <1>4, <2>2, <2>8
  <1> QED
    BY <1>5, <1>6

LEMMA Flattened ==
  ASSUME NEW ss, IsSeq(ss), \A i \in 1 .. Len(ss) : IsSeq(ss[i])
  PROVE  IsSeq(FlattenSeq(ss))
  <1>1. Len(ss) \in 0 .. Len(ss)
    BY SeqFacts
  <1> QED
    BY <1>1, FlattenLoop

-----------------------------------------------------------------------------
(* What a verifier hears: the items, with what it received in the place of *)
(* those that were written.                                                *)
Heads(items) == ToSet(v_log) \cup ToSet(received) \cup ToSet(items)
HeardType(items) ==
    [log : Seq(Heads(items)), at : 0 .. Len(received),
     taken : Seq(ToSet(taken) \cup (Heads(items) \X Heads(items))), short : BOOLEAN]

Listening == /\ IsSeq(v_log) /\ IsSeq(received) /\ IsSeq(taken)
             /\ position \in 0 .. Len(received)
Unheard == [log |-> v_log, at |-> position, taken |-> taken, short |-> FALSE]

HearsAs(t, x, u) ==
    /\ t.short => u = t
    /\ ~ t.short /\ IsChallenge(x) =>
          /\ u.log = Append(t.log, x) /\ u.at = t.at /\ u.taken = t.taken /\ u.short = FALSE
    /\ ~ t.short /\ ~ IsChallenge(x) /\ t.at = Len(received) =>
          /\ u.log = t.log /\ u.at = t.at /\ u.taken = t.taken /\ u.short = TRUE
    /\ ~ t.short /\ ~ IsChallenge(x) /\ t.at # Len(received) =>
          /\ u.log = Append(t.log, received[t.at + 1]) /\ u.at = t.at + 1
          /\ u.taken = Append(t.taken, <<x, received[t.at + 1]>>) /\ u.short = FALSE
          /\ t.at + 1 \in 1 .. Len(received)

LEMMA Hears ==
  ASSUME Listening, NEW items, IsSeq(items), NEW x \in ToSet(items), NEW t \in HeardType(items),
         NEW u, u = Hear(t, x)
  PROVE  u \in HeardType(items) /\ HearsAs(t, x, u)
  <1> DEFINE U == Heads(items)
             T == ToSet(taken) \cup (U \X U)
             y == received[t.at + 1]
  <1>1. /\ t.log \in Seq(U) /\ t.at \in 0 .. Len(received) /\ t.taken \in Seq(T) /\ t.short \in BOOLEAN
        /\ t = [log |-> t.log, at |-> t.at, taken |-> t.taken, short |-> t.short]
    BY DEF HeardType
  <1>2. Len(received) \in Nat /\ \A i \in 1 .. Len(received) : received[i] \in ToSet(received)
    BY SeqFacts DEF Listening
  <1>3. x \in U /\ ToSet(received) \subseteq U /\ HeardType(items) = [log : Seq(U), at : 0 .. Len(received), taken : Seq(T), short : BOOLEAN]
    BY DEF Heads, HeardType
  <1> HIDE DEF U
  <1>4. CASE t.short
    <2>1. u = t
      BY <1>4 DEF Hear
    <2> QED
      BY <1>4, <2>1 DEF HearsAs
  <1>5. CASE ~ t.short /\ IsChallenge(x)
    <2>1. u = [t EXCEPT !.log = Append(@, x)]
      BY <1>5 DEF Hear
    <2>2. u = [log |-> Append(t.log, x), at |-> t.at, taken |-> t.taken, short |-> FALSE]
      BY <1>1, <1>5, <2>1
    <2>3. Append(t.log, x) \in Seq(U)
      <3>1. t.log \in Seq(U) /\ x \in U
        BY <1>1, <1>3
      <3> QED
        BY <3>1, AppendProperties
    <2>4. u \in HeardType(items)
      BY <1>1, <1>3, <2>2, <2>3
    <2> QED
      BY <1>5, <2>2, <2>4 DEF HearsAs
  <1>6. CASE ~ t.short /\ ~ IsChallenge(x) /\ t.at = Len(received)
    <2>1. u = [t EXCEPT !.short = TRUE]
      BY <1>6 DEF Hear
    <2>2. u = [log |-> t.log, at |-> t.at, taken |-> t.taken, short |-> TRUE]
      BY <1>1, <2>1
    <2>3. u \in HeardType(items)
      BY <1>1, <1>3, <2>2
    <2> QED
      BY <1>6, <2>2, <2>3 DEF HearsAs
  <1>7. CASE ~ t.short /\ ~ IsChallenge(x) /\ t.at # Len(received)
    <2>1. u = [t EXCEPT !.log = Append(@, y), !.at = @ + 1, !.taken = Append(@, <<x, y>>)]
      BY <1>7 DEF Hear
    <2> DEFINE v == <<x, y>>
    <2>2. t.at + 1 \in 1 .. Len(received) /\ t.at + 1 \in 0 .. Len(received)
      BY <1>1, <1>2, <1>7
    <2>3. y \in U /\ v \in T
      BY <1>2, <1>3, <2>2
    <2> HIDE DEF y, v
    <2>4. u = [log |-> Append(t.log, y), at |-> t.at + 1, taken |-> Append(t.taken, v), short |-> FALSE]
      BY <1>1, <1>7, <2>1 DEF v
    <2> HIDE DEF T
    <2>5. Append(t.log, y) \in Seq(U) /\ Append(t.taken, v) \in Seq(T)
      BY <1>1, <2>3
    <2>6. u \in HeardType(items)
      BY <1>1, <1>3, <2>2, <2>4, <2>5
    <2> QED
      BY <1>7, <2>2, <2>4, <2>6 DEF y, v, HearsAs
  <1> QED
    BY <1>1, <1>4, <1>5, <1>6, <1>7

LEMMA HeardLoop ==
  ASSUME Listening, NEW items, IsSeq(items)
  PROVE  \E f : /\ f[0] = Unheard /\ \A n \in 1 .. Len(items) : f[n] = Hear(f[n - 1], items[n])
               /\ \A n \in 0 .. Len(items) : f[n] \in HeardType(items)
               /\ Heard(items) = f[Len(items)]
  <1> DEFINE m == Len(items)
             S == HeardType(items)
             next == [p \in (1 .. m) \X S |-> Hear(p[2], items[p[1]])]
             Is(f) == f = [n \in 0 .. m |-> IF n = 0 THEN Unheard ELSE Hear(f[n - 1], items[n])]
  <1>1. m \in Nat /\ Unheard \in S /\ \A n \in 1 .. m : n - 1 \in 0 .. m /\ n \in 0 .. m /\ n # 0
    <2>1. v_log \in Seq(Heads(items))
      <3>1. v_log \in Seq(ToSet(v_log))
        BY SeqFacts DEF Listening
      <3> QED
        BY <3>1 DEF Heads
    <2>2. taken \in Seq(ToSet(taken) \cup (Heads(items) \X Heads(items)))
      <3>1. taken \in Seq(ToSet(taken))
        BY SeqFacts DEF Listening
      <3> QED
        BY <3>1
    <2>3. Unheard \in S
      BY <2>1, <2>2 DEF HeardType, Unheard, Listening
    <2>4. Len(items) \in Nat
      BY SeqFacts
    <2> QED
      BY <2>3, <2>4
  <1>2. ASSUME NEW n \in 1 .. m, NEW x \in S
        PROVE  Hear(x, items[n]) \in S
    <2>1. items[n] \in ToSet(items)
      BY SeqFacts
    <2> HIDE DEF m
    <2> QED
      BY <2>1, Hears
  <1>3. PICK g : Loops(g, m, S, Unheard, next)
    <2>1. Steps(next, 1 .. m, S)
      BY <1>2 DEF Steps
    <2> HIDE DEF m, S, next
    <2> QED
      BY <1>1, <2>1, LoopsExist
  <1>4. Is(g)
    <2>1. \A n \in 1 .. m : g[n] = Hear(g[n - 1], items[n])
      <3> SUFFICES ASSUME NEW n \in 1 .. m
                   PROVE  g[n] = Hear(g[n - 1], items[n])
        OBVIOUS
      <3>1. g[n] = next[n, g[n - 1]] /\ g[n - 1] \in S
        BY <1>1, <1>3 DEF Loops
      <3> HIDE DEF m, S
      <3> QED
        BY <3>1
    <2>2. g \in [0 .. m -> S] /\ g[0] = Unheard
      BY <1>3 DEF Loops
    <2>3. \A n \in 0 .. m : n = 0 \/ n \in 1 .. m
      BY <1>1
    <2> HIDE DEF m, S, next
    <2> QED
      BY <2>1, <2>2, <2>3
  <1>5. PICK q : Is(q) /\ Heard(items) = q[m]
    <2> DEFINE q == CHOOSE f : Is(f)
    <2>1. Heard(items) = q[m]
      BY DEF Heard, Unheard
    <2>2. Is(q)
      <3> HIDE DEF Is
      <3> QED
        BY <1>4
    <2> HIDE DEF q, Is
    <2> QED
      BY <2>1, <2>2
  <1>6. q[0] = Unheard /\ \A n \in 1 .. m : q[n] = Hear(q[n - 1], items[n])
    <2> HIDE DEF m, S
    <2> QED
      BY <1>1, <1>5
  <1> DEFINE P == {n \in 0 .. m : q[n] \in S}
  <1>7. 0 .. m \subseteq P
    <2>1. 0 \in P
      <3>1. 0 \in 0 .. m /\ q[0] \in S
        <4> HIDE DEF m, S, Is
        <4> QED
          BY <1>1, <1>6
      <3> HIDE DEF m, S, Is
      <3> QED
        BY <3>1
    <2>2. ASSUME NEW n \in 1 .. m, n - 1 \in P
          PROVE  n \in P
      BY <1>1, <1>2, <1>6, <2>2
    <2> HIDE DEF P, m
    <2> QED
      BY <1>1, <2>1, <2>2, InductionUpTo
  <1> HIDE DEF Is
  <1> QED
    BY <1>5, <1>6, <1>7

WrittenBy(w, items) ==
    /\ w[0] = <<>> /\ \A n \in 1 .. Len(items) : w[n] = Say(w[n - 1], items[n])
    /\ \A n \in 0 .. Len(items) : IsSeq(w[n]) /\ Len(w[n]) \in Nat
    /\ \A n \in 0 .. Len(items) : IsPrefix(w[n], w[Len(items)])
    /\ Written(items) = w[Len(items)]

HeardBy(h, items) ==
    /\ h[0] = Unheard /\ \A n \in 1 .. Len(items) : h[n] = Hear(h[n - 1], items[n])
    /\ \A n \in 0 .. Len(items) : h[n] \in HeardType(items)
    /\ Heard(items) = h[Len(items)]

LEMMA WrittenGrows ==
  ASSUME NEW items, IsSeq(items)
  PROVE  \E w : WrittenBy(w, items)
  <1>1. PICK w : /\ w[0] = <<>> /\ \A n \in 1 .. Len(items) : w[n] = Say(w[n - 1], items[n])
                 /\ \A n \in 0 .. Len(items) : w[n] \in Seq(ToSet(items))
                 /\ Written(items) = w[Len(items)]
    BY WrittenLoop
  <1>2. \A n \in 0 .. Len(items) : IsSeq(w[n])
    BY <1>1, SeqInSet
  <1>3. \A n \in 0 .. Len(items) : Len(w[n]) \in Nat
    BY <1>2, SeqFacts
  <1>4. ASSUME NEW n \in 1 .. Len(items)
        PROVE  IsPrefix(w[n - 1], w[n])
    <2>1. n - 1 \in 0 .. Len(items) /\ w[n] = Say(w[n - 1], items[n])
      BY <1>1, SeqFacts
    <2>2. IsSeq(w[n - 1])
      BY <1>2, <2>1
    <2>3. IsPrefix(w[n - 1], Append(w[n - 1], items[n])) /\ IsPrefix(w[n - 1], w[n - 1])
      BY <2>2, PrefixOfLonger
    <2> QED
      BY <2>1, <2>3 DEF Say
  <1>5. Len(items) \in Nat
    BY SeqFacts
  <1>6. \A n \in 0 .. Len(items) : IsPrefix(w[n], w[Len(items)])
    <2> DEFINE m == Len(items)
    <2>1. m \in Nat /\ (\A n \in 0 .. m : IsSeq(w[n])) /\ \A n \in 1 .. m : IsPrefix(w[n - 1], w[n])
      BY <1>2, <1>4, <1>5
    <2> HIDE DEF m
    <2>2. \A n \in 0 .. m : IsPrefix(w[n], w[m])
      BY <2>1, GrowingLoop
    <2> QED
      BY <2>2 DEF m
  <1>7. WrittenBy(w, items)
    BY <1>1, <1>2, <1>3, <1>6 DEF WrittenBy
  <1> QED
    BY <1>7

LEMMA HeardGrows ==
  ASSUME Listening, NEW items, IsSeq(items)
  PROVE  \E h : HeardBy(h, items)
  <1>1. PICK h : /\ h[0] = Unheard /\ \A n \in 1 .. Len(items) : h[n] = Hear(h[n - 1], items[n])
                 /\ \A n \in 0 .. Len(items) : h[n] \in HeardType(items)
                 /\ Heard(items) = h[Len(items)]
    BY HeardLoop
  <1>2. HeardBy(h, items)
    BY <1>1 DEF HeardBy
  <1> QED
    BY <1>2

(* However what is received answers the items, the verifier is short of    *)
(* one exactly when the proof is shorter than what the items take.         *)
Counted(t, w) ==
    /\ t.short <=> position + Len(w) > Len(received)
    /\ ~ t.short => t.at = position + Len(w)
    /\ t.at >= position
    /\ Len(t.taken) = Len(taken) + (t.at - position)
    /\ Len(t.log) >= Len(v_log) + (t.at - position)

LEMMA HearsOne ==
  ASSUME Listening, NEW items, IsSeq(items), NEW x \in ToSet(items), NEW t \in HeardType(items),
         NEW w, IsSeq(w), Counted(t, w)
  PROVE  Counted(Hear(t, x), Say(w, x))
  <1> DEFINE u == Hear(t, x)
             v == Say(w, x)
             y == received[t.at + 1]
             p == position
             r == Len(received)
  <1>1. /\ u \in HeardType(items) /\ t.at \in 0 .. r /\ t.short \in BOOLEAN
        /\ IsSeq(t.log) /\ IsSeq(t.taken)
    BY Hears, SeqInSet DEF HeardType
  <1>2. /\ t.short => u = t
        /\ ~ t.short /\ IsChallenge(x) =>
              /\ u.log = Append(t.log, x) /\ u.at = t.at /\ u.taken = t.taken /\ u.short = FALSE
        /\ ~ t.short /\ ~ IsChallenge(x) /\ t.at = r =>
              /\ u.log = t.log /\ u.at = t.at /\ u.taken = t.taken /\ u.short = TRUE
        /\ ~ t.short /\ ~ IsChallenge(x) /\ t.at # r =>
              /\ u.log = Append(t.log, y) /\ u.at = t.at + 1
              /\ u.taken = Append(t.taken, <<x, y>>) /\ u.short = FALSE
              /\ t.at + 1 \in 1 .. r
    <2>1. HearsAs(t, x, u)
      BY Hears
    <2> HIDE DEF u
    <2> QED
      BY <2>1 DEF HearsAs
  <1>3. /\ Len(Append(t.log, x)) = Len(t.log) + 1 /\ Len(Append(t.log, y)) = Len(t.log) + 1
        /\ Len(Append(t.taken, <<x, y>>)) = Len(t.taken) + 1
    <2>1. IsSeq(t.log) /\ IsSeq(t.taken)
      BY <1>1
    <2> DEFINE a == t.log
               b == t.taken
    <2>2. IsSeq(a) /\ IsSeq(b)
      BY <2>1
    <2> HIDE DEF a, b
    <2> QED
      BY <2>2, Longer DEF a, b
  <1>4. /\ Len(w) \in Nat /\ Len(t.log) \in Nat /\ Len(t.taken) \in Nat /\ r \in Nat
        /\ p \in 0 .. r /\ Len(v_log) \in Nat /\ Len(taken) \in Nat
    BY <1>1, SeqFacts DEF Listening
  <1>5. v = IF IsChallenge(x) THEN w ELSE Append(w, x)
    BY DEF Say
  <1>6. Len(Append(w, x)) = Len(w) + 1
    BY Longer
  <1>7. Counted(t, w)
    OBVIOUS
  <1> HIDE DEF u, v, y, r
  <1>8. CASE t.short
    <2>1. Len(v) >= Len(w) /\ Len(v) \in Nat
      BY <1>4, <1>5, <1>6
    <2>2. p + Len(w) > r
      BY <1>7, <1>8 DEF Counted, r
    <2>3. p + Len(v) > r
      BY <1>4, <2>1, <2>2
    <2>4. u = t
      BY <1>2, <1>8
    <2> QED
      BY <1>7, <1>8, <2>3, <2>4 DEF Counted, r, u, v
  <1>9. CASE ~ t.short /\ IsChallenge(x)
    <2>1. v = w /\ u.at = t.at /\ u.taken = t.taken /\ u.short = FALSE /\ Len(u.log) = Len(t.log) + 1
      BY <1>2, <1>3, <1>5, <1>9
    <2>2. /\ ~ (p + Len(w) > r) /\ t.at = p + Len(w) /\ t.at >= p
          /\ Len(t.taken) = Len(taken) + (t.at - p) /\ Len(t.log) >= Len(v_log) + (t.at - p)
      BY <1>7, <1>9 DEF Counted, r
    <2>3. Len(u.log) >= Len(v_log) + (u.at - p)
      BY <1>1, <1>4, <2>1, <2>2
    <2> QED
      BY <2>1, <2>2, <2>3 DEF Counted, r, u, v
  <1>10. CASE ~ t.short /\ ~ IsChallenge(x) /\ t.at = r
    <2>1. /\ Len(v) = Len(w) + 1 /\ u.at = t.at /\ u.taken = t.taken /\ u.short = TRUE
          /\ u.log = t.log
      BY <1>2, <1>5, <1>6, <1>10
    <2>2. /\ t.at = p + Len(w) /\ t.at >= p
          /\ Len(t.taken) = Len(taken) + (t.at - p) /\ Len(t.log) >= Len(v_log) + (t.at - p)
      BY <1>7, <1>10 DEF Counted
    <2>3. p + Len(v) > r
      BY <1>4, <1>10, <2>1, <2>2
    <2> QED
      BY <2>1, <2>2, <2>3 DEF Counted, r, u, v
  <1>11. CASE ~ t.short /\ ~ IsChallenge(x) /\ t.at # r
    <2>1. /\ Len(v) = Len(w) + 1 /\ u.at = t.at + 1 /\ u.short = FALSE
          /\ Len(u.taken) = Len(t.taken) + 1 /\ Len(u.log) = Len(t.log) + 1
      BY <1>2, <1>3, <1>5, <1>6, <1>11
    <2>2. /\ t.at = p + Len(w) /\ t.at >= p
          /\ Len(t.taken) = Len(taken) + (t.at - p) /\ Len(t.log) >= Len(v_log) + (t.at - p)
      BY <1>7, <1>11 DEF Counted
    <2>3. /\ ~ (p + Len(v) > r) /\ u.at = p + Len(v) /\ u.at >= p
          /\ Len(u.taken) = Len(taken) + (u.at - p) /\ Len(u.log) >= Len(v_log) + (u.at - p)
      <3>1. /\ t.at \in 0 .. r /\ t.at # r /\ r \in Nat /\ p \in 0 .. r /\ Len(w) \in Nat
            /\ Len(t.taken) \in Nat /\ Len(t.log) \in Nat /\ Len(taken) \in Nat /\ Len(v_log) \in Nat
        BY <1>1, <1>4, <1>11
      <3>2. ~ (p + Len(v) > r) /\ u.at = p + Len(v) /\ u.at >= p
        BY SMTT(30), <2>1, <2>2, <3>1
      <3>3. Len(u.taken) = Len(taken) + (u.at - p)
        BY <2>1, <2>2, <3>1
      <3>4. Len(u.log) >= Len(v_log) + (u.at - p)
        BY <2>1, <2>2, <3>1
      <3> QED
        BY <3>2, <3>3, <3>4
    <2> QED
      BY <2>1, <2>3 DEF Counted, r, u, v
  <1> QED
    BY <1>1, <1>8, <1>9, <1>10, <1>11

LEMMA HeardCounted ==
  ASSUME Listening, NEW items, IsSeq(items), NEW w, WrittenBy(w, items), NEW h, HeardBy(h, items)
  PROVE  \A n \in 0 .. Len(items) : Counted(h[n], w[n])
  <1> DEFINE m == Len(items)
             P == {n \in 0 .. m : Counted(h[n], w[n])}
  <1>1. /\ m \in Nat /\ \A n \in 1 .. m : items[n] \in ToSet(items)
        /\ \A n \in 1 .. m : n - 1 \in 0 .. m /\ n \in 0 .. m
    BY SeqFacts
  <1>2. /\ w[0] = <<>> /\ \A n \in 1 .. m : w[n] = Say(w[n - 1], items[n])
        /\ \A n \in 0 .. m : IsSeq(w[n])
    BY DEF WrittenBy
  <1>3. /\ h[0] = Unheard /\ \A n \in 1 .. m : h[n] = Hear(h[n - 1], items[n])
        /\ \A n \in 0 .. m : h[n] \in HeardType(items)
    BY DEF HeardBy
  <1> HIDE DEF m
  <1>4. 0 \in P
    <2>1. Len(v_log) \in Nat /\ Len(taken) \in Nat /\ Len(received) \in Nat /\ position \in 0 .. Len(received)
      BY SeqFacts DEF Listening
    <2>2. /\ Unheard.log = v_log /\ Unheard.at = position /\ Unheard.taken = taken
          /\ Unheard.short = FALSE
      BY DEF Unheard
    <2>3. Counted(Unheard, <<>>)
      <3>1. Len(<<>>) = 0
        OBVIOUS
      <3>2. /\ ~ (position + 0 > Len(received)) /\ position = position + 0
            /\ Len(taken) = Len(taken) + (position - position)
            /\ Len(v_log) >= Len(v_log) + (position - position)
        BY <2>1
      <3> QED
        BY <2>1, <2>2, <3>1, <3>2 DEF Counted
    <2> QED
      BY <1>1, <1>2, <1>3, <2>3
  <1>5. ASSUME NEW n \in 1 .. m, n - 1 \in P
        PROVE  n \in P
    <2>1. /\ IsSeq(w[n - 1]) /\ h[n - 1] \in HeardType(items) /\ Counted(h[n - 1], w[n - 1])
          /\ items[n] \in ToSet(items) /\ n \in 0 .. m
      BY <1>1, <1>2, <1>3, <1>5
    <2>2. Counted(Hear(h[n - 1], items[n]), Say(w[n - 1], items[n]))
      BY <2>1, HearsOne
    <2> QED
      BY <1>2, <1>3, <2>1, <2>2
  <1>6. 0 .. m \subseteq P
    <2> HIDE DEF P
    <2> QED
      BY <1>1, <1>4, <1>5, InductionUpTo
  <1> QED
    BY <1>6 DEF m

(* If what is received next is what the items say, it is heard as they say *)
(* it.                                                                     *)
AsTaken(s) == \A i \in 1 .. Len(s) : s[i][1] = s[i][2]
Answered(items) ==
    \A i \in 1 .. Len(Written(items)) :
        position + i \in 1 .. Len(received) /\ received[position + i] = Written(items)[i]
Matched(t, n, items) ==
    /\ ~ t.short /\ AsTaken(t.taken)
    /\ Len(t.log) = Len(v_log) + n
    /\ \A i \in 1 .. Len(v_log) : t.log[i] = v_log[i]
    /\ \A i \in 1 .. n : t.log[Len(v_log) + i] = items[i]

LEMMA MatchedOne ==
  ASSUME NEW t, NEW u, NEW n \in Nat, NEW items, NEW x, x = items[n + 1],
         IsSeq(t.log), IsSeq(t.taken), Len(v_log) \in Nat, Matched(t, n, items),
         u.log = Append(t.log, x), ~ u.short,
         u.taken = t.taken \/ u.taken = Append(t.taken, <<x, x>>)
  PROVE  Matched(u, n + 1, items)
  <1> DEFINE k == Len(v_log)
             log == t.log
             a == t.taken
             b == u.taken
  <1>1. /\ AsTaken(a) /\ Len(log) = k + n /\ k \in Nat
        /\ \A i \in 1 .. k : log[i] = v_log[i]
        /\ \A i \in 1 .. n : log[k + i] = items[i]
    BY DEF Matched
  <1>2. /\ Len(Append(log, x)) = k + n + 1 /\ Append(log, x)[k + n + 1] = x
        /\ \A i \in 1 .. k + n : Append(log, x)[i] = log[i]
    <2>1. IsSeq(log)
      OBVIOUS
    <2> HIDE DEF log, k
    <2> QED
      BY <1>1, <2>1, Longer
  <1>3. AsTaken(b)
    <2>1. CASE b = a
      BY <1>1, <2>1
    <2>2. CASE b = Append(a, <<x, x>>)
      <3>1. IsSeq(a)
        OBVIOUS
      <3> HIDE DEF a, b
      <3>2. /\ Len(b) = Len(a) + 1 /\ Len(a) \in Nat /\ b[Len(a) + 1] = <<x, x>>
            /\ \A i \in 1 .. Len(a) : b[i] = a[i]
        BY <2>2, <3>1, Longer
      <3>3. \A i \in 1 .. Len(b) : i \in 1 .. Len(a) \/ i = Len(a) + 1
        BY <3>2
      <3>4. \A i \in 1 .. Len(a) : b[i][1] = b[i][2]
        BY <1>1, <3>2 DEF AsTaken
      <3>5. b[Len(a) + 1][1] = b[Len(a) + 1][2]
        BY <3>2
      <3> QED
        BY <3>3, <3>4, <3>5 DEF AsTaken
    <2> QED
      BY <2>1, <2>2
  <1> HIDE DEF log, k, a, b
  <1> DEFINE w == Append(log, x)
  <1>4. w = u.log
    BY DEF log
  <1> HIDE DEF w
  <1>5. /\ Len(w) = k + (n + 1) /\ \A i \in 1 .. k : w[i] = v_log[i]
        /\ \A i \in 1 .. n + 1 : w[k + i] = items[i]
    <2>1. Len(w) = k + (n + 1)
      BY <1>1, <1>2 DEF w
    <2>2. \A i \in 1 .. k : w[i] = v_log[i]
      <3>1. \A i \in 1 .. k : i \in 1 .. k + n
        BY <1>1
      <3> QED
        BY <1>1, <1>2, <3>1 DEF w
    <2>3. ASSUME NEW i \in 1 .. n + 1
          PROVE  w[k + i] = items[i]
      <3>1. CASE i = n + 1
        <4>1. k + i = k + n + 1
          BY <1>1, <3>1
        <4> QED
          BY <1>2, <3>1, <4>1 DEF w
      <3>2. CASE i # n + 1
        <4>1. i \in 1 .. n /\ k + i \in 1 .. k + n
          BY <1>1, <3>2
        <4> QED
          BY <1>1, <1>2, <4>1 DEF w
      <3> QED
        BY <3>1, <3>2
    <2> QED
      BY <2>1, <2>2, <2>3
  <1> QED
    BY <1>3, <1>4, <1>5 DEF Matched, b, k

LEMMA HeardMatched ==
  ASSUME Listening, AsTaken(taken), NEW items, IsSeq(items), Answered(items),
         NEW w, WrittenBy(w, items), NEW h, HeardBy(h, items)
  PROVE  \A n \in 0 .. Len(items) : Matched(h[n], n, items)
  <1> DEFINE m == Len(items)
             P == {n \in 0 .. m : Matched(h[n], n, items)}
  <1>1. /\ m \in Nat /\ \A n \in 1 .. m : items[n] \in ToSet(items)
        /\ \A n \in 1 .. m : n - 1 \in 0 .. m /\ n \in 0 .. m
    BY SeqFacts
  <1>2. /\ \A n \in 1 .. m : w[n] = Say(w[n - 1], items[n])
        /\ \A n \in 0 .. m : IsSeq(w[n]) /\ Len(w[n]) \in Nat
        /\ \A n \in 0 .. m : IsPrefix(w[n], w[m])
        /\ Written(items) = w[m]
    BY DEF WrittenBy
  <1>3. /\ h[0] = Unheard /\ \A n \in 1 .. m : h[n] = Hear(h[n - 1], items[n])
        /\ \A n \in 0 .. m : h[n] \in HeardType(items)
        /\ \A n \in 0 .. m : Counted(h[n], w[n])
    BY HeardCounted DEF HeardBy
  <1>4. Len(v_log) \in Nat /\ Len(received) \in Nat /\ position \in 0 .. Len(received)
    BY SeqFacts DEF Listening
  <1> HIDE DEF m
  <1>5. 0 \in P
    <2>1. /\ Unheard.log = v_log /\ Unheard.taken = taken /\ Unheard.short = FALSE
      BY DEF Unheard
    <2>2. Len(v_log) = Len(v_log) + 0 /\ 1 .. 0 = {} /\ 0 \in 0 .. m
      BY <1>1, <1>4
    <2>3. Matched(Unheard, 0, items)
      BY <2>1, <2>2 DEF Matched
    <2> QED
      BY <1>3, <2>2, <2>3
  <1>6. ASSUME NEW n \in 1 .. m, n - 1 \in P
        PROVE  n \in P
    <2> DEFINE t == h[n - 1]
               u == h[n]
               x == items[n]
               a == w[n - 1]
               b == w[n]
    <2>1. /\ n \in 0 .. m /\ n - 1 \in 0 .. m /\ n - 1 \in Nat /\ n - 1 + 1 = n
          /\ x \in ToSet(items)
      BY <1>1
    <2>2. /\ u = Hear(t, x) /\ t \in HeardType(items) /\ Counted(t, a)
          /\ b = Say(a, x) /\ IsSeq(a) /\ Len(a) \in Nat /\ IsSeq(b) /\ IsPrefix(b, w[m])
          /\ Matched(t, n - 1, items)
      BY <1>2, <1>3, <1>6, <2>1
    <2>3. IsSeq(w[m]) /\ Len(b) <= Len(w[m]) /\ \A i \in 1 .. Len(b) : b[i] = w[m][i]
      <3>1. m \in 0 .. m
        BY <1>1
      <3>2. IsSeq(w[m])
        BY <1>2, <3>1
      <3> QED
        BY <2>2, <3>2, PrefixElements
    <2> HIDE DEF t, u, x, a, b
    <2>4. HearsAs(t, x, u)
      BY <2>1, <2>2, Hears
    <2>5. /\ ~ t.short /\ IsSeq(t.log) /\ IsSeq(t.taken) /\ t.at = position + Len(a)
      BY <2>2, SeqInSet DEF Matched, HeardType, Counted
    <2>6. CASE IsChallenge(x)
      <3>1. u.log = Append(t.log, x) /\ u.taken = t.taken /\ ~ u.short
        BY <2>4, <2>5, <2>6 DEF HearsAs
      <3>2. Matched(u, n - 1 + 1, items)
        <4>1. x = items[n - 1 + 1]
          BY <2>1 DEF x
        <4> QED
          BY <1>4, <2>1, <2>2, <2>5, <3>1, <4>1, MatchedOne
      <3> QED
        BY <2>1, <3>2 DEF u
    <2>7. CASE ~ IsChallenge(x)
      <3>1. b = Append(a, x)
        BY <2>2, <2>7 DEF Say
      <3>2. Len(b) = Len(a) + 1 /\ b[Len(a) + 1] = x
        BY <2>2, <3>1, Longer
      <3>3. Len(a) + 1 \in 1 .. Len(w[m]) /\ w[m][Len(a) + 1] = x
        <4>1. Len(w[m]) \in Nat
          BY <2>3, SeqFacts
        <4>2. Len(a) + 1 \in 1 .. Len(b)
          BY <2>2, <3>2
        <4> QED
          BY <2>2, <2>3, <3>2, <4>1, <4>2
      <3>4. position + (Len(a) + 1) \in 1 .. Len(received) /\ received[position + (Len(a) + 1)] = x
        BY <1>2, <3>3 DEF Answered
      <3>5. t.at # Len(received) /\ received[t.at + 1] = x
        <4>1. t.at + 1 = position + (Len(a) + 1)
          BY <1>4, <2>2, <2>5
        <4>2. t.at + 1 \in 1 .. Len(received)
          BY <3>4, <4>1
        <4>3. t.at \in Int
          BY <1>4, <2>2, <2>5
        <4> QED
          BY <1>4, <3>4, <4>1, <4>2, <4>3
      <3>6. u.log = Append(t.log, x) /\ u.taken = Append(t.taken, <<x, x>>) /\ ~ u.short
        BY <2>4, <2>5, <2>7, <3>5 DEF HearsAs
      <3>7. Matched(u, n - 1 + 1, items)
        <4>1. x = items[n - 1 + 1]
          BY <2>1 DEF x
        <4> QED
          BY <1>4, <2>1, <2>2, <2>5, <3>6, <4>1, MatchedOne
      <3> QED
        BY <2>1, <3>7 DEF u
    <2> QED
      BY <2>6, <2>7
  <1>7. 0 .. m \subseteq P
    <2> HIDE DEF P
    <2> QED
      BY <1>1, <1>5, <1>6, InductionUpTo
  <1> QED
    BY <1>7 DEF m

LEMMA ReadFacts ==
  ASSUME Listening, NEW items, IsSeq(items), NEW t, t = Heard(items)
  PROVE  /\ IsSeq(t.log) /\ IsSeq(t.taken) /\ t.at \in 0 .. Len(received) /\ t.short \in BOOLEAN
         /\ Counted(t, Written(items))
  <1>1. PICK w : WrittenBy(w, items)
    BY WrittenGrows
  <1>2. PICK h : HeardBy(h, items)
    BY HeardGrows
  <1> DEFINE m == Len(items)
  <1>3. m \in 0 .. m
    BY SeqFacts
  <1>4. Counted(h[m], w[m])
    BY <1>1, <1>2, <1>3, HeardCounted
  <1>5. t = h[m] /\ Written(items) = w[m]
    BY <1>1, <1>2 DEF WrittenBy, HeardBy
  <1>6. t \in HeardType(items)
    BY <1>2, <1>3, <1>5 DEF HeardBy
  <1>7. /\ IsSeq(t.log) /\ IsSeq(t.taken) /\ t.at \in 0 .. Len(received) /\ t.short \in BOOLEAN
    BY <1>6, SeqInSet DEF HeardType
  <1> QED
    BY <1>4, <1>5, <1>7

LEMMA ReadAnswered ==
  ASSUME Listening, AsTaken(taken), NEW items, IsSeq(items), Answered(items),
         NEW t, t = Heard(items)
  PROVE  ~ t.short /\ t.log = v_log \o items /\ AsTaken(t.taken)
  <1>1. PICK w : WrittenBy(w, items)
    BY WrittenGrows
  <1>2. PICK h : HeardBy(h, items)
    BY HeardGrows
  <1> DEFINE m == Len(items)
             k == Len(v_log)
             log == t.log
             s == v_log \o items
  <1>3. m \in 0 .. m /\ m \in Nat
    BY SeqFacts
  <1>4. Matched(h[m], m, items)
    BY <1>1, <1>2, <1>3, HeardMatched
  <1>5. t = h[m]
    BY <1>2 DEF HeardBy
  <1>6. /\ ~ t.short /\ AsTaken(t.taken) /\ Len(log) = k + m
        /\ \A i \in 1 .. k : log[i] = v_log[i]
        /\ \A i \in 1 .. m : log[k + i] = items[i]
    BY <1>4, <1>5 DEF Matched
  <1>7. IsSeq(log)
    BY ReadFacts
  <1>8. IsSeq(v_log)
    BY DEF Listening
  <1>9. /\ IsSeq(s) /\ Len(s) = k + m /\ k \in Nat
        /\ \A i \in 1 .. k : s[i] = v_log[i]
        /\ \A i \in 1 .. m : s[k + i] = items[i]
    <2>1. /\ IsSeq(s) /\ Len(s) = k + m /\ k \in Nat
          /\ \A i \in 1 .. k : s[i] = v_log[i]
      BY <1>8, Joined
    <2>2. \A i \in 1 .. m : s[k + i] = items[i]
      BY <1>8, SecondElements
    <2> QED
      BY <2>1, <2>2
  <1> HIDE DEF log, s, k, m
  <1>10. ASSUME NEW i \in 1 .. k + m
         PROVE  log[i] = s[i]
    <2>1. CASE i <= k
      BY <1>3, <1>6, <1>9, <2>1
    <2>2. CASE ~ (i <= k)
      <3>1. i - k \in 1 .. m /\ k + (i - k) = i
        BY <1>3, <1>9, <2>2
      <3> QED
        BY <1>6, <1>9, <3>1
    <2> QED
      BY <2>1, <2>2
  <1>11. log = s
    BY <1>6, <1>7, <1>9, <1>10, SameSeq
  <1> QED
    BY <1>6, <1>11 DEF log, s

-----------------------------------------------------------------------------
(* What is absorbed of the instances: a code of its own for each column.   *)
ColumnCount(c) == Len(c.commitments) + Len(c.instances)
Code(c, i) == IF i <= Len(c.commitments) THEN <<c.commitments[i]>>
              ELSE AbsorbColumn(c.instances[i - Len(c.commitments)])
Codes(c) == [i \in 1 .. ColumnCount(c) |-> Code(c, i)]
ClaimItems(c) == c.commitments \o FlattenSeq([i \in DOMAIN c.instances |-> AbsorbColumn(c.instances[i])])

IsClaim(c) ==
    /\ IsSeq(c.commitments) /\ \A i \in 1 .. Len(c.commitments) : c.commitments[i][1] = "Commitment"
    /\ c.instances \in Seq(Seq(Nat))
    /\ c = [commitments |-> c.commitments, instances |-> c.instances]

LEMMA ColumnAbsorbed ==
  ASSUME NEW values \in Seq(Nat)
  PROVE  /\ IsSeq(AbsorbColumn(values)) /\ Len(AbsorbColumn(values)) = Len(values) + 1
         /\ Len(values) \in Nat
         /\ AbsorbColumn(values)[1] = F(Len(values))
         /\ \A i \in 1 .. Len(values) : AbsorbColumn(values)[1 + i] = F(values[i])
  <1> DEFINE a == <<F(Len(values))>>
             b == [i \in DOMAIN values |-> F(values[i])]
  <1>1. DOMAIN values = 1 .. Len(values) /\ Len(values) \in Nat
    BY LenProperties
  <1>2. b = [i \in 1 .. Len(values) |-> b[i]]
    BY <1>1
  <1>3. \A i \in 1 .. Len(values) : b[i] = F(values[i])
    BY <1>1
  <1>4. IsSeq(b) /\ Len(b) = Len(values)
    <2> HIDE DEF b
    <2> QED
      BY <1>1, <1>2, SeqMade
  <1>5. IsSeq(a) /\ Len(a) = 1 /\ a[1] = F(Len(values))
    BY OneElement
  <1>6. AbsorbColumn(values) = a \o b
    BY DEF AbsorbColumn
  <1> HIDE DEF a, b
  <1>7. /\ IsSeq(a \o b) /\ Len(a \o b) = 1 + Len(b)
        /\ (a \o b)[1] = a[1]
        /\ \A i \in 1 .. Len(b) : (a \o b)[1 + i] = b[i]
    <2>1. IsSeq(a)
      BY <1>5
    <2>2. IsSeq(b)
      BY <1>4
    <2>3. /\ IsSeq(a \o b) /\ Len(a \o b) = Len(a) + Len(b)
          /\ \A i \in 1 .. Len(a) : (a \o b)[i] = a[i]
          /\ \A i \in 1 .. Len(b) : (a \o b)[Len(a) + i] = b[i]
      <3>1. /\ IsSeq(a \o b) /\ Len(a \o b) = Len(a) + Len(b)
            /\ \A i \in 1 .. Len(a) : (a \o b)[i] = a[i]
        BY <2>1, <2>2, Joined
      <3>2. \A i \in 1 .. Len(b) : (a \o b)[Len(a) + i] = b[i]
        BY <2>1, <2>2, SecondElements
      <3> QED
        BY <3>1, <3>2
    <2>4. 1 \in 1 .. Len(a)
      BY <1>5
    <2> QED
      BY <1>5, <2>3, <2>4
  <1>8. 1 + Len(values) = Len(values) + 1
    BY <1>1
  <1> QED
    BY <1>1, <1>3, <1>4, <1>5, <1>6, <1>7, <1>8

LEMMA CodesTyped ==
  ASSUME NEW c, IsClaim(c)
  PROVE  /\ ColumnCount(c) \in Nat /\ Len(c.commitments) \in Nat /\ Len(c.instances) \in Nat
         /\ IsSeq(Codes(c)) /\ Len(Codes(c)) = ColumnCount(c)
         /\ \A i \in 1 .. ColumnCount(c) : IsSeq(Code(c, i)) /\ Codes(c)[i] = Code(c, i)
         /\ \A i \in 1 .. ColumnCount(c) :
               ~ (i <= Len(c.commitments)) => c.instances[i - Len(c.commitments)] \in Seq(Nat)
  <1> DEFINE k == Len(c.commitments)
             m == Len(c.instances)
             s == Codes(c)
  <1>1. k \in Nat /\ m \in Nat /\ ColumnCount(c) = k + m
    BY SeqFacts, LenProperties DEF IsClaim, ColumnCount
  <1>2. \A i \in 1 .. m : c.instances[i] \in Seq(Nat)
    BY ElementOfSeq DEF IsClaim
  <1>3. \A i \in 1 .. k + m : ~ (i <= k) => c.instances[i - k] \in Seq(Nat)
    <2> HIDE DEF k, m
    <2> SUFFICES ASSUME NEW i \in 1 .. k + m, ~ (i <= k)
                 PROVE  c.instances[i - k] \in Seq(Nat)
      OBVIOUS
    <2>1. i - k \in 1 .. m
      BY <1>1
    <2> QED
      BY <1>2, <2>1
  <1>4. \A i \in 1 .. k + m : IsSeq(Code(c, i))
    <2> SUFFICES ASSUME NEW i \in 1 .. k + m
                 PROVE  IsSeq(Code(c, i))
      OBVIOUS
    <2>1. CASE i <= k
      BY <2>1, OneElement DEF Code
    <2>2. CASE ~ (i <= k)
      BY <1>3, <2>2, ColumnAbsorbed DEF Code
    <2> QED
      BY <2>1, <2>2
  <1>5. s = [i \in 1 .. k + m |-> s[i]] /\ \A i \in 1 .. k + m : s[i] = Code(c, i)
    BY <1>1 DEF Codes
  <1>6. k + m \in Nat
    <2> HIDE DEF k, m
    <2> QED
      BY <1>1
  <1> DEFINE n == k + m
  <1>7. s = [i \in 1 .. n |-> s[i]] /\ n \in Nat
    BY <1>5, <1>6
  <1> HIDE DEF k, m, s, n
  <1>8. IsSeq(s) /\ Len(s) = n
    BY <1>7, SeqMade
  <1> QED
    BY <1>1, <1>3, <1>4, <1>5, <1>6, <1>8 DEF k, m, s, n

LEMMA ClaimCodes ==
  ASSUME NEW c, IsClaim(c)
  PROVE  ClaimItems(c) = FlattenSeq(Codes(c)) /\ IsSeq(ClaimItems(c))
  <1> DEFINE k == Len(c.commitments)
             m == Len(c.instances)
             ss == Codes(c)
             tt == [i \in DOMAIN c.instances |-> AbsorbColumn(c.instances[i])]
             a == c.commitments
  <1>1. /\ k \in Nat /\ m \in Nat /\ k + m \in Nat /\ IsSeq(ss) /\ Len(ss) = k + m
        /\ \A i \in 1 .. k + m : IsSeq(ss[i]) /\ ss[i] = Code(c, i)
    BY CodesTyped DEF ColumnCount
  <1>2. DOMAIN c.instances = 1 .. m /\ \A i \in 1 .. m : c.instances[i] \in Seq(Nat)
    BY LenProperties, ElementOfSeq DEF IsClaim
  <1>3. /\ IsSeq(tt) /\ Len(tt) = m
        /\ \A i \in 1 .. m : tt[i] = AbsorbColumn(c.instances[i]) /\ IsSeq(tt[i])
    <2>1. tt = [i \in 1 .. m |-> tt[i]] /\ \A i \in 1 .. m : tt[i] = AbsorbColumn(c.instances[i])
      BY <1>2
    <2>2. \A i \in 1 .. m : IsSeq(AbsorbColumn(c.instances[i]))
      BY <1>2, ColumnAbsorbed
    <2> HIDE DEF tt, m
    <2>3. IsSeq(tt) /\ Len(tt) = m
      BY <1>1, <2>1, SeqMade
    <2> QED
      BY <2>1, <2>2, <2>3
  <1>4. IsSeq(a) /\ k = Len(a)
    BY DEF IsClaim
  <1>14. /\ \A i \in 1 .. k + m : i <= k => ss[i] = <<a[i]>>
         /\ \A i \in 1 .. k + m : ~ (i <= k) => ss[i] = AbsorbColumn(c.instances[i - k])
    BY <1>1 DEF Code
  <1>15. /\ \A i \in 1 .. m : tt[i] = AbsorbColumn(c.instances[i])
    BY <1>2
  <1> HIDE DEF k, m, ss, tt, a
  <1>5. \A i \in 1 .. k : ss[i] = <<a[i]>>
    <2>1. \A i \in 1 .. k : i \in 1 .. k + m /\ i <= k
      BY <1>1
    <2> QED
      BY <1>14, <2>1
  <1>6. \A i \in 1 .. m : ss[k + i] = tt[i]
    <2>1. \A i \in 1 .. m : k + i \in 1 .. k + m /\ ~ (k + i <= k) /\ k + i - k = i
      BY <1>1
    <2> SUFFICES ASSUME NEW i \in 1 .. m
                 PROVE  ss[k + i] = tt[i]
      OBVIOUS
    <2> DEFINE j == k + i
    <2>2. j \in 1 .. k + m /\ ~ (j <= k) /\ j - k = i
      BY <1>1
    <2>3. tt[i] = AbsorbColumn(c.instances[i])
      BY <1>15
    <2> HIDE DEF j
    <2>4. ss[j] = AbsorbColumn(c.instances[j - k])
      BY <1>14, <2>2
    <2>5. ss[j] = tt[i]
      BY <2>2, <2>3, <2>4
    <2> QED
      BY <2>5 DEF j
  <1>7. PICK f : /\ f[0] = <<>> /\ \A n \in 1 .. Len(ss) : f[n] = f[n - 1] \o ss[n]
                 /\ \A n \in 0 .. Len(ss) : IsSeq(f[n])
                 /\ FlattenSeq(ss) = f[Len(ss)]
    <2>1. IsSeq(ss) /\ \A i \in 1 .. Len(ss) : IsSeq(ss[i])
      BY <1>1
    <2> QED
      BY <2>1, FlattenLoop
  <1>8. PICK g : /\ g[0] = <<>> /\ \A n \in 1 .. Len(tt) : g[n] = g[n - 1] \o tt[n]
                 /\ \A n \in 0 .. Len(tt) : IsSeq(g[n])
                 /\ FlattenSeq(tt) = g[Len(tt)]
    <2>1. IsSeq(tt) /\ \A i \in 1 .. Len(tt) : IsSeq(tt[i])
      BY <1>3
    <2> QED
      BY <2>1, FlattenLoop
  <1>9. \A n \in 0 .. k : Len(f[n]) = n /\ \A i \in 1 .. n : f[n][i] = a[i]
    <2> DEFINE P == {n \in 0 .. k : Len(f[n]) = n /\ \A i \in 1 .. n : f[n][i] = a[i]}
    <2>1. 0 \in P
      <3>1. Len(<<>>) = 0 /\ 1 .. 0 = {} /\ 0 \in 0 .. k
        BY <1>1
      <3> QED
        BY <1>7, <3>1
    <2>2. ASSUME NEW n \in 1 .. k, n - 1 \in P
          PROVE  n \in P
      <3> DEFINE x == f[n - 1]
                 y == f[n]
                 z == <<a[n]>>
      <3>1. /\ n \in 1 .. k + m /\ n - 1 \in 0 .. k + m /\ n \in 0 .. k /\ n - 1 + 1 = n
            /\ \A i \in 1 .. n : i \in 1 .. n - 1 \/ i = n
        BY <1>1
      <3>2. y = x \o z /\ IsSeq(x) /\ Len(x) = n - 1 /\ \A i \in 1 .. n - 1 : x[i] = a[i]
        BY <1>1, <1>5, <1>7, <2>2, <3>1
      <3>3. IsSeq(z) /\ Len(z) = 1 /\ z[1] = a[n]
        BY OneElement
      <3> HIDE DEF x, y, z, P
      <3>4. /\ Len(y) = n - 1 + 1 /\ \A i \in 1 .. n - 1 : y[i] = x[i]
            /\ y[n - 1 + 1] = z[1]
        <4>1. IsSeq(x)
          BY <3>2
        <4>2. IsSeq(z)
          BY <3>3
        <4>3. /\ Len(x \o z) = Len(x) + Len(z)
              /\ \A i \in 1 .. Len(x) : (x \o z)[i] = x[i]
              /\ \A i \in 1 .. Len(z) : (x \o z)[Len(x) + i] = z[i]
          <5>1. /\ Len(x \o z) = Len(x) + Len(z)
                /\ \A i \in 1 .. Len(x) : (x \o z)[i] = x[i]
            BY <4>1, <4>2, Joined
          <5>2. \A i \in 1 .. Len(z) : (x \o z)[Len(x) + i] = z[i]
            BY <4>1, <4>2, SecondElements
          <5> QED
            BY <5>1, <5>2
        <4>4. 1 \in 1 .. Len(z)
          BY <3>3
        <4> QED
          BY <3>2, <3>3, <4>3, <4>4
      <3>5. y[n] = a[n]
        <4>2. y[n - 1 + 1] = z[1]
          BY <3>4
        <4> QED
          BY <3>1, <3>3, <4>2
      <3>6. Len(y) = n /\ \A i \in 1 .. n : y[i] = a[i]
        BY <3>1, <3>2, <3>4, <3>5
      <3> QED
        BY <3>1, <3>6 DEF P, y
    <2> HIDE DEF P
    <2>3. 0 .. k \subseteq P
      BY <1>1, <2>1, <2>2, InductionUpTo
    <2> QED
      BY <2>3 DEF P
  <1>10. f[k] = a
    <2>1. k \in 0 .. k /\ k \in 0 .. Len(ss)
      BY <1>1
    <2>2. IsSeq(f[k]) /\ Len(f[k]) = Len(a) /\ \A i \in 1 .. Len(f[k]) : f[k][i] = a[i]
      BY <1>4, <1>7, <1>9, <2>1
    <2> QED
      BY <1>4, <2>2, SameSeq
  <1>11. \A n \in 0 .. m : f[k + n] = a \o g[n]
    <2> DEFINE P == {n \in 0 .. m : f[k + n] = a \o g[n]}
    <2>1. 0 \in P
      <3>1. k + 0 = k /\ a \o <<>> = a /\ 0 \in 0 .. m
        BY <1>1, <1>4, JoinedNothing
      <3> QED
        BY <1>8, <1>10, <3>1
    <2>2. ASSUME NEW n \in 1 .. m, n - 1 \in P
          PROVE  n \in P
      <3>1. /\ k + n \in 1 .. Len(ss) /\ k + n - 1 = k + (n - 1) /\ n \in 1 .. Len(tt)
            /\ n - 1 \in 0 .. Len(tt) /\ n \in 0 .. m
        BY <1>1, <1>3
      <3>2. \A i \in 1 .. Len(ss) : f[i] = f[i - 1] \o ss[i]
        BY <1>7
      <3> DEFINE i == k + n
                 h == k + (n - 1)
      <3>7. i \in 1 .. Len(ss) /\ i - 1 = h
        <4> HIDE DEF P
        <4> QED
          BY <1>1
      <3>8. ss[i] = tt[n]
        BY <1>6
      <3>9. f[h] = a \o g[n - 1]
        BY <2>2
      <3> HIDE DEF i, h
      <3>10. f[i] = f[i - 1] \o ss[i]
        BY <3>2, <3>7
      <3>3. f[i] = (a \o g[n - 1]) \o tt[n]
        BY <3>7, <3>8, <3>9, <3>10
      <3>4. g[n] = g[n - 1] \o tt[n] /\ IsSeq(g[n - 1]) /\ IsSeq(tt[n])
        BY <1>3, <1>8, <3>1
      <3> DEFINE x == g[n - 1]
                 y == tt[n]
      <3>5. IsSeq(x) /\ IsSeq(y)
        BY <3>4
      <3> HIDE DEF x, y, P
      <3>6. (a \o x) \o y = a \o (x \o y)
        BY SMTT(30), <1>4, <3>5, JoinedThen
      <3>11. f[i] = a \o g[n]
        BY <3>3, <3>4, <3>6 DEF x, y
      <3> QED
        BY <3>1, <3>11 DEF P, i
    <2> HIDE DEF P
    <2>3. 0 .. m \subseteq P
      BY <1>1, <2>1, <2>2, InductionUpTo
    <2> QED
      BY <2>3 DEF P
  <1>12. FlattenSeq(ss) = a \o FlattenSeq(tt) /\ IsSeq(FlattenSeq(tt))
    <2>1. m \in 0 .. m /\ m \in 0 .. Len(tt)
      BY <1>1, <1>3
    <2> QED
      BY <1>1, <1>3, <1>7, <1>8, <1>11, <2>1
  <1>13. IsSeq(a \o FlattenSeq(tt))
    BY <1>4, <1>12, Joined
  <1> QED
    BY <1>12, <1>13 DEF ClaimItems, ss, tt, a

LEMMA StatementClaims ==
  ASSUME NEW s \in Statements, NEW c, c = ClaimOf(s)
  PROVE  /\ IsClaim(c) /\ Len(c.commitments) = s.committed
         /\ s.committed \in Nat /\ s.instances \in Seq(Seq(Nat)) /\ Len(s.instances) \in Nat
         /\ s.committed <= Len(s.instances) =>
               /\ ColumnCount(c) = Len(s.instances)
               /\ InstanceItems(s) = ClaimItems(c)
  <1> DEFINE k == s.committed
             m == Len(s.instances)
             a == c.commitments
             b == c.instances
  <1>1. k \in Nat /\ s.instances \in Seq(Seq(Nat)) /\ m \in Nat /\ DOMAIN s.instances = 1 .. m
    BY StatementsAssumption, LenProperties
  <1>2. /\ c = [commitments |-> a, instances |-> b]
        /\ a = [i \in 1 .. k |-> CommitTo(s.instances[i])]
        /\ b = SubSeq(s.instances, k + 1, m)
    BY DEF ClaimOf
  <1>3. a = [i \in 1 .. k |-> a[i]] /\ \A i \in 1 .. k : a[i] = CommitTo(s.instances[i])
    BY <1>2
  <1>4. /\ b \in Seq(Seq(Nat)) /\ Len(b) = IF k + 1 <= m THEN m - (k + 1) + 1 ELSE 0
        /\ \A i \in 1 .. m - (k + 1) + 1 : b[i] = s.instances[k + 1 + i - 1]
    <2>1. \A i \in k + 1 .. m : s.instances[i] \in Seq(Nat)
      <3>1. \A i \in k + 1 .. m : i \in 1 .. m
        BY <1>1
      <3> QED
        BY <1>1, <3>1, ElementOfSeq
    <2>2. k + 1 \in Int /\ m \in Int
      BY <1>1
    <2> HIDE DEF k, m, a, b
    <2> DEFINE T == Seq(Nat)
               l == k + 1
    <2>3. (\A i \in l .. m : s.instances[i] \in T) /\ l \in Int /\ m \in Int
      BY <2>1, <2>2
    <2> HIDE DEF T, l
    <2>4. /\ SubSeq(s.instances, l, m) \in Seq(T)
          /\ Len(SubSeq(s.instances, l, m)) = IF l <= m THEN m - l + 1 ELSE 0
          /\ \A i \in 1 .. m - l + 1 : SubSeq(s.instances, l, m)[i] = s.instances[l + i - 1]
      BY <2>3, SubSeqProperties
    <2>5. b = SubSeq(s.instances, l, m)
      BY <1>2 DEF l
    <2> QED
      BY <2>4, <2>5 DEF T, l
  <1> HIDE DEF a, b
  <1>5. IsSeq(a) /\ Len(a) = k
    BY <1>1, <1>3, SeqMade
  <1>6. \A i \in 1 .. Len(a) : a[i][1] = "Commitment"
    <2> SUFFICES ASSUME NEW i \in 1 .. k
                 PROVE  a[i][1] = "Commitment"
      BY <1>5
    <2>1. a[i] = CommitTo(s.instances[i])
      BY <1>3
    <2> QED
      BY <2>1 DEF CommitTo
  <1>7. IsClaim(c)
    BY <1>2, <1>4, <1>5, <1>6 DEF IsClaim, a, b
  <1>8. ASSUME k <= m
        PROVE  ColumnCount(c) = m /\ InstanceItems(s) = ClaimItems(c)
    <2>1. Len(b) = m - k /\ \A i \in 1 .. m - k : b[i] = s.instances[k + i]
      <3>1. m - (k + 1) + 1 = m - k /\ (k + 1 <= m \/ m - k = 0)
        BY <1>1, <1>8
      <3>2. \A i \in 1 .. m - k : k + 1 + i - 1 = k + i
        BY <1>1
      <3> HIDE DEF k, m
      <3> QED
        BY <1>4, <3>1, <3>2
    <2>2. ColumnCount(c) = m
      <3>1. k + (m - k) = m
        BY <1>1
      <3> QED
        BY <1>5, <2>1, <3>1 DEF ColumnCount, a, b
    <2> DEFINE ss == [i \in DOMAIN s.instances |->
                         IF i <= k THEN <<CommitTo(s.instances[i])>> ELSE AbsorbColumn(s.instances[i])]
    <2>3. ss = Codes(c)
      <3>1. \A i \in 1 .. m : Code(c, i) = IF i <= k THEN <<CommitTo(s.instances[i])>>
                                           ELSE AbsorbColumn(s.instances[i])
        <4> SUFFICES ASSUME NEW i \in 1 .. m
                     PROVE  Code(c, i) = IF i <= k THEN <<CommitTo(s.instances[i])>>
                                         ELSE AbsorbColumn(s.instances[i])
          OBVIOUS
        <4>1. CASE i <= k
          <5>1. i \in 1 .. k
            BY <1>1, <4>1
          <5> QED
            BY <1>3, <1>5, <4>1, <5>1 DEF Code, a
        <4>2. CASE ~ (i <= k)
          <5>1. i - k \in 1 .. m - k /\ k + (i - k) = i
            BY <1>1, <4>2
          <5>2. b[i - k] = s.instances[i]
            BY <2>1, <5>1
          <5> QED
            BY <1>5, <4>2, <5>2 DEF Code, a, b
        <4> QED
          BY <4>1, <4>2
      <3>2. Codes(c) = [i \in 1 .. m |-> Code(c, i)]
        BY <2>2 DEF Codes
      <3> HIDE DEF m, k
      <3> QED
        BY <1>1, <3>1, <3>2
    <2>4. InstanceItems(s) = FlattenSeq(ss)
      BY DEF InstanceItems
    <2> HIDE DEF ss
    <2> QED
      BY <1>7, <2>2, <2>3, <2>4, ClaimCodes
  <1> QED
    BY <1>1, <1>5, <1>7, <1>8 DEF a

-----------------------------------------------------------------------------
(* Codes that can be told apart from their first elements on can be read   *)
(* back from what they are joined into.                                    *)
Separable(a, b) == (\A j \in 1 .. Len(a) : j <= Len(b) => a[j] = b[j]) => a = b

LEMMA JoinedAt ==
  ASSUME NEW s, IsSeq(s), NEW t, IsSeq(t), NEW x, IsSeq(x), IsPrefix(s \o t, x)
  PROVE  /\ Len(s) \in Nat /\ Len(t) \in Nat
         /\ \A j \in 1 .. Len(t) : t[j] = x[Len(s) + j]
  <1>1. /\ IsSeq(s \o t) /\ Len(s \o t) = Len(s) + Len(t)
        /\ Len(s) \in Nat /\ Len(t) \in Nat
        /\ \A i \in 1 .. Len(t) : (s \o t)[Len(s) + i] = t[i]
    <2>1. /\ IsSeq(s \o t) /\ Len(s \o t) = Len(s) + Len(t)
          /\ Len(s) \in Nat /\ Len(t) \in Nat
      BY Joined
    <2>2. \A i \in 1 .. Len(t) : (s \o t)[Len(s) + i] = t[i]
      BY SecondElements
    <2> QED
      BY <2>1, <2>2
  <1> DEFINE u == s \o t
             m == Len(s)
             n == Len(t)
  <1>2. IsSeq(u) /\ Len(u) = m + n /\ m \in Nat /\ n \in Nat /\ \A i \in 1 .. n : u[m + i] = t[i]
    BY <1>1
  <1>3. IsPrefix(u, x)
    OBVIOUS
  <1> HIDE DEF u, m, n
  <1>4. \A i \in 1 .. Len(u) : u[i] = x[i]
    BY <1>2, <1>3, PrefixElements
  <1>5. \A j \in 1 .. n : t[j] = x[m + j]
    <2> SUFFICES ASSUME NEW j \in 1 .. n
                 PROVE  t[j] = x[m + j]
      OBVIOUS
    <2>1. m + j \in 1 .. Len(u) /\ u[m + j] = t[j]
      BY <1>2
    <2> QED
      BY <1>4, <2>1
  <1> QED
    BY <1>1, <1>5 DEF m, n

LEMMA CodesReadBack ==
  ASSUME NEW m \in Nat,
         NEW ss, IsSeq(ss), Len(ss) = m, \A i \in 1 .. m : IsSeq(ss[i]),
         NEW tt, IsSeq(tt), Len(tt) = m, \A i \in 1 .. m : IsSeq(tt[i]),
         \A i \in 1 .. m : Separable(ss[i], tt[i]),
         NEW x, IsSeq(x), IsPrefix(FlattenSeq(ss), x), IsPrefix(FlattenSeq(tt), x)
  PROVE  \A i \in 1 .. m : ss[i] = tt[i]
  <1>1. PICK f : /\ f[0] = <<>> /\ \A n \in 1 .. Len(ss) : f[n] = f[n - 1] \o ss[n]
                 /\ \A n \in 0 .. Len(ss) : IsSeq(f[n])
                 /\ FlattenSeq(ss) = f[Len(ss)]
    BY FlattenLoop
  <1>2. PICK g : /\ g[0] = <<>> /\ \A n \in 1 .. Len(tt) : g[n] = g[n - 1] \o tt[n]
                 /\ \A n \in 0 .. Len(tt) : IsSeq(g[n])
                 /\ FlattenSeq(tt) = g[Len(tt)]
    BY FlattenLoop
  <1>3. ASSUME NEW h, NEW rr, \A n \in 0 .. m : IsSeq(h[n]), \A i \in 1 .. m : IsSeq(rr[i]),
               \A n \in 1 .. m : h[n] = h[n - 1] \o rr[n], IsPrefix(h[m], x)
        PROVE  \A n \in 0 .. m : IsPrefix(h[n], x)
    <2>1. \A n \in 1 .. m : IsPrefix(h[n - 1], h[n])
      <3> SUFFICES ASSUME NEW n \in 1 .. m
                   PROVE  IsPrefix(h[n - 1], h[n])
        OBVIOUS
      <3>1. IsSeq(h[n - 1]) /\ IsSeq(rr[n]) /\ h[n] = h[n - 1] \o rr[n]
        <4>1. n - 1 \in 0 .. m
          OBVIOUS
        <4> QED
          BY <1>3, <4>1
      <3> QED
        BY <3>1, PrefixOfJoined
    <2>2. \A n \in 0 .. m : IsPrefix(h[n], h[m])
      BY <1>3, <2>1, GrowingLoop
    <2> SUFFICES ASSUME NEW n \in 0 .. m
                 PROVE  IsPrefix(h[n], x)
      OBVIOUS
    <2>3. IsSeq(h[n]) /\ IsSeq(h[m]) /\ IsPrefix(h[n], h[m])
      <3>1. m \in 0 .. m
        OBVIOUS
      <3> QED
        BY <1>3, <2>2, <3>1
    <2> QED
      BY <1>3, <2>3, PrefixThen
  <1>4. /\ \A n \in 0 .. m : IsSeq(f[n]) /\ IsPrefix(f[n], x)
        /\ \A n \in 1 .. m : f[n] = f[n - 1] \o ss[n]
    <2>1. /\ \A n \in 0 .. m : IsSeq(f[n])
          /\ \A n \in 1 .. m : f[n] = f[n - 1] \o ss[n]
          /\ IsPrefix(f[m], x)
      BY <1>1
    <2>2. \A n \in 0 .. m : IsPrefix(f[n], x)
      BY <1>3, <2>1
    <2> QED
      BY <2>1, <2>2
  <1>5. /\ \A n \in 0 .. m : IsSeq(g[n]) /\ IsPrefix(g[n], x)
        /\ \A n \in 1 .. m : g[n] = g[n - 1] \o tt[n]
    <2>1. /\ \A n \in 0 .. m : IsSeq(g[n])
          /\ \A n \in 1 .. m : g[n] = g[n - 1] \o tt[n]
          /\ IsPrefix(g[m], x)
      BY <1>2
    <2>2. \A n \in 0 .. m : IsPrefix(g[n], x)
      BY <1>3, <2>1
    <2> QED
      BY <2>1, <2>2
  <1> DEFINE P == {n \in 0 .. m : f[n] = g[n] /\ \A i \in 1 .. n : ss[i] = tt[i]}
  <1>6. 0 \in P
    <2>1. 0 \in 0 .. m /\ 1 .. 0 = {}
      OBVIOUS
    <2> QED
      BY <1>1, <1>2, <2>1
  <1>7. ASSUME NEW n \in 1 .. m, n - 1 \in P
        PROVE  n \in P
    <2> DEFINE s == f[n - 1]
               a == ss[n]
               b == tt[n]
    <2>1. /\ n - 1 \in 0 .. m /\ n \in 0 .. m
          /\ \A i \in 1 .. n : i \in 1 .. n - 1 \/ i = n
      OBVIOUS
    <2>2. /\ s = g[n - 1] /\ \A i \in 1 .. n - 1 : ss[i] = tt[i]
      BY <1>7
    <2>3. /\ IsSeq(s) /\ IsSeq(a) /\ IsSeq(b) /\ f[n] = s \o a /\ g[n] = s \o b
          /\ IsPrefix(s \o a, x) /\ IsPrefix(s \o b, x) /\ Separable(a, b)
      BY <1>4, <1>5, <2>1, <2>2
    <2> HIDE DEF s, a, b, P
    <2>4. /\ Len(s) \in Nat /\ Len(a) \in Nat /\ \A j \in 1 .. Len(a) : a[j] = x[Len(s) + j]
      BY <2>3, JoinedAt
    <2>5. /\ Len(b) \in Nat /\ \A j \in 1 .. Len(b) : b[j] = x[Len(s) + j]
      BY <2>3, JoinedAt
    <2>6. \A j \in 1 .. Len(a) : j <= Len(b) => a[j] = b[j]
      BY <2>4, <2>5
    <2>7. a = b
      BY <2>3, <2>6 DEF Separable
    <2>8. f[n] = g[n] /\ ss[n] = tt[n]
      BY <2>3, <2>7 DEF a, b
    <2>9. \A i \in 1 .. n : ss[i] = tt[i]
      BY <2>1, <2>2, <2>8
    <2> QED
      BY <2>1, <2>8, <2>9 DEF P
  <1>8. 0 .. m \subseteq P
    <2> HIDE DEF P
    <2> QED
      BY <1>6, <1>7, InductionUpTo
  <1>9. m \in 0 .. m
    OBVIOUS
  <1> QED
    BY <1>8, <1>9

(* Two columns that start alike are the same column: its length is first,  *)
(* and a commitment is no field element.                                   *)
LEMMA FieldElements ==
  ASSUME NEW m, NEW n
  PROVE  F(m)[1] = "F" /\ (F(m) = F(n) => m = n)
  <1>1. F(m)[1] = "F" /\ F(m)[2] = m /\ F(n)[2] = n
    BY DEF F
  <1> QED
    BY <1>1

LEMMA ColumnsSeparate ==
  ASSUME NEW values \in Seq(Nat), NEW others \in Seq(Nat),
         NEW a, a = AbsorbColumn(values), NEW b, b = AbsorbColumn(others),
         \A j \in 1 .. Len(a) : j <= Len(b) => a[j] = b[j]
  PROVE  values = others
  <1>1. /\ IsSeq(a) /\ Len(a) = Len(values) + 1 /\ Len(values) \in Nat
        /\ a[1] = F(Len(values))
        /\ \A i \in 1 .. Len(values) : a[1 + i] = F(values[i])
    BY ColumnAbsorbed
  <1>2. /\ IsSeq(b) /\ Len(b) = Len(others) + 1 /\ Len(others) \in Nat
        /\ b[1] = F(Len(others))
        /\ \A i \in 1 .. Len(others) : b[1 + i] = F(others[i])
    BY ColumnAbsorbed
  <1>3. Len(values) = Len(others)
    <2>1. 1 \in 1 .. Len(a) /\ 1 <= Len(b)
      BY <1>1, <1>2
    <2>2. a[1] = b[1]
      BY <2>1
    <2> QED
      BY <1>1, <1>2, <2>2, FieldElements
  <1>4. ASSUME NEW i \in 1 .. Len(values)
        PROVE  values[i] = others[i]
    <2>1. 1 + i \in 1 .. Len(a) /\ 1 + i <= Len(b) /\ i \in 1 .. Len(others)
      BY <1>1, <1>2, <1>3
    <2>2. a[1 + i] = b[1 + i]
      BY <2>1
    <2>3. F(values[i]) = F(others[i])
      BY <1>1, <1>2, <2>1, <2>2
    <2> QED
      BY <2>3, FieldElements
  <1>5. IsSeq(values) /\ IsSeq(others)
    BY SeqInSet
  <1> QED
    BY <1>3, <1>4, <1>5, SameSeq

LEMMA ClaimFields ==
  ASSUME NEW c, IsClaim(c), NEW k, k = Len(c.commitments)
  PROVE  /\ k \in Nat /\ IsSeq(c.commitments) /\ IsSeq(c.instances)
         /\ ColumnCount(c) = k + Len(c.instances) /\ Len(c.instances) \in Nat
         /\ \A i \in 1 .. k : /\ Code(c, i) = <<c.commitments[i]>>
                              /\ c.commitments[i][1] = "Commitment"
         /\ \A i \in 1 .. Len(c.instances) :
               /\ Code(c, k + i) = AbsorbColumn(c.instances[i])
               /\ c.instances[i] \in Seq(Nat)
  <1>1. k \in Nat /\ Len(c.instances) \in Nat /\ ColumnCount(c) = k + Len(c.instances)
    BY CodesTyped DEF ColumnCount
  <1>2. /\ IsSeq(c.commitments) /\ IsSeq(c.instances)
        /\ \A i \in 1 .. Len(c.instances) : c.instances[i] \in Seq(Nat)
    BY SeqInSet, ElementOfSeq, LenProperties DEF IsClaim
  <1>3. \A i \in 1 .. k : /\ Code(c, i) = <<c.commitments[i]>>
                          /\ c.commitments[i][1] = "Commitment"
    <2>1. \A i \in 1 .. k : i <= k
      BY <1>1
    <2> QED
      BY <2>1 DEF Code, IsClaim
  <1>4. \A i \in 1 .. Len(c.instances) : Code(c, k + i) = AbsorbColumn(c.instances[i])
    <2> SUFFICES ASSUME NEW i \in 1 .. Len(c.instances)
                 PROVE  Code(c, k + i) = AbsorbColumn(c.instances[i])
      OBVIOUS
    <2> DEFINE j == k + i
    <2>1. ~ (j <= k) /\ j - k = i
      BY <1>1
    <2> HIDE DEF j
    <2>2. Code(c, j) = AbsorbColumn(c.instances[j - k])
      BY <2>1 DEF Code
    <2>3. Code(c, j) = AbsorbColumn(c.instances[i])
      BY <2>1, <2>2
    <2> QED
      BY <2>3 DEF j
  <1> QED
    BY <1>1, <1>2, <1>3, <1>4

LEMMA FirstOfCode ==
  ASSUME NEW c, IsClaim(c), NEW i \in 1 .. ColumnCount(c)
  PROVE  /\ Len(Code(c, i)) \in Nat /\ Len(Code(c, i)) >= 1
         /\ i <= Len(c.commitments) => Code(c, i)[1][1] = "Commitment"
         /\ ~ (i <= Len(c.commitments)) => Code(c, i)[1][1] = "F"
  <1> DEFINE k == Len(c.commitments)
             m == Len(c.instances)
  <1>1. /\ k \in Nat /\ m \in Nat /\ i \in 1 .. k + m
        /\ \A j \in 1 .. k : Code(c, j) = <<c.commitments[j]>> /\ c.commitments[j][1] = "Commitment"
        /\ \A j \in 1 .. m : Code(c, k + j) = AbsorbColumn(c.instances[j]) /\ c.instances[j] \in Seq(Nat)
    BY ClaimFields
  <1> HIDE DEF k, m
  <1>2. CASE i <= k
    <2>1. Code(c, i) = <<c.commitments[i]>> /\ c.commitments[i][1] = "Commitment"
      BY <1>1, <1>2
    <2>2. Len(Code(c, i)) = 1 /\ Code(c, i)[1] = c.commitments[i]
      BY <2>1, OneElement
    <2> QED
      BY <1>2, <2>1, <2>2 DEF k
  <1>3. CASE ~ (i <= k)
    <2>1. PICK j \in 1 .. m : i = k + j
      <3>1. i - k \in 1 .. m /\ i = k + (i - k)
        BY <1>1, <1>3
      <3> QED
        BY <3>1
    <2>2. Code(c, i) = AbsorbColumn(c.instances[j]) /\ c.instances[j] \in Seq(Nat)
      BY <1>1, <2>1
    <2> DEFINE values == c.instances[j]
    <2>3. /\ Len(AbsorbColumn(values)) = Len(values) + 1 /\ Len(values) \in Nat
          /\ AbsorbColumn(values)[1] = F(Len(values))
      BY <2>2, ColumnAbsorbed
    <2>4. AbsorbColumn(values)[1][1] = "F"
      BY <2>3, FieldElements
    <2> QED
      BY <1>3, <2>2, <2>3, <2>4 DEF k
  <1> QED
    BY <1>2, <1>3

LEMMA CodesSeparate ==
  ASSUME NEW c, IsClaim(c), NEW d, IsClaim(d), NEW i \in 1 .. ColumnCount(c), i \in 1 .. ColumnCount(d)
  PROVE  /\ Separable(Code(c, i), Code(d, i))
         /\ Code(c, i) = Code(d, i) => (i <= Len(c.commitments) <=> i <= Len(d.commitments))
  <1> DEFINE k == Len(c.commitments)
             l == Len(d.commitments)
             a == Code(c, i)
             b == Code(d, i)
  <1>1. /\ Len(a) \in Nat /\ Len(a) >= 1
        /\ i <= k => a[1][1] = "Commitment"
        /\ ~ (i <= k) => a[1][1] = "F"
    BY FirstOfCode
  <1>2. /\ Len(b) \in Nat /\ Len(b) >= 1
        /\ i <= l => b[1][1] = "Commitment"
        /\ ~ (i <= l) => b[1][1] = "F"
    BY FirstOfCode
  <1>3. /\ k \in Nat /\ Len(c.instances) \in Nat /\ ColumnCount(c) = k + Len(c.instances)
        /\ \A j \in 1 .. k : Code(c, j) = <<c.commitments[j]>>
        /\ \A j \in 1 .. Len(c.instances) : Code(c, k + j) = AbsorbColumn(c.instances[j]) /\ c.instances[j] \in Seq(Nat)
    BY ClaimFields
  <1>4. /\ l \in Nat /\ Len(d.instances) \in Nat /\ ColumnCount(d) = l + Len(d.instances)
        /\ \A j \in 1 .. l : Code(d, j) = <<d.commitments[j]>>
        /\ \A j \in 1 .. Len(d.instances) : Code(d, l + j) = AbsorbColumn(d.instances[j]) /\ d.instances[j] \in Seq(Nat)
    BY ClaimFields
  <1> HIDE DEF k, l
  <1>5. a[1] = b[1] => (i <= k <=> i <= l)
    BY <1>1, <1>2
  <1>6. ASSUME \A j \in 1 .. Len(a) : j <= Len(b) => a[j] = b[j]
        PROVE  a = b
    <2>1. a[1] = b[1]
      <3>1. 1 \in 1 .. Len(a) /\ 1 <= Len(b)
        BY <1>1, <1>2
      <3> HIDE DEF a, b
      <3> QED
        BY <1>6, <3>1
    <2>2. CASE i <= k
      <3>1. i \in 1 .. k /\ i \in 1 .. l
        BY <1>3, <1>4, <1>5, <2>1, <2>2
      <3>2. a = <<c.commitments[i]>> /\ b = <<d.commitments[i]>>
        BY <1>3, <1>4, <3>1
      <3> HIDE DEF a, b
      <3>3. a[1] = c.commitments[i] /\ b[1] = d.commitments[i]
        BY <3>2, OneElement
      <3> QED
        BY <2>1, <3>2, <3>3
    <2>3. CASE ~ (i <= k)
      <3> DEFINE x == c.instances[i - k]
                 y == d.instances[i - l]
      <3>1. a = AbsorbColumn(x) /\ x \in Seq(Nat)
        <4>1. i - k \in 1 .. Len(c.instances) /\ k + (i - k) = i
          BY <1>3, <2>3
        <4> QED
          BY <1>3, <4>1
      <3>2. b = AbsorbColumn(y) /\ y \in Seq(Nat)
        <4>1. i - l \in 1 .. Len(d.instances) /\ l + (i - l) = i
          BY <1>4, <1>5, <2>1, <2>3
        <4> QED
          BY <1>4, <4>1
      <3> HIDE DEF a, b, x, y
      <3>3. x = y
        BY <1>6, <3>1, <3>2, ColumnsSeparate
      <3> QED
        BY <3>1, <3>2, <3>3
    <2> QED
      BY <2>2, <2>3
  <1>7. Separable(a, b)
    BY <1>6 DEF Separable
  <1>8. a = b => (i <= k <=> i <= l)
    BY <1>5
  <1> QED
    BY <1>7, <1>8 DEF k, l

LEMMA SameCodesSameClaim ==
  ASSUME NEW c, IsClaim(c), NEW d, IsClaim(d), NEW m, m = ColumnCount(c), m = ColumnCount(d),
         \A i \in 1 .. m : Code(c, i) = Code(d, i)
  PROVE  c = d
  <1> DEFINE k == Len(c.commitments)
             l == Len(d.commitments)
  <1>1. /\ k \in Nat /\ IsSeq(c.commitments) /\ IsSeq(c.instances)
        /\ m = k + Len(c.instances) /\ Len(c.instances) \in Nat
        /\ \A i \in 1 .. k : Code(c, i) = <<c.commitments[i]>>
        /\ \A i \in 1 .. Len(c.instances) :
              Code(c, k + i) = AbsorbColumn(c.instances[i]) /\ c.instances[i] \in Seq(Nat)
    BY ClaimFields
  <1>2. /\ l \in Nat /\ IsSeq(d.commitments) /\ IsSeq(d.instances)
        /\ m = l + Len(d.instances) /\ Len(d.instances) \in Nat
        /\ \A i \in 1 .. l : Code(d, i) = <<d.commitments[i]>>
        /\ \A i \in 1 .. Len(d.instances) :
              Code(d, l + i) = AbsorbColumn(d.instances[i]) /\ d.instances[i] \in Seq(Nat)
    BY ClaimFields
  <1>3. \A i \in 1 .. m : (i <= k <=> i <= l)
    BY CodesSeparate
  <1> HIDE DEF k, l
  <1>4. k = l
    <2>1. CASE k < l
      <3>1. l \in 1 .. m /\ l <= l /\ ~ (l <= k)
        BY <1>1, <1>2, <2>1
      <3> QED
        BY <1>3, <3>1
    <2>2. CASE l < k
      <3>1. k \in 1 .. m /\ k <= k /\ ~ (k <= l)
        BY <1>1, <1>2, <2>2
      <3> QED
        BY <1>3, <3>1
    <2> QED
      BY <1>1, <1>2, <2>1, <2>2
  <1>5. c.commitments = d.commitments
    <2>1. ASSUME NEW i \in 1 .. k
          PROVE  c.commitments[i] = d.commitments[i]
      <3>1. i \in 1 .. m /\ i \in 1 .. l
        BY <1>1, <1>4
      <3>2. <<c.commitments[i]>> = <<d.commitments[i]>>
        BY <1>1, <1>2, <3>1
      <3> QED
        BY <3>2, OneElement
    <2> QED
      BY <1>1, <1>2, <1>4, <2>1, SameSeq DEF k, l
  <1>6. c.instances = d.instances
    <2>1. Len(c.instances) = Len(d.instances)
      BY <1>1, <1>2, <1>4
    <2>2. ASSUME NEW i \in 1 .. Len(c.instances)
          PROVE  c.instances[i] = d.instances[i]
      <3> DEFINE x == c.instances[i]
                 y == d.instances[i]
                 a == AbsorbColumn(x)
                 b == AbsorbColumn(y)
      <3>1. k + i \in 1 .. m /\ i \in 1 .. Len(d.instances)
        BY <1>1, <2>1
      <3>2. Code(c, k + i) = a /\ Code(d, k + i) = b /\ x \in Seq(Nat) /\ y \in Seq(Nat)
        BY <1>1, <1>2, <1>4, <3>1
      <3>3. a = b
        BY <3>1, <3>2
      <3> HIDE DEF a, b, x, y
      <3>4. a = AbsorbColumn(x) /\ b = AbsorbColumn(y)
        BY DEF a, b
      <3>5. \A j \in 1 .. Len(a) : j <= Len(b) => a[j] = b[j]
        BY <3>3
      <3>6. x = y
        BY <3>2, <3>4, <3>5, ColumnsSeparate
      <3> QED
        BY <3>6 DEF x, y
    <2> QED
      BY <1>1, <1>2, <2>1, <2>2, SameSeq
  <1>7. /\ c = [commitments |-> c.commitments, instances |-> c.instances]
        /\ d = [commitments |-> d.commitments, instances |-> d.instances]
    BY DEF IsClaim
  <1> QED
    BY <1>5, <1>6, <1>7

(* A log of the columns of one claim is not one of those of another.       *)
LEMMA ClaimsReadBack ==
  ASSUME NEW c, IsClaim(c), NEW d, IsClaim(d), ColumnCount(c) = ColumnCount(d),
         NEW x, IsSeq(x), IsPrefix(ClaimItems(c), x), IsPrefix(ClaimItems(d), x)
  PROVE  c = d
  <1> DEFINE m == ColumnCount(c)
             ss == Codes(c)
             tt == Codes(d)
  <1>1. /\ m \in Nat /\ IsSeq(ss) /\ Len(ss) = m
        /\ \A i \in 1 .. m : IsSeq(ss[i]) /\ ss[i] = Code(c, i)
    BY CodesTyped
  <1>2. /\ IsSeq(tt) /\ Len(tt) = m
        /\ \A i \in 1 .. m : IsSeq(tt[i]) /\ tt[i] = Code(d, i)
    BY CodesTyped
  <1>3. IsPrefix(FlattenSeq(ss), x) /\ IsPrefix(FlattenSeq(tt), x)
    BY ClaimCodes
  <1>4. \A i \in 1 .. m : Separable(Code(c, i), Code(d, i))
    BY CodesSeparate
  <1>5. \A i \in 1 .. m : Separable(ss[i], tt[i])
    BY <1>1, <1>2, <1>4
  <1>6. \A i \in 1 .. m : ss[i] = tt[i]
    <2> HIDE DEF m, ss, tt
    <2> QED
      BY <1>1, <1>2, <1>3, <1>5, CodesReadBack
  <1>7. \A i \in 1 .. m : Code(c, i) = Code(d, i)
    BY <1>1, <1>2, <1>6
  <1>8. m = ColumnCount(d)
    OBVIOUS
  <1> HIDE DEF m
  <1>9. m = ColumnCount(c)
    BY DEF m
  <1> QED
    BY <1>7, <1>8, <1>9, SameCodesSameClaim

Starts(a, x, s) == /\ IsSeq(a) /\ Len(a) = 1 + Len(s) /\ Len(s) \in Nat
                   /\ a[1] = x /\ \A i \in 1 .. Len(s) : a[1 + i] = s[i]

LEMMA OneThen ==
  ASSUME NEW x, NEW s, IsSeq(s), NEW a, a = <<x>> \o s
  PROVE  Starts(a, x, s)
  <1> DEFINE h == <<x>>
  <1>1. IsSeq(h)
    BY OneElement
  <1>2. Len(h) = 1 /\ h[1] = x
    BY OneElement
  <1>3. a = h \o s
    OBVIOUS
  <1> HIDE DEF h
  <1>4. /\ IsSeq(h \o s) /\ Len(h \o s) = Len(h) + Len(s) /\ Len(s) \in Nat
        /\ \A i \in 1 .. Len(h) : (h \o s)[i] = h[i]
        /\ \A i \in 1 .. Len(s) : (h \o s)[Len(h) + i] = s[i]
    <2>1. /\ IsSeq(h \o s) /\ Len(h \o s) = Len(h) + Len(s) /\ Len(s) \in Nat
          /\ \A i \in 1 .. Len(h) : (h \o s)[i] = h[i]
      BY <1>1, Joined
    <2>2. \A i \in 1 .. Len(s) : (h \o s)[Len(h) + i] = s[i]
      BY <1>1, SecondElements
    <2> QED
      BY <2>1, <2>2
  <1>5. 1 \in 1 .. Len(h)
    BY <1>2
  <1>6. (h \o s)[1] = h[1]
    BY <1>4, <1>5
  <1> DEFINE u == h \o s
  <1>7. /\ IsSeq(u) /\ Len(u) = 1 + Len(s) /\ Len(s) \in Nat
        /\ u[1] = x /\ \A i \in 1 .. Len(s) : u[1 + i] = s[i]
    BY <1>2, <1>4, <1>6
  <1>8. u = a
    BY <1>3
  <1> HIDE DEF u
  <1> QED
    BY <1>7, <1>8 DEF Starts

LEMMA PrefixAfter ==
  ASSUME NEW x, NEW s, IsSeq(s), NEW t, IsSeq(t), IsPrefix(<<x>> \o s, t)
  PROVE  \E u : IsSeq(u) /\ t = <<x>> \o u /\ IsPrefix(s, u)
  <1> DEFINE h == <<x>>
             a == h \o s
             n == Len(t) - 1
             u == [i \in 1 .. n |-> t[i + 1]]
             b == h \o u
  <1>2. /\ IsSeq(a) /\ Len(a) = 1 + Len(s) /\ Len(s) \in Nat
        /\ a[1] = x /\ \A i \in 1 .. Len(s) : a[1 + i] = s[i]
    <2>1. a = <<x>> \o s
      OBVIOUS
    <2> HIDE DEF a, h
    <2>2. Starts(a, x, s)
      BY <2>1, OneThen
    <2> QED
      BY <2>2 DEF Starts
  <1>3. Len(t) \in Nat /\ Len(a) <= Len(t) /\ \A i \in 1 .. Len(a) : a[i] = t[i]
    <2>1. IsPrefix(a, t)
      OBVIOUS
    <2> HIDE DEF a
    <2> QED
      BY <1>2, <2>1, PrefixElements, SeqFacts
  <1>4. n \in Nat /\ Len(t) = n + 1
    <2> HIDE DEF a
    <2> QED
      BY <1>2, <1>3
  <1>5. IsSeq(u) /\ Len(u) = n /\ \A i \in 1 .. n : u[i] = t[i + 1]
    <2>1. u = [i \in 1 .. n |-> u[i]] /\ \A i \in 1 .. n : u[i] = t[i + 1]
      OBVIOUS
    <2> HIDE DEF u, n
    <2> QED
      BY <1>4, <2>1, SeqMade
  <1>6. /\ IsSeq(b) /\ Len(b) = 1 + n /\ b[1] = x /\ \A i \in 1 .. n : b[1 + i] = u[i]
    <2>1. b = <<x>> \o u
      OBVIOUS
    <2>2. IsSeq(u)
      BY <1>5
    <2> HIDE DEF u, b
    <2>4. Starts(b, x, u)
      BY <2>1, <2>2, OneThen
    <2>3. /\ IsSeq(b) /\ Len(b) = 1 + Len(u) /\ b[1] = x
          /\ \A i \in 1 .. Len(u) : b[1 + i] = u[i]
      BY <2>4 DEF Starts
    <2> QED
      BY <1>5, <2>3
  <1> HIDE DEF a, b, u, n
  <1>7. t = b
    <2>1. Len(t) = Len(b)
      BY <1>4, <1>6
    <2>2. t[1] = x
      <3>1. 1 \in 1 .. Len(a)
        BY <1>2
      <3> QED
        BY <1>2, <1>3, <3>1
    <2>3. ASSUME NEW i \in 1 .. Len(t)
          PROVE  t[i] = b[i]
      <3>1. CASE i = 1
        BY <1>6, <2>2, <3>1
      <3>2. CASE i # 1
        <4>1. PICK j \in 1 .. n : i = j + 1 /\ i = 1 + j
          <5>1. i - 1 \in 1 .. n /\ i = i - 1 + 1 /\ i = 1 + (i - 1)
            BY <1>4, <3>2
          <5> QED
            BY <5>1
        <4>2. u[j] = t[j + 1] /\ b[1 + j] = u[j]
          BY <1>5, <1>6
        <4> QED
          BY <4>1, <4>2
      <3> QED
        BY <3>1, <3>2
    <2> QED
      BY <1>6, <2>1, <2>3, SameSeq
  <1>8. IsPrefix(s, u)
    <2>1. Len(s) <= Len(u)
      BY <1>2, <1>3, <1>4, <1>5
    <2>2. ASSUME NEW i \in 1 .. Len(s)
          PROVE  s[i] = u[i]
      <3>1. 1 + i \in 1 .. Len(a) /\ i \in 1 .. n /\ 1 + i = i + 1
        BY <1>2, <1>3, <1>4
      <3>2. a[1 + i] = s[i] /\ a[1 + i] = t[1 + i] /\ u[i] = t[i + 1]
        BY <1>2, <1>3, <1>5, <3>1
      <3> QED
        BY <3>1, <3>2
    <2> QED
      BY <1>5, <2>1, <2>2, PrefixElements
  <1>9. t = <<x>> \o u
    BY <1>7 DEF b
  <1> QED
    BY <1>5, <1>8, <1>9

LEMMA KeyedClaimsReadBack ==
  ASSUME NEW c, IsClaim(c), NEW d, IsClaim(d), ColumnCount(c) = ColumnCount(d),
         NEW x, IsSeq(x), NEW key,
         IsPrefix(<<key>> \o ClaimItems(c), x), IsPrefix(<<key>> \o ClaimItems(d), x)
  PROVE  c = d
  <1> DEFINE a == ClaimItems(c)
             b == ClaimItems(d)
  <1>1. IsSeq(a) /\ IsSeq(b)
    BY ClaimCodes
  <1>2. IsPrefix(<<key>> \o a, x) /\ IsPrefix(<<key>> \o b, x)
    OBVIOUS
  <1> HIDE DEF a, b
  <1>3. PICK u : IsSeq(u) /\ x = <<key>> \o u /\ IsPrefix(a, u)
    BY <1>1, <1>2, PrefixAfter
  <1>4. PICK v : IsSeq(v) /\ x = <<key>> \o v /\ IsPrefix(b, v)
    BY <1>1, <1>2, PrefixAfter
  <1>5. u = v
    <2>1. Starts(x, key, u) /\ Starts(x, key, v)
      BY <1>3, <1>4, OneThen
    <2>3. /\ Len(x) = 1 + Len(u) /\ Len(u) \in Nat
          /\ \A i \in 1 .. Len(u) : x[1 + i] = u[i]
      BY <2>1 DEF Starts
    <2>4. /\ Len(x) = 1 + Len(v) /\ Len(v) \in Nat
          /\ \A i \in 1 .. Len(v) : x[1 + i] = v[i]
      BY <2>1 DEF Starts
    <2>5. Len(u) = Len(v)
      BY <2>3, <2>4
    <2>6. \A i \in 1 .. Len(u) : u[i] = v[i]
      BY <2>3, <2>4, <2>5
    <2> QED
      BY <1>3, <1>4, <2>5, <2>6, SameSeq
  <1>6. IsPrefix(ClaimItems(c), u) /\ IsPrefix(ClaimItems(d), u)
    BY <1>3, <1>4, <1>5 DEF a, b
  <1> QED
    BY <1>3, <1>6, ClaimsReadBack

-----------------------------------------------------------------------------
(* A verifier never takes back what it heard.                              *)
LEMMA HeardExtends ==
  ASSUME Listening, NEW items, IsSeq(items), NEW t, t = Heard(items)
  PROVE  IsPrefix(v_log, t.log)
  <1>1. PICK h : HeardBy(h, items)
    BY HeardGrows
  <1> DEFINE m == Len(items)
             w == [n \in 0 .. m |-> h[n].log]
  <1>2. m \in Nat /\ \A n \in 1 .. m : items[n] \in ToSet(items) /\ n - 1 \in 0 .. m /\ n \in 0 .. m
    BY SeqFacts
  <1>3. /\ h[0] = Unheard /\ \A n \in 1 .. m : h[n] = Hear(h[n - 1], items[n])
        /\ \A n \in 0 .. m : h[n] \in HeardType(items)
        /\ t = h[m]
    BY <1>1 DEF HeardBy
  <1>4. \A n \in 0 .. m : w[n] = h[n].log
    OBVIOUS
  <1>5. \A n \in 0 .. m : IsSeq(w[n])
    BY <1>3, <1>4, SeqInSet DEF HeardType
  <1> HIDE DEF w, m
  <1>6. ASSUME NEW n \in 1 .. m
        PROVE  IsPrefix(w[n - 1], w[n])
    <2> DEFINE a == h[n - 1]
               b == h[n]
               x == items[n]
    <2>1. a \in HeardType(items) /\ b = Hear(a, x) /\ x \in ToSet(items)
      BY <1>2, <1>3
    <2>2. w[n - 1] = a.log /\ w[n] = b.log /\ IsSeq(a.log)
      BY <1>2, <1>4, <1>5
    <2> HIDE DEF a, b, x
    <2>3. HearsAs(a, x, b)
      BY <2>1, Hears
    <2>4. a.short \in BOOLEAN
      BY <2>1 DEF HeardType
    <2>5. b.log = a.log \/ \E y : b.log = Append(a.log, y)
      BY <2>3, <2>4 DEF HearsAs
    <2>6. CASE b.log = a.log
      BY <2>2, <2>6, PrefixOfLonger
    <2>7. CASE \E y : b.log = Append(a.log, y)
      <3>1. PICK y : b.log = Append(a.log, y)
        BY <2>7
      <3> QED
        BY <2>2, <3>1, PrefixOfLonger
    <2> QED
      BY <2>5, <2>6, <2>7
  <1>7. IsPrefix(w[0], w[m])
    <2>1. \A n \in 0 .. m : IsPrefix(w[n], w[m])
      BY <1>2, <1>5, <1>6, GrowingLoop
    <2>2. 0 \in 0 .. m
      BY <1>2
    <2> QED
      BY <2>1, <2>2
  <1>8. w[0] = v_log /\ w[m] = t.log
    <2>1. 0 \in 0 .. m /\ m \in 0 .. m
      BY <1>2
    <2> QED
      BY <1>3, <1>4, <2>1 DEF Unheard
  <1> QED
    BY <1>7, <1>8

-----------------------------------------------------------------------------
(* The key: arguments keep their position, and keygen made sure that the   *)
(* lookups can be divided into chunks and that the rows are enough.        *)
TrashIndexed(c) == \A i \in DOMAIN c.trashcans : c.trashcans[i].argument_index = i - 1
KeyUsable == phase = "keyed" => ~ ChunksPanic(cs) /\ BlindingFactors(cs) + 3 <= N

LEMMA EqualityTrash ==
  ASSUME NEW c \in SystemType, NEW column \in Kinds \X Nat
  PROVE  EqualityEnabled(c, column).trashcans = c.trashcans
  <1> DEFINE kind == column[1]
             query == <<column[2], 0>>
             d == QueryIndex(c, kind, query)
  <1>1. d.trashcans = c.trashcans /\ DOMAIN d = DOMAIN c
    BY DEF QueryIndex, SystemType
  <1> HIDE DEF d
  <1>2. EqualityEnabled(c, column) = IF Contains(d.permutation, column) THEN d
                                     ELSE [d EXCEPT !.permutation = Append(@, column)]
    BY DEF EqualityEnabled, d
  <1> QED
    BY <1>1, <1>2

LEMMA CallTrash ==
  ASSUME NEW c, Configuration(c), NEW flags, NEW polys, ArePolynomials(flags, polys),
         NEW d, d = QueryCells(c, polys)
  PROVE  d \in SystemType /\ d.trashcans = c.trashcans
  <1>1. polys \in Seq(Seq(Queryable)) /\ c \in Systems
    BY CellsHanded DEF Configuration
  <1>2. Queried(c, d, CellsIn(ToSet(polys)))
    BY <1>1, CellsQueried
  <1> QED
    BY <1>2 DEF Queried, SameButQueries, Systems

LEMMA TrashKept ==
  ASSUME IInv, TrashIndexed(cs), [NextConfiguration]_csVars
  PROVE  TrashIndexed(cs')
  <1>1. cs \in SystemType
    BY DEF IInv, Systems
  <1>2. ASSUME cs'.trashcans = cs.trashcans
        PROVE  TrashIndexed(cs')
    BY <1>2 DEF TrashIndexed
  <1>3. CASE EnableEquality
    <2>1. Call.column \in Kinds \X Nat /\ cs' = EqualityEnabled(cs, Call.column)
      BY <1>3, CircuitFields DEF EnableEquality, Calling, IsCall, Configure
    <2> QED
      BY <1>1, <1>2, <2>1, EqualityTrash
  <1>4. CASE EnableConstant
    <2> DEFINE column == Call.column
               d == [cs EXCEPT !.constants = Append(@, column)]
    <2>1. /\ column \in {"fixed"} \X Columns("fixed")
          /\ cs' = IF Contains(cs.constants, column) THEN cs ELSE EqualityEnabled(d, column)
      BY <1>4, CircuitFields DEF EnableConstant, Calling, IsCall, Configure
    <2>2. Configuration(cs)
      BY <1>4, CircuitFields DEF EnableConstant, Calling
    <2>3. Configuration(d) /\ column \in Kinds \X Nat
      BY <2>1, <2>2, ConstantKept
    <2>4. d.trashcans = cs.trashcans /\ d \in SystemType
      <3>1. d \in SystemType
        BY <2>3 DEF Configuration, Systems
      <3>2. d.trashcans = cs.trashcans
        BY <1>1 DEF SystemType
      <3> QED
        BY <3>1, <3>2
    <2> HIDE DEF column, d
    <2>5. EqualityEnabled(d, column).trashcans = d.trashcans
      BY <2>3, <2>4, EqualityTrash
    <2> QED
      BY <1>2, <2>1, <2>4, <2>5
  <1>5. CASE CreateGate
    <2> DEFINE d == QueryCells(cs, Call.polys)
    <2>1. ArePolynomials(circuit.selectors, Call.polys) /\ Configuration(cs)
      BY <1>5, CircuitFields DEF CreateGate, Calling, IsCall
    <2>2. d \in SystemType /\ d.trashcans = cs.trashcans
      BY <2>1, CallTrash
    <2>3. PICK g : cs' = [d EXCEPT !.gates = Append(@, g)]
      BY <1>5 DEF CreateGate, Configure
    <2> HIDE DEF d
    <2>4. cs'.trashcans = d.trashcans
      BY <2>2, <2>3 DEF SystemType
    <2> QED
      BY <1>2, <2>2, <2>4
  <1>6. CASE CreateAdditiveGate
    <2> DEFINE d == IF Call.virtual_cells THEN QueryCells(cs, Call.polys) ELSE cs
               t == [argument_index |-> Len(d.trashcans), selector |-> Call.selector[1],
                     constraints |-> IF Call.virtual_cells THEN Resolve(d, Call.polys) ELSE Call.polys]
    <2>1. ArePolynomials(circuit.selectors, Call.polys) /\ Configuration(cs)
      BY <1>6, CircuitFields DEF CreateAdditiveGate, Calling, IsCall
    <2>2. d \in SystemType /\ d.trashcans = cs.trashcans
      BY <1>1, <2>1, CallTrash
    <2>3. \E g : cs' = [d EXCEPT !.trashcans = Append(@, [argument_index |-> Len(@),
                                        selector |-> Call.selector[1],
                                        constraints |-> IF Call.virtual_cells
                                                        THEN Resolve(d, Call.polys) ELSE Call.polys]),
                                 !.gates = Append(@, g)]
      BY <1>6 DEF CreateAdditiveGate, Configure
    <2> HIDE DEF d
    <2>4. \E g : cs' = [d EXCEPT !.trashcans = Append(d.trashcans, t), !.gates = Append(@, g)]
      BY <2>2, <2>3
    <2>5. t.argument_index = Len(d.trashcans)
      OBVIOUS
    <2> HIDE DEF t
    <2>6. cs'.trashcans = Append(d.trashcans, t)
      BY <2>2, <2>4 DEF SystemType
    <2>7. IsSeq(d.trashcans)
      BY <2>2, SystemFields, SeqInSet
    <2> DEFINE s == d.trashcans
               u == Append(s, t)
    <2>8. /\ Len(s) \in Nat /\ DOMAIN s = 1 .. Len(s) /\ DOMAIN u = 1 .. Len(s) + 1
          /\ \A i \in 1 .. Len(s) : u[i] = s[i]
          /\ u[Len(s) + 1] = t
      BY <2>7, SeqFacts, Longer
    <2>9. /\ \A i \in DOMAIN s : s[i].argument_index = i - 1
          /\ t.argument_index = Len(s)
      BY <2>2, <2>5 DEF TrashIndexed
    <2> HIDE DEF s, u
    <2>10. \A i \in DOMAIN u : u[i].argument_index = i - 1
      BY <2>8, <2>9
    <2>11. cs'.trashcans = u
      BY <2>6 DEF u, s
    <2> QED
      BY <2>10, <2>11 DEF TrashIndexed
  <1>7. CASE BatchedLookup
    <2> DEFINE polys == Append(Call.inputs, Call.table)
               d == QueryCells(cs, polys)
    <2>1. /\ ArePolynomials(circuit.selectors, Call.inputs)
          /\ ArePolynomials(circuit.selectors, <<Call.table>>) /\ Configuration(cs)
      BY <1>7, CircuitFields DEF BatchedLookup, Calling, IsCall
    <2>2. ArePolynomials(circuit.selectors, polys)
      BY <2>1, TableAppended
    <2>3. d \in SystemType /\ d.trashcans = cs.trashcans
      BY <2>1, <2>2, CallTrash
    <2>4. cs' = cs \/ \E l : cs' = [d EXCEPT !.lookups = Append(@, l)]
      BY <1>7 DEF BatchedLookup, Configure, Panic
    <2> HIDE DEF d
    <2>5. cs'.trashcans = cs.trashcans
      BY <2>3, <2>4 DEF SystemType
    <2> QED
      BY <1>2, <2>5
  <1>8. CASE SetMinimumDegree
    <2>1. cs' = [cs EXCEPT !.minimum_degree = Call.degree]
      BY <1>8 DEF SetMinimumDegree, Configure
    <2>2. cs'.trashcans = cs.trashcans
      BY <1>1, <2>1 DEF SystemType
    <2> QED
      BY <1>2, <2>2
  <1>9. CASE EmptyGate \/ KeygenPanics \/ KeygenRefuses \/ UNCHANGED csVars
    BY <1>2, <1>9 DEF EmptyGate, KeygenPanics, KeygenRefuses, Panic, csVars
  <1>10. CASE Keygen
    <2> DEFINE q == WithSelectorQueries(cs).queries["fixed"]
    <2>1. Configuration(cs) /\ cs' = Converted(cs)
      BY <1>10 DEF IInv, Keygen, Configured
    <2>2. ConvertedFrom(cs, q, cs')
      BY <2>1, ConvertedSystem
    <2> HIDE DEF q
    <2>3. /\ DOMAIN cs'.trashcans = DOMAIN cs.trashcans
          /\ \A i \in DOMAIN cs.trashcans : cs'.trashcans[i] = FixedTrash(cs, q, cs.trashcans[i])
      BY <2>2 DEF ConvertedFrom
    <2>4. \A t : FixedTrash(cs, q, t).argument_index = t.argument_index
      BY DEF FixedTrash
    <2> QED
      BY <2>3, <2>4 DEF TrashIndexed
  <1> QED
    BY <1>3, <1>4, <1>5, <1>6, <1>7, <1>8, <1>9, <1>10 DEF NextConfiguration

LEMMA KeyKept ==
  ASSUME IInv, KeyUsable, [NextConfiguration]_csVars
  PROVE  KeyUsable'
  <1>1. CASE Keygen
    <2> DEFINE e == Converted(cs)
    <2>1. /\ Configuration(cs) /\ ~ ChunksPanic(cs) /\ cs' = e
          /\ BlindingFactors(cs) + 3 <= N
      BY <1>1 DEF IInv, Keygen, Configured, MinimumRows
    <2>2. BlindingFactors(e) = BlindingFactors(cs) /\ (ChunksPanic(e) => ChunksPanic(cs))
      BY <2>1, SizesKept
    <2> HIDE DEF e
    <2> QED
      BY <2>1, <2>2 DEF KeyUsable
  <1>2. CASE ~ Keygen /\ NextConfiguration
    <2>1. phase = "configure" /\ phase' # "keyed"
      BY <1>2 DEF NextConfiguration, EnableEquality, EnableConstant, CreateGate, CreateAdditiveGate,
                  EmptyGate, BatchedLookup, SetMinimumDegree, KeygenPanics, KeygenRefuses, Calling, Configuring,
                  Configured, Configure, Panic
    <2> QED
      BY <2>1 DEF KeyUsable
  <1>3. CASE UNCHANGED csVars
    BY <1>3 DEF csVars, KeyUsable
  <1> QED
    BY <1>1, <1>2, <1>3

(* Nothing is configured once the keys are made.                           *)
LEMMA KeyStays ==
  ASSUME NextConfiguration
  PROVE  phase = "configure"
  BY DEF NextConfiguration, EnableEquality, EnableConstant, CreateGate, CreateAdditiveGate,
         EmptyGate, BatchedLookup, SetMinimumDegree, KeygenPanics, KeygenRefuses, Keygen, Calling, Configuring,
         Configured

-----------------------------------------------------------------------------
(* The items of the opening of a list of queries are sequences.            *)
LEMMA JoinedTyped ==
  ASSUME NEW s, IsSeq(s), NEW t, IsSeq(t)
  PROVE  IsSeq(s \o t)
  BY Joined

LEMMA Mapped ==
  ASSUME NEW s, IsSeq(s), NEW u, u = [i \in DOMAIN s |-> u[i]]
  PROVE  IsSeq(u) /\ Len(u) = Len(s)
  <1>1. Len(s) \in Nat /\ DOMAIN s = 1 .. Len(s)
    BY SeqFacts
  <1>2. u = [i \in 1 .. Len(s) |-> u[i]]
    BY <1>1
  <1> QED
    BY <1>1, <1>2, SeqMade

LEMMA LabelsTyped ==
  ASSUME NEW kind, NEW n \in Nat
  PROVE  IsSeq(Labels(kind, n)) /\ Len(Labels(kind, n)) = n
  <1> DEFINE u == Labels(kind, n)
  <1>1. u = [i \in 1 .. n |-> u[i]]
    BY DEF Labels
  <1> HIDE DEF u
  <1> QED
    BY <1>1, SeqMade DEF u

LEMMA ChallengesTyped ==
  ASSUME NEW names, IsSeq(names)
  PROVE  IsSeq(Challenges(names)) /\ Len(Challenges(names)) = Len(names)
         /\ \A i \in 1 .. Len(names) : Challenges(names)[i] = <<"challenge", names[i]>>
  <1> DEFINE u == Challenges(names)
  <1>1. u = [i \in DOMAIN names |-> u[i]] /\ DOMAIN names = 1 .. Len(names)
    BY SeqFacts DEF Challenges
  <1>2. \A i \in DOMAIN names : u[i] = <<"challenge", names[i]>>
    BY DEF Challenges
  <1> HIDE DEF u
  <1>3. IsSeq(u) /\ Len(u) = Len(names)
    BY <1>1, Mapped
  <1> QED
    BY <1>1, <1>2, <1>3 DEF u

LEMMA SomeChallenges ==
  ASSUME NEW x, NEW y, NEW z
  PROVE  IsSeq(Challenges(<<x>>)) /\ IsSeq(Challenges(<<x, y>>)) /\ IsSeq(Challenges(<<x, y, z>>))
  <1>1. IsSeq(<<x>>) /\ IsSeq(<<x, y>>)
    BY OneElement, TwoElements
  <1>2. <<x, y, z>> \in Seq({x, y, z})
    OBVIOUS
  <1>3. IsSeq(<<x, y, z>>)
    BY <1>2, SeqInSet
  <1> QED
    BY <1>1, <1>3, ChallengesTyped

LEMMA QueryLists ==
  ASSUME NEW qs, IsSeq(qs), NEW kind
  PROVE  /\ IsSeq(EvalsOf(kind, qs)) /\ IsSeq(QueriesOf(kind, qs)) /\ IsSeq(ToEvals(qs))
         /\ Len(EvalsOf(kind, qs)) = Len(qs) /\ Len(QueriesOf(kind, qs)) = Len(qs)
  <1> DEFINE u == EvalsOf(kind, qs)
             v == QueriesOf(kind, qs)
             w == ToEvals(qs)
  <1>1. u = [i \in DOMAIN qs |-> u[i]]
    BY DEF EvalsOf
  <1>2. v = [i \in DOMAIN qs |-> v[i]]
    BY DEF QueriesOf
  <1>3. w = [i \in DOMAIN qs |-> w[i]]
    BY DEF ToEvals
  <1> HIDE DEF u, v, w
  <1>4. IsSeq(u) /\ Len(u) = Len(qs)
    BY <1>1, Mapped
  <1>5. IsSeq(v) /\ Len(v) = Len(qs)
    BY <1>2, Mapped
  <1>6. IsSeq(w)
    BY <1>3, Mapped
  <1> QED
    BY <1>4, <1>5, <1>6 DEF u, v, w

LEMMA OpeningLists ==
  ASSUME NEW qs, IsSeq(qs)
  PROVE  /\ IsSeq(Keys(qs)) /\ IsSeq(PointSets(qs)) /\ IsSeq(SortedSets(qs)) /\ IsSeq(QEvals(qs))
         /\ \A label : IsSeq(QueriesTo(qs, label)) /\ IsSeq(PointsOf(qs, label))
  <1> DEFINE k == [i \in DOMAIN qs |-> qs[i][1]]
             p == [i \in DOMAIN Keys(qs) |-> ToSet(PointsOf(qs, Keys(qs)[i]))]
             u == SortedSets(qs)
             v == QEvals(qs)
  <1>1. IsSeq(Keys(qs))
    <2>1. k = [i \in DOMAIN qs |-> k[i]] /\ Keys(qs) = Distinct(k)
      BY DEF Keys
    <2> HIDE DEF k
    <2> QED
      BY <2>1, Mapped, DistinctTyped
  <1>2. IsSeq(PointSets(qs))
    <2>1. p = [i \in DOMAIN Keys(qs) |-> p[i]] /\ PointSets(qs) = Distinct(p)
      BY DEF PointSets
    <2> HIDE DEF p
    <2> QED
      BY <1>1, <2>1, Mapped, DistinctTyped
  <1>3. IsSeq(u)
    <2>1. u = [i \in DOMAIN PointSets(qs) |-> u[i]]
      BY DEF SortedSets
    <2> HIDE DEF u
    <2> QED
      BY <1>2, <2>1, Mapped
  <1>4. IsSeq(v)
    <2>1. v = [i \in DOMAIN SortedSets(qs) |-> v[i]]
      BY DEF QEvals
    <2> HIDE DEF v
    <2> QED
      BY <1>3, <2>1, Mapped DEF u
  <1>5. ASSUME NEW label
        PROVE  IsSeq(QueriesTo(qs, label)) /\ IsSeq(PointsOf(qs, label))
    <2> DEFINE w == PointsOf(qs, label)
    <2>1. IsSeq(QueriesTo(qs, label))
      BY ChosenTyped DEF QueriesTo
    <2>2. w = [i \in DOMAIN QueriesTo(qs, label) |-> w[i]]
      BY DEF PointsOf
    <2> HIDE DEF w
    <2>3. IsSeq(w)
      BY <2>1, <2>2, Mapped
    <2> QED
      BY <2>1, <2>3 DEF w
  <1> QED
    BY <1>1, <1>2, <1>3, <1>4, <1>5

LEMMA FlattenedOver ==
  ASSUME NEW n \in Nat, NEW ss, ss = [i \in 1 .. n |-> ss[i]], \A i \in 1 .. n : IsSeq(ss[i])
  PROVE  IsSeq(FlattenSeq(ss))
  <1>1. IsSeq(ss) /\ Len(ss) = n
    BY SeqMade
  <1> QED
    BY <1>1, Flattened

LEMMA DummiesTyped ==
  ASSUME NEW qs, IsSeq(qs)
  PROVE  IsSeq(SharedPoints(qs)) /\ IsSeq(ComputeDummyQueries(qs))
  <1> DEFINE keys == Keys(qs)
             n == Len(keys)
             Shared(i) == LET points == PointsOf(qs, keys[i])
                          IN  IF Len(points) = 1 THEN <<>> ELSE points
             s == [i \in DOMAIN keys |-> Shared(i)]
             shared == SharedPoints(qs)
             Missing(label) == Chosen(shared, ToSet(shared) \ ToSet(PointsOf(qs, label)))
             Dummies(label) == [j \in DOMAIN Missing(label) |-> <<label, Missing(label)[j]>>]
             d == [i \in DOMAIN keys |-> Dummies(keys[i])]
  <1>1. n \in Nat /\ DOMAIN keys = 1 .. n
    BY OpeningLists, SeqFacts
  <1>2. IsSeq(shared)
    <2>1. \A i \in 1 .. n : IsSeq(Shared(i))
      BY OpeningLists, Nothing
    <2>2. shared = Distinct(FlattenSeq(s))
      BY DEF SharedPoints
    <2> HIDE DEF Shared, keys, n
    <2>3. s = [i \in 1 .. n |-> s[i]] /\ \A i \in 1 .. n : s[i] = Shared(i)
      BY <1>1
    <2> HIDE DEF s
    <2>4. IsSeq(FlattenSeq(s))
      BY <1>1, <2>1, <2>3, FlattenedOver
    <2> QED
      BY <2>2, <2>4, DistinctTyped
  <1> HIDE DEF shared
  <1>3. ASSUME NEW label
        PROVE  IsSeq(Dummies(label))
    <2> DEFINE m == Missing(label)
               u == [j \in DOMAIN m |-> <<label, m[j]>>]
    <2>1. IsSeq(m)
      BY <1>2, ChosenTyped
    <2> HIDE DEF m
    <2>2. u = [j \in DOMAIN m |-> u[j]]
      OBVIOUS
    <2> HIDE DEF u
    <2>3. IsSeq(u)
      BY <2>1, <2>2, Mapped
    <2> QED
      BY <2>3 DEF u, m
  <1>4. ComputeDummyQueries(qs) = FlattenSeq(d)
    BY DEF ComputeDummyQueries, shared
  <1> HIDE DEF Dummies, keys, n
  <1>5. d = [i \in 1 .. n |-> d[i]] /\ \A i \in 1 .. n : IsSeq(d[i])
    BY <1>1, <1>3
  <1> HIDE DEF d
  <1>6. IsSeq(FlattenSeq(d))
    BY <1>1, <1>5, FlattenedOver
  <1> QED
    BY <1>2, <1>4, <1>6 DEF shared

LEMMA OpeningTyped ==
  ASSUME NEW qs, IsSeq(qs)
  PROVE  IsSeq(Opening(qs))
  <1> DEFINE a == Challenges(<<"x1", "x2">>)
             b == <<<<"f_com">>>>
             c == Challenges(<<"x3">>)
             d == QEvals(qs)
             e == Challenges(<<"x4">>)
             f == <<<<"pi">>>>
  <1>1. Opening(qs) = a \o b \o c \o d \o e \o f
    BY DEF Opening
  <1>2. /\ IsSeq(a) /\ IsSeq(b) /\ IsSeq(c) /\ IsSeq(d) /\ IsSeq(e) /\ IsSeq(f)
    BY SomeChallenges, OneElement, OpeningLists
  <1> HIDE DEF a, b, c, d, e, f
  <1> QED
    BY <1>1, <1>2, JoinedTyped

-----------------------------------------------------------------------------
(* The script of a proof, in six parts: what a prover says, and what a     *)
(* verifier listens for, for a system, a set of features, a number of      *)
(* committed columns and a number of limbs of the quotient.                *)
AccumulatorsIn(c) == CeilDiv(Len(c.permutation), Degree(c) - 2)
LastIn(c)         == -(BlindingFactors(c) + 1)
CommittedIn(c, k) == Chosen(c.queries["instance"], {q \in ToSet(c.queries["instance"]) : q[1] < k})
OpenedIn(c) ==
    Chosen(c.queries["fixed"], {q \in ToSet(c.queries["fixed"]) : q[1] \notin SimpleColumns(c)})

LogupCommitmentsOf(c, l) == [j \in 1 .. NumChunks(c, c.lookups[l]) |-> <<"LogupHelper", l - 1, j - 1>>]
                                \o <<Label("LogupAggregator", l)>>
LogupCommitmentsIn(c) == FlattenSeq([l \in 1 .. Len(c.lookups) |-> LogupCommitmentsOf(c, l)])
LogupQueriesOf(c, l) ==
    <<<<Label("LogupMultiplicities", l), 0>>>>
        \o [j \in 1 .. NumChunks(c, c.lookups[l]) |-> <<<<"LogupHelper", l - 1, j - 1>>, 0>>]
        \o <<<<Label("LogupAggregator", l), 0>>, <<Label("LogupAggregator", l), 1>>>>
LookupQueriesIn(c) == FlattenSeq([l \in 1 .. Len(c.lookups) |-> LogupQueriesOf(c, l)])

AccumulatorEvals(c, n, i) ==
    LET acc == Label("PermutationAccumulator", i)
    IN  <<Eval(acc, 0), Eval(acc, 1)>> \o (IF i < n THEN <<Eval(acc, LastIn(c))>> ELSE <<>>)
AccumulatorQueriesIn(c, n) ==
    FlattenSeq([i \in 1 .. n |-> <<<<Label("PermutationAccumulator", i), 0>>,
                                   <<Label("PermutationAccumulator", i), 1>>>>])
        \o [i \in 1 .. Largest({n - 1, 0}) |-> <<Label("PermutationAccumulator", n - i), LastIn(c)>>]
QueriesIn(c, k) ==
    QueriesOf("Advice", c.queries["advice"])
        \o QueriesOf("CommittedInstance", CommittedIn(c, k))
        \o AccumulatorQueriesIn(c, AccumulatorsIn(c))
        \o LookupQueriesIn(c)
        \o [i \in DOMAIN c.trashcans |-> <<Label("Trash", i), 0>>]
        \o QueriesOf("Fixed", OpenedIn(c))
        \o [i \in DOMAIN c.permutation |-> <<Label("PermutationFixed", i), 0>>]
        \o <<<<Linearization, 0>>>>
DummiesIn(fs, qs) == IF "fewer-point-sets" \in fs THEN ComputeDummyQueries(qs) ELSE <<>>
AllQueriesIn(c, fs, k) == QueriesIn(c, k) \o DummiesIn(fs, QueriesIn(c, k))

AdvicePart == Labels("Advice", NumAdvice) \o Challenges(<<"theta">>)
MultiplicityPart(c) == Labels("LogupMultiplicities", Len(c.lookups))
                           \o Challenges(<<"beta", "gamma", "trash_challenge">>)
ArgumentPart(c) == Labels("PermutationAccumulator", AccumulatorsIn(c)) \o LogupCommitmentsIn(c)
                       \o Labels("Trash", Len(c.trashcans)) \o Challenges(<<"y">>)
QuotientPart(fs, d) == Labels("Quotient", IF "single-h-commitment" \in fs THEN 1 ELSE d)
                           \o Challenges(<<"x">>)
EvalsPart(c, k) ==
    EvalsOf("CommittedInstance", CommittedIn(c, k))
        \o EvalsOf("Advice", c.queries["advice"])
        \o EvalsOf("Fixed", OpenedIn(c))
        \o [i \in DOMAIN c.permutation |-> Eval(Label("PermutationFixed", i), 0)]
        \o FlattenSeq([i \in 1 .. AccumulatorsIn(c) |-> AccumulatorEvals(c, AccumulatorsIn(c), i)])
        \o ToEvals(LookupQueriesIn(c))
        \o [i \in DOMAIN c.trashcans |-> Eval(Label("Trash", i), 0)]
OpeningPart(c, fs, k) == ToEvals(DummiesIn(fs, QueriesIn(c, k))) \o Opening(AllQueriesIn(c, fs, k))

ScriptOf(c, fs, k, d) ==
    <<AdvicePart, MultiplicityPart(c), ArgumentPart(c), QuotientPart(fs, d), EvalsPart(c, k),
      OpeningPart(c, fs, k)>>
IsScript(sc) == IsSeq(sc) /\ Len(sc) = 6 /\ \A n \in 1 .. 6 : IsSeq(sc[n])

IsKey(c) == c \in SystemType /\ ~ ChunksPanic(c)

LEMMA KeyFields ==
  ASSUME NEW c, IsKey(c)
  PROVE  /\ \A kind \in Kinds : c.queries[kind] \in Seq(QueryType) /\ IsSeq(c.queries[kind])
         /\ IsSeq(c.permutation) /\ IsSeq(c.trashcans) /\ IsSeq(c.lookups)
         /\ Degree(c) \in Nat /\ Degree(c) >= 3 /\ AccumulatorsIn(c) \in Nat
         /\ \A l \in 1 .. Len(c.lookups) : NumChunks(c, c.lookups[l]) \in Nat
         /\ BlindingFactors(c) \in Nat
  <1>1. c \in SystemType /\ ~ ChunksPanic(c)
    BY DEF IsKey
  <1>2. /\ \A kind \in Kinds : c.queries[kind] \in Seq(QueryType)
        /\ c.permutation \in Seq(Kinds \X Nat) /\ c.trashcans \in Seq(TrashType)
        /\ c.lookups \in Seq(LookupType)
    BY <1>1, SystemFields
  <1>3. /\ \A kind \in Kinds : IsSeq(c.queries[kind])
        /\ IsSeq(c.permutation) /\ IsSeq(c.trashcans) /\ IsSeq(c.lookups)
    BY <1>2, SeqInSet
  <1>4. Degree(c) \in Nat /\ Degree(c) >= 3
    BY <1>1, ChunksCounted, SystemDegree
  <1>5. AccumulatorsIn(c) \in Nat
    <2> DEFINE a == Len(c.permutation)
               b == Degree(c) - 2
    <2>1. a \in Nat
      BY <1>3, SeqFacts
    <2>2. b \in Nat /\ b >= 1
      BY <1>4
    <2>3. AccumulatorsIn(c) = (a + b - 1) \div b
      BY DEF AccumulatorsIn, CeilDiv
    <2> HIDE DEF a, b
    <2>4. (a + b - 1) \div b \in Nat
      BY <2>1, <2>2
    <2> QED
      BY <2>3, <2>4
  <1>6. \A l \in 1 .. Len(c.lookups) : NumChunks(c, c.lookups[l]) \in Nat
    <2>1. \A l \in 1 .. Len(c.lookups) : c.lookups[l] \in ToSet(c.lookups)
      BY <1>3, SeqFacts
    <2> QED
      BY <1>1, <2>1, ChunksCounted
  <1>7. BlindingFactors(c) \in Nat
    BY <1>1, Blinding
  <1> QED
    BY <1>2, <1>3, <1>4, <1>5, <1>6, <1>7

LEMMA LookupsOfKey ==
  ASSUME NEW c, IsKey(c)
  PROVE  IsSeq(LogupCommitmentsIn(c)) /\ IsSeq(LookupQueriesIn(c))
  <1> DEFINE m == Len(c.lookups)
             s == [l \in 1 .. m |-> LogupCommitmentsOf(c, l)]
             t == [l \in 1 .. m |-> LogupQueriesOf(c, l)]
  <1>1. m \in Nat /\ \A l \in 1 .. m : NumChunks(c, c.lookups[l]) \in Nat
    BY KeyFields, SeqFacts
  <1> HIDE DEF m
  <1>2. ASSUME NEW l \in 1 .. m
        PROVE  IsSeq(LogupCommitmentsOf(c, l)) /\ IsSeq(LogupQueriesOf(c, l))
    <2> DEFINE n == NumChunks(c, c.lookups[l])
               a == [j \in 1 .. n |-> <<"LogupHelper", l - 1, j - 1>>]
               b == <<Label("LogupAggregator", l)>>
               d == <<<<Label("LogupMultiplicities", l), 0>>>>
               e == [j \in 1 .. n |-> <<<<"LogupHelper", l - 1, j - 1>>, 0>>]
               f == <<<<Label("LogupAggregator", l), 0>>, <<Label("LogupAggregator", l), 1>>>>
    <2>1. n \in Nat
      BY <1>1
    <2>2. LogupCommitmentsOf(c, l) = a \o b /\ LogupQueriesOf(c, l) = d \o e \o f
      BY DEF LogupCommitmentsOf, LogupQueriesOf
    <2> HIDE DEF n
    <2>3. a = [j \in 1 .. n |-> a[j]] /\ e = [j \in 1 .. n |-> e[j]]
      OBVIOUS
    <2>4. IsSeq(b) /\ IsSeq(d) /\ IsSeq(f)
      BY OneElement, TwoElements
    <2> HIDE DEF a, b, d, e, f
    <2>5. IsSeq(a) /\ IsSeq(e)
      BY <2>1, <2>3, SeqMade
    <2> QED
      BY <2>2, <2>4, <2>5, JoinedTyped
  <1>3. LogupCommitmentsIn(c) = FlattenSeq(s) /\ LookupQueriesIn(c) = FlattenSeq(t)
    BY DEF LogupCommitmentsIn, LookupQueriesIn, m
  <1>4. /\ s = [l \in 1 .. m |-> s[l]] /\ t = [l \in 1 .. m |-> t[l]]
        /\ \A l \in 1 .. m : IsSeq(s[l]) /\ IsSeq(t[l])
    BY <1>2
  <1> HIDE DEF s, t
  <1> QED
    BY <1>1, <1>3, <1>4, FlattenedOver

LEMMA MadeOver ==
  ASSUME NEW s, IsSeq(s), NEW u, u = [i \in DOMAIN s |-> u[i]]
  PROVE  IsSeq(u)
  BY Mapped

LEMMA AccumulatorsOfKey ==
  ASSUME NEW c, IsKey(c), NEW n \in Nat
  PROVE  /\ IsSeq(AccumulatorQueriesIn(c, n))
         /\ IsSeq(FlattenSeq([i \in 1 .. n |-> AccumulatorEvals(c, n, i)]))
  <1> DEFINE s == [i \in 1 .. n |-> <<<<Label("PermutationAccumulator", i), 0>>,
                                      <<Label("PermutationAccumulator", i), 1>>>>]
             m == Largest({n - 1, 0})
             t == [i \in 1 .. m |-> <<Label("PermutationAccumulator", n - i), LastIn(c)>>]
             u == [i \in 1 .. n |-> AccumulatorEvals(c, n, i)]
  <1>1. m \in Nat
    <2>1. \E k \in {n - 1, 0} : \A j \in {n - 1, 0} : j <= k
      <3>1. n - 1 >= 0 \/ n = 0
        OBVIOUS
      <3> QED
        BY <3>1
    <2>2. m \in {n - 1, 0} /\ \A j \in {n - 1, 0} : j <= m
      BY <2>1 DEF Largest
    <2> HIDE DEF m
    <2> QED
      BY <2>2
  <1>2. AccumulatorQueriesIn(c, n) = FlattenSeq(s) \o t
    BY DEF AccumulatorQueriesIn
  <1>3. s = [i \in 1 .. n |-> s[i]] /\ \A i \in 1 .. n : IsSeq(s[i])
    BY TwoElements
  <1> HIDE DEF m
  <1>4. t = [i \in 1 .. m |-> t[i]]
    OBVIOUS
  <1>5. u = [i \in 1 .. n |-> u[i]] /\ \A i \in 1 .. n : u[i] = AccumulatorEvals(c, n, i)
    OBVIOUS
  <1>6. ASSUME NEW i \in 1 .. n
        PROVE  IsSeq(AccumulatorEvals(c, n, i))
    <2> DEFINE acc == Label("PermutationAccumulator", i)
               a == <<Eval(acc, 0), Eval(acc, 1)>>
               b == IF i < n THEN <<Eval(acc, LastIn(c))>> ELSE <<>>
    <2>1. AccumulatorEvals(c, n, i) = a \o b
      BY DEF AccumulatorEvals
    <2>2. IsSeq(a)
      BY TwoElements
    <2>3. IsSeq(b)
      BY OneElement, Nothing
    <2> HIDE DEF a, b
    <2> QED
      BY <2>1, <2>2, <2>3, JoinedTyped
  <1> HIDE DEF s, t, u
  <1>7. IsSeq(FlattenSeq(s))
    BY <1>3, FlattenedOver
  <1>8. IsSeq(t)
    BY <1>1, <1>4, SeqMade
  <1>9. IsSeq(FlattenSeq(u))
    BY <1>5, <1>6, FlattenedOver
  <1>10. IsSeq(FlattenSeq(s) \o t)
    BY <1>7, <1>8, JoinedTyped
  <1> QED
    BY <1>2, <1>9, <1>10 DEF u

(* The parts of the script of a key are sequences.                         *)
LEMMA CommittedTyped ==
  ASSUME NEW c, IsKey(c), NEW k
  PROVE  IsSeq(CommittedIn(c, k)) /\ IsSeq(OpenedIn(c)) /\ IsSeq(c.queries["advice"])
         /\ IsSeq(c.queries["fixed"]) /\ IsSeq(c.queries["instance"])
  <1>1. IsSeq(CommittedIn(c, k)) /\ IsSeq(OpenedIn(c))
    <2> DEFINE A == {q \in ToSet(c.queries["instance"]) : q[1] < k}
               B == {q \in ToSet(c.queries["fixed"]) : q[1] \notin SimpleColumns(c)}
    <2>1. /\ CommittedIn(c, k) = Chosen(c.queries["instance"], A)
          /\ OpenedIn(c) = Chosen(c.queries["fixed"], B)
      BY DEF CommittedIn, OpenedIn
    <2>2. IsSeq(c.queries["instance"]) /\ IsSeq(c.queries["fixed"])
      BY KeyFields DEF Kinds
    <2> HIDE DEF A, B
    <2> QED
      BY <2>1, <2>2, ChosenTyped
  <1>2. \A kind \in Kinds : IsSeq(c.queries[kind])
    BY KeyFields
  <1> QED
    BY <1>1, <1>2 DEF Kinds

LEMMA QueriesTyped ==
  ASSUME NEW c, IsKey(c), NEW k
  PROVE  IsSeq(QueriesIn(c, k))
  <1> DEFINE p == QueriesOf("Advice", c.queries["advice"])
             q == QueriesOf("CommittedInstance", CommittedIn(c, k))
             r == AccumulatorQueriesIn(c, AccumulatorsIn(c))
             s == LookupQueriesIn(c)
             t == [i \in DOMAIN c.trashcans |-> <<Label("Trash", i), 0>>]
             u == QueriesOf("Fixed", OpenedIn(c))
             v == [i \in DOMAIN c.permutation |-> <<Label("PermutationFixed", i), 0>>]
             w == <<<<Linearization, 0>>>>
  <1>1. QueriesIn(c, k) = p \o q \o r \o s \o t \o u \o v \o w
    BY DEF QueriesIn
  <1>2. IsSeq(p) /\ IsSeq(q) /\ IsSeq(u)
    BY CommittedTyped, QueryLists
  <1>3. IsSeq(r) /\ IsSeq(s)
    BY KeyFields, AccumulatorsOfKey, LookupsOfKey
  <1>4. IsSeq(w)
    BY OneElement
  <1>5. t = [i \in DOMAIN c.trashcans |-> t[i]] /\ v = [i \in DOMAIN c.permutation |-> v[i]]
    OBVIOUS
  <1>6. IsSeq(c.trashcans) /\ IsSeq(c.permutation)
    BY KeyFields
  <1> HIDE DEF p, q, r, s, t, u, v, w
  <1>7. IsSeq(t) /\ IsSeq(v)
    BY <1>5, <1>6, MadeOver
  <1> QED
    BY <1>1, <1>2, <1>3, <1>4, <1>7, JoinedTyped

LEMMA AllQueriesTyped ==
  ASSUME NEW c, IsKey(c), NEW k, NEW fs
  PROVE  IsSeq(DummiesIn(fs, QueriesIn(c, k))) /\ IsSeq(AllQueriesIn(c, fs, k))
  <1>1. IsSeq(QueriesIn(c, k))
    BY QueriesTyped
  <1>2. IsSeq(DummiesIn(fs, QueriesIn(c, k)))
    BY <1>1, DummiesTyped, Nothing DEF DummiesIn
  <1> QED
    BY <1>1, <1>2, JoinedTyped DEF AllQueriesIn

LEMMA EvalsTyped ==
  ASSUME NEW c, IsKey(c), NEW k
  PROVE  IsSeq(EvalsPart(c, k))
  <1> DEFINE p == EvalsOf("CommittedInstance", CommittedIn(c, k))
             q == EvalsOf("Advice", c.queries["advice"])
             r == EvalsOf("Fixed", OpenedIn(c))
             s == [i \in DOMAIN c.permutation |-> Eval(Label("PermutationFixed", i), 0)]
             t == FlattenSeq([i \in 1 .. AccumulatorsIn(c) |->
                                  AccumulatorEvals(c, AccumulatorsIn(c), i)])
             u == ToEvals(LookupQueriesIn(c))
             v == [i \in DOMAIN c.trashcans |-> Eval(Label("Trash", i), 0)]
  <1>1. EvalsPart(c, k) = p \o q \o r \o s \o t \o u \o v
    BY DEF EvalsPart
  <1>2. IsSeq(p) /\ IsSeq(q) /\ IsSeq(r)
    BY CommittedTyped, QueryLists
  <1>3. IsSeq(t)
    BY KeyFields, AccumulatorsOfKey
  <1>4. IsSeq(u)
    BY LookupsOfKey, QueryLists
  <1>5. s = [i \in DOMAIN c.permutation |-> s[i]] /\ v = [i \in DOMAIN c.trashcans |-> v[i]]
    OBVIOUS
  <1>6. IsSeq(c.trashcans) /\ IsSeq(c.permutation)
    BY KeyFields
  <1> HIDE DEF p, q, r, s, t, u, v
  <1>7. IsSeq(s) /\ IsSeq(v)
    BY <1>5, <1>6, MadeOver
  <1> QED
    BY <1>1, <1>2, <1>3, <1>4, <1>7, JoinedTyped

LEMMA ScriptTyped ==
  ASSUME NEW c, IsKey(c), NEW k, NEW fs, NEW d \in Nat
  PROVE  IsScript(ScriptOf(c, fs, k, d))
  <1> DEFINE sc == ScriptOf(c, fs, k, d)
             theta == Challenges(<<"theta">>)
             bgt   == Challenges(<<"beta", "gamma", "trash_challenge">>)
             yy    == Challenges(<<"y">>)
             xx    == Challenges(<<"x">>)
             nq    == IF "single-h-commitment" \in fs THEN 1 ELSE d
  <1>1. IsSeq(theta) /\ IsSeq(bgt) /\ IsSeq(yy) /\ IsSeq(xx)
    BY SomeChallenges
  <1>2. NumAdvice \in Nat /\ nq \in Nat
    BY ConfigurationAssumption
  <1>3. Len(c.lookups) \in Nat /\ Len(c.trashcans) \in Nat /\ AccumulatorsIn(c) \in Nat
    BY KeyFields, SeqFacts
  <1>4. /\ AdvicePart = Labels("Advice", NumAdvice) \o theta
        /\ MultiplicityPart(c) = Labels("LogupMultiplicities", Len(c.lookups)) \o bgt
        /\ ArgumentPart(c) = Labels("PermutationAccumulator", AccumulatorsIn(c))
                                 \o LogupCommitmentsIn(c) \o Labels("Trash", Len(c.trashcans)) \o yy
        /\ QuotientPart(fs, d) = Labels("Quotient", nq) \o xx
    BY DEF AdvicePart, MultiplicityPart, ArgumentPart, QuotientPart
  <1>5. sc[1] = AdvicePart /\ sc[2] = MultiplicityPart(c) /\ sc[3] = ArgumentPart(c)
        /\ sc[4] = QuotientPart(fs, d) /\ sc[5] = EvalsPart(c, k) /\ sc[6] = OpeningPart(c, fs, k)
        /\ Len(sc) = 6
    BY DEF ScriptOf
  <1>6. sc \in Seq({sc[1], sc[2], sc[3], sc[4], sc[5], sc[6]})
    BY DEF ScriptOf
  <1> HIDE DEF sc, theta, bgt, yy, xx, nq
  <1>7. IsSeq(sc)
    BY <1>6, SeqInSet
  <1>8. IsSeq(AdvicePart) /\ IsSeq(MultiplicityPart(c))
    BY <1>1, <1>2, <1>3, <1>4, LabelsTyped, JoinedTyped
  <1>9. IsSeq(ArgumentPart(c))
    <2>1. IsSeq(LogupCommitmentsIn(c))
      BY LookupsOfKey
    <2>2. IsSeq(Labels("PermutationAccumulator", AccumulatorsIn(c)))
          /\ IsSeq(Labels("Trash", Len(c.trashcans)))
      BY <1>3, LabelsTyped
    <2> QED
      BY <1>1, <1>4, <2>1, <2>2, JoinedTyped
  <1>10. IsSeq(QuotientPart(fs, d))
    BY <1>1, <1>2, <1>4, LabelsTyped, JoinedTyped
  <1>11. IsSeq(EvalsPart(c, k))
    BY EvalsTyped
  <1>12. IsSeq(OpeningPart(c, fs, k))
    <2>1. IsSeq(ToEvals(DummiesIn(fs, QueriesIn(c, k)))) /\ IsSeq(Opening(AllQueriesIn(c, fs, k)))
      BY AllQueriesTyped, QueryLists, OpeningTyped
    <2> QED
      BY <2>1, JoinedTyped DEF OpeningPart
  <1>13. \A n \in 1 .. 6 : IsSeq(sc[n])
    <2>1. \A n \in 1 .. 6 : n = 1 \/ n = 2 \/ n = 3 \/ n = 4 \/ n = 5 \/ n = 6
      OBVIOUS
    <2> QED
      BY <2>1, <1>5, <1>8, <1>9, <1>10, <1>11, <1>12
  <1> QED
    BY <1>5, <1>7, <1>13 DEF IsScript, sc

-----------------------------------------------------------------------------
(* What has been said once the first n parts of a script have been.        *)
Spoken(sc, n) ==
    IF n = 0 THEN <<>>
    ELSE IF n = 1 THEN sc[1]
    ELSE IF n = 2 THEN sc[1] \o sc[2]
    ELSE IF n = 3 THEN sc[1] \o sc[2] \o sc[3]
    ELSE IF n = 4 THEN sc[1] \o sc[2] \o sc[3] \o sc[4]
    ELSE IF n = 5 THEN sc[1] \o sc[2] \o sc[3] \o sc[4] \o sc[5]
    ELSE sc[1] \o sc[2] \o sc[3] \o sc[4] \o sc[5] \o sc[6]

SpokenBy(sc) ==
    /\ Spoken(sc, 0) = <<>>
    /\ \A n \in 1 .. 6 : Spoken(sc, n) = Spoken(sc, n - 1) \o sc[n]
    /\ \A n \in 0 .. 6 : IsSeq(Spoken(sc, n)) /\ IsSeq(Written(Spoken(sc, n)))
    /\ \A n \in 1 .. 6 : Written(Spoken(sc, n)) = Written(Spoken(sc, n - 1)) \o Written(sc[n])

LEMMA SpokenParts ==
  ASSUME NEW sc, IsScript(sc)
  PROVE  SpokenBy(sc)
  <1>1. /\ IsSeq(sc[1]) /\ IsSeq(sc[2]) /\ IsSeq(sc[3])
        /\ IsSeq(sc[4]) /\ IsSeq(sc[5]) /\ IsSeq(sc[6])
    BY DEF IsScript
  <1>2. /\ Spoken(sc, 0) = <<>>
        /\ Spoken(sc, 1) = sc[1] /\ Spoken(sc, 2) = Spoken(sc, 1) \o sc[2]
        /\ Spoken(sc, 3) = Spoken(sc, 2) \o sc[3] /\ Spoken(sc, 4) = Spoken(sc, 3) \o sc[4]
        /\ Spoken(sc, 5) = Spoken(sc, 4) \o sc[5] /\ Spoken(sc, 6) = Spoken(sc, 5) \o sc[6]
    <2>1. Spoken(sc, 0) = <<>> /\ Spoken(sc, 1) = sc[1]
      BY DEF Spoken
    <2>2. Spoken(sc, 2) = sc[1] \o sc[2]
      BY DEF Spoken
    <2>3. Spoken(sc, 3) = sc[1] \o sc[2] \o sc[3]
      BY DEF Spoken
    <2>4. Spoken(sc, 4) = sc[1] \o sc[2] \o sc[3] \o sc[4]
      BY DEF Spoken
    <2>5. Spoken(sc, 5) = sc[1] \o sc[2] \o sc[3] \o sc[4] \o sc[5]
      BY DEF Spoken
    <2>6. Spoken(sc, 6) = sc[1] \o sc[2] \o sc[3] \o sc[4] \o sc[5] \o sc[6]
      BY DEF Spoken
    <2> QED
      BY <2>1, <2>2, <2>3, <2>4, <2>5, <2>6
  <1>3. Spoken(sc, 1) = Spoken(sc, 0) \o sc[1]
    BY <1>1, <1>2, JoinedNothing
  <1>4. /\ IsSeq(Spoken(sc, 0)) /\ IsSeq(Spoken(sc, 1)) /\ IsSeq(Spoken(sc, 2))
        /\ IsSeq(Spoken(sc, 3)) /\ IsSeq(Spoken(sc, 4)) /\ IsSeq(Spoken(sc, 5))
        /\ IsSeq(Spoken(sc, 6))
    BY ZenonT(40), <1>1, <1>2, Nothing, JoinedTyped
  <1>5. /\ \A n \in 0 .. 6 : n = 0 \/ n = 1 \/ n = 2 \/ n = 3 \/ n = 4 \/ n = 5 \/ n = 6
        /\ \A n \in 1 .. 6 : n = 1 \/ n = 2 \/ n = 3 \/ n = 4 \/ n = 5 \/ n = 6
        /\ 1 - 1 = 0 /\ 2 - 1 = 1 /\ 3 - 1 = 2 /\ 4 - 1 = 3 /\ 5 - 1 = 4 /\ 6 - 1 = 5
        /\ \A n \in 1 .. 6 : n - 1 \in 0 .. 6
    OBVIOUS
  <1>6. \A n \in 0 .. 6 : IsSeq(Spoken(sc, n))
    BY <1>4, <1>5
  <1>7. \A n \in 1 .. 6 : Spoken(sc, n) = Spoken(sc, n - 1) \o sc[n] /\ IsSeq(sc[n])
    BY <1>1, <1>2, <1>3, <1>5
  <1>8. \A n \in 0 .. 6 : IsSeq(Written(Spoken(sc, n)))
    BY <1>6, WrittenTyped
  <1>9. ASSUME NEW n \in 1 .. 6
        PROVE  Written(Spoken(sc, n)) = Written(Spoken(sc, n - 1)) \o Written(sc[n])
    <2>1. IsSeq(Spoken(sc, n - 1)) /\ IsSeq(sc[n])
      BY <1>5, <1>6, <1>7
    <2> QED
      BY <1>7, <2>1, WrittenJoined
  <1> QED
    BY <1>2, <1>6, <1>7, <1>8, <1>9 DEF SpokenBy

(* The log of a side that said n parts of a script after a head, and what  *)
(* it wrote.                                                               *)
LEMMA SaysNext ==
  ASSUME NEW sc, IsScript(sc), NEW n \in 0 .. 5, NEW head, IsSeq(head)
  PROVE  /\ (head \o Spoken(sc, n)) \o sc[n + 1] = head \o Spoken(sc, n + 1)
         /\ Written(Spoken(sc, n)) \o Written(sc[n + 1]) = Written(Spoken(sc, n + 1))
         /\ IsSeq(sc[n + 1])
  <1>1. n + 1 \in 1 .. 6 /\ (n + 1) - 1 = n /\ n \in 0 .. 6
    OBVIOUS
  <1>2. SpokenBy(sc) /\ IsSeq(sc[n + 1])
    BY <1>1, SpokenParts DEF IsScript
  <1>3. /\ Spoken(sc, n + 1) = Spoken(sc, n) \o sc[n + 1] /\ IsSeq(Spoken(sc, n))
        /\ Written(Spoken(sc, n + 1)) = Written(Spoken(sc, n)) \o Written(sc[n + 1])
    BY <1>1, <1>2 DEF SpokenBy
  <1>4. (head \o Spoken(sc, n)) \o sc[n + 1] = head \o (Spoken(sc, n) \o sc[n + 1])
    <2> DEFINE s == Spoken(sc, n)
               u == sc[n + 1]
    <2>1. IsSeq(s) /\ IsSeq(u)
      BY <1>2, <1>3
    <2> HIDE DEF s, u
    <2>2. (head \o s) \o u = head \o (s \o u)
      BY <2>1, JoinedThen
    <2> QED
      BY <2>2 DEF s, u
  <1> QED
    BY <1>2, <1>3, <1>4

(* What is written in the end continues what has been written so far.      *)
Continues(w, s, t) ==
    /\ Len(s) + Len(t) <= Len(w)
    /\ \A i \in 1 .. Len(t) : Len(s) + i \in 1 .. Len(w) /\ w[Len(s) + i] = t[i]

LEMMA SpokenGrows ==
  ASSUME NEW sc, IsScript(sc)
  PROVE  \A n \in 0 .. 6 : /\ IsPrefix(Spoken(sc, n), Spoken(sc, 6))
                           /\ IsPrefix(Written(Spoken(sc, n)), Written(Spoken(sc, 6)))
  <1> DEFINE f == [n \in 0 .. 6 |-> Spoken(sc, n)]
             g == [n \in 0 .. 6 |-> Written(Spoken(sc, n))]
  <1>1. SpokenBy(sc)
    BY SpokenParts
  <1>2. \A n \in 0 .. 6 : IsSeq(f[n]) /\ IsSeq(g[n])
    BY <1>1 DEF SpokenBy
  <1>3. ASSUME NEW n \in 1 .. 6
        PROVE  IsPrefix(f[n - 1], f[n]) /\ IsPrefix(g[n - 1], g[n])
    <2> DEFINE m == n - 1
    <2>1. m \in 0 .. 6 /\ n \in 0 .. 6 /\ IsSeq(sc[n]) /\ IsSeq(Written(sc[n]))
      BY WrittenTyped DEF IsScript
    <2>2. f[n] = f[m] \o sc[n] /\ g[n] = g[m] \o Written(sc[n])
      <3>1. /\ Spoken(sc, n) = Spoken(sc, m) \o sc[n]
            /\ Written(Spoken(sc, n)) = Written(Spoken(sc, m)) \o Written(sc[n])
        BY <1>1 DEF SpokenBy
      <3> HIDE DEF m
      <3> QED
        BY <2>1, <3>1
    <2>3. IsSeq(f[m]) /\ IsSeq(g[m])
      BY <1>2, <2>1
    <2> HIDE DEF f, g, m
    <2>4. IsPrefix(f[m], f[n]) /\ IsPrefix(g[m], g[n])
      BY <2>1, <2>2, <2>3, PrefixOfJoined
    <2> QED
      BY <2>4 DEF m
  <1>4. \A n \in 0 .. 6 : f[n] = Spoken(sc, n) /\ g[n] = Written(Spoken(sc, n))
    OBVIOUS
  <1> HIDE DEF f, g
  <1>5. (\A n \in 0 .. 6 : IsPrefix(f[n], f[6])) /\ \A n \in 0 .. 6 : IsPrefix(g[n], g[6])
    BY <1>2, <1>3, GrowingLoop
  <1>6. 6 \in 0 .. 6
    OBVIOUS
  <1> QED
    BY <1>4, <1>5, <1>6

LEMMA WrittenContinues ==
  ASSUME NEW sc, IsScript(sc), NEW n \in 0 .. 5
  PROVE  Continues(Written(Spoken(sc, 6)), Written(Spoken(sc, n)), Written(sc[n + 1]))
  <1> DEFINE w == Written(Spoken(sc, 6))
             s == Written(Spoken(sc, n))
             t == Written(sc[n + 1])
             u == Written(Spoken(sc, n + 1))
  <1>1. n + 1 \in 0 .. 6 /\ n \in 0 .. 6 /\ 6 \in 0 .. 6 /\ SpokenBy(sc) /\ IsSeq(sc[n + 1])
    BY SpokenParts DEF IsScript
  <1>2. IsSeq(s) /\ IsSeq(u) /\ IsSeq(w)
    BY <1>1 DEF SpokenBy
  <1>3. IsSeq(t)
    BY <1>1, WrittenTyped
  <1>4. u = s \o t
    BY SaysNext, Nothing
  <1>5. IsPrefix(u, w)
    BY <1>1, SpokenGrows
  <1> HIDE DEF s, t, u, w
  <1>6. Len(u) = Len(s) + Len(t) /\ Len(s) \in Nat /\ Len(t) \in Nat /\ Len(w) \in Nat
        /\ \A i \in 1 .. Len(t) : u[Len(s) + i] = t[i]
    BY <1>2, <1>3, <1>4, Joined, SeqFacts
  <1>7. Len(u) <= Len(w) /\ \A i \in 1 .. Len(u) : u[i] = w[i]
    BY <1>2, <1>5, PrefixElements
  <1>8. \A i \in 1 .. Len(t) : Len(s) + i \in 1 .. Len(u) /\ Len(s) + i \in 1 .. Len(w)
    BY <1>6, <1>7
  <1>9. Continues(w, s, t)
    BY <1>6, <1>7, <1>8 DEF Continues
  <1> QED
    BY <1>9 DEF s, t, w

-----------------------------------------------------------------------------
(* The prover says the script of its key and statement.                    *)
LEMMA QuotientOf ==
  ASSUME NEW a \in Nat, NEW b \in Nat \ {0}
  PROVE  /\ a \div b \in Nat
         /\ \A q \in Nat : q * b \in Nat /\ (q * b <= a <=> q <= a \div b)
  <1> DEFINE d == a \div b
  <1>1. d \in Nat /\ d * b \in Nat /\ d * b <= a /\ a < d * b + b
    OBVIOUS
  <1> HIDE DEF d
  <1>2. ASSUME NEW q \in Nat
        PROVE  q * b \in Nat /\ (q * b <= a <=> q <= d)
    <2>1. q * b \in Nat
      OBVIOUS
    <2>2. CASE q <= d
      <3>1. q * b <= d * b
        BY <1>1, <2>2
      <3> QED
        BY <1>1, <2>1, <2>2, <3>1
    <2>3. CASE ~ (q <= d)
      <3>1. q >= d + 1
        BY <1>1, <2>3
      <3>2. q * b >= (d + 1) * b /\ (d + 1) * b = d * b + b
        BY <1>1, <3>1
      <3>3. ~ (q * b <= a)
        BY <1>1, <2>1, <3>2
      <3> QED
        BY <2>1, <2>3, <3>3
    <2> QED
      BY <2>2, <2>3
  <1> QED
    BY <1>1, <1>2 DEF d

LEMMA ChunksAreCounted ==
  ASSUME NEW n \in Nat, NEW b \in Nat \ {0}
  PROVE  Cardinality({(i - 1) \div b : i \in 1 .. n}) = CeilDiv(n, b)
  <1> DEFINE m == CeilDiv(n, b)
             S == {(i - 1) \div b : i \in 1 .. n}
  <1>1. n + b - 1 \in Nat /\ m = (n + b - 1) \div b
    BY DEF CeilDiv
  <1>2. m \in Nat /\ \A q \in Nat : q * b \in Nat /\ (q * b <= n + b - 1 <=> q <= m)
    BY <1>1, QuotientOf
  <1> HIDE DEF m
  <1>3. ASSUME NEW i \in 1 .. n
        PROVE  (i - 1) \div b \in 0 .. m - 1
    <2> DEFINE q == (i - 1) \div b
    <2>1. i - 1 \in Nat
      OBVIOUS
    <2>2. q \in Nat /\ q * b <= i - 1
      BY <2>1, QuotientOf
    <2> HIDE DEF q
    <2>3. q + 1 \in Nat /\ q * b \in Nat /\ (q + 1) * b = q * b + b
      BY <2>2
    <2>4. (q + 1) * b <= n + b - 1
      BY <2>1, <2>2, <2>3
    <2>5. q + 1 <= m
      BY <1>2, <2>3, <2>4
    <2> QED
      BY <1>2, <2>2, <2>5 DEF q
  <1>4. ASSUME NEW q \in 0 .. m - 1
        PROVE  \E i \in 1 .. n : (i - 1) \div b = q
    <2> DEFINE i == q * b + 1
    <2>1. q \in Nat /\ q + 1 \in Nat /\ q + 1 <= m
      BY <1>2
    <2>2. q * b \in Nat /\ (q + 1) * b = q * b + b /\ (q + 1) * b <= n + b - 1
      BY <1>2, <2>1
    <2>3. i \in 1 .. n /\ i - 1 = q * b
      BY <2>2
    <2>4. (q * b) \div b = q
      <3> DEFINE a == q * b
                 d == a \div b
      <3>1. a \in Nat
        BY <2>2
      <3>2. d \in Nat /\ (\A r \in Nat : r * b <= a <=> r <= d)
        BY <3>1, QuotientOf
      <3>3. q <= d
        BY <2>1, <3>2
      <3>4. d * b <= q * b /\ d * b \in Nat
        BY <3>2
      <3> HIDE DEF d, a
      <3>5. d <= q
        <4>1. CASE d >= q + 1
          <5>1. d * b >= (q + 1) * b
            BY <2>1, <3>2, <4>1
          <5> QED
            BY <2>2, <3>4, <5>1
        <4> QED
          BY <2>1, <3>2, <4>1
      <3> QED
        BY <2>1, <3>2, <3>3, <3>5 DEF d, a
    <2> HIDE DEF i
    <2> QED
      BY <2>3, <2>4
  <1>5. S = 0 .. m - 1
    BY <1>3, <1>4
  <1>6. Cardinality(0 .. m - 1) = m
    <2>1. 0 \in Int /\ m - 1 \in Int
      BY <1>2
    <2>2. Cardinality(0 .. m - 1) = IF 0 > m - 1 THEN 0 ELSE m - 1 - 0 + 1
      BY <2>1, FS_Interval
    <2> QED
      BY <1>2, <2>2
  <1> QED
    BY <1>5, <1>6 DEF m

LEMMA ProverCountsChunks ==
  ASSUME IsKey(cs)
  PROVE  PermutationChunks = AccumulatorsIn(cs) /\ NumAccumulators = AccumulatorsIn(cs)
  <1> DEFINE n == Len(cs.permutation)
             b == Degree(cs) - 2
  <1>1. n \in Nat /\ b \in Nat \ {0} /\ DOMAIN cs.permutation = 1 .. n
    BY KeyFields, SeqFacts
  <1>2. /\ PermutationChunks = Cardinality({(i - 1) \div b : i \in 1 .. n})
        /\ AccumulatorsIn(cs) = CeilDiv(n, b) /\ NumAccumulators = CeilDiv(n, b)
    BY <1>1 DEF PermutationChunks, AccumulatorsIn, NumAccumulators, ChunkLen
  <1> HIDE DEF n, b
  <1> QED
    BY <1>1, <1>2, ChunksAreCounted

LEMMA SameLists ==
  ASSUME IsKey(cs)
  PROVE  /\ LogupCommitments = LogupCommitmentsIn(cs) /\ LookupQueries = LookupQueriesIn(cs)
         /\ OpenedFixedQueries = OpenedIn(cs) /\ XLast = LastIn(cs)
         /\ \A k : CommittedQueries(k) = CommittedIn(cs, k)
         /\ \A n : AccumulatorQueries(n) = AccumulatorQueriesIn(cs, n)
         /\ \A qs : DummyQueries(qs) = DummiesIn(features, qs)
  <1>1. LogupCommitments = LogupCommitmentsIn(cs)
    BY DEF LogupCommitments, LogupCommitmentsIn, LogupCommitmentsOf, NumLookups
  <1>2. LookupQueries = LookupQueriesIn(cs)
    BY DEF LookupQueries, LookupQueriesIn, LogupQueries, LogupQueriesOf, NumLookups
  <1>3. OpenedFixedQueries = OpenedIn(cs)
    BY DEF OpenedFixedQueries, OpenedIn, IsOpened
  <1>4. XLast = LastIn(cs)
    BY DEF XLast, LastIn
  <1>5. \A k : CommittedQueries(k) = CommittedIn(cs, k)
    BY DEF CommittedQueries, CommittedIn
  <1>6. \A n : AccumulatorQueries(n) = AccumulatorQueriesIn(cs, n)
    BY DEF AccumulatorQueries, AccumulatorQueriesIn, XLast, LastIn
  <1>7. \A qs : DummyQueries(qs) = DummiesIn(features, qs)
    BY DEF DummyQueries, DummiesIn
  <1> QED
    BY <1>1, <1>2, <1>3, <1>4, <1>5, <1>6, <1>7

LEMMA ProverQueries ==
  ASSUME IsKey(cs)
  PROVE  ComputeQueries = QueriesIn(cs, statement.committed)
  <1>1. /\ CommittedQueries(statement.committed) = CommittedIn(cs, statement.committed)
        /\ AccumulatorQueries(PermutationChunks) = AccumulatorQueriesIn(cs, AccumulatorsIn(cs))
        /\ LookupQueries = LookupQueriesIn(cs) /\ OpenedFixedQueries = OpenedIn(cs)
    BY SameLists, ProverCountsChunks
  <1> QED
    BY <1>1 DEF ComputeQueries, QueriesIn

LEMMA ProverEvals ==
  ASSUME IsKey(cs)
  PROVE  WriteEvals <=> /\ ProverAt("evals")
                        /\ Write(EvalsPart(cs, statement.committed), "opening")
                        /\ UNCHANGED p_queries
  <1>1. /\ CommittedQueries(statement.committed) = CommittedIn(cs, statement.committed)
        /\ LookupQueries = LookupQueriesIn(cs) /\ OpenedFixedQueries = OpenedIn(cs)
        /\ PermutationChunks = AccumulatorsIn(cs) /\ XLast = LastIn(cs)
    BY SameLists, ProverCountsChunks
  <1>2. [i \in 1 .. PermutationChunks |-> PermutationEvals(i)]
            = [i \in 1 .. AccumulatorsIn(cs) |-> AccumulatorEvals(cs, AccumulatorsIn(cs), i)]
    BY <1>1 DEF PermutationEvals, AccumulatorEvals
  <1>3. EvalsPart(cs, statement.committed)
            = EvalsOf("CommittedInstance", CommittedQueries(statement.committed))
                 \o EvalsOf("Advice", cs.queries["advice"])
                 \o EvalsOf("Fixed", OpenedFixedQueries)
                 \o [i \in DOMAIN cs.permutation |-> Eval(Label("PermutationFixed", i), 0)]
                 \o FlattenSeq([i \in 1 .. PermutationChunks |-> PermutationEvals(i)])
                 \o ToEvals(LookupQueries)
                 \o [i \in DOMAIN cs.trashcans |-> Eval(Label("Trash", i), 0)]
    BY <1>1, <1>2 DEF EvalsPart
  <1> QED
    BY <1>3 DEF WriteEvals

-----------------------------------------------------------------------------
(* The elements of a sequence that are chosen, counted: each is in the     *)
(* place its count gives, and the others are as many as are left over.     *)
ChosenAt(s, A, i) == IF s[i] \in A THEN 1 ELSE 0
Counts(c, s, A) ==
    /\ c[0] = 0 /\ \A i \in 0 .. Len(s) : c[i] \in Nat /\ c[i] <= i
    /\ \A i \in 1 .. Len(s) : c[i] = c[i - 1] + ChosenAt(s, A, i)
    /\ \A i \in 0 .. Len(s) : c[i] <= c[Len(s)]
    /\ c[Len(s)] = Len(Chosen(s, A))
    /\ \A i \in 1 .. Len(s) : s[i] \in A => c[i] >= 1 /\ Chosen(s, A)[c[i]] = s[i]

LEMMA ChosenSteps ==
  ASSUME NEW s, IsSeq(s), NEW A, NEW f, ChosenBy(f, s, A), NEW c, c = [i \in 0 .. Len(s) |-> Len(f[i])]
  PROVE  Counts(c, s, A)
  <1> DEFINE n == Len(s)
             w == Chosen(s, A)
  <1>1. n \in Nat /\ w = f[n] /\ f[0] = <<>> /\ 0 \in 0 .. n /\ n \in 0 .. n
    BY SeqFacts DEF ChosenBy
  <1>2. \A i \in 0 .. n : IsSeq(f[i]) /\ Len(f[i]) \in Nat
    <2>1. \A i \in 0 .. n : IsSeq(f[i])
      BY SeqInSet DEF ChosenBy
    <2> QED
      BY <2>1, SeqFacts
  <1>3. \A i \in 0 .. n : c[i] = Len(f[i]) /\ c[i] \in Nat
    BY <1>2
  <1>4. ASSUME NEW i \in 1 .. n
        PROVE  /\ c[i] = c[i - 1] + ChosenAt(s, A, i) /\ IsPrefix(f[i - 1], f[i])
               /\ s[i] \in A => c[i] >= 1 /\ f[i][c[i]] = s[i]
    <2> DEFINE j == i - 1
               t == f[j]
    <2>1. j \in 0 .. n /\ i \in 0 .. n
      BY <1>1
    <2>2. f[i] = Keep(t, s[i], A)
      BY DEF ChosenBy
    <2>3. IsSeq(t) /\ c[j] = Len(t) /\ c[i] = Len(f[i]) /\ c[j] \in Nat
      BY <1>2, <1>3, <2>1
    <2> HIDE DEF j, t
    <2>4. CASE s[i] \in A
      <3>1. f[i] = Append(t, s[i]) /\ ChosenAt(s, A, i) = 1
        BY <2>2, <2>4 DEF Keep, ChosenAt
      <3>2. /\ Len(Append(t, s[i])) = Len(t) + 1 /\ Append(t, s[i])[Len(t) + 1] = s[i]
            /\ IsPrefix(t, Append(t, s[i]))
        BY <2>3, Longer, PrefixOfLonger
      <3>3. c[i] = c[j] + 1 /\ f[i][c[i]] = s[i] /\ IsPrefix(t, f[i])
        BY <2>3, <3>1, <3>2
      <3> QED
        BY <2>3, <3>1, <3>3 DEF j, t
    <2>5. CASE s[i] \notin A
      <3>1. f[i] = t /\ ChosenAt(s, A, i) = 0
        BY <2>2, <2>5 DEF Keep, ChosenAt
      <3>2. IsPrefix(t, t)
        BY <2>3, PrefixOfLonger
      <3>3. c[i] = c[j] + 0 /\ IsPrefix(t, f[i])
        BY <2>3, <3>1, <3>2
      <3> QED
        BY <2>5, <3>1, <3>3 DEF j, t
    <2> QED
      BY <2>4, <2>5
  <1>5. \A i \in 0 .. n : IsPrefix(f[i], f[n])
    <2>1. (\A i \in 0 .. n : IsSeq(f[i])) /\ \A i \in 1 .. n : IsPrefix(f[i - 1], f[i])
      BY <1>2, <1>4
    <2> HIDE DEF n
    <2> QED
      BY <1>1, <2>1, GrowingLoop
  <1>6. ASSUME NEW i \in 0 .. n
        PROVE  c[i] <= c[n] /\ \A k \in 1 .. c[i] : f[i][k] = w[k]
    <2>1. IsSeq(f[i]) /\ IsSeq(f[n]) /\ IsPrefix(f[i], f[n])
      BY <1>1, <1>2, <1>5
    <2>2. Len(f[i]) <= Len(f[n]) /\ \A k \in 1 .. Len(f[i]) : f[i][k] = f[n][k]
      BY <2>1, PrefixElements
    <2> QED
      BY <1>1, <1>3, <2>2
  <1>7. c[0] = 0
    BY <1>1, <1>3, Nothing
  <1>8. \A i \in 0 .. n : c[i] <= i
    <2> DEFINE P == {i \in 0 .. n : c[i] <= i}
    <2>1. 0 \in P
      BY <1>1, <1>7
    <2>2. ASSUME NEW i \in 1 .. n, i - 1 \in P
          PROVE  i \in P
      <3> DEFINE j == i - 1
      <3>1. j \in 0 .. n /\ i \in 0 .. n /\ i \in Int /\ j = i - 1
        BY <1>1
      <3>2. c[i] = c[j] + ChosenAt(s, A, i)
        BY <1>4
      <3>3. c[j] <= j
        BY <2>2
      <3> HIDE DEF j
      <3>4. j \in 0 .. n /\ i \in 0 .. n /\ c[i] = c[j] + ChosenAt(s, A, i) /\ c[j] <= j
        BY <3>1, <3>2, <3>3
      <3>5. c[j] \in Nat
        BY <1>3, <3>4
      <3>6. ChosenAt(s, A, i) \in {0, 1}
        BY DEF ChosenAt
      <3>7. c[i] <= i
        BY <3>1, <3>4, <3>5, <3>6
      <3> QED
        BY <3>4, <3>7
    <2>3. 0 .. n \subseteq P
      <3> HIDE DEF P, n
      <3> QED
        BY <1>1, <2>1, <2>2, InductionUpTo
    <2> QED
      BY <2>3
  <1>9. ASSUME NEW i \in 1 .. n, s[i] \in A
        PROVE  c[i] >= 1 /\ w[c[i]] = s[i]
    <2>1. i \in 0 .. n
      BY <1>1
    <2>2. c[i] >= 1 /\ f[i][c[i]] = s[i]
      BY <1>4, <1>9
    <2>3. i \in 0 .. n /\ c[i] >= 1 /\ f[i][c[i]] = s[i]
      BY <2>1, <2>2
    <2>4. c[i] >= 1 /\ f[i][c[i]] = s[i] /\ i \in 0 .. n /\ c[i] \in Nat
      BY <1>3, <2>3
    <2>5. c[i] \in 1 .. c[i] /\ \A k \in 1 .. c[i] : f[i][k] = w[k]
      BY <1>6, <2>4
    <2> QED
      BY <2>4, <2>5
  <1>10. c[n] = Len(w)
    BY <1>1, <1>3
  <1> QED
    BY <1>3, <1>4, <1>6, <1>7, <1>8, <1>9, <1>10 DEF Counts

LEMMA ChosenCounted ==
  ASSUME NEW s, IsSeq(s), NEW A
  PROVE  \E c : Counts(c, s, A)
  <1>1. PICK f : ChosenBy(f, s, A)
    BY ChosenLoop
  <1> DEFINE c == [i \in 0 .. Len(s) |-> Len(f[i])]
  <1>2. Counts(c, s, A)
    <2>1. c = [i \in 0 .. Len(s) |-> Len(f[i])]
      OBVIOUS
    <2> HIDE DEF c
    <2> QED
      BY <1>1, <2>1, ChosenSteps
  <1> QED
    BY <1>2

LEMMA Inserted ==
  ASSUME NEW s, IsSeq(s), NEW i \in 1 .. Len(s) + 1, NEW e, NEW t, t = InsertAt(s, i, e)
  PROVE  /\ IsSeq(t) /\ Len(t) = Len(s) + 1 /\ t[i] = e
         /\ \A k \in 1 .. i - 1 : t[k] = s[k]
         /\ \A k \in i + 1 .. Len(s) + 1 : t[k] = s[k - 1]
  <1> DEFINE n == Len(s)
             S == ToSet(s)
             a == SubSeq(s, 1, i - 1)
             b == SubSeq(s, i, n)
             d == <<e>>
  <1>1. n \in Nat /\ i \in Int /\ i >= 1 /\ i <= n + 1 /\ \A k \in 1 .. n : s[k] \in S
    BY SeqFacts
  <1>2. t = (a \o d) \o b
    BY DEF InsertAt
  <1> HIDE DEF n, S
  <1>3. IsSeq(a) /\ Len(a) = i - 1 /\ \A k \in 1 .. i - 1 : a[k] = s[k]
    <2>1. \A k \in 1 .. i - 1 : s[k] \in S
      BY <1>1
    <2> DEFINE l == i - 1
    <2>2. l \in Int /\ l >= 0
      BY <1>1
    <2> HIDE DEF l
    <2>3. /\ SubSeq(s, 1, l) \in Seq(S)
          /\ Len(SubSeq(s, 1, l)) = IF 1 <= l THEN l - 1 + 1 ELSE 0
          /\ \A k \in 1 .. l - 1 + 1 : SubSeq(s, 1, l)[k] = s[1 + k - 1]
      BY <2>1, <2>2, SubSeqProperties DEF l
    <2> DEFINE u == SubSeq(s, 1, l)
    <2>4. u \in Seq(S) /\ Len(u) = (IF 1 <= l THEN l - 1 + 1 ELSE 0)
          /\ \A k \in 1 .. l - 1 + 1 : u[k] = s[1 + k - 1]
      BY <2>3
    <2> HIDE DEF u
    <2>5. Len(u) = l /\ \A k \in 1 .. l : u[k] = s[k]
      <3>1. l - 1 + 1 = l /\ \A k \in 1 .. l : 1 + k - 1 = k
        BY <2>2
      <3> QED
        BY <2>2, <2>4, <3>1
    <2>6. IsSeq(u)
      BY <2>4, SeqInSet
    <2>7. a = u
      BY DEF u, l
    <2> QED
      BY <2>5, <2>6, <2>7 DEF l
  <1>4. IsSeq(b) /\ Len(b) = n - i + 1 /\ \A k \in 1 .. n - i + 1 : b[k] = s[i + k - 1]
    <2>1. \A k \in i .. n : s[k] \in S
      BY <1>1
    <2>2. /\ b \in Seq(S)
          /\ Len(b) = IF i <= n THEN n - i + 1 ELSE 0
          /\ \A k \in 1 .. n - i + 1 : b[k] = s[i + k - 1]
      BY <1>1, <2>1, SubSeqProperties
    <2>3. IsSeq(b)
      BY <2>2, SeqInSet
    <2> HIDE DEF b
    <2> QED
      BY <1>1, <2>2, <2>3
  <1>5. IsSeq(d) /\ Len(d) = 1 /\ d[1] = e
    BY OneElement
  <1> HIDE DEF a, b, d
  <1> DEFINE ad == a \o d
  <1>6. /\ IsSeq(ad) /\ Len(ad) = i /\ ad[i] = e
        /\ \A k \in 1 .. i - 1 : ad[k] = s[k]
    <2>1. /\ IsSeq(ad) /\ Len(ad) = Len(a) + Len(d)
          /\ (\A k \in 1 .. Len(a) : ad[k] = a[k]) /\ \A k \in 1 .. Len(d) : ad[Len(a) + k] = d[k]
      <3>1. IsSeq(a) /\ IsSeq(d)
        BY <1>3, <1>5
      <3>2. /\ IsSeq(ad) /\ Len(ad) = Len(a) + Len(d)
            /\ \A k \in 1 .. Len(a) : ad[k] = a[k]
        BY <3>1, Joined
      <3>3. \A k \in 1 .. Len(d) : ad[Len(a) + k] = d[k]
        BY <3>1, SecondElements
      <3> QED
        BY <3>2, <3>3
    <2> HIDE DEF ad
    <2>2. Len(ad) = i /\ 1 \in 1 .. Len(d) /\ Len(a) + 1 = i
      BY <1>1, <1>3, <1>5, <2>1
    <2>3. ad[i] = e
      <3>1. ad[Len(a) + 1] = d[1]
        BY <2>1, <2>2
      <3> QED
        BY <1>5, <2>2, <3>1
    <2> QED
      BY <1>3, <2>1, <2>2, <2>3
  <1> HIDE DEF ad
  <1>7. t = ad \o b
    BY <1>2 DEF ad
  <1>8. /\ IsSeq(t) /\ Len(t) = Len(ad) + Len(b)
        /\ \A k \in 1 .. Len(ad) : t[k] = ad[k]
        /\ \A k \in 1 .. Len(b) : t[Len(ad) + k] = b[k]
    <2>1. IsSeq(ad) /\ IsSeq(b)
      BY <1>4, <1>6
    <2>2. /\ IsSeq(ad \o b) /\ Len(ad \o b) = Len(ad) + Len(b)
          /\ \A k \in 1 .. Len(ad) : (ad \o b)[k] = ad[k]
          /\ \A k \in 1 .. Len(b) : (ad \o b)[Len(ad) + k] = b[k]
      <3>1. /\ IsSeq(ad \o b) /\ Len(ad \o b) = Len(ad) + Len(b)
            /\ \A k \in 1 .. Len(ad) : (ad \o b)[k] = ad[k]
        BY <2>1, Joined
      <3>2. \A k \in 1 .. Len(b) : (ad \o b)[Len(ad) + k] = b[k]
        BY <2>1, SecondElements
      <3> QED
        BY <3>1, <3>2
    <2> QED
      BY <1>7, <2>2
  <1>9. Len(t) = n + 1 /\ t[i] = e /\ \A k \in 1 .. i - 1 : t[k] = s[k]
    BY <1>1, <1>4, <1>6, <1>8
  <1>10. ASSUME NEW k \in i + 1 .. n + 1
         PROVE  t[k] = s[k - 1]
    <2> DEFINE j == k - i
    <2>1. j \in 1 .. n - i + 1 /\ i + j = k /\ i + j - 1 = k - 1
      BY <1>1
    <2> HIDE DEF j
    <2>2. t[i + j] = b[j] /\ b[j] = s[i + j - 1]
      BY <1>4, <1>6, <1>8, <2>1
    <2> QED
      BY <2>1, <2>2
  <1> QED
    BY <1>8, <1>9, <1>10 DEF n

(* Places made for the elements that are not chosen put the others, in     *)
(* their order, back at their positions.                                   *)
MakesPlaces(s, q, A) ==
    \A i \in 1 .. Len(q) : s[i] = IF q[i] \in A THEN s[i - 1] ELSE InsertAt(s[i - 1], i, One)
SlotOf(c, q, A, k) == IF q[k] \in A THEN c[k] ELSE One

LEMMA PlacesMade ==
  ASSUME NEW q, IsSeq(q), NEW A, NEW c, Counts(c, q, A), NEW s, MakesPlaces(s, q, A),
         NEW m \in Nat, m = c[Len(q)], s[0] = [j \in 1 .. m |-> j]
  PROVE  /\ IsSeq(s[Len(q)]) /\ Len(s[Len(q)]) = Len(q)
         /\ \A k \in 1 .. Len(q) : s[Len(q)][k] = SlotOf(c, q, A, k)
  <1> DEFINE n == Len(q)
             Is(i) == /\ IsSeq(s[i]) /\ Len(s[i]) = m + (i - c[i])
                      /\ \A k \in 1 .. i : s[i][k] = SlotOf(c, q, A, k)
                      /\ \A k \in i + 1 .. m + (i - c[i]) : s[i][k] = k - (i - c[i])
             P == {i \in 0 .. n : Is(i)}
  <1>1. n \in Nat /\ 0 \in 0 .. n /\ n \in 0 .. n
    BY SeqFacts
  <1>2. /\ c[0] = 0 /\ \A i \in 0 .. n : c[i] \in Nat /\ c[i] <= i /\ c[i] <= m
        /\ \A i \in 1 .. n : c[i] = c[i - 1] + ChosenAt(q, A, i)
    BY DEF Counts
  <1>3. 0 \in P
    <2> DEFINE t == [j \in 1 .. m |-> j]
    <2>1. t = [j \in 1 .. m |-> t[j]] /\ \A j \in 1 .. m : t[j] = j
      OBVIOUS
    <2> HIDE DEF t
    <2>2. IsSeq(t) /\ Len(t) = m
      BY <2>1, SeqMade
    <2>3. s[0] = t
      BY DEF t
    <2>4. Is(0)
      BY <1>1, <1>2, <2>1, <2>2, <2>3
    <2> QED
      BY <1>1, <2>4
  <1>4. ASSUME NEW i \in 1 .. n, i - 1 \in P
        PROVE  i \in P
    <2> DEFINE j == i - 1
               a == s[j]
               b == s[i]
               x == c[j]
               y == c[i]
    <2>1. i \in 0 .. n /\ j \in 0 .. n /\ i \in Nat /\ j \in Nat /\ j = i - 1
      BY <1>1
    <2>2. x \in Nat /\ y \in Nat /\ x <= m /\ y <= m /\ y = x + ChosenAt(q, A, i) /\ x <= j
      BY <1>2, <2>1
    <2>3. Is(j)
      BY <1>4
    <2>4. b = IF q[i] \in A THEN a ELSE InsertAt(a, i, One)
      BY DEF MakesPlaces
    <2>5. /\ IsSeq(a) /\ Len(a) = m + (j - x)
          /\ \A k \in 1 .. j : a[k] = SlotOf(c, q, A, k)
          /\ \A k \in i .. m + (j - x) : a[k] = k - (j - x)
      <3>1. j + 1 = i
        BY <2>1
      <3> QED
        BY <2>3, <3>1
    <2> HIDE DEF a, b, j, Is, P
    <2>6. CASE q[i] \in A
      <3>1. b = a /\ y = x + 1 /\ SlotOf(c, q, A, i) = y
        BY <2>2, <2>4, <2>6 DEF ChosenAt, SlotOf
      <3> HIDE DEF x, y
      <3>2. IsSeq(b) /\ Len(b) = m + (i - y)
        BY <2>1, <2>2, <2>5, <3>1
      <3>3. i \in i .. m + (j - x) /\ i - (j - x) = y
        BY <2>1, <2>2, <3>1
      <3>4. b[i] = SlotOf(c, q, A, i)
        BY <2>5, <3>1, <3>3
      <3>5. \A k \in 1 .. i : b[k] = SlotOf(c, q, A, k)
        <4>1. \A k \in 1 .. i : k \in 1 .. j \/ k = i
          BY <2>1
        <4> QED
          BY <2>5, <3>1, <3>4, <4>1
      <3>6. \A k \in i + 1 .. m + (i - y) : b[k] = k - (i - y)
        <4>1. i - y = j - x
          BY <2>1, <2>2, <3>1
        <4>2. \A k \in i + 1 .. m + (i - y) : k \in i .. m + (j - x)
          BY <2>1, <2>2, <4>1
        <4> QED
          BY <2>5, <3>1, <4>1, <4>2
      <3>7. Is(i)
        BY <3>2, <3>5, <3>6 DEF Is, b, y
      <3> QED
        BY <2>1, <3>7 DEF P
    <2>7. CASE q[i] \notin A
      <3>1. b = InsertAt(a, i, One) /\ y = x /\ SlotOf(c, q, A, i) = One
        BY <2>2, <2>4, <2>7 DEF ChosenAt, SlotOf
      <3> HIDE DEF x, y
      <3>2. i \in 1 .. Len(a) + 1
        BY <2>1, <2>2, <2>5
      <3>3. /\ IsSeq(b) /\ Len(b) = Len(a) + 1 /\ b[i] = One
            /\ \A k \in 1 .. i - 1 : b[k] = a[k]
            /\ \A k \in i + 1 .. Len(a) + 1 : b[k] = a[k - 1]
        BY SMTT(30), <2>5, <3>1, <3>2, Inserted
      <3>4. Len(b) = m + (i - y)
        BY <2>1, <2>2, <2>5, <3>1, <3>3
      <3>5. \A k \in 1 .. i : b[k] = SlotOf(c, q, A, k)
        <4>1. \A k \in 1 .. i : k = i \/ (k \in 1 .. j /\ k \in 1 .. i - 1)
          BY <2>1
        <4> QED
          BY <2>5, <3>1, <3>3, <4>1
      <3>6. ASSUME NEW k \in i + 1 .. m + (i - y)
            PROVE  b[k] = k - (i - y)
        <4> DEFINE l == k - 1
        <4> DEFINE n1 == m + (j - x)
        <4>1. n1 \in Nat /\ Len(a) = n1 /\ m + (i - y) = n1 + 1 /\ j - x = (i - y) - 1
          BY SMTT(30), <2>1, <2>2, <2>5, <3>1
        <4>2. k \in i + 1 .. n1 + 1 /\ k \in Int /\ i - y \in Int
          BY <2>1, <2>2, <4>1
        <4>3. k \in i + 1 .. Len(a) + 1 /\ l \in i .. m + (j - x) /\ l - (j - x) = k - (i - y)
          <5> HIDE DEF n1
          <5>1. l \in i .. n1 /\ l - ((i - y) - 1) = k - (i - y)
            BY <2>1, <4>1, <4>2
          <5> QED
            BY <4>1, <4>2, <5>1 DEF n1
        <4>4. b[k] = a[l]
          BY <3>3, <4>3
        <4> HIDE DEF l
        <4> QED
          BY <2>5, <4>3, <4>4
      <3>7. Is(i)
        BY <3>3, <3>4, <3>5, <3>6 DEF Is, b, y
      <3> QED
        BY <2>1, <3>7 DEF P
    <2> QED
      BY <2>6, <2>7
  <1>5. n \in P
    <2>1. 0 .. n \subseteq P
      <3> HIDE DEF P, n
      <3> QED
        BY <1>1, <1>3, <1>4, InductionUpTo
    <2> QED
      BY <1>1, <2>1
  <1>6. Is(n)
    BY <1>5
  <1>7. m + (n - c[n]) = n
    BY <1>1
  <1> QED
    BY <1>6, <1>7

LEMMA SlotsLoop ==
  ASSUME NEW m \in Nat, NEW n \in Nat, n = Len(cs.queries["fixed"])
  PROVE  \E f : /\ f[0] = [j \in 1 .. m |-> j]
                /\ \A i \in 1 .. n : f[i] = MakePlace(f[i - 1], i)
                /\ SlotsOf(m) = f[n]
  <1> DEFINE base == [j \in 1 .. m |-> j]
             Upto(f, k) == /\ f = [i \in 0 .. k |-> f[i]] /\ f[0] = base
                           /\ \A i \in 1 .. k : f[i] = MakePlace(f[i - 1], i)
             P == {k \in 0 .. n : \E f : Upto(f, k)}
             Is(f) == f = [i \in 0 .. n |-> IF i = 0 THEN base ELSE MakePlace(f[i - 1], i)]
  <1> HIDE DEF base
  <1>1. 0 \in P
    <2> DEFINE f == [i \in 0 .. 0 |-> base]
    <2>1. f = [i \in 0 .. 0 |-> f[i]] /\ f[0] = base /\ 0 \in 0 .. n
      OBVIOUS
    <2> HIDE DEF f
    <2>2. Upto(f, 0)
      BY <2>1
    <2> QED
      BY <2>1, <2>2
  <1>2. ASSUME NEW k \in 1 .. n, k - 1 \in P
        PROVE  k \in P
    <2> DEFINE j == k - 1
    <2>1. j \in 0 .. n /\ k \in 0 .. n /\ j \in Nat /\ k \in Nat /\ k = j + 1
      OBVIOUS
    <2>2. PICK f : Upto(f, j)
      BY <1>2
    <2> HIDE DEF j
    <2> DEFINE g == [i \in 0 .. k |-> IF i = k THEN MakePlace(f[j], k) ELSE f[i]]
    <2>3. g = [i \in 0 .. k |-> g[i]] /\ 0 # k /\ 0 \in 0 .. k
      BY <2>1
    <2>4. \A i \in 0 .. j : i \in 0 .. k /\ i # k
      BY <2>1
    <2>5. (\A i \in 0 .. j : g[i] = f[i]) /\ g[k] = MakePlace(f[j], k)
      BY <2>1, <2>4
    <2> HIDE DEF g
    <2>6. g[0] = base
      BY <2>1, <2>2, <2>5
    <2>7. ASSUME NEW i \in 1 .. k
          PROVE  g[i] = MakePlace(g[i - 1], i)
      <3>1. CASE i = k
        <4>1. i - 1 = j /\ j \in 0 .. j
          BY <2>1, <3>1
        <4> QED
          BY <2>5, <3>1, <4>1
      <3>2. CASE i # k
        <4>1. i \in 1 .. j /\ i \in 0 .. j /\ i - 1 \in 0 .. j
          BY <2>1, <3>2
        <4>2. f[i] = MakePlace(f[i - 1], i)
          BY <2>2, <4>1
        <4> QED
          BY <2>5, <4>1, <4>2
      <3> QED
        BY <3>1, <3>2
    <2>8. Upto(g, k)
      BY <2>3, <2>6, <2>7
    <2> QED
      BY <2>1, <2>8
  <1>3. PICK f : Upto(f, n)
    <2>1. 0 .. n \subseteq P
      <3> HIDE DEF P
      <3> QED
        BY <1>1, <1>2, InductionUpTo
    <2>2. n \in 0 .. n
      OBVIOUS
    <2> QED
      BY <2>1, <2>2
  <1>4. \A i \in 0 .. n : i = 0 \/ i \in 1 .. n
    OBVIOUS
  <1>5. Is(f)
    BY <1>3, <1>4
  <1>6. PICK q : Is(q) /\ SlotsOf(m) = q[n]
    <2> DEFINE q == CHOOSE g : Is(g)
    <2>1. SlotsOf(m) = q[n]
      BY DEF SlotsOf, base
    <2>2. Is(q)
      <3> HIDE DEF Is
      <3> QED
        BY <1>5
    <2> HIDE DEF q, Is
    <2> QED
      BY <2>1, <2>2
  <1>7. q[0] = base /\ \A i \in 1 .. n : q[i] = MakePlace(q[i - 1], i)
    <2>1. 0 \in 0 .. n /\ \A i \in 1 .. n : i \in 0 .. n /\ i # 0
      OBVIOUS
    <2> QED
      BY <1>6, <2>1
  <1> HIDE DEF Is
  <1> QED
    BY <1>6, <1>7 DEF base

LEMMA EachCounted ==
  ASSUME NEW q, IsSeq(q), NEW A, NEW c, Counts(c, q, A), NEW j \in 1 .. Len(Chosen(q, A))
  PROVE  \E k \in 1 .. Len(q) : q[k] \in A /\ c[k] = j
  <1> DEFINE n == Len(q)
             R == {k \in 0 .. n : c[k] >= j}
  <1>1. n \in Nat /\ n \in 0 .. n /\ j \in Nat /\ j >= 1
    BY SeqFacts
  <1>2. /\ c[0] = 0 /\ \A i \in 0 .. n : c[i] \in Nat
        /\ \A i \in 1 .. n : c[i] = c[i - 1] + ChosenAt(q, A, i)
        /\ c[n] >= j
    BY <1>1 DEF Counts
  <1>3. R \in SUBSET Nat /\ R # {}
    BY <1>1, <1>2
  <1>4. PICK k \in R : \A l \in R : k <= l
    BY <1>3, LeastOfSet
  <1> DEFINE i == k - 1
  <1>5. k \in 0 .. n /\ c[k] >= j /\ c[k] \in Nat
    BY <1>2, <1>4
  <1>6. k # 0
    BY <1>1, <1>2, <1>5
  <1>7. k \in 1 .. n /\ i \in 0 .. n /\ ~ (k <= i)
    BY <1>1, <1>5, <1>6
  <1>8. c[i] \in Nat /\ ~ (c[i] >= j)
    BY <1>2, <1>4, <1>7
  <1>9. c[k] = c[i] + ChosenAt(q, A, k)
    BY <1>2, <1>7
  <1> HIDE DEF i
  <1>10. ChosenAt(q, A, k) = 1 /\ c[k] = j
    <2>1. ChosenAt(q, A, k) \in {0, 1}
      BY DEF ChosenAt
    <2> QED
      BY <1>1, <1>5, <1>8, <1>9, <2>1
  <1> QED
    BY <1>7, <1>10 DEF ChosenAt

(* The fixed evaluations are taken for those of the queries that are       *)
(* opened, in their order.                                                 *)
OpenedColumns(c) == {q \in ToSet(c.queries["fixed"]) : q[1] \notin SimpleColumns(c)}

LEMMA SlotsFound ==
  ASSUME IsKey(cs), NumFixedEvals = Len(OpenedIn(cs)), NEW j \in 1 .. Len(OpenedIn(cs))
  PROVE  LET at == Position(FixedSlots, j)
         IN  at \in 1 .. Len(cs.queries["fixed"]) /\ cs.queries["fixed"][at] = OpenedIn(cs)[j]
  <1> DEFINE q == cs.queries["fixed"]
             n == Len(q)
             A == OpenedColumns(cs)
             w == OpenedIn(cs)
             m == Len(w)
  <1>1. IsSeq(q) /\ IsSeq(w) /\ n \in Nat /\ m \in Nat /\ DOMAIN q = 1 .. n /\ DOMAIN w = 1 .. m
    BY CommittedTyped, SeqFacts
  <1>2. w = Chosen(q, A)
    BY DEF OpenedIn, OpenedColumns
  <1>3. \A i \in 1 .. n : IsOpened(q[i]) <=> q[i] \in A
    <2>1. \A i \in 1 .. n : q[i] \in ToSet(q)
      BY <1>1, SeqFacts
    <2> QED
      BY <2>1 DEF IsOpened, OpenedColumns
  <1> HIDE DEF A
  <1>4. PICK c : Counts(c, q, A)
    BY <1>1, ChosenCounted
  <1>5. PICK s : /\ s[0] = [l \in 1 .. m |-> l]
                 /\ \A i \in 1 .. n : s[i] = MakePlace(s[i - 1], i)
                 /\ SlotsOf(m) = s[n]
    BY <1>1, SlotsLoop
  <1>6. MakesPlaces(s, q, A)
    BY <1>3, <1>5 DEF MakesPlaces, MakePlace
  <1> DEFINE t == s[n]
  <1>7. IsSeq(t) /\ Len(t) = n /\ \A k \in 1 .. n : t[k] = SlotOf(c, q, A, k)
    <2>1. m = c[Len(q)] /\ s[0] = [l \in 1 .. m |-> l]
      BY <1>2, <1>4, <1>5 DEF Counts
    <2> HIDE DEF q, m
    <2> QED
      BY <1>1, <1>4, <1>6, <2>1, PlacesMade DEF n
  <1>8. FixedSlots = t /\ DOMAIN t = 1 .. n
    BY <1>5, <1>7, SeqFacts DEF FixedSlots
  <1> HIDE DEF t, w
  <1> DEFINE p == Position(t, j)
             R == {k \in 1 .. n : t[k] = j}
  <1>9. \E k \in 1 .. n : q[k] \in A /\ c[k] = j
    BY <1>1, <1>2, <1>4, EachCounted DEF w
  <1>10. R # {} /\ R \in SUBSET Nat
    BY <1>7, <1>9 DEF SlotOf
  <1>11. PICK k \in R : \A l \in R : k <= l
    BY <1>10, LeastOfSet
  <1>12. k \in DOMAIN t /\ t[k] = j /\ \A l \in 1 .. k - 1 : t[l] # j
    <2>1. \A l \in 1 .. k - 1 : l \in 1 .. n /\ ~ (k <= l)
      BY <1>1, <1>11
    <2> QED
      BY <1>8, <1>11, <2>1
  <1>13. p \in DOMAIN t /\ t[p] = j
    BY <1>12 DEF Position
  <1> HIDE DEF p
  <1>14. p \in 1 .. n /\ SlotOf(c, q, A, p) = j
    BY <1>7, <1>8, <1>13
  <1>15. q[p] \in A /\ c[p] = j
    <2>1. j # 0
      BY <1>1 DEF w
    <2> QED
      BY <1>14, <2>1 DEF SlotOf, One
  <1>16. w[j] = q[p]
    BY <1>2, <1>4, <1>14, <1>15 DEF Counts
  <1> QED
    BY <1>8, <1>14, <1>16 DEF p, w

LEMMA FixedAreTheirs ==
  ASSUME IsKey(cs), NumFixedEvals = Len(OpenedIn(cs))
  PROVE  [j \in 1 .. NumFixedEvals |-> FixedTakenFor(j)] = EvalsOf("Fixed", OpenedIn(cs))
  <1> DEFINE w == OpenedIn(cs)
             m == Len(w)
  <1>1. m \in Nat /\ DOMAIN w = 1 .. m
    BY CommittedTyped, SeqFacts
  <1>2. ASSUME NEW j \in 1 .. m
        PROVE  FixedTakenFor(j) = Eval(<<"Fixed", w[j][1]>>, w[j][2])
    <2>1. cs.queries["fixed"][Position(FixedSlots, j)] = w[j]
      BY SlotsFound
    <2> HIDE DEF w
    <2> QED
      BY <2>1 DEF FixedTakenFor
  <1>3. NumFixedEvals = m
    OBVIOUS
  <1> HIDE DEF w
  <1> QED
    BY <1>1, <1>2, <1>3 DEF EvalsOf, w

LEMMA OthersCounted ==
  ASSUME NEW q, IsSeq(q), NEW A
  PROVE  Cardinality({k \in 1 .. Len(q) : q[k] \notin A}) = Len(q) - Len(Chosen(q, A))
  <1> DEFINE n == Len(q)
             U(i) == {k \in 1 .. i : q[k] \notin A}
  <1>1. n \in Nat /\ 0 \in 0 .. n /\ n \in 0 .. n
    BY SeqFacts
  <1>2. PICK c : Counts(c, q, A)
    BY ChosenCounted
  <1>3. /\ c[0] = 0 /\ \A i \in 0 .. n : c[i] \in Nat
        /\ \A i \in 1 .. n : c[i] = c[i - 1] + ChosenAt(q, A, i)
        /\ c[n] = Len(Chosen(q, A))
    BY <1>2 DEF Counts
  <1> DEFINE P == {i \in 0 .. n : IsFiniteSet(U(i)) /\ Cardinality(U(i)) = i - c[i]}
  <1>4. 0 \in P
    <2>1. U(0) = {}
      OBVIOUS
    <2> HIDE DEF U
    <2>2. IsFiniteSet(U(0)) /\ Cardinality(U(0)) = 0
      BY <2>1, FS_EmptySet
    <2> QED
      BY <1>1, <1>3, <2>2
  <1>5. ASSUME NEW i \in 1 .. n, i - 1 \in P
        PROVE  i \in P
    <2> DEFINE j == i - 1
    <2>1. i \in 0 .. n /\ i \in Nat /\ j \in Nat /\ i = j + 1 /\ j \in 0 .. n
      BY <1>1
    <2>2. IsFiniteSet(U(j)) /\ Cardinality(U(j)) = j - c[j] /\ c[i] = c[j] + ChosenAt(q, A, i)
      BY <1>3, <1>5
    <2>3. c[j] \in Nat /\ c[i] \in Nat
      BY <1>3, <2>1
    <2>4. \A k \in Int : k \in 1 .. i <=> k \in 1 .. j \/ k = i
      BY <2>1
    <2>5. i \notin U(j)
      BY <2>1
    <2>6. CASE q[i] \in A
      <3>1. U(i) = U(j)
        BY <2>4, <2>6
      <3>2. ChosenAt(q, A, i) = 1
        BY <2>6 DEF ChosenAt
      <3> HIDE DEF U, j
      <3>3. IsFiniteSet(U(i)) /\ Cardinality(U(i)) = i - c[i]
        BY <2>1, <2>2, <2>3, <3>1, <3>2
      <3> QED
        BY <2>1, <3>3
    <2>7. CASE q[i] \notin A
      <3>1. U(i) = U(j) \cup {i}
        BY <2>1, <2>4, <2>7
      <3>2. ChosenAt(q, A, i) = 0
        BY <2>7 DEF ChosenAt
      <3> HIDE DEF U, j
      <3>3. IsFiniteSet(U(i)) /\ Cardinality(U(i)) = Cardinality(U(j)) + 1
        BY <2>2, <2>5, <3>1, FS_AddElement
      <3>4. Cardinality(U(i)) = i - c[i]
        BY <2>1, <2>2, <2>3, <3>2, <3>3
      <3> QED
        BY <2>1, <3>3, <3>4
    <2> QED
      BY <2>6, <2>7
  <1>6. n \in P
    <2>1. 0 .. n \subseteq P
      <3> HIDE DEF P, n
      <3> QED
        BY <1>1, <1>4, <1>5, InductionUpTo
    <2> QED
      BY <1>1, <2>1
  <1> QED
    BY <1>3, <1>6

(* The evaluations a proof holds of fixed columns are those of the columns *)
(* that are no simple selectors.                                           *)
LEMMA FixedAreCounted ==
  ASSUME IsKey(cs), phase = "keyed", SelectorsAreTracked
  PROVE  NumFixedEvals = Len(OpenedIn(cs))
  <1> DEFINE q == cs.queries["fixed"]
             n == Len(q)
             A == OpenedColumns(cs)
             SC == SimpleColumns(cs)
             U == {k \in 1 .. n : q[k] \notin A}
             Of(col) == {i \in 1 .. n : q[i][1] = col}
             f == [k \in U |-> q[k][1]]
  <1>1. IsSeq(q) /\ n \in Nat /\ DOMAIN q = 1 .. n
    BY CommittedTyped, SeqFacts
  <1>2. \A k \in 1 .. n : q[k] \notin A <=> q[k][1] \in SC
    <2>1. \A k \in 1 .. n : q[k] \in ToSet(q)
      BY <1>1, SeqFacts
    <2> QED
      BY <2>1 DEF OpenedColumns
  <1>3. /\ \A col \in SC : Cardinality(Of(col)) = 1
        /\ Cardinality(SC) = Cardinality({i \in DOMAIN cs.selector_flags : cs.selector_flags[i].simple})
    BY <1>1 DEF SelectorsAreTracked
  <1>4. NumFixedEvals = n - Cardinality(SC)
    BY <1>3 DEF NumFixedEvals
  <1>5. Cardinality(U) = n - Len(OpenedIn(cs))
    <2>1. OpenedIn(cs) = Chosen(q, A)
      BY DEF OpenedIn, OpenedColumns
    <2> HIDE DEF A, q
    <2> QED
      BY <1>1, <2>1, OthersCounted
  <1> HIDE DEF A, SC
  <1>6. ASSUME NEW col \in SC
        PROVE  \E i : Of(col) = {i}
    <2>1. IsFiniteSet(1 .. n)
      BY <1>1, FS_Interval
    <2>2. IsFiniteSet(Of(col))
      BY <2>1, FS_Subset
    <2>3. Cardinality(Of(col)) = 1
      BY <1>3
    <2> HIDE DEF Of
    <2> QED
      BY <2>2, <2>3, FS_Singleton
  <1>7. f \in Bijection(U, SC)
    <2>1. f \in [U -> SC]
      BY <1>2
    <2>2. \A a, b \in U : f[a] = f[b] => a = b
      <3> SUFFICES ASSUME NEW a \in U, NEW b \in U, f[a] = f[b]
                   PROVE  a = b
        OBVIOUS
      <3>1. a \in Of(q[a][1]) /\ b \in Of(q[a][1]) /\ q[a][1] \in SC
        BY <1>2
      <3> QED
        BY <1>6, <3>1
    <2>3. \A col \in SC : \E a \in U : f[a] = col
      <3> SUFFICES ASSUME NEW col \in SC
                   PROVE  \E a \in U : f[a] = col
        OBVIOUS
      <3>1. PICK i : Of(col) = {i}
        BY <1>6
      <3>2. i \in Of(col)
        BY <3>1
      <3>3. i \in 1 .. n /\ q[i][1] = col
        BY <3>2
      <3>4. i \in U
        BY <1>2, <3>3
      <3> QED
        BY <3>3, <3>4
    <2> HIDE DEF f, U
    <2> QED
      BY <2>1, <2>2, <2>3 DEF Bijection, Injection, Surjection, IsInjective
  <1>8. IsFiniteSet(U)
    <2>1. IsFiniteSet(1 .. n)
      BY <1>1, FS_Interval
    <2> QED
      BY <2>1, FS_Subset
  <1>9. Cardinality(U) = Cardinality(SC)
    <2> HIDE DEF U, f
    <2> QED
      BY <1>7, <1>8, FS_Bijection DEF ExistsBijection
  <1>10. Len(OpenedIn(cs)) \in Nat
    BY CommittedTyped, SeqFacts
  <1>11. Cardinality(U) \in Nat
    BY <1>8, FS_CardinalityType
  <1> QED
    BY <1>1, <1>4, <1>5, <1>9, <1>10, <1>11

(* The verifier listens for the script of its key and claim.               *)
LEMMA TrashAsPlaced ==
  ASSUME IsKey(cs), TrashIndexed(cs)
  PROVE  /\ [i \in DOMAIN cs.trashcans |-> TrashLabel(cs.trashcans[i])]
                = Labels("Trash", Len(cs.trashcans))
         /\ TrashEvals = [i \in DOMAIN cs.trashcans |-> Eval(Label("Trash", i), 0)]
  <1>1. DOMAIN cs.trashcans = 1 .. Len(cs.trashcans)
    BY KeyFields, SeqFacts
  <1>2. \A i \in DOMAIN cs.trashcans : TrashLabel(cs.trashcans[i]) = Label("Trash", i)
    BY DEF TrashIndexed, TrashLabel, Label
  <1>3. [i \in DOMAIN cs.trashcans |-> TrashLabel(cs.trashcans[i])]
            = [i \in DOMAIN cs.trashcans |-> Label("Trash", i)]
    BY <1>2
  <1>4. TrashEvals = [i \in DOMAIN cs.trashcans |-> Eval(Label("Trash", i), 0)]
    BY <1>2 DEF TrashEvals
  <1> QED
    BY <1>1, <1>3, <1>4 DEF Labels

LEMMA VerifierArguments ==
  ASSUME IsKey(cs), TrashIndexed(cs)
  PROVE  ReadArguments <=> /\ VerifierAt("arguments") /\ Read(ArgumentPart(cs), "quotient")
                           /\ UNCHANGED v_queries
  <1>1. /\ NumAccumulators = AccumulatorsIn(cs) /\ LogupCommitments = LogupCommitmentsIn(cs)
        /\ [i \in DOMAIN cs.trashcans |-> TrashLabel(cs.trashcans[i])]
                = Labels("Trash", Len(cs.trashcans))
    BY SameLists, ProverCountsChunks, TrashAsPlaced
  <1>2. ArgumentPart(cs)
            = Labels("PermutationAccumulator", NumAccumulators) \o LogupCommitments
                \o [i \in DOMAIN cs.trashcans |-> TrashLabel(cs.trashcans[i])]
                \o Challenges(<<"y">>)
    BY <1>1 DEF ArgumentPart
  <1> QED
    BY <1>2 DEF ReadArguments

LEMMA VerifierReadsQueries ==
  ASSUME IsKey(cs), TrashIndexed(cs)
  PROVE  VerifierQueries = QueriesIn(cs, Len(claim.commitments))
  <1> DEFINE k == Len(claim.commitments)
  <1>1. /\ CommittedQueries(k) = CommittedIn(cs, k)
        /\ NumAccumulators = AccumulatorsIn(cs)
        /\ AccumulatorQueries(NumAccumulators) = AccumulatorQueriesIn(cs, AccumulatorsIn(cs))
        /\ LookupQueries = LookupQueriesIn(cs) /\ OpenedFixedQueries = OpenedIn(cs)
    BY SameLists, ProverCountsChunks
  <1>2. [i \in DOMAIN TrashEvals |-> <<TrashEvals[i][2], TrashEvals[i][3]>>]
            = [i \in DOMAIN cs.trashcans |-> <<Label("Trash", i), 0>>]
    <2>1. TrashEvals = [i \in DOMAIN cs.trashcans |-> Eval(Label("Trash", i), 0)]
      BY TrashAsPlaced
    <2>2. DOMAIN TrashEvals = DOMAIN cs.trashcans
      BY <2>1
    <2>3. \A i \in DOMAIN cs.trashcans : /\ TrashEvals[i][2] = Label("Trash", i)
                                         /\ TrashEvals[i][3] = 0
      BY <2>1 DEF Eval
    <2> QED
      BY <2>2, <2>3
  <1> QED
    BY <1>1, <1>2 DEF VerifierQueries, QueriesIn

LEMMA VerifierEvals ==
  ASSUME IsKey(cs), TrashIndexed(cs), phase = "keyed", SelectorsAreTracked
  PROVE  ReadEvals <=> /\ VerifierAt("evals")
                       /\ Read(EvalsPart(cs, Len(claim.commitments)), "opening")
                       /\ UNCHANGED v_queries
  <1> DEFINE k == Len(claim.commitments)
  <1>1. /\ CommittedQueries(k) = CommittedIn(cs, k)
        /\ NumAccumulators = AccumulatorsIn(cs) /\ XLast = LastIn(cs)
        /\ LookupQueries = LookupQueriesIn(cs) /\ OpenedFixedQueries = OpenedIn(cs)
        /\ TrashEvals = [i \in DOMAIN cs.trashcans |-> Eval(Label("Trash", i), 0)]
        /\ [j \in 1 .. NumFixedEvals |-> FixedTakenFor(j)] = EvalsOf("Fixed", OpenedIn(cs))
    BY SameLists, ProverCountsChunks, TrashAsPlaced, FixedAreCounted, FixedAreTheirs
  <1>2. [i \in 1 .. NumAccumulators |-> ReadAccumulator(i)]
            = [i \in 1 .. AccumulatorsIn(cs) |-> AccumulatorEvals(cs, AccumulatorsIn(cs), i)]
    <2>1. AccumulatorsIn(cs) \in Nat
      BY KeyFields
    <2>2. \A i \in 1 .. AccumulatorsIn(cs) : AccumulatorsIn(cs) - i > 0 <=> i < AccumulatorsIn(cs)
      BY <2>1
    <2>3. \A i \in 1 .. AccumulatorsIn(cs) :
              ReadAccumulator(i) = AccumulatorEvals(cs, AccumulatorsIn(cs), i)
      BY <1>1, <2>2 DEF ReadAccumulator, AccumulatorEvals
    <2> QED
      BY <1>1, <2>3
  <1>3. EvalsPart(cs, k)
            = EvalsOf("CommittedInstance", CommittedQueries(k))
                \o EvalsOf("Advice", cs.queries["advice"])
                \o [j \in 1 .. NumFixedEvals |-> FixedTakenFor(j)]
                \o [i \in DOMAIN cs.permutation |-> Eval(Label("PermutationFixed", i), 0)]
                \o FlattenSeq([i \in 1 .. NumAccumulators |-> ReadAccumulator(i)])
                \o ToEvals(LookupQueries)
                \o TrashEvals
    BY <1>1, <1>2 DEF EvalsPart
  <1> QED
    BY <1>3 DEF ReadEvals

-----------------------------------------------------------------------------
(* The inductive invariant of the proof protocol.                          *)
Stages == {"advice", "multiplicities", "arguments", "quotient", "evals", "opening"}
Stage(pc) == IF pc = "advice" THEN 0
             ELSE IF pc = "multiplicities" THEN 1
             ELSE IF pc = "arguments" THEN 2
             ELSE IF pc = "quotient" THEN 3
             ELSE IF pc = "evals" THEN 4
             ELSE IF pc = "opening" THEN 5
             ELSE 6
Speaking == p_pc \in Stages \cup {"done"}
Hearing  == v_pc \in Stages \cup {"prepared", "complete"}

Script     == ScriptOf(cs, features, statement.committed, quotient_degree)
Greeting   == <<<<"vk">>>> \o InstanceItems(statement)
SameClaim  == claim = ClaimOf(statement)
Damaged    == SameClaim /\ received \in {Front(proof), Append(proof, <<"byte">>)}

(* What was written is what was absorbed, challenges apart, after a start. *)
Recorded == \E s, t : IsSeq(s) /\ IsSeq(t) /\ p_log = s \o t /\ proof = Written(t)

(* The prover has said the script up to its stage, which is kept up to the *)
(* end: the log of a proof that is done is known in full.                  *)
ProverSays(sc, n) == p_log = Greeting \o Spoken(sc, n) /\ proof = Written(Spoken(sc, n))

ProverInv ==
    /\ p_pc \in Stages \cup {"instances", "done", "refused", "panicked"}
    /\ Recorded
    /\ p_pc = "instances" => p_log = <<>> /\ proof = <<>>
    /\ p_pc # "instances" => phase = "keyed"
    /\ Speaking => ~ InvalidInstances /\ ProverSays(Script, Stage(p_pc))
    /\ p_pc = "done" => /\ p_queries = AllQueriesIn(cs, features, statement.committed)
                        /\ ~ DuplicatedQuery(p_queries)

(* The verifier has absorbed its claim before anything else.  On the claim *)
(* that was proved it is as far in the proof as the script is, however     *)
(* damaged the proof; on a faithful one it has heard the script.           *)
VerifierHears(sc, n) ==
    /\ ColumnCount(claim) = NumInstance /\ IsPrefix(<<<<"vk">>>> \o ClaimItems(claim), v_log)
    /\ SameClaim => position = Len(Written(Spoken(sc, n)))
    /\ Faithful => v_log = Greeting \o Spoken(sc, n)

VerifierInv ==
    /\ v_pc \in Stages \cup {"waiting", "instances", "prepared", "complete", "rejected", "panicked"}
    /\ Listening /\ Len(taken) = position /\ position <= Len(v_log)
    /\ v_pc \in {"waiting", "instances"} => v_log = <<>> /\ taken = <<>>
    /\ v_pc # "waiting" => /\ p_pc = "done" /\ \E s \in Statements : claim = ClaimOf(s)
                           /\ received = proof \/ Damaged
    /\ Hearing => VerifierHears(Script, Stage(v_pc))
    /\ Faithful => v_pc \notin {"rejected", "panicked"} /\ AsTaken(taken)
    /\ v_pc = "complete" => position = Len(received)
    /\ SameClaim /\ v_pc \in {"prepared", "complete"} => v_queries = p_queries

KeyInv == IInv /\ TrashIndexed(cs) /\ KeyUsable /\ statement \in Statements
TInv   == KeyInv /\ ProverInv /\ VerifierInv

LEMMA KeyInvKept ==
  ASSUME KeyInv, [NextConfiguration]_csVars, statement' = statement
  PROVE  KeyInv'
  <1>1. IInv' /\ KeyUsable'
    BY NextInvariant, KeyKept DEF KeyInv
  <1>2. TrashIndexed(cs')
    BY TrashKept DEF KeyInv
  <1> QED
    BY <1>1, <1>2 DEF KeyInv, TrashIndexed

LEMMA ItemsTyped ==
  ASSUME NEW s, s.instances \in Seq(Seq(Nat))
  PROVE  IsSeq(InstanceItems(s))
  <1> DEFINE Item(i) == IF i <= s.committed THEN <<CommitTo(s.instances[i])>>
                        ELSE AbsorbColumn(s.instances[i])
             n == Len(s.instances)
             ss == [i \in DOMAIN s.instances |-> Item(i)]
  <1>1. n \in Nat /\ DOMAIN s.instances = 1 .. n /\ \A i \in 1 .. n : s.instances[i] \in Seq(Nat)
    OBVIOUS
  <1>2. \A i \in 1 .. n : IsSeq(Item(i))
    BY <1>1, OneElement, ColumnAbsorbed
  <1>3. InstanceItems(s) = FlattenSeq(ss)
    BY DEF InstanceItems
  <1> HIDE DEF Item, n
  <1>4. ss = [i \in 1 .. n |-> ss[i]] /\ \A i \in 1 .. n : IsSeq(ss[i])
    BY <1>1, <1>2
  <1> HIDE DEF ss
  <1> QED
    BY <1>1, <1>3, <1>4, FlattenedOver

(* With keys there is a script, and its claim is that of the statement.    *)
Keyed ==
    /\ IsKey(cs) /\ SelectorsAreTracked /\ TrashIndexed(cs) /\ quotient_degree \in Nat
    /\ IsScript(Script) /\ SpokenBy(Script) /\ IsSeq(InstanceItems(statement)) /\ IsSeq(Greeting)
    /\ \A k : IsScript(ScriptOf(cs, features, k, quotient_degree))

LEMMA KeysMade ==
  ASSUME KeyInv, phase = "keyed"
  PROVE  Keyed
  <1>1. IsKey(cs) /\ TrashIndexed(cs)
    BY DEF KeyInv, KeyUsable, IsKey, IInv, Systems
  <1>2. SelectorsAreTracked
    BY InvariantTracked DEF KeyInv, QueriesAreTracked
  <1>3. quotient_degree \in Nat
    BY InvariantTyped DEF KeyInv, ConfigurationTypeOK
  <1>4. \A k : IsScript(ScriptOf(cs, features, k, quotient_degree))
    BY <1>1, <1>3, ScriptTyped
  <1>5. IsScript(Script) /\ SpokenBy(Script)
    BY <1>4, SpokenParts DEF Script
  <1>6. IsSeq(InstanceItems(statement))
    BY StatementsAssumption, ItemsTyped DEF KeyInv
  <1>7. IsSeq(Greeting)
    BY <1>6, OneElement, JoinedTyped DEF Greeting
  <1> QED
    BY <1>1, <1>2, <1>3, <1>4, <1>5, <1>6, <1>7 DEF Keyed

LEMMA ScriptParts ==
  ASSUME NEW c, NEW fs, NEW k, NEW d
  PROVE  /\ ScriptOf(c, fs, k, d)[1] = AdvicePart
         /\ ScriptOf(c, fs, k, d)[2] = MultiplicityPart(c)
         /\ ScriptOf(c, fs, k, d)[3] = ArgumentPart(c)
         /\ ScriptOf(c, fs, k, d)[4] = QuotientPart(fs, d)
         /\ ScriptOf(c, fs, k, d)[5] = EvalsPart(c, k)
         /\ ScriptOf(c, fs, k, d)[6] = OpeningPart(c, fs, k)
  BY DEF ScriptOf

(* Whatever is written is recorded.                                        *)
LEMMA WritingRecords ==
  ASSUME Recorded, NEW items, IsSeq(items), p_log' = p_log \o items,
         proof' = proof \o Written(items)
  PROVE  Recorded'
  <1>1. PICK s, t : IsSeq(s) /\ IsSeq(t) /\ p_log = s \o t /\ proof = Written(t)
    BY DEF Recorded
  <1> DEFINE u == t \o items
  <1>2. IsSeq(u)
    BY <1>1, JoinedTyped
  <1>3. p_log' = s \o u
    BY <1>1, JoinedThen
  <1>4. proof' = Written(u)
    BY <1>1, WrittenJoined
  <1> HIDE DEF u
  <1> QED
    BY <1>1, <1>2, <1>3, <1>4 DEF Recorded

LEMMA ScriptStays ==
  ASSUME UNCHANGED <<csVars, features, statement>>
  PROVE  /\ Script' = Script /\ Greeting' = Greeting /\ (InvalidInstances' <=> InvalidInstances)
         /\ phase' = phase
  BY DEF Script, Greeting, InvalidInstances, csVars, TooLarge

(* A prover that says the next part of the script is at its next stage.    *)
LEMMA WritingSays ==
  ASSUME KeyInv, ProverInv, Speaking, p_pc # "done", NEW n \in 0 .. 5, n = Stage(p_pc),
         NEW next \in Stages \cup {"done"}, Stage(next) = n + 1, Write(Script[n + 1], next),
         next = "done" => /\ p_queries' = AllQueriesIn(cs, features, statement.committed)
                          /\ ~ DuplicatedQuery(p_queries')
  PROVE  ProverInv'
  <1> DEFINE items == Script[n + 1]
  <1>1. /\ p_log' = p_log \o items /\ proof' = proof \o Written(items) /\ p_pc' = next
        /\ UNCHANGED <<csVars, features, statement>>
    BY DEF Write, Silent
  <1>2. p_pc # "instances"
    BY DEF Speaking, Stages
  <1>3. phase = "keyed" /\ Keyed
    BY <1>2, KeysMade DEF ProverInv
  <1>4. IsScript(Script) /\ IsSeq(Greeting)
    BY <1>3 DEF Keyed
  <1>5. /\ (Greeting \o Spoken(Script, n)) \o items = Greeting \o Spoken(Script, n + 1)
        /\ Written(Spoken(Script, n)) \o Written(items) = Written(Spoken(Script, n + 1))
        /\ IsSeq(items)
    BY <1>4, SaysNext
  <1> HIDE DEF items
  <1>6. ~ InvalidInstances /\ ProverSays(Script, n) /\ Recorded
    BY DEF ProverInv
  <1>7. ProverSays(Script, n + 1)'
    BY <1>1, <1>5, <1>6, ScriptStays DEF ProverSays
  <1>8. Recorded'
    BY <1>1, <1>5, <1>6, WritingRecords
  <1>9. /\ Script' = Script /\ (InvalidInstances' <=> InvalidInstances) /\ phase' = "keyed"
        /\ features' = features /\ cs' = cs /\ statement' = statement
    BY <1>1, <1>3, ScriptStays DEF csVars
  <1>10. (~ InvalidInstances /\ ProverSays(Script, Stage(p_pc)))'
    BY <1>1, <1>6, <1>7, <1>9
  <1>11. next # "instances" /\ next \in Stages \cup {"instances", "done", "refused", "panicked"}
    BY DEF Stages
  <1> QED
    BY <1>1, <1>8, <1>9, <1>10, <1>11 DEF ProverInv

LEMMA NothingWritten ==
  Written(<<>>) = <<>>
  <1>1. IsSeq(<<>>) /\ Len(<<>>) = 0
    BY Nothing
  <1>2. PICK w : WrittenBy(w, <<>>)
    BY <1>1, WrittenGrows
  <1> QED
    BY <1>1, <1>2 DEF WrittenBy

(* A prover that stops has recorded what it wrote.                         *)
LEMMA StoppingKeeps ==
  ASSUME p_pc' \in {"refused", "panicked"}, Recorded', phase' = "keyed"
  PROVE  ProverInv'
  <1>1. p_pc' # "instances" /\ p_pc' # "done" /\ ~ Speaking'
    BY DEF Speaking, Stages
  <1> QED
    BY <1>1 DEF ProverInv

LEMMA WritingStops ==
  ASSUME KeyInv, ProverInv, phase = "keyed", NEW items, IsSeq(items),
         NEW next \in {"refused", "panicked"}, Write(items, next)
  PROVE  ProverInv'
  <1>1. Recorded'
    BY WritingRecords DEF Write, ProverInv
  <1>2. phase' = "keyed" /\ p_pc' = next
    BY DEF Write, Silent, csVars
  <1> QED
    BY <1>1, <1>2, StoppingKeeps

LEMMA InstancesKeep ==
  ASSUME KeyInv, ProverInv, ComputeInstances \/ InvalidInstancesError \/ InstanceTooLarge
  PROVE  ProverInv'
  <1>1. /\ phase = "keyed" /\ p_pc = "instances" /\ p_log = <<>> /\ proof = <<>>
        /\ UNCHANGED <<csVars, features, statement>> /\ UNCHANGED proof
    BY DEF ComputeInstances, InvalidInstancesError, InstanceTooLarge, ProverAt, Silent, ProverInv
  <1>2. Keyed /\ phase' = "keyed"
    BY <1>1, KeysMade, ScriptStays
  <1>3. Written(<<>>) = <<>>
    BY NothingWritten
  <1>4. ASSUME NEW s, IsSeq(s), p_log' = s
        PROVE  Recorded'
    <2>1. s = s \o <<>> /\ IsSeq(<<>>)
      BY <1>4, JoinedNothing, Nothing
    <2> QED
      BY <1>1, <1>3, <1>4, <2>1 DEF Recorded
  <1>5. CASE ComputeInstances
    <2>1. p_log' = Greeting /\ p_pc' = "advice" /\ ~ InvalidInstances
      BY <1>5 DEF ComputeInstances, Greeting
    <2>2. Recorded'
      BY <1>2, <1>4, <2>1 DEF Keyed
    <2>3. /\ Script' = Script /\ Greeting' = Greeting /\ (InvalidInstances' <=> InvalidInstances)
      BY <1>1, ScriptStays
    <2>4. Spoken(Script, 0) = <<>> /\ Greeting \o <<>> = Greeting
      BY <1>2, JoinedNothing DEF Keyed, SpokenBy
    <2>5. ProverSays(Script, 0)'
      BY <1>1, <1>3, <2>1, <2>3, <2>4 DEF ProverSays
    <2>6. Stage(p_pc)' = 0
      BY <2>1 DEF Stage
    <2>7. p_pc' # "instances" /\ p_pc' # "done" /\ p_pc' \in Stages
      BY <2>1 DEF Stages
    <2> QED
      BY <1>2, <2>1, <2>2, <2>3, <2>5, <2>6, <2>7 DEF ProverInv
  <1>6. CASE InvalidInstancesError
    <2>1. p_pc' = "refused" /\ p_log' = <<>>
      BY <1>1, <1>6 DEF InvalidInstancesError
    <2>2. Recorded'
      BY <1>4, <2>1, Nothing
    <2> QED
      BY <1>2, <2>1, <2>2, StoppingKeeps
  <1>7. CASE InstanceTooLarge
    <2>1. PICK i \in DOMAIN statement.instances :
              p_log' = <<<<"vk">>>> \o
                 InstanceItems([statement EXCEPT !.instances = SubSeq(@, 1, i - 1)])
      BY <1>7 DEF InstanceTooLarge
    <2> DEFINE s == [statement EXCEPT !.instances = SubSeq(@, 1, i - 1)]
    <2>2. p_pc' = "refused"
      BY <1>7 DEF InstanceTooLarge
    <2>3. s.instances \in Seq(Seq(Nat))
      <3>1. statement.instances \in Seq(Seq(Nat))
        BY StatementsAssumption DEF KeyInv
      <3>2. SubSeq(statement.instances, 1, i - 1) \in Seq(Seq(Nat))
        <4>1. i \in 1 .. Len(statement.instances)
          BY <3>1
        <4>2. \A k \in 1 .. i - 1 : statement.instances[k] \in Seq(Nat)
          BY <3>1, <4>1
        <4>3. 1 \in Int /\ i - 1 \in Int
          BY <4>1
        <4> DEFINE S == Seq(Nat)
                   j == i - 1
        <4> HIDE DEF S, j
        <4>4. SubSeq(statement.instances, 1, j) \in Seq(S)
          BY <4>2, <4>3, SubSeqProperties DEF S, j
        <4> QED
          BY <4>4 DEF S, j
      <3>3. s.instances = SubSeq(statement.instances, 1, i - 1) \/ "instances" \notin DOMAIN statement
        OBVIOUS
      <3> QED
        BY <3>2, <3>3
    <2>4. IsSeq(InstanceItems(s))
      BY <2>3, ItemsTyped
    <2> HIDE DEF s
    <2>5. IsSeq(<<<<"vk">>>> \o InstanceItems(s))
      BY <2>4, OneElement, JoinedTyped
    <2>6. Recorded'
      BY <1>4, <2>1, <2>5 DEF s
    <2> QED
      BY <1>2, <2>2, <2>6, StoppingKeeps
  <1> QED
    BY <1>5, <1>6, <1>7

(* The parts of the script, as the actions of the prover name them.        *)
LEMMA ScriptOfStages ==
  /\ Script[1] = AdvicePart /\ Script[2] = MultiplicityPart(cs)
  /\ Script[3] = ArgumentPart(cs) /\ Script[4] = QuotientPart(features, quotient_degree)
  /\ Script[5] = EvalsPart(cs, statement.committed)
  /\ Script[6] = OpeningPart(cs, features, statement.committed)
  BY ScriptParts DEF Script

LEMMA ProverWrites ==
  ASSUME IsKey(cs)
  PROVE  /\ ParseAdvices => Write(AdvicePart, "multiplicities")
         /\ WriteMultiplicities => Write(MultiplicityPart(cs), "arguments")
         /\ WriteArguments => Write(ArgumentPart(cs), "quotient")
         /\ WriteQuotient => Write(QuotientPart(features, quotient_degree), "evals")
         /\ WriteEvals => Write(EvalsPart(cs, statement.committed), "opening")
  <1>1. ParseAdvices => Write(AdvicePart, "multiplicities")
    BY DEF ParseAdvices, AdvicePart
  <1>2. WriteMultiplicities => Write(MultiplicityPart(cs), "arguments")
    BY DEF WriteMultiplicities, MultiplicityPart, NumLookups
  <1>3. WriteArguments => Write(ArgumentPart(cs), "quotient")
    <2>1. PermutationChunks = AccumulatorsIn(cs) /\ LogupCommitments = LogupCommitmentsIn(cs)
      BY SameLists, ProverCountsChunks
    <2>2. ArgumentPart(cs) = ArgumentCommitments(Labels("Trash", Len(cs.trashcans)))
                                 \o Challenges(<<"y">>)
      BY <2>1 DEF ArgumentPart, ArgumentCommitments
    <2> QED
      BY <2>2 DEF WriteArguments
  <1>4. WriteQuotient => Write(QuotientPart(features, quotient_degree), "evals")
    BY DEF WriteQuotient, QuotientPart, NumQuotients
  <1>5. WriteEvals => Write(EvalsPart(cs, statement.committed), "opening")
    BY ProverEvals
  <1> QED
    BY <1>1, <1>2, <1>3, <1>4, <1>5

LEMMA ProverOpens ==
  ASSUME IsKey(cs), MultiOpen
  PROVE  LET all == AllQueriesIn(cs, features, statement.committed)
         IN  /\ p_queries' = all
             /\ DuplicatedQuery(all) => Write(Challenges(<<"x1", "x2">>), "refused")
             /\ ~ DuplicatedQuery(all) =>
                    Write(OpeningPart(cs, features, statement.committed), "done")
  <1> DEFINE queries == QueriesIn(cs, statement.committed)
             dummies == DummiesIn(features, queries)
             all     == queries \o dummies
  <1>1. ComputeQueries = queries /\ DummyQueries(queries) = dummies
    BY ProverQueries, SameLists
  <1>2. /\ AllQueriesIn(cs, features, statement.committed) = all
        /\ OpeningPart(cs, features, statement.committed) = ToEvals(dummies) \o Opening(all)
    BY DEF AllQueriesIn, OpeningPart
  <1> HIDE DEF queries, dummies
  <1>3. /\ p_queries' = all
        /\ IF DuplicatedQuery(all)
           THEN Write(Challenges(<<"x1", "x2">>), "refused")
           ELSE Write(ToEvals(dummies) \o Opening(all), "done")
    BY <1>1 DEF MultiOpen
  <1> HIDE DEF all
  <1> QED
    BY <1>2, <1>3

LEMMA ProverKeeps ==
  ASSUME KeyInv, ProverInv,
         \/ ParseAdvices \/ WriteMultiplicities \/ WriteArguments \/ HashingPanics
         \/ WriteQuotient \/ WriteEvals \/ MultiOpen \/ ProverPanics
  PROVE  ProverInv'
  <1>1. phase = "keyed" /\ p_pc \in Stages /\ p_pc # "done" /\ Speaking
    BY DEF ParseAdvices, WriteMultiplicities, WriteArguments, HashingPanics, WriteQuotient,
           WriteEvals, MultiOpen, ProverPanics, ProverAt, Stages, Speaking
  <1>2. Keyed /\ IsKey(cs)
    BY <1>1, KeysMade DEF Keyed
  <1>3. CASE ParseAdvices
    <2>1. Stage(p_pc) = 0 /\ Stage("multiplicities") = 0 + 1 /\ "multiplicities" \in Stages
      BY <1>3 DEF ParseAdvices, ProverAt, Stage, Stages
    <2>2. Write(Script[0 + 1], "multiplicities")
      BY <1>2, <1>3, ProverWrites, ScriptOfStages
    <2>3. "multiplicities" # "done" /\ 0 \in 0 .. 5
      OBVIOUS
    <2> QED
      BY <1>1, <2>1, <2>2, <2>3, WritingSays
  <1>4. CASE WriteMultiplicities
    <2>1. Stage(p_pc) = 1 /\ Stage("arguments") = 1 + 1 /\ "arguments" \in Stages
      BY <1>4 DEF WriteMultiplicities, ProverAt, Stage, Stages
    <2>2. Write(Script[1 + 1], "arguments")
      BY <1>2, <1>4, ProverWrites, ScriptOfStages
    <2>3. "arguments" # "done" /\ 1 \in 0 .. 5
      OBVIOUS
    <2> QED
      BY <1>1, <2>1, <2>2, <2>3, WritingSays
  <1>5. CASE WriteArguments
    <2>1. Stage(p_pc) = 2 /\ Stage("quotient") = 2 + 1 /\ "quotient" \in Stages
      BY <1>5 DEF WriteArguments, ProverAt, Stage, Stages
    <2>2. Write(Script[2 + 1], "quotient")
      BY <1>2, <1>5, ProverWrites, ScriptOfStages
    <2>3. "quotient" # "done" /\ 2 \in 0 .. 5
      OBVIOUS
    <2> QED
      BY <1>1, <2>1, <2>2, <2>3, WritingSays
  <1>6. CASE HashingPanics
    <2> DEFINE items == ArgumentCommitments(<<>>)
    <2>1. IsSeq(items)
      <3>1. IsSeq(LogupCommitments) /\ PermutationChunks \in Nat
        BY <1>2, SameLists, LookupsOfKey, ProverCountsChunks, KeyFields
      <3> QED
        BY <3>1, LabelsTyped, JoinedTyped, Nothing DEF ArgumentCommitments
    <2>2. Write(items, "panicked")
      BY <1>6 DEF HashingPanics
    <2> HIDE DEF items
    <2> QED
      BY <1>1, <2>1, <2>2, WritingStops
  <1>7. CASE WriteQuotient
    <2>1. Stage(p_pc) = 3 /\ Stage("evals") = 3 + 1 /\ "evals" \in Stages
      BY <1>7 DEF WriteQuotient, ProverAt, Stage, Stages
    <2>2. Write(Script[3 + 1], "evals")
      BY <1>2, <1>7, ProverWrites, ScriptOfStages
    <2>3. "evals" # "done" /\ 3 \in 0 .. 5
      OBVIOUS
    <2> QED
      BY <1>1, <2>1, <2>2, <2>3, WritingSays
  <1>8. CASE WriteEvals
    <2>1. Stage(p_pc) = 4 /\ Stage("opening") = 4 + 1 /\ "opening" \in Stages
      BY <1>8 DEF WriteEvals, ProverAt, Stage, Stages
    <2>2. Write(Script[4 + 1], "opening")
      BY <1>2, <1>8, ProverWrites, ScriptOfStages
    <2>3. "opening" # "done" /\ 4 \in 0 .. 5
      OBVIOUS
    <2> QED
      BY <1>1, <2>1, <2>2, <2>3, WritingSays
  <1>9. CASE MultiOpen
    <2> DEFINE all == AllQueriesIn(cs, features, statement.committed)
    <2>1. /\ p_queries' = all
          /\ DuplicatedQuery(all) => Write(Challenges(<<"x1", "x2">>), "refused")
          /\ ~ DuplicatedQuery(all) =>
                 Write(OpeningPart(cs, features, statement.committed), "done")
      BY <1>2, <1>9, ProverOpens
    <2> HIDE DEF all
    <2>2. CASE DuplicatedQuery(all)
      <3>1. IsSeq(Challenges(<<"x1", "x2">>)) /\ Write(Challenges(<<"x1", "x2">>), "refused")
        BY <2>1, <2>2, SomeChallenges
      <3> QED
        BY <1>1, <3>1, WritingStops
    <2>3. CASE ~ DuplicatedQuery(all)
      <3>1. Stage(p_pc) = 5 /\ Stage("done") = 5 + 1 /\ "done" \in Stages \cup {"done"}
        BY <1>9 DEF MultiOpen, ProverAt, Stage
      <3>2. Write(Script[5 + 1], "done")
        BY <2>1, <2>3, ScriptOfStages
      <3>3. p_queries' = AllQueriesIn(cs, features, statement.committed)
            /\ ~ DuplicatedQuery(p_queries')
        BY <2>1, <2>3 DEF all
      <3>4. 5 \in 0 .. 5
        OBVIOUS
      <3> QED
        BY <1>1, <3>1, <3>2, <3>3, <3>4, WritingSays
    <2> QED
      BY <2>2, <2>3
  <1>10. CASE ProverPanics
    <2>1. p_pc' = "panicked" /\ UNCHANGED <<p_log, proof>> /\ phase' = "keyed"
      BY <1>1, <1>10 DEF ProverPanics, Silent, csVars
    <2>2. Recorded'
      BY <2>1 DEF ProverInv, Recorded
    <2> QED
      BY <2>1, <2>2, StoppingKeeps
  <1> QED
    BY <1>3, <1>4, <1>5, <1>6, <1>7, <1>8, <1>9, <1>10

(* Whatever the verifier listens for, it has absorbed all that it has      *)
(* taken, in the place it is at.                                           *)
HearingOK == Listening /\ Len(taken) = position /\ position <= Len(v_log)

LEMMA ReadingTyped ==
  ASSUME HearingOK, NEW items, IsSeq(items), NEW next, Read(items, next)
  PROVE  HearingOK'
  <1> DEFINE t == Heard(items)
  <1>1. /\ v_log' = t.log /\ position' = t.at /\ taken' = t.taken /\ received' = received
    BY DEF Read, Deaf
  <1>2. /\ IsSeq(t.log) /\ IsSeq(t.taken) /\ t.at \in 0 .. Len(received)
        /\ Counted(t, Written(items))
    <2>1. t = Heard(items)
      OBVIOUS
    <2> HIDE DEF t
    <2> QED
      BY <2>1, ReadFacts DEF HearingOK
  <1>3. /\ t.at >= position /\ Len(t.taken) = Len(taken) + (t.at - position)
        /\ Len(t.log) >= Len(v_log) + (t.at - position)
    BY <1>2 DEF Counted
  <1> HIDE DEF t
  <1>4. IsSeq(received) /\ position \in 0 .. Len(received) /\ Len(received) \in Nat
        /\ Len(v_log) \in Nat /\ Len(taken) = position /\ position <= Len(v_log)
    BY SeqFacts DEF HearingOK, Listening
  <1>5. Len(t.log) \in Nat
    BY <1>2, SeqFacts
  <1>6. Len(t.taken) = t.at /\ t.at <= Len(t.log)
    BY <1>2, <1>3, <1>4, <1>5
  <1> QED
    BY <1>1, <1>2, <1>4, <1>6 DEF HearingOK, Listening

(* What the verifier of a part of the script hears, on any proof, and what *)
(* it hears of one that reached it whole.                                  *)
LEMMA ReadingCounts ==
  ASSUME HearingOK, NEW sc, IsScript(sc), NEW n \in 0 .. 5, NEW next, Read(sc[n + 1], next),
         v_pc' = next, next # "rejected", position = Len(Written(Spoken(sc, n)))
  PROVE  position' = Len(Written(Spoken(sc, n + 1)))
  <1> DEFINE items == sc[n + 1]
             t == Heard(items)
             w == Written(items)
             s == Written(Spoken(sc, n))
  <1>1. position' = t.at /\ ~ t.short
    BY DEF Read
  <1>2. IsSeq(items)
    BY SaysNext, Nothing
  <1>3. Counted(t, w)
    <2>1. t = Heard(items)
      OBVIOUS
    <2> HIDE DEF t, items
    <2> QED
      BY <1>2, <2>1, ReadFacts DEF HearingOK
  <1>4. position' = position + Len(w)
    BY <1>1, <1>3 DEF Counted
  <1>5. IsSeq(s) /\ IsSeq(w)
    <2>1. n \in 0 .. 6 /\ SpokenBy(sc)
      BY SpokenParts
    <2>2. IsSeq(s)
      BY <2>1 DEF SpokenBy
    <2> QED
      BY <1>2, <2>2, WrittenTyped
  <1>6. Written(Spoken(sc, n + 1)) = s \o w
    BY SaysNext, Nothing
  <1> HIDE DEF s, w, items, t
  <1>7. Len(s \o w) = Len(s) + Len(w)
    BY <1>5, Joined
  <1> QED
    BY <1>4, <1>6, <1>7 DEF s

LEMMA ReadingHears ==
  ASSUME HearingOK, AsTaken(taken), NEW sc, IsScript(sc), NEW n \in 0 .. 5, NEW next,
         Read(sc[n + 1], next), NEW head, IsSeq(head), v_log = head \o Spoken(sc, n),
         position = Len(Written(Spoken(sc, n))), received = Written(Spoken(sc, 6))
  PROVE  v_pc' = next /\ AsTaken(taken') /\ v_log' = head \o Spoken(sc, n + 1)
  <1> DEFINE items == sc[n + 1]
             t == Heard(items)
             w == Written(items)
             s == Written(Spoken(sc, n))
  <1>1. v_log' = t.log /\ taken' = t.taken /\ v_pc' = IF t.short THEN "rejected" ELSE next
    BY DEF Read
  <1>2. IsSeq(items) /\ v_log \o items = head \o Spoken(sc, n + 1)
    BY SaysNext
  <1>3. Continues(received, s, w)
    BY WrittenContinues
  <1>4. Answered(items)
    BY <1>3 DEF Continues, Answered
  <1>5. ~ t.short /\ t.log = v_log \o items /\ AsTaken(t.taken)
    <2>1. t = Heard(items)
      OBVIOUS
    <2> HIDE DEF t, items
    <2> QED
      BY <1>2, <1>4, <2>1, ReadAnswered DEF HearingOK
  <1> HIDE DEF t, items
  <1> QED
    BY <1>1, <1>2, <1>5

ClaimScript == ScriptOf(cs, features, Len(claim.commitments), quotient_degree)

LEMMA ProofIsSaid ==
  ASSUME KeyInv, ProverInv, p_pc = "done"
  PROVE  /\ phase = "keyed" /\ Keyed /\ ~ InvalidInstances
         /\ p_log = Greeting \o Spoken(Script, 6) /\ proof = Written(Spoken(Script, 6))
         /\ p_queries = AllQueriesIn(cs, features, statement.committed)
         /\ ~ DuplicatedQuery(p_queries)
  <1>1. Speaking /\ p_pc # "instances" /\ Stage(p_pc) = 6
    BY DEF Speaking, Stage
  <1>2. phase = "keyed" /\ ~ InvalidInstances /\ ProverSays(Script, 6)
    BY <1>1 DEF ProverInv
  <1>3. Keyed
    BY <1>2, KeysMade
  <1> QED
    BY <1>2, <1>3 DEF ProverInv, ProverSays

LEMMA SameClaimSameScript ==
  ASSUME KeyInv, SameClaim
  PROVE  ClaimScript = Script /\ Len(claim.commitments) = statement.committed
  <1>1. Len(claim.commitments) = statement.committed
    BY StatementClaims DEF SameClaim, KeyInv
  <1> QED
    BY <1>1 DEF ClaimScript, Script

LEMMA DeafStays ==
  ASSUME Deaf
  PROVE  /\ csVars' = csVars /\ statement' = statement /\ features' = features /\ cs' = cs
         /\ p_pc' = p_pc /\ p_queries' = p_queries
         /\ (SameClaim' <=> SameClaim) /\ (Faithful' <=> Faithful) /\ (Damaged' <=> Damaged)
         /\ Script' = Script /\ Greeting' = Greeting /\ claim' = claim /\ received' = received
         /\ proof' = proof
  <1>1. /\ csVars' = csVars /\ statement' = statement /\ features' = features
        /\ p_pc' = p_pc /\ p_queries' = p_queries /\ claim' = claim /\ received' = received
        /\ proof' = proof
    BY DEF Deaf, proverVars
  <1>2. cs' = cs /\ quotient_degree' = quotient_degree
    BY <1>1 DEF csVars
  <1>3. (SameClaim' <=> SameClaim) /\ (Faithful' <=> Faithful)
    BY <1>1 DEF SameClaim, Faithful, ClaimOf, CommitTo
  <1>4. Damaged' <=> Damaged
    BY <1>1, <1>3 DEF Damaged
  <1>5. Script' = Script /\ Greeting' = Greeting
    BY <1>1, <1>2 DEF Script, Greeting
  <1> QED
    BY <1>1, <1>2, <1>3, <1>4, <1>5

LEMMA ClaimsTyped ==
  ASSUME NEW s \in Statements, claim = ClaimOf(s)
  PROVE  IsClaim(claim) /\ IsSeq(ClaimItems(claim)) /\ IsSeq(<<<<"vk">>>> \o ClaimItems(claim))
  <1>1. IsClaim(claim)
    BY StatementClaims
  <1>2. IsSeq(ClaimItems(claim))
    BY <1>1, ClaimCodes
  <1> QED
    BY <1>1, <1>2, OneElement, JoinedTyped

LEMMA ReadingKeeps ==
  ASSUME KeyInv, ProverInv, VerifierInv, v_pc \in Stages, NEW n \in 0 .. 5, n = Stage(v_pc),
         NEW next \in Stages \cup {"prepared"}, Stage(next) = n + 1,
         Read(ClaimScript[n + 1], next),
         next = "prepared" /\ SameClaim => v_queries' = p_queries
  PROVE  VerifierInv'
  <1>1. v_pc # "waiting" /\ v_pc # "instances" /\ Hearing
    BY DEF Stages, Hearing
  <1>2. /\ p_pc = "done" /\ (\E s \in Statements : claim = ClaimOf(s))
        /\ received = proof \/ Damaged
        /\ VerifierHears(Script, n) /\ (Faithful => AsTaken(taken)) /\ HearingOK
    BY <1>1 DEF VerifierInv, HearingOK
  <1>3. /\ phase = "keyed" /\ Keyed /\ proof = Written(Spoken(Script, 6))
    BY <1>2, ProofIsSaid
  <1>4. Deaf /\ v_pc' \in {next, "rejected"}
    BY DEF Read
  <1>5. IsScript(ClaimScript) /\ IsScript(Script) /\ IsSeq(Greeting)
    BY <1>3 DEF Keyed, ClaimScript
  <1>6. IsSeq(ClaimScript[n + 1])
    BY <1>5, SaysNext, Nothing
  <1>7. HearingOK'
    BY <1>2, <1>6, ReadingTyped
  <1>8. IsPrefix(<<<<"vk">>>> \o ClaimItems(claim), v_log')
    <2> DEFINE g == <<<<"vk">>>> \o ClaimItems(claim)
               t == Heard(ClaimScript[n + 1])
    <2>1. IsSeq(g)
      BY <1>2, ClaimsTyped
    <2>2. IsPrefix(g, v_log)
      BY <1>2 DEF VerifierHears
    <2>3. IsPrefix(v_log, t.log) /\ v_log' = t.log
      BY <1>2, <1>6, HeardExtends DEF HearingOK, Read
    <2> HIDE DEF g, t
    <2>4. IsSeq(v_log) /\ IsSeq(v_log')
      BY <1>2, <1>7 DEF HearingOK, Listening
    <2>5. IsSeq(t.log)
      BY <2>3, <2>4
    <2>6. IsPrefix(g, t.log)
      BY <2>1, <2>2, <2>3, <2>4, <2>5, PrefixThen
    <2> QED
      BY <2>3, <2>6 DEF g
  <1>9. ASSUME SameClaim, v_pc' = next
        PROVE  position' = Len(Written(Spoken(Script, n + 1)))
    <2>1. ClaimScript = Script /\ next # "rejected"
      BY <1>9, SameClaimSameScript DEF Stages
    <2>2. position = Len(Written(Spoken(Script, n)))
      BY <1>2, <1>9 DEF VerifierHears
    <2>3. Read(Script[n + 1], next)
      BY <2>1
    <2> QED
      BY <1>2, <1>5, <1>9, <2>1, <2>2, <2>3, ReadingCounts
  <1>10. ASSUME Faithful
         PROVE  v_pc' = next /\ AsTaken(taken') /\ v_log' = Greeting \o Spoken(Script, n + 1)
    <2>1. SameClaim /\ received = proof
      BY <1>10 DEF Faithful, SameClaim
    <2>2. ClaimScript = Script
      BY <2>1, SameClaimSameScript
    <2>3. /\ v_log = Greeting \o Spoken(Script, n) /\ AsTaken(taken)
          /\ position = Len(Written(Spoken(Script, n))) /\ received = Written(Spoken(Script, 6))
      BY <1>2, <1>3, <1>10, <2>1 DEF VerifierHears
    <2>4. Read(Script[n + 1], next)
      BY <2>2
    <2> QED
      BY <1>2, <1>5, <2>3, <2>4, ReadingHears
  <1>11. /\ csVars' = csVars /\ p_pc' = p_pc /\ p_queries' = p_queries
         /\ (SameClaim' <=> SameClaim) /\ (Faithful' <=> Faithful) /\ (Damaged' <=> Damaged)
         /\ Script' = Script /\ Greeting' = Greeting /\ claim' = claim /\ received' = received
         /\ proof' = proof
    BY <1>4, DeafStays
  <1>12. next # "rejected" /\ next # "panicked" /\ next # "complete" /\ next # "waiting" /\ next # "instances"
    BY DEF Stages
  <1>13. Hearing' => v_pc' = next
    BY <1>4 DEF Hearing, Stages
  <1>14. ASSUME v_pc' = next
         PROVE  VerifierHears(Script, Stage(v_pc))'
    <2>1. ColumnCount(claim)' = NumInstance /\ ClaimItems(claim)' = ClaimItems(claim)
      BY <1>2, <1>11 DEF VerifierHears, ColumnCount, ClaimItems
    <2>2. Stage(v_pc)' = n + 1
      BY <1>14
    <2>3. VerifierHears(Script, n + 1)'
      BY <1>8, <1>9, <1>10, <1>11, <1>14, <2>1 DEF VerifierHears
    <2> QED
      BY <2>2, <2>3
  <1>15. (\E s \in Statements : claim = ClaimOf(s))'
    BY <1>2, <1>11 DEF ClaimOf, CommitTo
  <1>16. (received = proof \/ Damaged)'
    BY <1>2, <1>11
  <1>17. (SameClaim /\ v_pc \in {"prepared", "complete"} => v_queries = p_queries)'
    BY <1>4, <1>11, <1>12 DEF Stages
  <1>18. /\ v_pc' \in Stages \cup {"waiting", "instances", "prepared", "complete", "rejected"}
         /\ v_pc' \notin {"waiting", "instances"} /\ v_pc' # "complete"
    BY <1>4, <1>12
  <1>19. (Faithful => v_pc \notin {"rejected", "panicked"} /\ AsTaken(taken))'
    BY <1>10, <1>11, <1>12
  <1> QED
    BY <1>2, <1>7, <1>11, <1>13, <1>14, <1>15, <1>16, <1>17, <1>18, <1>19 DEF VerifierInv, HearingOK

(* Each stage of the verifier reads a part of the script of its claim.     *)
LEMMA VerifierReads ==
  ASSUME Keyed, phase = "keyed"
  PROVE  /\ ReadAdvices => v_pc = "advice" /\ Read(ClaimScript[1], "multiplicities")
         /\ ReadMultiplicities => v_pc = "multiplicities" /\ Read(ClaimScript[2], "arguments")
         /\ ReadArguments => v_pc = "arguments" /\ Read(ClaimScript[3], "quotient")
         /\ ReadQuotient => v_pc = "quotient" /\ Read(ClaimScript[4], "evals")
         /\ ReadEvals => v_pc = "evals" /\ Read(ClaimScript[5], "opening")
  <1>1. /\ ClaimScript[1] = AdvicePart /\ ClaimScript[2] = MultiplicityPart(cs)
        /\ ClaimScript[3] = ArgumentPart(cs) /\ ClaimScript[4] = QuotientPart(features, quotient_degree)
        /\ ClaimScript[5] = EvalsPart(cs, Len(claim.commitments))
    BY ScriptParts DEF ClaimScript
  <1>2. IsKey(cs) /\ TrashIndexed(cs) /\ SelectorsAreTracked
    BY DEF Keyed
  <1>3. ReadAdvices => v_pc = "advice" /\ Read(ClaimScript[1], "multiplicities")
    BY <1>1 DEF ReadAdvices, VerifierAt, AdvicePart
  <1>4. ReadMultiplicities => v_pc = "multiplicities" /\ Read(ClaimScript[2], "arguments")
    BY <1>1 DEF ReadMultiplicities, VerifierAt, MultiplicityPart, NumLookups
  <1>5. ReadArguments => v_pc = "arguments" /\ Read(ClaimScript[3], "quotient")
    BY <1>1, <1>2, VerifierArguments DEF VerifierAt
  <1>6. ReadQuotient => v_pc = "quotient" /\ Read(ClaimScript[4], "evals")
    BY <1>1 DEF ReadQuotient, VerifierAt, QuotientPart, NumQuotients
  <1>7. ReadEvals => v_pc = "evals" /\ Read(ClaimScript[5], "opening")
    BY <1>1, <1>2, VerifierEvals DEF VerifierAt
  <1> QED
    BY <1>3, <1>4, <1>5, <1>6, <1>7

LEMMA ReadersKeep ==
  ASSUME KeyInv, ProverInv, VerifierInv,
         ReadAdvices \/ ReadMultiplicities \/ ReadArguments \/ ReadQuotient \/ ReadEvals
  PROVE  VerifierInv'
  <1>1. v_pc \in Stages
    BY DEF ReadAdvices, ReadMultiplicities, ReadArguments, ReadQuotient, ReadEvals, VerifierAt,
           Stages
  <1>2. p_pc = "done"
    BY <1>1 DEF VerifierInv, Stages
  <1>3. Keyed /\ phase = "keyed"
    BY <1>2, ProofIsSaid
  <1>4. \E n \in 0 .. 4, next \in Stages :
            n = Stage(v_pc) /\ Stage(next) = n + 1 /\ Read(ClaimScript[n + 1], next)
    <2>1. CASE ReadAdvices
      <3>1. v_pc = "advice" /\ Read(ClaimScript[0 + 1], "multiplicities")
        BY <1>3, <2>1, VerifierReads
      <3> QED
        BY <3>1 DEF Stage, Stages
    <2>2. CASE ReadMultiplicities
      <3>1. v_pc = "multiplicities" /\ Read(ClaimScript[1 + 1], "arguments")
        BY <1>3, <2>2, VerifierReads
      <3> QED
        BY <3>1 DEF Stage, Stages
    <2>3. CASE ReadArguments
      <3>1. v_pc = "arguments" /\ Read(ClaimScript[2 + 1], "quotient")
        BY <1>3, <2>3, VerifierReads
      <3> QED
        BY <3>1 DEF Stage, Stages
    <2>4. CASE ReadQuotient
      <3>1. v_pc = "quotient" /\ Read(ClaimScript[3 + 1], "evals")
        BY <1>3, <2>4, VerifierReads
      <3> QED
        BY <3>1 DEF Stage, Stages
    <2>5. CASE ReadEvals
      <3>1. v_pc = "evals" /\ Read(ClaimScript[4 + 1], "opening")
        BY <1>3, <2>5, VerifierReads
      <3> QED
        BY <3>1 DEF Stage, Stages
    <2> QED
      BY <2>1, <2>2, <2>3, <2>4, <2>5
  <1>5. PICK n \in 0 .. 4, next \in Stages :
            n = Stage(v_pc) /\ Stage(next) = n + 1 /\ Read(ClaimScript[n + 1], next)
    BY <1>4
  <1>6. n \in 0 .. 5 /\ next \in Stages \cup {"prepared"} /\ next # "prepared"
    BY <1>5 DEF Stages
  <1> QED
    BY <1>1, <1>5, <1>6, ReadingKeeps

(* The queries of the verifier are those of its claim: they are duplicated *)
(* only when it is not the claim that was proved.                          *)
LEMMA VerifierPrepares ==
  ASSUME KeyInv, ProverInv, VerifierInv, MultiPrepare
  PROVE  /\ v_pc = "opening" /\ Keyed
         /\ \/ /\ Read(Challenges(<<"x1", "x2">>), "rejected") /\ ~ SameClaim
            \/ /\ Read(ClaimScript[6], "prepared") /\ (SameClaim => v_queries' = p_queries)
  <1>1. v_pc = "opening"
    BY DEF MultiPrepare, VerifierAt
  <1>2. p_pc = "done"
    BY <1>1 DEF VerifierInv
  <1>3. Keyed /\ p_queries = AllQueriesIn(cs, features, statement.committed) /\ ~ DuplicatedQuery(p_queries)
    BY <1>2, ProofIsSaid
  <1>4. IsKey(cs) /\ TrashIndexed(cs)
    BY <1>3 DEF Keyed
  <1> DEFINE k == Len(claim.commitments)
             all == AllQueriesIn(cs, features, k)
  <1>5. VerifierQueries = QueriesIn(cs, k) /\ DummyQueries(QueriesIn(cs, k)) = DummiesIn(features, QueriesIn(cs, k))
    BY <1>4, VerifierReadsQueries, SameLists
  <1>6. VerifierQueries \o DummyQueries(VerifierQueries) = all
    BY <1>5 DEF AllQueriesIn
  <1>7. ClaimScript[6] = ToEvals(DummyQueries(VerifierQueries)) \o Opening(all)
    <2>1. ClaimScript[6] = OpeningPart(cs, features, k)
      BY ScriptParts DEF ClaimScript
    <2> HIDE DEF all
    <2>2. OpeningPart(cs, features, k) = ToEvals(DummyQueries(VerifierQueries)) \o Opening(all)
      BY <1>5 DEF OpeningPart, all
    <2> QED
      BY <2>1, <2>2
  <1>8. /\ v_queries' = all
        /\ DuplicatedQuery(all) => Read(Challenges(<<"x1", "x2">>), "rejected")
        /\ ~ DuplicatedQuery(all) => Read(ClaimScript[6], "prepared")
    BY <1>6, <1>7 DEF MultiPrepare
  <1>9. SameClaim => all = p_queries
    BY <1>3, SameClaimSameScript
  <1> HIDE DEF all, k
  <1> QED
    BY <1>1, <1>3, <1>8, <1>9

LEMMA PreparingKeeps ==
  ASSUME KeyInv, ProverInv, VerifierInv, MultiPrepare
  PROVE  VerifierInv'
  <1>1. v_pc = "opening" /\ Keyed
    BY VerifierPrepares
  <1>2. CASE Read(Challenges(<<"x1", "x2">>), "rejected") /\ ~ SameClaim
    <2>1. IsSeq(Challenges(<<"x1", "x2">>)) /\ HearingOK
      BY SomeChallenges DEF VerifierInv, HearingOK
    <2>2. HearingOK'
      BY <1>2, <2>1, ReadingTyped
    <2>3. v_pc' = "rejected" /\ Deaf
      BY <1>2 DEF Read
    <2>4. ~ SameClaim' /\ ~ Faithful'
      BY <1>2, <2>3, DeafStays DEF SameClaim, Faithful
    <2>5. p_pc' = p_pc /\ claim' = claim /\ received' = received /\ proof' = proof
          /\ (Damaged' <=> Damaged)
      BY <2>3, DeafStays
    <2>6. /\ p_pc = "done" /\ \E s \in Statements : claim = ClaimOf(s)
          /\ received = proof \/ Damaged
      BY <1>1 DEF VerifierInv
    <2> QED
      BY <2>2, <2>3, <2>4, <2>5, <2>6 DEF VerifierInv, HearingOK, Hearing, Stages
  <1>3. CASE Read(ClaimScript[6], "prepared") /\ (SameClaim => v_queries' = p_queries)
    <2>1. v_pc \in Stages /\ 5 = Stage(v_pc) /\ Stage("prepared") = 5 + 1
          /\ Read(ClaimScript[5 + 1], "prepared")
      BY <1>1, <1>3 DEF Stages, Stage
    <2> QED
      BY <1>3, <2>1, ReadingKeeps
  <1> QED
    BY <1>2, <1>3, VerifierPrepares

LEMMA DuplicatedStays ==
  ASSUME NEW s, IsSeq(s), NEW t, IsSeq(t), DuplicatedQuery(s)
  PROVE  DuplicatedQuery(s \o t)
  <1> DEFINE u == s \o t
  <1>1. /\ IsSeq(u) /\ Len(u) = Len(s) + Len(t) /\ Len(s) \in Nat /\ Len(t) \in Nat
        /\ \A i \in 1 .. Len(s) : u[i] = s[i]
    BY Joined
  <1>2. DOMAIN s = 1 .. Len(s) /\ DOMAIN u = 1 .. Len(u)
    BY <1>1, SeqFacts
  <1>3. PICK i, j \in DOMAIN s : i < j /\ s[i][1] = s[j][1] /\ Point(s[i][2]) = Point(s[j][2])
    BY DEF DuplicatedQuery
  <1> HIDE DEF u
  <1>4. u[i] = s[i] /\ u[j] = s[j] /\ i \in DOMAIN u /\ j \in DOMAIN u
    BY <1>1, <1>2, <1>3
  <1>5. DuplicatedQuery(u)
    BY <1>3, <1>4 DEF DuplicatedQuery
  <1> QED
    BY <1>5 DEF u

(* The prover would have panicked on the same claim.                       *)
LEMMA PanickingKeeps ==
  ASSUME KeyInv, ProverInv, VerifierInv, VerifierPanics
  PROVE  VerifierInv'
  <1>1. /\ v_pc = "opening" /\ v_pc' = "panicked" /\ OpeningPanics(VerifierQueries)
        /\ UNCHANGED <<v_log, position, taken, v_queries>> /\ Deaf
    BY DEF VerifierPanics, VerifierAt
  <1>2. p_pc = "done"
    BY <1>1 DEF VerifierInv
  <1>3. Keyed /\ p_queries = AllQueriesIn(cs, features, statement.committed)
        /\ ~ DuplicatedQuery(p_queries)
    BY <1>2, ProofIsSaid
  <1>4. IsKey(cs) /\ TrashIndexed(cs)
    BY <1>3 DEF Keyed
  <1>5. VerifierQueries = QueriesIn(cs, Len(claim.commitments))
    BY <1>4, VerifierReadsQueries
  <1>6. DuplicatedQuery(QueriesIn(cs, Len(claim.commitments)))
    BY <1>1, <1>5 DEF OpeningPanics
  <1>7. ~ SameClaim
    <2> SUFFICES ASSUME SameClaim
                 PROVE  FALSE
      OBVIOUS
    <2> DEFINE qs == QueriesIn(cs, statement.committed)
               ds == DummiesIn(features, qs)
    <2>1. DuplicatedQuery(qs)
      BY <1>6, SameClaimSameScript
    <2>2. IsSeq(qs) /\ IsSeq(ds) /\ p_queries = qs \o ds
      BY <1>3, <1>4, QueriesTyped, AllQueriesTyped DEF AllQueriesIn
    <2> HIDE DEF qs, ds
    <2>3. DuplicatedQuery(qs \o ds)
      BY <2>1, <2>2, DuplicatedStays
    <2> QED
      BY <1>3, <2>2, <2>3
  <1>8. /\ p_pc' = p_pc /\ claim' = claim /\ received' = received /\ proof' = proof
        /\ (Damaged' <=> Damaged) /\ (SameClaim' <=> SameClaim) /\ (Faithful' <=> Faithful)
    BY <1>1, DeafStays
  <1>9. HearingOK'
    BY <1>1, <1>8 DEF VerifierInv, HearingOK, Listening
  <1>10. ~ Faithful'
    BY <1>7, <1>8 DEF Faithful, SameClaim
  <1>11. /\ p_pc' = "done" /\ (\E s \in Statements : claim = ClaimOf(s))'
         /\ (received = proof \/ Damaged)'
    BY <1>1, <1>2, <1>8 DEF VerifierInv
  <1> QED
    BY <1>1, <1>7, <1>8, <1>9, <1>10, <1>11 DEF VerifierInv, HearingOK, Hearing, Stages

LEMMA DoneReading ==
  ASSUME KeyInv, ProverInv, VerifierInv, AssertEmpty
  PROVE  VerifierInv'
  <1>1. v_pc = "prepared" /\ Deaf /\ UNCHANGED <<v_log, position, taken, v_queries>>
        /\ v_pc' = IF position = Len(received) THEN "complete" ELSE "rejected"
    BY DEF AssertEmpty, VerifierAt
  <1>2. p_pc = "done"
    BY <1>1 DEF VerifierInv
  <1>3. proof = Written(Spoken(Script, 6)) /\ VerifierHears(Script, 6)
    BY <1>1, <1>2, ProofIsSaid DEF VerifierInv, Hearing, Stage
  <1>4. Faithful => v_pc' = "complete"
    BY <1>1, <1>3 DEF VerifierHears, Faithful, SameClaim
  <1>5. Script' = Script /\ Greeting' = Greeting /\ (Faithful' <=> Faithful)
        /\ (SameClaim' <=> SameClaim) /\ (Damaged' <=> Damaged)
        /\ claim' = claim /\ received' = received /\ p_pc' = p_pc /\ proof' = proof
        /\ p_queries' = p_queries
    BY <1>1, DeafStays
  <1>6. VerifierHears(Script, 6)'
    BY <1>1, <1>3, <1>5 DEF VerifierHears
  <1>7. Stage("complete") = 6 /\ v_pc' \in {"complete", "rejected"}
    BY <1>1 DEF Stage
  <1>8. Hearing' => VerifierHears(Script, Stage(v_pc))'
    BY <1>6, <1>7 DEF Hearing, Stages
  <1>9. Listening' /\ (Len(taken) = position)' /\ (position <= Len(v_log))'
    BY <1>1, <1>5 DEF VerifierInv, Listening
  <1> QED
    BY <1>1, <1>2, <1>4, <1>5, <1>7, <1>8, <1>9 DEF VerifierInv

LEMMA AbsorbingKeeps ==
  ASSUME KeyInv, ProverInv, VerifierInv, AbsorbClaim
  PROVE  VerifierInv'
  <1>1. /\ v_pc = "instances" /\ Deaf /\ UNCHANGED <<position, taken, v_queries>>
        /\ IF ColumnCount(claim) # NumInstance THEN v_pc' = "rejected" /\ UNCHANGED v_log
           ELSE v_log' = <<<<"vk">>>> \o claim.commitments
                             \o FlattenSeq([i \in DOMAIN claim.instances |-> AbsorbColumn(claim.instances[i])])
                /\ v_pc' = "advice"
    BY DEF AbsorbClaim, VerifierAt, ColumnCount
  <1>2. p_pc = "done" /\ v_log = <<>> /\ taken = <<>>
    BY <1>1 DEF VerifierInv
  <1>3. PICK s \in Statements : claim = ClaimOf(s)
    BY <1>1 DEF VerifierInv
  <1>4. ~ InvalidInstances /\ Keyed
    BY <1>2, ProofIsSaid
  <1>5. position = 0 /\ Listening
    BY <1>2, Nothing DEF VerifierInv
  <1>6. IsClaim(claim) /\ IsSeq(ClaimItems(claim)) /\ IsSeq(<<<<"vk">>>> \o ClaimItems(claim))
    BY <1>3, ClaimsTyped
  <1>7. SameClaim => ColumnCount(claim) = NumInstance /\ InstanceItems(statement) = ClaimItems(claim)
    <2>1. statement \in Statements
      BY DEF KeyInv
    <2>2. Len(statement.instances) = NumInstance /\ ~ (Len(statement.instances) < statement.committed)
      BY <1>4 DEF InvalidInstances
    <2>3. /\ ClaimOf(statement) = ClaimOf(statement)
          /\ statement.committed \in Nat /\ Len(statement.instances) \in Nat
      BY <2>1, StatementClaims
    <2>4. statement.committed <= Len(statement.instances)
      BY <2>2, <2>3
    <2>5. SameClaim => ColumnCount(claim) = Len(statement.instances)
                       /\ InstanceItems(statement) = ClaimItems(claim)
      BY <2>1, <2>4, StatementClaims DEF SameClaim
    <2> QED
      BY <2>2, <2>5
  <1>8. /\ Script' = Script /\ Greeting' = Greeting /\ claim' = claim /\ received' = received
        /\ p_pc' = p_pc /\ proof' = proof /\ p_queries' = p_queries
        /\ (SameClaim' <=> SameClaim) /\ (Faithful' <=> Faithful) /\ (Damaged' <=> Damaged)
    BY <1>1, DeafStays
  <1>9. CASE ColumnCount(claim) # NumInstance
    <2>1. v_pc' = "rejected" /\ v_log' = v_log /\ position' = position /\ taken' = taken
      BY <1>1, <1>9
    <2>2. ~ Faithful'
      BY <1>7, <1>8, <1>9 DEF Faithful, SameClaim
    <2>3. HearingOK'
      BY <1>8, <2>1 DEF HearingOK, VerifierInv, Listening
    <2>4. /\ p_pc' = "done" /\ \E st \in Statements : claim' = ClaimOf(st)
          /\ (received = proof \/ Damaged)'
      BY <1>1, <1>2, <1>3, <1>8 DEF VerifierInv
    <2> QED
      BY <2>1, <2>2, <2>3, <2>4 DEF VerifierInv, HearingOK, Hearing, Stages
  <1>10. CASE ColumnCount(claim) = NumInstance
    <2>1. v_pc' = "advice" /\ position' = 0 /\ taken' = <<>> /\ v_queries' = v_queries
      BY <1>1, <1>2, <1>5, <1>10
    <2>2. v_log' = <<<<"vk">>>> \o ClaimItems(claim)
      <3> DEFINE rest == FlattenSeq([i \in DOMAIN claim.instances |-> AbsorbColumn(claim.instances[i])])
      <3>1. IsSeq(claim.commitments) /\ IsSeq(<<<<"vk">>>>)
        BY <1>6, OneElement DEF IsClaim
      <3>2. IsSeq(rest)
        <4>1. \A i \in 1 .. Len(claim.instances) : IsSeq(AbsorbColumn(claim.instances[i]))
          <5>1. claim.instances \in Seq(Seq(Nat))
            BY <1>6 DEF IsClaim
          <5>2. TAKE i \in 1 .. Len(claim.instances)
          <5>3. claim.instances[i] \in Seq(Nat)
            BY <5>1
          <5> QED
            BY <5>3, ColumnAbsorbed
        <4>2. claim.instances \in Seq(Seq(Nat)) /\ Len(claim.instances) \in Nat
              /\ DOMAIN claim.instances = 1 .. Len(claim.instances)
          BY <1>6 DEF IsClaim
        <4> DEFINE u == [i \in DOMAIN claim.instances |-> AbsorbColumn(claim.instances[i])]
        <4>3. u = [i \in 1 .. Len(claim.instances) |-> u[i]] /\ \A i \in 1 .. Len(claim.instances) : IsSeq(u[i])
          BY <4>1, <4>2
        <4> HIDE DEF u
        <4>4. IsSeq(FlattenSeq(u))
          BY <4>2, <4>3, FlattenedOver
        <4> QED
          BY <4>4 DEF u
      <3>3. v_log' = (<<<<"vk">>>> \o claim.commitments) \o rest
        BY <1>1, <1>10
      <3>4. ClaimItems(claim) = claim.commitments \o rest
        BY DEF ClaimItems
      <3> DEFINE key == <<<<"vk">>>>
                 com == claim.commitments
      <3>5. IsSeq(key) /\ IsSeq(com) /\ v_log' = (key \o com) \o rest
            /\ key \o ClaimItems(claim) = key \o (com \o rest)
        BY <3>1, <3>3, <3>4
      <3> HIDE DEF rest, key, com
      <3>6. (key \o com) \o rest = key \o (com \o rest)
        BY <3>2, <3>5, JoinedThen
      <3>7. v_log' = key \o ClaimItems(claim)
        BY <3>5, <3>6
      <3> QED
        BY <3>7 DEF key
    <2>3. HearingOK'
      <3>1. IsSeq(v_log') /\ IsSeq(taken') /\ IsSeq(received')
        BY <1>5, <1>6, <1>8, <2>1, <2>2, Nothing DEF Listening
      <3>2. Len(v_log') \in Nat /\ Len(received') \in Nat
        BY <3>1, SeqFacts
      <3>3. Len(taken') = 0
        BY <2>1, Nothing
      <3> QED
        BY <2>1, <3>1, <3>2, <3>3 DEF HearingOK, Listening
    <2>4. AsTaken(taken')
      BY <2>1, Nothing DEF AsTaken
    <2>5. VerifierHears(Script, 0)'
      <3>1. SpokenBy(Script) /\ IsSeq(Greeting)
        BY <1>4 DEF Keyed
      <3>2. Spoken(Script, 0) = <<>>
        BY <3>1 DEF SpokenBy
      <3>3. Len(Written(Spoken(Script, 0))) = 0 /\ Greeting \o Spoken(Script, 0) = Greeting
        BY <3>1, <3>2, NothingWritten, Nothing, JoinedNothing
      <3>4. SameClaim => v_log' = Greeting
        BY <1>7, <2>2 DEF Greeting
      <3>5. IsPrefix(<<<<"vk">>>> \o ClaimItems(claim), v_log')
        BY <1>6, <2>2, PrefixOfLonger
      <3>6. Script' = Script /\ Greeting' = Greeting /\ claim' = claim
            /\ (SameClaim' <=> SameClaim) /\ (Faithful' => SameClaim)
        BY <1>8 DEF Faithful, SameClaim
      <3> QED
        BY <1>10, <2>1, <3>3, <3>4, <3>5, <3>6 DEF VerifierHears
    <2>6. /\ p_pc' = "done" /\ \E st \in Statements : claim' = ClaimOf(st)
          /\ (received = proof \/ Damaged)'
      BY <1>1, <1>2, <1>3, <1>8 DEF VerifierInv
    <2>7. Stage("advice") = 0 /\ "advice" \in Stages
      BY DEF Stage, Stages
    <2>8. Hearing' => VerifierHears(Script, Stage(v_pc))'
      BY <2>1, <2>5, <2>7 DEF VerifierHears
    <2> QED
      BY <2>1, <2>3, <2>4, <2>6, <2>7, <2>8 DEF VerifierInv, HearingOK
  <1> QED
    BY <1>9, <1>10

LEMMA Shortened ==
  ASSUME NEW s, IsSeq(s), NEW x
  PROVE  IsSeq(Front(s)) /\ (Len(s) > 0 => Len(Front(s)) = Len(s) - 1) /\ (Len(s) = 0 => Front(s) = <<>>)
  <1>1. PICK S : s \in Seq(S)
    BY DEF IsSeq
  <1>2. Len(s) \in Nat
    BY <1>1
  <1>3. CASE Len(s) = 0
    <2>1. Front(s) = <<>>
      BY <1>1, <1>3 DEF Front
    <2> QED
      BY <1>3, <2>1, Nothing
  <1>4. CASE Len(s) > 0
    <2>1. Len(s) - 1 \in Nat
      BY <1>2, <1>4
    <2>2. Front(s) \in Seq(S) /\ Len(Front(s)) = Len(s) - 1
      BY SMTT(30), <1>1, <1>4, <2>1 DEF Front
    <2> QED
      BY <1>4, <2>2, SeqInSet
  <1> QED
    BY <1>2, <1>3, <1>4

LEMMA DeliveringKeeps ==
  ASSUME KeyInv, ProverInv, VerifierInv, Deliver
  PROVE  VerifierInv'
  <1>1. /\ p_pc = "done" /\ v_pc = "waiting" /\ v_pc' = "instances"
        /\ UNCHANGED <<csVars, proverVars, v_log, position, taken, v_queries>>
        /\ \/ claim' = ClaimOf(statement) /\ received' \in {proof, Front(proof), Append(proof, <<"byte">>)}
           \/ claim' \in {ClaimOf(s) : s \in Statements} /\ received' = proof
    BY DEF Deliver
  <1>2. v_log = <<>> /\ taken = <<>> /\ position = 0 /\ Len(v_log) = 0 /\ Len(taken) = 0
    BY <1>1, Nothing DEF VerifierInv
  <1>3. IsSeq(proof)
    <2>1. PICK s, t : IsSeq(s) /\ IsSeq(t) /\ p_log = s \o t /\ proof = Written(t)
      BY DEF ProverInv, Recorded
    <2> QED
      BY <2>1, WrittenTyped
  <1>4. IsSeq(received')
    <2>1. IsSeq(Front(proof))
      BY <1>3, Shortened
    <2>2. IsSeq(Append(proof, <<"byte">>))
      BY <1>3, Longer
    <2> QED
      BY <1>1, <1>3, <2>1, <2>2
  <1>5. statement' = statement /\ proof' = proof /\ p_pc' = "done" /\ v_log' = <<>> /\ taken' = <<>>
        /\ position' = 0
    BY <1>1, <1>2 DEF proverVars
  <1>6. HearingOK'
    <2>1. Len(received') \in Nat
      BY <1>4, SeqFacts
    <2> QED
      BY <1>2, <1>4, <1>5, <2>1, Nothing DEF HearingOK, Listening
  <1>7. (\E s \in Statements : claim = ClaimOf(s))' /\ (received = proof \/ Damaged)'
    <2>1. statement \in Statements
      BY DEF KeyInv
    <2> QED
      BY <1>1, <1>5, <2>1 DEF Damaged, SameClaim
  <1>8. AsTaken(taken')
    BY <1>5, Nothing DEF AsTaken
  <1> QED
    BY <1>1, <1>5, <1>6, <1>7, <1>8 DEF VerifierInv, HearingOK, Hearing, Stages

(* Until the proof is done nothing has reached the verifier.               *)
LEMMA WaitingKeeps ==
  ASSUME VerifierInv, p_pc # "done", UNCHANGED verifierVars
  PROVE  VerifierInv'
  <1>1. v_pc = "waiting"
    BY DEF VerifierInv
  <1>2. /\ v_pc' = "waiting" /\ v_log' = v_log /\ taken' = taken /\ received' = received
        /\ position' = position
    BY <1>1 DEF verifierVars
  <1>3. taken = <<>> /\ v_log = <<>>
    BY <1>1 DEF VerifierInv
  <1>4. AsTaken(taken')
    BY <1>2, <1>3, Nothing DEF AsTaken
  <1>5. HearingOK'
    BY <1>2 DEF VerifierInv, HearingOK, Listening
  <1> QED
    BY <1>2, <1>3, <1>4, <1>5 DEF VerifierInv, HearingOK, Hearing, Stages

ProverActs ==
    \/ ComputeInstances \/ InvalidInstancesError \/ InstanceTooLarge
    \/ ParseAdvices \/ WriteMultiplicities \/ WriteArguments \/ HashingPanics
    \/ WriteQuotient \/ WriteEvals \/ MultiOpen \/ ProverPanics
VerifierActs ==
    \/ AbsorbClaim \/ ReadAdvices \/ ReadMultiplicities \/ ReadArguments \/ ReadQuotient
    \/ ReadEvals \/ MultiPrepare \/ VerifierPanics \/ AssertEmpty

LEMMA ProverFrame ==
  ASSUME ProverActs
  PROVE  UNCHANGED <<csVars, features, statement, verifierVars>> /\ phase = "keyed" /\ p_pc # "done"
  <1>1. CASE ComputeInstances \/ InvalidInstancesError \/ InstanceTooLarge
    BY <1>1 DEF ComputeInstances, InvalidInstancesError, InstanceTooLarge, Silent, ProverAt
  <1>2. CASE ParseAdvices \/ WriteMultiplicities \/ WriteArguments \/ HashingPanics
    BY <1>2 DEF ParseAdvices, WriteMultiplicities, WriteArguments, HashingPanics, Write, Silent, ProverAt
  <1>3. CASE WriteQuotient \/ WriteEvals
    BY <1>3 DEF WriteQuotient, WriteEvals, Write, Silent, ProverAt
  <1>4. CASE ProverPanics
    BY <1>4 DEF ProverPanics, Silent, ProverAt
  <1>5. CASE MultiOpen
    <2>1. UNCHANGED <<csVars, features, statement, verifierVars>>
      BY <1>5 DEF MultiOpen, Write, Silent
    <2> QED
      BY <1>5, <2>1 DEF MultiOpen, ProverAt
  <1> QED
    BY <1>1, <1>2, <1>3, <1>4, <1>5 DEF ProverActs

LEMMA VerifierFrame ==
  ASSUME VerifierActs \/ Deliver
  PROVE  UNCHANGED <<csVars, proverVars>>
  <1>1. CASE AbsorbClaim \/ AssertEmpty \/ VerifierPanics \/ Deliver
    BY <1>1 DEF AbsorbClaim, AssertEmpty, VerifierPanics, Deliver, Deaf
  <1>2. CASE ReadAdvices \/ ReadMultiplicities \/ ReadArguments \/ ReadQuotient \/ ReadEvals
    BY <1>2 DEF ReadAdvices, ReadMultiplicities, ReadArguments, ReadQuotient, ReadEvals, Read, Deaf
  <1>3. CASE MultiPrepare
    BY <1>3 DEF MultiPrepare, Read, Deaf
  <1> QED
    BY <1>1, <1>2, <1>3 DEF VerifierActs

(* The prover's invariant reads nothing else.                              *)
LEMMA ProverInvFrame ==
  ASSUME ProverInv, UNCHANGED <<csVars, proverVars>>
  PROVE  ProverInv'
  <1>1. /\ p_pc' = p_pc /\ p_log' = p_log /\ proof' = proof /\ p_queries' = p_queries
        /\ features' = features /\ statement' = statement /\ phase' = phase /\ cs' = cs
        /\ quotient_degree' = quotient_degree
    BY DEF csVars, proverVars
  <1>2. UNCHANGED <<csVars, features, statement>>
    BY <1>1 DEF proverVars
  <1>3. Script' = Script /\ Greeting' = Greeting /\ (InvalidInstances' <=> InvalidInstances)
    BY <1>2, ScriptStays
  <1>4. Recorded'
    BY <1>1 DEF ProverInv, Recorded
  <1>5. Speaking => ProverSays(Script, Stage(p_pc))'
    BY <1>1, <1>3 DEF ProverInv, ProverSays
  <1>6. p_pc = "done" => /\ (p_queries = AllQueriesIn(cs, features, statement.committed))'
                         /\ (~ DuplicatedQuery(p_queries))'
    BY <1>1 DEF ProverInv
  <1> QED
    BY <1>1, <1>3, <1>4, <1>5, <1>6 DEF ProverInv, Speaking

LEMMA InitTranscripts ==
  ASSUME Init
  PROVE  TInv
  <1>1. InitConfiguration /\ statement \in Statements /\ phase = "configure"
        /\ cs = Empty(circuit.selectors)
    BY DEF Init, InitConfiguration
  <1>2. IInv
    BY <1>1, InitInvariant
  <1>3. TrashIndexed(cs)
    BY <1>1 DEF TrashIndexed, Empty
  <1>4. KeyInv
    BY <1>1, <1>2, <1>3 DEF KeyInv, KeyUsable
  <1>5. /\ p_log = <<>> /\ proof = <<>> /\ p_pc = "instances" /\ received = <<>> /\ v_log = <<>>
        /\ position = 0 /\ taken = <<>> /\ v_pc = "waiting"
    BY DEF Init
  <1>6. IsSeq(<<>>) /\ Len(<<>>) = 0
    BY Nothing
  <1>7. Recorded
    <2>1. p_log = <<>> \o <<>> /\ proof = Written(<<>>)
      BY <1>5, <1>6, JoinedNothing, NothingWritten
    <2> QED
      BY <1>6, <2>1 DEF Recorded
  <1>8. ProverInv
    BY <1>5, <1>7 DEF ProverInv, Speaking, Stages
  <1>9. AsTaken(taken)
    BY <1>5, <1>6 DEF AsTaken
  <1>10. VerifierInv
    BY <1>5, <1>6, <1>9 DEF VerifierInv, Listening, Hearing, Stages
  <1> QED
    BY <1>4, <1>8, <1>10 DEF TInv

LEMMA KeyInvStays ==
  ASSUME KeyInv, UNCHANGED <<csVars, statement>>
  PROVE  KeyInv'
  BY KeyInvKept

LEMMA NextTranscripts ==
  ASSUME TInv, [Next]_vars
  PROVE  TInv'
  <1>1. KeyInv /\ ProverInv /\ VerifierInv
    BY DEF TInv
  <1>2. CASE NextConfiguration /\ UNCHANGED <<proverVars, verifierVars>>
    <2>1. phase = "configure" /\ statement' = statement
      BY <1>2, KeyStays DEF proverVars
    <2>2. KeyInv'
      BY <1>1, <1>2, <2>1, KeyInvKept
    <2>3. p_pc = "instances"
      BY <1>1, <2>1 DEF ProverInv
    <2>4. /\ p_pc' = "instances" /\ p_log' = p_log /\ proof' = proof
      BY <1>2, <2>3 DEF proverVars
    <2>5. ProverInv'
      BY <1>1, <2>3, <2>4 DEF ProverInv, Recorded, Speaking, Stages
    <2>6. VerifierInv'
      BY <1>1, <1>2, <2>3, WaitingKeeps
    <2> QED
      BY <2>2, <2>5, <2>6 DEF TInv
  <1>3. CASE ProverActs
    <2>1. UNCHANGED <<csVars, features, statement, verifierVars>> /\ p_pc # "done"
      BY <1>3, ProverFrame
    <2>2. KeyInv'
      BY <1>1, <2>1, KeyInvStays
    <2>3. ProverInv'
      BY <1>1, <1>3, InstancesKeep, ProverKeeps DEF ProverActs
    <2>4. VerifierInv'
      BY <1>1, <2>1, WaitingKeeps
    <2> QED
      BY <2>2, <2>3, <2>4 DEF TInv
  <1>4. CASE VerifierActs \/ Deliver
    <2>1. UNCHANGED <<csVars, proverVars>>
      BY <1>4, VerifierFrame
    <2>2. KeyInv' /\ ProverInv'
      BY <1>1, <2>1, KeyInvStays, ProverInvFrame DEF proverVars
    <2>3. VerifierInv'
      BY <1>1, <1>4, DeliveringKeeps, AbsorbingKeeps, ReadersKeep, PreparingKeeps, PanickingKeeps,
         DoneReading
      DEF VerifierActs
    <2> QED
      BY <2>2, <2>3 DEF TInv
  <1>5. CASE UNCHANGED vars
    <2>1. UNCHANGED <<csVars, proverVars, verifierVars>>
      BY <1>5 DEF vars
    <2>2. KeyInv' /\ ProverInv'
      BY <1>1, <2>1, KeyInvStays, ProverInvFrame DEF proverVars
    <2>3. VerifierInv'
      BY <1>1, <2>1 DEF csVars, proverVars, verifierVars, VerifierInv, Listening, Hearing,
         VerifierHears, Script, Greeting, SameClaim, Faithful, Damaged, AsTaken
    <2> QED
      BY <2>2, <2>3 DEF TInv
  <1> QED
    BY <1>2, <1>3, <1>4, <1>5 DEF Next, ProverActs, VerifierActs

LEMMA PrefixUnder ==
  ASSUME NEW head, IsSeq(head), NEW s, IsSeq(s), NEW t, IsSeq(t), IsPrefix(s, t)
  PROVE  IsPrefix(head \o s, head \o t)
  <1>1. /\ IsSeq(head \o s) /\ Len(head \o s) = Len(head) + Len(s)
        /\ Len(head) \in Nat /\ Len(s) \in Nat
        /\ \A i \in 1 .. Len(head) : (head \o s)[i] = head[i]
        /\ \A i \in Len(head) + 1 .. Len(head) + Len(s) : (head \o s)[i] = s[i - Len(head)]
    BY Joined
  <1>2. /\ IsSeq(head \o t) /\ Len(head \o t) = Len(head) + Len(t)
        /\ Len(t) \in Nat
        /\ \A i \in 1 .. Len(head) : (head \o t)[i] = head[i]
        /\ \A i \in Len(head) + 1 .. Len(head) + Len(t) : (head \o t)[i] = t[i - Len(head)]
    BY Joined
  <1>3. Len(s) <= Len(t) /\ \A i \in 1 .. Len(s) : s[i] = t[i]
    BY PrefixElements
  <1>4. ASSUME NEW i \in 1 .. Len(head) + Len(s)
        PROVE  (head \o s)[i] = (head \o t)[i]
    <2>1. CASE i <= Len(head)
      <3>1. i \in 1 .. Len(head)
        BY <1>1, <2>1
      <3> QED
        BY <1>1, <1>2, <3>1
    <2>2. CASE ~ (i <= Len(head))
      <3> DEFINE j == i - Len(head)
      <3>1. j \in 1 .. Len(s) /\ i \in Len(head) + 1 .. Len(head) + Len(s)
            /\ i \in Len(head) + 1 .. Len(head) + Len(t)
        BY <1>1, <1>2, <1>3, <2>2
      <3>2. (head \o s)[i] = s[j] /\ (head \o t)[i] = t[j]
        BY <1>1, <1>2, <3>1
      <3> HIDE DEF j
      <3> QED
        BY <1>3, <3>1, <3>2
    <2> QED
      BY <2>1, <2>2
  <1>5. Len(head \o s) <= Len(head \o t)
    BY <1>1, <1>2, <1>3
  <1>6. \A i \in 1 .. Len(head \o s) : (head \o s)[i] = (head \o t)[i]
    BY <1>1, <1>4
  <1> QED
    BY <1>1, <1>2, <1>5, <1>6, PrefixElements

LEMMA TypedTranscripts ==
  ASSUME TInv
  PROVE  TranscriptTypeOK
  <1>1. ProverInv /\ VerifierInv
    BY DEF TInv
  <1>2. IsSuffix(proof, Written(p_log))
    <2>1. PICK s, t : IsSeq(s) /\ IsSeq(t) /\ p_log = s \o t /\ proof = Written(t)
      BY <1>1 DEF ProverInv, Recorded
    <2>2. Written(p_log) = Written(s) \o proof
      BY <2>1, WrittenJoined
    <2>3. IsSeq(Written(s)) /\ IsSeq(proof)
      BY <2>1, WrittenTyped
    <2> QED
      BY <2>2, <2>3, SuffixOfJoined
  <1>3. position = 0 \/ v_log # <<>>
    BY <1>1, Nothing DEF VerifierInv, Listening
  <1>4. Len(received) \in Nat
    BY <1>1, SeqFacts DEF VerifierInv, Listening
  <1>5. position = Len(taken) /\ position <= Len(received)
    BY <1>1, <1>4 DEF VerifierInv, Listening
  <1> QED
    BY <1>1, <1>2, <1>3, <1>5 DEF TranscriptTypeOK, ProverInv, VerifierInv, Stages

LEMMA HeardScript ==
  ASSUME TInv, Hearing
  PROVE  /\ VerifierHears(Script, Stage(v_pc)) /\ Stage(v_pc) \in 0 .. 6 /\ p_pc = "done"
         /\ Keyed /\ ~ InvalidInstances
         /\ p_log = Greeting \o Spoken(Script, 6) /\ proof = Written(Spoken(Script, 6))
  <1>1. KeyInv /\ ProverInv /\ VerifierInv
    BY DEF TInv
  <1>2. p_pc = "done"
    BY <1>1 DEF VerifierInv, Hearing, Stages
  <1> QED
    BY <1>1, <1>2, ProofIsSaid DEF VerifierInv, Stage

LEMMA AgreeingTranscripts ==
  ASSUME TInv
  PROVE  TranscriptsAgree
  <1>1. KeyInv /\ ProverInv /\ VerifierInv
    BY DEF TInv
  <1>2. ReadForWhatItIs
    <2>1. DOMAIN taken = 1 .. Len(taken)
      BY <1>1, SeqFacts DEF VerifierInv, Listening
    <2> QED
      BY <1>1, <2>1 DEF VerifierInv, AsTaken, ReadForWhatItIs
  <1>3. ASSUME v_pc # "waiting", Faithful
        PROVE  IsPrefix(v_log, p_log)
    <2>1. v_pc = "instances" \/ Hearing
      BY <1>1, <1>3 DEF VerifierInv, Hearing
    <2>2. CASE v_pc = "instances"
      <3>1. v_log = <<>> /\ p_pc = "done"
        BY <1>1, <2>2 DEF VerifierInv
      <3>2. IsSeq(p_log)
        <4>1. PICK s, t : IsSeq(s) /\ IsSeq(t) /\ p_log = s \o t /\ proof = Written(t)
          BY <1>1 DEF ProverInv, Recorded
        <4> QED
          BY <4>1, JoinedTyped
      <3>3. p_log = <<>> \o p_log /\ IsSeq(<<>>)
        BY <3>2, Nothing, JoinedNothing
      <3>4. IsPrefix(<<>>, <<>> \o p_log)
        BY <3>2, <3>3, PrefixOfJoined
      <3> QED
        BY <3>1, <3>3, <3>4
    <2>3. CASE Hearing
      <3> DEFINE n == Stage(v_pc)
      <3>1. /\ VerifierHears(Script, n) /\ n \in 0 .. 6 /\ Keyed /\ p_log = Greeting \o Spoken(Script, 6)
        BY <2>3, HeardScript
      <3>2. v_log = Greeting \o Spoken(Script, n)
        BY <1>3, <3>1 DEF VerifierHears
      <3>3. IsScript(Script) /\ IsSeq(Greeting) /\ SpokenBy(Script)
        BY <3>1 DEF Keyed
      <3> HIDE DEF n
      <3>4. IsPrefix(Spoken(Script, n), Spoken(Script, 6))
        BY <3>1, <3>3, SpokenGrows
      <3> DEFINE sc == Script
      <3>7. SpokenBy(sc) /\ n \in 0 .. 6 /\ 6 \in 0 .. 6
        BY <3>1, <3>3
      <3> HIDE DEF sc
      <3>8. IsSeq(Spoken(sc, n)) /\ IsSeq(Spoken(sc, 6))
        BY <3>7 DEF SpokenBy
      <3>5. IsSeq(Spoken(Script, n)) /\ IsSeq(Spoken(Script, 6))
        BY <3>8 DEF sc
      <3>6. IsPrefix(Greeting \o Spoken(Script, n), Greeting \o Spoken(Script, 6))
        BY <3>3, <3>4, <3>5, PrefixUnder
      <3> QED
        BY <3>1, <3>2, <3>6
    <2> QED
      BY <2>1, <2>2, <2>3
  <1> QED
    BY <1>2, <1>3 DEF TranscriptsAgree, SameChallenges

LEMMA PassingProofs ==
  ASSUME TInv
  PROVE  FaithfulProofsPass
  <1>1. KeyInv /\ ProverInv /\ VerifierInv
    BY DEF TInv
  <1>2. ASSUME SameClaim, v_pc \in {"prepared", "complete"}
        PROVE  position = Len(proof) /\ v_queries = p_queries
    <2>1. Hearing /\ Stage(v_pc) = 6
      BY <1>2 DEF Hearing, Stage
    <2>2. VerifierHears(Script, 6) /\ proof = Written(Spoken(Script, 6))
      BY <2>1, HeardScript
    <2> QED
      BY <1>1, <1>2, <2>2 DEF VerifierHears, VerifierInv
  <1>3. Faithful => /\ v_pc \notin {"rejected", "panicked"}
                    /\ v_pc \in {"prepared", "complete"} => v_queries = p_queries /\ position = Len(received)
    BY <1>1, <1>2 DEF VerifierInv, Faithful, SameClaim
  <1>4. ASSUME v_pc = "complete", claim = ClaimOf(statement)
        PROVE  received = proof
    <2>1. Len(received) = Len(proof)
      BY <1>1, <1>2, <1>4 DEF VerifierInv, SameClaim
    <2>2. received = proof \/ received = Front(proof) \/ received = Append(proof, <<"byte">>)
      BY <1>1, <1>4 DEF VerifierInv, Damaged
    <2>3. IsSeq(proof) /\ Len(proof) \in Nat
      <3>1. PICK s, t : IsSeq(s) /\ IsSeq(t) /\ p_log = s \o t /\ proof = Written(t)
        BY <1>1 DEF ProverInv, Recorded
      <3>2. IsSeq(proof)
        BY <3>1, WrittenTyped
      <3> QED
        BY <3>2, SeqFacts
    <2>4. Len(Append(proof, <<"byte">>)) = Len(proof) + 1
      BY <2>3, Longer
    <2>5. received # Append(proof, <<"byte">>)
      BY <2>1, <2>3, <2>4
    <2>6. received = Front(proof) => received = proof
      <3>1. CASE Len(proof) = 0
        <4>1. Front(proof) = <<>> /\ proof = <<>>
          BY <2>3, <3>1, Shortened, Nothing
        <4> QED
          BY <4>1
      <3>2. CASE Len(proof) > 0
        <4>1. Len(Front(proof)) = Len(proof) - 1
          BY <2>3, <3>2, Shortened
        <4> QED
          BY <2>1, <2>3, <4>1
      <3> QED
        BY <2>3, <3>1, <3>2
    <2> QED
      BY <2>2, <2>5, <2>6
  <1> QED
    BY <1>3, <1>4 DEF FaithfulProofsPass

LEMMA BindingChallenges ==
  ASSUME TInv
  PROVE  ChallengesBindInstances
  <1>1. KeyInv /\ ProverInv /\ VerifierInv
    BY DEF TInv
  <1>2. ASSUME v_pc \notin {"waiting", "instances", "advice", "rejected", "panicked"}, IsPrefix(v_log, p_log)
        PROVE  claim = ClaimOf(statement)
    <2>1. Hearing
      BY <1>1, <1>2 DEF VerifierInv, Hearing
    <2>2. /\ Keyed /\ ~ InvalidInstances /\ p_log = Greeting \o Spoken(Script, 6)
          /\ ColumnCount(claim) = NumInstance /\ IsPrefix(<<<<"vk">>>> \o ClaimItems(claim), v_log)
      BY <2>1, HeardScript DEF VerifierHears
    <2>3. PICK s \in Statements : claim = ClaimOf(s)
      BY <1>1, <1>2 DEF VerifierInv
    <2>4. IsClaim(claim) /\ IsSeq(<<<<"vk">>>> \o ClaimItems(claim))
      BY <2>3, ClaimsTyped
    <2> DEFINE c == ClaimOf(statement)
    <2>5. statement \in Statements
      BY <1>1 DEF KeyInv
    <2>6. IsClaim(c) /\ statement.committed \in Nat /\ Len(statement.instances) \in Nat
          /\ (statement.committed <= Len(statement.instances) =>
                 ColumnCount(c) = Len(statement.instances) /\ InstanceItems(statement) = ClaimItems(c))
      BY <2>5, StatementClaims
    <2>7. Len(statement.instances) = NumInstance /\ statement.committed <= Len(statement.instances)
      BY <2>2, <2>6 DEF InvalidInstances
    <2>8. ColumnCount(c) = ColumnCount(claim) /\ Greeting = <<<<"vk">>>> \o ClaimItems(c)
      BY <2>2, <2>6, <2>7 DEF Greeting
    <2>9. IsSeq(Greeting) /\ IsSeq(Spoken(Script, 6)) /\ IsSeq(v_log)
      BY <1>1, <2>2 DEF Keyed, SpokenBy, VerifierInv, Listening
    <2>10. IsSeq(p_log) /\ IsPrefix(Greeting, p_log)
      BY <2>2, <2>9, PrefixOfJoined, JoinedTyped
    <2>11. IsPrefix(<<<<"vk">>>> \o ClaimItems(claim), p_log)
      BY <1>2, <2>2, <2>4, <2>9, <2>10, PrefixThen
    <2> HIDE DEF c
    <2>12. IsPrefix(<<<<"vk">>>> \o ClaimItems(c), p_log)
      BY <2>8, <2>10
    <2>13. claim = c
      BY <2>4, <2>6, <2>8, <2>10, <2>11, <2>12, KeyedClaimsReadBack
    <2> QED
      BY <2>13 DEF c
  <1> QED
    BY <1>2 DEF ChallengesBindInstances

LEMMA AlwaysTranscripts == Spec => []TInv
  <1>1. Init => TInv
    BY InitTranscripts
  <1>2. TInv /\ [Next]_vars => TInv'
    BY NextTranscripts
  <1> QED
    BY <1>1, <1>2, PTL DEF Spec

(* In every state of a prover and a verifier of any circuit the transcripts*)
(* are well formed: what is written is what was absorbed, challenges apart *)
(* (CircuitTranscript).                                                    *)
THEOREM TranscriptsTyped == Spec => []TranscriptTypeOK
  BY AlwaysTranscripts, TypedTranscripts, PTL

(* Whatever the circuit, the statement, the features and the size of the   *)
(* domain, the verifier of a proof that reached it whole squeezes the      *)
(* challenges the prover squeezed and takes every item for what it is      *)
(* (create_proof, parse_trace, verify_algebraic_constraints).              *)
THEOREM TranscriptsAlwaysAgree == Spec => []TranscriptsAgree
  BY AlwaysTranscripts, AgreeingTranscripts, PTL

(* Such a proof is never rejected while it is read and leaves the queries  *)
(* the prover answered; one cut short or followed by bytes is not accepted *)
(* (prepare, assert_empty).                                                *)
THEOREM FaithfulProofsAlwaysPass == Spec => []FaithfulProofsPass
  BY AlwaysTranscripts, PassingProofs, PTL

(* Once the verifier has drawn a challenge for other instances than those  *)
(* proved, its log differs from the prover's (absorb of the instances).    *)
THEOREM InstancesAlwaysBound == Spec => []ChallengesBindInstances
  BY AlwaysTranscripts, BindingChallenges, PTL

-----------------------------------------------------------------------------
(* No polynomial is opened twice at a point.                               *)
PlaceOf(q)   == <<q[1], Point(q[2])>>
PlacesOf(qs) == {PlaceOf(qs[i]) : i \in 1 .. Len(qs)}
NoTwice(qs)  == IsSeq(qs) /\ \A i, j \in 1 .. Len(qs) : i < j => PlaceOf(qs[i]) # PlaceOf(qs[j])

LEMMA SamePlaces ==
  ASSUME NEW q, NEW r
  PROVE  PlaceOf(q) = PlaceOf(r) <=> q[1] = r[1] /\ Point(q[2]) = Point(r[2])
  BY DEF PlaceOf

LEMMA NoTwiceIsDistinct ==
  ASSUME NEW qs, NoTwice(qs)
  PROVE  ~ DuplicatedQuery(qs)
  <1>1. DOMAIN qs = 1 .. Len(qs)
    BY SeqFacts DEF NoTwice
  <1> QED
    BY <1>1, SamePlaces DEF NoTwice, DuplicatedQuery

LEMMA JoinedNoTwice ==
  ASSUME NEW s, NoTwice(s), NEW t, NoTwice(t), PlacesOf(s) \cap PlacesOf(t) = {}
  PROVE  NoTwice(s \o t) /\ PlacesOf(s \o t) = PlacesOf(s) \cup PlacesOf(t)
  <1>1. IsSeq(s) /\ IsSeq(t)
    BY DEF NoTwice
  <1>2. \A i \in 1 .. Len(s) : (s \o t)[i] = s[i]
    BY <1>1, Joined
  <1>3. ASSUME NEW i \in 1 .. Len(t)
        PROVE  (s \o t)[Len(s) + i] = t[i]
    BY <1>1, SecondElements
  <1> DEFINE u == s \o t
  <1>4. IsSeq(u) /\ Len(u) = Len(s) + Len(t) /\ Len(s) \in Nat /\ Len(t) \in Nat
    BY <1>1, Joined
  <1>5. \A i \in 1 .. Len(s) : u[i] = s[i]
    BY <1>2
  <1>6. \A i \in 1 .. Len(t) : u[Len(s) + i] = t[i]
    BY <1>3
  <1> HIDE DEF u
  <1>7. ASSUME NEW i \in 1 .. Len(u)
        PROVE  \/ i \in 1 .. Len(s) /\ u[i] = s[i]
               \/ \E k \in 1 .. Len(t) : i = Len(s) + k /\ u[i] = t[k]
    <2>1. CASE i <= Len(s)
      <3>1. i \in 1 .. Len(s)
        BY <1>4, <2>1
      <3> QED
        BY <1>5, <3>1
    <2>2. CASE ~ (i <= Len(s))
      <3> DEFINE k == i - Len(s)
      <3>1. k \in 1 .. Len(t) /\ i = Len(s) + k
        BY <1>4, <2>2
      <3> HIDE DEF k
      <3> QED
        BY <1>6, <3>1
    <2> QED
      BY <2>1, <2>2
  <1>8. ASSUME NEW i \in 1 .. Len(u), NEW j \in 1 .. Len(u), i < j
        PROVE  PlaceOf(u[i]) # PlaceOf(u[j])
    <2>1. CASE i \in 1 .. Len(s) /\ u[i] = s[i] /\ j \in 1 .. Len(s) /\ u[j] = s[j]
      BY <1>8, <2>1 DEF NoTwice
    <2>2. ASSUME i \in 1 .. Len(s), u[i] = s[i], NEW k \in 1 .. Len(t), u[j] = t[k]
          PROVE  PlaceOf(u[i]) # PlaceOf(u[j])
      BY <2>2 DEF PlacesOf
    <2>3. ASSUME NEW k \in 1 .. Len(t), i = Len(s) + k, u[i] = t[k],
                 NEW l \in 1 .. Len(t), j = Len(s) + l, u[j] = t[l]
          PROVE  PlaceOf(u[i]) # PlaceOf(u[j])
      <3>1. k < l
        BY <1>4, <1>8, <2>3
      <3> QED
        BY <2>3, <3>1 DEF NoTwice
    <2>4. ASSUME NEW k \in 1 .. Len(t), i = Len(s) + k, j \in 1 .. Len(s)
          PROVE  FALSE
      BY <1>4, <1>8, <2>4
    <2> QED
      BY <1>7, <2>1, <2>2, <2>3, <2>4
  <1>9. PlacesOf(u) \subseteq PlacesOf(s) \cup PlacesOf(t)
    BY <1>7 DEF PlacesOf
  <1>10. PlacesOf(s) \subseteq PlacesOf(u)
    <2>1. \A i \in 1 .. Len(s) : i \in 1 .. Len(u)
      BY <1>4
    <2> QED
      BY <1>5, <2>1 DEF PlacesOf
  <1>11. PlacesOf(t) \subseteq PlacesOf(u)
    <2>1. \A i \in 1 .. Len(t) : Len(s) + i \in 1 .. Len(u)
      BY <1>4
    <2> QED
      BY <1>6, <2>1 DEF PlacesOf
  <1>12. NoTwice(u)
    BY <1>4, <1>8 DEF NoTwice
  <1>13. PlacesOf(u) = PlacesOf(s) \cup PlacesOf(t)
    BY <1>9, <1>10, <1>11
  <1> QED
    BY <1>12, <1>13 DEF u

LEMMA FlattenedNoTwice ==
  ASSUME NEW ss, IsSeq(ss), \A i \in 1 .. Len(ss) : NoTwice(ss[i]),
         \A i, j \in 1 .. Len(ss) : i < j => PlacesOf(ss[i]) \cap PlacesOf(ss[j]) = {}
  PROVE  /\ NoTwice(FlattenSeq(ss))
         /\ \A x \in PlacesOf(FlattenSeq(ss)) : \E i \in 1 .. Len(ss) : x \in PlacesOf(ss[i])
  <1>1. Len(ss) \in Nat
    BY SeqFacts
  <1>2. \A i \in 1 .. Len(ss) : IsSeq(ss[i])
    BY DEF NoTwice
  <1>3. PICK f : /\ f[0] = <<>> /\ \A n \in 1 .. Len(ss) : f[n] = f[n - 1] \o ss[n]
                 /\ \A n \in 0 .. Len(ss) : IsSeq(f[n])
                 /\ FlattenSeq(ss) = f[Len(ss)]
    BY <1>2, FlattenLoop
  <1> DEFINE m == Len(ss)
             Good(n) == /\ NoTwice(f[n])
                        /\ \A x \in PlacesOf(f[n]) : \E i \in 1 .. n : x \in PlacesOf(ss[i])
             P == {n \in 0 .. m : Good(n)}
  <1>4. 0 \in P
    <2>1. NoTwice(<<>>) /\ PlacesOf(<<>>) = {}
      BY Nothing DEF NoTwice, PlacesOf
    <2> QED
      BY <1>1, <1>3, <2>1
  <1>5. ASSUME NEW n \in 1 .. m, n - 1 \in P
        PROVE  n \in P
    <2>a. f[n] = f[n - 1] \o ss[n]
      BY <1>3
    <2>b. NoTwice(ss[n])
      OBVIOUS
    <2>c. n \in 0 .. m
      BY <1>1
    <2>0. f[n] = f[n - 1] \o ss[n] /\ NoTwice(ss[n]) /\ n \in 0 .. m
      BY <2>a, <2>b, <2>c
    <2>1. Good(n - 1) /\ f[n] = f[n - 1] \o ss[n] /\ NoTwice(ss[n]) /\ n \in 0 .. m
      BY <1>5, <2>0
    <2>2. \A i \in 1 .. n - 1 : i \in 1 .. m /\ i < n /\ i \in 1 .. n
      BY <1>1
    <2>3. PlacesOf(f[n - 1]) \cap PlacesOf(ss[n]) = {}
      <3> SUFFICES ASSUME NEW x \in PlacesOf(f[n - 1]), x \in PlacesOf(ss[n])
                   PROVE  FALSE
        OBVIOUS
      <3>1. PICK i \in 1 .. n - 1 : x \in PlacesOf(ss[i])
        BY <2>1
      <3>2. PlacesOf(ss[i]) \cap PlacesOf(ss[n]) = {}
        BY <2>2
      <3> QED
        BY <3>1, <3>2
    <2> DEFINE a == f[n - 1]
               b == ss[n]
    <2>4. NoTwice(a) /\ NoTwice(b) /\ PlacesOf(a) \cap PlacesOf(b) = {} /\ f[n] = a \o b
      BY <2>1, <2>3
    <2>5. \A x \in PlacesOf(a) : \E i \in 1 .. n : x \in PlacesOf(ss[i])
      BY <2>1, <2>2
    <2>6. \A x \in PlacesOf(b) : \E i \in 1 .. n : x \in PlacesOf(ss[i])
      BY <1>1
    <2> HIDE DEF a, b
    <2>7. NoTwice(f[n]) /\ PlacesOf(f[n]) = PlacesOf(a) \cup PlacesOf(b)
      BY <2>4, JoinedNoTwice
    <2>8. Good(n)
      BY <2>5, <2>6, <2>7
    <2> HIDE DEF Good
    <2> QED
      BY <2>1, <2>8
  <1>6. 0 .. m \subseteq P
    <2> HIDE DEF P
    <2> QED
      BY <1>1, <1>4, <1>5, InductionUpTo
  <1>7. Good(m)
    BY SMTT(30), <1>1, <1>6
  <1> QED
    BY <1>3, <1>7

(* A list of polynomials of some kinds.                                    *)
Points         == 0 .. N - 1
OfKinds(qs, K) == NoTwice(qs) /\ \A x \in PlacesOf(qs) : x[1][1] \in K /\ x[2] \in Points

LEMMA PointsInRange ==
  /\ \A at \in Int : Point(at) \in Points
  /\ \A at \in Points : Point(at) = at
  <1>1. N \in Nat /\ N >= 1
    BY ConfigurationAssumption
  <1>2. \A at \in Int : (at % N) \in 0 .. N - 1
    BY <1>1
  <1>3. \A at \in 0 .. N - 1 : (at % N) = at
    BY <1>1
  <1> QED
    BY <1>2, <1>3 DEF Point, Points

LEMMA JoinedKinds ==
  ASSUME NEW s, NEW t, NEW K, NEW M, OfKinds(s, K), OfKinds(t, M), K \cap M = {}
  PROVE  OfKinds(s \o t, K \cup M)
  <1>1. PlacesOf(s) \cap PlacesOf(t) = {}
    BY DEF OfKinds
  <1>2. NoTwice(s \o t) /\ PlacesOf(s \o t) = PlacesOf(s) \cup PlacesOf(t)
    BY <1>1, JoinedNoTwice DEF OfKinds
  <1> QED
    BY <1>2 DEF OfKinds

(* A list that is a function of the index, under distinct labels.          *)
LEMMA ListNoTwice ==
  ASSUME NEW n \in Nat, NEW s, s = [i \in 1 .. n |-> s[i]],
         \A i, j \in 1 .. n : i < j => s[i][1] # s[j][1] \/ Point(s[i][2]) # Point(s[j][2]),
         NEW K, \A i \in 1 .. n : s[i][1][1] \in K /\ Point(s[i][2]) \in Points
  PROVE  OfKinds(s, K)
  <1>1. IsSeq(s) /\ Len(s) = n
    BY SeqMade
  <1>2. NoTwice(s)
    BY <1>1, SamePlaces DEF NoTwice
  <1>3. ASSUME NEW x \in PlacesOf(s)
        PROVE  x[1][1] \in K /\ x[2] \in Points
    <2>1. PICK i \in 1 .. n : x = PlaceOf(s[i])
      BY <1>1 DEF PlacesOf
    <2>2. x[1] = s[i][1] /\ x[2] = Point(s[i][2])
      BY <2>1 DEF PlaceOf
    <2> QED
      BY <2>2
  <1> QED
    BY <1>2, <1>3 DEF OfKinds

(* Queries of which no two are at the same point of one column.            *)
Apart(qs) == /\ IsSeq(qs) /\ \A i \in 1 .. Len(qs) : Point(qs[i][2]) \in Points
             /\ \A i, j \in 1 .. Len(qs) :
                    i # j => qs[i][1] # qs[j][1] \/ Point(qs[i][2]) # Point(qs[j][2])

LEMMA ChosenFrom ==
  ASSUME NEW s, IsSeq(s), NEW A, NEW t, t = Chosen(s, A)
  PROVE  /\ IsSeq(t)
         /\ \A i \in 1 .. Len(t) : \E k \in 1 .. Len(s) : s[k] \in A /\ t[i] = s[k]
         /\ \A i, j \in 1 .. Len(t) : i # j =>
               \E k, l \in 1 .. Len(s) : k # l /\ t[i] = s[k] /\ t[j] = s[l]
         /\ \A k \in 1 .. Len(s) : s[k] \in A => \E i \in 1 .. Len(t) : t[i] = s[k]
  <1>1. PICK c : Counts(c, s, A)
    BY ChosenCounted
  <1>2. IsSeq(t) /\ Len(s) \in Nat
    BY ChosenTyped, SeqFacts
  <1>3. c[Len(s)] = Len(t) /\ \A k \in 1 .. Len(s) : s[k] \in A => c[k] >= 1 /\ t[c[k]] = s[k]
    BY <1>1 DEF Counts
  <1>4. \A k \in 0 .. Len(s) : c[k] \in Nat /\ c[k] <= c[Len(s)]
    BY <1>1 DEF Counts
  <1>5. \A i \in 1 .. Len(t) : \E k \in 1 .. Len(s) : s[k] \in A /\ c[k] = i
    BY <1>1, EachCounted
  <1>6. \A i \in 1 .. Len(t) : \E k \in 1 .. Len(s) : s[k] \in A /\ t[i] = s[k]
    BY <1>3, <1>5
  <1>7. ASSUME NEW i \in 1 .. Len(t), NEW j \in 1 .. Len(t), i # j
        PROVE  \E k, l \in 1 .. Len(s) : k # l /\ t[i] = s[k] /\ t[j] = s[l]
    <2>1. PICK k \in 1 .. Len(s) : s[k] \in A /\ c[k] = i
      BY <1>5
    <2>2. PICK l \in 1 .. Len(s) : s[l] \in A /\ c[l] = j
      BY <1>5
    <2>3. k # l
      BY <1>7, <2>1, <2>2
    <2>4. t[i] = s[k] /\ t[j] = s[l]
      BY <1>3, <2>1, <2>2
    <2> QED
      BY <2>3, <2>4
  <1>8. ASSUME NEW k \in 1 .. Len(s), s[k] \in A
        PROVE  \E i \in 1 .. Len(t) : t[i] = s[k]
    <2>1. c[k] \in Nat /\ c[k] >= 1 /\ c[k] <= Len(t) /\ t[c[k]] = s[k] /\ Len(t) \in Nat
      BY <1>2, <1>3, <1>4, <1>8
    <2>2. c[k] \in 1 .. Len(t)
      BY <2>1
    <2> QED
      BY <2>1, <2>2
  <1> QED
    BY <1>2, <1>6, <1>7, <1>8

LEMMA ChosenApart ==
  ASSUME NEW s, Apart(s), NEW A
  PROVE  Apart(Chosen(s, A))
  <1> DEFINE t == Chosen(s, A)
  <1>1. IsSeq(s)
    BY DEF Apart
  <1>2. IsSeq(t)
    BY <1>1, ChosenTyped
  <1>3. ASSUME NEW i \in 1 .. Len(t), NEW j \in 1 .. Len(t), i # j
        PROVE  t[i][1] # t[j][1] \/ Point(t[i][2]) # Point(t[j][2])
    <2>1. PICK k, l \in 1 .. Len(s) : k # l /\ t[i] = s[k] /\ t[j] = s[l]
      BY <1>1, <1>3, ChosenFrom
    <2> HIDE DEF t
    <2> QED
      BY <2>1 DEF Apart
  <1>4. ASSUME NEW i \in 1 .. Len(t)
        PROVE  Point(t[i][2]) \in Points
    <2>1. PICK k \in 1 .. Len(s) : t[i] = s[k]
      BY <1>1, <1>4, ChosenFrom
    <2> HIDE DEF t
    <2> QED
      BY <2>1 DEF Apart
  <1> HIDE DEF t
  <1>5. Apart(t)
    BY <1>2, <1>3, <1>4 DEF Apart
  <1> QED
    BY <1>5 DEF t

LEMMA QueriesApart ==
  ASSUME NEW qs, Apart(qs), NEW kind
  PROVE  OfKinds(QueriesOf(kind, qs), {kind})
  <1>1. IsSeq(qs)
    BY DEF Apart
  <1>2. Len(qs) \in Nat /\ DOMAIN qs = 1 .. Len(qs)
    BY <1>1, SeqFacts
  <1> DEFINE s == QueriesOf(kind, qs)
             K == {kind}
  <1>3. s = [i \in 1 .. Len(qs) |-> s[i]]
        /\ \A i \in 1 .. Len(qs) : s[i] = <<<<kind, qs[i][1]>>, qs[i][2]>>
    BY <1>2 DEF QueriesOf
  <1> HIDE DEF s
  <1>4. \A i \in 1 .. Len(qs) : s[i][1] = <<kind, qs[i][1]>> /\ s[i][2] = qs[i][2] /\ s[i][1][1] \in K
    BY <1>3
  <1>5. ASSUME NEW i \in 1 .. Len(qs), NEW j \in 1 .. Len(qs), i < j
        PROVE  s[i][1] # s[j][1] \/ Point(s[i][2]) # Point(s[j][2])
    <2>1. i # j
      BY <1>2, <1>5
    <2>2. qs[i][1] # qs[j][1] \/ Point(qs[i][2]) # Point(qs[j][2])
      BY <2>1 DEF Apart
    <2> QED
      BY <1>4, <2>2
  <1> HIDE DEF K
  <1>6. \A i \in 1 .. Len(qs) : s[i][1][1] \in K /\ Point(s[i][2]) \in Points
    BY <1>4 DEF Apart
  <1>7. OfKinds(s, K)
    BY <1>2, <1>3, <1>5, <1>6, ListNoTwice
  <1> QED
    BY <1>7 DEF s, K

(* A list with one query at the same rotation for each index.              *)
LEMMA IndexedNoTwice ==
  ASSUME NEW s, IsSeq(s), NEW kind, NEW at \in Points, NEW u,
         u = [i \in DOMAIN s |-> <<Label(kind, i), at>>]
  PROVE  OfKinds(u, {kind})
  <1>1. Len(s) \in Nat /\ DOMAIN s = 1 .. Len(s)
    BY SeqFacts
  <1>2. u = [i \in 1 .. Len(s) |-> u[i]] /\ \A i \in 1 .. Len(s) : u[i] = <<<<kind, i - 1>>, at>>
    BY <1>1 DEF Label
  <1>3. ASSUME NEW i \in 1 .. Len(s)
        PROVE  u[i][1][1] = kind /\ u[i][1][2] = i - 1 /\ Point(u[i][2]) \in Points
    <2> DEFINE l == <<kind, i - 1>>
    <2>1. l[1] = kind /\ l[2] = i - 1
      OBVIOUS
    <2>2. u[i] = <<l, at>>
      BY <1>2
    <2> HIDE DEF l
    <2>3. u[i][1] = l /\ u[i][2] = at
      BY <2>2
    <2> QED
      BY <2>1, <2>3, PointsInRange
  <1>4. ASSUME NEW i \in 1 .. Len(s), NEW j \in 1 .. Len(s), i < j
        PROVE  u[i][1] # u[j][1]
    <2>1. i - 1 # j - 1
      BY <1>1, <1>4
    <2> QED
      BY <1>3, <2>1
  <1> DEFINE K == {kind}
             m == Len(s)
  <1>5. \A i \in 1 .. m : u[i][1][1] \in K /\ Point(u[i][2]) \in Points
    BY <1>3
  <1>6. \A i, j \in 1 .. m : i < j => u[i][1] # u[j][1] \/ Point(u[i][2]) # Point(u[j][2])
    BY <1>4
  <1>7. m \in Nat /\ u = [i \in 1 .. m |-> u[i]]
    BY <1>1, <1>2
  <1> HIDE DEF K, m
  <1>8. OfKinds(u, K)
    BY <1>5, <1>6, <1>7, ListNoTwice
  <1> QED
    BY <1>8 DEF K

(* The points of the rotations the arguments open at.                      *)
LEMMA PointsOfArguments ==
  ASSUME NEW b \in Nat, b + 3 <= N
  PROVE  /\ Point(0) = 0 /\ Point(1) = 1 /\ Point(-(b + 1)) \notin {0, 1}
         /\ 0 \in Points /\ 1 \in Points /\ Point(-(b + 1)) \in Points
  <1>1. N \in Nat /\ N >= 3
    BY ConfigurationAssumption
  <1>2. 0 % N = 0 /\ 1 % N = 1
    BY <1>1
  <1>3. (-(b + 1)) % N = N - (b + 1)
    BY <1>1
  <1> QED
    BY <1>1, <1>2, <1>3 DEF Point, Points

LEMMA PairNoTwice ==
  ASSUME NEW q, NEW r, PlaceOf(q) # PlaceOf(r), NEW u, u = <<q, r>>
  PROVE  NoTwice(u) /\ PlacesOf(u) = {PlaceOf(q), PlaceOf(r)}
  <1>1. IsSeq(u) /\ Len(u) = 2 /\ u[1] = q /\ u[2] = r
    BY TwoElements
  <1>2. \A i, j \in 1 .. 2 : i < j => i = 1 /\ j = 2
    OBVIOUS
  <1>3. 1 .. 2 = {1, 2}
    OBVIOUS
  <1> QED
    BY <1>1, <1>2, <1>3 DEF NoTwice, PlacesOf

LEMMA OneNoTwice ==
  ASSUME NEW q, NEW u, u = <<q>>
  PROVE  NoTwice(u) /\ PlacesOf(u) = {PlaceOf(q)}
  <1>1. IsSeq(u) /\ Len(u) = 1 /\ u[1] = q
    BY OneElement
  <1>2. \A i, j \in 1 .. 1 : ~ (i < j)
    OBVIOUS
  <1>3. 1 .. 1 = {1}
    OBVIOUS
  <1> QED
    BY <1>1, <1>2, <1>3 DEF NoTwice, PlacesOf

Room(c) == BlindingFactors(c) \in Nat /\ BlindingFactors(c) + 3 <= N

LEMMA AccumulatorsNoTwice ==
  ASSUME NEW c, Room(c), NEW n \in Nat
  PROVE  OfKinds(AccumulatorQueriesIn(c, n), {"PermutationAccumulator"})
  <1> DEFINE acc(i) == Label("PermutationAccumulator", i)
             pairs == [i \in 1 .. n |-> <<<<acc(i), 0>>, <<acc(i), 1>>>>]
             m == Largest({n - 1, 0})
             lasts == [i \in 1 .. m |-> <<acc(n - i), LastIn(c)>>]
  <1>1. /\ Point(0) = 0 /\ Point(1) = 1 /\ Point(LastIn(c)) \notin {0, 1}
        /\ 0 \in Points /\ 1 \in Points /\ Point(LastIn(c)) \in Points
    BY PointsOfArguments DEF Room, LastIn
  <1>2. m \in Nat /\ (n >= 1 => m = n - 1) /\ (n = 0 => m = 0)
    <2>1. \E k \in {n - 1, 0} : \A j \in {n - 1, 0} : j <= k
      <3>1. n - 1 >= 0 \/ n = 0
        OBVIOUS
      <3> QED
        BY <3>1
    <2>2. m \in {n - 1, 0} /\ \A j \in {n - 1, 0} : j <= m
      BY <2>1 DEF Largest
    <2> HIDE DEF m
    <2> QED
      BY <2>2
  <1>3. AccumulatorQueriesIn(c, n) = FlattenSeq(pairs) \o lasts
    BY DEF AccumulatorQueriesIn
  <1> HIDE DEF m
  <1>4. \A i \in Nat : acc(i)[1] = "PermutationAccumulator" /\ acc(i)[2] = i - 1
    BY DEF Label
  <1> HIDE DEF acc
  <1>5. pairs = [i \in 1 .. n |-> pairs[i]]
        /\ \A i \in 1 .. n : pairs[i] = <<<<acc(i), 0>>, <<acc(i), 1>>>>
    OBVIOUS
  <1>6. lasts = [i \in 1 .. m |-> lasts[i]]
        /\ \A i \in 1 .. m : lasts[i] = <<acc(n - i), LastIn(c)>>
    OBVIOUS
  <1> HIDE DEF pairs, lasts
  <1>7. ASSUME NEW i \in 1 .. n
        PROVE  /\ NoTwice(pairs[i])
               /\ PlacesOf(pairs[i]) = {<<acc(i), 0>>, <<acc(i), 1>>}
    <2> DEFINE q == <<acc(i), 0>>
               r == <<acc(i), 1>>
    <2>1. PlaceOf(q) = q /\ PlaceOf(r) = r /\ q # r
      BY <1>1 DEF PlaceOf
    <2>2. pairs[i] = <<q, r>>
      BY <1>5
    <2> HIDE DEF q, r
    <2>3. NoTwice(pairs[i]) /\ PlacesOf(pairs[i]) = {q, r}
      BY <2>1, <2>2, PairNoTwice
    <2> QED
      BY <2>3 DEF q, r
  <1>8. ASSUME NEW i \in 1 .. n, NEW j \in 1 .. n, i < j
        PROVE  PlacesOf(pairs[i]) \cap PlacesOf(pairs[j]) = {}
    <2>1. acc(i) # acc(j)
      BY <1>4, <1>8
    <2> QED
      BY <1>7, <2>1
  <1>9. IsSeq(pairs) /\ Len(pairs) = n
    BY <1>5, SeqMade
  <1>10. /\ NoTwice(FlattenSeq(pairs))
         /\ \A x \in PlacesOf(FlattenSeq(pairs)) : \E i \in 1 .. n : x \in PlacesOf(pairs[i])
    BY <1>7, <1>8, <1>9, FlattenedNoTwice
  <1>11. ASSUME NEW x \in PlacesOf(FlattenSeq(pairs))
         PROVE  x[2] \in {0, 1} /\ x[1][1] = "PermutationAccumulator"
    <2>1. PICK i \in 1 .. n : x \in {<<acc(i), 0>>, <<acc(i), 1>>}
      BY <1>7, <1>10
    <2>2. x[1] = acc(i) /\ x[2] \in {0, 1}
      BY <2>1
    <2> QED
      BY <1>4, <2>2
  <1>12. ASSUME NEW i \in 1 .. m
         PROVE  /\ n - i \in Nat /\ lasts[i][1] = acc(n - i) /\ lasts[i][2] = LastIn(c)
                /\ lasts[i][1][1] \in {"PermutationAccumulator"} /\ lasts[i][1][2] = n - i - 1
    <2>1. n - i \in Nat
      BY <1>2
    <2>2. lasts[i][1] = acc(n - i) /\ lasts[i][2] = LastIn(c)
      BY <1>6
    <2> QED
      BY <1>4, <2>1, <2>2
  <1>13. ASSUME NEW i \in 1 .. m, NEW j \in 1 .. m, i < j
         PROVE  lasts[i][1] # lasts[j][1]
    <2>1. n - i - 1 # n - j - 1
      BY <1>2, <1>13
    <2> QED
      BY <1>12, <2>1
  <1> DEFINE K == {"PermutationAccumulator"}
  <1>14. \A i \in 1 .. m : lasts[i][1][1] \in K /\ Point(lasts[i][2]) \in Points
    <2> SUFFICES ASSUME NEW i \in 1 .. m
                 PROVE  lasts[i][1][1] \in K /\ Point(lasts[i][2]) \in Points
      OBVIOUS
    <2>1. lasts[i][1][1] \in K /\ lasts[i][2] = LastIn(c)
      BY <1>12
    <2> QED
      BY <1>1, <2>1
  <1> HIDE DEF K
  <1>15. OfKinds(lasts, K)
    <2>1. m \in Nat /\ lasts = [i \in 1 .. m |-> lasts[i]]
      BY <1>2, <1>6
    <2>2. \A i, j \in 1 .. m : i < j => \/ lasts[i][1] # lasts[j][1]
                                        \/ Point(lasts[i][2]) # Point(lasts[j][2])
      BY <1>13
    <2> QED
      BY <1>14, <2>1, <2>2, ListNoTwice
  <1>16. ASSUME NEW x \in PlacesOf(lasts)
         PROVE  x[2] \notin {0, 1}
    <2>1. IsSeq(lasts) /\ Len(lasts) = m
      BY <1>2, <1>6, SeqMade
    <2>2. PICK i \in 1 .. m : x = PlaceOf(lasts[i])
      BY <2>1 DEF PlacesOf
    <2>3. x[2] = Point(LastIn(c))
      BY <1>12, <2>2 DEF PlaceOf
    <2> QED
      BY <1>1, <2>3
  <1>17. PlacesOf(FlattenSeq(pairs)) \cap PlacesOf(lasts) = {}
    BY <1>11, <1>16
  <1> DEFINE a == FlattenSeq(pairs)
  <1>18. NoTwice(a) /\ NoTwice(lasts) /\ PlacesOf(a) \cap PlacesOf(lasts) = {}
    BY <1>10, <1>15, <1>17 DEF OfKinds
  <1>19. /\ \A x \in PlacesOf(a) : x[1][1] \in K /\ x[2] \in Points
         /\ \A x \in PlacesOf(lasts) : x[1][1] \in K /\ x[2] \in Points
    BY <1>1, <1>11, <1>15 DEF OfKinds, K
  <1> HIDE DEF a
  <1>20. NoTwice(a \o lasts) /\ PlacesOf(a \o lasts) = PlacesOf(a) \cup PlacesOf(lasts)
    BY <1>18, JoinedNoTwice
  <1>21. OfKinds(a \o lasts, K)
    BY <1>19, <1>20 DEF OfKinds
  <1> QED
    BY <1>3, <1>21 DEF a, K

LogupKinds == {"LogupMultiplicities", "LogupHelper", "LogupAggregator"}

LEMMA LogupNoTwice ==
  ASSUME NEW c, Room(c), NEW l \in Nat, NumChunks(c, c.lookups[l]) \in Nat
  PROVE  /\ NoTwice(LogupQueriesOf(c, l))
         /\ \A x \in PlacesOf(LogupQueriesOf(c, l)) :
               x[1][1] \in LogupKinds /\ x[1][2] = l - 1 /\ x[2] \in Points
  <1> DEFINE n == NumChunks(c, c.lookups[l])
             mul == Label("LogupMultiplicities", l)
             agg == Label("LogupAggregator", l)
             hel(j) == <<"LogupHelper", l - 1, j - 1>>
             q == <<mul, 0>>
             d == <<q>>
             e == [j \in 1 .. n |-> <<hel(j), 0>>]
             r == <<agg, 0>>
             t == <<agg, 1>>
             f == <<r, t>>
  <1>1. Point(0) = 0 /\ Point(1) = 1 /\ 0 \in Points /\ 1 \in Points
    BY PointsOfArguments DEF Room
  <1>2. LogupQueriesOf(c, l) = d \o e \o f
    BY DEF LogupQueriesOf
  <1>3. n \in Nat
    OBVIOUS
  <1> HIDE DEF n
  <1>4. /\ mul[1] = "LogupMultiplicities" /\ mul[2] = l - 1
        /\ agg[1] = "LogupAggregator" /\ agg[2] = l - 1
        /\ \A j \in 1 .. n : hel(j)[1] = "LogupHelper" /\ hel(j)[2] = l - 1 /\ hel(j)[3] = j - 1
    BY DEF Label
  <1> HIDE DEF mul, agg, hel
  <1>5. PlaceOf(q) = <<mul, 0>> /\ PlaceOf(r) = <<agg, 0>> /\ PlaceOf(t) = <<agg, 1>>
    BY <1>1 DEF PlaceOf
  <1>6. e = [j \in 1 .. n |-> e[j]] /\ \A j \in 1 .. n : e[j][1] = hel(j) /\ e[j][2] = 0
    OBVIOUS
  <1> HIDE DEF q, r, t, e
  <1>7. NoTwice(d) /\ PlacesOf(d) = {<<mul, 0>>}
    BY <1>5, OneNoTwice
  <1>8. PlaceOf(r) # PlaceOf(t)
    BY <1>5
  <1>9. NoTwice(f) /\ PlacesOf(f) = {<<agg, 0>>, <<agg, 1>>}
    BY <1>5, <1>8, PairNoTwice
  <1>10. ASSUME NEW i \in 1 .. n, NEW j \in 1 .. n, i < j
         PROVE  e[i][1] # e[j][1]
    <2>1. hel(i)[3] # hel(j)[3]
      BY <1>3, <1>4, <1>10
    <2> QED
      BY <1>6, <2>1
  <1>11. OfKinds(e, {"LogupHelper"})
    <2> DEFINE K == {"LogupHelper"}
    <2>1. \A j \in 1 .. n : e[j][1][1] \in K /\ Point(e[j][2]) \in Points
      BY <1>1, <1>4, <1>6
    <2> HIDE DEF K
    <2>2. OfKinds(e, K)
      BY <1>3, <1>6, <1>10, <2>1, ListNoTwice
    <2> QED
      BY <2>2 DEF K
  <1>12. ASSUME NEW x \in PlacesOf(e)
         PROVE  x[1][1] = "LogupHelper" /\ x[1][2] = l - 1 /\ x[2] \in Points
    <2>1. IsSeq(e) /\ Len(e) = n
      BY <1>3, <1>6, SeqMade
    <2>2. PICK j \in 1 .. n : x = PlaceOf(e[j])
      BY <2>1 DEF PlacesOf
    <2>3. x[1] = e[j][1]
      BY <2>2 DEF PlaceOf
    <2>4. x[1] = hel(j)
      BY <1>6, <2>3
    <2> QED
      BY <1>4, <1>11, <2>4 DEF OfKinds
  <1>13. ASSUME NEW x \in PlacesOf(d)
         PROVE  x[1][1] = "LogupMultiplicities" /\ x[1][2] = l - 1 /\ x[2] \in Points
    <2>1. x[1] = mul /\ x[2] \in Points
      BY <1>1, <1>7
    <2> QED
      BY <1>4, <2>1
  <1>14. ASSUME NEW x \in PlacesOf(f)
         PROVE  x[1][1] = "LogupAggregator" /\ x[1][2] = l - 1 /\ x[2] \in Points
    <2>1. x[1] = agg /\ x[2] \in Points
      BY <1>1, <1>9
    <2> QED
      BY <1>4, <2>1
  <1> HIDE DEF d, f
  <1>15. PlacesOf(d) \cap PlacesOf(e) = {}
    BY <1>12, <1>13
  <1>16. NoTwice(e)
    BY <1>11 DEF OfKinds
  <1>17. NoTwice(d \o e) /\ PlacesOf(d \o e) = PlacesOf(d) \cup PlacesOf(e)
    BY <1>7, <1>15, <1>16, JoinedNoTwice
  <1> DEFINE g == d \o e
  <1>18. PlacesOf(g) \cap PlacesOf(f) = {}
    BY <1>12, <1>13, <1>14, <1>17
  <1> HIDE DEF g
  <1>19. NoTwice(g)
    BY <1>17 DEF g
  <1>20. NoTwice(g \o f) /\ PlacesOf(g \o f) = PlacesOf(g) \cup PlacesOf(f)
    BY <1>9, <1>18, <1>19, JoinedNoTwice
  <1>21. PlacesOf(d \o e \o f) = PlacesOf(d) \cup PlacesOf(e) \cup PlacesOf(f)
    BY <1>17, <1>20 DEF g
  <1>22. ASSUME NEW x \in PlacesOf(d \o e \o f)
         PROVE  x[1][1] \in LogupKinds /\ x[1][2] = l - 1 /\ x[2] \in Points
    BY <1>12, <1>13, <1>14, <1>21 DEF LogupKinds
  <1> QED
    BY <1>2, <1>20, <1>22 DEF g

LEMMA LookupsNoTwice ==
  ASSUME NEW c, IsKey(c), Room(c)
  PROVE  OfKinds(LookupQueriesIn(c), LogupKinds)
  <1> DEFINE m == Len(c.lookups)
             t == [l \in 1 .. m |-> LogupQueriesOf(c, l)]
  <1>1. m \in Nat /\ \A l \in 1 .. m : NumChunks(c, c.lookups[l]) \in Nat
    BY KeyFields, SeqFacts
  <1>2. LookupQueriesIn(c) = FlattenSeq(t)
    BY DEF LookupQueriesIn
  <1> HIDE DEF m
  <1>3. t = [l \in 1 .. m |-> t[l]] /\ \A l \in 1 .. m : t[l] = LogupQueriesOf(c, l)
    OBVIOUS
  <1> HIDE DEF t
  <1>4. IsSeq(t) /\ Len(t) = m
    BY <1>1, <1>3, SeqMade
  <1>5. ASSUME NEW l \in 1 .. m
        PROVE  /\ NoTwice(t[l])
               /\ \A x \in PlacesOf(t[l]) :
                     x[1][1] \in LogupKinds /\ x[1][2] = l - 1 /\ x[2] \in Points
    <2>1. l \in Nat /\ NumChunks(c, c.lookups[l]) \in Nat
      BY <1>1
    <2> QED
      BY <1>3, <2>1, LogupNoTwice
  <1>6. ASSUME NEW i \in 1 .. m, NEW j \in 1 .. m, i < j
        PROVE  PlacesOf(t[i]) \cap PlacesOf(t[j]) = {}
    <2>1. i - 1 # j - 1
      BY <1>1, <1>6
    <2> QED
      BY <1>5, <2>1
  <1>7. /\ NoTwice(FlattenSeq(t))
        /\ \A x \in PlacesOf(FlattenSeq(t)) : \E i \in 1 .. m : x \in PlacesOf(t[i])
    BY <1>4, <1>5, <1>6, FlattenedNoTwice
  <1> QED
    BY <1>2, <1>5, <1>7 DEF OfKinds

(* What a circuit asks of one column it asks at different points.          *)
ApartIn(c) == \A kind \in Kinds : Apart(c.queries[kind])
OpenedApart(c, k) ==
    Apart(c.queries["advice"]) /\ Apart(CommittedIn(c, k)) /\ Apart(OpenedIn(c))

LEMMA ApartOpened ==
  ASSUME NEW c, ApartIn(c), NEW k
  PROVE  OpenedApart(c, k)
  <1>1. Apart(c.queries["advice"]) /\ Apart(c.queries["instance"]) /\ Apart(c.queries["fixed"])
    BY DEF ApartIn, Kinds
  <1>2. Apart(CommittedIn(c, k)) /\ Apart(OpenedIn(c))
    BY <1>1, ChosenApart DEF CommittedIn, OpenedIn
  <1> QED
    BY <1>1, <1>2 DEF OpenedApart

LEMMA QueriesOfKeyNoTwice ==
  ASSUME NEW c, IsKey(c), Room(c), NEW k, OpenedApart(c, k)
  PROVE  NoTwice(QueriesIn(c, k)) /\ \A x \in PlacesOf(QueriesIn(c, k)) : x[2] \in Points
  <1> DEFINE p == QueriesOf("Advice", c.queries["advice"])
             q == QueriesOf("CommittedInstance", CommittedIn(c, k))
             r == AccumulatorQueriesIn(c, AccumulatorsIn(c))
             s == LookupQueriesIn(c)
             t == [i \in DOMAIN c.trashcans |-> <<Label("Trash", i), 0>>]
             u == QueriesOf("Fixed", OpenedIn(c))
             v == [i \in DOMAIN c.permutation |-> <<Label("PermutationFixed", i), 0>>]
             w == <<<<Linearization, 0>>>>
             A == {"Advice"}
             B == {"CommittedInstance"}
             C == {"PermutationAccumulator"}
             D == LogupKinds
             E == {"Trash"}
             G == {"Fixed"}
             H == {"PermutationFixed"}
             I == {"Linearization"}
  <1>0. Point(0) = 0 /\ 0 \in Points
    BY PointsOfArguments DEF Room
  <1>1. QueriesIn(c, k) = p \o q \o r \o s \o t \o u \o v \o w
    BY DEF QueriesIn
  <1>3. Apart(c.queries["advice"]) /\ Apart(CommittedIn(c, k)) /\ Apart(OpenedIn(c))
    BY DEF OpenedApart
  <1>4. OfKinds(p, A)
    BY <1>3, QueriesApart
  <1>5. OfKinds(q, B)
    BY <1>3, QueriesApart
  <1>6. OfKinds(u, G)
    BY <1>3, QueriesApart
  <1>7. OfKinds(r, C)
    BY KeyFields, AccumulatorsNoTwice
  <1>8. OfKinds(s, D)
    BY LookupsNoTwice
  <1>9. IsSeq(c.trashcans) /\ IsSeq(c.permutation)
    BY KeyFields
  <1>10. OfKinds(t, E)
    BY <1>0, <1>9, IndexedNoTwice
  <1>11. OfKinds(v, H)
    BY <1>0, <1>9, IndexedNoTwice
  <1>12. OfKinds(w, I)
    <2> DEFINE z == <<Linearization, 0>>
    <2>1. PlaceOf(z)[1][1] = "Linearization" /\ PlaceOf(z)[2] \in Points
      BY <1>0 DEF PlaceOf, Linearization
    <2> HIDE DEF z
    <2>2. NoTwice(<<z>>) /\ PlacesOf(<<z>>) = {PlaceOf(z)}
      BY OneNoTwice
    <2>3. OfKinds(<<z>>, I)
      BY <2>1, <2>2 DEF OfKinds
    <2> QED
      BY <2>3 DEF z
  <1>13. /\ A \cap B = {} /\ (A \cup B) \cap C = {} /\ (A \cup B \cup C) \cap D = {}
         /\ (A \cup B \cup C \cup D) \cap E = {} /\ (A \cup B \cup C \cup D \cup E) \cap G = {}
         /\ (A \cup B \cup C \cup D \cup E \cup G) \cap H = {}
         /\ (A \cup B \cup C \cup D \cup E \cup G \cup H) \cap I = {}
    BY DEF LogupKinds
  <1> HIDE DEF p, q, r, s, t, u, v, w, A, B, C, D, E, G, H, I
  <1>14. OfKinds(p \o q, A \cup B)
    BY <1>4, <1>5, <1>13, JoinedKinds
  <1>15. OfKinds(p \o q \o r, A \cup B \cup C)
    BY <1>7, <1>13, <1>14, JoinedKinds
  <1>16. OfKinds(p \o q \o r \o s, A \cup B \cup C \cup D)
    BY <1>8, <1>13, <1>15, JoinedKinds
  <1>17. OfKinds(p \o q \o r \o s \o t, A \cup B \cup C \cup D \cup E)
    BY <1>10, <1>13, <1>16, JoinedKinds
  <1>18. OfKinds(p \o q \o r \o s \o t \o u, A \cup B \cup C \cup D \cup E \cup G)
    BY <1>6, <1>13, <1>17, JoinedKinds
  <1>19. OfKinds(p \o q \o r \o s \o t \o u \o v, A \cup B \cup C \cup D \cup E \cup G \cup H)
    BY <1>11, <1>13, <1>18, JoinedKinds
  <1>20. OfKinds(p \o q \o r \o s \o t \o u \o v \o w,
                 A \cup B \cup C \cup D \cup E \cup G \cup H \cup I)
    BY <1>12, <1>13, <1>19, JoinedKinds
  <1> QED
    BY <1>1, <1>20 DEF OfKinds

(* A list without repetitions.                                             *)
Once(s) == IsSeq(s) /\ \A i, j \in 1 .. Len(s) : i < j => s[i] # s[j]

LEMMA OnceMore ==
  ASSUME NEW s, Once(s), NEW x
  PROVE  Once(With(s, x))
  <1>1. CASE Contains(s, x)
    BY <1>1 DEF With
  <1>2. CASE ~ Contains(s, x)
    <2> DEFINE t == Append(s, x)
    <2>1. /\ IsSeq(t) /\ Len(t) = Len(s) + 1 /\ Len(s) \in Nat
          /\ \A i \in 1 .. Len(s) : t[i] = s[i]
          /\ t[Len(s) + 1] = x
      BY Longer DEF Once
    <2>2. \A i \in 1 .. Len(s) : s[i] # x
      BY <1>2 DEF Contains
    <2>3. With(s, x) = t
      BY <1>2 DEF With
    <2> HIDE DEF t
    <2>4. ASSUME NEW i \in 1 .. Len(t), NEW j \in 1 .. Len(t), i < j
          PROVE  t[i] # t[j]
      <3>1. i \in 1 .. Len(s)
        BY <2>1, <2>4
      <3>2. j \in 1 .. Len(s) \/ j = Len(s) + 1
        BY <2>1
      <3>3. CASE j \in 1 .. Len(s)
        BY <2>1, <2>4, <3>1, <3>3 DEF Once
      <3>4. CASE j = Len(s) + 1
        BY <2>1, <2>2, <3>1, <3>4
      <3> QED
        BY <3>2, <3>3, <3>4
    <2> QED
      BY <2>1, <2>3, <2>4 DEF Once
  <1> QED
    BY <1>1, <1>2

LEMMA DistinctOnce ==
  ASSUME NEW s, IsSeq(s)
  PROVE  Once(Distinct(s))
  <1>1. PICK f : /\ f[0] = <<>> /\ \A n \in 1 .. Len(s) : f[n] = With(f[n - 1], s[n])
                 /\ \A n \in 0 .. Len(s) : f[n] \in Seq(ToSet(s))
                 /\ Distinct(s) = f[Len(s)]
    BY DistinctLoop
  <1> DEFINE m == Len(s)
             P == {n \in 0 .. m : Once(f[n])}
  <1>2. m \in Nat
    BY SeqFacts
  <1>3. 0 \in P
    BY <1>1, <1>2, Nothing DEF Once
  <1>4. ASSUME NEW n \in 1 .. m, n - 1 \in P
        PROVE  n \in P
    <2>1. Once(f[n - 1]) /\ f[n] = With(f[n - 1], s[n])
      BY <1>1, <1>4
    <2>2. Once(f[n])
      BY <2>1, OnceMore
    <2> QED
      BY <1>2, <2>2
  <1>5. 0 .. m \subseteq P
    <2> HIDE DEF m, P
    <2> QED
      BY <1>2, <1>3, <1>4, InductionUpTo
  <1> QED
    BY <1>1, <1>2, <1>5

LEMMA ChosenOnce ==
  ASSUME NEW s, Once(s), NEW A
  PROVE  /\ Once(Chosen(s, A))
         /\ \A i \in 1 .. Len(Chosen(s, A)) : Chosen(s, A)[i] \in A /\ Chosen(s, A)[i] \in ToSet(s)
  <1> DEFINE t == Chosen(s, A)
  <1>0. IsSeq(s)
    BY DEF Once
  <1>1. IsSeq(s) /\ IsSeq(t)
    BY ChosenTyped DEF Once
  <1>2. Len(s) \in Nat /\ Len(t) \in Nat /\ \A k \in 1 .. Len(s) : s[k] \in ToSet(s)
    BY <1>1, SeqFacts
  <1>3. \A i \in 1 .. Len(t) : \E k \in 1 .. Len(s) : s[k] \in A /\ t[i] = s[k]
    BY <1>1, ChosenFrom
  <1>4. ASSUME NEW i \in 1 .. Len(t), NEW j \in 1 .. Len(t), i < j
        PROVE  t[i] # t[j]
    <2>1. i # j
      BY <1>2, <1>4
    <2>2. PICK k, l \in 1 .. Len(s) : k # l /\ t[i] = s[k] /\ t[j] = s[l]
      BY <1>0, <2>1, ChosenFrom
    <2>3. k < l \/ l < k
      BY <1>2, <2>2
    <2> QED
      BY <2>2, <2>3 DEF Once
  <1> HIDE DEF t
  <1>5. Once(t) /\ \A i \in 1 .. Len(t) : t[i] \in A /\ t[i] \in ToSet(s)
    BY <1>1, <1>2, <1>3, <1>4 DEF Once
  <1> QED
    BY <1>5 DEF t

(* Every point of a polynomial is one of its own, and all are points.      *)
LEMMA OwnPoints ==
  ASSUME NEW qs, IsSeq(qs), \A x \in PlacesOf(qs) : x[2] \in Points, NEW label
  PROVE  /\ ToSet(PointsOf(qs, label)) \subseteq Points
         /\ \A x \in PlacesOf(qs) : x[1] = label => x[2] \in ToSet(PointsOf(qs, label))
  <1> DEFINE A == {q \in ToSet(qs) : q[1] = label}
             own == QueriesTo(qs, label)
             ps == PointsOf(qs, label)
  <1>1. own = Chosen(qs, A)
    BY DEF QueriesTo
  <1>2. ps = [i \in DOMAIN own |-> Point(own[i][2])]
    BY DEF PointsOf
  <1> HIDE DEF own, ps
  <1>3. IsSeq(own)
    BY <1>1, ChosenTyped
  <1>4. /\ \A i \in 1 .. Len(own) : \E k \in 1 .. Len(qs) : qs[k] \in A /\ own[i] = qs[k]
        /\ \A k \in 1 .. Len(qs) : qs[k] \in A => \E i \in 1 .. Len(own) : own[i] = qs[k]
    <2> HIDE DEF A
    <2>1. \A i \in 1 .. Len(own) : \E k \in 1 .. Len(qs) : qs[k] \in A /\ own[i] = qs[k]
      BY <1>1, ChosenFrom
    <2>2. \A k \in 1 .. Len(qs) : qs[k] \in A => \E i \in 1 .. Len(own) : own[i] = qs[k]
      BY <1>1, ChosenFrom
    <2> QED
      BY <2>1, <2>2
  <1>5. DOMAIN own = 1 .. Len(own) /\ \A k \in 1 .. Len(qs) : qs[k] \in ToSet(qs)
    BY <1>3, SeqFacts
  <1>6. ps = [i \in 1 .. Len(own) |-> ps[i]]
        /\ \A i \in 1 .. Len(own) : ps[i] = Point(own[i][2])
    BY <1>2, <1>5
  <1>7. IsSeq(ps) /\ Len(ps) = Len(own)
    BY <1>3, <1>6, SeqFacts, SeqMade
  <1>8. ToSet(ps) = {ps[i] : i \in 1 .. Len(own)}
    BY <1>7, SeqFacts DEF ToSet
  <1>9. ASSUME NEW i \in 1 .. Len(own)
        PROVE  ps[i] \in Points
    <2>1. PICK k \in 1 .. Len(qs) : own[i] = qs[k]
      BY <1>4
    <2>2. PlaceOf(qs[k]) \in PlacesOf(qs) /\ PlaceOf(qs[k])[2] = Point(qs[k][2])
      BY DEF PlacesOf, PlaceOf
    <2> QED
      BY <1>6, <2>1, <2>2
  <1>10. ASSUME NEW x \in PlacesOf(qs), x[1] = label
         PROVE  x[2] \in ToSet(ps)
    <2>1. PICK k \in 1 .. Len(qs) : x = PlaceOf(qs[k])
      BY DEF PlacesOf
    <2>2. x[1] = qs[k][1] /\ x[2] = Point(qs[k][2])
      BY <2>1 DEF PlaceOf
    <2>3. qs[k] \in A
      BY <1>5, <1>10, <2>2
    <2>4. PICK i \in 1 .. Len(own) : own[i] = qs[k]
      BY <1>4, <2>3
    <2> QED
      BY <1>6, <1>8, <2>2, <2>4
  <1> QED
    BY <1>8, <1>9, <1>10 DEF ps

LEMMA FlattenedFrom ==
  ASSUME NEW ss, IsSeq(ss), \A i \in 1 .. Len(ss) : IsSeq(ss[i]),
         NEW S, \A i \in 1 .. Len(ss) : ToSet(ss[i]) \subseteq S
  PROVE  ToSet(FlattenSeq(ss)) \subseteq S
  <1>1. PICK f : /\ f[0] = <<>> /\ \A n \in 1 .. Len(ss) : f[n] = f[n - 1] \o ss[n]
                 /\ \A n \in 0 .. Len(ss) : IsSeq(f[n])
                 /\ FlattenSeq(ss) = f[Len(ss)]
    BY FlattenLoop
  <1> DEFINE m == Len(ss)
             P == {n \in 0 .. m : ToSet(f[n]) \subseteq S}
  <1>2. m \in Nat
    BY SeqFacts
  <1>3. 0 \in P
    BY <1>1, <1>2, Nothing
  <1>4. ASSUME NEW n \in 1 .. m, n - 1 \in P
        PROVE  n \in P
    <2>1. n - 1 \in 0 .. m /\ n \in 0 .. m
      BY <1>2
    <2>2. IsSeq(f[n - 1]) /\ IsSeq(ss[n]) /\ f[n] = f[n - 1] \o ss[n]
      BY <1>1, <2>1
    <2>3. ToSet(f[n - 1]) \subseteq S /\ ToSet(ss[n]) \subseteq S
      BY <1>4
    <2> DEFINE a == f[n - 1]
               b == ss[n]
    <2>4. IsSeq(a) /\ IsSeq(b) /\ ToSet(a) \subseteq S /\ ToSet(b) \subseteq S /\ f[n] = a \o b
      BY <2>2, <2>3
    <2> HIDE DEF a, b
    <2>5. ToSet(a \o b) = ToSet(a) \cup ToSet(b)
      BY <2>4, Joined
    <2> QED
      BY <2>1, <2>4, <2>5
  <1>5. 0 .. m \subseteq P
    <2> HIDE DEF m, P
    <2> QED
      BY <1>2, <1>3, <1>4, InductionUpTo
  <1> QED
    BY <1>1, <1>2, <1>5

(* The points to complete are shared points, each taken once; so are the   *)
(* polynomials they are completed for.                                     *)
LEMMA CompletedOnce ==
  ASSUME NEW qs, IsSeq(qs), \A x \in PlacesOf(qs) : x[2] \in Points
  PROVE  Once(Keys(qs)) /\ Once(SharedPoints(qs)) /\ ToSet(SharedPoints(qs)) \subseteq Points
  <1> DEFINE k == [i \in DOMAIN qs |-> qs[i][1]]
             keys == Keys(qs)
             n == Len(keys)
             Shared(i) == LET points == PointsOf(qs, keys[i])
                          IN  IF Len(points) = 1 THEN <<>> ELSE points
             s == [i \in DOMAIN keys |-> Shared(i)]
             shared == SharedPoints(qs)
  <1>1. Once(keys)
    <2>1. k = [i \in DOMAIN qs |-> k[i]] /\ keys = Distinct(k)
      BY DEF Keys
    <2> HIDE DEF k, keys
    <2>2. IsSeq(k)
      BY <2>1, Mapped
    <2> QED
      BY <2>1, <2>2, DistinctOnce
  <1>2. n \in Nat /\ DOMAIN keys = 1 .. n
    BY OpeningLists, SeqFacts
  <1>3. shared = Distinct(FlattenSeq(s))
    BY DEF SharedPoints
  <1>4. ASSUME NEW i \in 1 .. n
        PROVE  IsSeq(Shared(i)) /\ ToSet(Shared(i)) \subseteq Points
    <2>1. IsSeq(PointsOf(qs, keys[i])) /\ ToSet(PointsOf(qs, keys[i])) \subseteq Points
      BY OpeningLists, OwnPoints
    <2>2. Shared(i) = PointsOf(qs, keys[i]) \/ Shared(i) = <<>>
      OBVIOUS
    <2> HIDE DEF Shared, keys, n
    <2> QED
      BY <2>1, <2>2, Nothing
  <1> HIDE DEF Shared, keys, n, shared
  <1>5. s = [i \in 1 .. n |-> s[i]] /\ \A i \in 1 .. n : s[i] = Shared(i)
    BY <1>2
  <1> HIDE DEF s
  <1>6. IsSeq(s) /\ Len(s) = n
    BY <1>2, <1>5, SeqMade
  <1>7. \A i \in 1 .. Len(s) : IsSeq(s[i]) /\ ToSet(s[i]) \subseteq Points
    BY <1>4, <1>5, <1>6
  <1> DEFINE f == FlattenSeq(s)
  <1>8. IsSeq(f)
    BY <1>6, <1>7, Flattened
  <1>9. ToSet(f) \subseteq Points
    BY <1>6, <1>7, FlattenedFrom
  <1> HIDE DEF f
  <1>10. Once(Distinct(f)) /\ Distinct(f) \in Seq(ToSet(f))
    BY <1>8, DistinctOnce, DistinctTyped
  <1>11. ToSet(Distinct(f)) \subseteq Points
    <2> DEFINE d == Distinct(f)
    <2>1. d \in Seq(ToSet(f))
      BY <1>10
    <2> HIDE DEF d
    <2>2. IsSeq(d)
      BY <2>1 DEF IsSeq
    <2>3. ToSet(d) \subseteq ToSet(f)
      BY <2>1 DEF ToSet
    <2> QED
      BY <1>9, <2>3 DEF d
  <1> QED
    BY <1>1, <1>3, <1>10, <1>11 DEF keys, shared, f

LEMMA DummiesNoTwice ==
  ASSUME NEW qs, NoTwice(qs), \A x \in PlacesOf(qs) : x[2] \in Points
  PROVE  /\ NoTwice(ComputeDummyQueries(qs))
         /\ PlacesOf(qs) \cap PlacesOf(ComputeDummyQueries(qs)) = {}
  <1> DEFINE keys == Keys(qs)
             n == Len(keys)
             shared == SharedPoints(qs)
             Missing(label) == Chosen(shared, ToSet(shared) \ ToSet(PointsOf(qs, label)))
             Dummies(label) == [j \in DOMAIN Missing(label) |-> <<label, Missing(label)[j]>>]
             d == [i \in DOMAIN keys |-> Dummies(keys[i])]
  <1>0. IsSeq(qs)
    BY DEF NoTwice
  <1>1. n \in Nat /\ DOMAIN keys = 1 .. n
    BY <1>0, OpeningLists, SeqFacts
  <1>2. Once(keys) /\ Once(shared) /\ ToSet(shared) \subseteq Points
    BY <1>0, CompletedOnce
  <1>3. ComputeDummyQueries(qs) = FlattenSeq(d)
    BY DEF ComputeDummyQueries
  <1> HIDE DEF keys, n, shared
  <1>4. ASSUME NEW label
        PROVE  /\ NoTwice(Dummies(label))
               /\ \A x \in PlacesOf(Dummies(label)) : x[1] = label /\ x \notin PlacesOf(qs)
    <2> DEFINE A == ToSet(shared) \ ToSet(PointsOf(qs, label))
               m == Missing(label)
               u == Dummies(label)
    <2>1. Once(m) /\ \A i \in 1 .. Len(m) : m[i] \in A /\ m[i] \in ToSet(shared)
      BY <1>2, ChosenOnce
    <2>2. u = [j \in DOMAIN m |-> <<label, m[j]>>]
      OBVIOUS
    <2> HIDE DEF m, u
    <2>3. IsSeq(m) /\ DOMAIN m = 1 .. Len(m) /\ Len(m) \in Nat
      BY <2>1, SeqFacts DEF Once
    <2>4. u = [j \in 1 .. Len(m) |-> u[j]]
          /\ \A j \in 1 .. Len(m) : u[j][1] = label /\ u[j][2] = m[j]
      BY <2>2, <2>3
    <2>5. IsSeq(u) /\ Len(u) = Len(m)
      BY <2>3, <2>4, SeqMade
    <2>6. \A j \in 1 .. Len(m) : m[j] \in Points /\ m[j] \notin ToSet(PointsOf(qs, label))
      BY <1>2, <2>1
    <2> HIDE DEF A
    <2>7. \A j \in 1 .. Len(m) : PlaceOf(u[j]) = <<label, m[j]>>
      BY <2>4, <2>6, PointsInRange DEF PlaceOf
    <2>8. ASSUME NEW i \in 1 .. Len(m), NEW j \in 1 .. Len(m), i < j
          PROVE  PlaceOf(u[i]) # PlaceOf(u[j])
      <3>1. m[i] # m[j]
        BY <2>1, <2>8 DEF Once
      <3> QED
        BY <2>7, <3>1
    <2>9. NoTwice(u)
      BY <2>5, <2>8 DEF NoTwice
    <2>10. ASSUME NEW x \in PlacesOf(u)
           PROVE  x[1] = label /\ x \notin PlacesOf(qs)
      <3>1. PICK j \in 1 .. Len(m) : x = PlaceOf(u[j])
        BY <2>5 DEF PlacesOf
      <3>2. x[1] = label /\ x[2] = m[j]
        BY <2>7, <3>1
      <3>3. x \in PlacesOf(qs) => x[2] \in ToSet(PointsOf(qs, label))
        BY <1>0, <3>2, OwnPoints
      <3> QED
        BY <2>6, <3>2, <3>3
    <2> QED
      BY <2>9, <2>10 DEF u
  <1> HIDE DEF Dummies
  <1>5. d = [i \in 1 .. n |-> d[i]] /\ \A i \in 1 .. n : d[i] = Dummies(keys[i])
    BY <1>1
  <1> HIDE DEF d
  <1>6. IsSeq(d) /\ Len(d) = n
    BY <1>1, <1>5, SeqMade
  <1>7. ASSUME NEW i \in 1 .. n
        PROVE  /\ NoTwice(d[i])
               /\ \A x \in PlacesOf(d[i]) : x[1] = keys[i] /\ x \notin PlacesOf(qs)
    <2>1. d[i] = Dummies(keys[i])
      BY <1>5
    <2> QED
      BY <1>4, <2>1
  <1>8. ASSUME NEW i \in 1 .. n, NEW j \in 1 .. n, i < j
        PROVE  PlacesOf(d[i]) \cap PlacesOf(d[j]) = {}
    <2>1. keys[i] # keys[j]
      BY <1>2, <1>8 DEF Once, n
    <2> QED
      BY <1>7, <2>1
  <1> DEFINE f == FlattenSeq(d)
  <1>9. NoTwice(f) /\ \A x \in PlacesOf(f) : \E i \in 1 .. n : x \in PlacesOf(d[i])
    BY <1>6, <1>7, <1>8, FlattenedNoTwice
  <1> HIDE DEF f
  <1>10. PlacesOf(qs) \cap PlacesOf(f) = {}
    BY <1>7, <1>9
  <1> QED
    BY <1>3, <1>9, <1>10 DEF f

LEMMA AllNoTwice ==
  ASSUME NEW c, IsKey(c), Room(c), NEW k, OpenedApart(c, k), NEW fs
  PROVE  NoTwice(AllQueriesIn(c, fs, k))
  <1> DEFINE qs == QueriesIn(c, k)
  <1>1. NoTwice(qs) /\ \A x \in PlacesOf(qs) : x[2] \in Points
    BY QueriesOfKeyNoTwice
  <1>2. AllQueriesIn(c, fs, k) = qs \o DummiesIn(fs, qs)
    BY DEF AllQueriesIn
  <1> HIDE DEF qs
  <1>3. CASE "fewer-point-sets" \in fs
    <2> DEFINE d == ComputeDummyQueries(qs)
    <2>1. NoTwice(d) /\ PlacesOf(qs) \cap PlacesOf(d) = {}
      BY <1>1, DummiesNoTwice
    <2>2. AllQueriesIn(c, fs, k) = qs \o d
      BY <1>2, <1>3 DEF DummiesIn
    <2> HIDE DEF d
    <2> QED
      BY <1>1, <2>1, <2>2, JoinedNoTwice
  <1>4. CASE "fewer-point-sets" \notin fs
    <2>1. AllQueriesIn(c, fs, k) = qs
      BY <1>1, <1>2, <1>4, JoinedNothing DEF DummiesIn, NoTwice
    <2> QED
      BY <1>1, <2>1
  <1> QED
    BY <1>3, <1>4

(* Without collisions a circuit asks of a column at distinct points.       *)
LEMMA SystemsApart ==
  ASSUME cs \in Systems, ~ RotationsCollide
  PROVE  ApartIn(cs)
  <1> SUFFICES ASSUME NEW kind \in Kinds
               PROVE  Apart(cs.queries[kind])
    BY DEF ApartIn
  <1> DEFINE qs == cs.queries[kind]
  <1>1. qs \in Seq(QueryType) /\ \A i, j \in DOMAIN qs : qs[i] = qs[j] => i = j
    BY SystemFields DEF Systems, DistinctQueries
  <1>2. \A q, r \in ToSet(qs) : q[1] = r[1] /\ q[2] # r[2] => Point(q[2]) # Point(r[2])
    BY DEF RotationsCollide
  <1> HIDE DEF qs
  <1>3. IsSeq(qs) /\ DOMAIN qs = 1 .. Len(qs) /\ \A i \in 1 .. Len(qs) : qs[i] \in ToSet(qs)
    BY <1>1, SeqInSet, SeqFacts
  <1>4. \A i \in 1 .. Len(qs) : qs[i] \in Nat \X Int
    BY <1>1 DEF QueryType
  <1>5. ASSUME NEW i \in 1 .. Len(qs)
        PROVE  Point(qs[i][2]) \in Points
    <2>1. qs[i][2] \in Int
      BY <1>4
    <2> QED
      BY <2>1, PointsInRange
  <1>6. ASSUME NEW i \in 1 .. Len(qs), NEW j \in 1 .. Len(qs), i # j
        PROVE  qs[i][1] # qs[j][1] \/ Point(qs[i][2]) # Point(qs[j][2])
    <2>1. qs[i] # qs[j]
      BY <1>1, <1>3, <1>6
    <2>2. qs[i][1] # qs[j][1] \/ qs[i][2] # qs[j][2]
      BY <1>4, <2>1
    <2> QED
      BY <1>2, <1>3, <2>2
  <1>7. Apart(qs)
    BY <1>3, <1>5, <1>6 DEF Apart
  <1> QED
    BY <1>7 DEF qs

(* The prover opens nothing, or the queries of the circuit with its keys.  *)
QueriesInv == \/ p_queries = <<>>
              \/ phase = "keyed" /\ p_queries = AllQueriesIn(cs, features, statement.committed)

LEMMA NextQueries ==
  ASSUME TInv, QueriesInv, [Next]_vars
  PROVE  QueriesInv'
  <1>1. KeyInv /\ ProverInv
    BY DEF TInv
  <1>2. CASE NextConfiguration /\ UNCHANGED <<proverVars, verifierVars>>
    <2>1. phase = "configure"
      BY <1>2, KeyStays
    <2>2. p_queries = <<>>
      BY <2>1 DEF QueriesInv
    <2> QED
      BY <1>2, <2>2 DEF proverVars, QueriesInv
  <1>3. CASE ProverActs
    <2>1. /\ phase = "keyed" /\ phase' = phase /\ cs' = cs
          /\ features' = features /\ statement' = statement
      BY <1>3, ProverFrame DEF csVars
    <2>2. CASE MultiOpen
      <3>1. IsKey(cs)
        BY <1>1, <2>1, KeysMade DEF Keyed
      <3>2. p_queries' = ComputeQueries \o DummyQueries(ComputeQueries)
        BY <2>2 DEF MultiOpen
      <3>3. ComputeQueries = QueriesIn(cs, statement.committed)
        BY <3>1, ProverQueries
      <3>4. \A qs : DummyQueries(qs) = DummiesIn(features, qs)
        BY <3>1, SameLists
      <3>5. p_queries' = AllQueriesIn(cs, features, statement.committed)
        BY <3>2, <3>3, <3>4 DEF AllQueriesIn
      <3> QED
        BY <2>1, <3>5 DEF QueriesInv
    <2>3. CASE ~ MultiOpen
      <3>1. p_queries' = p_queries
        BY <1>3, <2>3 DEF ProverActs, ComputeInstances, InvalidInstancesError, InstanceTooLarge,
           ParseAdvices, WriteMultiplicities, WriteArguments, HashingPanics, WriteQuotient,
           WriteEvals, ProverPanics
      <3> QED
        BY <2>1, <3>1 DEF QueriesInv
    <2> QED
      BY <2>2, <2>3
  <1>4. CASE VerifierActs \/ Deliver \/ UNCHANGED vars
    <2>1. UNCHANGED <<csVars, proverVars>>
      BY <1>4, VerifierFrame DEF vars
    <2> QED
      BY <2>1 DEF csVars, proverVars, QueriesInv
  <1> QED
    BY <1>2, <1>3, <1>4 DEF Next, ProverActs, VerifierActs

LEMMA DistinctlyOpened ==
  ASSUME TInv, QueriesInv
  PROVE  QueriesAreDistinct
  <1> SUFFICES ASSUME ~ RotationsCollide
               PROVE  ~ DuplicatedQuery(p_queries)
    BY DEF QueriesAreDistinct
  <1>1. CASE p_queries = <<>>
    <2>1. NoTwice(p_queries)
      BY <1>1, Nothing DEF NoTwice
    <2> QED
      BY <2>1, NoTwiceIsDistinct
  <1>2. CASE phase = "keyed" /\ p_queries = AllQueriesIn(cs, features, statement.committed)
    <2>1. KeyInv
      BY DEF TInv
    <2>2. IsKey(cs)
      BY <1>2, <2>1, KeysMade DEF Keyed
    <2>3. BlindingFactors(cs) \in Nat
      BY <2>2, KeyFields
    <2>4. Room(cs)
      BY <1>2, <2>1, <2>3 DEF KeyInv, KeyUsable, Room
    <2>5. OpenedApart(cs, statement.committed)
      BY <2>1, SystemsApart, ApartOpened DEF KeyInv, IInv
    <2>6. NoTwice(p_queries)
      BY <1>2, <2>2, <2>4, <2>5, AllNoTwice
    <2> QED
      BY <2>6, NoTwiceIsDistinct
  <1> QED
    BY <1>1, <1>2 DEF QueriesInv

(* Unless two rotations of the circuit differ by a multiple of the rows,   *)
(* no polynomial is opened twice at a point, be it for the circuit, its    *)
(* arguments or the completion of the point sets: key generation leaves    *)
(* the rows for it (minimum_rows, compute_queries, compute_dummy_queries). *)
THEOREM QueriesAlwaysDistinct == Spec => []QueriesAreDistinct
  <1>1. Init => QueriesInv
    BY DEF Init, QueriesInv
  <1>2. TInv /\ QueriesInv /\ [Next]_vars => QueriesInv'
    BY NextQueries
  <1>3. TInv /\ QueriesInv => QueriesAreDistinct
    BY DistinctlyOpened
  <1> QED
    BY <1>1, <1>2, <1>3, AlwaysTranscripts, PTL DEF Spec

-----------------------------------------------------------------------------
(* The verifier in a circuit.  A side that hears an item of a proof r, an  *)
(* item that is not there being the default.                               *)
GivenIn(r, j) == IF j <= Len(r) /\ r[j] # <<"byte">> THEN r[j] ELSE Default
HearsIn(r, t, x) ==
    IF IsChallenge(x) THEN [t EXCEPT !.log = Append(@, x)]
    ELSE [log   |-> Append(t.log, GivenIn(r, t.at + 1)), at |-> t.at + 1,
          taken |-> Append(t.taken, <<x, GivenIn(r, t.at + 1)>>)]
Unread(g)    == [log |-> g, at |-> 0, taken |-> <<>>]
Shaped(t)    == /\ IsSeq(t.log) /\ t.at \in Nat /\ IsSeq(t.taken)
                /\ t = [log |-> t.log, at |-> t.at, taken |-> t.taken]
ReadsOn(h, r, g, u) ==
    /\ h[0] = Unread(g) /\ \A n \in 1 .. Len(u) : h[n] = HearsIn(r, h[n - 1], u[n])
    /\ \A n \in 0 .. Len(u) : Shaped(h[n])

LEMMA GadgetHearsIn ==
  ASSUME NEW t, NEW x
  PROVE  GadgetHear(t, x) = HearsIn(received, t, x)
  BY DEF GadgetHear, HearsIn, Given, GivenIn

HeardIn(r, t, x, u) ==
    /\ Shaped(u)
    /\ IsChallenge(x) => u.log = Append(t.log, x) /\ u.at = t.at /\ u.taken = t.taken
    /\ ~ IsChallenge(x) => /\ u.log = Append(t.log, GivenIn(r, t.at + 1)) /\ u.at = t.at + 1
                           /\ u.taken = Append(t.taken, <<x, GivenIn(r, t.at + 1)>>)

LEMMA HearsShaped ==
  ASSUME NEW r, NEW t, Shaped(t), NEW x
  PROVE  HeardIn(r, t, x, HearsIn(r, t, x))
  <1> DEFINE u == HearsIn(r, t, x)
             l == t.log
             a == t.at
             k == t.taken
             e == GivenIn(r, a + 1)
             y == <<x, e>>
  <1>1. /\ IsSeq(l) /\ a \in Nat /\ IsSeq(k) /\ t = [log |-> l, at |-> a, taken |-> k]
    BY DEF Shaped
  <1>2. /\ IsSeq(Append(l, x)) /\ IsSeq(Append(l, e)) /\ IsSeq(Append(k, y))
    BY <1>1, Longer
  <1>3. CASE IsChallenge(x)
    <2>1. u = [log |-> Append(l, x), at |-> a, taken |-> k]
      <3>1. u = [t EXCEPT !.log = Append(l, x)]
        BY <1>3 DEF HearsIn
      <3> HIDE DEF l, a, k
      <3> QED
        BY <1>1, <3>1
    <2>2. u.log = Append(l, x) /\ u.at = a /\ u.taken = k
      <3> HIDE DEF l, a, k
      <3> QED
        BY <2>1
    <2>3. Shaped(u)
      <3> HIDE DEF l, a, k
      <3> QED
        BY <1>1, <1>2, <2>1, <2>2 DEF Shaped
    <2> QED
      BY <1>3, <2>2, <2>3 DEF HeardIn
  <1>4. CASE ~ IsChallenge(x)
    <2>1. u = [log |-> Append(l, e), at |-> a + 1, taken |-> Append(k, y)]
      BY <1>4 DEF HearsIn
    <2>2. u.log = Append(l, e) /\ u.at = a + 1 /\ u.taken = Append(k, y)
      <3> HIDE DEF l, a, k, e, y
      <3> QED
        BY <2>1
    <2>3. u = [log |-> u.log, at |-> u.at, taken |-> u.taken]
      BY <2>1, <2>2
    <2>4. IsSeq(u.log) /\ u.at \in Nat /\ IsSeq(u.taken)
      <3> HIDE DEF l, a, k, e, y
      <3>1. IsSeq(u.log)
        BY <1>2, <2>2
      <3>2. u.at \in Nat
        BY <1>1, <2>2
      <3>3. IsSeq(u.taken)
        BY <1>2, <2>2
      <3> QED
        BY <3>1, <3>2, <3>3
    <2>5. Shaped(u)
      BY <2>3, <2>4 DEF Shaped
    <2> QED
      BY <1>4, <2>2, <2>5 DEF HeardIn
  <1> QED
    BY <1>3, <1>4

GadgetItems(g, u) == ToSet(g) \cup ToSet(u) \cup ToSet(received) \cup {Default}
GadgetType(g, u)  ==
    [log : Seq(GadgetItems(g, u)), at : Nat, taken : Seq(ToSet(u) \X GadgetItems(g, u))]

LEMMA GadgetHearsTyped ==
  ASSUME IsSeq(received), NEW g, NEW u, NEW x \in ToSet(u), NEW t \in GadgetType(g, u)
  PROVE  GadgetHear(t, x) \in GadgetType(g, u)
  <1> DEFINE A == GadgetItems(g, u)
             B == ToSet(u)
             l == t.log
             a == t.at
             k == t.taken
             e == Given(a + 1)
             y == <<x, e>>
  <1>1. /\ l \in Seq(A) /\ a \in Nat /\ k \in Seq(B \X A)
        /\ t = [log |-> l, at |-> a, taken |-> k]
    BY DEF GadgetType
  <1>2. x \in A /\ x \in B
    BY DEF GadgetItems
  <1>3. e \in A
    <2>1. CASE a + 1 <= Len(received) /\ received[a + 1] # <<"byte">>
      <3>1. a + 1 \in 1 .. Len(received)
        BY <1>1, <2>1, SeqFacts
      <3>2. received[a + 1] \in ToSet(received)
        BY <3>1, SeqFacts
      <3> QED
        BY <2>1, <3>2 DEF Given, GadgetItems
    <2>2. CASE ~ (a + 1 <= Len(received) /\ received[a + 1] # <<"byte">>)
      <3>1. e = Default
        BY <2>2 DEF Given
      <3> QED
        BY <3>1 DEF GadgetItems
    <2> QED
      BY <2>1, <2>2
  <1> DEFINE SA == Seq(A)
             SB == Seq(B \X A)
  <1>4. \A p \in SA, n \in Nat, q \in SB :
            [log |-> p, at |-> n, taken |-> q] \in GadgetType(g, u)
    BY DEF GadgetType
  <1> HIDE DEF A, B, l, a, k
  <1>5. CASE IsChallenge(x)
    <2>1. Append(l, x) \in SA
      BY <1>1, <1>2
    <2>2. GadgetHear(t, x) = [t EXCEPT !.log = Append(l, x)]
      BY <1>5 DEF GadgetHear, l
    <2>3. GadgetHear(t, x) = [log |-> Append(l, x), at |-> a, taken |-> k]
      BY <1>1, <2>2
    <2> HIDE DEF SA
    <2> QED
      BY <1>1, <1>4, <2>1, <2>3
  <1>6. CASE ~ IsChallenge(x)
    <2>1. GadgetHear(t, x) = [log |-> Append(l, e), at |-> a + 1, taken |-> Append(k, y)]
      BY <1>6 DEF GadgetHear, l, a, k
    <2> HIDE DEF e
    <2>2. Append(l, e) \in SA /\ y \in B \X A
      BY <1>1, <1>2, <1>3
    <2> HIDE DEF y
    <2>3. Append(k, y) \in SB
      BY <1>1, <2>2
    <2>4. a + 1 \in Nat
      BY <1>1
    <2> HIDE DEF SA, SB
    <2> QED
      BY <1>4, <2>1, <2>2, <2>3, <2>4
  <1> QED
    BY <1>5, <1>6

LEMMA GadgetReadsOn ==
  ASSUME IsSeq(received), NEW g, IsSeq(g), NEW u, IsSeq(u)
  PROVE  \E h : ReadsOn(h, received, g, u) /\ GadgetHears(g, u) = h[Len(u)]
  <1> DEFINE m == Len(u)
             S == GadgetType(g, u)
             next == [p \in (1 .. m) \X S |-> GadgetHear(p[2], u[p[1]])]
             Is(f) == f = [n \in 0 .. m |->
                              IF n = 0 THEN [log |-> g, at |-> 0, taken |-> <<>>]
                              ELSE GadgetHear(f[n - 1], u[n])]
  <1>1. m \in Nat /\ Unread(g) \in S /\ \A n \in 1 .. m : n - 1 \in 0 .. m /\ n \in 0 .. m /\ n # 0
    <2>1. g \in Seq(GadgetItems(g, u))
      <3>1. g \in Seq(ToSet(g))
        BY SeqFacts
      <3> QED
        BY <3>1 DEF GadgetItems
    <2>2. <<>> \in Seq(ToSet(u) \X GadgetItems(g, u))
      BY Nothing
    <2>3. Unread(g) \in S
      BY <2>1, <2>2 DEF GadgetType, Unread
    <2>4. Len(u) \in Nat
      BY SeqFacts
    <2> QED
      BY <2>3, <2>4
  <1>2. ASSUME NEW n \in 1 .. m, NEW x \in S
        PROVE  GadgetHear(x, u[n]) \in S
    <2>1. u[n] \in ToSet(u)
      BY SeqFacts
    <2> HIDE DEF m
    <2> QED
      BY <2>1, GadgetHearsTyped
  <1>3. PICK q0 : Loops(q0, m, S, Unread(g), next)
    <2>1. Steps(next, 1 .. m, S)
      BY <1>2 DEF Steps
    <2> HIDE DEF m, S, next
    <2> QED
      BY <1>1, <2>1, LoopsExist
  <1>4. Is(q0)
    <2>1. \A n \in 1 .. m : q0[n] = GadgetHear(q0[n - 1], u[n])
      <3> SUFFICES ASSUME NEW n \in 1 .. m
                   PROVE  q0[n] = GadgetHear(q0[n - 1], u[n])
        OBVIOUS
      <3>1. q0[n] = next[n, q0[n - 1]] /\ q0[n - 1] \in S
        BY <1>1, <1>3 DEF Loops
      <3> HIDE DEF m, S
      <3> QED
        BY <3>1
    <2>2. q0 \in [0 .. m -> S] /\ q0[0] = [log |-> g, at |-> 0, taken |-> <<>>]
      BY <1>3 DEF Loops, Unread
    <2>3. \A n \in 0 .. m : n = 0 \/ n \in 1 .. m
      BY <1>1
    <2> HIDE DEF m, S, next
    <2> QED
      BY <2>1, <2>2, <2>3
  <1>5. PICK q : Is(q) /\ GadgetHears(g, u) = q[m]
    <2> DEFINE q == CHOOSE f : Is(f)
    <2>1. GadgetHears(g, u) = q[m]
      BY DEF GadgetHears
    <2>2. Is(q)
      <3> HIDE DEF Is
      <3> QED
        BY <1>4
    <2> HIDE DEF q, Is
    <2> QED
      BY <2>1, <2>2
  <1>6. q[0] = Unread(g) /\ \A n \in 1 .. m : q[n] = GadgetHear(q[n - 1], u[n])
    <2> HIDE DEF m, S
    <2> QED
      BY <1>1, <1>5 DEF Unread
  <1>7. \A n \in 1 .. m : q[n] = HearsIn(received, q[n - 1], u[n])
    BY <1>6, GadgetHearsIn
  <1> DEFINE P == {n \in 0 .. m : Shaped(q[n])}
  <1>8. 0 .. m \subseteq P
    <2>1. 0 \in P
      <3>1. Shaped(Unread(g))
        BY Nothing DEF Shaped, Unread
      <3> HIDE DEF Is
      <3> QED
        BY <1>1, <1>6, <3>1
    <2>2. ASSUME NEW n \in 1 .. m, n - 1 \in P
          PROVE  n \in P
      <3> HIDE DEF Is, m, S
      <3>1. Shaped(q[n - 1]) /\ q[n] = HearsIn(received, q[n - 1], u[n])
        BY <1>7, <2>2
      <3>2. Shaped(q[n])
        BY <3>1, HearsShaped DEF HeardIn
      <3> QED
        BY <1>1, <3>2
    <2> HIDE DEF P, m
    <2> QED
      BY <1>1, <2>1, <2>2, InductionUpTo
  <1> HIDE DEF Is
  <1> QED
    BY <1>5, <1>6, <1>7, <1>8 DEF ReadsOn

(* Two readings of the same items are the same, each goes on from the      *)
(* last, and has read what has been written of the items it went through.  *)
LEMMA ReadingsGrow ==
  ASSUME NEW r, NEW g, NEW u, IsSeq(u), NEW h, ReadsOn(h, r, g, u), NEW w, WrittenBy(w, u)
  PROVE  /\ \A n \in 0 .. Len(u) : IsPrefix(h[n].log, h[Len(u)].log)
         /\ \A n \in 0 .. Len(u) : IsPrefix(h[n].taken, h[Len(u)].taken)
         /\ \A n \in 0 .. Len(u) : h[n].at = Len(w[n])
  <1> DEFINE m == Len(u)
             logs == [n \in 0 .. m |-> h[n].log]
             tks  == [n \in 0 .. m |-> h[n].taken]
  <1>1. m \in Nat /\ m \in 0 .. m /\ \A n \in 1 .. m : n \in 0 .. m /\ n - 1 \in 0 .. m
    BY SeqFacts
  <1>2. /\ h[0] = Unread(g) /\ \A n \in 1 .. m : h[n] = HearsIn(r, h[n - 1], u[n])
        /\ \A n \in 0 .. m : Shaped(h[n])
    BY DEF ReadsOn
  <1>3. /\ w[0] = <<>> /\ \A n \in 1 .. m : w[n] = Say(w[n - 1], u[n])
        /\ \A n \in 0 .. m : IsSeq(w[n])
    BY DEF WrittenBy
  <1> HIDE DEF m
  <1>4. \A n \in 0 .. m : IsSeq(h[n].log) /\ IsSeq(h[n].taken) /\ h[n].at \in Nat
    BY <1>2 DEF Shaped
  <1>5. ASSUME NEW n \in 1 .. m
        PROVE  /\ IsPrefix(h[n - 1].log, h[n].log) /\ IsPrefix(h[n - 1].taken, h[n].taken)
               /\ h[n - 1].at = Len(w[n - 1]) => h[n].at = Len(w[n])
    <2> DEFINE t == h[n - 1]
               v == h[n]
               x == u[n]
    <2>1. Shaped(t) /\ v = HearsIn(r, t, x) /\ IsSeq(t.log) /\ IsSeq(t.taken)
      BY <1>1, <1>2, <1>4
    <2>2. w[n] = Say(w[n - 1], x) /\ IsSeq(w[n - 1])
      BY <1>1, <1>3
    <2> HIDE DEF t, v, x
    <2>5. HeardIn(r, t, x, v)
      BY <2>1, HearsShaped
    <2>3. CASE IsChallenge(x)
      <3>1. v.log = Append(t.log, x) /\ v.at = t.at /\ v.taken = t.taken
        BY <2>3, <2>5 DEF HeardIn
      <3>2. w[n] = w[n - 1]
        BY <2>2, <2>3 DEF Say
      <3>3. IsPrefix(t.log, v.log) /\ IsPrefix(t.taken, v.taken)
        BY <2>1, <3>1, PrefixOfLonger
      <3> QED
        BY <3>1, <3>2, <3>3 DEF t, v
    <2>4. CASE ~ IsChallenge(x)
      <3> DEFINE e == GivenIn(r, t.at + 1)
      <3>1. v.log = Append(t.log, e) /\ v.at = t.at + 1 /\ v.taken = Append(t.taken, <<x, e>>)
        BY <2>4, <2>5 DEF HeardIn
      <3> HIDE DEF e
      <3>2. w[n] = Append(w[n - 1], x)
        BY <2>2, <2>4 DEF Say
      <3>3. IsPrefix(t.log, v.log) /\ IsPrefix(t.taken, v.taken)
        BY <2>1, <3>1, PrefixOfLonger
      <3>4. Len(w[n]) = Len(w[n - 1]) + 1
        BY <2>2, <3>2, Longer
      <3> QED
        BY <3>1, <3>3, <3>4 DEF t, v
    <2> QED
      BY <2>3, <2>4
  <1>6. \A n \in 0 .. m : logs[n] = h[n].log /\ tks[n] = h[n].taken
    OBVIOUS
  <1> HIDE DEF logs, tks
  <1>7. (\A n \in 0 .. m : IsSeq(logs[n])) /\ \A n \in 1 .. m : IsPrefix(logs[n - 1], logs[n])
    BY <1>1, <1>4, <1>5, <1>6
  <1>8. (\A n \in 0 .. m : IsSeq(tks[n])) /\ \A n \in 1 .. m : IsPrefix(tks[n - 1], tks[n])
    BY <1>1, <1>4, <1>5, <1>6
  <1>9. \A n \in 0 .. m : IsPrefix(logs[n], logs[m])
    BY <1>1, <1>7, GrowingLoop
  <1>10. \A n \in 0 .. m : IsPrefix(tks[n], tks[m])
    BY <1>1, <1>8, GrowingLoop
  <1> DEFINE P == {n \in 0 .. m : h[n].at = Len(w[n])}
  <1>11. 0 .. m \subseteq P
    <2>1. 0 \in P
      <3>1. h[0].at = 0
        BY <1>2 DEF Unread
      <3> QED
        BY <1>1, <1>3, <3>1, Nothing
    <2>2. ASSUME NEW n \in 1 .. m, n - 1 \in P
          PROVE  n \in P
      BY <1>1, <1>5, <2>2
    <2> HIDE DEF P
    <2> QED
      BY <1>1, <2>1, <2>2, InductionUpTo
  <1> QED
    BY <1>1, <1>6, <1>9, <1>10, <1>11 DEF m

(* The verifier reads as the gadget does, up to what is missing.           *)
ReadSoFar == [log |-> v_log, at |-> position, taken |-> taken]
SameReading(t, x) == x = [log |-> t.log, at |-> t.at, taken |-> t.taken]
Clean(u) == \A j \in 1 .. Len(received) : received[j] = <<"byte">> => j > Len(Written(u))
StopsIn(t, h, u)  == /\ t.at = Len(received)
                     /\ \E m \in 0 .. Len(u) - 1 : ~ IsChallenge(u[m + 1]) /\ SameReading(t, h[m])

LEMMA HearsAsGadget ==
  ASSUME Listening, NEW u, IsSeq(u), Clean(u), NEW g, NEW h, ReadsOn(h, received, g, u),
         NEW w, WrittenBy(w, u), NEW items, NEW t \in HeardType(items), ~ t.short,
         IsSeq(items), NEW n \in 0 .. Len(u) - 1, u[n + 1] \in ToSet(items), SameReading(t, h[n]),
         NEW v, v = Hear(t, u[n + 1])
  PROVE  /\ ~ v.short => SameReading(v, h[n + 1])
         /\ v.short => StopsIn(v, h, u)
  <1> DEFINE x == u[n + 1]
             y == h[n + 1]
             z == h[n]
  <1>1. Len(u) \in Nat /\ n + 1 \in 1 .. Len(u) /\ n \in 0 .. Len(u) /\ n + 1 \in 0 .. Len(u)
        /\ n + 1 - 1 = n
    BY SeqFacts
  <1>2. HearsAs(t, x, v)
    BY Hears
  <1>3. Shaped(z) /\ y = HearsIn(received, z, x)
    BY <1>1 DEF ReadsOn
  <1>4. HeardIn(received, z, x, y)
    BY <1>3, HearsShaped
  <1>5. z.log = t.log /\ z.at = t.at /\ z.taken = t.taken /\ t.at \in Nat
    <2>1. z = [log |-> t.log, at |-> t.at, taken |-> t.taken]
      BY DEF SameReading
    <2>2. t.at \in 0 .. Len(received) /\ Len(received) \in Nat
      BY SeqFacts DEF HeardType, Listening
    <2> HIDE DEF z
    <2> QED
      BY <2>1, <2>2
  <1>6. ~ IsChallenge(x) => t.at + 1 <= Len(Written(u)) /\ Len(Written(u)) \in Nat
    <2> SUFFICES ASSUME ~ IsChallenge(x)
                 PROVE  t.at + 1 <= Len(Written(u)) /\ Len(Written(u)) \in Nat
      OBVIOUS
    <2>1. z.at = Len(w[n])
      BY <1>1, ReadingsGrow
    <2> DEFINE a == w[n]
               b == w[n + 1]
               c == w[Len(u)]
    <2>2. /\ b = Say(a, x) /\ IsSeq(a) /\ IsSeq(b) /\ IsPrefix(b, c) /\ Written(u) = c
      BY <1>1 DEF WrittenBy
    <2>3. IsSeq(c) /\ Len(c) \in Nat
      BY SeqFacts, WrittenTyped DEF WrittenBy
    <2> HIDE DEF a, b, c, x, z
    <2>4. b = Append(a, x)
      BY <2>2 DEF Say
    <2>5. Len(b) = Len(a) + 1
      BY <2>2, <2>4, Longer
    <2>6. Len(b) <= Len(c)
      BY <2>2, <2>3, PrefixElements
    <2> QED
      BY <1>5, <2>1, <2>2, <2>3, <2>5, <2>6 DEF a
  <1>7. ~ IsChallenge(x) /\ t.at # Len(received) => GivenIn(received, t.at + 1) = received[t.at + 1]
    <2> SUFFICES ASSUME ~ IsChallenge(x), t.at # Len(received)
                 PROVE  GivenIn(received, t.at + 1) = received[t.at + 1]
      OBVIOUS
    <2> DEFINE j == t.at + 1
    <2>1. j \in 1 .. Len(received)
      BY <1>2, <1>5 DEF HearsAs
    <2>2. j <= Len(Written(u)) /\ Len(Written(u)) \in Nat
      BY <1>6
    <2>3. j <= Len(received) /\ ~ (j > Len(Written(u)))
      BY <2>1, <2>2, <1>5, SeqFacts DEF Listening
    <2> HIDE DEF j
    <2>4. received[j] # <<"byte">>
      BY <2>1, <2>3 DEF Clean
    <2> QED
      BY <2>3, <2>4 DEF GivenIn, j
  <1>8. y = [log |-> y.log, at |-> y.at, taken |-> y.taken]
    BY <1>4 DEF HeardIn, Shaped
  <1> HIDE DEF x, y, z
  <1>9. CASE IsChallenge(x)
    <2>1. v.log = Append(t.log, x) /\ v.at = t.at /\ v.taken = t.taken /\ v.short = FALSE
      BY <1>2, <1>9 DEF HearsAs
    <2>2. y.log = Append(t.log, x) /\ y.at = t.at /\ y.taken = t.taken
      BY <1>4, <1>5, <1>9 DEF HeardIn
    <2>3. SameReading(v, y)
      BY <1>8, <2>1, <2>2 DEF SameReading
    <2> QED
      BY <2>1, <2>3 DEF y
  <1>10. CASE ~ IsChallenge(x) /\ t.at = Len(received)
    <2>1. v.log = t.log /\ v.at = t.at /\ v.taken = t.taken /\ v.short = TRUE
      BY <1>2, <1>10 DEF HearsAs
    <2>2. SameReading(v, h[n])
      BY <2>1 DEF SameReading
    <2>3. StopsIn(v, h, u)
      BY <1>10, <2>1, <2>2 DEF StopsIn, x
    <2> QED
      BY <2>1, <2>3
  <1>11. CASE ~ IsChallenge(x) /\ t.at # Len(received)
    <2> DEFINE e == received[t.at + 1]
    <2>1. v.log = Append(t.log, e) /\ v.at = t.at + 1
          /\ v.taken = Append(t.taken, <<x, e>>) /\ v.short = FALSE
      BY <1>2, <1>11 DEF HearsAs
    <2>2. y.log = Append(t.log, e) /\ y.at = t.at + 1 /\ y.taken = Append(t.taken, <<x, e>>)
      BY <1>4, <1>5, <1>7, <1>11 DEF HeardIn
    <2> HIDE DEF e
    <2>3. SameReading(v, y)
      BY <1>8, <2>1, <2>2 DEF SameReading
    <2> QED
      BY <2>1, <2>3 DEF y
  <1> QED
    BY <1>9, <1>10, <1>11

LEMMA HeardAsGadget ==
  ASSUME Listening, NEW u, IsSeq(u), Clean(u), NEW g, NEW h, ReadsOn(h, received, g, u),
         NEW items, IsSeq(items), NEW l \in Nat, l + Len(items) <= Len(u),
         \A i \in 1 .. Len(items) : u[l + i] = items[i], h[l] = ReadSoFar,
         NEW t, t = Heard(items)
  PROVE  /\ ~ t.short => SameReading(t, h[l + Len(items)])
         /\ t.short => StopsIn(t, h, u)
  <1>1. PICK w : WrittenBy(w, u)
    BY WrittenGrows
  <1>2. PICK f : HeardBy(f, items)
    BY HeardGrows
  <1> DEFINE k == Len(items)
             P == {i \in 0 .. k : /\ ~ f[i].short => SameReading(f[i], h[l + i])
                                  /\ f[i].short => StopsIn(f[i], h, u)}
  <1>3. /\ k \in Nat /\ Len(u) \in Nat
        /\ \A i \in 1 .. k : i - 1 \in 0 .. k /\ l + (i - 1) \in 0 .. Len(u) - 1
                             /\ l + (i - 1) + 1 = l + i
    BY SeqFacts
  <1>4. /\ f[0] = Unheard /\ \A n \in 1 .. k : f[n] = Hear(f[n - 1], items[n])
        /\ \A n \in 0 .. k : f[n] \in HeardType(items)
        /\ t = f[k]
    BY <1>2 DEF HeardBy
  <1>5. 0 \in P
    <2>1. SameReading(Unheard, h[l]) /\ ~ Unheard.short
      BY DEF SameReading, ReadSoFar, Unheard
    <2>2. l + 0 = l /\ 0 \in 0 .. k
      BY <1>3
    <2> HIDE DEF k
    <2> QED
      BY <1>4, <2>1, <2>2
  <1>6. ASSUME NEW i \in 1 .. k, i - 1 \in P
        PROVE  i \in P
    <2> DEFINE a == f[i - 1]
               v == f[i]
               n == l + (i - 1)
               x == items[i]
    <2>1. a \in HeardType(items) /\ v = Hear(a, x)
      BY <1>3, <1>4
    <2>2. x \in ToSet(items) /\ x = u[n + 1] /\ n \in 0 .. Len(u) - 1 /\ n + 1 = l + i
      BY <1>3, SeqFacts
    <2>3. /\ ~ a.short => SameReading(a, h[n])
          /\ a.short => StopsIn(a, h, u)
      BY <1>6
    <2> HIDE DEF a, v, n, x
    <2>4. CASE a.short
      <3>1. HearsAs(a, x, v)
        BY <2>1, <2>2, Hears
      <3>2. v = a
        BY <3>1, <2>4 DEF HearsAs
      <3> QED
        BY <2>3, <2>4, <3>2 DEF v
    <2>5. CASE ~ a.short
      <3>1. /\ ~ v.short => SameReading(v, h[n + 1])
            /\ v.short => StopsIn(v, h, u)
        BY <1>1, <2>1, <2>2, <2>3, <2>5, HearsAsGadget
      <3> QED
        BY <2>2, <3>1 DEF v
    <2> QED
      BY <2>4, <2>5
  <1>7. 0 .. k \subseteq P
    <2> HIDE DEF P, k
    <2> QED
      BY <1>3, <1>5, <1>6, InductionUpTo
  <1>8. k \in 0 .. k
    BY <1>3
  <1> HIDE DEF k
  <1> QED
    BY <1>4, <1>7, <1>8 DEF k

(* No item of a script is a stray byte.                                    *)
Clear(s) == IsSeq(s) /\ \A i \in 1 .. Len(s) : s[i] # <<"byte">>

LEMMA ClearJoined ==
  ASSUME NEW s, NEW t, Clear(s), Clear(t)
  PROVE  Clear(s \o t)
  <1>1. IsSeq(s) /\ IsSeq(t)
    BY DEF Clear
  <1>2. /\ IsSeq(s \o t) /\ Len(s \o t) = Len(s) + Len(t) /\ Len(s) \in Nat /\ Len(t) \in Nat
        /\ (\A i \in 1 .. Len(s) : (s \o t)[i] = s[i])
        /\ \A i \in Len(s) + 1 .. Len(s) + Len(t) : (s \o t)[i] = t[i - Len(s)]
    BY <1>1, Joined
  <1>3. ASSUME NEW i \in 1 .. Len(s \o t)
        PROVE  (s \o t)[i] # <<"byte">>
    <2>1. CASE i \in 1 .. Len(s)
      BY <1>2, <2>1 DEF Clear
    <2>2. CASE i \notin 1 .. Len(s)
      <3>1. i \in Len(s) + 1 .. Len(s) + Len(t) /\ i - Len(s) \in 1 .. Len(t)
        BY <1>2, <2>2
      <3> QED
        BY <1>2, <3>1 DEF Clear
    <2> QED
      BY <2>1, <2>2
  <1> QED
    BY <1>2, <1>3 DEF Clear

LEMMA ClearMade ==
  ASSUME NEW n \in Nat, NEW s, s = [i \in 1 .. n |-> s[i]], \A i \in 1 .. n : s[i] # <<"byte">>
  PROVE  Clear(s)
  BY SeqMade DEF Clear

LEMMA ClearOver ==
  ASSUME NEW s, IsSeq(s), NEW u, u = [i \in DOMAIN s |-> u[i]],
         \A i \in DOMAIN s : u[i] # <<"byte">>
  PROVE  Clear(u)
  <1>1. DOMAIN s = 1 .. Len(s) /\ Len(s) \in Nat
    BY SeqFacts
  <1> QED
    BY <1>1, ClearMade

LEMMA ClearFlattened ==
  ASSUME NEW n \in Nat, NEW ss, ss = [i \in 1 .. n |-> ss[i]], \A i \in 1 .. n : Clear(ss[i])
  PROVE  Clear(FlattenSeq(ss))
  <1> DEFINE S == (UNION {ToSet(ss[i]) : i \in 1 .. n}) \ {<<"byte">>}
             f == FlattenSeq(ss)
  <1>1. IsSeq(ss) /\ Len(ss) = n
    BY SeqMade
  <1>2. ASSUME NEW i \in 1 .. n
        PROVE  IsSeq(ss[i]) /\ ToSet(ss[i]) \subseteq S
    <2> DEFINE v == ss[i]
    <2>1. IsSeq(v) /\ \A j \in 1 .. Len(v) : v[j] # <<"byte">>
      BY DEF Clear
    <2> HIDE DEF v
    <2>2. DOMAIN v = 1 .. Len(v)
      BY <2>1, SeqFacts
    <2>3. <<"byte">> \notin ToSet(v)
      BY <2>1, <2>2 DEF ToSet
    <2> QED
      BY <2>1, <2>3 DEF v
  <1>3. ToSet(f) \subseteq S
    <2> HIDE DEF S
    <2> QED
      BY <1>1, <1>2, FlattenedFrom
  <1>4. IsSeq(f)
    BY <1>1, <1>2, Flattened
  <1> HIDE DEF f
  <1>5. \A i \in 1 .. Len(f) : f[i] \in ToSet(f)
    BY <1>4, SeqFacts
  <1> QED
    BY <1>3, <1>4, <1>5 DEF Clear, f

LEMMA ItemsAreNotBytes ==
  /\ \A x, y : <<x, y>> # <<"byte">>
  /\ \A x, y, z : <<x, y, z>> # <<"byte">>
  /\ \A x, i : Label(x, i) # <<"byte">>
  /\ \A x, y : Eval(x, y) # <<"byte">>
  <1>1. \A x, y : Len(<<x, y>>) = 2
    BY TwoElements
  <1>2. Len(<<"byte">>) = 1
    BY OneElement
  <1>3. \A x, y : <<x, y>> # <<"byte">>
    BY <1>1, <1>2
  <1>4. \A x, y, z : <<x, y, z>> # <<"byte">>
    <2> SUFFICES ASSUME NEW x, NEW y, NEW z, <<x, y, z>> = <<"byte">>
                 PROVE  FALSE
      OBVIOUS
    <2>1. DOMAIN <<x, y, z>> = 1 .. 3
      OBVIOUS
    <2>2. DOMAIN <<"byte">> = 1 .. 1
      OBVIOUS
    <2>3. 2 \in 1 .. 3 /\ 2 \notin 1 .. 1
      OBVIOUS
    <2> QED
      BY <2>1, <2>2, <2>3
  <1> QED
    BY <1>3, <1>4 DEF Label, Eval

LEMMA ClearLabels ==
  ASSUME NEW kind, NEW n \in Nat
  PROVE  Clear(Labels(kind, n))
  <1> DEFINE u == Labels(kind, n)
  <1>1. u = [i \in 1 .. n |-> u[i]] /\ \A i \in 1 .. n : u[i] # <<"byte">>
    BY ItemsAreNotBytes DEF Labels
  <1> HIDE DEF u
  <1> QED
    BY <1>1, ClearMade DEF u

LEMMA ClearChallenges ==
  ASSUME NEW names, IsSeq(names)
  PROVE  Clear(Challenges(names))
  <1>1. IsSeq(Challenges(names)) /\ Len(Challenges(names)) = Len(names)
        /\ \A i \in 1 .. Len(names) : Challenges(names)[i] = <<"challenge", names[i]>>
    BY ChallengesTyped
  <1> QED
    BY <1>1, ItemsAreNotBytes DEF Clear

LEMMA ClearNames ==
  ASSUME NEW x, NEW y, NEW z
  PROVE  Clear(Challenges(<<x>>)) /\ Clear(Challenges(<<x, y>>)) /\ Clear(Challenges(<<x, y, z>>))
  <1>1. IsSeq(<<x>>) /\ IsSeq(<<x, y>>)
    BY OneElement, TwoElements
  <1>2. <<x, y, z>> \in Seq({x, y, z})
    OBVIOUS
  <1>3. IsSeq(<<x, y, z>>)
    BY <1>2, SeqInSet
  <1> QED
    BY <1>1, <1>3, ClearChallenges

LEMMA ClearEvals ==
  ASSUME NEW qs, IsSeq(qs), NEW kind
  PROVE  Clear(EvalsOf(kind, qs)) /\ Clear(ToEvals(qs))
  <1> DEFINE u == EvalsOf(kind, qs)
             w == ToEvals(qs)
  <1>1. u = [i \in DOMAIN qs |-> u[i]] /\ \A i \in DOMAIN qs : u[i] # <<"byte">>
    BY ItemsAreNotBytes DEF EvalsOf
  <1>2. w = [i \in DOMAIN qs |-> w[i]] /\ \A i \in DOMAIN qs : w[i] # <<"byte">>
    BY ItemsAreNotBytes DEF ToEvals, ToEval
  <1> HIDE DEF u, w
  <1>3. Clear(u) /\ Clear(w)
    BY <1>1, <1>2, ClearOver
  <1> QED
    BY <1>3 DEF u, w

LEMMA ClearOne ==
  ASSUME NEW x, x # <<"byte">>
  PROVE  Clear(<<x>>)
  <1>1. IsSeq(<<x>>) /\ Len(<<x>>) = 1 /\ <<x>>[1] = x
    BY OneElement
  <1> QED
    BY <1>1 DEF Clear

LEMMA ClearOpening ==
  ASSUME NEW qs, IsSeq(qs)
  PROVE  Clear(Opening(qs))
  <1> DEFINE v == QEvals(qs)
  <1>1. Clear(v)
    <2>1. v = [i \in DOMAIN SortedSets(qs) |-> v[i]]
          /\ \A i \in DOMAIN SortedSets(qs) : v[i] # <<"byte">>
      BY ItemsAreNotBytes DEF QEvals
    <2>2. IsSeq(SortedSets(qs))
      BY OpeningLists
    <2> HIDE DEF v
    <2> QED
      BY <2>1, <2>2, ClearOver
  <1>2. Clear(<<<<"f_com">>>>) /\ Clear(<<<<"pi">>>>)
    <2>1. <<"f_com">> # <<"byte">> /\ <<"pi">> # <<"byte">>
      OBVIOUS
    <2> QED
      BY <2>1, ClearOne
  <1>3. Clear(Challenges(<<"x1", "x2">>)) /\ Clear(Challenges(<<"x3">>)) /\ Clear(Challenges(<<"x4">>))
    BY ClearNames
  <1> DEFINE a == Challenges(<<"x1", "x2">>)
             b == <<<<"f_com">>>>
             c == Challenges(<<"x3">>)
             d == Challenges(<<"x4">>)
             e == <<<<"pi">>>>
  <1>4. Opening(qs) = a \o b \o c \o v \o d \o e
    BY DEF Opening
  <1> HIDE DEF a, b, c, d, e, v
  <1> QED
    BY <1>1, <1>2, <1>3, <1>4, ClearJoined DEF a, b, c, d, e

LEMMA ClearCommitments ==
  ASSUME NEW c, IsKey(c)
  PROVE  Clear(LogupCommitmentsIn(c))
  <1> DEFINE m == Len(c.lookups)
             s == [l \in 1 .. m |-> LogupCommitmentsOf(c, l)]
  <1>1. m \in Nat /\ \A l \in 1 .. m : NumChunks(c, c.lookups[l]) \in Nat
    BY KeyFields, SeqFacts
  <1> HIDE DEF m
  <1>2. ASSUME NEW l \in 1 .. m
        PROVE  Clear(LogupCommitmentsOf(c, l))
    <2> DEFINE n == NumChunks(c, c.lookups[l])
               a == [j \in 1 .. n |-> <<"LogupHelper", l - 1, j - 1>>]
               b == <<Label("LogupAggregator", l)>>
    <2>1. n \in Nat
      BY <1>1
    <2>2. LogupCommitmentsOf(c, l) = a \o b
      BY DEF LogupCommitmentsOf
    <2> HIDE DEF n
    <2>3. a = [j \in 1 .. n |-> a[j]] /\ \A j \in 1 .. n : a[j] # <<"byte">>
      BY ItemsAreNotBytes
    <2>4. Clear(b)
      BY ItemsAreNotBytes, ClearOne
    <2> HIDE DEF a, b
    <2>5. Clear(a)
      BY <2>1, <2>3, ClearMade
    <2> QED
      BY <2>2, <2>4, <2>5, ClearJoined
  <1>3. LogupCommitmentsIn(c) = FlattenSeq(s)
    BY DEF LogupCommitmentsIn, m
  <1>4. s = [l \in 1 .. m |-> s[l]] /\ \A l \in 1 .. m : Clear(s[l])
    BY <1>2
  <1> HIDE DEF s
  <1> QED
    BY <1>1, <1>3, <1>4, ClearFlattened

LEMMA ClearAccumulators ==
  ASSUME NEW c, NEW n \in Nat
  PROVE  Clear(FlattenSeq([i \in 1 .. n |-> AccumulatorEvals(c, n, i)]))
  <1> DEFINE u == [i \in 1 .. n |-> AccumulatorEvals(c, n, i)]
  <1>1. ASSUME NEW i \in 1 .. n
        PROVE  Clear(AccumulatorEvals(c, n, i))
    <2> DEFINE acc == Label("PermutationAccumulator", i)
               p == Eval(acc, 0)
               q == Eval(acc, 1)
               a == <<p, q>>
               b == IF i < n THEN <<Eval(acc, LastIn(c))>> ELSE <<>>
    <2>1. AccumulatorEvals(c, n, i) = a \o b
      BY DEF AccumulatorEvals
    <2>2. p # <<"byte">> /\ q # <<"byte">>
      BY ItemsAreNotBytes
    <2>3. Clear(b)
      <3>1. Clear(<<Eval(acc, LastIn(c))>>)
        BY ItemsAreNotBytes, ClearOne
      <3>2. Clear(<<>>)
        BY Nothing DEF Clear
      <3> QED
        BY <3>1, <3>2
    <2> HIDE DEF p, q, b
    <2>4. Clear(a)
      <3>1. IsSeq(a) /\ Len(a) = 2 /\ a[1] = p /\ a[2] = q
        BY TwoElements
      <3>2. \A k \in 1 .. 2 : k = 1 \/ k = 2
        OBVIOUS
      <3> HIDE DEF a
      <3> QED
        BY <2>2, <3>1, <3>2 DEF Clear
    <2> HIDE DEF a
    <2> QED
      BY <2>1, <2>3, <2>4, ClearJoined
  <1>2. u = [i \in 1 .. n |-> u[i]] /\ \A i \in 1 .. n : Clear(u[i])
    BY <1>1
  <1> HIDE DEF u
  <1>3. Clear(FlattenSeq(u))
    BY <1>2, ClearFlattened
  <1> QED
    BY <1>3 DEF u

LEMMA ClearEvalsPart ==
  ASSUME NEW c, IsKey(c), NEW k
  PROVE  Clear(EvalsPart(c, k))
  <1> DEFINE p == EvalsOf("CommittedInstance", CommittedIn(c, k))
             q == EvalsOf("Advice", c.queries["advice"])
             r == EvalsOf("Fixed", OpenedIn(c))
             s == [i \in DOMAIN c.permutation |-> Eval(Label("PermutationFixed", i), 0)]
             t == FlattenSeq([i \in 1 .. AccumulatorsIn(c) |->
                                  AccumulatorEvals(c, AccumulatorsIn(c), i)])
             u == ToEvals(LookupQueriesIn(c))
             v == [i \in DOMAIN c.trashcans |-> Eval(Label("Trash", i), 0)]
  <1>1. EvalsPart(c, k) = p \o q \o r \o s \o t \o u \o v
    BY DEF EvalsPart
  <1>2. Clear(p) /\ Clear(q) /\ Clear(r)
    BY CommittedTyped, ClearEvals
  <1>3. Clear(t)
    BY KeyFields, ClearAccumulators
  <1>4. Clear(u)
    BY LookupsOfKey, ClearEvals
  <1>5. /\ s = [i \in DOMAIN c.permutation |-> s[i]] /\ v = [i \in DOMAIN c.trashcans |-> v[i]]
        /\ \A i \in DOMAIN c.permutation : s[i] # <<"byte">>
        /\ \A i \in DOMAIN c.trashcans : v[i] # <<"byte">>
    BY ItemsAreNotBytes
  <1>6. IsSeq(c.trashcans) /\ IsSeq(c.permutation)
    BY KeyFields
  <1> HIDE DEF p, q, r, s, t, u, v
  <1>7. Clear(s) /\ Clear(v)
    BY <1>5, <1>6, ClearOver
  <1> QED
    BY <1>1, <1>2, <1>3, <1>4, <1>7, ClearJoined

LEMMA ClearScript ==
  ASSUME NEW c, IsKey(c), NEW k, NEW fs, NEW d \in Nat, NEW sc, sc = ScriptOf(c, fs, k, d)
  PROVE  Clear(Spoken(sc, 6))
  <1>1. Clear(AdvicePart)
    <2>1. NumAdvice \in Nat
      BY ConfigurationAssumption
    <2> QED
      BY <2>1, ClearLabels, ClearNames, ClearJoined DEF AdvicePart
  <1>2. Clear(MultiplicityPart(c))
    <2>1. Len(c.lookups) \in Nat
      BY KeyFields, SeqFacts
    <2> QED
      BY <2>1, ClearLabels, ClearNames, ClearJoined DEF MultiplicityPart
  <1>3. Clear(ArgumentPart(c))
    <2>1. AccumulatorsIn(c) \in Nat /\ Len(c.trashcans) \in Nat
      BY KeyFields, SeqFacts
    <2> DEFINE a == Labels("PermutationAccumulator", AccumulatorsIn(c))
               b == LogupCommitmentsIn(c)
               e == Labels("Trash", Len(c.trashcans))
               f == Challenges(<<"y">>)
    <2>2. Clear(a) /\ Clear(b) /\ Clear(e) /\ Clear(f)
      BY <2>1, ClearLabels, ClearNames, ClearCommitments
    <2>3. ArgumentPart(c) = a \o b \o e \o f
      BY DEF ArgumentPart
    <2> HIDE DEF a, b, e, f
    <2> QED
      BY <2>2, <2>3, ClearJoined
  <1>4. Clear(QuotientPart(fs, d))
    <2>1. (IF "single-h-commitment" \in fs THEN 1 ELSE d) \in Nat
      OBVIOUS
    <2> QED
      BY <2>1, ClearLabels, ClearNames, ClearJoined DEF QuotientPart
  <1>5. Clear(EvalsPart(c, k))
    BY ClearEvalsPart
  <1>6. Clear(OpeningPart(c, fs, k))
    BY AllQueriesTyped, ClearEvals, ClearOpening, ClearJoined DEF OpeningPart
  <1>7. Clear(sc[1]) /\ Clear(sc[2]) /\ Clear(sc[3]) /\ Clear(sc[4]) /\ Clear(sc[5]) /\ Clear(sc[6])
    BY <1>1, <1>2, <1>3, <1>4, <1>5, <1>6, ScriptParts
  <1>8. Spoken(sc, 6) = sc[1] \o sc[2] \o sc[3] \o sc[4] \o sc[5] \o sc[6]
    BY DEF Spoken
  <1> QED
    BY <1>7, <1>8, ClearJoined

(* A proof is followed by a byte only past what its script writes.         *)
LEMMA ReceivedClean ==
  ASSUME KeyInv, ProverInv, VerifierInv, v_pc # "waiting"
  PROVE  Clean(Spoken(ClaimScript, 6))
  <1>1. p_pc = "done" /\ (received = proof \/ Damaged)
    BY DEF VerifierInv
  <1>2. Keyed /\ proof = Written(Spoken(Script, 6))
    BY <1>1, ProofIsSaid
  <1> DEFINE v == Spoken(Script, 6)
  <1>3. Clear(v)
    <2>1. IsKey(cs) /\ quotient_degree \in Nat
      BY <1>2 DEF Keyed
    <2> QED
      BY <2>1, ClearScript DEF Script
  <1>4. IsSeq(v) /\ \A i \in 1 .. Len(v) : v[i] # <<"byte">>
    BY <1>3 DEF Clear
  <1>5. <<"byte">> \notin ToSet(v)
    <2>1. DOMAIN v = 1 .. Len(v)
      BY <1>4, SeqFacts
    <2> HIDE DEF v
    <2> QED
      BY <1>4, <2>1 DEF ToSet
  <1>6. proof \in Seq(ToSet(v)) /\ IsSeq(proof)
    BY <1>2, <1>4, WrittenTyped
  <1> DEFINE k == Len(proof)
  <1>7. k \in Nat /\ \A j \in 1 .. k : proof[j] # <<"byte">>
    <2> HIDE DEF v
    <2> QED
      BY <1>5, <1>6
  <1> HIDE DEF v, k
  <1>8. CASE received = proof
    BY <1>7, <1>8 DEF Clean, k
  <1>9. CASE Damaged
    <2>1. Written(Spoken(ClaimScript, 6)) = proof
      BY <1>2, <1>9, SameClaimSameScript DEF Damaged, v
    <2>2. CASE received = Front(proof)
      <3>1. CASE k = 0
        <4>1. received = <<>> /\ Len(received) = 0
          BY <1>6, <2>2, <3>1, Shortened, Nothing DEF k
        <4> QED
          BY <4>1 DEF Clean
      <3>2. CASE k # 0
        <4>1. k - 1 \in Nat /\ k > 0
          BY <1>7, <3>2
        <4>2. Len(received) = k - 1
          BY <1>6, <2>2, <4>1, Shortened DEF k
        <4>3. \A j \in 1 .. k - 1 : received[j] = proof[j]
          BY SMTT(30), <1>6, <2>2, <4>1 DEF Front, k
        <4>4. \A j \in 1 .. k - 1 : received[j] # <<"byte">>
          BY <1>7, <4>1, <4>3
        <4> QED
          BY <4>2, <4>4 DEF Clean
      <3> QED
        BY <3>1, <3>2
    <2>3. CASE received = Append(proof, <<"byte">>)
      <3>1. Len(received) = k + 1 /\ \A j \in 1 .. k : received[j] = proof[j]
        BY <1>6, <2>3, Longer DEF k
      <3>2. \A j \in 1 .. Len(received) : received[j] = <<"byte">> => j > k
        BY <1>7, <3>1
      <3> QED
        BY <2>1, <3>2 DEF Clean, k
    <2> QED
      BY <1>9, <2>2, <2>3 DEF Damaged
  <1> QED
    BY <1>1, <1>8, <1>9

(* What the verifier in a circuit is given of a claim.                     *)
ClaimSpoken  == Spoken(ClaimScript, 6)
ClaimKeyed   == <<<<"vk">>>> \o ClaimItems(claim)
ClaimQueries == AllQueriesIn(cs, features, Len(claim.commitments))
OpensOnce    == ColumnCount(claim) = NumInstance /\ ~ DuplicatedQuery(ClaimQueries)
Reading      == v_pc \notin {"waiting", "instances"}

(* The verifier stands where the gadget passes, before an item of the      *)
(* script that is missing if it has rejected the proof at its end.         *)
StandsIn(h, m) ==
    /\ h[m] = ReadSoFar
    /\ Hearing => m = Len(Spoken(ClaimScript, Stage(v_pc)))
    /\ v_pc = "rejected" /\ position = Len(received)
           => m < Len(ClaimSpoken) /\ ~ IsChallenge(ClaimSpoken[m + 1])
PassesIn(h) == \E m \in 0 .. Len(ClaimSpoken) : StandsIn(h, m)
ReadsAsGadget ==
    Reading /\ OpensOnce => \A h : ReadsOn(h, received, ClaimKeyed, ClaimSpoken) => PassesIn(h)
AsksOfClaim == v_queries # <<>> => Reading /\ v_queries = ClaimQueries
MirrorInv   == ReadsAsGadget /\ AsksOfClaim

LEMMA ClaimStays ==
  ASSUME UNCHANGED <<csVars, features, claim, received>>
  PROVE  /\ ClaimScript' = ClaimScript /\ ClaimSpoken' = ClaimSpoken /\ ClaimKeyed' = ClaimKeyed
         /\ ClaimQueries' = ClaimQueries /\ (OpensOnce' <=> OpensOnce)
         /\ received' = received /\ ColumnCount(claim)' = ColumnCount(claim)
  <1>1. cs' = cs /\ quotient_degree' = quotient_degree /\ features' = features /\ claim' = claim
        /\ received' = received
    BY DEF csVars
  <1>2. ClaimScript' = ClaimScript
    BY <1>1 DEF ClaimScript
  <1>3. ClaimQueries' = ClaimQueries
    BY <1>1 DEF ClaimQueries
  <1>4. ClaimKeyed' = ClaimKeyed /\ ColumnCount(claim)' = ColumnCount(claim)
    BY <1>1 DEF ClaimKeyed, ClaimItems, ColumnCount
  <1>5. ClaimSpoken' = ClaimSpoken
    BY <1>2 DEF ClaimSpoken
  <1>6. DuplicatedQuery(ClaimQueries)' <=> DuplicatedQuery(ClaimQueries)
    BY <1>3 DEF DuplicatedQuery
  <1> QED
    BY <1>1, <1>2, <1>3, <1>4, <1>5, <1>6 DEF OpensOnce

(* The gadget absorbs what the verifier absorbs first.                     *)
LEMMA KeyedAsAbsorbed ==
  ASSUME IsClaim(claim)
  PROVE  GadgetAbsorbs = ClaimKeyed /\ IsSeq(ClaimKeyed)
  <1> DEFINE a == <<<<"vk">>>>
             b == claim.commitments
             ss == [i \in DOMAIN claim.instances |-> AbsorbColumn(claim.instances[i])]
             f == FlattenSeq(ss)
  <1>1. GadgetAbsorbs = a \o b \o f /\ ClaimKeyed = a \o (b \o f)
    BY DEF GadgetAbsorbs, ClaimKeyed, ClaimItems
  <1>2. IsSeq(a) /\ IsSeq(b)
    BY OneElement DEF IsClaim
  <1>3. IsSeq(f)
    <2>1. IsSeq(claim.instances) /\ DOMAIN claim.instances = 1 .. Len(claim.instances)
          /\ Len(claim.instances) \in Nat
      BY ClaimFields, SeqFacts
    <2>2. \A i \in 1 .. Len(claim.instances) : claim.instances[i] \in Seq(Nat)
      BY ClaimFields
    <2>3. ss = [i \in 1 .. Len(claim.instances) |-> ss[i]]
          /\ \A i \in 1 .. Len(claim.instances) : IsSeq(ss[i])
      BY <2>1, <2>2, ColumnAbsorbed
    <2> HIDE DEF ss
    <2> QED
      BY <2>1, <2>3, FlattenedOver
  <1> HIDE DEF a, b, f
  <1>4. (a \o b) \o f = a \o (b \o f)
    BY SMTT(30), <1>2, <1>3, JoinedThen
  <1>5. IsSeq(a \o (b \o f))
    <2>1. IsSeq(b \o f)
      BY <1>2, <1>3, JoinedTyped
    <2> QED
      BY <1>2, <2>1, JoinedTyped
  <1> QED
    BY <1>1, <1>4, <1>5

LEMMA SpokenNext ==
  ASSUME NEW sc, IsScript(sc), NEW n \in 0 .. 5
  PROVE  /\ Spoken(sc, n + 1) = Spoken(sc, n) \o sc[n + 1] /\ IsSeq(sc[n + 1])
         /\ IsSeq(Spoken(sc, n)) /\ IsSeq(Spoken(sc, n + 1)) /\ IsSeq(Spoken(sc, 6))
         /\ IsPrefix(Spoken(sc, n + 1), Spoken(sc, 6))
  <1>1. n + 1 \in 1 .. 6 /\ (n + 1) - 1 = n /\ n \in 0 .. 6 /\ n + 1 \in 0 .. 6 /\ 6 \in 0 .. 6
    OBVIOUS
  <1>2. SpokenBy(sc) /\ IsSeq(sc[n + 1])
    BY <1>1, SpokenParts DEF IsScript
  <1>3. Spoken(sc, n + 1) = Spoken(sc, n) \o sc[n + 1]
    BY <1>1, <1>2 DEF SpokenBy
  <1>4. \A k \in 0 .. 6 : IsSeq(Spoken(sc, k))
    BY <1>2 DEF SpokenBy
  <1>5. IsPrefix(Spoken(sc, n + 1), Spoken(sc, 6))
    BY <1>1, SpokenGrows
  <1> QED
    BY <1>1, <1>2, <1>3, <1>4, <1>5

LEMMA ReadingMirrors ==
  ASSUME KeyInv, ProverInv, VerifierInv, ReadsAsGadget, v_pc \in Stages,
         NEW n \in 0 .. 5, n = Stage(v_pc), NEW next \in Stages \cup {"prepared"},
         Stage(next) = n + 1, Read(ClaimScript[n + 1], next)
  PROVE  ReadsAsGadget'
  <1>1. v_pc # "waiting" /\ Hearing /\ Reading
    BY DEF Stages, Hearing, Reading
  <1>2. Deaf /\ v_pc' \in {next, "rejected"}
    BY DEF Read
  <1>3. UNCHANGED <<csVars, features, claim, received>>
    BY <1>2, DeafStays
  <1>4. /\ ClaimScript' = ClaimScript /\ ClaimSpoken' = ClaimSpoken /\ ClaimKeyed' = ClaimKeyed
        /\ (OpensOnce' <=> OpensOnce) /\ received' = received
    BY <1>3, ClaimStays
  <1> SUFFICES ASSUME OpensOnce, NEW h, ReadsOn(h, received, ClaimKeyed, ClaimSpoken)
               PROVE  PassesIn(h)'
    BY <1>4 DEF ReadsAsGadget
  <1>5. PICK l \in 0 .. Len(ClaimSpoken) : StandsIn(h, l)
    BY <1>1 DEF ReadsAsGadget, PassesIn
  <1> DEFINE sc == ClaimScript
             items == ClaimScript[n + 1]
             u == ClaimSpoken
             v == Spoken(sc, n)
             w == Spoken(sc, n + 1)
             t == Heard(items)
  <1>6. p_pc = "done" /\ Listening
    BY <1>1 DEF VerifierInv
  <1>7. IsScript(sc)
    <2>1. Keyed
      BY <1>6, ProofIsSaid
    <2> QED
      BY <2>1 DEF Keyed, ClaimScript
  <1>8. /\ w = v \o items /\ IsSeq(v) /\ IsSeq(w) /\ IsSeq(u) /\ IsSeq(items)
        /\ IsPrefix(w, u)
    <2>1. /\ Spoken(sc, n + 1) = Spoken(sc, n) \o sc[n + 1] /\ IsSeq(sc[n + 1])
          /\ IsSeq(Spoken(sc, n)) /\ IsSeq(Spoken(sc, n + 1)) /\ IsSeq(Spoken(sc, 6))
          /\ IsPrefix(Spoken(sc, n + 1), Spoken(sc, 6))
      BY <1>7, SpokenNext
    <2> QED
      BY <2>1 DEF ClaimSpoken
  <1>9. /\ l = Len(v) /\ h[l] = ReadSoFar
    BY <1>1, <1>5 DEF StandsIn
  <1>10. Clean(u)
    BY <1>1, ReceivedClean DEF ClaimSpoken
  <1> HIDE DEF sc, items, u, v, w
  <1>11. /\ l \in Nat /\ Len(items) \in Nat /\ Len(w) = l + Len(items) /\ Len(u) \in Nat
         /\ \A i \in 1 .. Len(items) : w[l + i] = items[i]
    <2>1. l \in Nat /\ Len(items) \in Nat /\ Len(u) \in Nat
      BY <1>8, <1>9, SeqFacts
    <2>2. Len(v \o items) = Len(v) + Len(items)
      BY <1>8, Joined
    <2>3. \A i \in 1 .. Len(items) : (v \o items)[Len(v) + i] = items[i]
      BY <1>8, SecondElements
    <2> QED
      BY <1>8, <1>9, <2>1, <2>2, <2>3
  <1>12. Len(w) <= Len(u) /\ \A i \in 1 .. Len(w) : w[i] = u[i]
    <2>1. IsSeq(w) /\ IsSeq(u) /\ IsPrefix(w, u)
      BY <1>8
    <2> QED
      BY <2>1, PrefixElements
  <1>13. l + Len(items) <= Len(u) /\ \A i \in 1 .. Len(items) : u[l + i] = items[i]
    BY <1>11, <1>12
  <1>14. ReadsOn(h, received, ClaimKeyed, u)
    BY DEF u
  <1>15. /\ ~ t.short => SameReading(t, h[l + Len(items)])
         /\ t.short => StopsIn(t, h, u)
    BY <1>6, <1>8, <1>9, <1>10, <1>11, <1>13, <1>14, HeardAsGadget
  <1>16. v_log' = t.log /\ position' = t.at /\ taken' = t.taken
         /\ v_pc' = IF t.short THEN "rejected" ELSE next
    BY DEF Read, items
  <1> HIDE DEF t
  <1>17. ReadSoFar' = [log |-> t.log, at |-> t.at, taken |-> t.taken]
    BY <1>16 DEF ReadSoFar
  <1>18. CASE ~ t.short
    <2>1. v_pc' = next /\ Stage(v_pc)' = n + 1 /\ next # "rejected"
      BY <1>16, <1>18 DEF Stages
    <2>2. PICK m : m = Len(w)
      OBVIOUS
    <2>3. h[m] = ReadSoFar' /\ m = Len(Spoken(ClaimScript, n + 1)) /\ m \in 0 .. Len(u)
      BY <1>11, <1>12, <1>15, <1>17, <1>18, <2>2 DEF SameReading, w, sc
    <2>4. StandsIn(h, m)'
      BY <1>4, <2>1, <2>3 DEF StandsIn
    <2> QED
      BY <1>4, <2>3, <2>4 DEF PassesIn, u
  <1>19. CASE t.short
    <2>1. v_pc' = "rejected"
      BY <1>16, <1>19
    <2>2. PICK m \in 0 .. Len(u) - 1 : ~ IsChallenge(u[m + 1]) /\ SameReading(t, h[m])
      BY <1>15, <1>19 DEF StopsIn
    <2>3. h[m] = ReadSoFar' /\ m \in 0 .. Len(u) /\ m < Len(u)
      BY <1>11, <1>17, <2>2 DEF SameReading
    <2>4. ~ Hearing'
      BY <2>1 DEF Hearing, Stages
    <2>5. StandsIn(h, m)'
      BY <1>4, <2>2, <2>3, <2>4 DEF StandsIn, u
    <2> QED
      BY <1>4, <2>3, <2>5 DEF PassesIn, u
  <1> QED
    BY <1>18, <1>19

LEMMA WaitingMirrors ==
  ASSUME ProverInv, VerifierInv, MirrorInv, p_pc # "done", UNCHANGED verifierVars
  PROVE  MirrorInv'
  <1>1. v_pc = "waiting"
    BY DEF VerifierInv
  <1>2. v_pc' = "waiting" /\ v_queries' = v_queries
    BY <1>1 DEF verifierVars
  <1>3. v_queries = <<>>
    BY <1>1 DEF MirrorInv, AsksOfClaim, Reading
  <1> QED
    BY <1>2, <1>3 DEF MirrorInv, ReadsAsGadget, AsksOfClaim, Reading

LEMMA DeliveringMirrors ==
  ASSUME MirrorInv, Deliver
  PROVE  MirrorInv'
  <1>1. v_pc = "waiting" /\ v_pc' = "instances" /\ v_queries' = v_queries
    BY DEF Deliver
  <1>2. v_queries = <<>>
    BY <1>1 DEF MirrorInv, AsksOfClaim, Reading
  <1> QED
    BY <1>1, <1>2 DEF MirrorInv, ReadsAsGadget, AsksOfClaim, Reading

LEMMA AbsorbingMirrors ==
  ASSUME KeyInv, ProverInv, VerifierInv, MirrorInv, AbsorbClaim
  PROVE  MirrorInv'
  <1>1. /\ v_pc = "instances" /\ UNCHANGED <<position, taken, v_queries>> /\ Deaf
        /\ IF ColumnCount(claim) # NumInstance
           THEN v_pc' = "rejected" /\ UNCHANGED v_log
           ELSE /\ v_log' = <<<<"vk">>>> \o claim.commitments
                               \o FlattenSeq([i \in DOMAIN claim.instances |->
                                                 AbsorbColumn(claim.instances[i])])
                /\ v_pc' = "advice"
    BY DEF AbsorbClaim, VerifierAt, ColumnCount
  <1>2. v_queries = <<>> /\ v_queries' = <<>>
    BY <1>1 DEF MirrorInv, AsksOfClaim, Reading
  <1>3. AsksOfClaim'
    BY <1>2 DEF AsksOfClaim
  <1>4. UNCHANGED <<csVars, features, claim, received>>
    BY <1>1, DeafStays
  <1>5. /\ ClaimScript' = ClaimScript /\ ClaimSpoken' = ClaimSpoken /\ ClaimKeyed' = ClaimKeyed
        /\ (OpensOnce' <=> OpensOnce) /\ received' = received
    BY <1>4, ClaimStays
  <1>6. ASSUME OpensOnce, NEW h, ReadsOn(h, received, ClaimKeyed, ClaimSpoken)
        PROVE  PassesIn(h)'
    <2>1. p_pc = "done" /\ taken = <<>> /\ Len(taken) = position
          /\ \E s \in Statements : claim = ClaimOf(s)
      BY <1>1 DEF VerifierInv
    <2>2. taken' = <<>> /\ position' = 0
      BY <1>1, <2>1, Nothing
    <2>3. v_log' = GadgetAbsorbs /\ v_pc' = "advice"
      BY <1>1, <1>6 DEF OpensOnce, GadgetAbsorbs
    <2>4. IsClaim(claim)
      BY <2>1, ClaimsTyped
    <2>7. v_log' = ClaimKeyed
      BY <2>3, <2>4, KeyedAsAbsorbed
    <2>8. h[0] = Unread(ClaimKeyed)
      BY <1>6 DEF ReadsOn
    <2>9. h[0] = ReadSoFar'
      BY <2>2, <2>7, <2>8 DEF ReadSoFar, Unread
    <2>10. Keyed
      BY <2>1, ProofIsSaid
    <2>11. IsScript(ClaimScript)
      BY <2>10 DEF Keyed, ClaimScript
    <2>12. IsSeq(ClaimSpoken)
      BY <2>11, SpokenNext DEF ClaimSpoken
    <2>13. 0 \in 0 .. Len(ClaimSpoken)
      BY <2>12, SeqFacts
    <2>14. Len(Spoken(ClaimScript', Stage(v_pc)')) = 0
      <3>1. Stage(v_pc)' = 0
        BY <2>3 DEF Stage
      <3> QED
        BY <3>1, Nothing DEF Spoken
    <2>15. StandsIn(h, 0)'
      BY <2>3, <2>9, <2>14 DEF StandsIn
    <2> QED
      BY <1>5, <2>13, <2>15 DEF PassesIn
  <1>7. ReadsAsGadget'
    BY <1>5, <1>6 DEF ReadsAsGadget
  <1> QED
    BY <1>3, <1>7 DEF MirrorInv

LEMMA ReadersRead ==
  ASSUME Keyed, phase = "keyed",
         ReadAdvices \/ ReadMultiplicities \/ ReadArguments \/ ReadQuotient \/ ReadEvals
  PROVE  \E n \in 0 .. 4, next \in Stages :
             n = Stage(v_pc) /\ Stage(next) = n + 1 /\ Read(ClaimScript[n + 1], next)
  <1>1. CASE ReadAdvices
    <2>1. v_pc = "advice" /\ Read(ClaimScript[0 + 1], "multiplicities")
      BY <1>1, VerifierReads
    <2> QED
      BY <2>1 DEF Stage, Stages
  <1>2. CASE ReadMultiplicities
    <2>1. v_pc = "multiplicities" /\ Read(ClaimScript[1 + 1], "arguments")
      BY <1>2, VerifierReads
    <2> QED
      BY <2>1 DEF Stage, Stages
  <1>3. CASE ReadArguments
    <2>1. v_pc = "arguments" /\ Read(ClaimScript[2 + 1], "quotient")
      BY <1>3, VerifierReads
    <2> QED
      BY <2>1 DEF Stage, Stages
  <1>4. CASE ReadQuotient
    <2>1. v_pc = "quotient" /\ Read(ClaimScript[3 + 1], "evals")
      BY <1>4, VerifierReads
    <2> QED
      BY <2>1 DEF Stage, Stages
  <1>5. CASE ReadEvals
    <2>1. v_pc = "evals" /\ Read(ClaimScript[4 + 1], "opening")
      BY <1>5, VerifierReads
    <2> QED
      BY <2>1 DEF Stage, Stages
  <1> QED
    BY <1>1, <1>2, <1>3, <1>4, <1>5

LEMMA PreparesClaim ==
  ASSUME KeyInv, ProverInv, VerifierInv, MultiPrepare
  PROVE  /\ v_pc = "opening" /\ v_queries' = ClaimQueries /\ Deaf
         /\ v_pc' \in {"prepared", "rejected"}
         /\ ~ DuplicatedQuery(ClaimQueries) => Read(ClaimScript[6], "prepared")
  <1>1. v_pc = "opening"
    BY DEF MultiPrepare, VerifierAt
  <1>2. p_pc = "done"
    BY <1>1 DEF VerifierInv
  <1>3. Keyed
    BY <1>2, ProofIsSaid
  <1>4. IsKey(cs) /\ TrashIndexed(cs)
    BY <1>3 DEF Keyed
  <1> DEFINE k == Len(claim.commitments)
             all == AllQueriesIn(cs, features, k)
  <1>5. VerifierQueries = QueriesIn(cs, k) /\ DummyQueries(QueriesIn(cs, k)) = DummiesIn(features, QueriesIn(cs, k))
    BY <1>4, VerifierReadsQueries, SameLists
  <1>6. VerifierQueries \o DummyQueries(VerifierQueries) = all
    BY <1>5 DEF AllQueriesIn
  <1>7. ClaimScript[6] = ToEvals(DummyQueries(VerifierQueries)) \o Opening(all)
    <2>1. ClaimScript[6] = OpeningPart(cs, features, k)
      BY ScriptParts DEF ClaimScript
    <2> HIDE DEF all
    <2>2. OpeningPart(cs, features, k) = ToEvals(DummyQueries(VerifierQueries)) \o Opening(all)
      BY <1>5 DEF OpeningPart, all
    <2> QED
      BY <2>1, <2>2
  <1>8. /\ v_queries' = all
        /\ DuplicatedQuery(all) => Read(Challenges(<<"x1", "x2">>), "rejected")
        /\ ~ DuplicatedQuery(all) => Read(ClaimScript[6], "prepared")
    BY <1>6, <1>7 DEF MultiPrepare
  <1>9. all = ClaimQueries
    BY DEF ClaimQueries
  <1> HIDE DEF all, k
  <1>10. CASE DuplicatedQuery(all)
    BY <1>1, <1>8, <1>9, <1>10 DEF Read
  <1>11. CASE ~ DuplicatedQuery(all)
    BY <1>1, <1>8, <1>9, <1>11 DEF Read
  <1> QED
    BY <1>10, <1>11

LEMMA ReadersMirror ==
  ASSUME KeyInv, ProverInv, VerifierInv, MirrorInv,
         ReadAdvices \/ ReadMultiplicities \/ ReadArguments \/ ReadQuotient \/ ReadEvals
  PROVE  MirrorInv'
  <1>1. v_pc \in Stages /\ UNCHANGED v_queries
    BY DEF ReadAdvices, ReadMultiplicities, ReadArguments, ReadQuotient, ReadEvals, VerifierAt,
           Stages
  <1>2. p_pc = "done"
    BY <1>1 DEF VerifierInv, Stages
  <1>3. Keyed /\ phase = "keyed"
    BY <1>2, ProofIsSaid
  <1>4. \E n \in 0 .. 4, next \in Stages :
            n = Stage(v_pc) /\ Stage(next) = n + 1 /\ Read(ClaimScript[n + 1], next)
    BY <1>3, ReadersRead
  <1>5. PICK n \in 0 .. 4, next \in Stages :
            n = Stage(v_pc) /\ Stage(next) = n + 1 /\ Read(ClaimScript[n + 1], next)
    BY <1>4
  <1>6. n \in 0 .. 5 /\ next \in Stages \cup {"prepared"} /\ next # "prepared"
    BY <1>5 DEF Stages
  <1>7. ReadsAsGadget'
    BY <1>1, <1>5, <1>6, ReadingMirrors DEF MirrorInv
  <1>8. AsksOfClaim'
    <2>1. Deaf /\ v_pc' \in {next, "rejected"}
      BY <1>5 DEF Read
    <2>2. ClaimQueries' = ClaimQueries
      BY <2>1, DeafStays, ClaimStays
    <2>3. Reading'
      BY <1>5, <2>1 DEF Reading, Stages
    <2> QED
      BY <1>1, <2>2, <2>3 DEF MirrorInv, AsksOfClaim
  <1> QED
    BY <1>7, <1>8 DEF MirrorInv

LEMMA PreparingMirrors ==
  ASSUME KeyInv, ProverInv, VerifierInv, MirrorInv, MultiPrepare
  PROVE  MirrorInv'
  <1>1. /\ v_pc = "opening" /\ v_queries' = ClaimQueries /\ Deaf
        /\ v_pc' \in {"prepared", "rejected"}
        /\ ~ DuplicatedQuery(ClaimQueries) => Read(ClaimScript[6], "prepared")
    BY PreparesClaim
  <1>2. UNCHANGED <<csVars, features, claim, received>>
    BY <1>1, DeafStays
  <1>3. ClaimQueries' = ClaimQueries /\ (OpensOnce' <=> OpensOnce)
    BY <1>2, ClaimStays
  <1>4. AsksOfClaim'
    BY <1>1, <1>3 DEF AsksOfClaim, Reading
  <1>5. ReadsAsGadget'
    <2>1. CASE DuplicatedQuery(ClaimQueries)
      BY <1>3, <2>1 DEF ReadsAsGadget, OpensOnce
    <2>2. CASE ~ DuplicatedQuery(ClaimQueries)
      <3>1. v_pc \in Stages /\ 5 = Stage(v_pc) /\ Stage("prepared") = 5 + 1
            /\ Read(ClaimScript[5 + 1], "prepared")
        BY <1>1, <2>2 DEF Stages, Stage
      <3> QED
        BY <3>1, ReadingMirrors DEF MirrorInv
    <2> QED
      BY <2>1, <2>2
  <1> QED
    BY <1>4, <1>5 DEF MirrorInv

LEMMA EndingMirrors ==
  ASSUME MirrorInv, UNCHANGED <<csVars, features, claim, received, v_log, position, taken, v_queries>>,
         \/ v_pc' = v_pc
         \/ v_pc = "opening" /\ v_pc' = "panicked"
         \/ v_pc = "prepared" /\ v_pc' = "complete"
         \/ v_pc = "prepared" /\ v_pc' = "rejected" /\ position # Len(received)
  PROVE  MirrorInv'
  <1>1. /\ ClaimScript' = ClaimScript /\ ClaimSpoken' = ClaimSpoken /\ ClaimKeyed' = ClaimKeyed
        /\ (OpensOnce' <=> OpensOnce) /\ received' = received /\ ClaimQueries' = ClaimQueries
    BY ClaimStays
  <1>2. Reading' <=> Reading
    BY DEF Reading
  <1>3. ReadSoFar' = ReadSoFar
    BY DEF ReadSoFar
  <1>4. ASSUME NEW h, NEW m, StandsIn(h, m)
        PROVE  StandsIn(h, m)'
    <2>1. Hearing' => Hearing /\ Stage(v_pc)' = Stage(v_pc)
      BY DEF Hearing, Stages, Stage
    <2>2. (v_pc' = "rejected" /\ position' = Len(received'))
              => v_pc = "rejected" /\ position = Len(received)
      OBVIOUS
    <2>3. Hearing' => m = Len(Spoken(ClaimScript', Stage(v_pc)'))
      BY <1>1, <1>4, <2>1 DEF StandsIn
    <2>4. h[m] = ReadSoFar'
      BY <1>3, <1>4 DEF StandsIn
    <2>5. v_pc' = "rejected" /\ position' = Len(received')
              => m < Len(ClaimSpoken') /\ ~ IsChallenge(ClaimSpoken'[m + 1])
      BY <1>1, <1>4, <2>2 DEF StandsIn
    <2> QED
      BY <2>3, <2>4, <2>5 DEF StandsIn
  <1>5. ASSUME NEW h, PassesIn(h)
        PROVE  PassesIn(h)'
    BY <1>1, <1>4, <1>5 DEF PassesIn
  <1>6. ReadsAsGadget'
    BY <1>1, <1>2, <1>5 DEF MirrorInv, ReadsAsGadget
  <1>7. AsksOfClaim'
    BY <1>1, <1>2 DEF MirrorInv, AsksOfClaim
  <1> QED
    BY <1>6, <1>7 DEF MirrorInv

LEMMA NextMirrors ==
  ASSUME TInv, MirrorInv, [Next]_vars
  PROVE  MirrorInv'
  <1>1. KeyInv /\ ProverInv /\ VerifierInv
    BY DEF TInv
  <1>2. CASE NextConfiguration /\ UNCHANGED <<proverVars, verifierVars>>
    <2>1. phase # "keyed"
      BY <1>2, KeyStays
    <2>2. p_pc # "done"
      BY <1>1, <2>1 DEF ProverInv
    <2> QED
      BY <1>1, <1>2, <2>2, WaitingMirrors
  <1>3. CASE ProverActs
    <2>1. p_pc # "done" /\ UNCHANGED verifierVars
      BY <1>3, ProverFrame
    <2> QED
      BY <1>1, <2>1, WaitingMirrors
  <1>4. CASE Deliver
    BY <1>4, DeliveringMirrors
  <1>5. CASE AbsorbClaim
    BY <1>1, <1>5, AbsorbingMirrors
  <1>6. CASE ReadAdvices \/ ReadMultiplicities \/ ReadArguments \/ ReadQuotient \/ ReadEvals
    BY <1>1, <1>6, ReadersMirror
  <1>7. CASE MultiPrepare
    BY <1>1, <1>7, PreparingMirrors
  <1>8. CASE VerifierPanics
    <2>1. /\ v_pc = "opening" /\ v_pc' = "panicked" /\ Deaf
          /\ UNCHANGED <<v_log, position, taken, v_queries>>
      BY <1>8 DEF VerifierPanics, VerifierAt
    <2>2. UNCHANGED <<csVars, features, claim, received>>
      BY <2>1, DeafStays
    <2> QED
      BY <2>1, <2>2, EndingMirrors
  <1>9. CASE AssertEmpty
    <2>1. /\ v_pc = "prepared" /\ Deaf /\ UNCHANGED <<v_log, position, taken, v_queries>>
          /\ v_pc' = IF position = Len(received) THEN "complete" ELSE "rejected"
      BY <1>9 DEF AssertEmpty, VerifierAt
    <2>2. UNCHANGED <<csVars, features, claim, received>>
      BY <2>1, DeafStays
    <2> QED
      BY <2>1, <2>2, EndingMirrors
  <1>10. CASE UNCHANGED vars
    <2>1. /\ v_pc' = v_pc
          /\ UNCHANGED <<csVars, features, claim, received, v_log, position, taken, v_queries>>
      BY <1>10 DEF vars, proverVars, verifierVars
    <2> QED
      BY <2>1, EndingMirrors
  <1> QED
    BY <1>2, <1>3, <1>4, <1>5, <1>6, <1>7, <1>8, <1>9, <1>10 DEF Next, ProverActs

-----------------------------------------------------------------------------
(* The fixed columns a circuit queries are those it has, converted         *)
(* selectors included.                                                     *)
FixedQueried == cs.queries["fixed"]
FixedInRange == phase = "keyed" =>
                    \A q \in ToSet(FixedQueried) : q[1] \in 0 .. cs.num_fixed_columns - 1

LEMMA RangeKept ==
  ASSUME IInv, FixedInRange, [NextConfiguration]_csVars
  PROVE  FixedInRange'
  <1>1. CASE Keygen
    <2> DEFINE e == Converted(cs)
               d == WithSelectorQueries(cs)
    <2>1. Configuration(cs) /\ cs' = e
      BY <1>1 DEF IInv, Keygen, Configured
    <2>2. /\ e \in SystemType /\ e.queries = d.queries
          /\ e.num_fixed_columns = cs.num_fixed_columns + NumSelectors(cs)
      BY <2>1, ConvertedSystem DEF Systems, ConvertedFrom
    <2>3. /\ NumSelectors(cs) \in Nat /\ NumFixed \in Nat /\ cs.num_fixed_columns = NumFixed
          /\ \A query \in ToSet(e.queries["fixed"]) :
                \/ query[1] < NumFixed
                \/ \E s \in 0 .. NumSelectors(cs) - 1 : query = <<NumFixed + s, 0>>
      BY <2>1, <2>2, SelectorQueries, ConfigurationAssumption DEF Configuration
    <2>4. e.queries["fixed"] \in Seq(QueryType)
      BY <2>2, SystemFields DEF Kinds
    <2> HIDE DEF e
    <2>5. ASSUME NEW query \in ToSet(e.queries["fixed"])
          PROVE  query[1] \in 0 .. e.num_fixed_columns - 1
      <3>1. query \in Nat \X Int
        BY <2>4, ElementsTyped DEF QueryType
      <3>2. query[1] \in Nat
        BY <3>1
      <3>3. query[1] < NumFixed + NumSelectors(cs)
        <4>1. CASE query[1] < NumFixed
          BY <2>3, <3>2, <4>1
        <4>2. ASSUME NEW s \in 0 .. NumSelectors(cs) - 1, query = <<NumFixed + s, 0>>
              PROVE  query[1] < NumFixed + NumSelectors(cs)
          <5>1. query[1] = NumFixed + s
            BY <4>2
          <5> QED
            BY <2>3, <5>1
        <4> QED
          BY <2>3, <4>1, <4>2
      <3> QED
        BY <2>2, <2>3, <3>2, <3>3
    <2> QED
      BY <2>1, <2>5 DEF FixedInRange, FixedQueried
  <1>2. CASE ~ Keygen /\ NextConfiguration
    <2>1. phase = "configure"
      BY <1>2, KeyStays
    <2>2. phase' \in {"configure", "refused", "panicked"}
      BY <1>2, <2>1 DEF NextConfiguration, EnableEquality, EnableConstant, CreateGate,
         CreateAdditiveGate, EmptyGate, BatchedLookup, SetMinimumDegree, KeygenPanics,
         KeygenRefuses, Configure, Panic
    <2> QED
      BY <2>2 DEF FixedInRange
  <1>3. CASE UNCHANGED csVars
    BY <1>3 DEF csVars, FixedInRange, FixedQueried
  <1> QED
    BY <1>1, <1>2, <1>3

LEMMA NextRange ==
  ASSUME TInv, FixedInRange, [Next]_vars
  PROVE  FixedInRange'
  <1>1. [NextConfiguration]_csVars
    BY ProverFrame, VerifierFrame DEF Next, vars, ProverActs, VerifierActs
  <1>2. IInv
    BY DEF TInv, KeyInv
  <1> QED
    BY <1>1, <1>2, RangeKept

(* A circuit that queries every fixed column once has as many evaluations  *)
(* of them as the gadget takes.                                            *)
EachQueriedOnce ==
    \A col \in 0 .. cs.num_fixed_columns - 1 :
        Cardinality({i \in DOMAIN cs.queries["fixed"] : cs.queries["fixed"][i][1] = col}) = 1

LEMMA ColumnsCounted ==
  ASSUME IsKey(cs), EachQueriedOnce,
         \A q \in ToSet(FixedQueried) : q[1] \in 0 .. cs.num_fixed_columns - 1
  PROVE  Len(FixedQueried) = cs.num_fixed_columns
  <1> DEFINE q == cs.queries["fixed"]
             n == Len(q)
             m == cs.num_fixed_columns
             U == 1 .. n
             C == 0 .. m - 1
             Of(col) == {i \in U : q[i][1] = col}
             f == [k \in U |-> q[k][1]]
  <1>1. IsSeq(q) /\ n \in Nat /\ DOMAIN q = U /\ m \in Nat
    BY CommittedTyped, SeqFacts, SystemFields DEF IsKey
  <1>2. \A k \in U : q[k][1] \in C
    BY <1>1, SeqFacts DEF FixedQueried
  <1>3. \A col \in C : Cardinality(Of(col)) = 1
    BY <1>1 DEF EachQueriedOnce
  <1>4. IsFiniteSet(U) /\ Cardinality(U) = n /\ IsFiniteSet(C) /\ Cardinality(C) = m
    <2> HIDE DEF n, m
    <2>1. IsFiniteSet(1 .. n) /\ Cardinality(1 .. n) = IF 1 > n THEN 0 ELSE n - 1 + 1
      BY <1>1, FS_Interval
    <2>2. IsFiniteSet(0 .. m - 1) /\ Cardinality(0 .. m - 1) = IF 0 > m - 1 THEN 0 ELSE m - 1 - 0 + 1
      BY <1>1, FS_Interval
    <2> QED
      BY <1>1, <2>1, <2>2
  <1> HIDE DEF C
  <1>5. ASSUME NEW col \in C
        PROVE  \E i : Of(col) = {i}
    <2>1. IsFiniteSet(Of(col))
      BY <1>4, FS_Subset
    <2>2. Cardinality(Of(col)) = 1
      BY <1>3
    <2> HIDE DEF Of
    <2> QED
      BY <2>1, <2>2, FS_Singleton
  <1>6. f \in Bijection(U, C)
    <2>1. f \in [U -> C]
      BY <1>2
    <2>2. \A a, b \in U : f[a] = f[b] => a = b
      <3> SUFFICES ASSUME NEW a \in U, NEW b \in U, f[a] = f[b]
                   PROVE  a = b
        OBVIOUS
      <3>1. a \in Of(q[a][1]) /\ b \in Of(q[a][1]) /\ q[a][1] \in C
        BY <1>2
      <3> QED
        BY <1>5, <3>1
    <2>3. \A col \in C : \E a \in U : f[a] = col
      <3> SUFFICES ASSUME NEW col \in C
                   PROVE  \E a \in U : f[a] = col
        OBVIOUS
      <3>1. PICK i : Of(col) = {i}
        BY <1>5
      <3>2. i \in U /\ q[i][1] = col
        BY <3>1
      <3> QED
        BY <3>2
    <2> HIDE DEF f, U
    <2> QED
      BY <2>1, <2>2, <2>3 DEF Bijection, Injection, Surjection, IsInjective
  <1>7. n = m
    <2> HIDE DEF U, f, n, m
    <2> QED
      BY <1>4, <1>6, FS_Bijection DEF ExistsBijection
  <1> QED
    BY <1>7 DEF FixedQueried

LEMMA GadgetFixed ==
  ASSUME IsKey(cs), phase = "keyed", SelectorsAreTracked, EachQueriedOnce, FixedInRange
  PROVE  /\ GadgetFixedEvals = Len(OpenedIn(cs)) /\ ~ FixedEvalsMissing
         /\ [j \in 1 .. GadgetFixedEvals |-> GadgetTakesFor(j)] = EvalsOf("Fixed", OpenedIn(cs))
  <1> DEFINE q == cs.queries["fixed"]
             n == Len(q)
             w == OpenedIn(cs)
             m == Len(w)
  <1>1. m \in Nat /\ DOMAIN w = 1 .. m /\ n \in Nat
    BY CommittedTyped, SeqFacts
  <1>2. NumFixedEvals = m
    BY FixedAreCounted
  <1>3. n = cs.num_fixed_columns
    BY ColumnsCounted DEF FixedInRange, FixedQueried
  <1>4. GadgetFixedEvals = m
    BY <1>2, <1>3 DEF GadgetFixedEvals, NumFixedEvals
  <1>5. ~ FixedEvalsMissing
    <2>1. OpenedFixedQueries = w
      BY SameLists
    <2> HIDE DEF w
    <2> QED
      BY <1>1, <1>4, <2>1 DEF FixedEvalsMissing
  <1>6. ASSUME NEW j \in 1 .. m
        PROVE  GadgetTakesFor(j) = Eval(<<"Fixed", w[j][1]>>, w[j][2])
    <2> DEFINE at == Position(FixedSlots, j)
    <2>1. at \in 1 .. n /\ q[at] = w[j]
      BY <1>2, SlotsFound
    <2>2. SlotsOf(GadgetFixedEvals) = FixedSlots
      BY <1>2, <1>4 DEF FixedSlots
    <2> HIDE DEF w
    <2>3. GadgetTakesFor(j) = IF at > n THEN <<"nothing">> ELSE Eval(<<"Fixed", q[at][1]>>, q[at][2])
      BY <2>2 DEF GadgetTakesFor
    <2> HIDE DEF at
    <2>4. ~ (at > n)
      BY <1>1, <2>1
    <2> QED
      BY <2>1, <2>3, <2>4
  <1> HIDE DEF w
  <1>7. [j \in 1 .. m |-> GadgetTakesFor(j)] = EvalsOf("Fixed", w)
    BY <1>1, <1>6 DEF EvalsOf
  <1> QED
    BY <1>4, <1>5, <1>7 DEF w

-----------------------------------------------------------------------------
(* No two rotations within a row of one another fall on the same point.    *)
Near(at) == at \in -1 .. 1

LEMMA NearPoints ==
  ASSUME 3 <= N, NEW a, Near(a), NEW b, Near(b), Point(a) = Point(b)
  PROVE  a = b
  <1>1. a \in Int /\ b \in Int /\ a >= -1 /\ a <= 1 /\ b >= -1 /\ b <= 1 /\ N \in Nat
    BY ConfigurationAssumption DEF Near
  <1>2. Point(0) = 0 /\ Point(1) = 1
    BY <1>1, PointsInRange DEF Points
  <1>3. Point(-1) \notin {0, 1}
    BY <1>1 DEF Point
  <1>4. a \in {-1, 0, 1} /\ b \in {-1, 0, 1}
    BY <1>1
  <1> QED
    BY <1>2, <1>3, <1>4

LEMMA NearApart ==
  ASSUME 3 <= N, NEW qs, IsSeq(qs), ToSet(qs) \subseteq QueryType, Once(qs),
         \A q \in ToSet(qs) : Near(q[2])
  PROVE  Apart(qs)
  <1>1. \A i \in 1 .. Len(qs) : qs[i] \in ToSet(qs) /\ qs[i] \in Nat \X Int /\ Near(qs[i][2])
    BY SeqFacts DEF QueryType
  <1>2. Len(qs) \in Nat
    BY SeqFacts
  <1>3. ASSUME NEW i \in 1 .. Len(qs)
        PROVE  Point(qs[i][2]) \in Points
    <2>1. qs[i][2] \in Int
      BY <1>1 DEF Near
    <2> QED
      BY <2>1, PointsInRange
  <1>4. ASSUME NEW i \in 1 .. Len(qs), NEW j \in 1 .. Len(qs), i # j
        PROVE  qs[i][1] # qs[j][1] \/ Point(qs[i][2]) # Point(qs[j][2])
    <2>1. i < j \/ j < i
      BY <1>2, <1>4
    <2>2. qs[i] # qs[j]
      BY <2>1 DEF Once
    <2>3. qs[i][1] # qs[j][1] \/ qs[i][2] # qs[j][2]
      BY <1>1, <2>2
    <2> QED
      BY <1>1, <2>3, NearPoints
  <1> QED
    BY <1>3, <1>4 DEF Apart

LEMMA SupportedApart ==
  ASSUME KeyInv, phase = "keyed", ~ UnsupportedRotation
  PROVE  Room(cs) /\ OpenedApart(cs, Len(claim.commitments))
  <1> DEFINE a == cs.queries["advice"]
             b == CommittedIn(cs, Len(claim.commitments))
             c == OpenedIn(cs)
             OK(s) == IsSeq(s) /\ ToSet(s) \subseteq QueryType /\ Once(s)
  <1>1. IsKey(cs)
    BY KeysMade DEF Keyed
  <1>2. Room(cs)
    <2>1. BlindingFactors(cs) \in Nat
      BY <1>1, KeyFields
    <2> QED
      BY <2>1 DEF KeyInv, KeyUsable, Room
  <1>3. 3 <= N
    BY <1>2, ConfigurationAssumption DEF Room
  <1>4. ASSUME NEW kind \in Kinds
        PROVE  OK(cs.queries[kind])
    <2> DEFINE s == cs.queries[kind]
    <2>1. s \in Seq(QueryType) /\ \A i, j \in DOMAIN s : s[i] = s[j] => i = j
      BY SystemFields DEF KeyInv, IInv, Systems, DistinctQueries
    <2> HIDE DEF s
    <2>2. IsSeq(s) /\ DOMAIN s = 1 .. Len(s) /\ Len(s) \in Nat
      BY <2>1, SeqInSet, SeqFacts
    <2>3. ToSet(s) \subseteq QueryType
      BY <2>1, ElementsTyped
    <2>4. Once(s)
      BY <2>1, <2>2 DEF Once
    <2> QED
      BY <2>2, <2>3, <2>4 DEF s
  <1>5. ASSUME NEW s, OK(s), NEW A
        PROVE  OK(Chosen(s, A))
    <2>1. Chosen(s, A) \in Seq(ToSet(s) \cap A) /\ IsSeq(Chosen(s, A))
      BY <1>5, ChosenTyped
    <2>2. ToSet(Chosen(s, A)) \subseteq ToSet(s) \cap A
      BY <2>1, ElementsTyped
    <2>3. Once(Chosen(s, A))
      BY <1>5, ChosenOnce
    <2> QED
      BY <1>5, <2>1, <2>2, <2>3
  <1>6. OK(a) /\ OK(b) /\ OK(c)
    <2>1. OK(cs.queries["instance"]) /\ OK(cs.queries["fixed"]) /\ OK(a)
      BY <1>4 DEF Kinds
    <2> HIDE DEF OK
    <2> QED
      BY <1>5, <2>1 DEF CommittedIn, OpenedIn
  <1>7. \A q \in ToSet(a) \cup ToSet(b) \cup ToSet(c) : Near(q[2])
    <2>1. /\ OpenedFixedQueries = c
          /\ CommittedQueries(Len(claim.commitments)) = b
      BY <1>1, SameLists
    <2>2. \A q \in ToSet(a \o b \o c) : Near(q[2])
      BY <2>1 DEF UnsupportedRotation, Near
    <2>3. IsSeq(a) /\ IsSeq(b) /\ IsSeq(c)
      BY <1>6
    <2> HIDE DEF a, b, c
    <2>4. IsSeq(a \o b) /\ ToSet(a \o b) = ToSet(a) \cup ToSet(b)
      BY <2>3, Joined
    <2>5. ToSet((a \o b) \o c) = ToSet(a \o b) \cup ToSet(c)
      BY <2>3, <2>4, Joined
    <2> QED
      BY <2>2, <2>4, <2>5
  <1> HIDE DEF b, c
  <1>8. Apart(a) /\ Apart(b) /\ Apart(c)
    BY <1>3, <1>6, <1>7, NearApart
  <1> QED
    BY <1>2, <1>8 DEF OpenedApart, b, c

LEMMA SupportedDistinct ==
  ASSUME KeyInv, phase = "keyed", ~ UnsupportedRotation
  PROVE  ~ DuplicatedQuery(ClaimQueries) /\ ~ DuplicatedQuery(QueriesIn(cs, Len(claim.commitments)))
  <1>1. IsKey(cs)
    BY KeysMade DEF Keyed
  <1>2. Room(cs) /\ OpenedApart(cs, Len(claim.commitments))
    BY SupportedApart
  <1>3. NoTwice(ClaimQueries)
    BY <1>1, <1>2, AllNoTwice DEF ClaimQueries
  <1>4. NoTwice(QueriesIn(cs, Len(claim.commitments)))
    BY <1>1, <1>2, QueriesOfKeyNoTwice
  <1> QED
    BY <1>3, <1>4, NoTwiceIsDistinct

-----------------------------------------------------------------------------
(* What the gadget absorbs, reads and asks is the script of the claim.     *)
LEMMA GadgetAsks ==
  ASSUME IsKey(cs)
  PROVE  /\ GadgetAccumulators = AccumulatorsIn(cs)
         /\ GadgetQueries = QueriesIn(cs, Len(claim.commitments))
         /\ DummyQueries(GadgetQueries) = DummiesIn(features, GadgetQueries)
         /\ GadgetQueries \o DummyQueries(GadgetQueries) = ClaimQueries
  <1>1. GadgetAccumulators = AccumulatorsIn(cs)
    BY DEF GadgetAccumulators, AccumulatorsIn
  <1>2. /\ OpenedFixedQueries = OpenedIn(cs)
        /\ CommittedQueries(Len(claim.commitments)) = CommittedIn(cs, Len(claim.commitments))
        /\ LookupQueries = LookupQueriesIn(cs)
        /\ AccumulatorQueries(GadgetAccumulators) = AccumulatorQueriesIn(cs, AccumulatorsIn(cs))
        /\ \A qs : DummyQueries(qs) = DummiesIn(features, qs)
    BY <1>1, SameLists
  <1>3. GadgetQueries = QueriesIn(cs, Len(claim.commitments))
    BY <1>2 DEF GadgetQueries, QueriesIn
  <1> QED
    BY <1>1, <1>2, <1>3 DEF ClaimQueries, AllQueriesIn

(* Concatenation, by its laws alone.                                       *)
Chain(s, t) == s \o t

LEMMA ChainThen ==
  /\ \A s, t : IsSeq(s) /\ IsSeq(t) => IsSeq(Chain(s, t))
  /\ \A s, t, u : IsSeq(s) /\ IsSeq(t) /\ IsSeq(u) => Chain(s, Chain(t, u)) = Chain(Chain(s, t), u)
  <1>1. \A s, t : IsSeq(s) /\ IsSeq(t) => IsSeq(Chain(s, t))
    BY JoinedTyped DEF Chain
  <1>2. ASSUME NEW s, IsSeq(s), NEW t, IsSeq(t), NEW u, IsSeq(u)
        PROVE  Chain(s, Chain(t, u)) = Chain(Chain(s, t), u)
    BY JoinedThen DEF Chain
  <1> QED
    BY <1>1, <1>2

(* parse_trace hears the first three parts, the evaluations are the next.  *)
LEMMA TraceIsScripted ==
  ASSUME IsKey(cs)
  PROVE  TraceItems = AdvicePart \o MultiplicityPart(cs) \o ArgumentPart(cs)
  <1> DEFINE a == Labels("Advice", NumAdvice)
             t == Challenges(<<"theta">>)
             m == Labels("LogupMultiplicities", Len(cs.lookups))
             c == Challenges(<<"beta", "gamma", "trash_challenge">>)
             p == Labels("PermutationAccumulator", AccumulatorsIn(cs))
             l == LogupCommitmentsIn(cs)
             r == Labels("Trash", Len(cs.trashcans))
             y == Challenges(<<"y">>)
             x == (a \o t) \o (m \o c)
  <1>1. LogupCommitments = l /\ GadgetAccumulators = AccumulatorsIn(cs)
    BY SameLists, GadgetAsks
  <1>2. TraceItems = a \o t \o m \o c \o p \o l \o r \o y
    BY <1>1 DEF TraceItems, NumLookups
  <1>3. AdvicePart \o MultiplicityPart(cs) \o ArgumentPart(cs) = x \o (p \o l \o r \o y)
    BY DEF AdvicePart, MultiplicityPart, ArgumentPart
  <1>4. IsSeq(t) /\ IsSeq(c) /\ IsSeq(y)
    BY SomeChallenges
  <1>5. Len(cs.lookups) \in Nat /\ Len(cs.trashcans) \in Nat /\ AccumulatorsIn(cs) \in Nat
    BY KeyFields, SeqFacts
  <1>6. IsSeq(a) /\ IsSeq(m) /\ IsSeq(p) /\ IsSeq(r)
    BY <1>5, LabelsTyped, ConfigurationAssumption
  <1>7. IsSeq(l)
    BY LookupsOfKey
  <1> HIDE DEF a, t, m, c, p, l, r, y
  <1>8. IsSeq(x)
    BY <1>4, <1>6, JoinedTyped
  <1>9. x = a \o t \o m \o c
    <2>1. Chain(Chain(a, t), Chain(m, c)) = Chain(Chain(Chain(a, t), m), c)
      BY <1>4, <1>6, ChainThen
    <2> QED
      BY <2>1 DEF Chain
  <1> HIDE DEF x
  <1>10. x \o (p \o l \o r \o y) = x \o p \o l \o r \o y
    <2>1. IsSeq(p) /\ IsSeq(l) /\ IsSeq(r) /\ IsSeq(y)
      BY <1>4, <1>6, <1>7
    <2>2. Chain(x, Chain(Chain(Chain(p, l), r), y)) = Chain(Chain(Chain(Chain(x, p), l), r), y)
      BY <1>8, <2>1, ChainThen
    <2> QED
      BY <2>2 DEF Chain
  <1> QED
    BY <1>2, <1>3, <1>9, <1>10

LEMMA EvalsAreScripted ==
  ASSUME IsKey(cs), quotient_degree \in Nat,
         [j \in 1 .. GadgetFixedEvals |-> GadgetTakesFor(j)] = EvalsOf("Fixed", OpenedIn(cs))
  PROVE  EvalItems = QuotientPart(features, quotient_degree) \o EvalsPart(cs, Len(claim.commitments))
  <1> DEFINE k == Len(claim.commitments)
             n == Labels("Quotient", NumQuotients)
             x == Challenges(<<"x">>)
             z == n \o x
             p == EvalsOf("CommittedInstance", CommittedIn(cs, k))
             q == EvalsOf("Advice", cs.queries["advice"])
             r == EvalsOf("Fixed", OpenedIn(cs))
             s == [i \in DOMAIN cs.permutation |-> Eval(Label("PermutationFixed", i), 0)]
             t == FlattenSeq([i \in 1 .. AccumulatorsIn(cs) |->
                                  AccumulatorEvals(cs, AccumulatorsIn(cs), i)])
             u == ToEvals(LookupQueriesIn(cs))
             v == [i \in DOMAIN cs.trashcans |-> Eval(Label("Trash", i), 0)]
  <1>1. EvalsPart(cs, k) = p \o q \o r \o s \o t \o u \o v
    BY DEF EvalsPart
  <1>2. QuotientPart(features, quotient_degree) = z
    BY DEF QuotientPart, NumQuotients
  <1>3. /\ LookupQueries = LookupQueriesIn(cs) /\ GadgetAccumulators = AccumulatorsIn(cs)
        /\ CommittedQueries(k) = CommittedIn(cs, k) /\ XLast = LastIn(cs)
    BY SameLists, GadgetAsks
  <1>4. EvalItems = z \o p \o q \o r \o s \o t \o u \o v
    <2> DEFINE w == FlattenSeq([i \in 1 .. GadgetAccumulators |->
                       <<Eval(Label("PermutationAccumulator", i), 0),
                         Eval(Label("PermutationAccumulator", i), 1)>> \o GadgetLast(i)])
    <2>1. EvalItems = z \o EvalsOf("CommittedInstance", CommittedQueries(k)) \o q
                        \o [j \in 1 .. GadgetFixedEvals |-> GadgetTakesFor(j)]
                        \o s \o w \o ToEvals(LookupQueries) \o v
      BY DEF EvalItems
    <2>2. \A i : <<Eval(Label("PermutationAccumulator", i), 0),
                   Eval(Label("PermutationAccumulator", i), 1)>> \o GadgetLast(i)
                     = AccumulatorEvals(cs, AccumulatorsIn(cs), i)
      BY <1>3 DEF GadgetLast, AccumulatorEvals
    <2>3. w = t
      BY <1>3, <2>2
    <2> HIDE DEF z, p, q, r, s, t, u, v, w
    <2> QED
      BY <1>3, <2>1, <2>3 DEF p, r, u
  <1>5. IsSeq(p) /\ IsSeq(q) /\ IsSeq(r)
    BY CommittedTyped, QueryLists
  <1>6. IsSeq(t)
    BY KeyFields, AccumulatorsOfKey
  <1>7. IsSeq(u)
    BY LookupsOfKey, QueryLists
  <1>8. s = [i \in DOMAIN cs.permutation |-> s[i]] /\ v = [i \in DOMAIN cs.trashcans |-> v[i]]
    OBVIOUS
  <1>9. IsSeq(cs.trashcans) /\ IsSeq(cs.permutation)
    BY KeyFields
  <1>10. IsSeq(x)
    BY SomeChallenges
  <1>11. IsSeq(n)
    BY LabelsTyped DEF NumQuotients
  <1> HIDE DEF n, x, p, q, r, s, t, u, v
  <1>12. IsSeq(s) /\ IsSeq(v)
    BY <1>8, <1>9, MadeOver
  <1>13. IsSeq(z)
    BY <1>10, <1>11, JoinedTyped
  <1> HIDE DEF z
  <1>14. z \o (p \o q \o r \o s \o t \o u \o v) = z \o p \o q \o r \o s \o t \o u \o v
    <2>1. /\ IsSeq(z) /\ IsSeq(p) /\ IsSeq(q) /\ IsSeq(r) /\ IsSeq(s)
          /\ IsSeq(t) /\ IsSeq(u) /\ IsSeq(v)
      BY <1>5, <1>6, <1>7, <1>12, <1>13
    <2> DEFINE a == Chain(Chain(Chain(p, q), r), s)
               b == Chain(Chain(Chain(Chain(z, p), q), r), s)
    <2>2. IsSeq(a) /\ Chain(z, a) = b
      BY <2>1, ChainThen
    <2> HIDE DEF a, b
    <2>3. Chain(z, Chain(Chain(Chain(a, t), u), v)) = Chain(Chain(Chain(Chain(z, a), t), u), v)
      BY <2>1, <2>2, ChainThen
    <2>4. Chain(z, Chain(Chain(Chain(a, t), u), v)) = Chain(Chain(Chain(b, t), u), v)
      BY <2>2, <2>3
    <2> QED
      BY <2>4 DEF Chain, a, b
  <1> QED
    BY <1>1, <1>2, <1>4, <1>14

LEMMA GadgetReads ==
  ASSUME Keyed,
         [j \in 1 .. GadgetFixedEvals |-> GadgetTakesFor(j)] = EvalsOf("Fixed", OpenedIn(cs))
  PROVE  TraceItems \o EvalItems \o ToEvals(DummyQueries(GadgetQueries)) \o Opening(ClaimQueries)
             = ClaimSpoken
  <1> DEFINE k == Len(claim.commitments)
             a == AdvicePart
             b == MultiplicityPart(cs)
             c == ArgumentPart(cs)
             d == QuotientPart(features, quotient_degree)
             e == EvalsPart(cs, k)
             f == ToEvals(DummiesIn(features, QueriesIn(cs, k)))
             g == Opening(AllQueriesIn(cs, features, k))
             h == OpeningPart(cs, features, k)
  <1>1. IsKey(cs) /\ quotient_degree \in Nat /\ IsScript(ClaimScript)
    BY DEF Keyed, ClaimScript
  <1>2. /\ ClaimScript[1] = a /\ ClaimScript[2] = b /\ ClaimScript[3] = c
        /\ ClaimScript[4] = d /\ ClaimScript[5] = e /\ ClaimScript[6] = h
    BY ScriptParts DEF ClaimScript
  <1>3. ClaimSpoken = a \o b \o c \o d \o e \o h
    BY <1>2 DEF ClaimSpoken, Spoken
  <1>4. h = f \o g
    BY DEF OpeningPart
  <1>5. TraceItems = a \o b \o c /\ EvalItems = d \o e
    BY <1>1, TraceIsScripted, EvalsAreScripted
  <1>6. ToEvals(DummyQueries(GadgetQueries)) = f /\ Opening(ClaimQueries) = g
    BY <1>1, GadgetAsks DEF ClaimQueries
  <1>7. IsSeq(a) /\ IsSeq(b) /\ IsSeq(c) /\ IsSeq(d) /\ IsSeq(e)
    BY <1>1, <1>2 DEF IsScript
  <1>8. IsSeq(f) /\ IsSeq(g)
    BY <1>1, AllQueriesTyped, QueryLists, OpeningTyped
  <1> HIDE DEF a, b, c, d, e, f, g, h
  <1> DEFINE y == a \o b \o c
  <1>9. IsSeq(y)
    BY <1>7, JoinedTyped
  <1> HIDE DEF y
  <1>10. y \o (d \o e) \o f \o g = y \o d \o e \o (f \o g)
    <2>1. Chain(Chain(Chain(y, Chain(d, e)), f), g) = Chain(Chain(Chain(y, d), e), Chain(f, g))
      BY <1>7, <1>8, <1>9, ChainThen
    <2> QED
      BY <2>1 DEF Chain
  <1> QED
    BY <1>3, <1>4, <1>5, <1>6, <1>10 DEF y

-----------------------------------------------------------------------------
(* A proof that ends where an item is to be read is completed by a default.*)
LEMMA MissingIsDefault ==
  ASSUME NEW r, IsSeq(r), NEW g, NEW u, IsSeq(u), NEW h, ReadsOn(h, r, g, u),
         NEW m \in 0 .. Len(u) - 1, ~ IsChallenge(u[m + 1]), h[m].at = Len(r),
         NEW last, last = h[Len(u)].taken
  PROVE  Default \in {last[i][2] : i \in DOMAIN last}
  <1> DEFINE n == m + 1
             x == u[n]
             t == h[m].taken
  <1>1. /\ Len(u) \in Nat /\ n \in 1 .. Len(u) /\ n \in 0 .. Len(u) /\ m \in 0 .. Len(u)
        /\ Len(u) \in 0 .. Len(u) /\ n - 1 = m
    BY SeqFacts
  <1>2. h[n] = HearsIn(r, h[m], x) /\ Shaped(h[m]) /\ Shaped(h[n]) /\ Shaped(h[Len(u)])
    BY <1>1 DEF ReadsOn
  <1>3. GivenIn(r, h[m].at + 1) = Default
    <2>1. Len(r) \in Nat
      BY SeqFacts
    <2>2. ~ (Len(r) + 1 <= Len(r))
      BY <2>1
    <2> QED
      BY <2>2 DEF GivenIn
  <1>4. h[n].taken = Append(t, <<x, Default>>)
    <2>1. HeardIn(r, h[m], x, h[n])
      BY <1>2, HearsShaped
    <2> QED
      BY <1>3, <2>1 DEF HeardIn
  <1>5. IsSeq(t) /\ IsSeq(h[n].taken) /\ IsSeq(last)
    BY <1>2 DEF Shaped
  <1>6. IsPrefix(h[n].taken, last)
    <2>1. PICK w : WrittenBy(w, u)
      BY WrittenGrows
    <2> QED
      BY <1>1, <2>1, ReadingsGrow
  <1> HIDE DEF n, x, t
  <1> DEFINE e == <<x, Default>>
             i == Len(t) + 1
             s == h[n].taken
  <1>7. e[2] = Default
    OBVIOUS
  <1> HIDE DEF e
  <1>8. s = Append(t, e)
    BY <1>4 DEF e
  <1> HIDE DEF s
  <1>9. Len(s) = i /\ s[i] = e /\ i \in 1 .. Len(s)
    <2>1. Len(t) \in Nat /\ Len(s) = Len(t) + 1 /\ s[Len(t) + 1] = e
      BY <1>5, <1>8, Longer
    <2> QED
      BY <2>1
  <1> HIDE DEF i
  <1>10. Len(s) <= Len(last) /\ \A j \in 1 .. Len(s) : s[j] = last[j]
    BY <1>5, <1>6, PrefixElements DEF s
  <1>11. last[i] = e /\ i \in DOMAIN last
    <2>1. DOMAIN last = 1 .. Len(last) /\ Len(last) \in Nat /\ Len(s) \in Nat
      BY <1>5, SeqFacts DEF s
    <2> QED
      BY <1>9, <1>10, <2>1
  <1> QED
    BY <1>7, <1>11

Final == v_pc \in {"complete", "rejected", "panicked"}

LEMMA StandingMirrors ==
  ASSUME IsSeq(received), IsSeq(ClaimSpoken), NEW h, ReadsOn(h, received, ClaimKeyed, ClaimSpoken),
         PassesIn(h), NEW t, t = h[Len(ClaimSpoken)]
  PROVE  /\ IsPrefix(v_log, t.log) /\ IsPrefix(taken, t.taken)
         /\ v_pc = "complete" => t.log = v_log
         /\ v_pc = "rejected" /\ position = Len(received) =>
                Default \in {t.taken[i][2] : i \in DOMAIN t.taken}
  <1> DEFINE n == Len(ClaimSpoken)
  <1>1. PICK m \in 0 .. n : StandsIn(h, m)
    BY DEF PassesIn
  <1>2. h[m] = [log |-> v_log, at |-> position, taken |-> taken]
    BY <1>1 DEF StandsIn, ReadSoFar
  <1>3. h[m].log = v_log /\ h[m].at = position /\ h[m].taken = taken
    BY <1>2
  <1>4. PICK w : WrittenBy(w, ClaimSpoken)
    BY WrittenGrows
  <1>5. IsPrefix(h[m].log, t.log) /\ IsPrefix(h[m].taken, t.taken)
    BY <1>4, ReadingsGrow
  <1>6. v_pc = "complete" => t.log = v_log
    <2> SUFFICES ASSUME v_pc = "complete"
                 PROVE  t.log = v_log
      OBVIOUS
    <2>1. Hearing /\ Stage(v_pc) = 6
      BY DEF Hearing, Stage
    <2>2. m = n
      BY <1>1, <2>1 DEF StandsIn, ClaimSpoken
    <2> QED
      BY <1>3, <2>2
  <1>7. v_pc = "rejected" /\ position = Len(received) =>
            Default \in {t.taken[i][2] : i \in DOMAIN t.taken}
    <2> SUFFICES ASSUME v_pc = "rejected", position = Len(received)
                 PROVE  Default \in {t.taken[i][2] : i \in DOMAIN t.taken}
      OBVIOUS
    <2>1. m < n /\ ~ IsChallenge(ClaimSpoken[m + 1])
      BY <1>1 DEF StandsIn
    <2>2. m \in 0 .. n - 1
      <3>1. n \in Nat
        BY SeqFacts
      <3> HIDE DEF n
      <3> QED
        BY <1>1, <2>1, <3>1
    <2>3. h[m].at = Len(received)
      BY <1>3
    <2> QED
      BY <2>1, <2>2, <2>3, MissingIsDefault
  <1> QED
    BY <1>3, <1>5, <1>6, <1>7

-----------------------------------------------------------------------------
(* The gadget asks and reads what the claim calls for.                     *)
GadgetSpeaks == GadgetHears(ClaimKeyed, ClaimSpoken)

LEMMA GadgetPrepares ==
  ASSUME TInv, FixedInRange, Supported, GadgetPrepare
  PROVE  /\ g_pc' = "prepared" /\ g_queries' = ClaimQueries
         /\ g_log' = GadgetSpeaks.log /\ g_taken' = GadgetSpeaks.taken
         /\ OpensOnce /\ IsSeq(received) /\ IsSeq(ClaimKeyed) /\ IsSeq(ClaimSpoken)
  <1>1. KeyInv /\ ProverInv /\ VerifierInv
    BY DEF TInv
  <1>2. v_pc # "waiting"
    BY DEF GadgetPrepare
  <1>3. /\ p_pc = "done" /\ IsSeq(received)
        /\ \E s \in Statements : claim = ClaimOf(s)
    BY <1>1, <1>2 DEF VerifierInv, Listening
  <1>4. phase = "keyed" /\ Keyed
    BY <1>1, <1>3, ProofIsSaid
  <1>5. IsKey(cs) /\ SelectorsAreTracked /\ IsScript(ClaimScript)
    BY <1>4 DEF Keyed, ClaimScript
  <1>6. IsClaim(claim)
    BY <1>3, ClaimsTyped
  <1>7. ~ UnsupportedRotation /\ EachQueriedOnce /\ ~ WrongInstances /\ ~ NoInstanceQuery
    BY DEF Supported, EachQueriedOnce
  <1>8. /\ ~ FixedEvalsMissing
        /\ [j \in 1 .. GadgetFixedEvals |-> GadgetTakesFor(j)] = EvalsOf("Fixed", OpenedIn(cs))
    BY <1>4, <1>5, <1>7, GadgetFixed
  <1>9. ~ DuplicatedQuery(ClaimQueries) /\ ~ DuplicatedQuery(GadgetQueries)
    BY <1>1, <1>4, <1>5, <1>7, SupportedDistinct, GadgetAsks
  <1>10. GadgetQueries \o DummyQueries(GadgetQueries) = ClaimQueries
    BY <1>5, GadgetAsks
  <1>11. TraceItems \o EvalItems \o ToEvals(DummyQueries(GadgetQueries)) \o Opening(ClaimQueries)
             = ClaimSpoken
    BY <1>4, <1>8, GadgetReads
  <1>12. ~ GadgetPanics
    BY <1>7, <1>8, <1>9 DEF GadgetPanics, OpeningPanics
  <1>13. GadgetAbsorbs = ClaimKeyed /\ IsSeq(ClaimKeyed)
    BY <1>6, KeyedAsAbsorbed
  <1>14. ColumnCount(claim) = NumInstance
    BY <1>7 DEF WrongInstances, ColumnCount
  <1>15. IsSeq(ClaimSpoken)
    BY <1>5, SpokenNext DEF ClaimSpoken
  <1> DEFINE all == GadgetQueries \o DummyQueries(GadgetQueries)
             opening == IF DuplicatedQuery(all) THEN Challenges(<<"x1", "x2">>) ELSE Opening(all)
             t == GadgetHears(GadgetAbsorbs,
                      TraceItems \o EvalItems \o ToEvals(DummyQueries(GadgetQueries)) \o opening)
  <1>16. /\ g_log' = t.log /\ g_taken' = t.taken /\ g_queries' = all
         /\ g_pc' = IF DuplicatedQuery(all) THEN "failed" ELSE "prepared"
    BY <1>12 DEF GadgetPrepare
  <1>17. opening = Opening(ClaimQueries)
    BY <1>9, <1>10
  <1> HIDE DEF opening
  <1>18. t = GadgetSpeaks
    BY <1>11, <1>13, <1>17 DEF GadgetSpeaks
  <1> HIDE DEF t
  <1> QED
    BY <1>3, <1>9, <1>10, <1>13, <1>14, <1>15, <1>16, <1>18 DEF OpensOnce

LEMMA GadgetMirrors ==
  ASSUME TInv, MirrorInv, FixedInRange, GadgetPrepare
  PROVE  Final' /\ GadgetMirrorsVerifier'
  <1>1. Final /\ Reading /\ UNCHANGED vars
    BY DEF GadgetPrepare, Final, Reading
  <1>2. /\ UNCHANGED <<csVars, features, claim, received, v_log, position, taken, v_queries>>
        /\ v_pc' = v_pc
    BY <1>1 DEF vars, proverVars, verifierVars
  <1>3. Final'
    BY <1>1, <1>2 DEF Final
  <1>4. Supported' => Supported
    <2>1. cs' = cs
      BY <1>2 DEF csVars
    <2> QED
      BY <1>2, <2>1 DEF Supported, WrongInstances, NoInstanceQuery, UnsupportedRotation,
         CommittedQueries, OpenedFixedQueries, IsOpened
  <1>5. ASSUME Supported
        PROVE  g_pc' # "panicked" /\ Mirrored'
    <2>1. /\ g_pc' = "prepared" /\ g_queries' = ClaimQueries
          /\ g_log' = GadgetSpeaks.log /\ g_taken' = GadgetSpeaks.taken
          /\ OpensOnce /\ IsSeq(received) /\ IsSeq(ClaimKeyed) /\ IsSeq(ClaimSpoken)
      BY <1>5, GadgetPrepares
    <2>2. PICK h : ReadsOn(h, received, ClaimKeyed, ClaimSpoken)
                   /\ GadgetSpeaks = h[Len(ClaimSpoken)]
      BY <2>1, GadgetReadsOn DEF GadgetSpeaks
    <2>3. PassesIn(h)
      BY <1>1, <2>1, <2>2 DEF MirrorInv, ReadsAsGadget
    <2>4. /\ IsPrefix(v_log, GadgetSpeaks.log) /\ IsPrefix(taken, GadgetSpeaks.taken)
          /\ v_pc = "complete" => GadgetSpeaks.log = v_log
          /\ v_pc = "rejected" /\ position = Len(received) =>
                 Default \in {GadgetSpeaks.taken[i][2] : i \in DOMAIN GadgetSpeaks.taken}
      BY <2>1, <2>2, <2>3, StandingMirrors
    <2>5. v_queries # <<>> => v_queries = ClaimQueries
      BY DEF MirrorInv, AsksOfClaim
    <2> QED
      BY <1>2, <2>1, <2>4, <2>5 DEF Mirrored
  <1> QED
    BY <1>3, <1>4, <1>5 DEF GadgetMirrorsVerifier

(* Nothing changes once both sides have ended.                             *)
LEMMA EndedStays ==
  ASSUME TInv, Final, Next
  PROVE  UNCHANGED vars
  <1>1. KeyInv /\ ProverInv /\ VerifierInv
    BY DEF TInv
  <1>2. p_pc = "done"
    BY <1>1 DEF Final, VerifierInv
  <1>3. phase = "keyed"
    BY <1>1, <1>2, ProofIsSaid
  <1>4. ~ NextConfiguration
    BY <1>3, KeyStays
  <1>5. ~ ProverActs
    BY <1>2, ProverFrame
  <1>6. ~ Deliver /\ ~ VerifierActs
    BY DEF Final, Deliver, VerifierActs, AbsorbClaim, ReadAdvices, ReadMultiplicities,
       ReadArguments, ReadQuotient, ReadEvals, MultiPrepare, VerifierPanics, AssertEmpty, VerifierAt
  <1> QED
    BY <1>4, <1>5, <1>6 DEF Next, ProverActs, VerifierActs

LEMMA EndedMirrors ==
  ASSUME GadgetMirrorsVerifier, UNCHANGED <<vars, gadgetVars>>
  PROVE  GadgetMirrorsVerifier'
  <1>1. /\ UNCHANGED <<csVars, claim, received, v_log, position, taken, v_queries, v_pc>>
        /\ UNCHANGED <<g_log, g_taken, g_queries, g_pc>>
    BY DEF vars, verifierVars, gadgetVars
  <1>2. cs' = cs
    BY <1>1 DEF csVars
  <1> QED
    BY <1>1, <1>2 DEF GadgetMirrorsVerifier, Mirrored, Supported, WrongInstances, NoInstanceQuery,
       UnsupportedRotation, CommittedQueries, OpenedFixedQueries, IsOpened

(* The verifier has read as the gadget would, and once the gadget has run  *)
(* the verifier has ended.                                                 *)
GadgetInv == /\ TInv /\ MirrorInv /\ FixedInRange
             /\ g_pc # "waiting" => Final /\ GadgetMirrorsVerifier

LEMMA InitGadget ==
  ASSUME GadgetInit
  PROVE  GadgetInv
  <1>1. Init /\ g_pc = "waiting"
    BY DEF GadgetInit
  <1>2. TInv
    BY <1>1, InitTranscripts
  <1>3. v_pc = "waiting" /\ v_queries = <<>> /\ phase = "configure"
    BY <1>1 DEF Init, InitConfiguration
  <1>4. MirrorInv /\ FixedInRange
    BY <1>3 DEF MirrorInv, ReadsAsGadget, AsksOfClaim, Reading, FixedInRange
  <1> QED
    BY <1>1, <1>2, <1>4 DEF GadgetInv

GadgetNext == \/ Next /\ UNCHANGED gadgetVars
              \/ GadgetPrepare

LEMMA NextGadget ==
  ASSUME GadgetInv, [GadgetNext]_<<vars, gadgetVars>>
  PROVE  GadgetInv'
  <1>1. TInv /\ MirrorInv /\ FixedInRange
    BY DEF GadgetInv
  <1>2. [Next]_vars
    BY DEF GadgetNext, GadgetPrepare
  <1>3. TInv' /\ MirrorInv' /\ FixedInRange'
    BY <1>1, <1>2, NextTranscripts, NextMirrors, NextRange
  <1>4. CASE GadgetPrepare
    BY <1>1, <1>3, <1>4, GadgetMirrors DEF GadgetInv
  <1>5. CASE [Next]_vars /\ UNCHANGED gadgetVars
    <2>1. g_pc' = g_pc
      BY <1>5 DEF gadgetVars
    <2>2. CASE g_pc = "waiting"
      BY <1>3, <2>1, <2>2 DEF GadgetInv
    <2>3. CASE g_pc # "waiting"
      <3>1. Final /\ GadgetMirrorsVerifier
        BY <2>3 DEF GadgetInv
      <3>2. UNCHANGED vars
        BY <1>1, <1>5, <3>1, EndedStays
      <3>3. Final'
        BY <3>1, <3>2 DEF Final, vars, verifierVars
      <3>4. GadgetMirrorsVerifier'
        BY <1>5, <3>1, <3>2, EndedMirrors
      <3> QED
        BY <1>3, <3>3, <3>4 DEF GadgetInv
    <2> QED
      BY <2>2, <2>3
  <1> QED
    BY <1>4, <1>5 DEF GadgetNext

(* Whatever the circuit, the statement, the proof and what is verified, the*)
(* verifier in a circuit absorbs, squeezes and asks what the verifier does,*)
(* if the circuit is one it supports, and reads a proof the verifier finds *)
(* too short with defaults (parse_trace, verify_algebraic_constraints).    *)
THEOREM GadgetAlwaysMirrors == GadgetSpec => []GadgetMirrorsVerifier
  <1>1. GadgetInit => GadgetInv
    BY InitGadget
  <1>2. GadgetInv /\ [GadgetNext]_<<vars, gadgetVars>> => GadgetInv'
    BY NextGadget
  <1>3. GadgetInv => GadgetMirrorsVerifier
    BY DEF GadgetInv, GadgetMirrorsVerifier
  <1> QED
    BY <1>1, <1>2, <1>3, PTL DEF GadgetSpec, GadgetNext
=============================================================================
