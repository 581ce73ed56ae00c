----------------------------- MODULE EdwardsGroup -----------------------------
(***************************************************************************)
(* A twisted Edwards curve A x^2 + y^2 = 1 + D x^2 y^2 with A a square and *)
(* D none, so that its addition law is complete.  Points are <<x, y>>.     *)
(***************************************************************************)
EXTENDS Integers, FiniteSets, Sequences, SequencesExt

CONSTANTS BaseModulus, A, D,    \* of the curve
          Order, COFACTOR,      \* of the subgroup, and its index
          Generator             \* of the subgroup

F        == 0 .. BaseModulus - 1
Residue(n) == n % BaseModulus
Identity == <<0, 1>>
OnCurve(p) == Residue(A * p[1] * p[1] + p[2] * p[2] - 1 - D * Residue(p[1] * p[1]) * Residue(p[2] * p[2])) = 0
Curve    == {p \in F \X F : OnCurve(p)}
legendre(n) == IF Residue(n) = 0 THEN 0 ELSE IF \E r \in F : Residue(r * r - n) = 0 THEN 1 ELSE -1
Quotient(n, d) == CHOOSE r \in F : Residue(r * d - n) = 0

GroupAdd(p, q) ==
    LET w == Residue(D * Residue(p[1] * q[1]) * Residue(p[2] * q[2]))
    IN  <<Quotient(p[1] * q[2] + p[2] * q[1], 1 + w), Quotient(p[2] * q[2] - A * p[1] * q[1], 1 - w)>>
GroupNegate(p) == <<Residue(-p[1]), p[2]>>
Times(n, p) == LET t[i \in 0 .. n] == IF i = 0 THEN Identity ELSE GroupAdd(t[i - 1], p) IN t[n]
Subgroup    == {Times(n, Generator) : n \in 0 .. Order - 1}
SumOfTerms(terms) == FoldLeft(LAMBDA acc, t : GroupAdd(acc, Times(t[1], t[2])), Identity, terms)
=============================================================================
