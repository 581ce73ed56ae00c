---------------------------- MODULE ForeignCommon ----------------------------
(***************************************************************************)
(* What the chips of foreign curves share                                  *)
(* (circuits/src/ecc/foreign/common.rs): the preparation of a multi-scalar *)
(* multiplication, and the dynamic lookup of tables of points.             *)
(*                                                                         *)
(* An assigned point has its cells and its value; equal constants have the *)
(* same cells, and a point with no name for its cells shares them with no  *)
(* other.  A scalar has its cells, its value and a bound on its bits.      *)
(***************************************************************************)
EXTENDS Integers, Sequences, SequencesExt

CONSTANTS Order,        \* of the scalars
          Identity,     \* a point, as a value
          Sum(_, _)     \* the assigned points that add may yield

UnionOver(S, op(_)) == UNION {op(s) : s \in S}
Assigned(cell, point) == [cell |-> cell, point |-> point]
Fresh(point)          == Assigned(<<>>, point)
FixedCell(point)      == <<-1, point>>
Fixed(point)          == Assigned(FixedCell(point), point)
OneCell               == <<-1, 1>>
IsOne(scalar)         == scalar.cell = OneCell
Scalar(cell, value, bound) == [cell |-> cell, value |-> value, bound |-> bound]
Wider(m, n)           == IF m > n THEN m ELSE n
-----------------------------------------------------------------------------
Known(pairs)  == SelectSeq(pairs, LAMBDA p : p.base.cell # FixedCell(Identity))
Aside(pair)   == IsOne(pair.scalar) \/ pair.scalar.bound = 1
PlusScalar(s, t) ==
    Scalar(s.cell \o t.cell, (s.value + t.value) % Order, Wider(s.bound, t.bound) + 1)

(* Equal bases add their scalars, and equal scalars add their bases.       *)
merge_bases(pairs) ==
    FoldLeft(LAMBDA acc, p :
               IF \E k \in DOMAIN acc : acc[k].base.cell = p.base.cell
               THEN [k \in DOMAIN acc |->
                       IF acc[k].base.cell = p.base.cell
                       THEN [acc[k] EXCEPT !.scalar = PlusScalar(@, p.scalar)] ELSE acc[k]]
               ELSE Append(acc, p),
             <<>>, pairs)
SameScalar(s, t) == s.cell = t.cell /\ s.bound = t.bound
merge_scalars(pairs) ==
    FoldLeft(LAMBDA accs, p :
               UnionOver(accs, LAMBDA acc :
                 LET same == {k \in DOMAIN acc : SameScalar(acc[k].scalar, p.scalar)}
                 IN  IF same = {} THEN {Append(acc, p)}
                     ELSE UNION {{[acc EXCEPT ![k].base = r] : r \in Sum(acc[k].base, p.base)} : k \in same}),
             {<<>>}, pairs)
msm_preprocess(pairs) ==
    {[pairs |-> merged, aside |-> SelectSeq(Known(pairs), Aside)] :
       merged \in merge_scalars(merge_bases(SelectSeq(Known(pairs), LAMBDA p : ~Aside(p))))}

add_1bit_scalar_bases(aside, acc) ==
    FoldLeft(LAMBDA accs, p :
               UnionOver(accs, LAMBDA a :
                 Sum(a, IF IsOne(p.scalar) THEN p.base
                        ELSE Fresh(IF p.scalar.value = 0 THEN Identity ELSE p.base.point))),
             {acc}, aside)
-----------------------------------------------------------------------------
(* The rows of the lookup: <<tag, index, point>>.                          *)
load_multi_select_table(rows, table, tag) == rows \cup {<<tag, i - 1, table[i]>> : i \in DOMAIN table}
multi_select(rows, index, tag) == {row[3] : row \in {w \in rows : w[1] = tag /\ w[2] = index}}
=============================================================================
