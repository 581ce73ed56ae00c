------------------------------ MODULE RowsProofs ------------------------------
(***************************************************************************)
(* Proofs about the rows of a circuit.  Lookup tables: what a finished     *)
(* table offers to the lookup argument is what its closure assigned, and   *)
(* no later call changes it, for every set of columns and values and every *)
(* number of rows.  Sizes: the k determined for a circuit has room for it  *)
(* and is the least that has, for every circuit and every number of        *)
(* blinding factors.  Plans: regions take the earliest rows that are free  *)
(* in all their columns and never share a cell, and constants fill cells   *)
(* that regions leave, for every circuit and every set of columns.         *)
(***************************************************************************)
EXTENDS TableLayouter, CircuitSizing, V1Planner, SequenceTheorems

(* A finished table holds its closure's rows, and its top row below them;  *)
(* its columns are used, and those of an open table are not.  A cell of an *)
(* open table that counts as assigned holds what the closure gave it.      *)
FinishedRows ==
    \A t \in tables :
        /\ t.columns \subseteq table_columns
        /\ t.length \in 1 .. UsableRows - 1
        /\ \A c \in t.columns, row \in Usable :
              fixed[c][row] = written[c][IF row < t.length THEN row ELSE 0]
OpenRows ==
    pc = "inside" =>
        /\ Touched \cap table_columns = {}
        /\ \A c \in Touched :
              /\ default[c] # None => 0 \in assigned[c] /\ default[c] = fixed[c][0]
              /\ \A row \in assigned[c] : fixed[c][row] = written[c][row]

IInv == TypeOK /\ FinishedRows /\ OpenRows

(* A set of rows without a gap is the interval from zero of its size: what *)
(* compute_table_lengths takes for the length of a column.                 *)
LEMMA GaplessIsInterval ==
  ASSUME NEW N \in Nat, NEW S \in SUBSET (0 .. N - 1),
         \A low, high \in 0 .. N - 1 : high \in S /\ low <= high => low \in S
  PROVE  Cardinality(S) \in 0 .. N /\ S = 0 .. Cardinality(S) - 1
  <1> DEFINE Out == Nat \ S
  <1>1. Out # {} /\ Out \subseteq Nat
    <2>1. N \in Out
      OBVIOUS
    <2> QED
      BY <2>1
  <1>2. PICK m \in Out : \A y \in Out : ~ (<<y, m>> \in OpToRel(<, Nat))
    BY <1>1, WFMin, NatLessThanWellFounded
  <1>3. \A y \in Out : ~ (y < m)
    BY <1>1, <1>2 DEF OpToRel
  <1>4. 0 .. m - 1 \subseteq S
    BY <1>3
  <1>5. S \subseteq 0 .. m - 1
    <2>1. SUFFICES ASSUME NEW x \in S, m <= x
                   PROVE  FALSE
      OBVIOUS
    <2>2. m \in 0 .. N - 1
      BY <2>1
    <2> QED
      BY <2>1, <2>2
  <1>6. S = 0 .. m - 1
    BY <1>4, <1>5
  <1>7. Cardinality(0 .. m - 1) = m
    BY <1>1, FS_Interval
  <1>8. m <= N
    BY <1>3
  <1> QED
    BY <1>6, <1>7, <1>8
-----------------------------------------------------------------------------
LEMMA InitIInv == Init => IInv
  BY TableValues, TableRows
  DEF Init, IInv, TypeOK, FinishedRows, OpenRows, Usable, NoColumns, Touched

(* The calls that assign a cell, whether the layouter then accepts it.     *)
LEMMA AssignCellIInv ==
  ASSUME IInv, NEW c \in TableColumns, NEW offset \in 0 .. UsableRows, NEW v \in Values,
         AssignCell(c, offset, v)
  PROVE  IInv'
  <1> USE TableValues, TableRows
  <1> DEFINE touched == Touched \cup {c}
  <1>1. /\ c \notin table_columns /\ offset \in Usable
        /\ pc = "inside" /\ pc' = pc /\ error' = error
        /\ table_columns' = table_columns /\ tables' = tables
    BY DEF AssignCell, Used
  <1>2. /\ fixed' = [fixed EXCEPT ![c][offset] = v]
        /\ written' = [written EXCEPT ![c][offset] = v]
    BY DEF AssignCell, Write
  <1>3. DOMAIN default' = touched /\ DOMAIN assigned' = touched
    BY DEF AssignCell, Defaults, Offsets, Entry, IInv, TypeOK, Touched
  <1>4. \A d \in touched :
          /\ default'[d] = IF d = c /\ offset = 0 THEN v ELSE Defaults(c)[d]
          /\ assigned'[d] = IF d = c THEN Offsets(c)[c] \cup {offset} ELSE assigned[d]
          /\ Defaults(c)[d] = IF d \in Touched THEN default[d] ELSE None
          /\ Offsets(c)[d] = IF d \in Touched THEN assigned[d] ELSE {}
    BY DEF AssignCell, Defaults, Offsets, Entry, NewDefault, IInv, TypeOK, Touched
  <1>5. TypeOK'
    BY <1>1, <1>2, <1>3, <1>4 DEF IInv, TypeOK, Touched
  <1>6. FinishedRows'
    BY <1>1, <1>2 DEF IInv, TypeOK, FinishedRows
  <1>7. OpenRows'
    <2>1. SUFFICES ASSUME NEW d \in touched
                   PROVE  /\ d \notin table_columns
                          /\ default'[d] # None => 0 \in assigned'[d] /\ default'[d] = fixed'[d][0]
                          /\ \A row \in assigned'[d] : fixed'[d][row] = written'[d][row]
      BY <1>1, <1>3 DEF OpenRows, Touched
    <2>2. CASE d # c
      BY <1>1, <1>2, <1>4, <2>2 DEF IInv, TypeOK, OpenRows, Usable
    <2>3. CASE d = c
      <3>1. offset = 0 => Defaults(c)[c] = None
        BY DEF AssignCell
      <3>2. 0 \in Usable
        BY DEF Usable
      <3>3. d \notin table_columns
        BY <1>1, <2>3
      <3>4. default'[d] # None => 0 \in assigned'[d] /\ default'[d] = fixed'[d][0]
        BY <1>1, <1>2, <1>4, <2>3, <3>1, <3>2 DEF IInv, TypeOK, OpenRows
      <3>5. \A row \in assigned'[d] : fixed'[d][row] = written'[d][row]
        BY <1>1, <1>2, <1>4, <2>3, <3>2 DEF IInv, TypeOK, OpenRows
      <3> QED
        BY <3>3, <3>4, <3>5
    <2> QED
      BY <2>2, <2>3
  <1> QED
    BY <1>5, <1>6, <1>7 DEF IInv

LEMMA RefuseDefaultIInv ==
  ASSUME IInv, NEW c \in TableColumns, NEW v \in Values, RefuseDefault(c, v)
  PROVE  IInv'
  <1> USE TableValues, TableRows
  <1>1. 0 \in Usable
    BY DEF Usable
  <1>2. TypeOK'
    BY <1>1 DEF RefuseDefault, Write, Fail, current, IInv, TypeOK, Touched
  <1>3. FinishedRows'
    BY <1>1 DEF RefuseDefault, Write, Used, IInv, TypeOK, FinishedRows
  <1>4. OpenRows'
    BY DEF RefuseDefault, Fail, OpenRows
  <1> QED
    BY <1>2, <1>3, <1>4 DEF IInv

(* The end of a table that is accepted: its columns are the intervals of   *)
(* one length, and are filled below it with their first row.               *)
LEMMA AcceptedTable ==
  ASSUME IInv, pc = "inside", Accepted, NEW c \in Touched
  PROVE  /\ FirstUnused \in 1 .. UsableRows
         /\ assigned[c] = 0 .. FirstUnused - 1
         /\ default[c] = fixed[c][0] /\ fixed[c][0] = written[c][0]
  <1>1. Complete(c)
    BY DEF Accepted
  <1>2. assigned[c] \subseteq 0 .. UsableRows - 1
    BY DEF IInv, TypeOK, Usable
  <1>3. \A low, high \in 0 .. UsableRows - 1 : high \in assigned[c] /\ low <= high => low \in assigned[c]
    BY <1>1 DEF Complete, Usable
  <1>4. Length(c) \in 0 .. UsableRows /\ assigned[c] = 0 .. Length(c) - 1
    BY <1>2, <1>3, GaplessIsInterval, TableRows DEF Length
  <1>5. 0 \in assigned[c] /\ default[c] = fixed[c][0] /\ fixed[c][0] = written[c][0]
    BY <1>1 DEF Complete, IInv, OpenRows
  <1>6. FirstUnused = Length(c)
    BY DEF Accepted, Uneven, FirstUnused
  <1> QED
    BY <1>4, <1>5, <1>6, TableRows

LEMMA EndTableIInv ==
  ASSUME IInv, EndTable
  PROVE  IInv'
  <1> USE TableValues, TableRows
  <1>1. pc = "inside" /\ Accepted /\ (Touched = {} \/ FirstUnused \in Usable)
    BY DEF EndTable
  <1>2. \A c \in Touched : /\ FirstUnused \in 1 .. UsableRows - 1
                           /\ assigned[c] = 0 .. FirstUnused - 1
                           /\ default[c] = fixed[c][0] /\ fixed[c][0] = written[c][0]
    BY <1>1, AcceptedTable DEF Usable
  <1>3. /\ fixed' = [c \in TableColumns |-> IF c \in Touched THEN Fill(c) ELSE fixed[c]]
        /\ table_columns' = table_columns \cup Touched /\ written' = written /\ error' = error
        /\ pc' = "outside" /\ default' = NoColumns /\ assigned' = NoColumns
    BY DEF EndTable, RecordColumns
  <1>4. Touched \subseteq TableColumns
    BY DEF IInv, TypeOK
  <1>5. \A c \in Touched, row \in Usable :
          fixed'[c][row] = written[c][IF row < FirstUnused THEN row ELSE 0]
    <2>1. SUFFICES ASSUME NEW c \in Touched, NEW row \in Usable
                   PROVE  Fill(c)[row] = written[c][IF row < FirstUnused THEN row ELSE 0]
      BY <1>3, <1>4
    <2>2. Fill(c)[row] = IF row >= FirstUnused THEN default[c] ELSE fixed[c][row]
      BY DEF Fill
    <2>3. row < FirstUnused => row \in assigned[c]
      BY <1>2 DEF Usable
    <2> QED
      BY <1>1, <1>2, <2>2, <2>3 DEF IInv, OpenRows, Usable
  <1>6. \A t \in tables' :
          \/ t \in tables
          \/ Touched # {} /\ t = [columns |-> Touched, length |-> FirstUnused]
    BY DEF EndTable
  <1>7. \A c \in table_columns : c \notin Touched
    BY <1>1 DEF IInv, OpenRows
  <1>8. FinishedRows'
    <2>1. SUFFICES ASSUME NEW t \in tables'
                   PROVE  /\ t.columns \subseteq table_columns'
                          /\ t.length \in 1 .. UsableRows - 1
                          /\ \A c \in t.columns, row \in Usable :
                                fixed'[c][row] = written[c][IF row < t.length THEN row ELSE 0]
      BY <1>3 DEF FinishedRows
    <2>2. CASE t \in tables
      <3>1. t.columns \subseteq table_columns /\ t.columns \subseteq TableColumns
        BY <2>2 DEF IInv, FinishedRows, TypeOK
      <3>2. \A c \in t.columns : fixed'[c] = fixed[c]
        BY <1>3, <1>7, <3>1
      <3> QED
        BY <1>3, <2>2, <3>1, <3>2 DEF IInv, FinishedRows
    <2>3. CASE Touched # {} /\ t = [columns |-> Touched, length |-> FirstUnused]
      BY <1>2, <1>3, <1>5, <2>3
    <2> QED
      BY <1>6, <2>2, <2>3
  <1>9. TypeOK'
    <2>1. \A c \in Touched : Fill(c) \in [Usable -> Values]
      <3>1. SUFFICES ASSUME NEW c \in Touched, NEW row \in Usable
                     PROVE  (IF row >= FirstUnused THEN default[c] ELSE fixed[c][row]) \in Values
        BY DEF Fill
      <3>2. 0 \in Usable
        BY DEF Usable
      <3> QED
        BY <1>2, <1>4, <3>1, <3>2 DEF IInv, TypeOK
    <2>2. fixed' \in [TableColumns -> [Usable -> Values]]
      BY <1>3, <2>1 DEF IInv, TypeOK
    <2>3. \A t \in tables' : t.columns \subseteq table_columns' /\ t.length \in Usable
      BY <1>8 DEF FinishedRows, Usable
    <2>4. (pc' = "failed") <=> (error' # "none")
      BY <1>1, <1>3 DEF IInv, TypeOK
    <2> QED
      BY <1>3, <1>4, <2>2, <2>3, <2>4 DEF IInv, TypeOK, NoColumns, Touched
  <1>10. OpenRows'
    BY <1>3 DEF OpenRows
  <1> QED
    BY <1>8, <1>9, <1>10 DEF IInv

(* The other steps change no cell.                                         *)
LEMMA OtherStepsIInv ==
  ASSUME IInv,
         \/ BeginTable \/ RefuseTable \/ RefuseFill
         \/ \E c \in TableColumns :
               RefuseUsedColumn(c) \/ \E offset \in 0 .. UsableRows : RefuseRow(c, offset)
  PROVE  IInv'
  <1> USE TableValues, TableRows
  <1>1. CASE BeginTable
    BY <1>1 DEF BeginTable, IInv, TypeOK, FinishedRows, OpenRows, NoColumns, Touched
  <1>2. CASE RefuseTable
    BY <1>2 DEF RefuseTable, Fail, current, IInv, TypeOK, FinishedRows, OpenRows, Touched
  <1>3. CASE RefuseFill
    BY <1>3 DEF RefuseFill, RecordColumns, Fail, current, IInv, TypeOK, FinishedRows, OpenRows, Touched
  <1>4. ASSUME NEW c \in TableColumns, RefuseUsedColumn(c)
        PROVE  IInv'
    BY <1>4 DEF RefuseUsedColumn, Fail, IInv, TypeOK, FinishedRows, OpenRows, Touched
  <1>5. ASSUME NEW c \in TableColumns, NEW offset \in 0 .. UsableRows, RefuseRow(c, offset)
        PROVE  IInv'
    <2>1. /\ DOMAIN default' = Touched \cup {c} /\ DOMAIN assigned' = Touched \cup {c}
          /\ \A d \in Touched \cup {c} : /\ default'[d] \in Values \cup {None}
                                         /\ assigned'[d] \subseteq Usable
      BY <1>5 DEF RefuseRow, Defaults, Offsets, Entry, IInv, TypeOK, Touched
    <2>2. TypeOK'
      BY <1>5, <2>1 DEF RefuseRow, Fail, IInv, TypeOK, Touched
    <2> QED
      BY <1>5, <2>2 DEF RefuseRow, Fail, IInv, FinishedRows, OpenRows
  <1> QED
    BY <1>1, <1>2, <1>3, <1>4, <1>5

LEMMA IInvInductive == IInv /\ [Next]_vars => IInv'
  <1> SUFFICES ASSUME IInv, [Next]_vars
               PROVE  IInv'
    OBVIOUS
  <1>1. CASE Next
    BY <1>1, AssignCellIInv, RefuseDefaultIInv, EndTableIInv, OtherStepsIInv DEF Next
  <1>2. CASE UNCHANGED vars
    BY <1>2 DEF vars, current, IInv, TypeOK, FinishedRows, OpenRows, Touched
  <1> QED
    BY <1>1, <1>2

LEMMA AlwaysIInv == Spec => []IInv
  BY InitIInv, IInvInductive, PTL DEF Spec
-----------------------------------------------------------------------------
(* The state of the layouter and of the assembly is always typed.          *)
THEOREM TypeCorrect == Spec => []TypeOK
  <1>1. IInv => TypeOK
    BY DEF IInv
  <1> QED
    BY <1>1, AlwaysIInv, PTL

(* The tuples a finished table offers to the lookup argument over all the  *)
(* usable rows are those its closure assigned, neither more nor less.      *)
THEOREM TablesAreFilled == Spec => []TableFilled
  <1>1. IInv => TableFilled
    <2> SUFFICES ASSUME IInv
                 PROVE  TableFilled
      OBVIOUS
    <2>1. ASSUME NEW t \in tables
          PROVE  {Tuple(fixed, t, row) : row \in Usable}
                   = {Tuple(written, t, row) : row \in 0 .. t.length - 1}
      <3>1. \A row \in Usable :
              Tuple(fixed, t, row) = Tuple(written, t, IF row < t.length THEN row ELSE 0)
        BY DEF IInv, FinishedRows, Tuple
      <3>2. t.length \in 1 .. UsableRows - 1
        BY DEF IInv, FinishedRows
      <3>3. \A row \in Usable : (IF row < t.length THEN row ELSE 0) \in 0 .. t.length - 1
        BY <3>2, TableRows DEF Usable
      <3>4. \A row \in 0 .. t.length - 1 : row \in Usable /\ row < t.length
        BY <3>2, TableRows DEF Usable
      <3> QED
        BY <3>1, <3>3, <3>4
    <2>2. DefaultIsTopRow
      BY DEF IInv, OpenRows, DefaultIsTopRow
    <2> QED
      BY <2>1, <2>2 DEF TableFilled
  <1> QED
    BY <1>1, AlwaysIInv, PTL

(* No step, one that ends in an error included, changes a cell of a        *)
(* column of a finished table.                                             *)
THEOREM FinishedTablesAreFrozen == Spec => FinishedTablesFrozen
  <1> DEFINE Frozen == \A t \in tables : \A c \in t.columns : fixed'[c] = fixed[c]
  <1>1. IInv /\ [Next]_vars => [Frozen]_vars
    <2> SUFFICES ASSUME IInv, Next, NEW t \in tables, NEW c \in t.columns
                 PROVE  fixed'[c] = fixed[c]
      OBVIOUS
    <2>1. c \in table_columns /\ c \in TableColumns
      BY DEF IInv, FinishedRows, TypeOK
    <2>2. ASSUME NEW d \in TableColumns, NEW offset \in 0 .. UsableRows, NEW v \in Values,
                 AssignCell(d, offset, v)
          PROVE  fixed'[c] = fixed[c]
      BY <2>1, <2>2 DEF AssignCell, Write, Used, IInv, TypeOK
    <2>3. ASSUME NEW d \in TableColumns, NEW v \in Values, RefuseDefault(d, v)
          PROVE  fixed'[c] = fixed[c]
      BY <2>1, <2>3 DEF RefuseDefault, Write, Used, IInv, TypeOK
    <2>4. CASE EndTable
      BY <2>1, <2>4 DEF EndTable, IInv, OpenRows
    <2> QED
      BY <2>2, <2>3, <2>4
      DEF Next, BeginTable, RefuseTable, RefuseFill, RefuseUsedColumn, RefuseRow, current
  <1> QED
    BY <1>1, AlwaysIInv, PTL DEF Spec, FinishedTablesFrozen
-----------------------------------------------------------------------------
(* Largest and Least, of sets of which a bound is known.                   *)
LEMMA LargestIs ==
  ASSUME NEW b \in Nat, NEW S \in SUBSET (-b .. b)
  PROVE  /\ Largest(S) \in S \cup {0}
         /\ \A m \in S : m <= Largest(S)
  <1>1. IsFiniteSet(-b .. b) /\ 0 \in -b .. b
    BY FS_Interval
  <1>2. IsFiniteSet(S)
    BY <1>1, FS_Subset
  <1>3. IsFiniteSet(S \cup {0})
    BY <1>2, FS_AddElement
  <1>4. \E n \in S \cup {0} : \A m \in S \cup {0} : m <= n
    <2>1. S \cup {0} \in SUBSET Int /\ S \cup {0} # {}
      OBVIOUS
    <2> QED
      BY <1>3, <2>1, LargestOfSet
  <1> QED
    BY <1>4 DEF Largest

LEMMA LeastIs ==
  ASSUME NEW S \in SUBSET Nat, S # {}
  PROVE  Least(S) \in S /\ \A m \in S : Least(S) <= m
  BY LeastOfSet DEF Least

LEMMA RowsHaveABound ==
  ASSUME NEW S \in SUBSET Nat, IsFiniteSet(S)
  PROVE  \E b \in Nat : S \subseteq 0 .. b
  <1>1. CASE S = {}
    BY <1>1
  <1>2. CASE S # {}
    <2>1. PICK n \in S : \A m \in S : m <= n
      BY <1>2, LargestOfSet
    <2> QED
      BY <2>1
  <1> QED
    BY <1>1, <1>2

LEMMA NextPowerIs ==
  ASSUME NEW n \in Nat
  PROVE  LET e == NextPowerOfTwo(n)
         IN  e \in Nat /\ Pow2[e] \in Nat /\ Pow2[e] >= n
             /\ (e = 0 \/ (Pow2[e - 1] \in Nat /\ Pow2[e - 1] < n))
  <1> DEFINE S == {e \in Nat : Pow2[e] >= n}
  <1>1. n \in S
    BY Pow2Grows
  <1>2. PICK e \in S : \A d \in S : e <= d
    <2>1. S # {}
      BY <1>1
    <2> QED
      BY <2>1, LeastOfSet
  <1>3. e \in 0 .. n
    BY <1>1, <1>2
  <1>4. e = 0 \/ Pow2[e - 1] < n
    <2>1. CASE e # 0
      <3>1. e - 1 \in Nat /\ ~ (e <= e - 1)
        BY <1>2, <2>1
      <3>2. e - 1 \notin S /\ Pow2[e - 1] \in Nat
        BY <1>2, <3>1, Pow2Defined
      <3> QED
        BY <3>1, <3>2
    <2> QED
      BY <2>1
  <1> DEFINE f == NextPowerOfTwo(n)
  <1>5. f \in 0 .. n /\ Pow2[f] >= n /\ (f = 0 \/ Pow2[f - 1] < n)
    BY <1>2, <1>3, <1>4 DEF NextPowerOfTwo
  <1> HIDE DEF f
  <1>6. f = 0 \/ f - 1 \in Nat
    BY <1>5
  <1> QED
    BY <1>5, <1>6, Pow2Defined DEF f
-----------------------------------------------------------------------------
CallKinds == {"advice", "fixed", "selector", "constant", "copy", "instance", "fill"}
CallType  == CallKinds \X Nat
Extents   == [start : Nat, end : Nat, only_fixed : BOOLEAN, is_measured : BOOLEAN]

SizingTypeOK ==
    /\ calls \subseteq CallType
    /\ ncalls \in Nat /\ next_constant_row \in Nat /\ instance_rows \in Nat /\ max_row \in Nat
    /\ regions \subseteq Extents
    /\ in_measured_region \in BOOLEAN /\ has_measured_regions \in BOOLEAN
    /\ k \in Nat \cup {Unsized} /\ sizer_k \in Nat \cup {Unsized}
    /\ stage \in {"synthesis", "sized", "keyed", "proved", "refused"}

(* What the two backends remember of the calls: every row that was named   *)
(* is within an extent, the instance rows or max_row, and each of those is *)
(* as large as some call made it.                                          *)
IsAssigned(c) == c[1] \in {"advice", "fixed"}

CallsRemembered ==
    \A c \in calls : /\ IsAssigned(c) => \E r \in regions : c[2] <= r.end
                     /\ c[1] = "instance" => c[2] < instance_rows
                     /\ c[1] # "fill" => c[2] <= max_row
ExtentsReached ==
    /\ \A r \in regions : \E c \in calls : IsAssigned(c) /\ c[2] = r.end
    /\ instance_rows # 0 => \E c \in calls : c[1] = "instance" /\ c[2] = instance_rows - 1
SizesComputed ==
    stage # "synthesis" => /\ k = NextPowerOfTwo(MinCircuitSize)
                           /\ sizer_k = NextPowerOfTwo(RequiredN)

SizingIInv == SizingTypeOK /\ CallsRemembered /\ ExtentsReached /\ SizesComputed

LEMMA SizingInitIInv == SizingInit => SizingIInv
  <1> SUFFICES ASSUME SizingInit
               PROVE  SizingIInv
    OBVIOUS
  <1>1. SizingTypeOK
    BY DEF SizingInit, SizingTypeOK
  <1>2. CallsRemembered /\ ExtentsReached /\ SizesComputed
    BY DEF SizingInit, CallsRemembered, ExtentsReached, SizesComputed
  <1> QED
    BY <1>1, <1>2 DEF SizingIInv

(* The extents end at rows that were named.                                *)
LEMMA ExtentsAreNamed ==
  ASSUME SizingIInv
  PROVE  \A r \in regions : r.end \in 0 .. max_row
  <1> SUFFICES ASSUME NEW r \in regions
               PROVE  r.end \in 0 .. max_row
    OBVIOUS
  <1>1. PICK c \in calls : IsAssigned(c) /\ c[2] = r.end
    BY DEF SizingIInv, ExtentsReached
  <1>2. c[1] # "fill" /\ c[2] <= max_row
    BY <1>1 DEF SizingIInv, CallsRemembered, IsAssigned
  <1>3. r.end \in Nat /\ max_row \in Nat
    BY DEF SizingIInv, SizingTypeOK, Extents
  <1> QED
    BY <1>1, <1>2, <1>3

LEMMA LargestRows ==
  ASSUME NEW b \in Nat, NEW S \in SUBSET (0 .. b)
  PROVE  Largest(S) \in 0 .. b /\ \A m \in S : m <= Largest(S)
  <1>1. S \in SUBSET (-b .. b)
    OBVIOUS
  <1>2. Largest(S) \in S \cup {0} /\ \A m \in S : m <= Largest(S)
    BY <1>1, LargestIs
  <1>3. \A n \in S \cup {0} : n \in 0 .. b
    OBVIOUS
  <1> QED
    BY <1>2, <1>3

(* The size DevAssembly computes, and RowSizer's.                          *)
CostRows == {r.end + 1 : r \in regions} \cup {instance_rows}

LEMMA MinCircuitSizeIs ==
  ASSUME SizingIInv, ~has_measured_regions
  PROVE  /\ MinCircuitSize \in Nat /\ MinCircuitSize >= MinimumRows + 1
         /\ \A n \in CostRows : MinCircuitSize >= n + BlindingFactors + 1
         /\ MinCircuitSize > MinimumRows + 1 =>
                \E n \in CostRows : n # 0 /\ MinCircuitSize = n + BlindingFactors + 1
  <1> DEFINE others == {r.end + 1 : r \in OtherRegions}
             rows   == TableRowCounts \cup {RowsCount, instance_rows}
             sizes  == {n + BlindingFactors + 1 : n \in rows}
             b      == max_row + instance_rows + BlindingFactors + 10
  <1>1. BlindingFactors \in Nat /\ max_row \in Nat /\ instance_rows \in Nat /\ MinimumRows \in Nat
    BY SizesAssumption DEF SizingIInv, SizingTypeOK, MinimumRows
  <1>2. \A r \in regions : r.end \in 0 .. max_row
    BY ExtentsAreNamed
  <1>3. RowsCount = Largest(others)
    BY DEF RowsCount, Measured
  <1>4. others \in SUBSET (0 .. max_row + 1) /\ TableRowCounts \in SUBSET (0 .. max_row + 1)
    BY <1>1, <1>2 DEF OtherRegions, TableRowCounts
  <1>5. /\ Largest(others) \in 0 .. max_row + 1 /\ \A m \in others : m <= Largest(others)
        /\ Largest(others) \in others \cup {0}
    <2>1. max_row + 1 \in Nat /\ others \in SUBSET (-(max_row + 1) .. max_row + 1)
      BY <1>1, <1>4
    <2> HIDE DEF others
    <2> QED
      BY <1>1, <1>4, <2>1, LargestRows, LargestIs
  <1>6. \A r \in regions : r.end + 1 \in TableRowCounts \/ r.end + 1 \in others
    BY DEF OtherRegions, TableRowCounts
  <1>7. \A m \in others : m \in CostRows
    BY DEF OtherRegions, CostRows
  <1>8. TableRowCounts \subseteq CostRows
    BY DEF TableRowCounts, CostRows
  <1>9. MinCircuitSize = Largest(sizes \cup {MinimumRows + 1})
    BY DEF MinCircuitSize
  <1> HIDE DEF others
  <1>10. rows \in SUBSET (0 .. max_row + 1 + instance_rows)
    <2>1. RowsCount \in 0 .. max_row + 1
      BY <1>3, <1>5
    <2>2. \A n \in 0 .. max_row + 1 : n \in 0 .. max_row + 1 + instance_rows
      BY <1>1
    <2>3. instance_rows \in 0 .. max_row + 1 + instance_rows
      BY <1>1
    <2> QED
      BY <1>4, <2>1, <2>2, <2>3
  <1>11. sizes \cup {MinimumRows + 1} \in SUBSET (-b .. b) /\ b \in Nat
    BY <1>1, <1>10 DEF MinimumRows
  <1> DEFINE size == MinCircuitSize
  <1> HIDE DEF b, sizes
  <1>12. size \in sizes \cup {MinimumRows + 1, 0} /\ \A m \in sizes \cup {MinimumRows + 1} : m <= size
    BY <1>9, <1>11, LargestIs
  <1> USE DEF sizes
  <1> HIDE DEF size, rows
  <1>13. size \in Nat /\ size >= MinimumRows + 1
    BY <1>1, <1>10, <1>12
  <1>14. \A n \in rows : size >= n + BlindingFactors + 1
    BY <1>12
  <1>15. \A n \in CostRows : size >= n + BlindingFactors + 1
    <2>1. SUFFICES ASSUME NEW n \in CostRows
                   PROVE  size >= n + BlindingFactors + 1
      OBVIOUS
    <2>2. CASE n = instance_rows
      BY <1>14, <2>2 DEF rows
    <2>3. CASE n \in TableRowCounts
      BY <1>14, <2>3 DEF rows
    <2>4. CASE n \in others
      <3>1. n <= RowsCount /\ n \in Nat /\ RowsCount \in Nat
        BY <1>1, <1>3, <1>4, <1>5, <2>4
      <3>2. size >= RowsCount + BlindingFactors + 1
        BY <1>14 DEF rows
      <3> QED
        BY <1>1, <1>13, <3>1, <3>2
    <2> QED
      BY <1>6, <2>2, <2>3, <2>4 DEF CostRows
  <1>16. size > MinimumRows + 1 =>
             \E n \in CostRows : n # 0 /\ size = n + BlindingFactors + 1
    <2>1. SUFFICES ASSUME size > MinimumRows + 1
                   PROVE  \E n \in CostRows : n # 0 /\ size = n + BlindingFactors + 1
      OBVIOUS
    <2>2. PICK n \in rows : size = n + BlindingFactors + 1
      BY <1>1, <1>12, <1>13, <2>1
    <2>3. n \in Nat /\ n # 0
      BY <1>1, <1>10, <2>1, <2>2 DEF MinimumRows
    <2>4. n \in CostRows
      BY <1>3, <1>5, <1>7, <1>8, <2>2, <2>3 DEF rows, CostRows
    <2> QED
      BY <2>2, <2>3, <2>4
  <1> QED
    BY <1>13, <1>15, <1>16 DEF size

LEMMA RequiredNIs ==
  ASSUME SizingIInv
  PROVE  RequiredN \in Nat /\ RequiredN >= max_row + BlindingFactors + 2 + MaxRotation
  <1> DEFINE m == max_row + BlindingFactors + 2 + MaxRotation
  <1>1. BlindingFactors \in Nat /\ max_row \in Nat /\ MaxRotation \in Nat /\ MinimumRows \in Nat
    BY SizesAssumption DEF SizingIInv, SizingTypeOK, MinimumRows
  <1>2. m \in Nat /\ m + MinimumRows \in Nat /\ {m, MinimumRows} \in SUBSET (0 .. m + MinimumRows)
    BY <1>1
  <1> HIDE DEF m
  <1>3. Largest({m, MinimumRows}) \in 0 .. m + MinimumRows /\ m <= Largest({m, MinimumRows})
    BY <1>2, LargestRows
  <1> QED
    BY <1>3 DEF RequiredN, m
-----------------------------------------------------------------------------
LEMMA CallsMade ==
  ASSUME SizingIInv, NEW new \in SUBSET CallType, NEW b \in Nat, \A c \in new : c[2] <= b,
         MakeCalls(new)
  PROVE  /\ calls' = calls \cup new /\ calls' \subseteq CallType /\ ncalls' \in Nat
         /\ max_row' \in Nat
         /\ \A c \in calls' : c[1] # "fill" => c[2] <= max_row'
         /\ k' = k /\ sizer_k' = sizer_k /\ stage' = stage
  <1> DEFINE rows == {max_row} \cup {c[2] : c \in {d \in new : d[1] # "fill"}}
             all  == max_row + b
  <1>1. max_row \in Nat /\ calls \subseteq CallType /\ ncalls \in Nat
    BY DEF SizingIInv, SizingTypeOK
  <1>2. \A c \in CallType : c[2] \in Nat
    BY DEF CallType
  <1>3. \A c \in new : c[2] \in 0 .. all
    BY <1>1, <1>2
  <1>4. max_row \in 0 .. all /\ all \in Nat
    BY <1>1
  <1>5. rows \in SUBSET (0 .. all)
    BY <1>3, <1>4
  <1>6. max_row' = Largest(rows)
    BY DEF MakeCalls
  <1>7. \A c \in new : c[1] # "fill" => c[2] \in rows
    OBVIOUS
  <1>8. max_row \in rows
    OBVIOUS
  <1> HIDE DEF rows, all
  <1>9. max_row' \in 0 .. all /\ \A m \in rows : m <= max_row'
    BY <1>4, <1>5, <1>6, LargestRows
  <1>10. \A c \in calls : c[1] # "fill" => c[2] <= max_row /\ c[2] \in Nat
    BY <1>1, <1>2 DEF SizingIInv, CallsRemembered
  <1>11. calls' = calls \cup new /\ ncalls' = ncalls + 1
    BY DEF MakeCalls
  <1>12. \A c \in calls' : c[1] # "fill" => c[2] <= max_row'
    <2>1. max_row <= max_row' /\ max_row' \in Nat
      BY <1>4, <1>8, <1>9
    <2>2. \A c \in new : c[1] # "fill" => c[2] <= max_row'
      BY <1>7, <1>9
    <2>3. \A c \in calls : c[1] # "fill" => c[2] <= max_row'
      BY <1>1, <1>10, <2>1
    <2> QED
      BY <1>11, <2>2, <2>3
  <1> QED
    BY <1>1, <1>4, <1>9, <1>11, <1>12 DEF MakeCalls

LEMMA ExtentIs ==
  ASSUME NEW r, NEW b \in Nat, r.advice \cup r.fixed \in SUBSET (0 .. b),
         in_measured_region \in BOOLEAN
  PROVE  /\ Extent(r) \subseteq Extents
         /\ \A e \in Extent(r) : e.end \in r.advice \cup r.fixed
         /\ \A row \in r.advice \cup r.fixed : \E e \in Extent(r) : row <= e.end
  <1> DEFINE rows == r.advice \cup r.fixed
  <1> HIDE DEF rows
  <1>1. rows \in SUBSET (0 .. b)
    BY DEF rows
  <1>2. CASE rows = {}
    BY <1>2 DEF Extent, rows
  <1>3. CASE rows # {}
    <2> DEFINE e == [start |-> Least(rows), end |-> Largest(rows), only_fixed |-> r.advice = {},
                     is_measured |-> in_measured_region]
    <2>1. Extent(r) = {e}
      BY <1>3 DEF Extent, rows
    <2>2. Least(rows) \in Nat
      <3>1. rows \in SUBSET Nat
        BY <1>1
      <3> QED
        BY <1>3, <3>1, LeastIs
    <2>3. Largest(rows) \in 0 .. b /\ \A m \in rows : m <= Largest(rows)
      BY <1>1, LargestRows
    <2>4. Largest(rows) \in rows
      <3>1. rows \in SUBSET (-b .. b)
        BY <1>1
      <3>2. Largest(rows) \in rows \cup {0}
        BY <3>1, LargestIs
      <3>3. PICK m \in rows : m \in 0 .. b /\ m <= Largest(rows)
        BY <1>1, <1>3, <2>3
      <3> QED
        BY <2>3, <3>2, <3>3
    <2>5. e \in Extents /\ e.end = Largest(rows)
      BY <2>2, <2>3 DEF Extents
    <2> QED
      BY <2>1, <2>3, <2>4, <2>5 DEF rows
  <1> QED
    BY <1>2, <1>3

(* A region or a table, of which new are the calls.                        *)
LEMMA RegionKept ==
  ASSUME SizingIInv, Synthesizing, NEW r, NEW b \in Nat, r.advice \cup r.fixed \in SUBSET (0 .. b),
         NEW new \in SUBSET CallType, MakeCalls(new),
         \A c \in new : /\ c[2] <= b /\ c[1] # "instance"
                        /\ IsAssigned(c) => c[2] \in r.advice \cup r.fixed,
         \A row \in r.advice \cup r.fixed : \E c \in new : IsAssigned(c) /\ c[2] = row,
         regions' = regions \cup Extent(r), next_constant_row' \in Nat,
         UNCHANGED <<instance_rows, in_measured_region, has_measured_regions>>
  PROVE  SizingIInv'
  <1>1. /\ in_measured_region \in BOOLEAN /\ has_measured_regions \in BOOLEAN
        /\ instance_rows \in Nat /\ regions \subseteq Extents /\ stage = "synthesis"
    BY DEF SizingIInv, SizingTypeOK, Synthesizing
  <1>2. /\ calls' = calls \cup new /\ calls' \subseteq CallType /\ ncalls' \in Nat
        /\ max_row' \in Nat
        /\ \A c \in calls' : c[1] # "fill" => c[2] <= max_row'
        /\ k' = k /\ sizer_k' = sizer_k /\ stage' = stage
    BY CallsMade
  <1>3. /\ Extent(r) \subseteq Extents
        /\ \A e \in Extent(r) : e.end \in r.advice \cup r.fixed
        /\ \A row \in r.advice \cup r.fixed : \E e \in Extent(r) : row <= e.end
    BY <1>1, ExtentIs
  <1>4. SizingTypeOK'
    BY <1>1, <1>2, <1>3 DEF SizingIInv, SizingTypeOK
  <1>5. CallsRemembered'
    <2>1. \A c \in calls' : IsAssigned(c) => \E e \in regions' : c[2] <= e.end
      BY <1>2, <1>3 DEF SizingIInv, CallsRemembered
    <2>2. \A c \in calls' : c[1] = "instance" => c[2] < instance_rows'
      BY <1>2 DEF SizingIInv, CallsRemembered
    <2> QED
      BY <1>2, <2>1, <2>2 DEF CallsRemembered, IsAssigned
  <1>6. ExtentsReached'
    <2>1. \A e \in regions' : \E c \in calls' : IsAssigned(c) /\ c[2] = e.end
      BY <1>2, <1>3 DEF SizingIInv, ExtentsReached
    <2>2. instance_rows' # 0 => \E c \in calls' : c[1] = "instance" /\ c[2] = instance_rows' - 1
      BY <1>2 DEF SizingIInv, ExtentsReached
    <2> QED
      BY <2>1, <2>2 DEF ExtentsReached, IsAssigned
  <1>7. SizesComputed'
    BY <1>1, <1>2 DEF SizesComputed
  <1> QED
    BY <1>4, <1>5, <1>6, <1>7 DEF SizingIInv

LEMMA AssignRegionKept ==
  ASSUME SizingIInv, NEW r \in Regions, AssignRegion(r)
  PROVE  SizingIInv'
  <1> DEFINE new == {"advice"} \X r.advice \cup {"fixed"} \X r.fixed
                 \cup {"selector"} \X r.selectors
                 \cup {"constant"} \X ConstantRows(r)
                 \cup IF r.constants = 0 THEN {} ELSE {<<"copy", Least(r.advice)>>}
  <1>1. /\ r.advice \in SUBSET Nat /\ IsFiniteSet(r.advice)
        /\ r.fixed \in SUBSET Nat /\ IsFiniteSet(r.fixed)
        /\ r.selectors \in SUBSET Nat /\ IsFiniteSet(r.selectors)
        /\ r.constants \in Nat /\ (r.constants # 0 => r.advice # {})
    BY SizesAssumption
  <1>2. PICK b1 \in Nat : r.advice \subseteq 0 .. b1
    BY <1>1, RowsHaveABound
  <1>3. PICK b2 \in Nat : r.fixed \subseteq 0 .. b2
    BY <1>1, RowsHaveABound
  <1>4. PICK b3 \in Nat : r.selectors \subseteq 0 .. b3
    BY <1>1, RowsHaveABound
  <1>5. next_constant_row \in Nat
    BY DEF SizingIInv, SizingTypeOK
  <1> DEFINE b == b1 + b2 + b3 + next_constant_row + r.constants
  <1>6. b \in Nat /\ \A rows \in {r.advice, r.fixed, r.selectors} : rows \subseteq 0 .. b
    BY <1>1, <1>2, <1>3, <1>4, <1>5
  <1>7. ConstantRows(r) \subseteq 0 .. b
    BY <1>1, <1>5 DEF ConstantRows
  <1>8. r.constants # 0 => Least(r.advice) \in 0 .. b
    BY <1>1, <1>6, LeastIs
  <1> HIDE DEF b
  <1>9. \A c \in new : /\ c \in CallKinds \X (0 .. b) /\ c[1] # "instance"
                       /\ IsAssigned(c) => c[2] \in r.advice \cup r.fixed
    BY <1>6, <1>7, <1>8 DEF CallKinds, IsAssigned
  <1>10. \A row \in r.advice \cup r.fixed : \E c \in new : IsAssigned(c) /\ c[2] = row
    <2>1. \A row \in r.advice : <<"advice", row>> \in new
      OBVIOUS
    <2>2. \A row \in r.fixed : <<"fixed", row>> \in new
      OBVIOUS
    <2> HIDE DEF new
    <2> QED
      BY <2>1, <2>2 DEF IsAssigned
  <1>11. /\ MakeCalls(new) /\ regions' = regions \cup Extent(r) /\ Synthesizing
         /\ UNCHANGED <<instance_rows, in_measured_region, has_measured_regions>>
    BY DEF AssignRegion
  <1>12. next_constant_row' \in Nat
    BY <1>1, <1>5 DEF AssignRegion
  <1> HIDE DEF new
  <1>13. new \in SUBSET CallType /\ \A c \in new : c[2] <= b
    BY <1>6, <1>9 DEF CallType
  <1>14. r.advice \cup r.fixed \in SUBSET (0 .. b)
    BY <1>6
  <1> QED
    BY <1>6, <1>9, <1>10, <1>11, <1>12, <1>13, <1>14, RegionKept

LEMMA AssignTableKept ==
  ASSUME SizingIInv, NEW len \in TableLengths, AssignTable(len)
  PROVE  SizingIInv'
  <1> DEFINE new == {"fixed"} \X (0 .. (len - 1)) \cup {<<"fill", len>>}
             r   == [advice |-> {}, fixed |-> 0 .. (len - 1)]
  <1>1. len \in Nat \ {0}
    BY SizesAssumption
  <1>2. r.advice \cup r.fixed = 0 .. (len - 1) /\ 0 .. (len - 1) \in SUBSET (0 .. len)
    BY <1>1
  <1>3. \A c \in new : /\ c \in CallKinds \X (0 .. len) /\ c[1] # "instance"
                       /\ IsAssigned(c) => c[2] \in 0 .. (len - 1)
    BY <1>1 DEF CallKinds, IsAssigned
  <1>4. \A row \in 0 .. (len - 1) : \E c \in new : IsAssigned(c) /\ c[2] = row
    <2>1. \A row \in 0 .. (len - 1) : <<"fixed", row>> \in new
      OBVIOUS
    <2> HIDE DEF new
    <2> QED
      BY <2>1 DEF IsAssigned
  <1>5. /\ MakeCalls(new) /\ regions' = regions \cup Extent(r) /\ Synthesizing
        /\ UNCHANGED <<instance_rows, in_measured_region, has_measured_regions, next_constant_row>>
    BY DEF AssignTable
  <1>6. next_constant_row' \in Nat
    BY <1>5 DEF SizingIInv, SizingTypeOK
  <1> HIDE DEF new, r
  <1>7. new \in SUBSET CallType /\ \A c \in new : c[2] <= len
    BY <1>1, <1>3 DEF CallType
  <1> QED
    BY <1>1, <1>2, <1>3, <1>4, <1>5, <1>6, <1>7, RegionKept

LEMMA ConstrainInstanceKept ==
  ASSUME SizingIInv, NEW row \in InstanceRows, ConstrainInstance(row)
  PROVE  SizingIInv'
  <1>1. PICK cell \in calls : /\ cell[1] = "advice"
                             /\ MakeCalls({<<"copy", cell[2]>>, <<"instance", row>>})
    BY DEF ConstrainInstance
  <1> DEFINE new == {<<"copy", cell[2]>>, <<"instance", row>>}
             b   == cell[2] + row
  <1>2. row \in Nat /\ instance_rows \in Nat /\ cell[2] \in Nat /\ stage = "synthesis"
    BY SizesAssumption DEF SizingIInv, SizingTypeOK, CallType, ConstrainInstance, Synthesizing
  <1>3. new \in SUBSET CallType /\ b \in Nat /\ \A c \in new : c[2] <= b /\ ~IsAssigned(c)
    BY <1>2 DEF CallType, CallKinds, IsAssigned
  <1>4. <<"instance", row>> \in new /\ \A c \in new : c[1] = "instance" => c = <<"instance", row>>
    OBVIOUS
  <1>5. MakeCalls(new)
    BY <1>1
  <1> HIDE DEF new, b
  <1>6. /\ calls' = calls \cup new /\ calls' \subseteq CallType /\ ncalls' \in Nat
        /\ max_row' \in Nat
        /\ \A c \in calls' : c[1] # "fill" => c[2] <= max_row'
        /\ k' = k /\ sizer_k' = sizer_k /\ stage' = stage
    BY <1>3, <1>5, CallsMade
  <1>7. instance_rows' = Largest({row + 1, instance_rows})
    BY DEF ConstrainInstance
  <1>8. /\ instance_rows' \in Nat /\ row + 1 <= instance_rows' /\ instance_rows <= instance_rows'
        /\ instance_rows' \in {row + 1, instance_rows}
    <2>1. {row + 1, instance_rows} \in SUBSET (-(row + 1 + instance_rows) .. row + 1 + instance_rows)
      BY <1>2
    <2>2. row + 1 + instance_rows \in Nat
      BY <1>2
    <2>3. /\ instance_rows' \in {row + 1, instance_rows} \cup {0}
          /\ \A m \in {row + 1, instance_rows} : m <= instance_rows'
      BY <1>7, <2>1, <2>2, LargestIs
    <2> QED
      BY <1>2, <2>3
  <1>9. UNCHANGED <<regions, in_measured_region, has_measured_regions, next_constant_row>>
    BY DEF ConstrainInstance
  <1>10. SizingTypeOK'
    BY <1>6, <1>8, <1>9 DEF SizingIInv, SizingTypeOK
  <1>11. CallsRemembered'
    <2>1. \A c \in calls' : IsAssigned(c) => \E e \in regions' : c[2] <= e.end
      BY <1>3, <1>6, <1>9 DEF SizingIInv, CallsRemembered
    <2>2. \A c \in calls : c[1] = "instance" => c[2] < instance_rows /\ c[2] \in Nat
      BY DEF SizingIInv, CallsRemembered, SizingTypeOK, CallType
    <2>3. \A c \in new : c[1] = "instance" => c[2] = row
      BY <1>4
    <2>4. \A c \in calls' : c[1] = "instance" => c[2] < instance_rows'
      BY <1>2, <1>6, <1>8, <2>2, <2>3
    <2> QED
      BY <1>6, <2>1, <2>4 DEF CallsRemembered, IsAssigned
  <1>12. ExtentsReached'
    <2>1. \A e \in regions' : \E c \in calls' : IsAssigned(c) /\ c[2] = e.end
      BY <1>6, <1>9 DEF SizingIInv, ExtentsReached
    <2>2. instance_rows' # 0 => \E c \in calls' : c[1] = "instance" /\ c[2] = instance_rows' - 1
      <3>1. CASE instance_rows' = row + 1
        <4>1. instance_rows' - 1 = row
          BY <1>2, <3>1
        <4> DEFINE c == <<"instance", row>>
        <4>2. c \in calls' /\ c[1] = "instance" /\ c[2] = row
          BY <1>4, <1>6
        <4> QED
          BY <4>1, <4>2
      <3>2. CASE instance_rows' = instance_rows
        BY <1>6, <3>2 DEF SizingIInv, ExtentsReached
      <3> QED
        BY <1>8, <3>1, <3>2
    <2> QED
      BY <2>1, <2>2 DEF ExtentsReached, IsAssigned
  <1>13. SizesComputed'
    BY <1>2, <1>6 DEF SizesComputed
  <1> QED
    BY <1>10, <1>11, <1>12, <1>13 DEF SizingIInv

LEMMA PushNamespaceKept ==
  ASSUME SizingIInv, NEW start \in BOOLEAN, PushNamespace(start)
  PROVE  SizingIInv'
  <1>1. /\ {} \in SUBSET CallType /\ MakeCalls({})
        /\ \A c \in {} : c[2] <= 0
        /\ UNCHANGED <<regions, instance_rows, next_constant_row>>
        /\ in_measured_region' = start /\ has_measured_regions' = (has_measured_regions \/ start)
        /\ stage = "synthesis"
    BY DEF PushNamespace, Synthesizing
  <1>2. /\ calls' = calls /\ calls' \subseteq CallType /\ ncalls' \in Nat
        /\ max_row' \in Nat
        /\ \A c \in calls' : c[1] # "fill" => c[2] <= max_row'
        /\ k' = k /\ sizer_k' = sizer_k /\ stage' = stage
    BY <1>1, CallsMade
  <1>3. SizingTypeOK'
    BY <1>1, <1>2 DEF SizingIInv, SizingTypeOK
  <1>4. CallsRemembered' /\ ExtentsReached'
    BY <1>1, <1>2 DEF SizingIInv, CallsRemembered, ExtentsReached, IsAssigned
  <1>5. SizesComputed'
    BY <1>1, <1>2 DEF SizesComputed
  <1> QED
    BY <1>3, <1>4, <1>5 DEF SizingIInv

(* With markers the rows between the measured regions count, which are     *)
(* those between a start and an end, or fewer than none.                   *)
LEMMA MinCircuitSizeType ==
  ASSUME SizingIInv
  PROVE  MinCircuitSize \in Nat
  <1>1. CASE ~has_measured_regions
    BY <1>1, MinCircuitSizeIs
  <1>2. CASE has_measured_regions
    <2> DEFINE rows  == TableRowCounts \cup {RowsCount, instance_rows}
               sizes == {n + BlindingFactors + 1 : n \in rows}
    <2>1. BlindingFactors \in Nat /\ max_row \in Nat /\ instance_rows \in Nat /\ MinimumRows \in Nat
      BY SizesAssumption DEF SizingIInv, SizingTypeOK, MinimumRows
    <2>2. TableRowCounts \in SUBSET (0 .. max_row + 1)
      BY <2>1, ExtentsAreNamed DEF TableRowCounts
    <2>3. RowsCount \in Int
      <3>1. CASE Measured = {}
        BY <1>2, <3>1 DEF RowsCount
      <3>2. CASE Measured # {}
        <4>1. /\ {r.end : r \in Measured} \in SUBSET (0 .. max_row)
              /\ {r.start : r \in Measured} \in SUBSET Nat /\ {r.start : r \in Measured} # {}
          BY <3>2, ExtentsAreNamed DEF Measured, OtherRegions, SizingIInv, SizingTypeOK, Extents
        <4>2. Largest({r.end : r \in Measured}) \in Int /\ Least({r.start : r \in Measured}) \in Int
          <5> DEFINE ends == {r.end : r \in Measured}
                     starts == {r.start : r \in Measured}
          <5>1. ends \in SUBSET (0 .. max_row) /\ starts \in SUBSET Nat /\ starts # {}
            BY <4>1
          <5> HIDE DEF ends, starts
          <5>2. Largest(ends) \in 0 .. max_row
            BY <2>1, <5>1, LargestRows
          <5>3. Least(starts) \in starts
            BY <5>1, LeastIs
          <5>4. Largest(ends) \in Int
            BY <5>2
          <5>5. Least(starts) \in Int
            <6>1. \A n \in starts : n \in Int
              BY <5>1
            <6> QED
              BY <5>3, <6>1
          <5> QED
            BY <5>4, <5>5 DEF ends, starts
        <4> QED
          BY <3>2, <4>2 DEF RowsCount
      <3> QED
        BY <3>1, <3>2
    <2> DEFINE size == IF RowsCount < 0 THEN -RowsCount ELSE RowsCount
               b    == size + max_row + instance_rows + BlindingFactors + 10
    <2>4. size \in Nat /\ RowsCount \in -size .. size
      BY <2>3
    <2> HIDE DEF size
    <2>5. b \in Nat
      BY <2>1, <2>4
    <2>6. \A n \in rows : n + BlindingFactors + 1 \in -b .. b
      <3>1. \A n \in 0 .. max_row + 1 : n + BlindingFactors + 1 \in -b .. b
        BY <2>1, <2>4
      <3>2. RowsCount + BlindingFactors + 1 \in -b .. b
        BY <2>1, <2>4
      <3>3. instance_rows + BlindingFactors + 1 \in -b .. b
        BY <2>1, <2>4
      <3> QED
        BY <2>2, <3>1, <3>2, <3>3
    <2>7. MinimumRows + 1 \in -b .. b
      BY <2>1, <2>4 DEF MinimumRows
    <2>8. MinCircuitSize = Largest(sizes \cup {MinimumRows + 1})
      BY DEF MinCircuitSize
    <2> HIDE DEF b, rows
    <2>9. sizes \cup {MinimumRows + 1} \in SUBSET (-b .. b)
      BY <2>6, <2>7
    <2> HIDE DEF sizes
    <2>10. MinCircuitSize \in sizes \cup {MinimumRows + 1, 0} /\ MinimumRows + 1 <= MinCircuitSize
      BY <2>5, <2>8, <2>9, LargestIs
    <2>11. MinCircuitSize \in Int
      BY <2>5, <2>7, <2>9, <2>10
    <2> QED
      BY <2>1, <2>10, <2>11
  <1> QED
    BY <1>1, <1>2

LEMMA SizeKept ==
  ASSUME SizingIInv, Size
  PROVE  SizingIInv'
  <1>1. /\ k' = NextPowerOfTwo(MinCircuitSize) /\ sizer_k' = NextPowerOfTwo(RequiredN)
        /\ stage' = "sized"
        /\ UNCHANGED <<calls, ncalls, next_constant_row, regions, instance_rows,
                       in_measured_region, has_measured_regions, max_row>>
    BY DEF Size, dev
  <1>2. k' \in Nat /\ sizer_k' \in Nat
    BY <1>1, MinCircuitSizeType, RequiredNIs, NextPowerIs
  <1>3. MinCircuitSize' = MinCircuitSize /\ RequiredN' = RequiredN
    BY <1>1 DEF MinCircuitSize, RequiredN, RowsCount, TableRowCounts, Measured, OtherRegions
  <1>4. SizingTypeOK'
    BY <1>1, <1>2 DEF SizingIInv, SizingTypeOK
  <1>5. CallsRemembered' /\ ExtentsReached'
    BY <1>1 DEF SizingIInv, CallsRemembered, ExtentsReached
  <1>6. SizesComputed'
    BY <1>1, <1>3 DEF SizesComputed
  <1> QED
    BY <1>4, <1>5, <1>6 DEF SizingIInv

LEMMA LaterKept ==
  ASSUME SizingIInv, stage # "synthesis", stage' \in {"sized", "keyed", "proved", "refused"},
         UNCHANGED <<calls, ncalls, next_constant_row, dev, max_row, k, sizer_k>>
  PROVE  SizingIInv'
  <1>1. UNCHANGED <<calls, ncalls, next_constant_row, regions, instance_rows,
                    in_measured_region, has_measured_regions, max_row, k, sizer_k>>
    BY DEF dev
  <1>2. MinCircuitSize' = MinCircuitSize /\ RequiredN' = RequiredN
    BY <1>1 DEF MinCircuitSize, RequiredN, RowsCount, TableRowCounts, Measured, OtherRegions
  <1>3. SizingTypeOK'
    BY <1>1 DEF SizingIInv, SizingTypeOK
  <1>4. CallsRemembered' /\ ExtentsReached'
    BY <1>1 DEF SizingIInv, CallsRemembered, ExtentsReached
  <1>5. SizesComputed'
    BY <1>1, <1>2 DEF SizingIInv, SizesComputed
  <1> QED
    BY <1>3, <1>4, <1>5 DEF SizingIInv

LEMMA SizingNextIInv == SizingIInv /\ [SizingNext]_sizingVars => SizingIInv'
  <1> SUFFICES ASSUME SizingIInv, [SizingNext]_sizingVars
               PROVE  SizingIInv'
    OBVIOUS
  <1>1. ASSUME NEW start \in BOOLEAN, PushNamespace(start)
        PROVE  SizingIInv'
    BY <1>1, PushNamespaceKept
  <1>2. ASSUME NEW r \in Regions, AssignRegion(r)
        PROVE  SizingIInv'
    BY <1>2, AssignRegionKept
  <1>3. ASSUME NEW len \in TableLengths, AssignTable(len)
        PROVE  SizingIInv'
    BY <1>3, AssignTableKept
  <1>4. ASSUME NEW row \in InstanceRows, ConstrainInstance(row)
        PROVE  SizingIInv'
    BY <1>4, ConstrainInstanceKept
  <1>5. CASE Size
    BY <1>5, SizeKept
  <1>6. CASE Keygen
    BY <1>6, LaterKept DEF Keygen
  <1>7. CASE Prove
    BY <1>7, LaterKept DEF Prove
  <1>8. CASE UNCHANGED sizingVars
    <2>1. UNCHANGED <<calls, ncalls, next_constant_row, dev, max_row, k, sizer_k, stage>>
      BY <1>8 DEF sizingVars
    <2>2. CASE stage = "synthesis"
      <3>1. UNCHANGED <<regions, instance_rows, in_measured_region, has_measured_regions>>
        BY <2>1 DEF dev
      <3>2. SizingTypeOK'
        BY <2>1, <3>1 DEF SizingIInv, SizingTypeOK
      <3>3. CallsRemembered' /\ ExtentsReached'
        BY <2>1, <3>1 DEF SizingIInv, CallsRemembered, ExtentsReached
      <3>4. SizesComputed'
        BY <2>1, <2>2 DEF SizesComputed
      <3> QED
        BY <3>2, <3>3, <3>4 DEF SizingIInv
    <2>3. CASE stage # "synthesis"
      <3>1. stage' \in {"sized", "keyed", "proved", "refused"}
        BY <2>1, <2>3 DEF SizingIInv, SizingTypeOK
      <3> QED
        BY <2>1, <2>3, <3>1, LaterKept
    <2> QED
      BY <2>2, <2>3
  <1> QED
    BY <1>1, <1>2, <1>3, <1>4, <1>5, <1>6, <1>7, <1>8 DEF SizingNext

LEMMA AlwaysSizingIInv == SizingSpec => []SizingIInv
  BY SizingInitIInv, SizingNextIInv, PTL DEF SizingSpec

(* DevAssembly, RowSizer and the stages of a circuit (cost_model.rs,       *)
(* dev/mod.rs) stay within their types whatever the circuit calls.         *)
THEOREM SizingTypeCorrect == SizingSpec => []SizingTypeOK
  <1>1. SizingIInv => SizingTypeOK
    BY DEF SizingIInv
  <1> QED
    BY <1>1, AlwaysSizingIInv, PTL

LEMMA RowsThatFit ==
  ASSUME SizingIInv
  PROVE  RowsFit
  <1> SUFFICES ASSUME stage # "synthesis"
               PROVE  /\ ~has_measured_regions =>
                            Pow2[k] >= MinimumRows /\ \A c \in Counted : c[2] < UsableIn(k)
                      /\ \A c \in calls : c[1] # "fill" => c[2] + MaxRotation < UsableIn(sizer_k)
    BY DEF RowsFit
  <1>1. k = NextPowerOfTwo(MinCircuitSize) /\ sizer_k = NextPowerOfTwo(RequiredN)
    BY DEF SizingIInv, SizesComputed
  <1>2. /\ BlindingFactors \in Nat /\ max_row \in Nat /\ MaxRotation \in Nat /\ instance_rows \in Nat
        /\ MinimumRows \in Nat
    BY SizesAssumption DEF SizingIInv, SizingTypeOK, MinimumRows
  <1>3. \A c \in calls : c[2] \in Nat
    BY DEF SizingIInv, SizingTypeOK, CallType
  <1>4. ASSUME ~has_measured_regions
        PROVE  Pow2[k] >= MinimumRows /\ \A c \in Counted : c[2] < UsableIn(k)
    <2>1. /\ MinCircuitSize \in Nat /\ MinCircuitSize >= MinimumRows + 1
          /\ \A n \in CostRows : MinCircuitSize >= n + BlindingFactors + 1
      BY <1>4, MinCircuitSizeIs
    <2>2. Pow2[k] \in Nat /\ Pow2[k] >= MinCircuitSize
      BY <1>1, <2>1, NextPowerIs
    <2>3. \A c \in Counted : \E n \in CostRows : n \in Nat /\ c[2] < n
      <3> SUFFICES ASSUME NEW c \in Counted
                   PROVE  \E n \in CostRows : n \in Nat /\ c[2] < n
        OBVIOUS
      <3>1. CASE c[1] = "instance"
        BY <1>2, <3>1 DEF Counted, CostRows, SizingIInv, CallsRemembered
      <3>2. CASE c[1] # "instance"
        <4>1. PICK r \in regions : c[2] <= r.end
          BY <3>2 DEF Counted, SizingIInv, CallsRemembered, IsAssigned
        <4>2. r.end + 1 \in CostRows /\ r.end \in Nat /\ c[2] \in Nat
          BY <1>3 DEF CostRows, Counted, SizingIInv, SizingTypeOK, Extents
        <4>3. r.end + 1 \in Nat /\ c[2] < r.end + 1
          BY <4>1, <4>2
        <4> QED
          BY <4>2, <4>3
      <3> QED
        BY <3>1, <3>2
    <2>4. \A c \in Counted : c[2] \in Nat
      BY <1>3 DEF Counted
    <2>5. Pow2[k] >= MinimumRows
      BY <1>2, <2>1, <2>2
    <2>6. \A c \in Counted : c[2] < UsableIn(k)
      <3> SUFFICES ASSUME NEW c \in Counted
                   PROVE  c[2] < Pow2[k] - (BlindingFactors + 1)
        BY DEF UsableIn
      <3>1. PICK n \in CostRows : n \in Nat /\ c[2] < n
        BY <2>3
      <3>2. MinCircuitSize >= n + BlindingFactors + 1 /\ c[2] \in Nat
        BY <2>1, <2>4
      <3> QED
        BY <1>2, <2>1, <2>2, <3>1, <3>2
    <2> QED
      BY <2>5, <2>6
  <1>5. ASSUME NEW c \in calls, c[1] # "fill"
        PROVE  c[2] + MaxRotation < UsableIn(sizer_k)
    <2>1. RequiredN \in Nat /\ RequiredN >= max_row + BlindingFactors + 2 + MaxRotation
      BY RequiredNIs
    <2>2. Pow2[sizer_k] \in Nat /\ Pow2[sizer_k] >= RequiredN
      BY <1>1, <2>1, NextPowerIs
    <2>3. c[2] <= max_row /\ c[2] \in Nat
      BY <1>3, <1>5 DEF SizingIInv, CallsRemembered
    <2>4. c[2] + MaxRotation < Pow2[sizer_k] - (BlindingFactors + 1)
      BY <1>2, <2>1, <2>2, <2>3
    <2> QED
      BY <2>4 DEF UsableIn
  <1> QED
    BY <1>4, <1>5

LEMMA KIsLeast ==
  ASSUME SizingIInv
  PROVE  LeastK
  <1> SUFFICES ASSUME stage # "synthesis", ~has_measured_regions, Pow2[k - 1] > MinimumRows
               PROVE  \E c \in Counted : c[2] >= UsableIn(k - 1)
    BY DEF LeastK
  <1>1. k = NextPowerOfTwo(MinCircuitSize)
    BY DEF SizingIInv, SizesComputed
  <1>2. BlindingFactors \in Nat /\ MinimumRows \in Nat /\ MinimumRows >= 9
    BY SizesAssumption DEF MinimumRows
  <1>3. /\ MinCircuitSize \in Nat /\ MinCircuitSize >= MinimumRows + 1
        /\ MinCircuitSize > MinimumRows + 1 =>
               \E n \in CostRows : n # 0 /\ MinCircuitSize = n + BlindingFactors + 1
    BY MinCircuitSizeIs
  <1>4. /\ k \in Nat /\ Pow2[k] >= MinCircuitSize
        /\ k = 0 \/ (Pow2[k - 1] \in Nat /\ Pow2[k - 1] < MinCircuitSize)
    BY <1>1, <1>3, NextPowerIs
  <1>5. k # 0
    BY <1>2, <1>3, <1>4, Pow2Defined
  <1>6. Pow2[k - 1] \in Nat /\ Pow2[k - 1] < MinCircuitSize
    BY <1>4, <1>5
  <1>7. PICK n \in CostRows : n # 0 /\ MinCircuitSize = n + BlindingFactors + 1
    BY <1>2, <1>3, <1>6
  <1>8. PICK c \in Counted : c[2] + 1 = n /\ c[2] \in Nat
    <2>1. CASE n = instance_rows
      <3>1. PICK c \in calls : c[1] = "instance" /\ c[2] = n - 1
        BY <1>7, <2>1 DEF SizingIInv, ExtentsReached
      <3>2. n \in Nat /\ c[2] \in Nat /\ c \in Counted
        BY <2>1, <3>1 DEF Counted, SizingIInv, SizingTypeOK, CallType
      <3> QED
        BY <3>1, <3>2
    <2>2. CASE n # instance_rows
      <3>1. PICK r \in regions : n = r.end + 1
        BY <2>2 DEF CostRows
      <3>2. PICK c \in calls : IsAssigned(c) /\ c[2] = r.end
        BY DEF SizingIInv, ExtentsReached
      <3>3. c[2] \in Nat /\ c \in Counted
        BY <3>2 DEF Counted, IsAssigned, SizingIInv, SizingTypeOK, CallType
      <3> QED
        BY <3>1, <3>2, <3>3
    <2> QED
      BY <2>1, <2>2
  <1>9. c[2] >= Pow2[k - 1] - (BlindingFactors + 1)
    BY <1>2, <1>3, <1>6, <1>7, <1>8
  <1> QED
    BY <1>9 DEF UsableIn

(* For every circuit and every number of blinding factors, the k that      *)
(* keygen_vk determines has room for every cell that regions, tables and   *)
(* instances take and is the least one that has, and the k of the          *)
(* MockProver has room for whatever the circuit touches (cost_model_options*)
(* and RowSizer::min_k).                                                   *)
THEOREM SizesAreLeastPossible == SizingSpec => []SizesAreLeast
  <1>1. SizingIInv => SizesAreLeast
    BY RowsThatFit, KIsLeast DEF SizesAreLeast
  <1> QED
    BY <1>1, AlwaysSizingIInv, PTL
-----------------------------------------------------------------------------
(* The arrangement of a finite set by a strict total order.                *)
LEMMA ArrangedIs ==
  ASSUME NEW S, IsFiniteSet(S), NEW earlier,
         \A x \in S : earlier[x] \subseteq S /\ x \notin earlier[x],
         \A x, y \in S : x # y => x \in earlier[y] \/ y \in earlier[x],
         \A x, y \in S : x \in earlier[y] => earlier[x] \subseteq earlier[y]
  PROVE  /\ Cardinality(S) \in Nat
         /\ DOMAIN Arranged(S, earlier) = 1 .. Cardinality(S)
         /\ Len(Arranged(S, earlier)) = Cardinality(S)
         /\ \A n \in 1 .. Cardinality(S) : Arranged(S, earlier)[n] \in S
         /\ \A x \in S : \E n \in 1 .. Cardinality(S) : Arranged(S, earlier)[n] = x
         /\ \A i, j \in 1 .. Cardinality(S) :
               i < j => Arranged(S, earlier)[i] \in earlier[Arranged(S, earlier)[j]]
  <1> DEFINE rank(x) == Cardinality(earlier[x])
             c == Cardinality(S)
             f == [x \in S |-> rank(x) + 1]
             T == 1 .. c
  <1>1. c \in Nat
    BY FS_CardinalityType
  <1>2. \A x \in S : IsFiniteSet(earlier[x]) /\ rank(x) \in 0 .. c - 1
    <2>1. TAKE x \in S
    <2>2. /\ IsFiniteSet(earlier[x]) /\ rank(x) <= c
          /\ c = rank(x) => S = earlier[x]
      BY FS_Subset
    <2>3. rank(x) \in Nat
      BY <2>2, FS_CardinalityType
    <2> QED
      BY <1>1, <2>2, <2>3
  <1>3. \A x, y \in S : x \in earlier[y] => rank(x) < rank(y)
    <2>1. SUFFICES ASSUME NEW x \in S, NEW y \in S, x \in earlier[y]
                   PROVE  rank(x) < rank(y)
      OBVIOUS
    <2>2. earlier[x] \in SUBSET earlier[y] /\ earlier[x] # earlier[y]
      BY <2>1
    <2>3. rank(x) <= rank(y) /\ (rank(y) = rank(x) => earlier[y] = earlier[x])
      BY <1>2, <2>2, FS_Subset
    <2> QED
      BY <1>2, <2>2, <2>3
  <1>4. \A x, y \in S : x # y => rank(x) # rank(y)
    BY <1>2, <1>3
  <1> HIDE DEF c, rank
  <1>5. f \in Injection(S, T)
    <2>1. f \in [S -> T]
      BY <1>1, <1>2
    <2> QED
      BY <1>1, <1>2, <1>4, <2>1 DEF Injection, IsInjective
  <1>6. IsFiniteSet(T) /\ Cardinality(T) = c
    BY <1>1, FS_Interval
  <1>7. f \in Surjection(S, T)
    <2>1. Cardinality(S) = Cardinality(T)
      BY <1>6 DEF c
    <2> HIDE DEF f, T
    <2> QED
      BY <1>5, <1>6, <2>1, FS_Injection
  <1>8. \A n \in T : \E x \in S : rank(x) = n - 1
    <2>1. \A n \in T : \E x \in S : f[x] = n
      BY <1>7 DEF Surjection
    <2>2. \A x \in S : f[x] = rank(x) + 1 /\ rank(x) \in Int
      BY <1>1, <1>2
    <2> HIDE DEF f
    <2>3. TAKE n \in T
    <2>4. PICK x \in S : f[x] = n
      BY <2>1
    <2>5. rank(x) = n - 1
      BY <1>1, <2>2, <2>4
    <2> QED
      BY <2>5
  <1> DEFINE g == Arranged(S, earlier)
  <1>9. g = [n \in 1 .. c |-> CHOOSE x \in S : rank(x) = n - 1]
    BY DEF Arranged, rank, c
  <1>10. \A n \in 1 .. c : g[n] \in S /\ rank(g[n]) = n - 1
    <2>1. TAKE n \in 1 .. c
    <2>2. \E x \in S : rank(x) = n - 1
      BY <1>8
    <2>3. g[n] = CHOOSE x \in S : rank(x) = n - 1
      BY <1>9
    <2> HIDE DEF g
    <2> QED
      BY <2>2, <2>3
  <1>11. DOMAIN g = 1 .. c
    BY <1>9
  <1> HIDE DEF g
  <1>12. Len(g) = c
    BY <1>11, <1>1
  <1>13. \A x \in S : \E n \in 1 .. c : g[n] = x
    <2>1. TAKE x \in S
    <2>2. rank(x) + 1 \in 1 .. c
      BY <1>1, <1>2
    <2>3. g[rank(x) + 1] \in S /\ rank(g[rank(x) + 1]) = rank(x)
      BY <1>2, <1>10, <2>2
    <2> QED
      BY <1>4, <2>2, <2>3
  <1>14. \A i, j \in 1 .. c : i < j => g[i] \in earlier[g[j]]
    <2>1. SUFFICES ASSUME NEW i \in 1 .. c, NEW j \in 1 .. c, i < j
                   PROVE  g[i] \in earlier[g[j]]
      OBVIOUS
    <2>2. g[i] \in S /\ g[j] \in S /\ rank(g[i]) = i - 1 /\ rank(g[j]) = j - 1
      BY <1>10
    <2>3. g[i] # g[j]
      BY <1>1, <2>1, <2>2
    <2>4. g[j] \notin earlier[g[i]]
      BY <1>1, <1>3, <2>1, <2>2
    <2> QED
      BY <2>2, <2>3, <2>4
  <1> QED
    BY <1>1, <1>10, <1>11, <1>12, <1>13, <1>14 DEF g, c
-----------------------------------------------------------------------------
(* The rows allocated in a column: nonempty intervals that do not overlap. *)
Allocation == [start : Nat, length : Nat \ {0}]
Apart(A) == /\ IsFiniteSet(A) /\ A \subseteq Allocation
            /\ \A a, b \in A : a # b => End(a) <= b.start \/ End(b) <= a.start
Taken(A, row) == \E a \in A : a.start <= row /\ row < End(a)

LEMMA AllocationTypes ==
  ASSUME NEW a \in Allocation
  PROVE  a.start \in Nat /\ End(a) \in Nat /\ a.start < End(a) /\ a.length \in Nat \ {0}
  BY DEF Allocation, End

LEMMA InOrderIs ==
  ASSUME NEW A, Apart(A)
  PROVE  /\ Cardinality(A) \in Nat /\ Len(InOrder(A)) = Cardinality(A)
         /\ \A n \in 1 .. Cardinality(A) : InOrder(A)[n] \in A
         /\ \A a \in A : \E n \in 1 .. Cardinality(A) : InOrder(A)[n] = a
         /\ \A i, j \in 1 .. Cardinality(A) :
               i < j => End(InOrder(A)[i]) <= InOrder(A)[j].start
  <1> DEFINE earlier == [a \in A |-> {b \in A : b.start < a.start}]
             s == InOrder(A)
             c == Cardinality(A)
  <1>1. /\ IsFiniteSet(A) /\ A \subseteq Allocation
        /\ \A a, b \in A : a # b => End(a) <= b.start \/ End(b) <= a.start
    BY DEF Apart
  <1>2. \A a \in A : a.start \in Nat /\ End(a) \in Nat /\ a.start < End(a)
    BY <1>1, AllocationTypes
  <1>3. /\ \A x \in A : earlier[x] \subseteq A /\ x \notin earlier[x]
        /\ \A x, y \in A : x # y => x \in earlier[y] \/ y \in earlier[x]
        /\ \A x, y \in A : x \in earlier[y] => earlier[x] \subseteq earlier[y]
        /\ \A x, y \in A : x \in earlier[y] => End(x) <= y.start
    <2>1. \A x, y \in A : x \in earlier[y] <=> x.start < y.start
      OBVIOUS
    <2>2. \A x \in A : earlier[x] \subseteq A
      OBVIOUS
    <2> HIDE DEF earlier
    <2>3. \A x \in A : x \notin earlier[x]
      BY <1>2, <2>1
    <2>4. \A x, y \in A : x # y => x \in earlier[y] \/ y \in earlier[x]
      BY <1>1, <1>2, <2>1
    <2>5. \A x, y \in A : x \in earlier[y] => End(x) <= y.start
      BY <1>1, <1>2, <2>1
    <2>6. \A x, y \in A : x \in earlier[y] => earlier[x] \subseteq earlier[y]
      <3>1. SUFFICES ASSUME NEW x \in A, NEW y \in A, x \in earlier[y], NEW z \in earlier[x]
                     PROVE  z \in earlier[y]
        OBVIOUS
      <3> QED
        BY <1>2, <2>1, <2>2, <3>1
    <2> QED
      BY <2>2, <2>3, <2>4, <2>5, <2>6
  <1>4. s = Arranged(A, earlier)
    BY DEF InOrder
  <1> HIDE DEF earlier, s
  <1>5. /\ Cardinality(A) \in Nat
        /\ DOMAIN s = 1 .. Cardinality(A)
        /\ Len(s) = Cardinality(A)
        /\ \A n \in 1 .. Cardinality(A) : s[n] \in A
        /\ \A x \in A : \E n \in 1 .. Cardinality(A) : s[n] = x
        /\ \A i, j \in 1 .. Cardinality(A) : i < j => s[i] \in earlier[s[j]]
    BY <1>1, <1>3, <1>4, ArrangedIs
  <1>6. \A i, j \in 1 .. Cardinality(A) : i < j => End(s[i]) <= s[j].start
    BY <1>3, <1>5
  <1> QED
    BY <1>5, <1>6 DEF s

(* free_intervals as a loop over the allocations in order.                 *)
ScanStep(acc, a, end) ==
    IF end # NoEnd /\ a.start >= end THEN acc
    ELSE [row |-> ScanRow(acc.row, a),
          gaps |-> IF acc.row < a.start
                   THEN Append(acc.gaps, [start |-> acc.row, end |-> a.start])
                   ELSE acc.gaps]
Spaces(last, end) ==
    IF end = NoEnd \/ last.row < end
    THEN Append(last.gaps, [start |-> last.row, end |-> end])
    ELSE last.gaps

LEMMA LaterRow ==
  ASSUME NEW row \in Nat, NEW a \in Allocation
  PROVE  /\ ScanRow(row, a) \in Nat /\ ScanRow(row, a) >= row /\ ScanRow(row, a) >= End(a)
         /\ ScanRow(row, a) \in {row, End(a)}
  <1> DEFINE e == End(a)
             S == {row, e}
             P(x) == x \in S /\ \A y \in S : x >= y
  <1>1. e \in Nat
    BY AllocationTypes
  <1>2. ScanRow(row, a) = CHOOSE x \in S : \A y \in S : x >= y
    BY DEF ScanRow, Max
  <1> HIDE DEF e
  <1>3. \E x \in S : \A y \in S : x >= y
    <2>1. CASE row >= e
      BY <1>1, <2>1
    <2>2. CASE ~(row >= e)
      BY <1>1, <2>2
    <2> QED
      BY <2>1, <2>2
  <1> DEFINE m == ScanRow(row, a)
  <1>4. m \in S /\ \A y \in S : m >= y
    <2> HIDE DEF S
    <2> QED
      BY <1>2, <1>3
  <1> HIDE DEF m
  <1>5. m \in Nat /\ m >= row /\ m >= e /\ m \in {row, e}
    BY <1>1, <1>4
  <1> QED
    BY <1>5 DEF m, e

LEMMA ScanIs ==
  ASSUME NEW A, Apart(A), NEW start \in Nat, NEW end \in Int
  PROVE  \E f : /\ f[0] = [row |-> start, gaps |-> <<>>]
                /\ \A n \in 1 .. Cardinality(A) :
                      /\ f[n - 1] \in [row : Nat, gaps : Seq(Interval)]
                      /\ f[n] \in [row : Nat, gaps : Seq(Interval)]
                      /\ f[n] = ScanStep(f[n - 1], InOrder(A)[n], end)
                /\ f[Cardinality(A)] \in [row : Nat, gaps : Seq(Interval)]
                /\ FreeIntervals(A, start, end) = Spaces(f[Cardinality(A)], end)
  <1> DEFINE s == InOrder(A)
             m == Len(InOrder(A))
             S == [row : Nat, gaps : Seq(Interval)]
             base == [row |-> start, gaps |-> <<>>]
             next == [p \in (1 .. m) \X S |-> ScanStep(p[2], s[p[1]], end)]
             Is(g) == g = [n \in 0 .. m |-> IF n = 0 THEN base ELSE ScanStep(g[n - 1], s[n], end)]
  <1>0. \A n \in 1 .. m : n \in 0 .. m /\ n - 1 \in 0 .. m /\ n # 0
    BY InOrderIs
  <1>1. m = Cardinality(A) /\ m \in Nat /\ \A n \in 1 .. m : s[n] \in Allocation
    BY InOrderIs DEF Apart
  <1>2. base \in S
    OBVIOUS
  <1>3. ASSUME NEW n \in 1 .. m, NEW x \in S
        PROVE  ScanStep(x, s[n], end) \in S
    <2>1. x.row \in Nat /\ x.gaps \in Seq(Interval) /\ s[n].start \in Nat
      BY <1>1, AllocationTypes
    <2>2. ScanRow(x.row, s[n]) \in Nat
      BY <1>1, <2>1, LaterRow
    <2>3. [start |-> x.row, end |-> s[n].start] \in Interval
      BY <2>1 DEF Interval
    <2> DEFINE longer == Append(x.gaps, [start |-> x.row, end |-> s[n].start])
               row == ScanRow(x.row, s[n])
    <2>4. longer \in Seq(Interval)
      BY <2>1, <2>3, AppendProperties
    <2> HIDE DEF longer, row
    <2>5. [row |-> row, gaps |-> IF x.row < s[n].start THEN longer ELSE x.gaps] \in S
      BY <2>1, <2>2, <2>4 DEF row
    <2> QED
      BY <2>5 DEF ScanStep, longer, row
  <1>4. PICK f : Loops(f, m, S, base, next)
    <2>1. Steps(next, 1 .. m, S)
      BY <1>3 DEF Steps
    <2> HIDE DEF m, S, next, base
    <2> QED
      BY <1>1, <1>2, <2>1, LoopsExist
  <1>5. /\ f \in [0 .. m -> S] /\ f[0] = base
        /\ \A n \in 1 .. m : f[n] = ScanStep(f[n - 1], s[n], end)
    <2>1. ASSUME NEW n \in 1 .. m
          PROVE  f[n] = ScanStep(f[n - 1], s[n], end)
      <3>1. f[n] = next[n, f[n - 1]] /\ f[n - 1] \in S
        <4> HIDE DEF m, S, next, base
        <4> QED
          BY <1>0, <1>4 DEF Loops
      <3> HIDE DEF m, S
      <3> QED
        BY <3>1
    <2>2. f \in [0 .. m -> S] /\ f[0] = base
      BY <1>4 DEF Loops
    <2> QED
      BY <2>1, <2>2
  <1> HIDE DEF S, next, base
  <1>6. Is(f)
    <2>1. \A n \in 0 .. m : f[n] = IF n = 0 THEN base ELSE ScanStep(f[n - 1], s[n], end)
      <3> HIDE DEF m
      <3> QED
        BY <1>1, <1>5
    <2> HIDE DEF m
    <2> QED
      BY <1>5, <2>1
  <1> DEFINE q == CHOOSE g : Is(g)
  <1>7. FreeIntervals(A, start, end) = Spaces(q[m], end)
    BY DEF FreeIntervals, Spaces, ScanStep, base
  <1>8. Is(q)
    <2> HIDE DEF Is
    <2> QED
      BY <1>6
  <1> HIDE DEF q
  <1>9. \A n \in 0 .. m : q[n] = IF n = 0 THEN base ELSE ScanStep(q[n - 1], s[n], end)
    <2> HIDE DEF m
    <2> QED
      BY <1>8
  <1> HIDE DEF Is
  <1> DEFINE P == {n \in 0 .. m : q[n] = f[n]}
  <1>10. 0 .. m \subseteq P
    <2>1. 0 \in P
      BY <1>1, <1>5, <1>9
    <2>2. ASSUME NEW n \in 1 .. m, n - 1 \in P
          PROVE  n \in P
      <3>1. n \in 0 .. m /\ n # 0
        BY <1>1
      <3> QED
        BY <1>5, <1>9, <2>2, <3>1
    <2> HIDE DEF P, m
    <2> QED
      BY <1>1, <2>1, <2>2, InductionUpTo
  <1>11. q[m] = f[m] /\ f[m] \in S /\ \A n \in 1 .. m : f[n - 1] \in S /\ f[n] \in S
    <2>1. m \in 0 .. m /\ \A n \in 1 .. m : n - 1 \in 0 .. m /\ n \in 0 .. m
      BY <1>1
    <2> HIDE DEF m
    <2> QED
      BY <1>5, <1>10, <2>1
  <1> QED
    BY <1>1, <1>5, <1>7, <1>11 DEF base, S

(* What the scan has found after the first n allocations.                  *)
Within(space, row) == space.start <= row /\ (space.end = NoEnd \/ row < space.end)
Skipped(a, end) == end # NoEnd /\ a.start >= end

GapsInv(start, end, acc) ==
    /\ acc.row >= start
    /\ \A i \in 1 .. Len(acc.gaps) :
          /\ start <= acc.gaps[i].start /\ acc.gaps[i].start < acc.gaps[i].end
          /\ acc.gaps[i].end < acc.row
          /\ end = NoEnd \/ acc.gaps[i].end < end
    /\ \A i, j \in 1 .. Len(acc.gaps) : i < j => acc.gaps[i].end < acc.gaps[j].start
PassedInv(s, m, start, end, n, acc) ==
    /\ acc.row = start \/ \A t \in n + 1 .. m : s[t].start >= acc.row
    /\ \A t \in 1 .. n : Skipped(s[t], end) \/ End(s[t]) <= acc.row
RowsInv(A, start, acc) ==
    \A row \in start .. acc.row - 1 :
       Taken(A, row) <=> ~ \E i \in 1 .. Len(acc.gaps) : Within(acc.gaps[i], row)

ScanInv(A, start, end, n, acc) ==
    /\ GapsInv(start, end, acc)
    /\ PassedInv(InOrder(A), Cardinality(A), start, end, n, acc)
    /\ RowsInv(A, start, acc)

LEMMA OneMore ==
  ASSUME NEW S, NEW q \in Seq(S), NEW x \in S
  PROVE  /\ Append(q, x) \in Seq(S) /\ Len(Append(q, x)) = Len(q) + 1 /\ Len(q) \in Nat
         /\ Append(q, x)[Len(q) + 1] = x
         /\ \A i \in 1 .. Len(q) : Append(q, x)[i] = q[i]
         /\ \A i \in 1 .. Len(q) + 1 : i \in 1 .. Len(q) \/ i = Len(q) + 1
  BY AppendProperties

LEMMA ScanStepIs ==
  ASSUME NEW acc \in [row : Nat, gaps : Seq(Interval)], NEW a \in Allocation, NEW end \in Int,
         ~ Skipped(a, end), NEW next, next = ScanStep(acc, a, end)
  PROVE  /\ next.row = ScanRow(acc.row, a) /\ next.gaps \in Seq(Interval)
         /\ acc.row >= a.start => next.gaps = acc.gaps
         /\ acc.row < a.start =>
               /\ Len(next.gaps) = Len(acc.gaps) + 1
               /\ next.gaps[Len(acc.gaps) + 1] = [start |-> acc.row, end |-> a.start]
               /\ \A i \in 1 .. Len(acc.gaps) : next.gaps[i] = acc.gaps[i]
  <1>1. acc.row \in Nat /\ acc.gaps \in Seq(Interval) /\ a.start \in Nat
    BY AllocationTypes
  <1>2. [start |-> acc.row, end |-> a.start] \in Interval
    BY <1>1 DEF Interval
  <1> DEFINE x == [start |-> acc.row, end |-> a.start]
             longer == Append(acc.gaps, x)
  <1>3. /\ longer \in Seq(Interval) /\ Len(longer) = Len(acc.gaps) + 1
        /\ longer[Len(acc.gaps) + 1] = x
        /\ \A i \in 1 .. Len(acc.gaps) : longer[i] = acc.gaps[i]
    <2> HIDE DEF x
    <2> QED
      BY <1>1, <1>2, OneMore DEF x
  <1>4. next = [row |-> ScanRow(acc.row, a), gaps |-> IF acc.row < a.start THEN longer ELSE acc.gaps]
    BY DEF ScanStep, Skipped
  <1> HIDE DEF x, longer
  <1>5. next.row = ScanRow(acc.row, a) /\ next.gaps = IF acc.row < a.start THEN longer ELSE acc.gaps
    BY <1>4
  <1>6. CASE acc.row < a.start
    BY <1>1, <1>3, <1>5, <1>6 DEF x
  <1>7. CASE ~(acc.row < a.start)
    BY <1>1, <1>5, <1>7
  <1> QED
    BY <1>6, <1>7

LEMMA ScanStepInv ==
  ASSUME NEW A, Apart(A), NEW n \in 1 .. Cardinality(A), NEW start \in Nat, NEW end \in Int,
         NEW acc \in [row : Nat, gaps : Seq(Interval)], ScanInv(A, start, end, n - 1, acc)
  PROVE  ScanInv(A, start, end, n, ScanStep(acc, InOrder(A)[n], end))
  <1> DEFINE s == InOrder(A)
             m == Cardinality(A)
             a == s[n]
             next == ScanStep(acc, a, end)
             l == Len(acc.gaps)
  <1>1. /\ m \in Nat /\ \A t \in 1 .. m : s[t] \in A
        /\ \A b \in A : \E t \in 1 .. m : s[t] = b
        /\ \A i, j \in 1 .. m : i < j => End(s[i]) <= s[j].start
    BY InOrderIs
  <1>2. \A t \in 1 .. m : s[t] \in Allocation
    BY <1>1 DEF Apart
  <1>3. \A t \in 1 .. m : s[t].start \in Nat /\ End(s[t]) \in Nat /\ s[t].start < End(s[t])
    BY <1>2, AllocationTypes
  <1>4. acc.row \in Nat /\ l \in Nat /\ \A i \in 1 .. l : acc.gaps[i].start \in Nat /\ acc.gaps[i].end \in Int
    <2>1. acc.row \in Nat /\ acc.gaps \in Seq(Interval)
      OBVIOUS
    <2>2. l \in Nat /\ \A i \in 1 .. l : acc.gaps[i] \in Interval
      BY <2>1
    <2> HIDE DEF l
    <2> QED
      BY <2>1, <2>2 DEF Interval
  <1>5. /\ GapsInv(start, end, acc) /\ PassedInv(s, m, start, end, n - 1, acc)
        /\ RowsInv(A, start, acc)
    BY DEF ScanInv
  <1> HIDE DEF s, m
  <1>6. CASE Skipped(a, end)
    <2>1. next = acc
      BY <1>6 DEF ScanStep, Skipped
    <2> HIDE DEF next
    <2>2. PassedInv(s, m, start, end, n, acc)
      <3>1. \A t \in 1 .. n : t \in 1 .. n - 1 \/ t = n
        BY <1>1 DEF m
      <3>2. \A t \in n + 1 .. m : t \in (n - 1) + 1 .. m
        BY <1>1 DEF m
      <3> QED
        BY <1>5, <1>6, <3>1, <3>2 DEF PassedInv
    <2> QED
      BY <1>5, <2>1, <2>2 DEF ScanInv, next, a, s, m
  <1>7. CASE ~ Skipped(a, end)
    <2>1. n \in 1 .. m
      BY DEF m
    <2>2. /\ a \in A /\ a \in Allocation /\ a.start \in Nat /\ End(a) \in Nat /\ a.start < End(a)
      BY <1>1, <1>2, <1>3, <2>1
    <2>3. /\ next.row = ScanRow(acc.row, a) /\ next.gaps \in Seq(Interval)
          /\ acc.row >= a.start => next.gaps = acc.gaps
          /\ acc.row < a.start =>
               /\ Len(next.gaps) = l + 1
               /\ next.gaps[l + 1] = [start |-> acc.row, end |-> a.start]
               /\ \A i \in 1 .. l : next.gaps[i] = acc.gaps[i]
      <3> HIDE DEF a
      <3> QED
        BY <1>7, <2>2, ScanStepIs
    <2> HIDE DEF next, a
    <2>4. /\ next.row \in Nat /\ next.row >= acc.row /\ next.row >= End(a)
          /\ next.row \in {acc.row, End(a)}
      BY <1>4, <2>2, <2>3, LaterRow
    <2>5. end = NoEnd \/ a.start < end
      BY <1>7, <2>2 DEF Skipped
    <2> HIDE DEF l
    <2> DEFINE L == Len(next.gaps)
               h == [start |-> acc.row, end |-> a.start]
    <2>6. /\ L \in Nat
          /\ \A i \in 1 .. L : \/ i \in 1 .. l /\ next.gaps[i] = acc.gaps[i]
                               \/ /\ i = l + 1 /\ acc.row < a.start
                                  /\ next.gaps[i].start = acc.row /\ next.gaps[i].end = a.start
          /\ \A i \in 1 .. l : i \in 1 .. L /\ next.gaps[i] = acc.gaps[i]
          /\ acc.row < a.start => /\ l + 1 \in 1 .. L
                                  /\ next.gaps[l + 1].start = acc.row /\ next.gaps[l + 1].end = a.start
      <3>1. h.start = acc.row /\ h.end = a.start
        OBVIOUS
      <3> HIDE DEF h
      <3>2. CASE acc.row < a.start
        <4>1. L = l + 1 /\ next.gaps[l + 1] = h /\ \A i \in 1 .. l : next.gaps[i] = acc.gaps[i]
          BY <2>3, <3>2 DEF h
        <4> HIDE DEF L
        <4> QED
          BY <1>4, <3>1, <3>2, <4>1
      <3>3. CASE ~(acc.row < a.start)
        <4>1. next.gaps = acc.gaps /\ L = l
          BY <1>4, <2>2, <2>3, <3>3 DEF l
        <4> HIDE DEF L
        <4> QED
          BY <1>4, <3>3, <4>1
      <3> QED
        BY <3>2, <3>3
    <2>7. GapsInv(start, end, next)
      <3>1. next.row >= start
        BY <1>4, <1>5, <2>4 DEF GapsInv
      <3>2. ASSUME NEW i \in 1 .. L
            PROVE  /\ start <= next.gaps[i].start /\ next.gaps[i].start < next.gaps[i].end
                   /\ next.gaps[i].end < next.row
                   /\ end = NoEnd \/ next.gaps[i].end < end
        <4>1. CASE i \in 1 .. l /\ next.gaps[i] = acc.gaps[i]
          <5>1. /\ start <= acc.gaps[i].start /\ acc.gaps[i].start < acc.gaps[i].end
                /\ acc.gaps[i].end < acc.row
                /\ end = NoEnd \/ acc.gaps[i].end < end
            BY <1>5, <4>1 DEF GapsInv, l
          <5>2. acc.gaps[i].end < next.row
            BY <1>4, <2>4, <4>1, <5>1
          <5> QED
            BY <4>1, <5>1, <5>2
        <4>2. CASE /\ i = l + 1 /\ acc.row < a.start
                   /\ next.gaps[i].start = acc.row /\ next.gaps[i].end = a.start
          BY <1>4, <1>5, <2>2, <2>4, <2>5, <4>2 DEF GapsInv
        <4> QED
          BY <2>6, <4>1, <4>2
      <3>3. ASSUME NEW i \in 1 .. L, NEW j \in 1 .. L, i < j
            PROVE  next.gaps[i].end < next.gaps[j].start
        <4>1. i \in 1 .. l /\ next.gaps[i] = acc.gaps[i]
          <5>1. j <= l + 1 /\ i < l + 1
            <6>1. j \in 1 .. l \/ j = l + 1
              BY <2>6
            <6> QED
              BY <1>4, <3>3, <6>1
          <5> QED
            BY <1>4, <2>6, <5>1
        <4>2. CASE j \in 1 .. l /\ next.gaps[j] = acc.gaps[j]
          BY <1>5, <3>3, <4>1, <4>2 DEF GapsInv, l
        <4>3. CASE next.gaps[j].start = acc.row
          BY <1>5, <4>1, <4>3 DEF GapsInv, l
        <4> QED
          BY <2>6, <4>2, <4>3
      <3> QED
        BY <3>1, <3>2, <3>3 DEF GapsInv
    <2>8. PassedInv(s, m, start, end, n, next)
      <3>1. next.row = start \/ \A t \in n + 1 .. m : s[t].start >= next.row
        <4>1. \A t \in n + 1 .. m : t \in 1 .. m /\ t \in (n - 1) + 1 .. m /\ n < t
          BY <1>1, <2>1
        <4>2. \A t \in n + 1 .. m : s[t].start >= End(a)
          BY <1>1, <1>3, <2>1, <2>2, <4>1 DEF a
        <4>3. acc.row = start \/ \A t \in n + 1 .. m : s[t].start >= acc.row
          BY <1>5, <4>1 DEF PassedInv
        <4> QED
          BY <2>4, <4>2, <4>3
      <3>2. ASSUME NEW t \in 1 .. n
            PROVE  Skipped(s[t], end) \/ End(s[t]) <= next.row
        <4>1. CASE t = n
          BY <2>2, <2>4, <4>1 DEF a
        <4>2. CASE t # n
          <5>1. t \in 1 .. n - 1 /\ t \in 1 .. m
            BY <1>1, <2>1, <4>2
          <5>2. Skipped(s[t], end) \/ End(s[t]) <= acc.row
            BY <1>5, <5>1 DEF PassedInv
          <5> QED
            BY <1>3, <1>4, <2>4, <5>1, <5>2
        <4> QED
          BY <4>1, <4>2
      <3> QED
        BY <3>1, <3>2 DEF PassedInv
    <2>9. RowsInv(A, start, next)
      <3> DEFINE Free(g, row) == \E i \in 1 .. Len(g.gaps) : Within(g.gaps[i], row)
      <3>1. SUFFICES ASSUME NEW row \in start .. next.row - 1
                     PROVE  Taken(A, row) <=> ~ Free(next, row)
        BY DEF RowsInv
      <3>2. row \in Nat /\ row >= start /\ row < next.row
        BY <2>4
      <3>3. /\ Free(acc, row) => Free(next, row)
            /\ Free(next, row) => \/ Free(acc, row)
                                  \/ acc.row < a.start /\ acc.row <= row /\ row < a.start
            /\ acc.row < a.start /\ acc.row <= row /\ row < a.start => Free(next, row)
        <4>1. Free(acc, row) => Free(next, row)
          BY <2>6 DEF l
        <4>2. Free(next, row) => \/ Free(acc, row)
                                 \/ acc.row < a.start /\ acc.row <= row /\ row < a.start
          <5>1. SUFFICES ASSUME NEW i \in 1 .. L, Within(next.gaps[i], row)
                         PROVE  \/ Free(acc, row)
                                \/ acc.row < a.start /\ acc.row <= row /\ row < a.start
            OBVIOUS
          <5>2. CASE i \in 1 .. l /\ next.gaps[i] = acc.gaps[i]
            BY <5>1, <5>2 DEF l
          <5>3. CASE /\ i = l + 1 /\ acc.row < a.start
                     /\ next.gaps[i].start = acc.row /\ next.gaps[i].end = a.start
            BY <2>2, <5>1, <5>3 DEF Within, NoEnd
          <5> QED
            BY <2>6, <5>2, <5>3
        <4>3. acc.row < a.start /\ acc.row <= row /\ row < a.start => Free(next, row)
          BY <2>6 DEF Within
        <4> QED
          BY <4>1, <4>2, <4>3
      <3>4. \A i \in 1 .. l : ~ Within(acc.gaps[i], row) \/ row < acc.row
        <4>1. TAKE i \in 1 .. l
        <4>2. acc.gaps[i].end < acc.row /\ acc.gaps[i].start < acc.gaps[i].end
          BY <1>5 DEF GapsInv, l
        <4>3. acc.gaps[i].start \in Nat /\ acc.gaps[i].end \in Int
          BY <1>4
        <4> QED
          BY <1>4, <3>2, <4>2, <4>3 DEF Within, NoEnd
      <3>5. CASE row < acc.row
        <4>1. row \in start .. acc.row - 1
          BY <1>4, <3>2, <3>5
        <4>2. Taken(A, row) <=> ~ Free(acc, row)
          BY <1>5, <4>1 DEF RowsInv
        <4> HIDE DEF Free
        <4> QED
          BY <1>4, <3>2, <3>3, <3>5, <4>2
      <3>6. CASE ~(row < acc.row)
        <4>1. ~ Free(acc, row)
          BY <3>4, <3>6 DEF l
        <4>2. next.row = End(a) /\ row < End(a) /\ acc.row <= row
          BY <1>4, <2>4, <3>2, <3>6
        <4>3. CASE a.start <= row
          <5>1. Taken(A, row)
            BY <2>2, <4>2, <4>3 DEF Taken
          <5> HIDE DEF Free
          <5> QED
            BY <2>2, <3>2, <3>3, <4>1, <4>3, <5>1
        <4>4. CASE ~(a.start <= row)
          <5>1. acc.row < a.start /\ row < a.start
            BY <1>4, <2>2, <3>2, <4>2, <4>4
          <5>2. ASSUME NEW b \in A, b.start <= row, row < End(b)
                PROVE  FALSE
            <6>1. PICK t \in 1 .. m : s[t] = b
              BY <1>1
            <6>2. b.start \in Nat /\ End(b) \in Nat
              BY <1>3, <6>1
            <6>3. CASE t = n
              BY <2>2, <3>2, <5>1, <5>2, <6>1, <6>3 DEF a
            <6>4. CASE t > n
              <7>1. End(a) <= b.start
                BY <1>1, <2>1, <6>1, <6>4 DEF a
              <7> QED
                BY <2>2, <3>2, <4>2, <5>2, <6>2, <7>1
            <6>5. CASE t < n
              <7>1. End(b) <= a.start /\ b.start < a.start
                <8>1. End(s[t]) <= s[n].start
                  BY <1>1, <2>1, <6>5
                <8>2. End(b) <= a.start /\ b.start < End(b)
                  BY <1>3, <6>1, <8>1 DEF a
                <8> QED
                  BY <2>2, <6>2, <8>2
              <7>2. t \in 1 .. n - 1
                BY <1>1, <2>1, <6>5
              <7>3. ~ Skipped(b, end)
                BY <2>2, <2>5, <6>2, <7>1 DEF Skipped
              <7>4. End(b) <= acc.row
                BY <1>5, <6>1, <7>2, <7>3 DEF PassedInv
              <7> QED
                BY <1>4, <3>2, <4>2, <5>2, <6>2, <7>4
            <6> QED
              BY <1>1, <2>1, <6>3, <6>4, <6>5
          <5>3. ~ Taken(A, row)
            BY <5>2 DEF Taken
          <5> HIDE DEF Free
          <5> QED
            BY <3>3, <4>2, <5>1, <5>3
        <4> QED
          BY <4>3, <4>4
      <3> QED
        BY <3>5, <3>6
    <2> QED
      BY <2>7, <2>8, <2>9 DEF ScanInv, next, a, s, m
  <1> QED
    BY <1>6, <1>7

(* The rows that free_intervals leaves free: what the planner relies on.   *)
FreeSpaces(A, start, end, spaces) ==
    /\ spaces \in Seq(Interval)
    /\ \A t \in 1 .. Len(spaces) :
          /\ start <= spaces[t].start
          /\ \/ spaces[t].end = NoEnd /\ end = NoEnd
             \/ spaces[t].start < spaces[t].end /\ (end = NoEnd \/ spaces[t].end <= end)
    /\ \A j, t \in 1 .. Len(spaces) :
          j < t => spaces[j].end # NoEnd /\ spaces[j].end < spaces[t].start
    /\ \A row \in Nat : row >= start /\ (end = NoEnd \/ row < end) =>
          (~ Taken(A, row) <=> \E t \in 1 .. Len(spaces) : Within(spaces[t], row))

LEMMA ScanEnds ==
  ASSUME NEW A, Apart(A), NEW start \in Nat, NEW end \in Int,
         NEW acc \in [row : Nat, gaps : Seq(Interval)], ScanInv(A, start, end, Cardinality(A), acc)
  PROVE  FreeSpaces(A, start, end, Spaces(acc, end))
  <1> DEFINE s == InOrder(A)
             m == Cardinality(A)
             l == Len(acc.gaps)
             spaces == Spaces(acc, end)
             L == Len(spaces)
             open == end = NoEnd \/ acc.row < end
             h == [start |-> acc.row, end |-> end]
  <1>1. m \in Nat /\ \A b \in A : \E t \in 1 .. m : s[t] = b
    BY InOrderIs
  <1>2. \A b \in A : b.start \in Nat /\ End(b) \in Nat /\ b.start < End(b)
    BY AllocationTypes DEF Apart
  <1>3. /\ GapsInv(start, end, acc) /\ PassedInv(s, m, start, end, m, acc)
        /\ RowsInv(A, start, acc)
    BY DEF ScanInv
  <1> HIDE DEF s, m
  <1>4. acc.row \in Nat /\ l \in Nat /\ \A i \in 1 .. l : acc.gaps[i].start \in Nat /\ acc.gaps[i].end \in Int
    <2>1. acc.row \in Nat /\ acc.gaps \in Seq(Interval)
      OBVIOUS
    <2>2. l \in Nat /\ \A i \in 1 .. l : acc.gaps[i] \in Interval
      BY <2>1
    <2> HIDE DEF l
    <2> QED
      BY <2>1, <2>2 DEF Interval
  <1>5. /\ spaces \in Seq(Interval) /\ L \in Nat
        /\ \A i \in 1 .. L : \/ i \in 1 .. l /\ spaces[i] = acc.gaps[i]
                             \/ i = l + 1 /\ open /\ spaces[i].start = acc.row /\ spaces[i].end = end
        /\ \A i \in 1 .. l : i \in 1 .. L /\ spaces[i] = acc.gaps[i]
        /\ open => l + 1 \in 1 .. L /\ spaces[l + 1].start = acc.row /\ spaces[l + 1].end = end
    <2>1. h.start = acc.row /\ h.end = end /\ h \in Interval
      BY <1>4 DEF Interval
    <2> HIDE DEF h
    <2>2. CASE open
      <3>1. spaces = Append(acc.gaps, h)
        BY <2>2 DEF Spaces, h
      <3>2. /\ spaces \in Seq(Interval) /\ L = l + 1 /\ spaces[l + 1] = h
            /\ \A i \in 1 .. l : spaces[i] = acc.gaps[i]
        BY <2>1, <3>1, OneMore
      <3> HIDE DEF spaces, l, L, open
      <3>3. /\ l \in Nat /\ L \in Nat /\ l + 1 \in 1 .. L
            /\ \A i \in 1 .. l : i \in 1 .. L
            /\ \A i \in 1 .. L : i \in 1 .. l \/ i = l + 1
        BY <1>4, <3>2
      <3> QED
        BY <2>1, <2>2, <3>2, <3>3
    <2>3. CASE ~ open
      <3>1. spaces = acc.gaps
        BY <2>3 DEF Spaces
      <3>2. spaces \in Seq(Interval) /\ L = l
        BY <3>1
      <3> HIDE DEF spaces, l, L, open
      <3> QED
        BY <1>4, <2>3, <3>1, <3>2
    <2> QED
      BY <2>2, <2>3
  <1> HIDE DEF spaces, L, l, h
  <1>6. ASSUME NEW t \in 1 .. L
        PROVE  /\ start <= spaces[t].start
               /\ \/ spaces[t].end = NoEnd /\ end = NoEnd
                  \/ spaces[t].start < spaces[t].end /\ (end = NoEnd \/ spaces[t].end <= end)
    <2>1. CASE t \in 1 .. l /\ spaces[t] = acc.gaps[t]
      <3>1. /\ start <= acc.gaps[t].start /\ acc.gaps[t].start < acc.gaps[t].end
            /\ end = NoEnd \/ acc.gaps[t].end < end
        BY <1>3, <2>1 DEF GapsInv, l
      <3> QED
        BY <1>4, <2>1, <3>1
    <2>2. CASE open /\ spaces[t].start = acc.row /\ spaces[t].end = end
      BY <1>3, <1>4, <2>2 DEF GapsInv
    <2> QED
      BY <1>5, <2>1, <2>2
  <1>7. ASSUME NEW j \in 1 .. L, NEW t \in 1 .. L, j < t
        PROVE  spaces[j].end # NoEnd /\ spaces[j].end < spaces[t].start
    <2>1. j \in 1 .. l /\ spaces[j] = acc.gaps[j]
      <3>1. t \in 1 .. l \/ t = l + 1
        BY <1>5
      <3>2. j < l + 1
        BY <1>4, <1>7, <3>1
      <3> QED
        BY <1>4, <1>5, <3>2
    <2>2. /\ acc.gaps[j].start < acc.gaps[j].end /\ acc.gaps[j].end < acc.row
      BY <1>3, <2>1 DEF GapsInv, l
    <2>3. spaces[j].end # NoEnd
      BY <1>4, <2>1, <2>2 DEF NoEnd
    <2>4. CASE t \in 1 .. l /\ spaces[t] = acc.gaps[t]
      BY <1>3, <1>7, <2>1, <2>3, <2>4 DEF GapsInv, l
    <2>5. CASE spaces[t].start = acc.row
      BY <2>1, <2>2, <2>3, <2>5
    <2> QED
      BY <1>5, <2>4, <2>5
  <1>8. ASSUME NEW row \in Nat, row >= start, end = NoEnd \/ row < end
        PROVE  ~ Taken(A, row) <=> \E t \in 1 .. L : Within(spaces[t], row)
    <2>1. CASE row < acc.row
      <3>1. row \in start .. acc.row - 1
        BY <1>4, <1>8, <2>1
      <3>2. Taken(A, row) <=> ~ \E i \in 1 .. l : Within(acc.gaps[i], row)
        BY <1>3, <3>1 DEF RowsInv, l
      <3>3. ASSUME NEW t \in 1 .. L, spaces[t].start = acc.row
            PROVE  ~ Within(spaces[t], row)
        BY <1>4, <2>1, <3>3 DEF Within
      <3>4. (\E i \in 1 .. l : Within(acc.gaps[i], row)) <=> \E t \in 1 .. L : Within(spaces[t], row)
        BY <1>5, <3>3
      <3> QED
        BY <3>2, <3>4
    <2>2. CASE ~(row < acc.row)
      <3>1. open
        BY <1>4, <1>8, <2>2
      <3>2. Within(spaces[l + 1], row) /\ l + 1 \in 1 .. L
        BY <1>4, <1>5, <1>8, <2>2, <3>1 DEF Within
      <3>3. ASSUME NEW b \in A, b.start <= row, row < End(b)
            PROVE  FALSE
        <4>1. PICK t \in 1 .. m : s[t] = b
          BY <1>1
        <4>2. Skipped(b, end) \/ End(b) <= acc.row
          BY <1>3, <4>1 DEF PassedInv
        <4>3. ~ Skipped(b, end)
          BY <1>2, <1>8, <3>3 DEF Skipped
        <4> QED
          BY <1>2, <1>4, <2>2, <3>3, <4>2, <4>3
      <3>4. ~ Taken(A, row)
        BY <3>3 DEF Taken
      <3> QED
        BY <3>2, <3>4
    <2> QED
      BY <2>1, <2>2
  <1>9. FreeSpaces(A, start, end, spaces)
    BY <1>5, <1>6, <1>7, <1>8 DEF FreeSpaces, L
  <1> QED
    BY <1>9 DEF spaces

LEMMA FreeIntervalsAre ==
  ASSUME NEW A, Apart(A), NEW start \in Nat, NEW end \in Int
  PROVE  FreeSpaces(A, start, end, FreeIntervals(A, start, end))
  <1> DEFINE m == Cardinality(A)
  <1>1. m \in Nat
    BY InOrderIs
  <1>2. PICK f : /\ f[0] = [row |-> start, gaps |-> <<>>]
                 /\ \A n \in 1 .. Cardinality(A) :
                      /\ f[n - 1] \in [row : Nat, gaps : Seq(Interval)]
                      /\ f[n] \in [row : Nat, gaps : Seq(Interval)]
                      /\ f[n] = ScanStep(f[n - 1], InOrder(A)[n], end)
                 /\ f[Cardinality(A)] \in [row : Nat, gaps : Seq(Interval)]
                 /\ FreeIntervals(A, start, end) = Spaces(f[Cardinality(A)], end)
    BY ScanIs
  <1> DEFINE P == {n \in 0 .. m : ScanInv(A, start, end, n, f[n])}
  <1>3. 0 \in P
    <2> DEFINE acc == [row |-> start, gaps |-> <<>>]
    <2>1. acc.row = start /\ Len(acc.gaps) = 0
      OBVIOUS
    <2> HIDE DEF acc
    <2>2. GapsInv(start, end, acc)
      BY <2>1 DEF GapsInv
    <2>3. PassedInv(InOrder(A), Cardinality(A), start, end, 0, acc)
      BY <2>1 DEF PassedInv
    <2>4. RowsInv(A, start, acc)
      BY <2>1 DEF RowsInv
    <2>5. f[0] = acc /\ 0 \in 0 .. m
      BY <1>1, <1>2 DEF acc
    <2> QED
      BY <2>2, <2>3, <2>4, <2>5 DEF ScanInv
  <1>4. ASSUME NEW n \in 1 .. m, n - 1 \in P
        PROVE  n \in P
    <2>1. ScanInv(A, start, end, n, f[n])
      BY <1>2, <1>4, ScanStepInv
    <2>2. n \in 0 .. m
      BY <1>1
    <2> QED
      BY <2>1, <2>2
  <1>5. 0 .. m \subseteq P
    <2> HIDE DEF P, m
    <2> QED
      BY <1>1, <1>3, <1>4, InductionUpTo
  <1>6. ScanInv(A, start, end, m, f[m])
    BY <1>1, <1>5
  <1> QED
    BY <1>2, <1>6, ScanEnds

-----------------------------------------------------------------------------
(* first_fit_region as a loop over the region's columns, from the last.    *)
FitNothing == [within \in Interval |-> within.start]
FitSet(spaces, length, fit) == {t \in DOMAIN spaces : RoomFor(spaces[t], length) /\ fit[spaces[t]] # NoFit}
FitAmong(spaces, length, fit) ==
    IF FitSet(spaces, length, fit) = {} THEN NoFit
    ELSE fit[spaces[FirstOf(FitSet(spaces, length, fit))]]
FitIn(column, length, fit) ==
    [within \in Interval |->
       FitAmong(FreeIntervals(column_allocations[column], within.start, within.end), length, fit)]

(* What it looks for: a row where the region fits into the interval and    *)
(* into the last n of its columns, and the least one.                      *)
Fits(within, length, row) ==
    within.start <= row /\ (within.end = NoEnd \/ row + length <= within.end)
FreeIn(A, length, row) == \A t \in 0 .. length - 1 : ~ Taken(A, row + t)
FreeInLast(columns, length, n, row) ==
    \A j \in Len(columns) - n + 1 .. Len(columns) :
       FreeIn(column_allocations[columns[j]], length, row)
LeastFit(columns, length, n, within, row) ==
    \/ /\ row = NoFit
       /\ \A other \in Nat : ~ (Fits(within, length, other) /\ FreeInLast(columns, length, n, other))
    \/ /\ row \in Nat /\ Fits(within, length, row) /\ FreeInLast(columns, length, n, row)
       /\ \A other \in Nat :
             other < row => ~ (Fits(within, length, other) /\ FreeInLast(columns, length, n, other))

LEMMA FirstOfIs ==
  ASSUME NEW S \in SUBSET Nat, S # {}
  PROVE  FirstOf(S) \in S /\ \A t \in S : FirstOf(S) <= t
  <1>1. \E x \in S : \A y \in S : x <= y
    BY LeastOfSet
  <1> QED
    BY <1>1 DEF FirstOf, Min

(* The gap of a column in which a row fits, and the rows that fit a gap.   *)
LEMMA FitsOneSpace ==
  ASSUME NEW A, NEW within \in Interval, NEW spaces,
         FreeSpaces(A, within.start, within.end, spaces),
         NEW length \in Nat \ {0}, NEW row \in Nat, Fits(within, length, row), FreeIn(A, length, row)
  PROVE  \E t \in 1 .. Len(spaces) : RoomFor(spaces[t], length) /\ Fits(spaces[t], length, row)
  <1> DEFINE start == within.start
             end == within.end
             L == Len(spaces)
  <1>1. start \in Nat /\ end \in Int
    BY DEF Interval
  <1>2. /\ spaces \in Seq(Interval)
        /\ \A t \in 1 .. L :
              /\ start <= spaces[t].start
              /\ \/ spaces[t].end = NoEnd /\ end = NoEnd
                 \/ spaces[t].start < spaces[t].end /\ (end = NoEnd \/ spaces[t].end <= end)
        /\ \A j, t \in 1 .. L : j < t => spaces[j].end # NoEnd /\ spaces[j].end < spaces[t].start
        /\ \A r \in Nat : r >= start /\ (end = NoEnd \/ r < end) =>
              (~ Taken(A, r) <=> \E t \in 1 .. L : Within(spaces[t], r))
    BY DEF FreeSpaces
  <1>3. L \in Nat /\ \A t \in 1 .. L : spaces[t].start \in Nat /\ spaces[t].end \in Int
    <2>1. L \in Nat /\ \A t \in 1 .. L : spaces[t] \in Interval
      BY <1>2
    <2> HIDE DEF L
    <2> QED
      BY <2>1 DEF Interval
  <1>4. row >= start /\ (end = NoEnd \/ row + length <= end)
    BY DEF Fits
  <1> HIDE DEF start, end, L
  <1>5. \A r \in Nat : row <= r /\ r < row + length => \E t \in 1 .. L : Within(spaces[t], r)
    <2>1. SUFFICES ASSUME NEW r \in Nat, row <= r, r < row + length
                   PROVE  \E t \in 1 .. L : Within(spaces[t], r)
      OBVIOUS
    <2>2. r - row \in 0 .. length - 1 /\ row + (r - row) = r
      BY <2>1
    <2>3. ~ Taken(A, r)
      BY <2>2 DEF FreeIn
    <2>4. r >= start /\ (end = NoEnd \/ r < end)
      BY <1>1, <1>4, <2>1
    <2> QED
      BY <1>2, <2>3, <2>4
  <1>6. PICK t \in 1 .. L : Within(spaces[t], row)
    BY <1>5
  <1> DEFINE e == spaces[t].end
  <1>7. spaces[t].start <= row /\ (e = NoEnd \/ row < e)
    BY <1>6 DEF Within
  <1>8. CASE e = NoEnd
    BY <1>7, <1>8 DEF RoomFor, Fits, L
  <1>9. CASE e # NoEnd
    <2>1. row < e /\ e \in Nat
      BY <1>3, <1>7, <1>9
    <2>2. row + length <= e
      <3>1. SUFFICES ASSUME ~(row + length <= e)
                     PROVE  FALSE
        OBVIOUS
      <3>2. PICK j \in 1 .. L : Within(spaces[j], e)
        BY <1>5, <2>1, <3>1
      <3>3. spaces[j].start <= e /\ (spaces[j].end = NoEnd \/ e < spaces[j].end)
        BY <3>2 DEF Within
      <3>4. CASE j = t
        BY <1>9, <2>1, <3>3, <3>4
      <3>5. CASE j < t
        <4>1. spaces[j].end # NoEnd /\ spaces[j].end < spaces[t].start
          BY <1>2, <3>5
        <4> QED
          BY <1>3, <1>7, <2>1, <3>3, <4>1
      <3>6. CASE t < j
        <4>1. e < spaces[j].start
          BY <1>2, <3>6
        <4> QED
          BY <1>3, <2>1, <3>3, <4>1
      <3> QED
        BY <3>4, <3>5, <3>6
    <2>3. e - spaces[t].start >= length
      BY <1>3, <1>7, <2>1, <2>2
    <2> QED
      BY <1>7, <2>2, <2>3 DEF RoomFor, Fits, L
  <1> QED
    BY <1>8, <1>9

LEMMA SpaceFits ==
  ASSUME NEW A, NEW within \in Interval, NEW spaces,
         FreeSpaces(A, within.start, within.end, spaces),
         NEW length \in Nat \ {0}, NEW row \in Nat, NEW t \in 1 .. Len(spaces),
         Fits(spaces[t], length, row)
  PROVE  Fits(within, length, row) /\ FreeIn(A, length, row)
  <1> DEFINE start == within.start
             end == within.end
             L == Len(spaces)
  <1>1. start \in Nat /\ end \in Int
    BY DEF Interval
  <1>2. /\ spaces \in Seq(Interval)
        /\ start <= spaces[t].start
        /\ \/ spaces[t].end = NoEnd /\ end = NoEnd
           \/ spaces[t].start < spaces[t].end /\ (end = NoEnd \/ spaces[t].end <= end)
        /\ \A r \in Nat : r >= start /\ (end = NoEnd \/ r < end) =>
              (~ Taken(A, r) <=> \E j \in 1 .. L : Within(spaces[j], r))
    BY DEF FreeSpaces
  <1>3. spaces[t].start \in Nat /\ spaces[t].end \in Int /\ t \in 1 .. L
    <2>1. spaces[t] \in Interval /\ t \in 1 .. L
      BY <1>2
    <2> HIDE DEF L
    <2> QED
      BY <2>1 DEF Interval
  <1> HIDE DEF start, end, L
  <1>4. spaces[t].start <= row /\ (spaces[t].end = NoEnd \/ row + length <= spaces[t].end)
    BY DEF Fits
  <1>5. Fits(within, length, row)
    BY <1>1, <1>2, <1>3, <1>4 DEF Fits, start, end, NoEnd
  <1>6. ASSUME NEW x \in 0 .. length - 1
        PROVE  ~ Taken(A, row + x)
    <2>1. row + x \in Nat /\ row + x >= start /\ row + x < row + length
      BY <1>1, <1>2, <1>3, <1>4
    <2>2. end = NoEnd \/ row + x < end
      BY <1>1, <1>2, <1>3, <1>4, <2>1 DEF NoEnd
    <2>3. Within(spaces[t], row + x)
      BY <1>2, <1>3, <1>4, <2>1 DEF Within
    <2> QED
      BY <1>2, <1>3, <2>1, <2>2, <2>3
  <1> QED
    BY <1>5, <1>6 DEF FreeIn

ColumnsApart(columns) ==
    /\ Len(columns) \in Nat
    /\ \A j \in 1 .. Len(columns) : Apart(column_allocations[columns[j]])

LEMMA FitInType ==
  ASSUME NEW column, Apart(column_allocations[column]), NEW length, NEW fit \in [Interval -> Int]
  PROVE  /\ FitIn(column, length, fit) \in [Interval -> Int]
         /\ \A within \in Interval :
               FitIn(column, length, fit)[within]
                 = FitAmong(FreeIntervals(column_allocations[column], within.start, within.end),
                            length, fit)
  <1> DEFINE spaces(w) == FreeIntervals(column_allocations[column], w.start, w.end)
  <1>1. ASSUME NEW w \in Interval
        PROVE  FitAmong(spaces(w), length, fit) \in Int
    <2>1. w.start \in Nat /\ w.end \in Int
      BY DEF Interval
    <2>2. spaces(w) \in Seq(Interval)
      BY <2>1, FreeIntervalsAre DEF FreeSpaces
    <2> DEFINE q == spaces(w)
               F == FitSet(q, length, fit)
    <2> HIDE DEF spaces
    <2>3. F \subseteq DOMAIN q /\ DOMAIN q \subseteq Nat /\ \A t \in DOMAIN q : q[t] \in Interval
      BY <2>2 DEF FitSet
    <2> HIDE DEF F, q
    <2>4. F # {} => FirstOf(F) \in DOMAIN q
      BY <2>3, FirstOfIs
    <2>5. F # {} => fit[q[FirstOf(F)]] \in Int
      BY <2>3, <2>4
    <2> QED
      BY <2>5 DEF FitAmong, NoFit, F, q
  <1> QED
    BY <1>1 DEF FitIn

(* One more column: the first of its gaps in which the others fit has the  *)
(* least row in which all fit.                                             *)
LEMMA LastColumns ==
  ASSUME NEW columns, Len(columns) \in Nat, NEW n \in 1 .. Len(columns), NEW length, NEW row
  PROVE  FreeInLast(columns, length, n, row)
           <=> /\ FreeIn(column_allocations[columns[Len(columns) - n + 1]], length, row)
               /\ FreeInLast(columns, length, n - 1, row)
  <1> DEFINE m == Len(columns)
  <1>1. \A j \in m - n + 1 .. m : j = m - n + 1 \/ j \in m - (n - 1) + 1 .. m
    OBVIOUS
  <1>2. m - n + 1 \in m - n + 1 .. m /\ \A j \in m - (n - 1) + 1 .. m : j \in m - n + 1 .. m
    OBVIOUS
  <1> QED
    BY <1>1, <1>2 DEF FreeInLast

LEMMA FitInIs ==
  ASSUME NEW columns, ColumnsApart(columns), NEW n \in 1 .. Len(columns),
         NEW length \in Nat \ {0}, NEW fit \in [Interval -> Int],
         \A w \in Interval : RoomFor(w, length) => LeastFit(columns, length, n - 1, w, fit[w]),
         NEW within \in Interval
  PROVE  LeastFit(columns, length, n, within,
                  FitIn(columns[Len(columns) - n + 1], length, fit)[within])
  <1> DEFINE column == columns[Len(columns) - n + 1]
             A == column_allocations[column]
             spaces == FreeIntervals(A, within.start, within.end)
             L == Len(spaces)
             F == FitSet(spaces, length, fit)
             x == FitIn(column, length, fit)[within]
             All(row) == Fits(within, length, row) /\ FreeInLast(columns, length, n, row)
             In(t, row) == Fits(spaces[t], length, row) /\ FreeInLast(columns, length, n - 1, row)
  <1>1. Len(columns) \in Nat /\ Len(columns) - n + 1 \in 1 .. Len(columns) /\ Apart(A)
    BY DEF ColumnsApart
  <1>2. within.start \in Nat /\ within.end \in Int
    BY DEF Interval
  <1>3. FreeSpaces(A, within.start, within.end, spaces)
    BY <1>1, <1>2, FreeIntervalsAre
  <1>4. x = FitAmong(spaces, length, fit)
    BY <1>1, FitInType
  <1> HIDE DEF spaces, A, x
  <1>5. L \in Nat /\ DOMAIN spaces = 1 .. L /\ \A t \in 1 .. L : spaces[t] \in Interval
    BY <1>3 DEF FreeSpaces
  <1>6. \A j, t \in 1 .. L : j < t => spaces[j].end # NoEnd /\ spaces[j].end < spaces[t].start
    BY <1>3 DEF FreeSpaces
  <1>7. \A row : FreeInLast(columns, length, n, row)
                   <=> FreeIn(A, length, row) /\ FreeInLast(columns, length, n - 1, row)
    BY <1>1, LastColumns DEF A
  <1>8. \A row \in Nat : All(row) => \E t \in 1 .. L : RoomFor(spaces[t], length) /\ In(t, row)
    BY <1>3, <1>7, FitsOneSpace
  <1>9. \A row \in Nat, t \in 1 .. L : In(t, row) => All(row)
    BY <1>3, <1>7, SpaceFits
  <1> HIDE DEF All, L, column
  <1>10. F = {t \in 1 .. L : RoomFor(spaces[t], length) /\ fit[spaces[t]] # NoFit}
    BY <1>5 DEF FitSet
  <1> HIDE DEF F
  <1>11. ASSUME NEW t \in 1 .. L, RoomFor(spaces[t], length)
         PROVE  \/ /\ fit[spaces[t]] = NoFit /\ \A other \in Nat : ~ In(t, other)
                \/ /\ fit[spaces[t]] \in Nat /\ In(t, fit[spaces[t]])
                   /\ \A other \in Nat : other < fit[spaces[t]] => ~ In(t, other)
    <2>1. LeastFit(columns, length, n - 1, spaces[t], fit[spaces[t]])
      BY <1>5, <1>11
    <2> QED
      BY <2>1 DEF LeastFit
  <1>12. \A row \in Nat : All(row) => \E t \in F : In(t, row)
    <2>1. SUFFICES ASSUME NEW row \in Nat, All(row)
                   PROVE  \E t \in F : In(t, row)
      OBVIOUS
    <2>2. PICK t \in 1 .. L : RoomFor(spaces[t], length) /\ In(t, row)
      BY <1>8, <2>1
    <2> HIDE DEF In
    <2>3. fit[spaces[t]] # NoFit
      BY <1>11, <2>2 DEF NoFit
    <2> QED
      BY <1>10, <2>2, <2>3
  <1>13. CASE F = {}
    <2>1. x = NoFit
      BY <1>4, <1>13 DEF FitAmong, F
    <2> QED
      BY <1>12, <1>13, <2>1 DEF LeastFit, All, x, column
  <1>14. CASE F # {}
    <2> DEFINE f == FirstOf(F)
    <2>1. f \in F /\ \A t \in F : f <= t
      <3>1. F \in SUBSET Nat
        BY <1>5, <1>10
      <3> QED
        BY <1>14, <3>1, FirstOfIs
    <2>2. x = fit[spaces[f]]
      BY <1>4, <1>14 DEF FitAmong, F
    <2> HIDE DEF f
    <2>3. f \in 1 .. L /\ RoomFor(spaces[f], length) /\ fit[spaces[f]] # NoFit
      BY <1>10, <2>1
    <2>4. x \in Nat /\ In(f, x) /\ \A other \in Nat : other < x => ~ In(f, other)
      <3> HIDE DEF In
      <3> QED
        BY <1>11, <2>2, <2>3
    <2>5. All(x)
      BY <1>9, <2>3, <2>4
    <2>6. ASSUME NEW row \in Nat, row < x, All(row)
          PROVE  FALSE
      <3>1. PICK t \in F : In(t, row)
        BY <1>12, <2>6
      <3>2. t \in 1 .. L /\ f <= t
        BY <1>10, <2>1
      <3>3. t # f
        BY <2>4, <2>6, <3>1
      <3>4. f < t
        BY <1>5, <2>3, <3>2, <3>3
      <3>5. spaces[f].end # NoEnd /\ spaces[f].end < spaces[t].start
        BY <1>6, <2>3, <3>2, <3>4
      <3>6. spaces[t].start <= row
        BY <3>1 DEF Fits
      <3>7. x + length <= spaces[f].end
        BY <2>4, <3>5 DEF Fits
      <3>8. spaces[t].start \in Nat /\ spaces[f].end \in Int
        BY <1>5, <2>3, <3>2 DEF Interval
      <3> QED
        BY <2>4, <2>6, <3>5, <3>6, <3>7, <3>8
    <2> QED
      BY <2>4, <2>5, <2>6 DEF LeastFit, All, x, column
  <1> QED
    BY <1>13, <1>14

LEMMA FirstFitIs ==
  ASSUME NEW columns, ColumnsApart(columns), NEW length \in Nat, Len(columns) # 0 => length # 0
  PROVE  LeastFit(columns, length, Len(columns), [start |-> 0, end |-> NoEnd],
                  FirstFitRegion(columns, length))
  <1> DEFINE m == Len(columns)
             S == [Interval -> Int]
             next == [p \in (1 .. m) \X S |-> FitIn(columns[m - p[1] + 1], length, p[2])]
             Is(g) == g = [n \in 0 .. m |->
                             [within \in Interval |->
                                IF n = 0 THEN within.start
                                ELSE FitAmong(FreeIntervals(column_allocations[columns[m - n + 1]],
                                                            within.start, within.end),
                                              length, g[n - 1])]]
             all == [start |-> 0, end |-> NoEnd]
  <1>1. m \in Nat /\ \A n \in 1 .. m : Apart(column_allocations[columns[n]])
    BY DEF ColumnsApart
  <1>2. FitNothing \in S /\ \A within \in Interval : FitNothing[within] = within.start
    BY DEF FitNothing, Interval
  <1>3. ASSUME NEW n \in 1 .. m, NEW g \in S
        PROVE  FitIn(columns[m - n + 1], length, g) \in S
    <2>1. m - n + 1 \in 1 .. m
      BY <1>1
    <2> HIDE DEF m
    <2> QED
      BY <1>1, <2>1, FitInType
  <1>4. PICK f : Loops(f, m, S, FitNothing, next)
    <2>1. Steps(next, 1 .. m, S)
      BY <1>3 DEF Steps
    <2> HIDE DEF m, S, next
    <2> QED
      BY <1>1, <1>2, <2>1, LoopsExist
  <1>5. m \in 0 .. m /\ \A n \in 1 .. m : n \in 0 .. m /\ n - 1 \in 0 .. m /\ n # 0
    BY <1>1
  <1>6. f \in [0 .. m -> S] /\ f[0] = FitNothing
    <2> HIDE DEF m, S, next
    <2> QED
      BY <1>4 DEF Loops
  <1>7. ASSUME NEW n \in 1 .. m
        PROVE  f[n - 1] \in S /\ f[n] = FitIn(columns[m - n + 1], length, f[n - 1])
    <2>1. f[n] = next[n, f[n - 1]] /\ f[n - 1] \in S
      <3> HIDE DEF m, S, next
      <3> QED
        BY <1>4, <1>5 DEF Loops
    <2> HIDE DEF m, S
    <2> QED
      BY <2>1
  <1> HIDE DEF S, next
  <1>8. Is(f)
    <2> DEFINE G(n) == [within \in Interval |->
                          IF n = 0 THEN within.start
                          ELSE FitAmong(FreeIntervals(column_allocations[columns[m - n + 1]],
                                                      within.start, within.end),
                                        length, f[n - 1])]
    <2>1. ASSUME NEW n \in 0 .. m
          PROVE  f[n] = G(n)
      <3>1. CASE n = 0
        BY <1>6, <3>1 DEF FitNothing
      <3>2. CASE n # 0
        <4>1. n \in 1 .. m
          BY <1>1, <3>2
        <4> HIDE DEF m
        <4> QED
          BY <1>7, <3>2, <4>1 DEF FitIn
      <3> QED
        BY <3>1, <3>2
    <2> HIDE DEF m, G
    <2>2. f = [n \in 0 .. m |-> G(n)]
      BY <1>6, <2>1
    <2> QED
      BY <2>2 DEF G
  <1> DEFINE q == CHOOSE g : Is(g)
  <1>9. FirstFitRegion(columns, length) = q[m][all]
    BY DEF FirstFitRegion, FitAmong, FitSet
  <1>10. Is(q)
    <2> HIDE DEF Is
    <2> QED
      BY <1>8
  <1> HIDE DEF q, all
  <1>11. /\ q[0] = FitNothing
         /\ \A n \in 1 .. m : q[n] = FitIn(columns[m - n + 1], length, q[n - 1])
    <2>1. \A n \in 0 .. m :
             q[n] = [within \in Interval |->
                       IF n = 0 THEN within.start
                       ELSE FitAmong(FreeIntervals(column_allocations[columns[m - n + 1]],
                                                   within.start, within.end),
                                     length, q[n - 1])]
      <3> HIDE DEF m
      <3> QED
        BY <1>10
    <2> HIDE DEF m, Is
    <2>2. q[0] = FitNothing
      <3>1. 0 \in 0 .. m
        BY <1>5
      <3> HIDE DEF m
      <3> QED
        BY <2>1, <3>1 DEF FitNothing
    <2>3. \A n \in 1 .. m : q[n] = FitIn(columns[m - n + 1], length, q[n - 1])
      BY <1>5, <2>1 DEF FitIn
    <2> QED
      BY <2>2, <2>3
  <1> HIDE DEF Is
  <1> DEFINE P == {n \in 0 .. m : /\ q[n] \in [Interval -> Int]
                                  /\ \A within \in Interval : RoomFor(within, length) =>
                                        LeastFit(columns, length, n, within, q[n][within])}
  <1>12. 0 \in P
    <2>1. q[0] \in [Interval -> Int]
      BY <1>2, <1>11 DEF S
    <2>2. ASSUME NEW within \in Interval, RoomFor(within, length)
          PROVE  LeastFit(columns, length, 0, within, q[0][within])
      <3>1. q[0][within] = within.start /\ within.start \in Nat /\ within.end \in Int
        BY <1>2, <1>11 DEF Interval
      <3>2. Fits(within, length, within.start)
        BY <2>2, <3>1 DEF RoomFor, Fits
      <3>3. FreeInLast(columns, length, 0, within.start)
        BY <1>1 DEF FreeInLast
      <3>4. \A other \in Nat : other < within.start => ~ Fits(within, length, other)
        BY <3>1 DEF Fits
      <3> QED
        BY <3>1, <3>2, <3>3, <3>4 DEF LeastFit
    <2>3. 0 \in 0 .. m
      BY <1>1
    <2> QED
      BY <2>1, <2>2, <2>3
  <1>13. ASSUME NEW n \in 1 .. m, n - 1 \in P
         PROVE  n \in P
    <2>1. /\ q[n - 1] \in [Interval -> Int]
          /\ \A w \in Interval : RoomFor(w, length) => LeastFit(columns, length, n - 1, w, q[n - 1][w])
      BY <1>13
    <2>2. n \in 0 .. m /\ length \in Nat \ {0} /\ m - n + 1 \in 1 .. m
      BY <1>1
    <2>3. q[n] = FitIn(columns[m - n + 1], length, q[n - 1])
      BY <1>11
    <2>4. q[n] \in [Interval -> Int]
      BY <1>1, <2>1, <2>2, <2>3, FitInType
    <2>5. \A within \in Interval : LeastFit(columns, length, n, within, q[n][within])
      BY <2>1, <2>2, <2>3, FitInIs
    <2> QED
      BY <2>2, <2>4, <2>5
  <1>14. 0 .. m \subseteq P
    <2> HIDE DEF P, m
    <2> QED
      BY <1>1, <1>12, <1>13, InductionUpTo
  <1>15. all \in Interval /\ RoomFor(all, length)
    BY DEF all, Interval, RoomFor, NoEnd
  <1>16. LeastFit(columns, length, m, all, q[m][all])
    BY <1>5, <1>14, <1>15
  <1> QED
    BY <1>9, <1>16 DEF all

-----------------------------------------------------------------------------
(* The rows above the allocations of every column.                         *)
LEMMA LargestOfImage ==
  ASSUME NEW S, IsFiniteSet(S), NEW f, \A x \in S : f[x] \in Nat
  PROVE  /\ Max({0} \cup {f[x] : x \in S}) \in Nat
         /\ \A x \in S : f[x] <= Max({0} \cup {f[y] : y \in S})
  <1> DEFINE T == {f[x] : x \in S}
             g == [x \in S |-> f[x]]
             U == {0} \cup T
             m == Max(U)
  <1>1. g \in Surjection(S, T)
    BY DEF Surjection
  <1>2. IsFiniteSet(T)
    BY <1>1, FS_Surjection
  <1>3. T \subseteq Nat /\ \A x \in S : f[x] \in U
    OBVIOUS
  <1> HIDE DEF T
  <1>4. IsFiniteSet(U) /\ U # {} /\ U \subseteq Int /\ U \subseteq Nat
    <2>1. U = T \cup {0}
      OBVIOUS
    <2> QED
      BY <1>2, <1>3, <2>1, FS_AddElement
  <1> HIDE DEF U
  <1>5. \E n \in U : \A t \in U : n >= t
    <2>1. \E n \in U : \A t \in U : t <= n
      BY <1>4, LargestOfSet
    <2> QED
      BY <1>4, <2>1
  <1>6. m \in U /\ \A t \in U : m >= t
    BY <1>5 DEF Max
  <1> QED
    BY <1>3, <1>4, <1>6 DEF U, T

LEMMA UnboundedIs ==
  ASSUME NEW A, Apart(A)
  PROVE  /\ UnboundedIntervalStart(A) \in Nat
         /\ \A row \in Nat : row >= UnboundedIntervalStart(A) => ~ Taken(A, row)
  <1> DEFINE s == InOrder(A)
             m == Cardinality(A)
             u == UnboundedIntervalStart(A)
  <1>1. /\ m \in Nat /\ Len(s) = m
        /\ \A n \in 1 .. m : s[n] \in A
        /\ \A a \in A : \E n \in 1 .. m : s[n] = a
        /\ \A i, j \in 1 .. m : i < j => End(s[i]) <= s[j].start
    BY InOrderIs
  <1>2. \A a \in A : a.start \in Nat /\ End(a) \in Nat /\ a.start < End(a)
    BY AllocationTypes DEF Apart
  <1>3. CASE A = {}
    BY <1>3 DEF UnboundedIntervalStart, Taken
  <1>4. CASE A # {}
    <2>1. m \in 1 .. m
      BY <1>1, <1>4
    <2>2. u = End(s[m])
      BY <1>1, <1>4 DEF UnboundedIntervalStart, Last
    <2> HIDE DEF s, m, u
    <2>3. ASSUME NEW a \in A
          PROVE  End(a) <= u
      <3>1. PICK n \in 1 .. m : s[n] = a
        BY <1>1
      <3>2. CASE n = m
        BY <1>2, <2>2, <3>1, <3>2
      <3>3. CASE n < m
        <4>1. End(s[n]) <= s[m].start /\ s[m].start < End(s[m]) /\ s[m].start \in Nat /\ End(s[m]) \in Nat
          BY <1>1, <1>2, <2>1, <3>3
        <4> QED
          BY <1>2, <2>2, <3>1, <4>1
      <3> QED
        BY <1>1, <3>2, <3>3
    <2>4. u \in Nat
      BY <1>1, <1>2, <2>1, <2>2
    <2>5. \A row \in Nat : row >= u => ~ Taken(A, row)
      BY <1>2, <2>3, <2>4 DEF Taken
    <2> QED
      BY <2>4, <2>5 DEF u
  <1> QED
    BY <1>3, <1>4

AllApart == \A c \in RegionColumns : Apart(column_allocations[c])

LEMMA FirstUnassignedIs ==
  ASSUME AllApart
  PROVE  /\ FirstUnassignedRow \in Nat
         /\ \A c \in RegionColumns, row \in Nat :
               row >= FirstUnassignedRow => ~ Taken(column_allocations[c], row)
  <1> DEFINE f == [c \in RegionColumns |-> UnboundedIntervalStart(column_allocations[c])]
             m == FirstUnassignedRow
  <1>1. \A c \in RegionColumns : /\ f[c] \in Nat
                                 /\ \A row \in Nat : row >= f[c] => ~ Taken(column_allocations[c], row)
    BY UnboundedIs DEF AllApart
  <1>2. m = Max({0} \cup {f[c] : c \in RegionColumns})
    BY DEF FirstUnassignedRow
  <1>3. IsFiniteSet(RegionColumns)
    BY ColumnsAssumption
  <1> HIDE DEF f, m
  <1>4. m \in Nat /\ \A c \in RegionColumns : f[c] <= m
    BY <1>1, <1>2, <1>3, LargestOfImage
  <1>5. ASSUME NEW c \in RegionColumns, NEW row \in Nat, row >= m
        PROVE  ~ Taken(column_allocations[c], row)
    <2>1. f[c] \in Nat /\ f[c] <= m
      BY <1>1, <1>4
    <2>2. row >= f[c]
      BY <1>4, <1>5, <2>1
    <2> QED
      BY <1>1, <2>2
  <1> QED
    BY <1>4, <1>5 DEF m

-----------------------------------------------------------------------------
(* The columns of a shape in order, and the regions in order.              *)
LEMMA SortedColumnsAre ==
  ASSUME NEW shape, shape.columns \subseteq RegionColumns
  PROVE  /\ Len(SortedColumns(shape)) \in Nat
         /\ \A n \in 1 .. Len(SortedColumns(shape)) : SortedColumns(shape)[n] \in shape.columns
         /\ \A c \in shape.columns : \E n \in 1 .. Len(SortedColumns(shape)) : SortedColumns(shape)[n] = c
  <1> DEFINE S == shape.columns
             earlier == [c \in S |-> {d \in S : Ord(d) < Ord(c)}]
             q == SortedColumns(shape)
  <1>1. IsFiniteSet(S)
    BY ColumnsAssumption, FS_Subset
  <1>2. \A c \in S : Ord(c) \in 1 .. Len(ColumnOrder) /\ ColumnOrder[Ord(c)] = c
    <2>1. TAKE c \in S
    <2>2. \E i \in 1 .. Len(ColumnOrder) : ColumnOrder[i] = c
      BY ColumnsAssumption
    <2> QED
      BY <2>2 DEF Ord
  <1>3. \A c \in S : Ord(c) \in Nat
    BY <1>2, ColumnsAssumption
  <1>4. \A c, d \in S : d \in earlier[c] <=> Ord(d) < Ord(c)
    OBVIOUS
  <1>5. \A c \in S : earlier[c] \subseteq S
    OBVIOUS
  <1>6. q = Arranged(S, earlier)
    BY DEF SortedColumns
  <1> HIDE DEF S, earlier, q
  <1>7. \A x \in S : earlier[x] \subseteq S /\ x \notin earlier[x]
    BY <1>3, <1>4, <1>5
  <1>8. \A x, y \in S : x # y => x \in earlier[y] \/ y \in earlier[x]
    <2>1. SUFFICES ASSUME NEW x \in S, NEW y \in S, x # y
                   PROVE  Ord(x) < Ord(y) \/ Ord(y) < Ord(x)
      BY <1>4
    <2>2. Ord(x) # Ord(y)
      BY <1>2, <2>1
    <2> QED
      BY <1>3, <2>2
  <1>9. \A x, y \in S : x \in earlier[y] => earlier[x] \subseteq earlier[y]
    <2>1. SUFFICES ASSUME NEW x \in S, NEW y \in S, x \in earlier[y], NEW z \in earlier[x]
                   PROVE  z \in earlier[y]
      OBVIOUS
    <2>2. z \in S
      BY <1>5
    <2>3. Ord(x) < Ord(y) /\ Ord(z) < Ord(x)
      BY <1>4, <2>1, <2>2
    <2>4. Ord(z) < Ord(y)
      BY <1>3, <2>2, <2>3
    <2> QED
      BY <1>4, <2>2, <2>4
  <1>10. /\ Cardinality(S) \in Nat
         /\ Len(q) = Cardinality(S)
         /\ \A n \in 1 .. Cardinality(S) : q[n] \in S
         /\ \A x \in S : \E n \in 1 .. Cardinality(S) : q[n] = x
    BY <1>1, <1>6, <1>7, <1>8, <1>9, ArrangedIs
  <1> QED
    BY <1>10 DEF q, S

LEMMA RegionsSorted ==
  ASSUME NEW c \in Circuits
  PROVE  /\ Len(BiggestAdviceFirst(c.shapes)) \in Nat
         /\ BiggestAdviceFirst(c.shapes) \in Seq(DOMAIN c.shapes)
         /\ \A i \in DOMAIN c.shapes :
               \E n \in 1 .. Len(BiggestAdviceFirst(c.shapes)) : BiggestAdviceFirst(c.shapes)[n] = i
  <1> DEFINE D == DOMAIN c.shapes
             area(i) == AdviceArea(c.shapes[i])
             Before(j, i) == area(j) > area(i) \/ (area(j) = area(i) /\ j > i)
             earlier == [i \in D |-> {j \in D : Before(j, i)}]
             q == BiggestAdviceFirst(c.shapes)
  <1>1. D = 1 .. Len(c.shapes) /\ Len(c.shapes) \in Nat /\ \A i \in D : IsShape(c.shapes[i])
    BY CircuitsAssumption
  <1>2. IsFiniteSet(D) /\ D \subseteq Nat
    BY <1>1, FS_Interval
  <1>3. \A i \in D : area(i) \in Nat
    <2>1. TAKE i \in D
    <2> DEFINE T == c.shapes[i].columns \cap AdviceColumns
    <2>2. T \in SUBSET RegionColumns /\ c.shapes[i].row_count \in Nat
      BY <1>1 DEF IsShape
    <2>3. Cardinality(T) \in Nat
      BY <2>2, ColumnsAssumption, FS_Subset, FS_CardinalityType
    <2> DEFINE n == Cardinality(T)
               t == c.shapes[i].row_count
    <2> HIDE DEF T
    <2>4. area(i) = n * t
      BY DEF AdviceArea, T
    <2> HIDE DEF n, t
    <2>5. n * t \in Nat
      BY <2>2, <2>3 DEF n, t
    <2> QED
      BY <2>4, <2>5
  <1>4. \A i, j \in D : j \in earlier[i] <=> Before(j, i)
    OBVIOUS
  <1>5. \A i \in D : earlier[i] \subseteq D
    OBVIOUS
  <1>6. q = Arranged(D, earlier)
    BY DEF BiggestAdviceFirst
  <1> HIDE DEF D, earlier, q, area
  <1>7. \A x \in D : earlier[x] \subseteq D /\ x \notin earlier[x]
    BY <1>2, <1>3, <1>4, <1>5
  <1>8. \A x, y \in D : x # y => x \in earlier[y] \/ y \in earlier[x]
    BY <1>2, <1>3, <1>4
  <1>9. \A x, y \in D : x \in earlier[y] => earlier[x] \subseteq earlier[y]
    <2>1. SUFFICES ASSUME NEW x \in D, NEW y \in D, x \in earlier[y], NEW z \in earlier[x]
                   PROVE  z \in earlier[y]
      OBVIOUS
    <2>2. z \in D
      BY <1>5
    <2>3. Before(x, y) /\ Before(z, x)
      BY <1>4, <2>1, <2>2
    <2>4. Before(z, y)
      BY <1>2, <1>3, <2>2, <2>3
    <2> QED
      BY <1>4, <2>2, <2>4
  <1>10. /\ Cardinality(D) \in Nat
         /\ DOMAIN q = 1 .. Cardinality(D)
         /\ Len(q) = Cardinality(D)
         /\ \A n \in 1 .. Cardinality(D) : q[n] \in D
         /\ \A x \in D : \E n \in 1 .. Cardinality(D) : q[n] = x
    <2>1. IsFiniteSet(D)
      BY <1>2
    <2> HIDE DEF Before
    <2> QED
      BY <1>6, <1>7, <1>8, <1>9, <2>1, ArrangedIs
  <1>11. q \in Seq(D)
    <2>1. q = [n \in 1 .. Cardinality(D) |-> q[n]]
      BY <1>6, <1>10 DEF Arranged
    <2>2. q \in [1 .. Cardinality(D) -> D]
      BY <1>10, <2>1
    <2> QED
      BY <1>10, <2>2, SeqDef
  <1> QED
    BY <1>10, <1>11 DEF q, D

-----------------------------------------------------------------------------
(* The planner's inductive invariant: the rows allocated in a column do    *)
(* not overlap, which says more than that regions do not, for it is of     *)
(* every region that was ever slotted into it.                             *)
Planning ==
    /\ circuit \in Circuits
    /\ sorted_regions \in Seq(DOMAIN circuit.shapes)
    /\ DOMAIN region_starts = DOMAIN circuit.shapes
    /\ \A i \in Slotted : region_starts[i] \in Nat
    /\ outcome \in {"planning", "planned", "NotEnoughColumnsForConstants"}
    /\ outcome # "planning" => sorted_regions = <<>>
PlannerIInv == Planning /\ AllApart /\ RegionsDisjoint /\ ConstantsInGaps

LEMMA ShapeFacts ==
  ASSUME Planning, NEW i \in DOMAIN circuit.shapes
  PROVE  /\ Shape(i).columns \subseteq RegionColumns /\ Shape(i).row_count \in Nat
         /\ Shape(i).columns # {} => Shape(i).row_count > 0
  BY CircuitsAssumption DEF Planning, Shape, IsShape

LEMMA PlannerInitIInv == PlannerInit => PlannerIInv
  <1> SUFFICES ASSUME PlannerInit
               PROVE  PlannerIInv
    OBVIOUS
  <1>1. circuit \in Circuits /\ outcome = "planning"
    BY DEF PlannerInit
  <1> DEFINE q == BiggestAdviceFirst(circuit.shapes)
             D == DOMAIN circuit.shapes
  <1>2. sorted_regions = q /\ region_starts = [i \in D |-> -1]
    BY DEF PlannerInit
  <1>3. q \in Seq(D) /\ \A i \in D : \E n \in 1 .. Len(q) : q[n] = i
    BY <1>1, RegionsSorted
  <1> HIDE DEF q, D
  <1>4. D = DOMAIN region_starts /\ \A i \in D : i \in ToSet(sorted_regions)
    <2>1. DOMAIN q = 1 .. Len(q)
      BY <1>3
    <2> QED
      BY <1>2, <1>3, <2>1 DEF ToSet
  <1>5. Slotted = {}
    BY <1>4 DEF Slotted
  <1>6. AllApart
    <2>1. \A c \in RegionColumns : column_allocations[c] = {}
      BY DEF PlannerInit
    <2> QED
      BY <2>1, FS_EmptySet DEF AllApart, Apart
  <1>7. Planning
    BY <1>1, <1>2, <1>3, <1>4, <1>5 DEF Planning, D
  <1>8. RegionsDisjoint
    BY <1>5 DEF RegionsDisjoint
  <1> QED
    BY <1>1, <1>6, <1>7, <1>8 DEF PlannerIInv, ConstantsInGaps

(* The row found for a region: the least where it covers no row allocated  *)
(* in any of its columns.  There is one, above all the allocations.        *)
RowFor(i) == FirstFitRegion(SortedColumns(Shape(i)), Shape(i).row_count)

LEMMA RowForIs ==
  ASSUME Planning, AllApart, NEW i \in DOMAIN circuit.shapes
  PROVE  /\ RowFor(i) \in Nat /\ RowFor(i) <= FirstUnassignedRow
         /\ \A c \in Shape(i).columns : FreeIn(column_allocations[c], Shape(i).row_count, RowFor(i))
         /\ \A row \in Nat : row < RowFor(i) =>
               \E c \in Shape(i).columns : ~ FreeIn(column_allocations[c], Shape(i).row_count, row)
  <1> DEFINE q == SortedColumns(Shape(i))
             C == Shape(i).columns
             length == Shape(i).row_count
             all == [start |-> 0, end |-> NoEnd]
             m == FirstUnassignedRow
             x == RowFor(i)
             Free(row) == \A c \in C : FreeIn(column_allocations[c], length, row)
  <1>1. C \subseteq RegionColumns /\ length \in Nat /\ (C # {} => length > 0)
    BY ShapeFacts
  <1>2. /\ Len(q) \in Nat
        /\ \A n \in 1 .. Len(q) : q[n] \in C
        /\ \A c \in C : \E n \in 1 .. Len(q) : q[n] = c
    BY <1>1, SortedColumnsAre
  <1>3. m \in Nat /\ \A c \in RegionColumns, row \in Nat :
                        row >= m => ~ Taken(column_allocations[c], row)
    BY FirstUnassignedIs
  <1> HIDE DEF q, C, length, m
  <1>4. ColumnsApart(q)
    BY <1>1, <1>2 DEF ColumnsApart, AllApart
  <1>5. Len(q) # 0 => length # 0
    <2>1. Len(q) # 0 => 1 \in 1 .. Len(q)
      BY <1>2
    <2> QED
      BY <1>1, <1>2, <2>1
  <1>6. LeastFit(q, length, Len(q), all, x)
    BY <1>1, <1>4, <1>5, FirstFitIs DEF RowFor, q, length
  <1>7. \A row \in Nat : Fits(all, length, row)
    BY DEF Fits
  <1>8. \A row : FreeInLast(q, length, Len(q), row) <=> Free(row)
    <2>1. Len(q) - Len(q) + 1 = 1
      BY <1>2
    <2> QED
      BY <1>2, <2>1 DEF FreeInLast
  <1>9. Free(m)
    <2>1. SUFFICES ASSUME NEW c \in C, NEW t \in 0 .. length - 1
                   PROVE  ~ Taken(column_allocations[c], m + t)
      BY DEF FreeIn
    <2>2. m + t \in Nat /\ m + t >= m
      BY <1>1, <1>3
    <2> QED
      BY <1>1, <1>3, <2>2
  <1> HIDE DEF all, Free, x
  <1>10. \/ x = NoFit /\ \A row \in Nat : ~ Free(row)
         \/ x \in Nat /\ Free(x) /\ \A row \in Nat : row < x => ~ Free(row)
    BY <1>6, <1>7, <1>8 DEF LeastFit
  <1>11. x \in Nat /\ Free(x) /\ \A row \in Nat : row < x => ~ Free(row)
    BY <1>3, <1>9, <1>10
  <1>12. x <= m
    BY <1>3, <1>9, <1>11
  <1> QED
    BY <1>11, <1>12 DEF x, m, Free, C, length

(* Allocating rows that were free.                                         *)
LEMMA OneMoreApart ==
  ASSUME NEW A, Apart(A), NEW length \in Nat \ {0}, NEW row \in Nat, FreeIn(A, length, row)
  PROVE  /\ Apart(A \cup {[start |-> row, length |-> length]})
         /\ \A a \in A : End(a) <= row \/ row + length <= a.start
  <1> DEFINE x == [start |-> row, length |-> length]
  <1>1. x \in Allocation /\ x.start = row /\ End(x) = row + length
    BY DEF Allocation, End
  <1> HIDE DEF x
  <1>2. /\ IsFiniteSet(A) /\ A \subseteq Allocation
        /\ \A a, b \in A : a # b => End(a) <= b.start \/ End(b) <= a.start
    BY DEF Apart
  <1>3. ASSUME NEW a \in A
        PROVE  End(a) <= row \/ row + length <= a.start
    <2>1. a.start \in Nat /\ End(a) \in Nat /\ a.start < End(a)
      BY <1>2, AllocationTypes
    <2>2. \A r \in Nat : row <= r /\ r < row + length => ~ Taken(A, r)
      <3>1. SUFFICES ASSUME NEW r \in Nat, row <= r, r < row + length
                     PROVE  ~ Taken(A, r)
        OBVIOUS
      <3>2. r - row \in 0 .. length - 1 /\ row + (r - row) = r
        BY <3>1
      <3> QED
        BY <3>2 DEF FreeIn
    <2>3. SUFFICES ASSUME row < End(a), a.start < row + length
                   PROVE  FALSE
      BY <2>1
    <2>4. CASE a.start <= row
      <3>1. Taken(A, row)
        BY <2>3, <2>4 DEF Taken
      <3> QED
        BY <2>2, <3>1
    <2>5. CASE row < a.start
      <3>1. Taken(A, a.start)
        BY <2>1, <2>5 DEF Taken
      <3> QED
        BY <2>1, <2>2, <2>3, <2>5, <3>1
    <2> QED
      BY <2>1, <2>4, <2>5
  <1>4. IsFiniteSet(A \cup {x})
    BY <1>2, FS_AddElement
  <1>5. \A a \in A : End(a) <= x.start \/ End(x) <= a.start
    BY <1>1, <1>3
  <1>6. Apart(A \cup {x})
    BY <1>1, <1>2, <1>4, <1>5 DEF Apart
  <1> QED
    BY <1>3, <1>6 DEF x

LEMMA SlotIs ==
  ASSUME PlannerIInv, Slot
  PROVE  /\ Head(sorted_regions) \in DOMAIN circuit.shapes /\ sorted_regions # <<>>
         /\ region_starts' = [region_starts EXCEPT ![Head(sorted_regions)] = RowFor(Head(sorted_regions))]
         /\ column_allocations' = [c \in RegionColumns |->
                IF c \in Shape(Head(sorted_regions)).columns
                THEN column_allocations[c]
                       \cup {[start |-> RowFor(Head(sorted_regions)),
                              length |-> Shape(Head(sorted_regions)).row_count]}
                ELSE column_allocations[c]]
         /\ sorted_regions' = Tail(sorted_regions)
         /\ circuit' = circuit /\ constants' = constants /\ outcome' = outcome
         /\ outcome = "planning"
  <1>1. /\ sorted_regions # <<>>
        /\ region_starts' = [region_starts EXCEPT ![Head(sorted_regions)] = RowFor(Head(sorted_regions))]
        /\ column_allocations' = [c \in RegionColumns |->
                IF c \in Shape(Head(sorted_regions)).columns
                THEN column_allocations[c]
                       \cup {[start |-> RowFor(Head(sorted_regions)),
                              length |-> Shape(Head(sorted_regions)).row_count]}
                ELSE column_allocations[c]]
        /\ sorted_regions' = Tail(sorted_regions)
        /\ circuit' = circuit /\ constants' = constants /\ outcome' = outcome
    BY DEF Slot, RowFor
  <1>2. sorted_regions \in Seq(DOMAIN circuit.shapes) /\ (outcome # "planning" => sorted_regions = <<>>)
    BY DEF PlannerIInv, Planning
  <1>3. Head(sorted_regions) \in DOMAIN circuit.shapes
    BY <1>1, <1>2, HeadTailProperties
  <1> QED
    BY <1>1, <1>2, <1>3

LEMMA StillToSlot ==
  ASSUME NEW S, NEW q \in Seq(S), q # <<>>
  PROVE  /\ Tail(q) \in Seq(S) /\ ToSet(q) \subseteq S
         /\ \A x : x \in ToSet(q) => x = Head(q) \/ x \in ToSet(Tail(q))
  <1>1. /\ Tail(q) \in Seq(S) /\ Len(Tail(q)) = Len(q) - 1 /\ Head(q) = q[1]
        /\ \A i \in 1 .. Len(Tail(q)) : Tail(q)[i] = q[i + 1]
    BY HeadTailProperties
  <1>2. Len(q) \in Nat /\ DOMAIN q = 1 .. Len(q) /\ DOMAIN Tail(q) = 1 .. Len(Tail(q))
    BY <1>1
  <1>3. ASSUME NEW i \in 1 .. Len(q)
        PROVE  q[i] = Head(q) \/ q[i] \in ToSet(Tail(q))
    <2>1. CASE i = 1
      BY <1>1, <2>1
    <2>2. CASE i # 1
      <3>1. i - 1 \in 1 .. Len(Tail(q)) /\ (i - 1) + 1 = i
        BY <1>1, <1>2, <2>2
      <3>2. Tail(q)[i - 1] = q[i]
        BY <1>1, <3>1
      <3> QED
        BY <1>2, <3>1, <3>2 DEF ToSet
    <2> QED
      BY <2>1, <2>2
  <1>4. ToSet(q) \subseteq S
    BY <1>2 DEF ToSet
  <1> QED
    BY <1>1, <1>2, <1>3, <1>4 DEF ToSet

LEMMA SlotIInv == PlannerIInv /\ Slot => PlannerIInv'
  <1> SUFFICES ASSUME PlannerIInv, Slot
               PROVE  PlannerIInv'
    OBVIOUS
  <1> DEFINE h == Head(sorted_regions)
             x == RowFor(h)
             length == Shape(h).row_count
             new == [start |-> x, length |-> length]
             D == DOMAIN circuit.shapes
  <1>1. /\ h \in D /\ sorted_regions # <<>>
        /\ region_starts' = [region_starts EXCEPT ![h] = x]
        /\ column_allocations' = [c \in RegionColumns |->
                IF c \in Shape(h).columns THEN column_allocations[c] \cup {new}
                ELSE column_allocations[c]]
        /\ sorted_regions' = Tail(sorted_regions)
        /\ circuit' = circuit /\ constants' = constants /\ outcome' = outcome
        /\ outcome = "planning"
    BY SlotIs
  <1>2. Planning /\ AllApart /\ RegionsDisjoint
    BY DEF PlannerIInv
  <1>3. x \in Nat /\ \A c \in Shape(h).columns : FreeIn(column_allocations[c], length, x)
    BY <1>1, <1>2, RowForIs
  <1>4. \A i \in D : /\ Shape(i).columns \subseteq RegionColumns /\ Shape(i).row_count \in Nat
                     /\ Shape(i).columns # {} => Shape(i).row_count > 0
    BY <1>2, ShapeFacts
  <1>5. \A i : Shape(i)' = Shape(i)
    BY <1>1 DEF Shape
  <1>6. /\ sorted_regions \in Seq(D) /\ DOMAIN region_starts = D /\ circuit \in Circuits
        /\ \A i \in Slotted : region_starts[i] \in Nat
    BY <1>2 DEF Planning
  <1> HIDE DEF h, x, length, D
  <1>7. /\ sorted_regions' \in Seq(D)
        /\ \A i : i \in ToSet(sorted_regions) => i = h \/ i \in ToSet(sorted_regions')
    BY <1>1, <1>6, StillToSlot DEF h
  <1>8. DOMAIN region_starts' = D /\ region_starts'[h] = x
        /\ \A i \in D : i # h => region_starts'[i] = region_starts[i]
    BY <1>1, <1>6
  <1>9. \A i \in Slotted' : i \in D /\ (i = h \/ i \in Slotted)
    BY <1>6, <1>7, <1>8 DEF Slotted
  <1>10. Planning'
    <2>1. \A i \in Slotted' : region_starts'[i] \in Nat
      BY <1>3, <1>6, <1>8, <1>9
    <2> QED
      BY <1>1, <1>6, <1>7, <1>8, <2>1 DEF Planning, D
  <1>11. ASSUME NEW c \in Shape(h).columns
         PROVE  /\ c \in RegionColumns /\ length \in Nat \ {0}
                /\ Apart(column_allocations[c] \cup {new})
                /\ \A a \in column_allocations[c] : End(a) <= x \/ x + length <= a.start
    <2>1. c \in RegionColumns /\ length \in Nat \ {0}
      BY <1>1, <1>4 DEF length
    <2>2. Apart(column_allocations[c]) /\ FreeIn(column_allocations[c], length, x)
      BY <1>2, <1>3, <2>1 DEF AllApart
    <2> QED
      BY <1>3, <2>1, <2>2, OneMoreApart
  <1> HIDE DEF new
  <1>12. AllApart'
    <2>1. ASSUME NEW c \in RegionColumns
          PROVE  Apart(column_allocations'[c])
      <3>1. CASE c \in Shape(h).columns
        BY <1>1, <1>11, <3>1
      <3>2. CASE c \notin Shape(h).columns
        <4>1. column_allocations'[c] = column_allocations[c]
          BY <1>1, <3>2
        <4> QED
          BY <1>2, <4>1 DEF AllApart
      <3> QED
        BY <3>1, <3>2
    <2> QED
      BY <2>1 DEF AllApart, Apart
  <1>13. \A c \in RegionColumns :
            /\ column_allocations[c] \subseteq column_allocations'[c]
            /\ c \in Shape(h).columns => new \in column_allocations'[c]
    BY <1>1
  <1>14. RegionsDisjoint'
    <2> DEFINE Held(i) == \A c \in Shape(i).columns :
                             [start |-> region_starts[i], length |-> Shape(i).row_count]
                               \in column_allocations[c]
    <2>1. \A i \in Slotted : Held(i)
      BY <1>2 DEF RegionsDisjoint
    <2>2. \A i, j \in Slotted : i # j /\ Shape(i).columns \cap Shape(j).columns # {}
                                  => RowsOf(i) \cap RowsOf(j) = {}
      BY <1>2 DEF RegionsDisjoint
    <2>3. \A i \in D : i # h => RowsOf(i)' = RowsOf(i)
      BY <1>5, <1>8 DEF RowsOf
    <2>4. \A i \in D : i = h => RowsOf(i)' = x .. (x + length - 1)
      <3>1. \A i \in D : i = h => Shape(i)'.row_count = length /\ region_starts'[i] = x
        BY <1>5, <1>8 DEF length
      <3> QED
        BY <3>1 DEF RowsOf
    <2>5. ASSUME NEW i \in Slotted', NEW c \in Shape(i).columns
          PROVE  [start |-> region_starts'[i], length |-> Shape(i).row_count] \in column_allocations'[c]
      <3>1. i \in D /\ c \in RegionColumns
        BY <1>4, <1>9, <2>5
      <3>2. CASE i = h
        <4>1. [start |-> region_starts'[i], length |-> Shape(i).row_count] = new
          BY <1>8, <3>2 DEF new, length
        <4> QED
          BY <1>13, <2>5, <3>1, <3>2, <4>1
      <3>3. CASE i # h
        <4>1. i \in Slotted /\ region_starts'[i] = region_starts[i]
          BY <1>8, <1>9, <3>1, <3>3
        <4> QED
          BY <1>13, <2>1, <2>5, <3>1, <4>1
      <3> QED
        BY <3>2, <3>3
    <2>6. ASSUME NEW j \in Slotted, NEW c, c \in Shape(h).columns, c \in Shape(j).columns
          PROVE  RowsOf(j) \cap (x .. (x + length - 1)) = {}
      <3> DEFINE a == [start |-> region_starts[j], length |-> Shape(j).row_count]
      <3>1. a \in column_allocations[c]
        BY <2>1, <2>6
      <3>2. a.start = region_starts[j] /\ End(a) = region_starts[j] + Shape(j).row_count
        BY DEF End
      <3> HIDE DEF a
      <3>3. End(a) <= x \/ x + length <= a.start
        BY <1>11, <2>6, <3>1
      <3>4. j \in D
        BY <1>6 DEF Slotted
      <3>5. region_starts[j] \in Nat /\ Shape(j).row_count \in Nat /\ length \in Nat
        BY <1>4, <1>6, <1>11, <2>6, <3>4
      <3> QED
        BY <1>3, <3>2, <3>3, <3>5 DEF RowsOf
    <2>7. ASSUME NEW i \in Slotted', NEW j \in Slotted', i # j,
                 Shape(i).columns \cap Shape(j).columns # {}
          PROVE  RowsOf(i)' \cap RowsOf(j)' = {}
      <3>1. PICK c : c \in Shape(i).columns /\ c \in Shape(j).columns
        BY <2>7
      <3>2. i \in D /\ j \in D
        BY <1>9
      <3>3. CASE i = h
        <4>1. j \in Slotted /\ RowsOf(j)' = RowsOf(j)
          BY <1>9, <2>3, <2>7, <3>2, <3>3
        <4>2. RowsOf(i)' = x .. (x + length - 1)
          BY <2>4, <3>2, <3>3
        <4>3. RowsOf(j) \cap (x .. (x + length - 1)) = {}
          BY <2>6, <3>1, <3>3, <4>1
        <4> QED
          BY <4>1, <4>2, <4>3
      <3>4. CASE j = h
        <4>1. i \in Slotted /\ RowsOf(i)' = RowsOf(i)
          BY <1>9, <2>3, <2>7, <3>2, <3>4
        <4>2. RowsOf(j)' = x .. (x + length - 1)
          BY <2>4, <3>2, <3>4
        <4>3. RowsOf(i) \cap (x .. (x + length - 1)) = {}
          BY <2>6, <3>1, <3>4, <4>1
        <4> QED
          BY <4>1, <4>2, <4>3
      <3>5. CASE i # h /\ j # h
        BY <1>9, <2>2, <2>3, <2>7, <3>2, <3>5
      <3> QED
        BY <3>3, <3>4, <3>5
    <2> QED
      BY <1>5, <2>5, <2>7 DEF RegionsDisjoint
  <1>15. ConstantsInGaps'
    BY <1>1 DEF ConstantsInGaps
  <1> QED
    BY <1>10, <1>12, <1>14, <1>15 DEF PlannerIInv

-----------------------------------------------------------------------------
(* Sequences of sequences, flattened: where an element comes from, and     *)
(* that it comes once.                                                     *)
Has(q, e) == \E j \in 1 .. Len(q) : q[j] = e
Distinct(q) == \A i, j \in 1 .. Len(q) : q[i] = q[j] => i = j

LEMMA FlattenLoop ==
  ASSUME NEW S, NEW ss \in Seq(Seq(S))
  PROVE  \E f : /\ f[0] = <<>> /\ \A n \in 1 .. Len(ss) : f[n] = f[n - 1] \o ss[n]
                /\ \A n \in 0 .. Len(ss) : f[n] \in Seq(S)
                /\ FlattenSeq(ss) = f[Len(ss)]
  <1> DEFINE m == Len(ss)
             T == Seq(S)
             next == [p \in (1 .. m) \X T |-> p[2] \o ss[p[1]]]
             Is(g) == g = [i \in 1 .. m |-> IF i = 1 THEN ss[i] ELSE g[i - 1] \o ss[i]]
  <1>1. m \in Nat /\ <<>> \in T /\ \A n \in 1 .. m : n - 1 \in 0 .. m /\ n \in 0 .. m /\ n # 0
    OBVIOUS
  <1>2. \A n \in 1 .. m : ss[n] \in T
    OBVIOUS
  <1>3. ASSUME NEW n \in 1 .. m, NEW x \in T
        PROVE  x \o ss[n] \in T
    BY <1>2, ConcatProperties
  <1>4. PICK f : Loops(f, m, T, <<>>, next)
    <2>1. Steps(next, 1 .. m, T)
      BY <1>3 DEF Steps
    <2> HIDE DEF m, T, next
    <2> QED
      BY <1>1, <2>1, LoopsExist
  <1>5. /\ f[0] = <<>> /\ \A n \in 1 .. m : f[n] = f[n - 1] \o ss[n]
        /\ \A n \in 0 .. m : f[n] \in T
    <2>1. ASSUME NEW n \in 1 .. m
          PROVE  f[n] = f[n - 1] \o ss[n]
      <3>1. f[n] = next[n, f[n - 1]] /\ f[n - 1] \in T
        <4> HIDE DEF m, T, next
        <4> QED
          BY <1>1, <1>4 DEF Loops
      <3> HIDE DEF m, T
      <3> QED
        BY <3>1
    <2>2. f \in [0 .. m -> T] /\ f[0] = <<>>
      BY <1>4 DEF Loops
    <2> HIDE DEF T, m
    <2> QED
      BY <2>1, <2>2
  <1> HIDE DEF T, next
  <1>6. CASE m = 0
    <2>1. ss = <<>> /\ FlattenSeq(ss) = ss
      BY <1>6 DEF FlattenSeq
    <2> QED
      BY <1>5, <1>6, <2>1 DEF T
  <1>7. CASE m # 0
    <2> DEFINE g == [i \in 1 .. m |-> f[i]]
    <2>1. Is(g)
      <3>1. \A i \in 1 .. m : f[i] = IF i = 1 THEN ss[i] ELSE g[i - 1] \o ss[i]
        <4> SUFFICES ASSUME NEW i \in 1 .. m
                     PROVE  f[i] = IF i = 1 THEN ss[i] ELSE g[i - 1] \o ss[i]
          OBVIOUS
        <4>1. f[i] = f[i - 1] \o ss[i]
          BY <1>5
        <4>2. CASE i = 1
          <5>1. i - 1 = 0 /\ <<>> \o ss[i] = ss[i]
            BY <1>2, <4>2, ConcatEmptySeq DEF T
          <5> QED
            BY <1>5, <4>1, <4>2, <5>1
        <4>3. CASE i # 1
          <5>1. i - 1 \in 1 .. m
            BY <1>1, <4>3
          <5> HIDE DEF m
          <5> QED
            BY <4>1, <4>3, <5>1
        <4> QED
          BY <4>2, <4>3
      <3> HIDE DEF m
      <3> QED
        BY <3>1
    <2>2. PICK q : Is(q) /\ FlattenSeq(ss) = q[m]
      <3> DEFINE q == CHOOSE h : Is(h)
      <3>1. FlattenSeq(ss) = q[m]
        BY <1>7 DEF FlattenSeq
      <3>2. Is(q)
        <4> HIDE DEF Is, g
        <4> QED
          BY <2>1
      <3> HIDE DEF q, Is
      <3> QED
        BY <3>1, <3>2
    <2>3. \A i \in 1 .. m : q[i] = IF i = 1 THEN ss[i] ELSE q[i - 1] \o ss[i]
      <3> HIDE DEF m
      <3> QED
        BY <2>2
    <2> HIDE DEF Is, g
    <2> DEFINE P == {n \in 0 .. m : n # 0 => q[n] = f[n]}
    <2>4. 0 \in P
      BY <1>1
    <2>5. ASSUME NEW n \in 1 .. m, n - 1 \in P
          PROVE  n \in P
      <3>1. f[n] = f[n - 1] \o ss[n] /\ ss[n] \in T /\ n \in 0 .. m
        BY <1>1, <1>2, <1>5
      <3>2. CASE n = 1
        <4>1. n - 1 = 0 /\ <<>> \o ss[n] = ss[n]
          BY <3>1, <3>2, ConcatEmptySeq DEF T
        <4> QED
          BY <1>5, <2>3, <3>1, <3>2, <4>1
      <3>3. CASE n # 1
        <4>1. n - 1 # 0 /\ q[n - 1] = f[n - 1]
          BY <2>5, <3>3
        <4> QED
          BY <2>3, <3>1, <3>3, <4>1
      <3> QED
        BY <3>2, <3>3
    <2>6. 0 .. m \subseteq P
      <3> HIDE DEF P, m
      <3> QED
        BY <1>1, <2>4, <2>5, InductionUpTo
    <2>7. m \in 0 .. m
      BY <1>1
    <2>8. q[m] = f[m]
      <3> HIDE DEF m
      <3> QED
        BY <1>7, <2>6, <2>7
    <2> QED
      BY <1>5, <2>2, <2>8 DEF T
  <1> QED
    BY <1>6, <1>7

LEMMA JoinedElements ==
  ASSUME NEW S, NEW x \in Seq(S), NEW y \in Seq(S)
  PROVE  /\ \A e : Has(x \o y, e) <=> Has(x, e) \/ Has(y, e)
         /\ Distinct(x) /\ Distinct(y) /\ (\A e : ~(Has(x, e) /\ Has(y, e))) => Distinct(x \o y)
  <1> DEFINE z == x \o y
             a == Len(x)
             b == Len(y)
  <1>1. /\ a \in Nat /\ b \in Nat /\ Len(z) = a + b
        /\ \A i \in 1 .. a + b : z[i] = IF i <= a THEN x[i] ELSE y[i - a]
    BY ConcatProperties
  <1> HIDE DEF z, a, b
  <1>2. /\ \A i \in 1 .. a : i \in 1 .. a + b /\ z[i] = x[i]
        /\ \A i \in 1 .. b : a + i \in 1 .. a + b /\ z[a + i] = y[i]
        /\ \A i \in 1 .. a + b : i \in 1 .. a \/ (i - a \in 1 .. b /\ ~(i <= a))
    <2>1. \A i \in 1 .. b : ~(a + i <= a) /\ (a + i) - a = i /\ a + i \in 1 .. a + b
      BY <1>1
    <2>2. \A i \in 1 .. a : i \in 1 .. a + b /\ i <= a
      BY <1>1
    <2>3. \A i \in 1 .. a + b : i \in 1 .. a \/ (i - a \in 1 .. b /\ ~(i <= a))
      BY <1>1
    <2> QED
      BY <1>1, <2>1, <2>2, <2>3
  <1>3. ASSUME NEW e
        PROVE  Has(z, e) <=> Has(x, e) \/ Has(y, e)
    <2>1. ASSUME Has(z, e)
          PROVE  Has(x, e) \/ Has(y, e)
      <3>1. PICK i \in 1 .. a + b : z[i] = e
        BY <1>1, <2>1 DEF Has
      <3>2. CASE i \in 1 .. a
        BY <1>2, <3>1, <3>2 DEF Has, a
      <3>3. CASE i - a \in 1 .. b /\ ~(i <= a)
        <4>1. y[i - a] = e
          BY <1>1, <3>1, <3>3
        <4> QED
          BY <3>3, <4>1 DEF Has, b
      <3> QED
        BY <1>2, <3>2, <3>3
    <2>2. Has(x, e) => Has(z, e)
      BY <1>1, <1>2 DEF Has, a
    <2>3. Has(y, e) => Has(z, e)
      BY <1>1, <1>2 DEF Has, b
    <2> QED
      BY <2>1, <2>2, <2>3
  <1>4. ASSUME Distinct(x), Distinct(y), \A e : ~(Has(x, e) /\ Has(y, e))
        PROVE  Distinct(z)
    <2>1. SUFFICES ASSUME NEW i \in 1 .. a + b, NEW j \in 1 .. a + b, z[i] = z[j]
                   PROVE  i = j
      BY <1>1 DEF Distinct
    <2>2. CASE i \in 1 .. a /\ j \in 1 .. a
      <3>1. x[i] = x[j]
        BY <1>2, <2>1, <2>2
      <3> QED
        BY <1>4, <2>2, <3>1 DEF Distinct, a
    <2>3. CASE i \in 1 .. a /\ j - a \in 1 .. b /\ ~(j <= a)
      <3>1. x[i] = y[j - a]
        BY <1>1, <1>2, <2>1, <2>3
      <3>2. Has(x, x[i]) /\ Has(y, x[i])
        BY <2>3, <3>1 DEF Has, a, b
      <3> QED
        BY <1>4, <3>2
    <2>4. CASE j \in 1 .. a /\ i - a \in 1 .. b /\ ~(i <= a)
      <3>1. x[j] = y[i - a]
        BY <1>1, <1>2, <2>1, <2>4
      <3>2. Has(x, x[j]) /\ Has(y, x[j])
        BY <2>4, <3>1 DEF Has, a, b
      <3> QED
        BY <1>4, <3>2
    <2>5. CASE i - a \in 1 .. b /\ ~(i <= a) /\ j - a \in 1 .. b /\ ~(j <= a)
      <3>1. y[i - a] = y[j - a]
        BY <1>1, <2>1, <2>5
      <3>2. i - a = j - a
        BY <1>4, <2>5, <3>1 DEF Distinct, b
      <3> QED
        BY <1>1, <3>2
    <2> QED
      BY <1>2, <2>2, <2>3, <2>4, <2>5
  <1> QED
    BY <1>3, <1>4 DEF z

LEMMA FlattenedElements ==
  ASSUME NEW S, NEW ss \in Seq(Seq(S))
  PROVE  /\ FlattenSeq(ss) \in Seq(S)
         /\ \A e : Has(FlattenSeq(ss), e) => \E i \in 1 .. Len(ss) : Has(ss[i], e)
         /\ (\A i \in 1 .. Len(ss) : Distinct(ss[i]))
            /\ (\A i, j \in 1 .. Len(ss) : \A e : Has(ss[i], e) /\ Has(ss[j], e) => i = j)
              => Distinct(FlattenSeq(ss))
  <1> DEFINE m == Len(ss)
             Alone == /\ \A i \in 1 .. m : Distinct(ss[i])
                      /\ \A i, j \in 1 .. m : \A e : Has(ss[i], e) /\ Has(ss[j], e) => i = j
  <1>1. PICK f : /\ f[0] = <<>> /\ \A n \in 1 .. Len(ss) : f[n] = f[n - 1] \o ss[n]
                 /\ \A n \in 0 .. Len(ss) : f[n] \in Seq(S)
                 /\ FlattenSeq(ss) = f[Len(ss)]
    BY FlattenLoop
  <1>2. m \in Nat /\ (\A n \in 1 .. m : ss[n] \in Seq(S)) /\ m \in 0 .. m
        /\ \A n \in 1 .. m : n - 1 \in 0 .. m /\ n \in 0 .. m
    OBVIOUS
  <1> DEFINE Good(n) == /\ \A e : Has(f[n], e) => \E i \in 1 .. n : Has(ss[i], e)
                        /\ Alone => Distinct(f[n])
             P == {n \in 0 .. m : Good(n)}
  <1>3. 0 \in P
    <2>1. Len(f[0]) = 0
      BY <1>1
    <2> QED
      BY <1>2, <2>1 DEF Has, Distinct
  <1> HIDE DEF m
  <1>4. ASSUME NEW n \in 1 .. m, n - 1 \in P
        PROVE  n \in P
    <2>1. f[n] = f[n - 1] \o ss[n] /\ f[n - 1] \in Seq(S) /\ ss[n] \in Seq(S)
      BY <1>1, <1>2 DEF m
    <2>2. /\ \A e : Has(f[n], e) <=> Has(f[n - 1], e) \/ Has(ss[n], e)
          /\ Distinct(f[n - 1]) /\ Distinct(ss[n]) /\ (\A e : ~(Has(f[n - 1], e) /\ Has(ss[n], e)))
               => Distinct(f[n])
      BY <2>1, JoinedElements
    <2>3. Good(n - 1)
      BY <1>4
    <2>4. \A i \in 1 .. n - 1 : i \in 1 .. n /\ i \in 1 .. m /\ i # n
      BY <1>2
    <2>5. n \in 1 .. n
      OBVIOUS
    <2>6. \A e : Has(f[n], e) => \E i \in 1 .. n : Has(ss[i], e)
      BY <2>2, <2>3, <2>4, <2>5
    <2>7. ASSUME Alone
          PROVE  Distinct(f[n])
      <3>1. Distinct(f[n - 1]) /\ Distinct(ss[n])
        BY <2>3, <2>7
      <3>2. \A e : ~(Has(f[n - 1], e) /\ Has(ss[n], e))
        BY <2>3, <2>4, <2>7
      <3> QED
        BY <2>2, <3>1, <3>2
    <2> QED
      BY <1>2, <2>6, <2>7
  <1>5. 0 .. m \subseteq P
    <2> HIDE DEF P
    <2> QED
      BY <1>2, <1>3, <1>4, InductionUpTo
  <1>6. Good(m)
    BY <1>2, <1>5
  <1> QED
    BY <1>1, <1>2, <1>6 DEF m

-----------------------------------------------------------------------------
(* The cells of the columns for constants that no region covers.           *)
FreeCell(c, e) == \E row \in Nat : /\ e = <<c, row>> /\ row < FirstUnassignedRow
                                   /\ ~ Taken(column_allocations[c], row)

LEMMA PositionsAre ==
  ASSUME AllApart, NEW c \in RegionColumns
  PROVE  /\ PositionsIn(c) \in Seq(RegionColumns \X Nat) /\ Distinct(PositionsIn(c))
         /\ \A e : Has(PositionsIn(c), e) => FreeCell(c, e)
  <1> DEFINE A == column_allocations[c]
             F == FirstUnassignedRow
             spaces == FreeIntervals(A, 0, F)
             L == Len(spaces)
             size(t) == spaces[t].end - spaces[t].start
             ss == [t \in DOMAIN spaces |-> [j \in 1 .. size(t) |-> <<c, spaces[t].start + j - 1>>]]
             Cells == RegionColumns \X Nat
  <1>1. F \in Nat /\ Apart(A)
    BY FirstUnassignedIs DEF AllApart
  <1>2. FreeSpaces(A, 0, F, spaces)
    BY <1>1, FreeIntervalsAre
  <1>3. PositionsIn(c) = FlattenSeq(ss)
    BY DEF PositionsIn
  <1> HIDE DEF A, F, spaces
  <1>4. L \in Nat /\ DOMAIN spaces = 1 .. L /\ \A t \in 1 .. L : spaces[t] \in Interval
    BY <1>2 DEF FreeSpaces
  <1>5. /\ \A t \in 1 .. L : /\ spaces[t].start \in Nat /\ spaces[t].end \in Nat
                             /\ spaces[t].start < spaces[t].end /\ spaces[t].end <= F
        /\ \A i, t \in 1 .. L : i < t => spaces[i].end < spaces[t].start
        /\ \A row \in Nat : row < F => (~ Taken(A, row) <=> \E t \in 1 .. L : Within(spaces[t], row))
    <2>1. \A t \in 1 .. L : spaces[t].start \in Nat /\ spaces[t].end \in Int
      BY <1>4 DEF Interval
    <2>2. ASSUME NEW t \in 1 .. L
          PROVE  /\ spaces[t].start < spaces[t].end /\ spaces[t].end <= F /\ spaces[t].end \in Nat
      <3>1. \/ spaces[t].end = NoEnd /\ F = NoEnd
            \/ spaces[t].start < spaces[t].end /\ (F = NoEnd \/ spaces[t].end <= F)
        BY <1>2 DEF FreeSpaces
      <3> QED
        BY <1>1, <2>1, <3>1 DEF NoEnd
    <2>3. \A i, t \in 1 .. L : i < t => spaces[i].end < spaces[t].start
      BY <1>2 DEF FreeSpaces
    <2>4. \A row \in Nat : row < F => (~ Taken(A, row) <=> \E t \in 1 .. L : Within(spaces[t], row))
      BY <1>1, <1>2 DEF FreeSpaces
    <2> QED
      BY <2>1, <2>2, <2>3, <2>4
  <1> HIDE DEF L
  <1>6. ASSUME NEW t \in 1 .. L
        PROVE  /\ ss[t] \in Seq(Cells) /\ Len(ss[t]) = size(t) /\ size(t) \in Nat
               /\ \A j \in 1 .. size(t) : /\ ss[t][j] = <<c, spaces[t].start + j - 1>>
                                          /\ spaces[t].start + j - 1 \in Nat
    <2>1. size(t) \in Nat /\ \A j \in 1 .. size(t) : spaces[t].start + j - 1 \in Nat
      BY <1>5
    <2>2. ss[t] = [j \in 1 .. size(t) |-> <<c, spaces[t].start + j - 1>>]
      BY <1>4
    <2> HIDE DEF ss, size
    <2> QED
      BY <2>1, <2>2
  <1>7. ss \in Seq(Seq(Cells)) /\ Len(ss) = L
    <2>1. DOMAIN ss = 1 .. L /\ ss = [t \in 1 .. L |-> ss[t]]
      BY <1>4
    <2> HIDE DEF ss
    <2> QED
      BY <1>4, <1>6, <2>1
  <1>8. ASSUME NEW t \in 1 .. L, NEW e, Has(ss[t], e)
        PROVE  \E row \in Nat : e = <<c, row>> /\ spaces[t].start <= row /\ row < spaces[t].end
    <2>1. PICK j \in 1 .. size(t) : e = <<c, spaces[t].start + j - 1>>
      <3> HIDE DEF ss, size
      <3> QED
        BY <1>6, <1>8 DEF Has
    <2> DEFINE row == spaces[t].start + j - 1
    <2>2. row \in Nat /\ spaces[t].start <= row /\ row < spaces[t].end
      BY <1>5
    <2> QED
      BY <2>1, <2>2
  <1>9. ASSUME NEW t \in 1 .. L
        PROVE  Distinct(ss[t])
    <2>1. SUFFICES ASSUME NEW i \in 1 .. size(t), NEW j \in 1 .. size(t), ss[t][i] = ss[t][j]
                   PROVE  i = j
      <3> HIDE DEF ss, size
      <3> QED
        BY <1>6 DEF Distinct
    <2>2. <<c, spaces[t].start + i - 1>> = <<c, spaces[t].start + j - 1>>
      BY <1>6, <2>1
    <2>3. spaces[t].start + i - 1 = spaces[t].start + j - 1
      BY <2>2
    <2>4. i \in Int /\ j \in Int /\ spaces[t].start \in Int
      BY <1>5
    <2> QED
      BY <2>3, <2>4
  <1>10. ASSUME NEW i \in 1 .. L, NEW t \in 1 .. L, NEW e, Has(ss[i], e), Has(ss[t], e)
         PROVE  i = t
    <2>1. PICK row \in Nat : e = <<c, row>> /\ spaces[i].start <= row /\ row < spaces[i].end
      BY <1>8, <1>10
    <2>2. PICK other \in Nat : e = <<c, other>> /\ spaces[t].start <= other /\ other < spaces[t].end
      BY <1>8, <1>10
    <2>3. row = other
      BY <2>1, <2>2
    <2>4. CASE i < t
      <3>1. spaces[i].end < spaces[t].start
        BY <1>5, <2>4
      <3> QED
        BY <1>5, <2>1, <2>2, <2>3, <3>1
    <2>5. CASE t < i
      <3>1. spaces[t].end < spaces[i].start
        BY <1>5, <2>5
      <3> QED
        BY <1>5, <2>1, <2>2, <2>3, <3>1
    <2> QED
      BY <1>4, <2>4, <2>5
  <1> HIDE DEF ss
  <1>11. /\ FlattenSeq(ss) \in Seq(Cells)
         /\ \A e : Has(FlattenSeq(ss), e) => \E i \in 1 .. L : Has(ss[i], e)
         /\ Distinct(FlattenSeq(ss))
    <2> HIDE DEF Cells
    <2> QED
      BY <1>7, <1>9, <1>10, FlattenedElements
  <1>12. ASSUME NEW e, Has(FlattenSeq(ss), e)
         PROVE  FreeCell(c, e)
    <2>1. PICK t \in 1 .. L : Has(ss[t], e)
      BY <1>11, <1>12
    <2>2. PICK row \in Nat : e = <<c, row>> /\ spaces[t].start <= row /\ row < spaces[t].end
      BY <1>8, <2>1
    <2>3. row < F /\ Within(spaces[t], row)
      BY <1>1, <1>5, <2>2 DEF Within
    <2>4. ~ Taken(A, row)
      BY <1>5, <2>3
    <2> QED
      BY <2>2, <2>3, <2>4 DEF FreeCell, A, F
  <1> QED
    BY <1>3, <1>11, <1>12

LEMMA ConstantPositionsAre ==
  ASSUME AllApart
  PROVE  /\ ConstantPositions \in Seq(RegionColumns \X Nat) /\ Distinct(ConstantPositions)
         /\ \A e : Has(ConstantPositions, e) => \E c \in ToSet(ConstantColumns) : FreeCell(c, e)
  <1> DEFINE ss == [t \in DOMAIN ConstantColumns |-> PositionsIn(ConstantColumns[t])]
             L == Len(ConstantColumns)
             Cells == RegionColumns \X Nat
  <1>1. /\ L \in Nat /\ DOMAIN ConstantColumns = 1 .. L
        /\ \A i \in 1 .. L : ConstantColumns[i] \in RegionColumns /\ ConstantColumns[i] \in ToSet(ConstantColumns)
        /\ \A i, j \in 1 .. L : ConstantColumns[i] = ConstantColumns[j] => i = j
    BY ConstantsAssumption DEF RegionColumns, ToSet
  <1>2. ConstantPositions = FlattenSeq(ss)
    BY DEF ConstantPositions
  <1> HIDE DEF L
  <1>3. DOMAIN ss = 1 .. L /\ \A t \in 1 .. L : ss[t] = PositionsIn(ConstantColumns[t])
    BY <1>1
  <1>4. ASSUME NEW t \in 1 .. L
        PROVE  /\ ss[t] \in Seq(Cells) /\ Distinct(ss[t])
               /\ \A e : Has(ss[t], e) => FreeCell(ConstantColumns[t], e)
    BY <1>1, <1>3, PositionsAre
  <1>5. ss \in Seq(Seq(Cells)) /\ Len(ss) = L
    <2>1. ss = [t \in 1 .. L |-> ss[t]]
      BY <1>1
    <2> HIDE DEF ss, Cells
    <2> QED
      BY <1>1, <1>4, <2>1
  <1> HIDE DEF ss
  <1>6. ASSUME NEW i \in 1 .. L, NEW t \in 1 .. L, NEW e, Has(ss[i], e), Has(ss[t], e)
        PROVE  i = t
    <2>1. FreeCell(ConstantColumns[i], e) /\ FreeCell(ConstantColumns[t], e)
      BY <1>4, <1>6
    <2>2. ConstantColumns[i] = ConstantColumns[t]
      BY <2>1 DEF FreeCell
    <2> QED
      BY <1>1, <2>2
  <1>7. /\ FlattenSeq(ss) \in Seq(Cells)
        /\ \A e : Has(FlattenSeq(ss), e) => \E i \in 1 .. L : Has(ss[i], e)
        /\ Distinct(FlattenSeq(ss))
    <2> HIDE DEF Cells
    <2> QED
      BY <1>4, <1>5, <1>6, FlattenedElements
  <1>8. \A e : Has(FlattenSeq(ss), e) => \E c \in ToSet(ConstantColumns) : FreeCell(c, e)
    BY <1>1, <1>4, <1>7
  <1> QED
    BY <1>2, <1>7, <1>8

LEMMA PlaceConstantsIInv == PlannerIInv /\ PlaceConstants => PlannerIInv'
  <1> SUFFICES ASSUME PlannerIInv, PlaceConstants
               PROVE  PlannerIInv'
    OBVIOUS
  <1>1. /\ circuit' = circuit /\ sorted_regions' = sorted_regions
        /\ region_starts' = region_starts /\ column_allocations' = column_allocations
        /\ sorted_regions = <<>>
        /\ \/ /\ outcome' = "NotEnoughColumnsForConstants"
           \/ /\ outcome' = "planned" /\ ~(Len(ConstantPositions) < circuit.constants)
              /\ constants' = SubSeq(ConstantPositions, 1, circuit.constants)
    BY DEF PlaceConstants
  <1>2. Planning /\ AllApart /\ RegionsDisjoint
    BY DEF PlannerIInv
  <1>3. Planning'
    BY <1>1, <1>2 DEF Planning, Slotted
  <1>4. AllApart' /\ RegionsDisjoint'
    BY <1>1, <1>2 DEF AllApart, RegionsDisjoint, Slotted, RowsOf, Shape
  <1>5. FirstUnassignedRow' = FirstUnassignedRow
    BY <1>1 DEF FirstUnassignedRow
  <1>6. \A c, row : InUse(c, row)' = InUse(c, row)
    BY <1>1 DEF InUse
  <1>7. CASE outcome' = "NotEnoughColumnsForConstants"
    BY <1>3, <1>4, <1>7 DEF PlannerIInv, ConstantsInGaps
  <1>8. CASE /\ outcome' = "planned" /\ ~(Len(ConstantPositions) < circuit.constants)
             /\ constants' = SubSeq(ConstantPositions, 1, circuit.constants)
    <2> DEFINE all == ConstantPositions
               n == circuit.constants
               placed == SubSeq(all, 1, n)
    <2>1. /\ all \in Seq(RegionColumns \X Nat) /\ Distinct(all)
          /\ \A e : Has(all, e) => \E c \in ToSet(ConstantColumns) : FreeCell(c, e)
      BY <1>2, ConstantPositionsAre
    <2>2. n \in Nat
      BY <1>2, CircuitsAssumption DEF Planning
    <2> HIDE DEF all, n
    <2>3. Len(all) \in Nat /\ n <= Len(all) /\ \A i \in 1 .. n : i \in 1 .. Len(all)
      BY <1>8, <2>1, <2>2 DEF all, n
    <2>4. \A i \in 1 .. n : all[i] \in RegionColumns \X Nat
      BY <2>1, <2>3
    <2>5. /\ placed \in Seq(RegionColumns \X Nat) /\ Len(placed) = n
          /\ \A i \in 1 .. n : placed[i] = all[i]
      <3>1. /\ placed \in Seq(RegionColumns \X Nat)
            /\ Len(placed) = IF 1 <= n THEN n - 1 + 1 ELSE 0
            /\ \A i \in 1 .. n - 1 + 1 : placed[i] = all[1 + i - 1]
        <4> HIDE DEF placed
        <4> QED
          BY <2>2, <2>4, SubSeqProperties DEF placed
      <3> HIDE DEF placed
      <3>2. n - 1 + 1 = n /\ (~(1 <= n) => n = 0) /\ \A i \in 1 .. n : 1 + i - 1 = i
        BY <2>2
      <3> QED
        BY <3>1, <3>2
    <2>6. DOMAIN placed = 1 .. n
      BY <2>5
    <2>7. constants' = placed /\ circuit'.constants = n
      BY <1>1, <1>8 DEF all, n
    <2> HIDE DEF placed
    <2>8. ASSUME NEW t \in 1 .. n
          PROVE  /\ placed[t][1] \in ToSet(ConstantColumns)
                 /\ ~ InUse(placed[t][1], placed[t][2])
                 /\ placed[t][2] < FirstUnassignedRow
                 /\ \A m \in 1 .. n : placed[m] = placed[t] => m = t
      <3>1. Has(all, placed[t])
        BY <2>3, <2>5 DEF Has
      <3>2. PICK c \in ToSet(ConstantColumns) : FreeCell(c, placed[t])
        BY <2>1, <3>1
      <3>3. PICK row \in Nat : /\ placed[t] = <<c, row>> /\ row < FirstUnassignedRow
                               /\ ~ Taken(column_allocations[c], row)
        BY <3>2 DEF FreeCell
      <3>4. placed[t][1] = c /\ placed[t][2] = row
        BY <3>3
      <3>5. ~ InUse(c, row)
        BY <3>3 DEF InUse, Taken
      <3>6. \A m \in 1 .. n : placed[m] = placed[t] => m = t
        BY <2>1, <2>3, <2>5 DEF Distinct
      <3> QED
        BY <3>3, <3>4, <3>5, <3>6
    <2>9. ConstantsInGaps'
      BY <1>5, <1>6, <2>5, <2>6, <2>7, <2>8 DEF ConstantsInGaps
    <2> QED
      BY <1>3, <1>4, <2>9 DEF PlannerIInv
  <1> QED
    BY <1>1, <1>7, <1>8

LEMMA PlannerNextIInv == PlannerIInv /\ [PlannerNext]_plannerVars => PlannerIInv'
  <1> SUFFICES ASSUME PlannerIInv, [PlannerNext]_plannerVars
               PROVE  PlannerIInv'
    OBVIOUS
  <1>1. CASE Slot
    BY <1>1, SlotIInv
  <1>2. CASE PlaceConstants
    BY <1>2, PlaceConstantsIInv
  <1>3. CASE UNCHANGED plannerVars
    <2>1. /\ circuit' = circuit /\ sorted_regions' = sorted_regions
          /\ region_starts' = region_starts /\ column_allocations' = column_allocations
          /\ constants' = constants /\ outcome' = outcome
      BY <1>3 DEF plannerVars
    <2>2. Planning /\ AllApart /\ RegionsDisjoint /\ ConstantsInGaps
      BY DEF PlannerIInv
    <2>3. Planning'
      BY <2>1, <2>2 DEF Planning, Slotted
    <2>4. AllApart' /\ RegionsDisjoint'
      BY <2>1, <2>2 DEF AllApart, RegionsDisjoint, Slotted, RowsOf, Shape
    <2>5. FirstUnassignedRow' = FirstUnassignedRow
      BY <2>1 DEF FirstUnassignedRow
    <2>6. \A c, row : InUse(c, row)' = InUse(c, row)
      BY <2>1 DEF InUse
    <2>7. ConstantsInGaps'
      BY <2>1, <2>2, <2>5, <2>6 DEF ConstantsInGaps
    <2> QED
      BY <2>3, <2>4, <2>7 DEF PlannerIInv
  <1> QED
    BY <1>1, <1>2, <1>3 DEF PlannerNext

LEMMA AlwaysPlannerIInv == PlannerSpec => []PlannerIInv
  BY PlannerInitIInv, PlannerNextIInv, PTL DEF PlannerSpec

(* The planner's state has its types, whatever the circuit: every region   *)
(* that was slotted in has a row, and every allocation some rows           *)
(* (strategy.rs, slot_in).                                                 *)
THEOREM PlannerTypeCorrect == PlannerSpec => []PlannerTypeOK
  <1>1. PlannerIInv => PlannerTypeOK
    <2> SUFFICES ASSUME PlannerIInv
                 PROVE  PlannerTypeOK
      OBVIOUS
    <2>1. Planning /\ AllApart
      BY DEF PlannerIInv
    <2>2. ToSet(sorted_regions) \subseteq DOMAIN circuit.shapes
      <3> DEFINE D == DOMAIN circuit.shapes
      <3>1. sorted_regions \in Seq(D)
        BY <2>1 DEF Planning
      <3> HIDE DEF D
      <3>2. \A i \in DOMAIN sorted_regions : sorted_regions[i] \in D
        BY <3>1
      <3> QED
        BY <3>2 DEF ToSet, D
    <2>3. \A i \in DOMAIN region_starts : i \notin ToSet(sorted_regions) => region_starts[i] \in Nat
      BY <2>1 DEF Planning, Slotted
    <2>4. \A c \in RegionColumns : \A a \in column_allocations[c] :
             a.start \in Nat /\ a.length \in Nat \ {0}
      BY <2>1, AllocationTypes DEF AllApart, Apart
    <2> QED
      BY <2>1, <2>2, <2>3, <2>4 DEF PlannerTypeOK, Planning
  <1> QED
    BY <1>1, AlwaysPlannerIInv, PTL

LEMMA FreeIntervalsAreExact ==
  ASSUME AllApart
  PROVE  FreeIntervalsExact
  <1> DEFINE F == FirstUnassignedRow
  <1>1. F \in Nat
    BY FirstUnassignedIs
  <1> SUFFICES ASSUME NEW c \in RegionColumns, NEW start \in 0 .. F + 1, NEW end \in start + 1 .. F + 1
               PROVE  LET spaces == FreeIntervals(column_allocations[c], start, end)
                      IN /\ \A t \in DOMAIN spaces : spaces[t].start < spaces[t].end
                         /\ \A t \in 1 .. Len(spaces) - 1 : spaces[t].end < spaces[t + 1].start
                         /\ UNION {spaces[t].start .. spaces[t].end - 1 : t \in DOMAIN spaces}
                              = {row \in start .. end - 1 : ~ InUse(c, row)}
    BY DEF FreeIntervalsExact
  <1> DEFINE A == column_allocations[c]
             spaces == FreeIntervals(A, start, end)
             L == Len(spaces)
  <1>2. start \in Nat /\ end \in Nat /\ end # NoEnd
    BY <1>1 DEF NoEnd
  <1>3. FreeSpaces(A, start, end, spaces)
    BY <1>2, FreeIntervalsAre DEF AllApart
  <1>4. \A row : InUse(c, row) <=> Taken(A, row)
    BY DEF InUse, Taken
  <1> HIDE DEF F, A, spaces
  <1>5. L \in Nat /\ DOMAIN spaces = 1 .. L /\ \A t \in 1 .. L : spaces[t] \in Interval
    BY <1>3 DEF FreeSpaces
  <1>6. \A t \in 1 .. L : spaces[t].start \in Nat /\ spaces[t].end \in Int
    BY <1>5 DEF Interval
  <1>7. \A t \in 1 .. L : /\ start <= spaces[t].start /\ spaces[t].start < spaces[t].end
                          /\ spaces[t].end <= end
    BY <1>2, <1>3 DEF FreeSpaces
  <1>8. \A j, t \in 1 .. L : j < t => spaces[j].end < spaces[t].start
    BY <1>3 DEF FreeSpaces
  <1>9. \A row \in Nat : row >= start /\ row < end =>
           (~ Taken(A, row) <=> \E t \in 1 .. L : Within(spaces[t], row))
    BY <1>3 DEF FreeSpaces
  <1> HIDE DEF L
  <1>10. \A t \in 1 .. L, row \in Int :
            row \in spaces[t].start .. spaces[t].end - 1 <=> Within(spaces[t], row)
    <2> SUFFICES ASSUME NEW t \in 1 .. L, NEW row \in Int
                 PROVE  row \in spaces[t].start .. spaces[t].end - 1 <=> Within(spaces[t], row)
      OBVIOUS
    <2>1. spaces[t].end # NoEnd /\ spaces[t].start \in Nat /\ spaces[t].end \in Int
      BY <1>2, <1>6, <1>7 DEF NoEnd
    <2> QED
      BY <2>1 DEF Within
  <1>11. \A t \in 1 .. L : spaces[t].start .. spaces[t].end - 1 \subseteq start .. end - 1
    BY <1>2, <1>6, <1>7
  <1>12. \A t \in 1 .. L - 1 : spaces[t].end < spaces[t + 1].start
    <2> SUFFICES ASSUME NEW t \in 1 .. L - 1
                 PROVE  spaces[t].end < spaces[t + 1].start
      OBVIOUS
    <2>1. t \in 1 .. L /\ t + 1 \in 1 .. L /\ t < t + 1
      BY <1>5
    <2> QED
      BY <1>8, <2>1
  <1>13. ASSUME NEW row
         PROVE  (\E t \in 1 .. L : row \in spaces[t].start .. spaces[t].end - 1)
                  <=> row \in start .. end - 1 /\ ~ InUse(c, row)
    <2>1. CASE row \in start .. end - 1
      <3>1. row \in Nat /\ row \in Int /\ row >= start /\ row < end
        BY <1>2, <2>1
      <3> QED
        BY <1>4, <1>9, <1>10, <2>1, <3>1
    <2>2. CASE row \notin start .. end - 1
      BY <1>11, <2>2
    <2> QED
      BY <2>1, <2>2
  <1>14. UNION {spaces[t].start .. spaces[t].end - 1 : t \in 1 .. L}
           = {row \in start .. end - 1 : ~ InUse(c, row)}
    BY <1>13
  <1> QED
    BY <1>5, <1>7, <1>12, <1>14 DEF L, spaces, A

(* The plan is sound for every circuit, every number of columns and every  *)
(* set of columns for constants: the free rows of a column are exactly the *)
(* rows free_intervals returns, no two regions share a cell, each has the  *)
(* rows allocated to it, and the constants lie on distinct cells that no   *)
(* region covers (strategy.rs, slot_in; v1.rs, synthesize).                *)
THEOREM PlansAreSound == PlannerSpec => []PlanIsSound
  <1>1. PlannerIInv => PlanIsSound
    BY FreeIntervalsAreExact DEF PlannerIInv, PlanIsSound
  <1> QED
    BY <1>1, AlwaysPlannerIInv, PTL

LEMMA RowIsEarliest ==
  ASSUME Planning, AllApart, NEW i \in DOMAIN circuit.shapes
  PROVE  RowFor(i) = EarliestRow(Shape(i))
  <1> DEFINE x == RowFor(i)
             F == FirstUnassignedRow
             C == Shape(i).columns
             length == Shape(i).row_count
             S == {row \in 0 .. F : Vacant(Shape(i), row)}
  <1>1. F \in Nat
    BY FirstUnassignedIs
  <1>2. /\ x \in Nat /\ x <= F
        /\ \A c \in C : FreeIn(column_allocations[c], length, x)
        /\ \A row \in Nat : row < x => \E c \in C : ~ FreeIn(column_allocations[c], length, row)
    BY RowForIs
  <1>3. \A row : Vacant(Shape(i), row) <=> \A c \in C : FreeIn(column_allocations[c], length, row)
    BY DEF Vacant, InUse, FreeIn, Taken
  <1>4. EarliestRow(Shape(i)) = Min(S)
    BY DEF EarliestRow
  <1>5. \A row : row \in S <=> row \in 0 .. F /\ \A c \in C : FreeIn(column_allocations[c], length, row)
    BY <1>3
  <1> HIDE DEF x, F, C, length, S
  <1>6. x \in S
    BY <1>1, <1>2, <1>5
  <1>7. \A row \in S : row \in Int /\ x <= row
    BY <1>1, <1>2, <1>5
  <1>8. \A y \in S : (\A row \in S : y <= row) => y = x
    BY <1>2, <1>6, <1>7
  <1>9. Min(S) = x
    BY <1>6, <1>7, <1>8 DEF Min
  <1> QED
    BY <1>4, <1>9 DEF x

(* Every region is slotted in at the earliest row where none of its        *)
(* columns is in use: backtracking over the gaps of one column after       *)
(* another misses no row (strategy.rs, first_fit_region).                  *)
THEOREM RegionsAtEarliestRow == PlannerSpec => SlotsAtEarliestRow
  <1>1. PlannerIInv /\ [PlannerNext]_plannerVars =>
          [sorted_regions' # sorted_regions =>
             region_starts'[Head(sorted_regions)] = EarliestRow(Shape(Head(sorted_regions)))]_plannerVars
    <2> SUFFICES ASSUME PlannerIInv, PlannerNext, sorted_regions' # sorted_regions
                 PROVE  region_starts'[Head(sorted_regions)] = EarliestRow(Shape(Head(sorted_regions)))
      OBVIOUS
    <2>1. CASE Slot
      <3> DEFINE h == Head(sorted_regions)
      <3>1. h \in DOMAIN circuit.shapes /\ region_starts' = [region_starts EXCEPT ![h] = RowFor(h)]
        BY <2>1, SlotIs
      <3>2. Planning /\ AllApart
        BY DEF PlannerIInv
      <3>3. DOMAIN region_starts = DOMAIN circuit.shapes
        BY <3>2 DEF Planning
      <3> HIDE DEF h
      <3>4. region_starts'[h] = RowFor(h)
        BY <3>1, <3>3
      <3>5. RowFor(h) = EarliestRow(Shape(h))
        BY <3>1, <3>2, RowIsEarliest
      <3> QED
        BY <3>4, <3>5 DEF h
    <2>2. CASE PlaceConstants
      BY <2>2 DEF PlaceConstants
    <2> QED
      BY <2>1, <2>2 DEF PlannerNext
  <1> QED
    BY <1>1, AlwaysPlannerIInv, PTL DEF PlannerSpec, SlotsAtEarliestRow
=============================================================================
