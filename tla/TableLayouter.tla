---------------------------- MODULE TableLayouter ----------------------------
(***************************************************************************)
(* The lookup tables of a circuit: SimpleTableLayouter                     *)
(* (proofs/src/circuit/table_layouter.rs), assign_table of the floor       *)
(* planners, which are near-duplicates of one another, and the two methods *)
(* of the keygen Assembly they call.                                       *)
(*                                                                         *)
(* A table is a set of fixed columns whose first rows the closure of       *)
(* assign_table assigns, cell by cell in any order.  When the closure      *)
(* returns the columns must be equally long and without gaps; each is then *)
(* filled down to the last usable row with the value it has in row 0, so   *)
(* that the rows below the table add no tuple to it.                       *)
(***************************************************************************)
EXTENDS Integers, FiniteSets, Functions

CONSTANTS TableColumns,   \* ConstraintSystem::lookup_table_column
          Values,         \* the values a cell can be assigned
          Zero,           \* the value of an unassigned fixed cell
          None,           \* not a value: the default is not known yet
          UsableRows      \* n - (blinding_factors + 1)

ASSUME TableValues == Zero \in Values /\ None \notin Values
ASSUME TableRows   == UsableRows \in Nat \ {0}

Usable == 0..(UsableRows - 1)

VARIABLES fixed,           \* Assembly::fixed, the usable rows of these columns
          table_columns,   \* the columns that earlier tables have used
          pc,              \* "outside" a table, "inside" one, or "failed"
          default,         \* per column of the current table: row 0, or None
          assigned,        \* per column of the current table: its assigned offsets
          error,
          tables, written  \* AUXILIARY: the finished tables, as [columns, length],
                           \* and the last value the closures gave each cell

current == <<default, assigned>>
vars    == <<fixed, table_columns, pc, default, assigned, error, tables, written>>

NoColumns == [c \in {} |-> {}]

Init == /\ fixed = [c \in TableColumns |-> [row \in Usable |-> Zero]]
        /\ written = [c \in TableColumns |-> [row \in Usable |-> None]]
        /\ table_columns = {} /\ tables = {}
        /\ pc = "outside"
        /\ default = NoColumns /\ assigned = NoColumns
        /\ error = "none"

Fail(e) == pc' = "failed" /\ error' = e
-----------------------------------------------------------------------------
(* assign_table: a new SimpleTableLayouter for the closure.                *)
BeginTable == /\ pc = "outside"
              /\ pc' = "inside"
              /\ default' = NoColumns /\ assigned' = NoColumns
              /\ UNCHANGED <<fixed, table_columns, error, tables, written>>

(* The columns touched by this table, and or_default() for a new one.      *)
Touched == DOMAIN assigned
Entry(f, c, new) == [d \in DOMAIN f \cup {c} |-> IF d \in DOMAIN f THEN f[d] ELSE new]
Defaults(c) == Entry(default, c, None)
Offsets(c)  == Entry(assigned, c, {})

Used(c) == c \in table_columns

RefuseUsedColumn(c) == /\ pc = "inside"
                       /\ Used(c)
                       /\ Fail("UsedColumn")
                       /\ UNCHANGED <<fixed, table_columns, default, assigned, tables, written>>

(* assign_fixed of the Assembly refuses a row that is not usable.          *)
RefuseRow(c, offset) ==
    /\ pc = "inside"
    /\ ~Used(c) /\ offset \notin Usable
    /\ default' = Defaults(c) /\ assigned' = Offsets(c)
    /\ Fail("NotEnoughRowsAvailable")
    /\ UNCHANGED <<fixed, table_columns, tables, written>>

(* The cell is written first, whatever the layouter then decides.          *)
Write(c, offset, v) == /\ fixed' = [fixed EXCEPT ![c][offset] = v]
                       /\ written' = [written EXCEPT ![c][offset] = v]

RefuseDefault(c, v) ==
    /\ pc = "inside"
    /\ ~Used(c) /\ Defaults(c)[c] # None
    /\ Write(c, 0, v)
    /\ Fail("OverwriteDefault")
    /\ UNCHANGED <<table_columns, current, tables>>

MutNewDefault(c, offset, v) == IF Defaults(c)[c] = None THEN v ELSE Defaults(c)[c]
NewDefault(c, offset, v) == IF offset = 0 THEN v ELSE Defaults(c)[c]

AssignCell(c, offset, v) ==
    /\ pc = "inside"
    /\ ~Used(c) /\ offset \in Usable
    /\ offset = 0 => Defaults(c)[c] = None
    /\ Write(c, offset, v)
    /\ default' = [Defaults(c) EXCEPT ![c] = NewDefault(c, offset, v)]
    /\ assigned' = [Offsets(c) EXCEPT ![c] = @ \cup {offset}]
    /\ UNCHANGED <<table_columns, pc, error, tables>>
-----------------------------------------------------------------------------
(* compute_table_lengths: each column reaches down to its last assigned    *)
(* row, and must have a default and no gap; then all must be as long.      *)
MutComplete(c) == default[c] # None
Complete(c) == /\ default[c] # None
               /\ \A low, high \in Usable :
                     high \in assigned[c] /\ low <= high => low \in assigned[c]
Length(c)   == Cardinality(assigned[c])

Uneven == \E c, d \in Touched : Length(c) # Length(d)
FirstUnused == IF Touched = {} THEN 0 ELSE Length(CHOOSE c \in Touched : TRUE)

RefuseTable == /\ pc = "inside"
               /\ \/ (\E c \in Touched : ~Complete(c)) /\ Fail("ColumnNotAssigned")
                  \/ (\A c \in Touched : Complete(c)) /\ Uneven /\ Fail("UnevenColumnLengths")
               /\ UNCHANGED <<fixed, table_columns, current, tables, written>>

Accepted == (\A c \in Touched : Complete(c)) /\ ~Uneven

MutRecordColumns == table_columns
RecordColumns == table_columns \cup Touched

(* The columns are recorded before they are filled.  fill_from_row refuses *)
(* a first row that is not usable, so a table may not be of exactly        *)
(* UsableRows rows.                                                        *)
RefuseFill == /\ pc = "inside"
              /\ Accepted /\ Touched # {} /\ FirstUnused \notin Usable
              /\ table_columns' = RecordColumns
              /\ Fail("NotEnoughRowsAvailable")
              /\ UNCHANGED <<fixed, current, tables, written>>

Fill(c) == [row \in Usable |-> IF row >= FirstUnused THEN default[c] ELSE fixed[c][row]]

EndTable == /\ pc = "inside"
            /\ Accepted /\ (Touched = {} \/ FirstUnused \in Usable)
            /\ pc' = "outside"
            /\ table_columns' = RecordColumns
            /\ fixed' = [c \in TableColumns |-> IF c \in Touched THEN Fill(c) ELSE fixed[c]]
            /\ tables' = IF Touched = {} THEN tables
                         ELSE tables \cup {[columns |-> Touched, length |-> FirstUnused]}
            /\ default' = NoColumns /\ assigned' = NoColumns
            /\ UNCHANGED <<error, written>>

Next == \/ BeginTable \/ RefuseTable \/ RefuseFill \/ EndTable
        \/ \E c \in TableColumns :
              \/ RefuseUsedColumn(c)
              \/ \E offset \in 0..UsableRows :
                    RefuseRow(c, offset) \/ \E v \in Values : AssignCell(c, offset, v)
              \/ \E v \in Values : RefuseDefault(c, v)

Spec == Init /\ [][Next]_vars
-----------------------------------------------------------------------------
TypeOK ==
    /\ fixed \in [TableColumns -> [Usable -> Values]]
    /\ written \in [TableColumns -> [Usable -> Values \cup {None}]]
    /\ table_columns \subseteq TableColumns
    /\ pc \in {"outside", "inside", "failed"}
    /\ DOMAIN default = DOMAIN assigned /\ Touched \subseteq TableColumns
    /\ \A c \in Touched : /\ default[c] \in Values \cup {None}
                          /\ assigned[c] \subseteq Usable
    /\ (pc = "failed") <=> (error # "none")
    /\ \A t \in tables : t.columns \subseteq table_columns /\ t.length \in Usable

(***************************************************************************)
(* The row that will fill a column is the row that the closure put on top  *)
(* of the table, in every column, whatever the order of the calls.         *)
(***************************************************************************)
DefaultIsTopRow ==
    pc = "inside" => \A c \in Touched : default[c] # None =>
        0 \in assigned[c] /\ default[c] = fixed[c][0]

(***************************************************************************)
(* The tuples a finished table offers to the lookup argument over all the  *)
(* usable rows are exactly those its closure assigned: nothing assigned is *)
(* lost to the filling, no filler row mixes the values of two rows, and no *)
(* row is left as it was before the table (a row of zeros is a tuple too). *)
(* As long as a table is open, what fills it is its top row.               *)
(***************************************************************************)
Tuple(of, t, row) == [c \in t.columns |-> of[c][row]]

TableFilled ==
    /\ \A t \in tables : {Tuple(fixed, t, row) : row \in Usable}
                           = {Tuple(written, t, row) : row \in 0..(t.length - 1)}
    /\ DefaultIsTopRow

(***************************************************************************)
(* A finished table is final: no later call of assign_table, one that ends *)
(* in an error included, changes a cell of its columns.                    *)
(***************************************************************************)
FinishedTablesFrozen ==
    [][\A t \in tables : \A c \in t.columns : fixed'[c] = fixed[c]]_vars
=============================================================================
