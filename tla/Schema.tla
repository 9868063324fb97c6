------------------------------- MODULE Schema -------------------------------
(***************************************************************************)
(* The database schema as a value, and the operations of Alembic on it.    *)
(*                                                                         *)
(* A database is a record: its columns (pairs of a table and a column; a   *)
(* table is there when it has columns), its foreign keys (triples table,   *)
(* column, table referred to), its indexes, and the little of its rows     *)
(* that a migration reads or writes: the width of                          *)
(* student_profiles.group_type, the values in that column, and the roles   *)
(* in users.  `ok' turns FALSE when a statement fails.                     *)
(*                                                                         *)
(* Types, defaults and nullability are left out: every column the          *)
(* migrations add to an existing table is nullable or has a server         *)
(* default, so that rows never stand in its way.                           *)
(***************************************************************************)
EXTENDS Naturals, Sequences, FiniteSets, SequencesExt

Empty == [columns |-> {}, refs |-> {}, indexes |-> {}, width |-> 1,
          roles |-> {}, groups |-> {}, ok |-> TRUE]

TablesOf(d) == {c[1] : c \in d.columns}
UniquesOf(d) == {<<i.table, i.columns>> : i \in {j \in d.indexes : j.unique}}

\* A subgroup (D1, F3) is stored in two characters, a group (D, F) in one.
Letter(g) == IF g \in {"D", "D1", "D2"} THEN "D" ELSE "F"
Length(g) == IF g = Letter(g) THEN 1 ELSE 2
-----------------------------------------------------------------------------
(* The statements: op.create_table(t, ...), and so on.  F is a set of       *)
(* foreign keys <<column, table>>; cs a set of columns.                     *)

Table(t, cs, F) == [op |-> "table", table |-> t, columns |-> cs, refs |-> F]
DropTable(t) == [op |-> "drop_table", table |-> t]
Add(t, cs) == [op |-> "add", table |-> t, columns |-> cs]
Drop(t, cs) == [op |-> "drop", table |-> t, columns |-> cs]
Rename(t, c, d) == [op |-> "rename", table |-> t, from |-> c, to |-> d]
Index(i, t, cs) ==
  [op |-> "index", name |-> i, table |-> t, columns |-> cs, unique |-> FALSE]
Unique(i, t, cs) == [Index(i, t, cs) EXCEPT !.unique = TRUE]
DropIndex(i) == [op |-> "drop_index", name |-> i]
Recast(n) == [op |-> "recast", width |-> n]
Rewrite(r, s) == [op |-> "rewrite", from |-> r, to |-> s]
Truncate == [op |-> "truncate"]

\* PostgreSQL carries the statement out.
Fits(d, o) ==
  CASE o.op = "table" -> /\ o.table \notin TablesOf(d)
                         /\ \A f \in o.refs : f[2] \in TablesOf(d) \cup {o.table}
    [] o.op = "drop_table" -> /\ o.table \in TablesOf(d)
                              /\ \A f \in d.refs : f[3] = o.table => f[1] = o.table
    [] o.op = "add" -> /\ o.table \in TablesOf(d)
                       /\ ({o.table} \X o.columns) \cap d.columns = {}
    [] o.op = "drop" -> ({o.table} \X o.columns) \subseteq d.columns
    [] o.op = "rename" -> /\ <<o.table, o.from>> \in d.columns
                          /\ <<o.table, o.to>> \notin d.columns
    [] o.op = "index" -> /\ ({o.table} \X o.columns) \subseteq d.columns
                         /\ \A i \in d.indexes : i.name # o.name
    [] o.op = "drop_index" -> \E i \in d.indexes : i.name = o.name
    [] o.op = "recast" -> \A g \in d.groups : Length(g) <= o.width
    [] OTHER -> TRUE

Renamed(c, o) == IF c = o.from THEN o.to ELSE c

After(d, o) ==
  CASE o.op = "table" ->
         [d EXCEPT !.columns = @ \cup ({o.table} \X o.columns),
                   !.refs = @ \cup {<<o.table, f[1], f[2]>> : f \in o.refs}]
    [] o.op = "drop_table" ->
         [d EXCEPT !.columns = {c \in @ : c[1] # o.table},
                   !.refs = {f \in @ : f[1] # o.table},
                   !.indexes = {i \in @ : i.table # o.table}]
    [] o.op = "add" -> [d EXCEPT !.columns = @ \cup ({o.table} \X o.columns)]
    [] o.op = "drop" ->
         LET gone == {o.table} \X o.columns IN
         [d EXCEPT !.columns = @ \ gone,
                   !.refs = {f \in @ : <<f[1], f[2]>> \notin gone},
                   !.indexes = {i \in @ : ({i.table} \X i.columns) \cap gone = {}}]
    [] o.op = "rename" ->
         [d EXCEPT !.columns = (@ \ {<<o.table, o.from>>}) \cup {<<o.table, o.to>>},
                   !.refs = {IF f[1] = o.table
                             THEN <<f[1], Renamed(f[2], o), f[3]>> ELSE f : f \in @},
                   !.indexes = {IF i.table = o.table
                                THEN [i EXCEPT !.columns = {Renamed(c, o) : c \in @}]
                                ELSE i : i \in @}]
    [] o.op = "index" -> [d EXCEPT !.indexes = @ \cup {[name |-> o.name,
                            table |-> o.table, columns |-> o.columns, unique |-> o.unique]}]
    [] o.op = "drop_index" -> [d EXCEPT !.indexes = {i \in @ : i.name # o.name}]
    [] o.op = "recast" -> [d EXCEPT !.width = o.width]
    [] o.op = "rewrite" -> [d EXCEPT !.roles = {IF r = o.from THEN o.to ELSE r : r \in @}]
    [] o.op = "truncate" -> [d EXCEPT !.groups = {Letter(g) : g \in @}]

\* The tables it locks against writes, to the end of the transaction: its own, and
\* those that a foreign key it makes or drops refers to.  A column is renamed
\* under the lock of its own table only, and an UPDATE locks rows, no table.
Locks(d, o) ==
  CASE o.op = "table" -> {o.table} \cup {f[2] : f \in o.refs}
    [] o.op = "drop_table" -> {o.table} \cup {f[3] : f \in {g \in d.refs : g[1] = o.table}}
    [] o.op = "drop" ->
         {o.table} \cup {f[3] : f \in {g \in d.refs : g[1] = o.table /\ g[2] \in o.columns}}
    [] o.op \in {"add", "rename", "index"} -> {o.table}
    [] o.op = "drop_index" -> {i.table : i \in {j \in d.indexes : j.name = o.name}}
    [] o.op = "recast" -> {"student_profiles"}
    [] OTHER -> {}

\* A list of statements in order; the first that fails is the last.
Run(d, ops) ==
  FoldLeft(LAMBDA e, o : IF e.ok /\ Fits(e, o) THEN After(e, o) ELSE [e EXCEPT !.ok = FALSE],
           d, ops)
=============================================================================
