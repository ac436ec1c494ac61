-------------------------------- MODULE Ddl ---------------------------------
(***************************************************************************)
(* The DDL that the Alembic revisions of migrations/versions are made of,  *)
(* and what PostgreSQL does with it.  A statement that is illegal in the   *)
(* database it meets is refused and fails its whole transaction.           *)
(* Of a table the model keeps what other code relies on:                   *)
(*   refs     its foreign keys and what deleting the parent does,          *)
(*   keys     its unique keys besides the surrogate id; a key that holds   *)
(*            only under a condition carries the condition as a member,    *)
(*   columns  those that a later revision adds, renames or drops.          *)
(* Columns a table is created with and keeps, types, defaults and plain    *)
(* indexes are left out.  Of the CHECKs it keeps those some revision       *)
(* rebuilds over existing rows: the statuses of people and digests and     *)
(* the list of sources.  `rows' has the values present in those columns,   *)
(* `halfvec' whether the vector extension of the database is 0.7 or newer. *)
(***************************************************************************)
EXTENDS Naturals, FiniteSets, Sequences, FiniteSetsExt, Functions, TLC

Cascade(column, parent)  == [column |-> column, to |-> parent, onDelete |-> "CASCADE"]
Nullify(column, parent)  == [column |-> column, to |-> parent, onDelete |-> "SET NULL"]
Forbid(column, parent)   == [column |-> column, to |-> parent, onDelete |-> "RESTRICT"]

(***************************************************************************)
(* Statements.                                                             *)
(***************************************************************************)
CreateTable(t, columns, refs, keys) ==
  [do |-> "create_table", table |-> t, columns |-> columns, refs |-> refs, keys |-> keys]
DropTable(t) == [do |-> "drop_table", table |-> t]
RenameTable(t, new) == [do |-> "rename_table", table |-> t, new |-> new]
AddColumns(t, columns) == [do |-> "add_column", table |-> t, columns |-> columns]
DropColumns(t, columns) == [do |-> "drop_column", table |-> t, columns |-> columns]
RenameColumn(t, old, new) == [do |-> "rename_column", table |-> t, old |-> old, new |-> new]
AddForeignKey(t, ref) == [do |-> "add_foreign_key", table |-> t, ref |-> ref]
DropForeignKey(t, column) == [do |-> "drop_foreign_key", table |-> t, column |-> column]
\* Replaces a primary key; rows that differ only in `by' make the new one impossible.
ReplaceKey(t, old, new, by) ==
  [do |-> "replace_key", table |-> t, old |-> old, new |-> new, by |-> by]
\* A CHECK is named ck_<table>_<column>: the table it was made for, which a rename of
\* the table does not change.  The convention of db/base.py doubles a name that already
\* carries the prefix.
AddCheck(t, column, allowed) ==
  [do |-> "add_check", table |-> t, column |-> column, allowed |-> allowed, doubled |-> FALSE]
AddDoubledCheck(t, column, allowed) ==
  [do |-> "add_check", table |-> t, column |-> column, allowed |-> allowed, doubled |-> TRUE]
DropCheck(t, made, column) ==
  [do |-> "drop_check", table |-> t, made |-> made, column |-> column, ifExists |-> FALSE]
DropCheckIfExists(t, column) ==
  [do |-> "drop_check", table |-> t, made |-> t, column |-> column, ifExists |-> TRUE]
UndoubleNames == [do |-> "undouble_names"]
\* Python of a revision that raises when the vectors it is told to make cannot be had.
Guard(vectors) == [do |-> "guard", vectors |-> vectors]
\* UPDATE t SET column = to WHERE column IN from; Nothing stands for NULL.
Rewrite(t, column, from, to) ==
  [do |-> "update", table |-> t, column |-> column, from |-> from, to |-> to]
DeleteRows(t, column, values) ==
  [do |-> "update", table |-> t, column |-> column, from |-> values, to |-> "no row"]
\* INSERT INTO t SELECT ... FROM source WHERE column IN values.
CopyRows(t, source, column, values) ==
  [do |-> "insert", table |-> t, source |-> source, column |-> column, values |-> values]

(***************************************************************************)
(* What PostgreSQL does with a statement.                                  *)
(***************************************************************************)
Named(db, s) ==
  {c \in db.checks : c.on = s.table /\ c.made = s.made /\ c.column = s.column /\ ~c.doubled}

Present(db, t, column) ==
  {r.value : r \in {q \in db.rows : q.on = t /\ q.column = column}}

RefersTo(db, t) == {u \in DOMAIN db.tables : \E r \in db.tables[u].refs : r.to = t}

Legal(db, s) ==
  CASE s.do = "create_table"    -> /\ s.table \notin DOMAIN db.tables
                                   /\ \A r \in s.refs :
                                         r.to \in DOMAIN db.tables \union {s.table}
    [] s.do = "drop_table"      -> /\ s.table \in DOMAIN db.tables
                                   /\ RefersTo(db, s.table) \subseteq {s.table}
    [] s.do = "rename_table"    -> /\ s.table \in DOMAIN db.tables
                                   /\ s.new \notin DOMAIN db.tables
    [] s.do = "add_column"      -> s.columns \intersect db.tables[s.table].columns = {}
    [] s.do = "drop_column"     -> s.columns \subseteq db.tables[s.table].columns
    [] s.do = "rename_column"   -> s.old \in db.tables[s.table].columns
    [] s.do = "add_foreign_key" -> s.ref.to \in DOMAIN db.tables
    [] s.do = "drop_foreign_key" -> \E r \in db.tables[s.table].refs : r.column = s.column
    [] s.do = "replace_key"     -> /\ s.old \in db.tables[s.table].keys
                                   /\ \/ s.by \in s.new
                                      \/ Cardinality(Present(db, s.table, s.by)) <= 1
    [] s.do = "add_check"       -> Present(db, s.table, s.column) \subseteq s.allowed
    [] s.do = "drop_check"      -> s.ifExists \/ Named(db, s) # {}
    [] s.do = "guard"           -> \/ s.vectors = "vector"
                                   \/ s.vectors = "halfvec" /\ db.halfvec
    [] OTHER                    -> TRUE

Renamed(x, old, new) == IF x = old THEN new ELSE x

WithoutColumns(table, columns) ==
  [columns |-> table.columns \ columns,
   refs    |-> {r \in table.refs : r.column \notin columns},
   keys    |-> {k \in table.keys : k \intersect columns = {}}]

WithColumnRenamed(table, old, new) ==
  [columns |-> {Renamed(c, old, new) : c \in table.columns},
   refs    |-> {[r EXCEPT !.column = Renamed(@, old, new)] : r \in table.refs},
   keys    |-> {{Renamed(c, old, new) : c \in k} : k \in table.keys}]

Effect(db, s) ==
  CASE s.do = "create_table" ->
         [db EXCEPT !.tables = [t \in DOMAIN @ \union {s.table} |->
            IF t = s.table THEN [columns |-> s.columns, refs |-> s.refs, keys |-> s.keys]
                           ELSE @[t]]]
    [] s.do = "drop_table" ->
         [db EXCEPT !.tables = Restrict(@, DOMAIN @ \ {s.table}),
                    !.checks = {c \in @ : c.on # s.table},
                    !.rows   = {r \in @ : r.on # s.table}]
    [] s.do = "rename_table" ->
         [db EXCEPT !.tables =
            [t \in {Renamed(u, s.table, s.new) : u \in DOMAIN @} |->
               LET was == Renamed(t, s.new, s.table) IN
               [@[was] EXCEPT !.refs =
                  {[r EXCEPT !.to = Renamed(@, s.table, s.new)] : r \in @}]],
                    !.checks = {[c EXCEPT !.on = Renamed(@, s.table, s.new)] : c \in @},
                    !.rows   = {[r EXCEPT !.on = Renamed(@, s.table, s.new)] : r \in @}]
    [] s.do = "add_column" ->
         [db EXCEPT !.tables[s.table].columns = @ \union s.columns]
    [] s.do = "drop_column" ->
         [db EXCEPT !.tables[s.table] = WithoutColumns(@, s.columns),
                    !.checks = {c \in @ : c.on # s.table \/ c.column \notin s.columns},
                    !.rows   = {r \in @ : r.on # s.table \/ r.column \notin s.columns}]
    [] s.do = "rename_column" ->
         [db EXCEPT !.tables[s.table] = WithColumnRenamed(@, s.old, s.new)]
    [] s.do = "add_foreign_key" ->
         [db EXCEPT !.tables[s.table].refs = @ \union {s.ref}]
    [] s.do = "drop_foreign_key" ->
         [db EXCEPT !.tables[s.table].refs = {r \in @ : r.column # s.column}]
    [] s.do = "replace_key" ->
         [db EXCEPT !.tables[s.table].keys = (@ \ {s.old}) \union {s.new}]
    [] s.do = "add_check" ->
         [db EXCEPT !.checks = @ \union {[on |-> s.table, made |-> s.table,
            column |-> s.column, allowed |-> s.allowed, doubled |-> s.doubled]}]
    [] s.do = "drop_check" ->
         [db EXCEPT !.checks = @ \ Named(db, s)]
    [] s.do = "guard" -> db
    [] s.do = "undouble_names" ->
         [db EXCEPT !.checks = {[c EXCEPT !.doubled = FALSE] : c \in @}]
    [] s.do = "update" ->
         [db EXCEPT !.rows =
            LET hit == {r \in @ : r.on = s.table /\ r.column = s.column /\ r.value \in s.from}
            IN (@ \ hit) \union {[r EXCEPT !.value = s.to] : r \in
                                   {q \in hit : s.to \notin {"no row", "NULL"}}}]
    [] s.do = "insert" ->
         [db EXCEPT !.rows = @ \union {[r EXCEPT !.on = s.table] : r \in
            {q \in @ : q.on = s.source /\ q.column = s.column /\ q.value \in s.values}}]

\* A refused statement fails the whole transaction.
Execute(db, s) ==
  IF db.refused \/ ~Legal(db, s) THEN [db EXCEPT !.refused = TRUE] ELSE Effect(db, s)

\* Half of the statements, then the other half on what they leave: the same as one after
\* the other, without a depth of evaluation that grows with their number.
RECURSIVE Run(_, _)
Run(statements, db) ==
  LET half == Len(statements) \div 2 IN
  CASE statements = <<>>     -> db
    [] Len(statements) = 1   -> Execute(db, statements[1])
    [] OTHER ->
         CHOOSE last \in
           {Run(rest, mid) : rest \in {SubSeq(statements, half + 1, Len(statements))},
                             mid \in {Run(first, d) : first \in {SubSeq(statements, 1, half)},
                                                      d \in {db}}} : TRUE

=============================================================================
