------------------------------- MODULE Dialects -------------------------------
(***************************************************************************)
(* The query builders of the five drivers and the functions that execute   *)
(* what they build, for one table.  A statement is a record: the columns   *)
(* it names and, where its text has placeholders, their numbers.  The      *)
(* databases (external) bind the arguments by number or by place in the    *)
(* text and run the statement.  The functions promise the same of every    *)
(* dialect; last compares what the database did with the promise.          *)
(***************************************************************************)
EXTENDS Naturals, FiniteSets, Sequences, SequencesExt, Selections

CONSTANTS
  Columns,  \* column names, in their order
  Keys,     \* the primary keys and other unique keys a table has
  Data,     \* values; Null is another one
  Null,
  Wheres    \* columns compared in a whereCondition, in their order

Dialect == {"pq", "sqlite", "mysql", "mssql", "oracle"}

ASSUME DialectsAssumption ==
  /\ Null \notin Data /\ Columns \in Seq(Range(Columns))
  /\ \A w \in Wheres : w \in Seq(Range(Columns))
  /\ \A k \in Keys : k.pk \subseteq Range(Columns) /\ k.pk # {} /\ k.other \subseteq Range(Columns)

VARIABLES
  dialect, keys,
  table,   \* the rows
  last     \* the last call: the outcome it promises, the one it got, and whether
           \* the outcome is known to differ

dialectVars == <<dialect, keys, table, last>>

Row == [Range(Columns) -> Data \cup {Null}]

-------------------------------------------------------------------------------
(* Databases.  An outcome is a table, an error or none, and the rows that   *)
(* were affected or read.  An error leaves the table alone.                 *)
Done(rows, affected) == [table |-> rows, error |-> "none", rows |-> affected]
Failed(error) == [table |-> table, error |-> error, rows |-> {}]

Agree(r, s, cols) == \A c \in cols : r[c] = s[c] /\ r[c] # Null

HasKey(r) == \A c \in keys.pk : r[c] # Null

Valid(rows) ==
  \A r \in rows : HasKey(r) /\ \A s \in rows \ {r} : ~Agree(r, s, keys.pk) /\ ~Agree(r, s, keys.other)

(* The rows old become the n rows new, which may be equal ones.             *)
Replaced(old, new, n) ==
  LET rows == (table \ old) \cup new
  IN IF \E r \in new : ~HasKey(r) THEN Failed("notNull")
     ELSE IF Cardinality(new) < n \/ (table \ old) \cap new # {} \/ ~Valid(rows) THEN Failed("unique")
     ELSE Done(rows, new)

(* A row whose columns in the sequence s of columns and values have those.  *)
Assigned(r, s) ==
  [c \in DOMAIN r |-> IF \E e \in Range(s) : e[1] = c
                      THEN (CHOOSE e \in Range(s) : e[1] = c)[2] ELSE r[c]]

NewRow(s) == Assigned([c \in Range(Columns) |-> Null], s)

Updated(old, s) == Replaced(old, {Assigned(r, s) : r \in old}, Cardinality(old))

Where(s) == {r \in table : \A e \in Range(s) : r[e[1]] = e[2] /\ e[2] # Null}

-------------------------------------------------------------------------------
(* Statements.  vals has the numbers of the placeholders of all rows to     *)
(* insert, set and where pairs of a column and a number; Proposed is the    *)
(* value the statement was to insert (excluded, VALUES or source).          *)
Statement ==
  [kind |-> "insert", cols |-> <<>>, vals |-> <<>>, set |-> <<>>, where |-> <<>>, on |-> {},
   conflict |-> "error"]
Proposed == 0
NoStatement == [Statement EXCEPT !.kind = "none"]

(* ? of MySQL and :N of Oracle stand for the next argument of the text.     *)
ByPlace == dialect \in {"mysql", "oracle"}

Numbered(pairs) == Selected(pairs, {e \in Range(pairs) : e[2] # Proposed})

(* The numbers of the placeholders in the order of the text.                *)
Placeholders(s) ==
  LET second(pairs) == [i \in DOMAIN pairs |-> pairs[i][2]]
  IN s.vals \o second(Numbered(s.set)) \o second(s.where)

(* The statement with values: args[n] for number n, or args[p] at place p.  *)
Bind(s, args) ==
  LET arg(n, p) == args[IF ByPlace THEN p ELSE n]
      v == Len(s.vals)
      w == v + Len(Numbered(s.set))
      proposed(col) == LET i == CHOOSE i \in DOMAIN s.cols : s.cols[i] = col IN arg(s.vals[i], i)
  IN [s EXCEPT
        !.vals = [i \in DOMAIN @ |-> arg(@[i], i)],
        !.set = [i \in DOMAIN @ |->
                   <<@[i][1], IF @[i][2] = Proposed THEN proposed(@[i][1]) ELSE arg(@[i][2], v + i)>>],
        !.where = [i \in DOMAIN @ |-> <<@[i][1], arg(@[i][2], w + i)>>]]

NewRows(s) ==
  LET n == Len(s.cols)
  IN {NewRow([i \in 1..n |-> <<s.cols[i], s.vals[n * row + i]>>]) : row \in 0 .. Len(s.vals) \div n - 1}

(* The row that an ON CONFLICT, ON DUPLICATE KEY or MERGE finds: MySQL does *)
(* not name a key and looks at the primary key before the others.           *)
Found(s, r) ==
  LET onPK == {x \in table : Agree(x, r, keys.pk)}
  IN IF dialect # "mysql" THEN {x \in table : Agree(x, r, s.on)}
     ELSE IF onPK # {} THEN onPK
     ELSE {x \in table : Agree(x, r, keys.other)}

RunInsert(s) ==
  LET new == NewRows(s)
      found == Found(s, CHOOSE r \in new : TRUE)
  IN IF s.conflict = "error" \/ found = {} \/ \E r \in new : ~HasKey(r)
     THEN Replaced({}, new, Len(s.vals) \div Len(s.cols))
     ELSE IF s.conflict = "nothing" THEN Done(table, {})
     ELSE Updated(found, s.set)

Run(s, args) ==
  IF s.kind = "none" THEN Failed("build")
  ELSE IF (IF ByPlace THEN Len(Placeholders(s)) ELSE Max(Range(Placeholders(s)) \cup {0})) # Len(args)
  THEN Failed("arguments")
  ELSE LET b == Bind(s, args)
       IN CASE s.kind = "insert" -> RunInsert(b)
            [] s.kind = "update" -> Updated(Where(b.where), b.set)
            [] s.kind = "delete" -> Done(table \ Where(b.where), Where(b.where))
            [] s.kind = "select" -> Done(table, Where(b.where))

-------------------------------------------------------------------------------
(* Query builders.  cols is a sequence of columns.                          *)
PKColumns == keys.pk
OtherColumns == Range(Columns) \ keys.pk

Insert(cols) == [Statement EXCEPT !.cols = cols, !.vals = [i \in DOMAIN cols |-> i]]

InsertRows(cols, numRows) ==
  [Insert(cols) EXCEPT !.vals = [i \in 1 .. numRows * Len(cols) |-> i]]

QueryRowWithPK(pkColumns) ==
  [Statement EXCEPT !.kind = "select", !.where = [i \in DOMAIN pkColumns |-> <<pkColumns[i], i>>]]

Delete(cols) ==
  [Statement EXCEPT !.kind = "delete", !.where = [i \in DOMAIN cols |-> <<cols[i], i>>]]

(* Numbers continue from the columns that are set to those of the key.      *)
UpdateColumns(cols) ==
  LET set == Selected(cols, OtherColumns)
      where == Selected(cols, PKColumns)
  IN IF set = <<>> THEN NoStatement
     ELSE [Statement EXCEPT !.kind = "update",
             !.set = [i \in DOMAIN set |-> <<set[i], i>>],
             !.where = [i \in DOMAIN where |-> <<where[i], Len(set) + i>>]]

(* The placeholders of the whereCondition come first in number, those of    *)
(* SET first in the text.                                                   *)
Update(cols, whereCondition) ==
  [Statement EXCEPT !.kind = "update",
     !.set = [i \in DOMAIN cols |-> <<cols[i], Len(whereCondition) + i>>],
     !.where = [i \in DOMAIN whereCondition |-> <<whereCondition[i], i>>]]

(* Mutant of UpdateArgs: no driver overrides the order. *)
UpdateArgsStd(vals, whereArgs) == whereArgs \o vals

UpdateArgs(vals, whereArgs) == IF ByPlace THEN vals \o whereArgs ELSE whereArgs \o vals

(* The columns an upsert sets, each to the placeholder of its value or, in   *)
(* the other dialects, to the value the statement was to insert.            *)
ToPlaceholders(cols) ==
  LET set == Selected(cols, OtherColumns)
  IN [i \in DOMAIN set |-> <<set[i], CHOOSE n \in DOMAIN cols : cols[n] = set[i]>>]
ToProposed(cols) ==
  LET set == Selected(cols, OtherColumns) IN [i \in DOMAIN set |-> <<set[i], Proposed>>]

(* ON CONFLICT (columns) DO NOTHING or DO UPDATE SET *)
OnConflictNothing(cols, target) ==
  [Insert(cols) EXCEPT !.on = Range(target), !.conflict = "nothing"]
PostgresUpsert(cols) ==
  [Insert(cols) EXCEPT !.on = keys.pk, !.conflict = "update", !.set = ToPlaceholders(cols)]
SqliteUpsert(cols) ==
  [Insert(cols) EXCEPT !.on = keys.pk, !.conflict = "update", !.set = ToProposed(cols)]

(* ON DUPLICATE KEY UPDATE names no key: a no-op update, or VALUES.         *)
OnDuplicateNothing(cols) == [Insert(cols) EXCEPT !.conflict = "nothing"]
MysqlUpsert(cols) == [Insert(cols) EXCEPT !.conflict = "update", !.set = ToProposed(cols)]

(* MERGE, whose source is VALUES in SQL Server and a SELECT in Oracle.      *)
MssqlMerge(cols, conflictCols, withUpdate) ==
  [Insert(cols) EXCEPT !.on = conflictCols, !.conflict = IF withUpdate THEN "update" ELSE "nothing",
                       !.set = IF withUpdate THEN ToProposed(cols) ELSE <<>>]
OracleMerge(cols, conflictCols, withUpdate) == MssqlMerge(cols, conflictCols, withUpdate)

InsertUnique(cols, target) ==
  CASE dialect \in {"pq", "sqlite"} -> OnConflictNothing(cols, target)
    [] dialect = "mysql" -> OnDuplicateNothing(cols)
    [] dialect = "mssql" -> MssqlMerge(cols, Range(target), FALSE)
    [] dialect = "oracle" -> OracleMerge(cols, Range(target), FALSE)

Upsert(cols) ==
  IF Range(cols) \subseteq keys.pk THEN NoStatement
  ELSE CASE dialect = "pq" -> PostgresUpsert(cols)
         [] dialect = "sqlite" -> SqliteUpsert(cols)
         [] dialect = "mysql" -> MysqlUpsert(cols)
         [] dialect = "mssql" -> MssqlMerge(cols, keys.pk, TRUE)
         [] dialect = "oracle" -> OracleMerge(cols, keys.pk, TRUE)

-------------------------------------------------------------------------------
(* The functions.  values is a function from columns.                       *)
SortedColumns(values) == Selected(Columns, DOMAIN values)
ValuesOf(cols, values) == [i \in DOMAIN cols |-> values[cols[i]]]
AssignedTo(r, values) == [c \in DOMAIN r |-> IF c \in DOMAIN values THEN values[c] ELSE r[c]]
RowOf(values) == AssignedTo([c \in Range(Columns) |-> Null], values)
Matching(values) == {r \in table : \A c \in DOMAIN values : r[c] = values[c] /\ r[c] # Null}
Restricted(values, cols) == [c \in cols |-> values[c]]

Changed(rows, values) ==
  Replaced(rows, {AssignedTo(r, values) : r \in rows}, Cardinality(rows))

NoCallYet == [called |-> FALSE, want |-> Done({}, {}), got |-> Done({}, {}), differs |-> FALSE]

DialectsInit ==
  /\ dialect \in Dialect /\ keys \in Keys /\ table = {}
  /\ last = NoCallYet

Execute(statement, args, want, differs) ==
  LET got == Run(statement, args)
  IN /\ ~last.called
     /\ table' = got.table
     /\ last' = [called |-> TRUE, want |-> want, got |-> got, differs |-> differs]
     /\ UNCHANGED <<dialect, keys>>

(* Insert and InsertReturning *)
CallInsert(values) ==
  LET cols == SortedColumns(values)
  IN Execute(Insert(cols), ValuesOf(cols, values), Replaced({}, {RowOf(values)}, 1), FALSE)

(* A batch of InsertRowStructs. *)
CallInsertRows(cols, first, second) ==
  Execute(InsertRows(cols, 2), ValuesOf(cols, first) \o ValuesOf(cols, second),
          Replaced({}, {RowOf(first), RowOf(second)}, 2), FALSE)

(* A conflict on a key that the call does not name.                         *)
OnOtherKey(r, key) ==
  dialect = "mysql" /\ \E x \in table : ~Agree(x, r, key) /\ (Agree(x, r, keys.pk) \/ Agree(x, r, keys.other))

(* InsertUnique: "does nothing if a conflict on the columns named by        *)
(* conflictTarget applies"                                                  *)
CallInsertUnique(values, target) ==
  LET cols == SortedColumns(values)
      r == RowOf(values)
      key == Range(target)
  IN Execute(InsertUnique(cols, target), ValuesOf(cols, values),
             IF HasKey(r) /\ \E x \in table : Agree(x, r, key)
             THEN Done(table, {}) ELSE Replaced({}, {r}, 1),
             OnOtherKey(r, key))

(* UpsertRowStruct: "inserts a new row or updates an existing one if        *)
(* inserting conflicts on the primary key column(s)"                        *)
CallUpsert(cols, values) ==
  LET r == RowOf(values)
      found == Matching(Restricted(values, keys.pk))
  IN Execute(Upsert(cols), ValuesOf(cols, values),
             IF Range(cols) \subseteq keys.pk THEN Failed("build")
             ELSE IF found = {} THEN Replaced({}, {r}, 1) ELSE Changed(found, values),
             OnOtherKey(r, keys.pk))

(* Update and UpdateReturning *)
CallUpdate(values, whereCondition, whereArgs) ==
  LET cols == SortedColumns(values)
  IN Execute(Update(cols, whereCondition),
             UpdateArgs(ValuesOf(cols, values), ValuesOf(whereCondition, whereArgs)),
             Changed(Matching(whereArgs), values), FALSE)

(* UpdateRowStruct: reorderForUpdate puts the values of the key last.       *)
CallUpdateRow(cols, values) ==
  Execute(UpdateColumns(cols),
          ValuesOf(Selected(cols, OtherColumns) \o Selected(cols, PKColumns), values),
          IF Range(cols) \subseteq keys.pk THEN Failed("build")
          ELSE Changed(Matching(Restricted(values, keys.pk)), values), FALSE)

(* DeleteRowStruct *)
CallDeleteRow(cols, values) ==
  LET pk == Selected(cols, PKColumns)
      found == Matching(Restricted(values, keys.pk))
  IN Execute(Delete(pk), ValuesOf(pk, values), Done(table \ found, found), FALSE)

(* QueryRowStruct *)
CallQueryRow(cols, values) ==
  LET pk == Selected(cols, PKColumns)
  IN Execute(QueryRowWithPK(pk), ValuesOf(pk, values),
             Done(table, Matching(Restricted(values, keys.pk))), FALSE)

CallReturned == last.called /\ last' = NoCallYet /\ UNCHANGED <<dialect, keys, table>>

Partial == UNION {[cols -> Data] : cols \in (SUBSET Range(Columns)) \ {{}}}
Full == [Range(Columns) -> Data]
Orders == {Columns, Reverse(Columns)}
KeyOrders == Orders \cup SetToSeqs(keys.pk)

DialectsNext ==
  \/ \E values \in Partial :
       \/ CallInsert(values)
       \/ \E key \in {keys.pk, keys.other} : \E target \in SetToSeqs(key) : CallInsertUnique(values, target)
       \/ \E where \in Wheres : \E args \in [Range(where) -> Data] : CallUpdate(values, where, args)
  \/ \E values \in Full, cols \in KeyOrders :
       \/ CallUpsert(cols, Restricted(values, Range(cols)))
       \/ CallUpdateRow(cols, Restricted(values, Range(cols)))
       \/ CallDeleteRow(cols, values) \/ CallQueryRow(cols, values)
  \/ \E first, second \in Full, cols \in Orders : CallInsertRows(cols, first, second)
  \/ CallReturned

DialectsSpec == DialectsInit /\ [][DialectsNext]_dialectVars

-------------------------------------------------------------------------------
(* querybuilder.go and the builders of the drivers: with the placeholders,  *)
(* argument orders and conflict clauses of any dialect, every call has the  *)
(* effect it promises and reports the same rows or the same error, except   *)
(* that MySQL takes a conflict on another key for one on the named key.     *)
SameInEveryDialect == ~last.differs => last.got = last.want

===============================================================================
