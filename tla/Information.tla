------------------------------ MODULE Information ------------------------------
(***************************************************************************)
(* sqldb.Information (information.go) as the five drivers implement it:    *)
(* what exists in a database, told from the catalog tables of the server.  *)
(* A method is one query or several, and the schema of the database may    *)
(* change between them.  A name is the sequence of its parts between dots. *)
(***************************************************************************)
EXTENDS Naturals, Sequences, FiniteSets, SequencesExt, Selections

CONSTANTS
  Databases   \* [server -> set of databases]: current, the default schema, schemas,
              \* relations and routines

CONSTANTS
  Filters,        \* sets of schemas to list
  RelationNames, ColumnNames, RoutineNames, Signatures   \* arguments; a signature is
                  \* the parts of a name and the arguments, or empty

(* The kinds of relations each server has in its catalog.                   *)
RelationKinds ==
  [pq |-> {"table", "partitioned", "foreign", "view", "matview", "index", "sequence"}, sqlite |-> {"table", "internal", "view"},
   mysql |-> {"table", "view", "sequence"}, mssql |-> {"table", "view", "function"}, oracle |-> {"table", "view", "index"}]
BaseTables == {"table", "partitioned"}

CatalogColumns ==
  [name : STRING, default : BOOLEAN, identity : {"no", "byDefault", "always"}, generated : BOOLEAN, hidden : BOOLEAN]

(* A foreign key pairs columns, or refers to a primary key without saying   *)
(* its columns.                                                             *)
IsForeignKey(f) ==
  /\ f.columns \in Seq(STRING) /\ f.columns # <<>>
  /\ f.to \in Seq(STRING) /\ "NULL" \notin ToSet(f.to)
  /\ f.to = <<>> \/ Len(f.to) = Len(f.columns)

(* Only tables have keys; PostgreSQL and Oracle have hidden columns.        *)
IsRelation(srv, r) ==
  /\ r.kind \in RelationKinds[srv] /\ r.name \in Seq(STRING)
  /\ r.columns \in Seq(CatalogColumns)
  /\ srv \notin {"pq", "oracle"} => \A i \in DOMAIN r.columns : ~r.columns[i].hidden
  /\ r.key \in Seq(STRING)
  /\ r.kind \notin BaseTables \cup {"internal"} => r.key = <<>> /\ r.fks = {}
  /\ \A f \in r.fks : IsForeignKey(f) /\ \A g \in r.fks : f.name = g.name => f = g

(* Names are unique in their schema; indexes of Oracle have names of their  *)
(* own.  SQLite has no schema for the system.                               *)
IsDatabase(srv, db) ==
  /\ srv = "sqlite" => "sys" \notin db.schemas
  /\ \A r \in db.relations : r.schema \in db.schemas /\ IsRelation(srv, r)
  /\ \A r, o \in db.relations :
       r.schema = o.schema /\ r.name = o.name /\ "index" \notin {r.kind, o.kind} => r = o
  /\ \A f \in db.routines : f.schema \in db.schemas

ASSUME InformationAssumption ==
  /\ DOMAIN Databases \subseteq DOMAIN RelationKinds
  /\ \A srv \in DOMAIN Databases : \A db \in Databases[srv] : IsDatabase(srv, db)

VARIABLES
  server,     \* the driver
  database,   \* what it is connected to
  ask,        \* the call of a method
  seen        \* history: the states of the database during the call

infoVars == <<server, database, ask, seen>>

NoSchema == "NULL"

-------------------------------------------------------------------------------
(* Catalog tables: the rows for a relation with one of these kinds.         *)
At(db, kinds, at) ==
  {r \in db.relations : r.kind \in kinds /\ r.schema = at.schema /\ r.name = at.name}

AnyKind == {"table", "partitioned", "foreign", "view", "matview", "index", "internal", "sequence", "function"}

KeyRows(r) == {[at |-> i, name |-> r.key[i]] : i \in DOMAIN r.key}
ForeignKeyRows(r) ==
  UNION {{[fk |-> f.name, at |-> i, name |-> f.columns[i], table |-> f.table,
           to |-> IF f.to = <<>> THEN "NULL" ELSE f.to[i]] : i \in DOMAIN f.columns} : f \in r.fks}

(* ORDER BY at *)
InOrder(rows) == [i \in 1..Cardinality(rows) |->
                    (CHOOSE row \in rows : Cardinality({o \in rows : o.at <= row.at}) = i).name]

(* One row per column of a constraint, collected by its name. *)
Grouped(rows) ==
  {LET own == {row \in rows : row.fk = fk}
   IN [name |-> fk, columns |-> InOrder(own), table |-> (CHOOSE row \in own : TRUE).table,
       to |-> InOrder({[at |-> row.at, name |-> row.to] : row \in own})]
     : fk \in {row.fk : row \in rows}}

Qualified(rows) == {<<r.schema>> \o r.name : r \in rows}

(* Dropped and hidden columns stay in the catalog. *)
Visible(r) == Selected(r.columns, {c \in ToSet(r.columns) : ~c.hidden})

(* strings.Cut at the first dot; without one the default schema is meant.   *)
SplitSchemaName(name) ==
  IF Len(name) = 1 THEN [schema |-> "", name |-> name]
  ELSE [schema |-> Head(name), name |-> Tail(name)]

CurrentSchema(db) == IF server = "sqlite" THEN "main" ELSE db.current
Default(db, split) == IF split.schema = "" THEN [split EXCEPT !.schema = CurrentSchema(db)] ELSE split

-------------------------------------------------------------------------------
(* pqconn/information.go: pg_catalog.  "sys" stands for pg_* schemas and    *)
(* information_schema.                                                      *)
PqSchemas(db) == db.schemas \ {"sys"}

PqRelkinds == [table |-> {"table", "partitioned"}, view |-> {"view"}]

PqListRelations(db, kind, filter) ==
  Qualified({r \in db.relations :
    r.kind \in PqRelkinds[kind] /\ IF filter = {} THEN r.schema # "sys" ELSE r.schema \in filter})

PqRelationExists(db, kind, at) == At(db, PqRelkinds[kind], at) # {}
PqTableOrViewExists(db, at) == At(db, {"table", "view", "matview", "foreign", "partitioned"}, at) # {}

(* pg_class has every kind of relation.                                     *)
PqColumn(r, c) ==
  [name |-> c.name, pk |-> c.name \in ToSet(r.key), default |-> c.default \/ c.generated \/ c.identity # "no",
   readOnly |-> c.generated \/ c.identity = "always", generated |-> c.generated]
PqColumns(db, at) ==
  {[i \in DOMAIN Visible(r) |-> PqColumn(r, Visible(r)[i])] : r \in At(db, AnyKind, at)}
PqColumnExists(db, at, column) ==
  \E r \in At(db, AnyKind, at) : \E c \in ToSet(r.columns) : c.name = column /\ ~c.hidden

(* Mutant of PqPrimaryKey: in the order of the columns. *)
PqPrimaryKeyDeclared(db, at) ==
  InOrder(UNION {{[at |-> i, name |-> r.columns[i].name] :
                    i \in {j \in DOMAIN r.columns : r.columns[j].name \in ToSet(r.key)}} : r \in At(db, AnyKind, at)})

PqPrimaryKey(db, at) == InOrder(UNION {KeyRows(r) : r \in At(db, AnyKind, at)})
PqForeignKeys(db, at) == Grouped(UNION {ForeignKeyRows(r) : r \in At(db, AnyKind, at)})

(* Functions can be overloaded; prokind tells aggregates apart.             *)
PqRoutines(db, filter) ==
  {f \in db.routines : f.kind # "other" /\ IF filter = {} THEN f.schema # "sys" ELSE f.schema \in filter}
PqRoutineExists(db, at, signature) ==
  \E f \in db.routines : /\ f.kind # "other" /\ f.schema = at.schema /\ f.name = at.name
                         /\ signature # <<>> => signature = <<<<f.schema>> \o f.name, f.args>>

-------------------------------------------------------------------------------
(* sqliteconn/information.go: sqlite_schema of each attached database, and  *)
(* PRAGMA table_xinfo, table_info and foreign_key_list.  "internal" tables  *)
(* are those named sqlite_*.                                                *)
SqliteSchemas(db) == db.schemas

SqliteListSchemaObjects(db, kind, schema) ==
  Qualified({r \in db.relations : r.kind = kind /\ r.schema = schema})

SqliteTypes == [table |-> {"table", "internal"}, view |-> {"view"}]
SqliteObjectExists(db, kind, at) == At(db, SqliteTypes[kind], at) # {}
SqliteTableOrViewExists(db, at) == At(db, {"table", "internal", "view"}, at) # {}

SqliteColumns(db, at) ==
  {[i \in DOMAIN r.columns |->
      [name |-> r.columns[i].name, pk |-> r.columns[i].name \in ToSet(r.key), default |-> r.columns[i].default,
       readOnly |-> r.columns[i].generated, generated |-> r.columns[i].generated]]
     : r \in At(db, {"table", "internal", "view"}, at)}

SqlitePrimaryKey(db, at) == InOrder(UNION {KeyRows(r) : r \in At(db, SqliteTypes["table"], at)})
SqliteForeignKeys(db, at) == Grouped(UNION {ForeignKeyRows(r) : r \in At(db, SqliteTypes["table"], at)})

-------------------------------------------------------------------------------
(* mysqlconn/information.go: information_schema.                            *)
MysqlSchemas(db) == db.schemas \ {"sys"}

MysqlListTables(db, kind, filter) ==
  Qualified({r \in db.relations :
    r.kind = kind /\ IF filter = {} THEN r.schema # "sys" ELSE r.schema \in filter})

MysqlTableTypeExists(db, kind, at) == At(db, {kind}, at) # {}
MysqlTableOrViewExists(db, at) == At(db, AnyKind, at) # {}

MysqlColumns(db, at) ==
  {[i \in DOMAIN r.columns |->
      LET c == r.columns[i]
      IN [name |-> c.name, pk |-> c.name \in ToSet(r.key), default |-> c.default \/ c.identity # "no",
          readOnly |-> c.generated, generated |-> c.generated]]
     : r \in At(db, AnyKind, at)}
MysqlColumnExists(db, at, column) ==
  \E r \in At(db, AnyKind, at) : \E c \in ToSet(r.columns) : c.name = column

MysqlPrimaryKey(db, at) == InOrder(UNION {KeyRows(r) : r \in At(db, AnyKind, at)})
MysqlForeignKeys(db, at) == Grouped(UNION {ForeignKeyRows(r) : r \in At(db, AnyKind, at)})

MysqlRoutines(db, filter) ==
  {f \in db.routines : f.kind # "other" /\ IF filter = {} THEN f.schema # "sys" ELSE f.schema \in filter}
MysqlRoutineExists(db, at, signature) ==
  \E f \in MysqlRoutines(db, {at.schema}) :
     f.name = at.name /\ (signature # <<>> => signature = <<<<f.schema>> \o f.name, f.args>>)

-------------------------------------------------------------------------------
(* mssqlconn/information.go: the sys views.  "role" stands for guest and    *)
(* the db_* schemas; sys.objects also has functions that return tables.     *)
MssqlSchemas(db) == db.schemas \ {"sys", "role"}

MssqlListObjects(db, kind, filter) ==
  Qualified({r \in db.relations :
    r.kind = kind /\ IF filter = {} THEN r.schema # "sys" ELSE r.schema \in filter})

MssqlObjectExists(db, kind, at) == At(db, {kind}, at) # {}
MssqlTableOrViewExists(db, at) == At(db, {"table", "view"}, at) # {}

MssqlColumns(db, at) ==
  {[i \in DOMAIN r.columns |->
      LET c == r.columns[i]
      IN [name |-> c.name, pk |-> c.name \in ToSet(r.key), default |-> c.default \/ c.identity # "no",
          readOnly |-> c.generated, generated |-> c.generated]]
     : r \in At(db, AnyKind, at)}
MssqlColumnExists(db, at, column) ==
  \E r \in At(db, AnyKind, at) : \E c \in ToSet(r.columns) : c.name = column

MssqlPrimaryKey(db, at) == InOrder(UNION {KeyRows(r) : r \in At(db, {"table"}, at)})
MssqlForeignKeys(db, at) == Grouped(UNION {ForeignKeyRows(r) : r \in At(db, {"table"}, at)})

MssqlRoutines(db, filter) ==
  {f \in db.routines : f.kind # "other" /\ IF filter = {} THEN f.schema # "sys" ELSE f.schema \in filter}
MssqlRoutineExists(db, at, signature) ==
  \E f \in MssqlRoutines(db, {at.schema}) :
     f.name = at.name /\ (signature # <<>> => signature = <<<<f.schema>> \o f.name, f.args>>)

-------------------------------------------------------------------------------
(* oraconn/information.go: the all_* dictionary views.  "sys" stands for    *)
(* the users that Oracle maintains; hidden columns are left out.            *)
OraSchemas(db) == db.schemas \ {"sys"}

OraListObjects(db, kind, filter) ==
  Qualified({r \in db.relations :
    r.kind = kind /\ IF filter = {} THEN r.schema # "sys" ELSE r.schema \in filter})

OraTableExists(db, at) == At(db, {"table"}, at) # {}
OraViewExists(db, at) == At(db, {"view"}, at) # {}
OraTableOrViewExists(db, at) == At(db, {"table", "view"}, at) # {}

OraColumn(r, c) ==
  [name |-> c.name, pk |-> c.name \in ToSet(r.key), default |-> c.default \/ c.generated \/ c.identity # "no",
   readOnly |-> c.generated \/ c.identity # "no", generated |-> c.generated]
OraColumns(db, at) ==
  {[i \in DOMAIN Visible(r) |-> OraColumn(r, Visible(r)[i])] : r \in At(db, {"table", "view"}, at)}
OraColumnExists(db, at, column) ==
  \E r \in At(db, {"table", "view"}, at) : \E c \in ToSet(r.columns) : c.name = column /\ ~c.hidden

OraPrimaryKey(db, at) == InOrder(UNION {KeyRows(r) : r \in At(db, {"table"}, at)})
OraForeignKeys(db, at) == Grouped(UNION {ForeignKeyRows(r) : r \in At(db, {"table"}, at)})

(* Routines of packages have no name of this form. *)
OraRoutines(db, filter) ==
  {f \in db.routines : f.kind # "other" /\ IF filter = {} THEN f.schema # "sys" ELSE f.schema \in filter}
OraRoutineExists(db, at, signature) ==
  \E f \in OraRoutines(db, {at.schema}) :
     f.name = at.name /\ (signature # <<>> => signature = <<<<f.schema>> \o f.name, f.args>>)

-------------------------------------------------------------------------------
(* The query of the driver for each question.                               *)
Schemas(db) ==
  CASE server = "pq" -> PqSchemas(db) [] server = "sqlite" -> SqliteSchemas(db)
    [] server = "mysql" -> MysqlSchemas(db) [] server = "mssql" -> MssqlSchemas(db)
    [] server = "oracle" -> OraSchemas(db)

List(db, kind, filter) ==
  CASE server = "pq" -> PqListRelations(db, kind, filter) [] server = "mysql" -> MysqlListTables(db, kind, filter)
    [] server = "mssql" -> MssqlListObjects(db, kind, filter) [] server = "oracle" -> OraListObjects(db, kind, filter)

KindExists(db, kind, at) ==
  CASE server = "pq" -> PqRelationExists(db, kind, at) [] server = "sqlite" -> SqliteObjectExists(db, kind, at)
    [] server = "mysql" -> MysqlTableTypeExists(db, kind, at) [] server = "mssql" -> MssqlObjectExists(db, kind, at)
    [] server = "oracle" -> IF kind = "table" THEN OraTableExists(db, at) ELSE OraViewExists(db, at)

TableOrViewExists(db, at) ==
  CASE server = "pq" -> PqTableOrViewExists(db, at) [] server = "sqlite" -> SqliteTableOrViewExists(db, at)
    [] server = "mysql" -> MysqlTableOrViewExists(db, at) [] server = "mssql" -> MssqlTableOrViewExists(db, at)
    [] server = "oracle" -> OraTableOrViewExists(db, at)

ColumnLists(db, at) ==
  CASE server = "pq" -> PqColumns(db, at) [] server = "sqlite" -> SqliteColumns(db, at)
    [] server = "mysql" -> MysqlColumns(db, at) [] server = "mssql" -> MssqlColumns(db, at)
    [] server = "oracle" -> OraColumns(db, at)

ColumnFound(db, at, column) ==
  CASE server = "pq" -> PqColumnExists(db, at, column) [] server = "mysql" -> MysqlColumnExists(db, at, column)
    [] server = "mssql" -> MssqlColumnExists(db, at, column) [] server = "oracle" -> OraColumnExists(db, at, column)
    [] server = "sqlite" -> \E cols \in SqliteColumns(db, at) : \E i \in DOMAIN cols : cols[i].name = column

KeyColumns(db, at) ==
  CASE server = "pq" -> PqPrimaryKey(db, at) [] server = "sqlite" -> SqlitePrimaryKey(db, at)
    [] server = "mysql" -> MysqlPrimaryKey(db, at) [] server = "mssql" -> MssqlPrimaryKey(db, at)
    [] server = "oracle" -> OraPrimaryKey(db, at)

References(db, at) ==
  CASE server = "pq" -> PqForeignKeys(db, at) [] server = "sqlite" -> SqliteForeignKeys(db, at)
    [] server = "mysql" -> MysqlForeignKeys(db, at) [] server = "mssql" -> MssqlForeignKeys(db, at)
    [] server = "oracle" -> OraForeignKeys(db, at)

RoutinesOf(db, filter) ==
  LET found == CASE server = "pq" -> PqRoutines(db, filter) [] server = "mysql" -> MysqlRoutines(db, filter)
                 [] server = "mssql" -> MssqlRoutines(db, filter) [] server = "oracle" -> OraRoutines(db, filter)
  IN {<<f.schema>> \o f.name \o <<f.args>> : f \in found}

RoutineFound(db, at, signature) ==
  CASE server = "pq" -> PqRoutineExists(db, at, signature) [] server = "mysql" -> MysqlRoutineExists(db, at, signature)
    [] server = "mssql" -> MssqlRoutineExists(db, at, signature) [] server = "oracle" -> OraRoutineExists(db, at, signature)

-------------------------------------------------------------------------------
(* A call and what it returns: is says what kind of answer of is.           *)
Answer(is, of) == [is |-> is, of |-> of]
None == Answer("none", 0)
NotFound == Answer("sql.ErrNoRows", 0)

NoAsk == [method |-> "none", name |-> <<>>, filter |-> {}, column |-> "", signature |-> <<>>, pc |-> "idle",
          at |-> [schema |-> "", name |-> <<>>], left |-> {}, answer |-> None, trouble |-> FALSE]

InfoInit ==
  /\ server \in DOMAIN Databases
  /\ database \in Databases[server]
  /\ ask = NoAsk
  /\ seen = {}

Answers(answer) == ask' = [ask EXCEPT !.pc = "answered", !.answer = answer]
Querying == UNCHANGED <<server, database, seen>>

(* Schemas, Tables, Views and Routines; for tables and views sqlite has a   *)
(* query per database, and asks for the databases when there is no filter.  *)
AskForList(method, filter) ==
  /\ ask.pc = "idle"
  /\ LET a == [NoAsk EXCEPT !.method = method, !.filter = filter, !.left = filter]
     IN ask' = IF server # "sqlite" \/ method = "Schemas" THEN [a EXCEPT !.pc = "query"]
               ELSE IF method = "Routines" THEN [a EXCEPT !.pc = "answered", !.answer = Answer("unsupported", 0)]
               ELSE [a EXCEPT !.pc = IF filter = {} THEN "schemas" ELSE "list", !.answer = Answer("list", {})]
  /\ seen' = {database}
  /\ UNCHANGED <<server, database>>

(* The methods about one relation or routine; most look up the default      *)
(* schema for a name without schema, the others let the query do it.        *)
LooksUpSchema(method, signature) ==
  /\ server # "sqlite"
  /\ method \in {"Columns", "PrimaryKey", "ForeignKeys"} \/ (method = "RoutineExists" /\ signature # <<>>)

FirstQuery(method) == IF method \in {"PrimaryKey", "ForeignKeys"} THEN "exists" ELSE "query"

AskAbout(method, name, column, signature) ==
  /\ ask.pc = "idle"
  /\ LET split == SplitSchemaName(name)
         a == [NoAsk EXCEPT !.method = method, !.name = name, !.column = column, !.signature = signature, !.at = split]
     IN ask' = IF server = "sqlite" /\ method = "RoutineExists"
               THEN [a EXCEPT !.pc = "answered", !.answer = Answer("unsupported", 0)]
               ELSE [a EXCEPT !.pc = IF split.schema = "" /\ LooksUpSchema(method, signature) THEN "current"
                                     ELSE FirstQuery(method)]
  /\ seen' = {database}
  /\ UNCHANGED <<server, database>>

(* No default schema: NULL cannot be scanned into a string.                 *)
LookUpSchema ==
  /\ ask.pc = "current"
  /\ IF database.current = NoSchema THEN Answers(Answer("failed", 0))
     ELSE ask' = [ask EXCEPT !.at.schema = database.current, !.pc = FirstQuery(ask.method)]
  /\ Querying

CheckTable ==
  /\ ask.pc = "exists"
  /\ IF KindExists(database, "table", Default(database, ask.at)) THEN ask' = [ask EXCEPT !.pc = "query"]
     ELSE Answers(NotFound)
  /\ Querying

(* NULL, for a key that refers to the primary key of a table without saying *)
(* its columns, cannot be scanned into a string.                            *)
ForeignKeys(db, at) ==
  LET fks == References(db, at)
  IN IF \E fk \in fks : "NULL" \in ToSet(fk.to) THEN Answer("failed", 0) ELSE Answer("fks", fks)

Ask ==
  /\ ask.pc = "query"
  /\ LET at == Default(database, ask.at) IN
     \/ ask.method = "Schemas" /\ Answers(Answer("list", {<<schema>> : schema \in Schemas(database)}))
     \/ ask.method \in {"Tables", "Views"} /\
        Answers(Answer("list", List(database, IF ask.method = "Tables" THEN "table" ELSE "view", ask.filter)))
     \/ ask.method = "Routines" /\ Answers(Answer("list", RoutinesOf(database, ask.filter)))
     \/ ask.method = "TableExists" /\ Answers(Answer("bool", KindExists(database, "table", at)))
     \/ ask.method = "ViewExists" /\ Answers(Answer("bool", KindExists(database, "view", at)))
     \/ ask.method = "RoutineExists" /\ Answers(Answer("bool", RoutineFound(database, at, ask.signature)))
     \/ ask.method = "PrimaryKey" /\ Answers(Answer("columns", KeyColumns(database, at)))
     \/ ask.method = "ForeignKeys" /\ Answers(ForeignKeys(database, at))
     \/ /\ ask.method = "Columns"
        /\ LET lists == ColumnLists(database, at) \ {<<>>}
           IN IF lists = {} THEN ask' = [ask EXCEPT !.pc = "either"]
              ELSE Answers(Answer("columns", CHOOSE cols \in lists : TRUE))
     \/ /\ ask.method = "ColumnExists"
        /\ IF ColumnFound(database, at, ask.column) THEN Answers(Answer("bool", TRUE))
           ELSE IF server = "sqlite" /\ ColumnLists(database, at) \ {<<>>} # {} THEN Answers(Answer("bool", FALSE))
           ELSE ask' = [ask EXCEPT !.pc = "either"]
  /\ Querying

(* Nothing found: because there is no such relation?                        *)
CheckEither ==
  /\ ask.pc = "either"
  /\ IF TableOrViewExists(database, Default(database, ask.at))
     THEN Answers(IF ask.method = "Columns" THEN Answer("columns", <<>>) ELSE Answer("bool", FALSE))
     ELSE IF ask.method = "ColumnExists" /\ ask.at.schema = "" /\ server # "sqlite"
     THEN ask' = [ask EXCEPT !.pc = "name"]
     ELSE Answers(NotFound)
  /\ Querying

(* The default schema, for the text of the error. *)
NameRelation ==
  /\ ask.pc = "name"
  /\ Answers(IF database.current = NoSchema THEN Answer("failed", 0) ELSE NotFound)
  /\ Querying

ListDatabases ==
  /\ ask.pc = "schemas"
  /\ ask' = [ask EXCEPT !.left = Schemas(database), !.pc = "list"]
  /\ Querying

ListOfDatabase(schema) ==
  /\ ask.pc = "list" /\ schema \in ask.left
  /\ LET kind == IF ask.method = "Tables" THEN "table" ELSE "view"
         left == ask.left \ {schema}
     IN IF schema \notin database.schemas THEN Answers(Answer("failed", 0))
        ELSE ask' = [ask EXCEPT !.left = left, !.pc = IF left = {} THEN "answered" ELSE "list",
                               !.answer.of = @ \cup SqliteListSchemaObjects(database, kind, schema)]
  /\ Querying

(* A query or the reading of its rows fails. *)
QueryFails ==
  /\ ask.pc \notin {"idle", "answered"}
  /\ ask' = [ask EXCEPT !.pc = "answered", !.answer = Answer("failed", 0), !.trouble = TRUE]
  /\ Querying

NextAsk == ask.pc = "answered" /\ ask' = NoAsk /\ seen' = {} /\ UNCHANGED <<server, database>>

(* Others change what is in the database; the default schema belongs to the *)
(* session, and so do the databases that are attached in SQLite.            *)
SchemaChanges(db) ==
  /\ ask.pc \notin {"idle", "answered"} /\ db.current = database.current
  /\ server = "sqlite" => db.schemas = database.schemas
  /\ database' = db /\ seen' = seen \cup {db}
  /\ UNCHANGED <<server, ask>>

-------------------------------------------------------------------------------
InfoNext ==
  \/ \E method \in {"Tables", "Views", "Routines"}, filter \in Filters : AskForList(method, filter)
  \/ AskForList("Schemas", {})
  \/ \E method \in {"TableExists", "ViewExists", "Columns", "PrimaryKey", "ForeignKeys"} :
       \E name \in RelationNames : AskAbout(method, name, "", <<>>)
  \/ \E name \in RelationNames, column \in ColumnNames : AskAbout("ColumnExists", name, column, <<>>)
  \/ \E name \in RoutineNames, signature \in Signatures : AskAbout("RoutineExists", name, "", signature)
  \/ LookUpSchema \/ CheckTable \/ Ask \/ CheckEither \/ NameRelation \/ ListDatabases
  \/ \E schema \in ask.left : ListOfDatabase(schema)
  \/ QueryFails \/ NextAsk
  \/ \E db \in Databases[server] : SchemaChanges(db)

InfoSpec == InfoInit /\ [][InfoNext]_infoVars

-------------------------------------------------------------------------------
(* What information.go promises of one state of the database.               *)
Shown(db, schema) == schema # "sys" /\ schema \in db.schemas

PromisedList(db) ==
  LET In(schema) == IF ask.filter = {} THEN Shown(db, schema) ELSE schema \in ask.filter
      Kind(r) == r.kind \in (IF ask.method = "Tables" THEN BaseTables ELSE {"view"})
  IN CASE ask.method = "Schemas" -> {<<s>> : s \in {t \in db.schemas : Shown(db, t)}}
       [] ask.method = "Routines" ->
            {<<f.schema>> \o f.name \o <<f.args>> : f \in {g \in db.routines : g.kind # "other" /\ In(g.schema)}}
       [] OTHER -> Qualified({r \in db.relations : Kind(r) /\ In(r.schema)})

Meant(db) == Default(db, SplitSchemaName(ask.name))
Tables(db) == At(db, BaseTables \cup {"internal"}, Meant(db))
(* With the foreign tables, which have columns but no keys. *)
Views(db) == At(db, {"view", "matview", "foreign"}, Meant(db))

(* columninfo.go, with what differs: SQLite tells only DEFAULT clauses,     *)
(* Oracle calls every identity column read-only, and where a generated      *)
(* column counts as one with a default.                                     *)
PromisedColumn(r, c) ==
  [name |-> c.name, pk |-> c.name \in ToSet(r.key),
   default |-> c.default \/ (server # "sqlite" /\ c.identity # "no") \/ (server \in {"pq", "oracle"} /\ c.generated),
   readOnly |-> c.generated \/ (server = "pq" /\ c.identity = "always") \/ (server = "oracle" /\ c.identity # "no"),
   generated |-> c.generated]
PromisedColumns(r) == [i \in DOMAIN Visible(r) |-> PromisedColumn(r, Visible(r)[i])]

PromisedKeys(r) ==
  {[name |-> f.name, columns |-> f.columns, table |-> f.table, to |-> f.to] : f \in r.fks}

(* The answer is the promised one for a relation that must be one of rs.    *)
ForOneOf(rs, Promised(_)) == IF rs = {} THEN ask.answer.is = "sql.ErrNoRows"
                             ELSE \E r \in rs : ask.answer.is = Promised(r).is /\ ask.answer.of = Promised(r).of

Kept(db) ==
  CASE ask.method = "TableExists" -> ask.answer.of <=> Tables(db) # {}
    [] ask.method = "ViewExists" -> ask.answer.of <=> At(db, {"view"}, Meant(db)) # {}
    [] ask.method = "Columns" ->
         ForOneOf(Tables(db) \cup Views(db), LAMBDA r : Answer("columns", PromisedColumns(r)))
    [] ask.method = "ColumnExists" ->
         ForOneOf(Tables(db) \cup Views(db), LAMBDA r : Answer("bool",
           \E c \in ToSet(r.columns) : c.name = ask.column /\ ~c.hidden))
    [] ask.method = "PrimaryKey" -> ForOneOf(Tables(db), LAMBDA r : Answer("columns", r.key))
    [] ask.method = "ForeignKeys" -> ForOneOf(Tables(db), LAMBDA r : Answer("fks", PromisedKeys(r)))
    [] ask.method = "RoutineExists" ->
         ask.answer.of <=> \E f \in db.routines :
           /\ f.kind # "other" /\ f.schema = Meant(db).schema /\ f.name = Meant(db).name
           /\ ask.signature # <<>> => ask.signature = <<<<f.schema>> \o f.name, f.args>>

(* What the code tells of other relations with columns, such as indexes.    *)
OfAnotherKind(db) ==
  /\ ask.method \in {"Columns", "ColumnExists"}
  /\ At(db, AnyKind, Meant(db)) \ (Tables(db) \cup Views(db)) # {}

(* The relation came or went between two queries of the call, and the       *)
(* answer is that of an empty one.                                          *)
CameOrWent ==
  /\ \E db \in seen : Tables(db) \cup Views(db) = {} \/ (ask.method \in {"PrimaryKey", "ForeignKeys"} /\ Tables(db) = {})
  /\ \E db \in seen : Tables(db) \cup Views(db) # {}
  /\ \/ ask.answer.is = "columns" /\ ask.answer.of = <<>>
     \/ ask.answer.is = "fks" /\ ask.answer.of = {}
     \/ ask.method = "ColumnExists" /\ ask.answer.is = "bool" /\ ~ask.answer.of

FailsForAReason ==
  \/ ask.trouble
  \/ \E db \in seen : db.current = NoSchema
  \/ ask.method = "ForeignKeys" /\ \E db \in seen : \E r \in Tables(db) : \E f \in r.fks : f.to = <<>>
  \/ server = "sqlite" /\ \E db \in seen : ask.filter \ db.schemas # {}

(* information.go: what a method answers is true of the database at some    *)
(* moment of the call, however the schema changes between its queries: of   *)
(* listed names for each schema, of a relation the columns, the key in the  *)
(* order of its constraint, the foreign keys with their columns paired, and *)
(* sql.ErrNoRows only when there is no such relation; and it fails only     *)
(* when a query does.  Two kinds of answers are not claimed to be true:     *)
(* that of an empty relation when the relation came or went meanwhile       *)
(* (CameOrWent), and what Columns and ColumnExists tell of a relation that  *)
(* is neither a table nor a view (OfAnotherKind).                           *)
AnswersAreTrue ==
  ask.pc = "answered" =>
    CASE ask.answer.is = "failed" -> FailsForAReason
      [] ask.answer.is = "unsupported" -> server = "sqlite"
      [] ask.answer.is = "list" ->
           \A schema \in UNION {db.schemas : db \in seen} : schema # "role" =>
             \E db \in seen : {x \in ask.answer.of : x[1] = schema} = {x \in PromisedList(db) : x[1] = schema}
      [] OTHER -> CameOrWent \/ \E db \in seen : Kept(db) \/ OfAnotherKind(db)

===============================================================================
