------------------------------- MODULE MCQueries -------------------------------
(***************************************************************************)
(* Instances of the modules about queries for TLC: RowLoops, BatchWrites,  *)
(* QueryCache, SqliteStatements, Dialects, DriverErrors, DropAll,          *)
(* Information and ScanValues.  They share no state: part says whose steps *)
(* a behaviour takes, the variables of the others keep their first values. *)
(***************************************************************************)
EXTENDS RowLoops, BatchWrites, QueryCache, SqliteStatements, Dialects, DriverErrors, DropAll,
        Information, ScanValues, TLC

CONSTANTS
  Parts,  \* the modules that are checked together
  select, insert, h1, h2

VARIABLE part

queriesVars ==
  <<part, loopVars, batchVars, cacheVars, vars, dialectVars, errorVars, dropVars,
    infoVars, scanVars>>

(* A key of one column out of order, a key of two; another unique column. *)
MCColumns == <<"a", "id", "u">>
MCKey == [pk |-> {"id"}, other |-> {"u"}]
MCKeys == {MCKey, [pk |-> {"a", "id"}, other |-> {"u"}]}
MCWheres == {<<>>, <<"id">>, <<"u", "a">>}

(* An empty database; two tables that refer to each other, with a view     *)
(* bound to one; tables with one that others refer to, and types that are  *)
(* used by tables and by a type.                                           *)
NothingIn == [objects |-> [o \in {} |-> "table"], refs |-> {}, uses |-> {}]
CircularTables ==
  [objects |-> "t1" :> "table" @@ "t2" :> "table" @@ "y" :> "type" @@ "v" :> "view" @@ "s" :> "sequence",
   refs |-> {<<"t1", "t2">>, <<"t2", "t1">>}, uses |-> {<<"t1", "y">>, <<"v", "t2">>}]
ThreeTables ==
  [objects |-> "t1" :> "table" @@ "t2" :> "table" @@ "t3" :> "table" @@ "y" :> "type" @@ "z" :> "type",
   refs |-> {<<"t1", "t2">>, <<"t3", "t3">>}, uses |-> {<<"t2", "y">>, <<"t3", "y">>, <<"z", "y">>}]
MCCatalogs == {NothingIn, CircularTables, ThreeTables}

(* A column, a relation and a routine of the catalogs of Information. *)
InfoColumn(name, default, identity, generated, hidden) ==
  [name |-> name, default |-> default, identity |-> identity, generated |-> generated, hidden |-> hidden]
Plain(name) == InfoColumn(name, FALSE, "no", FALSE, FALSE)
Relation(schema, name, kind, columns, key, fks) ==
  [schema |-> schema, name |-> <<name>>, kind |-> kind, columns |-> columns, key |-> key, fks |-> fks]
Routine(schema, name, args, kind) == [schema |-> schema, name |-> <<name>>, args |-> args, kind |-> kind]

(* What each server has besides: another kind of relation, schemas of its own. *)
OtherKinds == [pq |-> "index", sqlite |-> "internal", mysql |-> "sequence", mssql |-> "function", oracle |-> "index"]
OtherSchemas ==
  [pq |-> {"sys"}, sqlite |-> {"temp"}, mysql |-> {"sys"}, mssql |-> {"sys", "role"}, oracle |-> {"sys"}]

AllColumns(srv) ==
  <<InfoColumn("id", FALSE, IF srv \in {"pq", "oracle"} THEN "always" ELSE "byDefault", FALSE, FALSE),
    InfoColumn("b", TRUE, "no", FALSE, FALSE), InfoColumn("h", FALSE, "no", FALSE, srv \in {"pq", "oracle"}),
    InfoColumn("n", FALSE, IF srv \in {"pq", "oracle"} THEN "byDefault" ELSE "no", FALSE, FALSE),
    InfoColumn("g", FALSE, "no", TRUE, FALSE)>>

(* Foreign keys: of two columns in another order, to the own table, without columns. *)
Composite == [name |-> "fk1", columns |-> <<"b", "id">>, table |-> <<"s2", "p">>, to |-> <<"y", "x">>]
SelfRef == [name |-> "fk2", columns |-> <<"n">>, table |-> <<"main", "t">>, to |-> <<"id">>]
Implicit == [name |-> "fk3", columns |-> <<"b">>, table |-> <<"s2", "p">>, to |-> <<>>]

Parent(srv, key) ==
  Relation("s2", "p", IF srv = "pq" THEN "partitioned" ELSE "table", <<Plain("x"), Plain("y")>>, key, {})

FullDatabase(srv) ==
  [current |-> "main", schemas |-> {"main", "s2"} \cup OtherSchemas[srv],
   relations |->
     {Relation("main", "t", "table", AllColumns(srv), <<"b", "id">>, {Composite, SelfRef}),
      Parent(srv, <<"y", "x">>),
      Relation("main", "v", "view", <<Plain("id")>>, <<>>, {}),
      Relation("main", "i", OtherKinds[srv], <<Plain("id")>>, <<>>, {})}
     \cup {Relation(schema, "c", "table", <<Plain("id")>>, <<>>, {}) : schema \in OtherSchemas[srv]},
   routines |-> {f \in {Routine("main", "f", <<"int">>, "function"), Routine("s2", "f", <<>>, "procedure"),
                          Routine("main", "a", <<>>, "other"), Routine("sys", "f", <<>>, "function")} : srv # "sqlite"}
                \cup (IF srv = "pq" THEN {Routine("main", "f", <<"text">>, "function")} ELSE {})]

(* The table became a view, the parent moved; *)
ChangedDatabase(srv) ==
  [FullDatabase(srv) EXCEPT
     !.relations = {Relation("main", "t", "view", <<Plain("id")>>, <<>>, {}),
                    [Relation("main", "p", "table", IF srv = "pq" THEN <<>> ELSE <<Plain("b")>>, <<>>,
                              IF srv = "sqlite" THEN {Implicit} ELSE {}) EXCEPT !.name = <<"s2", "p">>]},
     !.routines = {f \in {Routine("main", "f", <<>>, "function")} : srv # "sqlite"}]

(* the table got another key and lost columns, and a foreign table is where the view was. *)
KeylessDatabase(srv) ==
  [FullDatabase(srv) EXCEPT
     !.relations = {Relation("main", "t", "table", <<Plain("b"), Plain("id")>>, <<"id">>, {Composite}), Parent(srv, <<>>)}
                   \cup (IF srv = "pq" THEN {Relation("main", "v", "foreign", <<Plain("id")>>, <<>>, {})} ELSE {})]

NoDefault(srv) == IF srv \in {"pq", "mysql"} THEN {[KeylessDatabase(srv) EXCEPT !.current = "NULL"]} ELSE {}
MCDatabases ==
  [srv \in DOMAIN OtherKinds |->
     {FullDatabase(srv), ChangedDatabase(srv), KeylessDatabase(srv)} \cup NoDefault(srv)]
MCFilters == {{}, {"main"}, {"main", "s2"}, {"sys"}}
MCRelationNames == {<<"t">>, <<"main", "t">>, <<"v">>, <<"i">>, <<"main", "s2", "p">>, <<"s2", "p">>}
MCRoutineNames == {<<"f">>, <<"s2", "f">>, <<"a">>}
MCSignatures == {<<>>, <<<<"main", "f">>, <<"int">>>>, <<<<"f">>, <<"int">>>>, <<<<"s2", "f">>, <<>>>>}

QueriesInit ==
  /\ part \in Parts
  /\ LoopInit /\ BatchInit /\ CacheInit /\ Init /\ DialectsInit /\ ErrorsInit /\ DropInit
  /\ InfoInit /\ ScanInit
  /\ part # "cache" => config = 1 /\ uses = {<<"insert", 1>>, <<"update", 1>>}
  /\ part # "dialects" => dialect = "pq" /\ keys = MCKey
  /\ part # "drop" => catalog = NothingIn
  /\ part # "information" => server = "pq" /\ database = FullDatabase("pq")

QueriesNext ==
  \/ /\ part = "rows" /\ LoopNext
     /\ UNCHANGED <<part, batchVars, cacheVars, vars, dialectVars, errorVars, dropVars, infoVars, scanVars>>
  \/ /\ part = "batch" /\ BatchNext
     /\ UNCHANGED <<part, loopVars, cacheVars, vars, dialectVars, errorVars, dropVars, infoVars, scanVars>>
  \/ /\ part = "cache" /\ CacheNext
     /\ UNCHANGED <<part, loopVars, batchVars, vars, dialectVars, errorVars, dropVars, infoVars, scanVars>>
  \/ /\ part = "sqlite" /\ Next
     /\ UNCHANGED <<part, loopVars, batchVars, cacheVars, dialectVars, errorVars, dropVars, infoVars, scanVars>>
  \/ /\ part = "dialects" /\ DialectsNext
     /\ UNCHANGED <<part, loopVars, batchVars, cacheVars, vars, errorVars, dropVars, infoVars, scanVars>>
  \/ /\ part = "errors" /\ ErrorsNext
     /\ UNCHANGED <<part, loopVars, batchVars, cacheVars, vars, dialectVars, dropVars, infoVars, scanVars>>
  \/ /\ part = "drop" /\ DropNext
     /\ UNCHANGED <<part, loopVars, batchVars, cacheVars, vars, dialectVars, errorVars, infoVars, scanVars>>
  \/ /\ part = "information" /\ InfoNext
     /\ UNCHANGED <<part, loopVars, batchVars, cacheVars, vars, dialectVars, errorVars, dropVars, scanVars>>
  \/ /\ part = "scan" /\ ScanNext
     /\ UNCHANGED <<part, loopVars, batchVars, cacheVars, vars, dialectVars, errorVars, dropVars, infoVars>>

QueriesSpec == QueriesInit /\ [][QueriesNext]_queriesVars

-------------------------------------------------------------------------------
(* No cap (twice), nothing, one row and two. *)
MCCaps == {-2, -1, 0, 1, 2}

(* With six arguments: a single row, one batch, batches with and without    *)
(* remainder, no column and more columns than arguments.                    *)
MCSlices == {0, 1, 2, 3, 5, 6, 7}
MCColumnCounts == {0, 1, 2, 3, 7}

Col(name, pk, readOnly, wrapped) ==
  [name |-> name, pk |-> pk, readOnly |-> readOnly, wrapped |-> wrapped]

(* A struct with two keys out of order and a field that a type wrapper      *)
(* handles, one with a duplicate column, one of keys alone.                 *)
MCLayouts ==
  << <<Col("a", FALSE, FALSE, FALSE), Col("id", TRUE, FALSE, FALSE), Col("t", FALSE, TRUE, FALSE),
       Col("k", TRUE, FALSE, FALSE), Col("b", FALSE, FALSE, TRUE)>>,
     <<Col("a", FALSE, FALSE, FALSE), Col("a", FALSE, FALSE, FALSE)>>,
     <<Col("id", TRUE, FALSE, FALSE)>> >>

(* One function on two connections, or two functions on one. *)
MCUses ==
  {{<<k, 1>>, <<k, 2>>} : k \in Kinds}
  \cup {{<<"insert", 1>>, <<"update", 1>>}, {<<"upsert", 1>>, <<"delete", 1>>}, {<<"queryRow", 1>>, <<"insert", 1>>}}

(* A query with two rows and a statement without rows. *)
TwoRowsOrNone == (select :> 2) @@ (insert :> 0)

(* No argument, two, two of which the first is a driver.Valuer, and two of *)
(* which the second cannot be bound.                                       *)
BadValue == 9
FewArgs == {<<>>, <<1, 2>>, <<7, 2>>, <<2, 9>>}

(* A table or constraint named like what the drivers look for in messages. *)
MCNames == {{}, {"unique"}, {"check"}, {"foreign_key"}}

===============================================================================
