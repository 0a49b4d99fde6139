-------------------------- MODULE InformationProofs --------------------------
(***************************************************************************)
(* Proofs about module Information, for any databases, names and filters:  *)
(* what the queries of each driver tell of one state of the database, and  *)
(* that the queries of a call together answer truly.                       *)
(***************************************************************************)
EXTENDS Information, InductionLemmas

(* Rows with the places 1 to n, as many as there are places.                *)
Placed(row, n) == DOMAIN row = 1..n /\ \A i \in 1..n : row[i].at = i

LEMMA RowsCounted ==
  ASSUME NEW n \in Nat, NEW row, Placed(row, n)
  PROVE  Cardinality({row[i] : i \in 1..n}) = n
<1> DEFINE f == [i \in 1..n |-> row[i]]
           S == {row[i] : i \in 1..n}
<1>1. \A i, j \in 1..n : f[i] = f[j] => i = j
  BY DEF Placed
<1>2. f \in Injection(1..n, S)
  BY <1>1 DEF Injection, IsInjective
<1>3. f \in Surjection(1..n, S)
  BY DEF Surjection
<1>4. f \in Bijection(1..n, S)
  BY <1>2, <1>3 DEF Bijection
<1> QED BY <1>4, FS_CountingElements DEF ExistsBijection

LEMMA InOrderIs ==
  ASSUME NEW n \in Nat, NEW row, Placed(row, n), NEW rows, rows = {row[i] : i \in 1..n}
  PROVE  InOrder(rows) = [i \in 1..n |-> row[i].name]
<1>1. Cardinality(rows) = n
  BY RowsCounted
<1>2. ASSUME NEW i \in 1..n PROVE Cardinality({o \in rows : o.at <= i}) = i
  <2> DEFINE first == [j \in 1..i |-> row[j]]
  <2>1. i \in Nat /\ \A j \in 1..i : j \in 1..n
    OBVIOUS
  <2>2. Placed(first, i)
    BY <2>1 DEF Placed
  <2>3. {o \in rows : o.at <= i} = {first[j] : j \in 1..i}
    <3>1. ASSUME NEW o \in rows, o.at <= i PROVE o \in {first[j] : j \in 1..i}
      <4>1. PICK j \in 1..n : o = row[j]
        OBVIOUS
      <4>2. j \in 1..i
        BY <4>1, <3>1 DEF Placed
      <4> QED BY <4>1, <4>2
    <3>2. ASSUME NEW j \in 1..i PROVE first[j] \in rows /\ first[j].at <= i
      BY <2>1 DEF Placed
    <3> HIDE DEF first
    <3> QED BY <3>1, <3>2
  <2> HIDE DEF first
  <2> QED BY <2>1, <2>2, <2>3, RowsCounted
<1>3. ASSUME NEW i \in 1..n PROVE (CHOOSE o \in rows : Cardinality({p \in rows : p.at <= o.at}) = i) = row[i]
  <2>1. \A j \in 1..n : Cardinality({p \in rows : p.at <= row[j].at}) = j
    BY <1>2 DEF Placed
  <2>2. \A o \in rows : Cardinality({p \in rows : p.at <= o.at}) = i <=> o = row[i]
    <3>1. ASSUME NEW o \in rows PROVE Cardinality({p \in rows : p.at <= o.at}) = i <=> o = row[i]
      <4>1. PICK j \in 1..n : o = row[j]
        OBVIOUS
      <4>2. Cardinality({p \in rows : p.at <= o.at}) = j
        BY <2>1, <4>1
      <4>3. row[i] = row[j] => i = j
        BY DEF Placed
      <4> QED BY <4>1, <4>2, <4>3
    <3> QED BY <3>1
  <2>3. row[i] \in rows
    OBVIOUS
  <2> QED BY <2>2, <2>3
<1>4. InOrder(rows) = [i \in 1..n |-> (CHOOSE o \in rows : Cardinality({p \in rows : p.at <= o.at}) = i).name]
  BY <1>1, Zenon DEF InOrder
<1> QED BY <1>3, <1>4, Zenon

-------------------------------------------------------------------------------
(* What each server can have at a name.                                     *)
Servers == {"pq", "sqlite", "mysql", "mssql", "oracle"}
TablesAt(db, at) == At(db, BaseTables \cup {"internal"}, at)
ViewsAt(db, at) == At(db, {"view", "matview", "foreign"}, at)
RelationsAt(db, at) == At(db, AnyKind, at)

LEMMA KindsAre ==
  /\ DOMAIN RelationKinds = Servers
  /\ \A srv \in Servers : /\ RelationKinds[srv] \subseteq AnyKind
                          /\ srv # "pq" => {"partitioned", "matview", "foreign"} \cap RelationKinds[srv] = {}
                          /\ srv # "sqlite" => "internal" \notin RelationKinds[srv]
                          /\ srv = "sqlite" => RelationKinds[srv] = {"table", "internal", "view"}
<1>1. DOMAIN RelationKinds = Servers
  BY DEF RelationKinds, Servers
<1>2. /\ RelationKinds["pq"] = {"table", "partitioned", "foreign", "view", "matview", "index", "sequence"}
      /\ RelationKinds["sqlite"] = {"table", "internal", "view"}
      /\ RelationKinds["mysql"] = {"table", "view", "sequence"}
      /\ RelationKinds["mssql"] = {"table", "view", "function"}
      /\ RelationKinds["oracle"] = {"table", "view", "index"}
  BY DEF RelationKinds
<1> QED BY <1>1, <1>2 DEF Servers, AnyKind

LEMMA RelationIs ==
  ASSUME server \in Servers, NEW db, IsDatabase(server, db), NEW r \in db.relations
  PROVE  /\ r.kind \in RelationKinds[server] /\ r.kind \in AnyKind
         /\ server # "pq" => r.kind \notin {"partitioned", "matview", "foreign"}
         /\ server # "sqlite" => r.kind # "internal"
         /\ server = "sqlite" => r.kind \in {"table", "internal", "view"}
BY KindsAre DEF IsDatabase, IsRelation

LEMMA KindExistsIs ==
  ASSUME server \in Servers, NEW db, IsDatabase(server, db), NEW at
  PROVE  /\ KindExists(db, "table", at) <=> TablesAt(db, at) # {}
         /\ KindExists(db, "view", at) <=> At(db, {"view"}, at) # {}
<1>1. ASSUME NEW kinds, \A r \in db.relations : r.kind \in kinds <=> r.kind \in BaseTables \cup {"internal"}
      PROVE  At(db, kinds, at) = TablesAt(db, at)
  BY <1>1 DEF At, TablesAt
<1>2. \A r \in db.relations :
        /\ server # "pq" => r.kind \notin {"partitioned", "matview", "foreign"}
        /\ server # "sqlite" => r.kind # "internal"
  BY RelationIs
<1>3. CASE server = "pq"
  <2>1. At(db, {"table", "partitioned"}, at) = TablesAt(db, at)
    BY <1>1, <1>2, <1>3 DEF BaseTables
  <2> QED BY <1>3, <2>1 DEF KindExists, PqRelationExists, PqRelkinds
<1>4. CASE server = "sqlite"
  <2>1. At(db, {"table", "internal"}, at) = TablesAt(db, at)
    BY <1>1, <1>2, <1>4 DEF BaseTables
  <2> QED BY <1>4, <2>1 DEF KindExists, SqliteObjectExists, SqliteTypes
<1>5. CASE server \in {"mysql", "mssql", "oracle"}
  <2>1. At(db, {"table"}, at) = TablesAt(db, at)
    BY <1>1, <1>2, <1>5 DEF BaseTables
  <2> QED BY <1>5, <2>1 DEF KindExists, MysqlTableTypeExists, MssqlObjectExists, OraTableExists, OraViewExists
<1> QED BY <1>3, <1>4, <1>5 DEF Servers

LEMMA EitherIs ==
  ASSUME server \in Servers, NEW db, IsDatabase(server, db), NEW at
  PROVE  /\ TableOrViewExists(db, at) => RelationsAt(db, at) # {}
         /\ TablesAt(db, at) \cup ViewsAt(db, at) # {} => TableOrViewExists(db, at)
<1>1. \A r \in db.relations :
        /\ r.kind \in AnyKind
        /\ server # "pq" => r.kind \notin {"partitioned", "matview", "foreign"}
        /\ server # "sqlite" => r.kind # "internal"
  BY RelationIs
<1>2. PICK kinds : /\ TableOrViewExists(db, at) <=> At(db, kinds, at) # {}
                   /\ \A r \in db.relations : r.kind \in BaseTables \cup {"internal", "view", "matview", "foreign"} => r.kind \in kinds
  <2>1. CASE server = "pq"
    <3> DEFINE k == {"table", "view", "matview", "foreign", "partitioned"}
    <3>1. TableOrViewExists(db, at) <=> At(db, k, at) # {}
      BY <2>1 DEF TableOrViewExists, PqTableOrViewExists
    <3>2. \A r \in db.relations : r.kind \in BaseTables \cup {"internal", "view", "matview", "foreign"} => r.kind \in k
      BY <1>1, <2>1 DEF BaseTables
    <3> QED BY <3>1, <3>2
  <2>2. CASE server = "sqlite"
    <3> DEFINE k == {"table", "internal", "view"}
    <3>1. TableOrViewExists(db, at) <=> At(db, k, at) # {}
      BY <2>2 DEF TableOrViewExists, SqliteTableOrViewExists
    <3>2. \A r \in db.relations : r.kind \in BaseTables \cup {"internal", "view", "matview", "foreign"} => r.kind \in k
      BY <1>1, <2>2 DEF BaseTables
    <3> QED BY <3>1, <3>2
  <2>3. CASE server = "mysql"
    <3>1. TableOrViewExists(db, at) <=> At(db, AnyKind, at) # {}
      BY <2>3 DEF TableOrViewExists, MysqlTableOrViewExists
    <3> QED BY <1>1, <3>1
  <2>4. CASE server \in {"mssql", "oracle"}
    <3> DEFINE k == {"table", "view"}
    <3>1. TableOrViewExists(db, at) <=> At(db, k, at) # {}
      BY <2>4 DEF TableOrViewExists, MssqlTableOrViewExists, OraTableOrViewExists
    <3>2. \A r \in db.relations : r.kind \in BaseTables \cup {"internal", "view", "matview", "foreign"} => r.kind \in k
      BY <1>1, <2>4 DEF BaseTables
    <3> QED BY <3>1, <3>2
  <2> QED BY <2>1, <2>2, <2>3, <2>4 DEF Servers
<1>3. At(db, kinds, at) \subseteq RelationsAt(db, at)
  BY <1>1 DEF At, RelationsAt
<1>4. TablesAt(db, at) \cup ViewsAt(db, at) \subseteq At(db, kinds, at)
  BY <1>2 DEF At, TablesAt, ViewsAt
<1> QED BY <1>2, <1>3, <1>4

-------------------------------------------------------------------------------
(* The columns of a relation, as each driver tells them.                    *)
LEMMA VisibleIs ==
  ASSUME NEW r, IsRelation(server, r)
  PROVE  /\ Visible(r) \in Seq(CatalogColumns)
         /\ server \notin {"pq", "oracle"} => Visible(r) = r.columns
<1>1. r.columns \in Seq(CatalogColumns)
  BY DEF IsRelation
<1>2. Visible(r) \in Seq(CatalogColumns)
  <2> DEFINE S == {c \in ToSet(r.columns) : ~c.hidden}
  <2> HIDE DEF S
  <2>1. Selected(r.columns, S) \in Seq(CatalogColumns \cap S)
    BY <1>1, SelectedIsASequence
  <2>2. ASSUME NEW s \in Seq(CatalogColumns \cap S) PROVE s \in Seq(CatalogColumns)
    OBVIOUS
  <2>3. Visible(r) = Selected(r.columns, S)
    BY DEF Visible, S
  <2> QED BY <2>1, <2>2, <2>3
<1>3. ASSUME server \notin {"pq", "oracle"} PROVE Visible(r) = r.columns
  <2>1. \A i \in 1..Len(r.columns) : r.columns[i] \in ToSet(r.columns) /\ ~r.columns[i].hidden
    BY <1>1, <1>3 DEF IsRelation, ToSet
  <2> QED BY <1>1, <2>1, AllSelected DEF Visible
<1> QED BY <1>2, <1>3

LEMMA ColumnIs ==
  ASSUME NEW r, NEW c \in CatalogColumns
  PROVE  /\ server = "pq" => PqColumn(r, c) = PromisedColumn(r, c)
         /\ server = "oracle" => OraColumn(r, c) = PromisedColumn(r, c)
         /\ server = "sqlite" => [name |-> c.name, pk |-> c.name \in ToSet(r.key), default |-> c.default,
                                  readOnly |-> c.generated, generated |-> c.generated] = PromisedColumn(r, c)
         /\ server \in {"mysql", "mssql"} =>
              [name |-> c.name, pk |-> c.name \in ToSet(r.key), default |-> c.default \/ c.identity # "no",
               readOnly |-> c.generated, generated |-> c.generated] = PromisedColumn(r, c)
<1>1. c.default \in BOOLEAN /\ c.generated \in BOOLEAN
  BY DEF CatalogColumns
<1>2. CASE server = "pq"
  BY <1>1, <1>2 DEF PqColumn, PromisedColumn
<1>3. CASE server = "oracle"
  BY <1>1, <1>3 DEF OraColumn, PromisedColumn
<1>4. CASE server = "sqlite"
  BY <1>1, <1>4 DEF PromisedColumn
<1>5. CASE server \in {"mysql", "mssql"}
  BY <1>1, <1>5 DEF PromisedColumn
<1> QED BY <1>2, <1>3, <1>4, <1>5

LEMMA ColumnsAre ==
  ASSUME server \in Servers, NEW db, IsDatabase(server, db), NEW at
  PROVE  /\ \A cols \in ColumnLists(db, at) : \E r \in RelationsAt(db, at) : cols = PromisedColumns(r)
         /\ \A r \in TablesAt(db, at) \cup ViewsAt(db, at) : PromisedColumns(r) \in ColumnLists(db, at)
<1> DEFINE asked == IF server = "sqlite" THEN {"table", "internal", "view"}
                    ELSE IF server = "oracle" THEN {"table", "view"} ELSE AnyKind
<1>1. ASSUME NEW r \in db.relations
      PROVE  /\ Visible(r) \in Seq(CatalogColumns)
             /\ server \notin {"pq", "oracle"} => Visible(r) = r.columns
  BY VisibleIs DEF IsDatabase
<1>2. ColumnLists(db, at) = {PromisedColumns(r) : r \in At(db, asked, at)}
  <2>1. \A r \in At(db, asked, at) : r \in db.relations
    BY DEF At
  <2>2. CASE server = "pq"
    <3>1. ASSUME NEW r \in At(db, asked, at)
          PROVE  [i \in DOMAIN Visible(r) |-> PqColumn(r, Visible(r)[i])] = PromisedColumns(r)
      <4>1. \A i \in DOMAIN Visible(r) : PqColumn(r, Visible(r)[i]) = PromisedColumn(r, Visible(r)[i])
        BY <1>1, <2>1, <2>2, ColumnIs
      <4> QED BY <4>1, Zenon DEF PromisedColumns
    <3> QED BY <2>2, <3>1 DEF ColumnLists, PqColumns
  <2>3. CASE server = "oracle"
    <3>1. ASSUME NEW r \in At(db, asked, at)
          PROVE  [i \in DOMAIN Visible(r) |-> OraColumn(r, Visible(r)[i])] = PromisedColumns(r)
      <4>1. \A i \in DOMAIN Visible(r) : OraColumn(r, Visible(r)[i]) = PromisedColumn(r, Visible(r)[i])
        BY <1>1, <2>1, <2>3, ColumnIs
      <4> QED BY <4>1, Zenon DEF PromisedColumns
    <3> QED BY <2>3, <3>1 DEF ColumnLists, OraColumns
  <2>4. CASE server = "sqlite"
    <3> DEFINE Told(r, c) == [name |-> c.name, pk |-> c.name \in ToSet(r.key), default |-> c.default,
                              readOnly |-> c.generated, generated |-> c.generated]
    <3>1. ASSUME NEW r \in At(db, asked, at)
          PROVE  [i \in DOMAIN r.columns |-> Told(r, r.columns[i])] = PromisedColumns(r)
      <4>1. \A i \in DOMAIN Visible(r) : Told(r, Visible(r)[i]) = PromisedColumn(r, Visible(r)[i])
        <5>1. ASSUME NEW c \in CatalogColumns PROVE Told(r, c) = PromisedColumn(r, c)
          BY <2>4, ColumnIs
        <5> HIDE DEF Told
        <5> QED BY <1>1, <2>1, <5>1
      <4>2. Visible(r) = r.columns
        BY <1>1, <2>1, <2>4
      <4> HIDE DEF Told
      <4> QED BY <4>1, <4>2, Zenon DEF PromisedColumns
    <3>2. ColumnLists(db, at) = {[i \in DOMAIN r.columns |-> Told(r, r.columns[i])] : r \in At(db, asked, at)}
      BY <2>4, Zenon DEF ColumnLists, SqliteColumns
    <3> HIDE DEF Told, asked
    <3> QED BY <3>1, <3>2
  <2>5. CASE server \in {"mysql", "mssql"}
    <3> DEFINE Told(r, c) == [name |-> c.name, pk |-> c.name \in ToSet(r.key), default |-> c.default \/ c.identity # "no",
                              readOnly |-> c.generated, generated |-> c.generated]
    <3>1. ASSUME NEW r \in At(db, asked, at)
          PROVE  [i \in DOMAIN r.columns |-> Told(r, r.columns[i])] = PromisedColumns(r)
      <4>1. \A i \in DOMAIN Visible(r) : Told(r, Visible(r)[i]) = PromisedColumn(r, Visible(r)[i])
        <5>1. ASSUME NEW c \in CatalogColumns PROVE Told(r, c) = PromisedColumn(r, c)
          BY <2>5, ColumnIs
        <5> HIDE DEF Told
        <5> QED BY <1>1, <2>1, <5>1
      <4>2. Visible(r) = r.columns
        BY <1>1, <2>1, <2>5
      <4> HIDE DEF Told
      <4> QED BY <4>1, <4>2, Zenon DEF PromisedColumns
    <3>2. ColumnLists(db, at) = {[i \in DOMAIN r.columns |-> Told(r, r.columns[i])] : r \in At(db, asked, at)}
      <4>1. CASE server = "mysql"
        BY <4>1, Zenon DEF ColumnLists, MysqlColumns
      <4>2. CASE server = "mssql"
        BY <4>2, Zenon DEF ColumnLists, MssqlColumns
      <4> QED BY <2>5, <4>1, <4>2
    <3> HIDE DEF Told, asked
    <3> QED BY <3>1, <3>2
  <2> QED BY <2>2, <2>3, <2>4, <2>5 DEF Servers
<1>3. \A r \in db.relations :
        /\ r.kind \in AnyKind
        /\ server # "pq" => r.kind \notin {"partitioned", "matview", "foreign"}
        /\ server # "sqlite" => r.kind # "internal"
        /\ server = "sqlite" => r.kind \in {"table", "internal", "view"}
  BY RelationIs
<1>4. At(db, asked, at) \subseteq RelationsAt(db, at)
  BY <1>3 DEF At, RelationsAt
<1>5. TablesAt(db, at) \cup ViewsAt(db, at) \subseteq At(db, asked, at)
  BY <1>3 DEF At, TablesAt, ViewsAt, BaseTables
<1> HIDE DEF asked
<1> QED BY <1>2, <1>4, <1>5

(* Whether there is such a column.                                          *)
HasColumn(r, column) == \E c \in ToSet(r.columns) : c.name = column /\ ~c.hidden

LEMMA ColumnFoundIs ==
  ASSUME server \in Servers, NEW db, IsDatabase(server, db), NEW at, NEW column
  PROVE  /\ ColumnFound(db, at, column) => \E r \in RelationsAt(db, at) : HasColumn(r, column)
         /\ ~ColumnFound(db, at, column) => \A r \in TablesAt(db, at) \cup ViewsAt(db, at) : ~HasColumn(r, column)
<1> DEFINE asked == IF server = "sqlite" THEN {"table", "internal", "view"}
                    ELSE IF server = "oracle" THEN {"table", "view"} ELSE AnyKind
<1>1. ColumnFound(db, at, column) <=> \E r \in At(db, asked, at) : HasColumn(r, column)
  <2>1. ASSUME NEW r \in db.relations, server \notin {"pq", "oracle"}
        PROVE  \A c \in ToSet(r.columns) : ~c.hidden
    BY <2>1 DEF IsDatabase, IsRelation, ToSet
  <2>2. \A r \in At(db, asked, at) : r \in db.relations
    BY DEF At
  <2>3. CASE server = "pq"
    BY <2>3 DEF ColumnFound, PqColumnExists, HasColumn
  <2>4. CASE server = "oracle"
    BY <2>4 DEF ColumnFound, OraColumnExists, HasColumn
  <2>5. CASE server = "mysql"
    <3>1. ColumnFound(db, at, column) <=> \E r \in At(db, AnyKind, at) : \E c \in ToSet(r.columns) : c.name = column
      BY <2>5 DEF ColumnFound, MysqlColumnExists
    <3> QED BY <2>1, <2>2, <2>5, <3>1 DEF HasColumn
  <2>6. CASE server = "mssql"
    <3>1. ColumnFound(db, at, column) <=> \E r \in At(db, AnyKind, at) : \E c \in ToSet(r.columns) : c.name = column
      BY <2>6 DEF ColumnFound, MssqlColumnExists
    <3> QED BY <2>1, <2>2, <2>6, <3>1 DEF HasColumn
  <2>7. CASE server = "sqlite"
    <3>1. ColumnFound(db, at, column) <=> \E cols \in SqliteColumns(db, at) : \E i \in DOMAIN cols : cols[i].name = column
      BY <2>7 DEF ColumnFound
    <3>2. (\E cols \in SqliteColumns(db, at) : \E i \in DOMAIN cols : cols[i].name = column)
          <=> \E r \in At(db, asked, at) : \E i \in DOMAIN r.columns : r.columns[i].name = column
      <4> DEFINE Told(q) == [i \in DOMAIN q.columns |->
                 [name |-> q.columns[i].name, pk |-> q.columns[i].name \in ToSet(q.key), default |-> q.columns[i].default,
                  readOnly |-> q.columns[i].generated, generated |-> q.columns[i].generated]]
      <4>1. SqliteColumns(db, at) = {Told(q) : q \in At(db, asked, at)}
        BY <2>7 DEF SqliteColumns
      <4>2. \A q : DOMAIN Told(q) = DOMAIN q.columns /\ \A i \in DOMAIN q.columns : Told(q)[i].name = q.columns[i].name
        OBVIOUS
      <4>3. \A q : (\E i \in DOMAIN Told(q) : Told(q)[i].name = column)
                   <=> \E i \in DOMAIN q.columns : q.columns[i].name = column
        <5> HIDE DEF Told
        <5> QED BY <4>2
      <4> HIDE DEF Told, asked
      <4>4. (\E cols \in SqliteColumns(db, at) : \E i \in DOMAIN cols : cols[i].name = column)
            <=> \E q \in At(db, asked, at) : \E i \in DOMAIN Told(q) : Told(q)[i].name = column
        BY <4>1, Zenon
      <4> QED BY <4>3, <4>4, Zenon
    <3>3. ASSUME NEW r \in At(db, asked, at)
          PROVE  (\E i \in DOMAIN r.columns : r.columns[i].name = column) <=> HasColumn(r, column)
      BY <2>1, <2>2, <2>7 DEF HasColumn, ToSet
    <3> HIDE DEF asked
    <3> QED BY <3>1, <3>2, <3>3
  <2> QED BY <2>3, <2>4, <2>5, <2>6, <2>7 DEF Servers
<1>3. \A r \in db.relations :
        /\ r.kind \in AnyKind
        /\ server # "pq" => r.kind \notin {"partitioned", "matview", "foreign"}
        /\ server # "sqlite" => r.kind # "internal"
        /\ server = "sqlite" => r.kind \in {"table", "internal", "view"}
  BY RelationIs
<1>4. At(db, asked, at) \subseteq RelationsAt(db, at)
  BY <1>3 DEF At, RelationsAt
<1>5. TablesAt(db, at) \cup ViewsAt(db, at) \subseteq At(db, asked, at)
  BY <1>3 DEF At, TablesAt, ViewsAt, BaseTables
<1> HIDE DEF asked
<1> QED BY <1>1, <1>4, <1>5

-------------------------------------------------------------------------------
(* Keys: beside a table only an index of Oracle has its name, without keys. *)
LEMMA OneTable ==
  ASSUME NEW db, IsDatabase(server, db), NEW at, NEW r \in TablesAt(db, at), NEW o \in RelationsAt(db, at), o # r
  PROVE  o.key = <<>> /\ o.fks = {}
<1>1. /\ r \in db.relations /\ r.schema = at.schema /\ r.name = at.name /\ r.kind \in BaseTables \cup {"internal"}
      /\ o \in db.relations /\ o.schema = at.schema /\ o.name = at.name
  BY DEF TablesAt, RelationsAt, At
<1>2. "index" \in {r.kind, o.kind}
  BY <1>1 DEF IsDatabase
<1>3. o.kind = "index"
  BY <1>1, <1>2 DEF BaseTables
<1>4. IsRelation(server, o)
  BY <1>1 DEF IsDatabase
<1> QED BY <1>3, <1>4 DEF IsRelation, BaseTables

LEMMA NoTable ==
  ASSUME NEW db, IsDatabase(server, db), NEW at, TablesAt(db, at) = {}, NEW o \in RelationsAt(db, at)
  PROVE  o.key = <<>> /\ o.fks = {}
<1>1. o \in db.relations /\ o.kind \notin BaseTables \cup {"internal"}
  BY DEF TablesAt, RelationsAt, At
<1>2. IsRelation(server, o)
  BY <1>1 DEF IsDatabase
<1> QED BY <1>1, <1>2 DEF IsRelation

(* Where the queries look for keys.                                         *)
KeyKinds == IF server = "sqlite" THEN {"table", "internal"}
            ELSE IF server \in {"pq", "mysql"} THEN AnyKind ELSE {"table"}

LEMMA KeyKindsAre ==
  ASSUME server \in Servers, NEW db, IsDatabase(server, db), NEW at
  PROVE  /\ At(db, KeyKinds, at) \subseteq RelationsAt(db, at)
         /\ TablesAt(db, at) \subseteq At(db, KeyKinds, at)
<1>1. \A r \in db.relations :
        /\ r.kind \in AnyKind
        /\ server # "pq" => r.kind \notin {"partitioned", "matview", "foreign"}
        /\ server # "sqlite" => r.kind # "internal"
        /\ server = "sqlite" => r.kind \in {"table", "internal", "view"}
  BY RelationIs
<1> QED BY <1>1 DEF At, RelationsAt, TablesAt, BaseTables, KeyKinds

LEMMA NothingInOrder == InOrder({}) = <<>>
<1> DEFINE row == <<>>
<1>1. Placed(row, 0) /\ {} = {row[i] : i \in 1..0}
  BY DEF Placed
<1> HIDE DEF row
<1>2. InOrder({}) = [i \in 1..0 |-> row[i].name]
  BY <1>1, InOrderIs
<1> QED BY <1>2

LEMMA KeysAre ==
  ASSUME server \in Servers, NEW db, IsDatabase(server, db), NEW at
  PROVE  /\ \A r \in TablesAt(db, at) : KeyColumns(db, at) = r.key
         /\ TablesAt(db, at) = {} => KeyColumns(db, at) = <<>>
<1> DEFINE found == At(db, KeyKinds, at)
<1>1. KeyColumns(db, at) = InOrder(UNION {KeyRows(r) : r \in found})
  <2>1. CASE server = "pq"
    BY <2>1 DEF KeyColumns, PqPrimaryKey, KeyKinds
  <2>2. CASE server = "sqlite"
    BY <2>2 DEF KeyColumns, SqlitePrimaryKey, SqliteTypes, KeyKinds
  <2>3. CASE server = "mysql"
    BY <2>3 DEF KeyColumns, MysqlPrimaryKey, KeyKinds
  <2>4. CASE server = "mssql"
    BY <2>4 DEF KeyColumns, MssqlPrimaryKey, KeyKinds
  <2>5. CASE server = "oracle"
    BY <2>5 DEF KeyColumns, OraPrimaryKey, KeyKinds
  <2> QED BY <2>1, <2>2, <2>3, <2>4, <2>5 DEF Servers
<1>2. found \subseteq RelationsAt(db, at) /\ TablesAt(db, at) \subseteq found
  BY KeyKindsAre
<1> HIDE DEF found
<1>3. \A o : o.key = <<>> => KeyRows(o) = {}
  BY DEF KeyRows
<1>4. ASSUME NEW r \in TablesAt(db, at) PROVE KeyColumns(db, at) = r.key
  <2>1. \A o \in found : o = r \/ KeyRows(o) = {}
    BY <1>2, <1>3, OneTable
  <2>2. UNION {KeyRows(o) : o \in found} = KeyRows(r)
    BY <1>2, <2>1
  <2>3. r.key \in Seq(STRING)
    BY DEF TablesAt, At, IsDatabase, IsRelation
  <2> DEFINE n == Len(r.key)
             row == [i \in 1..n |-> [at |-> i, name |-> r.key[i]]]
  <2>4. n \in Nat /\ DOMAIN r.key = 1..n
    BY <2>3
  <2>5. Placed(row, n) /\ KeyRows(r) = {row[i] : i \in 1..n} /\ \A i \in 1..n : row[i].name = r.key[i]
    BY <2>4 DEF Placed, KeyRows
  <2> HIDE DEF n, row
  <2>6. InOrder(KeyRows(r)) = [i \in 1..n |-> row[i].name]
    BY <2>4, <2>5, InOrderIs
  <2>7. [i \in 1..n |-> row[i].name] = r.key
    BY <2>3, <2>4, <2>5
  <2> QED BY <1>1, <2>2, <2>6, <2>7
<1>5. ASSUME TablesAt(db, at) = {} PROVE KeyColumns(db, at) = <<>>
  <2>1. \A o \in found : KeyRows(o) = {}
    BY <1>2, <1>3, <1>5, NoTable
  <2>2. UNION {KeyRows(o) : o \in found} = {}
    BY <2>1
  <2> QED BY <1>1, <2>2, NothingInOrder
<1> QED BY <1>4, <1>5

(* The rows of foreign keys, one for each pair of columns, are grouped into *)
(* the keys again.                                                          *)
ForeignKeyRow(f, i) ==
  [fk |-> f.name, at |-> i, name |-> f.columns[i], table |-> f.table,
   to |-> IF f.to = <<>> THEN "NULL" ELSE f.to[i]]

LEMMA KeyInOrder ==
  ASSUME NEW f, IsForeignKey(f), NEW own, own = {ForeignKeyRow(f, i) : i \in DOMAIN f.columns}
  PROVE  /\ InOrder(own) = f.columns /\ own # {} /\ \A row \in own : row.table = f.table
         /\ InOrder({[at |-> row.at, name |-> row.to] : row \in own})
            = [i \in DOMAIN f.columns |-> IF f.to = <<>> THEN "NULL" ELSE f.to[i]]
<1> DEFINE n == Len(f.columns)
           row == [i \in 1..n |-> ForeignKeyRow(f, i)]
           two == [i \in 1..n |-> [at |-> i, name |-> ForeignKeyRow(f, i).to]]
<1>1. f.columns \in Seq(STRING) /\ n \in Nat /\ DOMAIN f.columns = 1..n /\ 1 \in 1..n
  BY DEF IsForeignKey
<1>2. Placed(row, n) /\ own = {row[i] : i \in 1..n} /\ \A i \in 1..n : row[i].name = f.columns[i]
  BY <1>1 DEF Placed, ForeignKeyRow
<1>3. /\ Placed(two, n) /\ \A i \in 1..n : two[i].name = IF f.to = <<>> THEN "NULL" ELSE f.to[i]
  BY <1>1 DEF Placed, ForeignKeyRow
<1>4. {[at |-> r.at, name |-> r.to] : r \in own} = {two[i] : i \in 1..n}
  <2> DEFINE Pair(r) == [at |-> r.at, name |-> r.to]
  <2>1. \A i \in 1..n : Pair(row[i]) = two[i]
    BY DEF ForeignKeyRow
  <2>2. {Pair(r) : r \in own} = {two[i] : i \in 1..n}
    <3> HIDE DEF row, two, Pair
    <3>1. own = {row[i] : i \in 1..n}
      BY <1>2
    <3>2. \A r \in own : Pair(r) \in {two[i] : i \in 1..n}
      BY <2>1, <3>1, Zenon
    <3>3. \A i \in 1..n : two[i] \in {Pair(r) : r \in own}
      BY <2>1, <3>1, Zenon
    <3>4. \A r \in {two[i] : i \in 1..n} : \E i \in 1..n : r = two[i]
      BY Zenon
    <3> QED BY <3>2, <3>3, <3>4, Zenon
  <2> QED BY <2>2
<1>5. own # {} /\ \A r \in own : r.table = f.table
  <2>1. \A i \in 1..n : row[i].table = f.table
    BY DEF ForeignKeyRow
  <2> HIDE DEF row
  <2>2. own = {row[i] : i \in 1..n}
    BY <1>2
  <2>3. row[1] \in own
    BY <1>1, <2>2, Zenon
  <2>4. ASSUME NEW r \in own PROVE r.table = f.table
    <3>1. PICK i \in 1..n : r = row[i]
      BY <2>2
    <3> QED BY <2>1, <3>1
  <2> QED BY <2>3, <2>4
<1> HIDE DEF n, row, two
<1>6. InOrder(own) = [i \in 1..n |-> row[i].name]
  BY <1>1, <1>2, InOrderIs
<1>7. InOrder({[at |-> r.at, name |-> r.to] : r \in own}) = [i \in 1..n |-> two[i].name]
  BY <1>1, <1>3, <1>4, InOrderIs
<1>8. [i \in 1..n |-> row[i].name] = f.columns
  BY <1>1, <1>2
<1>9. [i \in 1..n |-> two[i].name] = [i \in DOMAIN f.columns |-> IF f.to = <<>> THEN "NULL" ELSE f.to[i]]
  BY <1>1, <1>3
<1> QED BY <1>5, <1>6, <1>7, <1>8, <1>9

ToldKey(f) ==
  [name |-> f.name, columns |-> f.columns, table |-> f.table,
   to |-> [i \in DOMAIN f.columns |-> IF f.to = <<>> THEN "NULL" ELSE f.to[i]]]

LEMMA GroupedIs ==
  ASSUME NEW r, IsRelation(server, r)
  PROVE  Grouped(ForeignKeyRows(r)) = {ToldKey(f) : f \in r.fks}
<1> DEFINE rows == ForeignKeyRows(r)
           Own(fk) == {row \in rows : row.fk = fk}
           Group(fk) == [name |-> fk, columns |-> InOrder(Own(fk)), table |-> (CHOOSE row \in Own(fk) : TRUE).table,
                         to |-> InOrder({[at |-> row.at, name |-> row.to] : row \in Own(fk)})]
<1>1. /\ \A f \in r.fks : IsForeignKey(f)
      /\ \A f, g \in r.fks : f.name = g.name => f = g
  BY DEF IsRelation
<1>2. \A row : row \in rows <=> \E f \in r.fks : \E i \in DOMAIN f.columns : row = ForeignKeyRow(f, i)
  <2>1. rows = UNION {{ForeignKeyRow(f, i) : i \in DOMAIN f.columns} : f \in r.fks}
    BY Zenon DEF ForeignKeyRows, ForeignKeyRow
  <2> QED BY <2>1
<1>3. \A f, i : ForeignKeyRow(f, i).fk = f.name
  BY DEF ForeignKeyRow
<1>4. Grouped(rows) = {Group(fk) : fk \in {row.fk : row \in rows}}
  BY Zenon DEF Grouped
<1> HIDE DEF rows
<1>5. ASSUME NEW f \in r.fks PROVE Group(f.name) = ToldKey(f) /\ f.name \in {row.fk : row \in rows}
  <2>1. Own(f.name) = {ForeignKeyRow(f, i) : i \in DOMAIN f.columns}
    <3>1. \A row \in Own(f.name) : \E i \in DOMAIN f.columns : row = ForeignKeyRow(f, i)
      BY <1>1, <1>2, <1>3
    <3>2. \A i \in DOMAIN f.columns : ForeignKeyRow(f, i) \in Own(f.name)
      BY <1>2, <1>3
    <3> HIDE DEF Own
    <3> QED BY <3>1, <3>2
  <2>2. \A row \in Own(f.name) : row \in rows /\ row.fk = f.name
    OBVIOUS
  <2> DEFINE own == Own(f.name)
  <2> HIDE DEF Own, own
  <2>3. /\ InOrder(own) = f.columns /\ own # {} /\ \A row \in own : row.table = f.table
        /\ InOrder({[at |-> row.at, name |-> row.to] : row \in own})
           = [i \in DOMAIN f.columns |-> IF f.to = <<>> THEN "NULL" ELSE f.to[i]]
    BY <1>1, <2>1, KeyInOrder DEF own
  <2>4. (CHOOSE row \in own : TRUE).table = f.table
    BY <2>3
  <2>5. Group(f.name) = ToldKey(f)
    BY <2>3, <2>4 DEF ToldKey, own
  <2>6. \E row \in own : row \in rows /\ row.fk = f.name
    BY <2>2, <2>3 DEF own
  <2> QED BY <2>5, <2>6
<1>6. ASSUME NEW fk \in {row.fk : row \in rows} PROVE \E f \in r.fks : fk = f.name
  BY <1>2, <1>3
<1> HIDE DEF Group
<1>7. {Group(fk) : fk \in {row.fk : row \in rows}} = {ToldKey(f) : f \in r.fks}
  BY <1>5, <1>6
<1> QED BY <1>4, <1>7 DEF rows

LEMMA ForeignKeysAre ==
  ASSUME server \in Servers, NEW db, IsDatabase(server, db), NEW at
  PROVE  /\ \A r \in TablesAt(db, at) :
              IF \E f \in r.fks : f.to = <<>> THEN ForeignKeys(db, at) = Answer("failed", 0)
              ELSE ForeignKeys(db, at) = Answer("fks", PromisedKeys(r))
         /\ TablesAt(db, at) = {} => ForeignKeys(db, at) = Answer("fks", {})
<1> DEFINE found == At(db, KeyKinds, at)
<1>1. References(db, at) = Grouped(UNION {ForeignKeyRows(r) : r \in found})
  <2>1. CASE server = "pq"
    BY <2>1 DEF References, PqForeignKeys, KeyKinds
  <2>2. CASE server = "sqlite"
    BY <2>2 DEF References, SqliteForeignKeys, SqliteTypes, KeyKinds
  <2>3. CASE server = "mysql"
    BY <2>3 DEF References, MysqlForeignKeys, KeyKinds
  <2>4. CASE server = "mssql"
    BY <2>4 DEF References, MssqlForeignKeys, KeyKinds
  <2>5. CASE server = "oracle"
    BY <2>5 DEF References, OraForeignKeys, KeyKinds
  <2> QED BY <2>1, <2>2, <2>3, <2>4, <2>5 DEF Servers
<1>2. found \subseteq RelationsAt(db, at) /\ TablesAt(db, at) \subseteq found
  BY KeyKindsAre
<1> HIDE DEF found
<1>3. \A o : o.fks = {} => ForeignKeyRows(o) = {}
  BY DEF ForeignKeyRows
<1>4. ASSUME NEW r \in TablesAt(db, at)
      PROVE  References(db, at) = {ToldKey(f) : f \in r.fks} /\ \A f \in r.fks : IsForeignKey(f)
  <2>1. \A o \in found : o = r \/ ForeignKeyRows(o) = {}
    BY <1>2, <1>3, OneTable
  <2>2. UNION {ForeignKeyRows(o) : o \in found} = ForeignKeyRows(r)
    BY <1>2, <2>1
  <2>3. IsRelation(server, r)
    BY DEF TablesAt, At, IsDatabase
  <2>4. \A f \in r.fks : IsForeignKey(f)
    BY <2>3 DEF IsRelation
  <2> QED BY <1>1, <2>2, <2>3, <2>4, GroupedIs
<1>5. ASSUME NEW r \in TablesAt(db, at), NEW f \in r.fks, f.to = <<>> PROVE ForeignKeys(db, at) = Answer("failed", 0)
  <2>1. IsForeignKey(f) /\ References(db, at) = {ToldKey(g) : g \in r.fks}
    BY <1>4
  <2>2. 1 \in DOMAIN f.columns
    BY <2>1 DEF IsForeignKey
  <2>3. "NULL" \in ToSet(ToldKey(f).to)
    BY <1>5, <2>2 DEF ToldKey, ToSet
  <2>4. ToldKey(f) \in References(db, at)
    BY <2>1
  <2> QED BY <2>3, <2>4, Zenon DEF ForeignKeys
<1>6. ASSUME NEW r \in TablesAt(db, at), \A f \in r.fks : f.to # <<>>
      PROVE  ForeignKeys(db, at) = Answer("fks", PromisedKeys(r))
  <2>1. ASSUME NEW f \in r.fks
        PROVE  /\ ToldKey(f) = [name |-> f.name, columns |-> f.columns, table |-> f.table, to |-> f.to]
               /\ "NULL" \notin ToSet(ToldKey(f).to)
    <3>1. f.columns \in Seq(STRING) /\ f.to \in Seq(STRING) /\ "NULL" \notin ToSet(f.to) /\ Len(f.to) = Len(f.columns)
      BY <1>4, <1>6 DEF IsForeignKey
    <3>2. [i \in DOMAIN f.columns |-> f.to[i]] = f.to
      BY <3>1
    <3>3. ToldKey(f).to = f.to
      BY <1>6, <3>2 DEF ToldKey
    <3> QED BY <1>6, <3>1, <3>2, <3>3 DEF ToldKey
  <2>2. References(db, at) = PromisedKeys(r)
    BY <1>4, <2>1 DEF PromisedKeys
  <2>3. ~\E fk \in References(db, at) : "NULL" \in ToSet(fk.to)
    BY <1>4, <2>1
  <2> QED BY <2>2, <2>3, Zenon DEF ForeignKeys
<1>7. ASSUME TablesAt(db, at) = {} PROVE ForeignKeys(db, at) = Answer("fks", {})
  <2>1. \A o \in found : ForeignKeyRows(o) = {}
    BY <1>2, <1>3, <1>7, NoTable
  <2>2. UNION {ForeignKeyRows(o) : o \in found} = {}
    BY <2>1
  <2>3. Grouped({}) = {}
    BY DEF Grouped
  <2>4. References(db, at) = {}
    BY <1>1, <2>2, <2>3
  <2> QED BY <2>4, Zenon DEF ForeignKeys
<1> QED BY <1>5, <1>6, <1>7

-------------------------------------------------------------------------------
(* Lists of names.                                                          *)
InFilter(db, schema, filter) == IF filter = {} THEN Shown(db, schema) ELSE schema \in filter
Listing(db, method, filter) ==
  CASE method = "Schemas" -> {<<s>> : s \in {t \in db.schemas : Shown(db, t)}}
    [] method = "Routines" ->
         {<<f.schema>> \o f.name \o <<f.args>> : f \in {g \in db.routines : g.kind # "other" /\ InFilter(db, g.schema, filter)}}
    [] OTHER -> Qualified({r \in db.relations :
                  r.kind \in (IF method = "Tables" THEN BaseTables ELSE {"view"}) /\ InFilter(db, r.schema, filter)})

HasRoutine(db, at, signature) ==
  \E f \in db.routines : /\ f.kind # "other" /\ f.schema = at.schema /\ f.name = at.name
                         /\ signature # <<>> => signature = <<<<f.schema>> \o f.name, f.args>>

LEMMA RoutineFoundIs ==
  ASSUME server \in Servers \ {"sqlite"}, NEW db, NEW at, NEW signature
  PROVE  RoutineFound(db, at, signature) <=> HasRoutine(db, at, signature)
<1>1. CASE server = "pq"
  BY <1>1, Zenon DEF RoutineFound, PqRoutineExists, HasRoutine
<1>2. ASSUME NEW listed, listed = {f \in db.routines : f.kind # "other" /\ f.schema \in {at.schema}},
             RoutineFound(db, at, signature) <=>
               \E f \in listed : f.name = at.name /\ (signature # <<>> => signature = <<<<f.schema>> \o f.name, f.args>>)
      PROVE  RoutineFound(db, at, signature) <=> HasRoutine(db, at, signature)
  BY <1>2, Zenon DEF HasRoutine
<1> {at.schema} # {}
  OBVIOUS
<1>3. CASE server = "mysql"
  <2>1. MysqlRoutines(db, {at.schema}) = {f \in db.routines : f.kind # "other" /\ f.schema \in {at.schema}}
    BY DEF MysqlRoutines
  <2>2. RoutineFound(db, at, signature) <=>
          \E f \in MysqlRoutines(db, {at.schema}) :
             f.name = at.name /\ (signature # <<>> => signature = <<<<f.schema>> \o f.name, f.args>>)
    BY <1>3, Zenon DEF RoutineFound, MysqlRoutineExists
  <2> QED BY <1>2, <2>1, <2>2, Zenon
<1>4. CASE server = "mssql"
  <2>1. MssqlRoutines(db, {at.schema}) = {f \in db.routines : f.kind # "other" /\ f.schema \in {at.schema}}
    BY DEF MssqlRoutines
  <2>2. RoutineFound(db, at, signature) <=>
          \E f \in MssqlRoutines(db, {at.schema}) :
             f.name = at.name /\ (signature # <<>> => signature = <<<<f.schema>> \o f.name, f.args>>)
    BY <1>4, Zenon DEF RoutineFound, MssqlRoutineExists
  <2> QED BY <1>2, <2>1, <2>2, Zenon
<1>5. CASE server = "oracle"
  <2>1. OraRoutines(db, {at.schema}) = {f \in db.routines : f.kind # "other" /\ f.schema \in {at.schema}}
    BY DEF OraRoutines
  <2>2. RoutineFound(db, at, signature) <=>
          \E f \in OraRoutines(db, {at.schema}) :
             f.name = at.name /\ (signature # <<>> => signature = <<<<f.schema>> \o f.name, f.args>>)
    BY <1>5, Zenon DEF RoutineFound, OraRoutineExists
  <2> QED BY <1>2, <2>1, <2>2, Zenon
<1> QED BY <1>1, <1>3, <1>4, <1>5 DEF Servers

LEMMA ListIs ==
  ASSUME server \in Servers \ {"sqlite"}, NEW db, IsDatabase(server, db), NEW filter
  PROVE  /\ List(db, "table", filter) = Listing(db, "Tables", filter)
         /\ List(db, "view", filter) = Listing(db, "Views", filter)
<1>1. \A r \in db.relations :
        /\ server # "pq" => r.kind \notin {"partitioned", "matview", "foreign"}
        /\ InFilter(db, r.schema, filter) <=> IF filter = {} THEN r.schema # "sys" ELSE r.schema \in filter
  BY RelationIs DEF IsDatabase, InFilter, Shown
<1>2. ASSUME NEW kinds, NEW method \in {"Tables", "Views"},
             \A r \in db.relations : r.kind \in kinds <=> r.kind \in (IF method = "Tables" THEN BaseTables ELSE {"view"})
      PROVE  Qualified({r \in db.relations : r.kind \in kinds /\ IF filter = {} THEN r.schema # "sys" ELSE r.schema \in filter})
             = Listing(db, method, filter)
  <2>1. {r \in db.relations : r.kind \in kinds /\ IF filter = {} THEN r.schema # "sys" ELSE r.schema \in filter}
        = {r \in db.relations : r.kind \in (IF method = "Tables" THEN BaseTables ELSE {"view"}) /\ InFilter(db, r.schema, filter)}
    BY <1>1, <1>2
  <2> QED BY <2>1, Zenon DEF Listing
<1>3. CASE server = "pq"
  <2>1. List(db, "table", filter) = Qualified({r \in db.relations :
           r.kind \in {"table", "partitioned"} /\ IF filter = {} THEN r.schema # "sys" ELSE r.schema \in filter})
    BY <1>3 DEF List, PqListRelations, PqRelkinds
  <2>2. List(db, "view", filter) = Qualified({r \in db.relations :
           r.kind \in {"view"} /\ IF filter = {} THEN r.schema # "sys" ELSE r.schema \in filter})
    BY <1>3 DEF List, PqListRelations, PqRelkinds
  <2>3. List(db, "table", filter) = Listing(db, "Tables", filter)
    BY <1>2, <2>1 DEF BaseTables
  <2>4. List(db, "view", filter) = Listing(db, "Views", filter)
    BY <1>2, <2>2
  <2> QED BY <2>3, <2>4
<1>4. CASE server \in {"mysql", "mssql", "oracle"}
  <2>1. ASSUME NEW kind PROVE List(db, kind, filter) = Qualified({r \in db.relations :
           r.kind \in {kind} /\ IF filter = {} THEN r.schema # "sys" ELSE r.schema \in filter})
    BY <1>4 DEF List, MysqlListTables, MssqlListObjects, OraListObjects
  <2>2. List(db, "table", filter) = Listing(db, "Tables", filter)
    <3>1. \A r \in db.relations : r.kind \in {"table"} <=> r.kind \in (IF "Tables" = "Tables" THEN BaseTables ELSE {"view"})
      BY <1>1, <1>4 DEF BaseTables
    <3>2. "Tables" \in {"Tables", "Views"}
      OBVIOUS
    <3>3. Qualified({r \in db.relations : r.kind \in {"table"} /\ IF filter = {} THEN r.schema # "sys" ELSE r.schema \in filter})
          = Listing(db, "Tables", filter)
      BY <1>2, <3>1, <3>2
    <3> QED BY <2>1, <3>3
  <2>3. List(db, "view", filter) = Listing(db, "Views", filter)
    BY <1>2, <2>1
  <2> QED BY <2>2, <2>3
<1> QED BY <1>3, <1>4 DEF Servers

LEMMA RoutinesAre ==
  ASSUME server \in Servers \ {"sqlite"}, NEW db, IsDatabase(server, db), NEW filter
  PROVE  RoutinesOf(db, filter) = Listing(db, "Routines", filter)
<1> DEFINE listed == {f \in db.routines : f.kind # "other" /\ IF filter = {} THEN f.schema # "sys" ELSE f.schema \in filter}
<1>1. listed = {g \in db.routines : g.kind # "other" /\ InFilter(db, g.schema, filter)}
  BY DEF IsDatabase, InFilter, Shown
<1>2. RoutinesOf(db, filter) = {<<f.schema>> \o f.name \o <<f.args>> : f \in listed}
  BY DEF RoutinesOf, PqRoutines, MysqlRoutines, MssqlRoutines, OraRoutines, Servers
<1> HIDE DEF listed
<1> QED BY <1>1, <1>2, Zenon DEF Listing

LEMMA SchemasAre ==
  ASSUME server \in Servers, NEW db, IsDatabase(server, db), NEW schema, schema # "role", NEW filter
  PROVE  {x \in {<<s>> : s \in Schemas(db)} : x[1] = schema} = {x \in Listing(db, "Schemas", filter) : x[1] = schema}
<1>1. schema \in Schemas(db) <=> schema \in db.schemas /\ Shown(db, schema)
  BY DEF Schemas, PqSchemas, SqliteSchemas, MysqlSchemas, MssqlSchemas, OraSchemas, IsDatabase, Shown, Servers
<1>2. Listing(db, "Schemas", filter) = {<<s>> : s \in {t \in db.schemas : Shown(db, t)}}
  BY DEF Listing
<1>3. ASSUME NEW S PROVE {x \in {<<s>> : s \in S} : x[1] = schema} = IF schema \in S THEN {<<schema>>} ELSE {}
  OBVIOUS
<1> QED BY <1>1, <1>2, <1>3

-------------------------------------------------------------------------------
(* The inductive invariant: what the queries of a call before its next one  *)
(* have told was true of the database when they ran.                        *)
Lists == {"Schemas", "Tables", "Views", "Routines"}
AskFields == {"method", "name", "filter", "column", "signature", "pc", "at", "left", "answer", "trouble"}

Located == \A db \in Databases[server] : db.current = database.current => Default(db, ask.at) = Meant(db)

AtCurrent ==
  /\ server # "sqlite" /\ ask.at = SplitSchemaName(ask.name) /\ ask.at.schema = ""
  /\ ask.method \in {"Columns", "PrimaryKey", "ForeignKeys", "RoutineExists"}
AtExists == ask.method \in {"PrimaryKey", "ForeignKeys"} /\ Located
AtQuery ==
  \/ ask.method \in Lists /\ (server = "sqlite" => ask.method = "Schemas")
  \/ /\ ask.method \in {"TableExists", "ViewExists", "Columns", "ColumnExists", "RoutineExists", "PrimaryKey", "ForeignKeys"}
     /\ ask.method = "RoutineExists" => server # "sqlite"
     /\ ask.method \in {"PrimaryKey", "ForeignKeys"} => \E db \in seen : Tables(db) # {}
     /\ Located
AtEither ==
  /\ Located
  /\ \/ ask.method = "Columns" /\ \E db \in seen : ColumnLists(db, Meant(db)) \subseteq {<<>>}
     \/ ask.method = "ColumnExists" /\ \E db \in seen : ~ColumnFound(db, Meant(db), ask.column)
AtName == ask.method = "ColumnExists" /\ \E db \in seen : ~TableOrViewExists(db, Meant(db))
AtSchemas ==
  server = "sqlite" /\ ask.method \in {"Tables", "Views"} /\ ask.filter = {} /\ ask.answer = Answer("list", {})
OfSchema(list, schema) == {x \in list : x[1] = schema}
AtList ==
  /\ server = "sqlite" /\ ask.method \in {"Tables", "Views"} /\ ask.answer.is = "list"
  /\ ask.left \subseteq (IF ask.filter = {} THEN database.schemas ELSE ask.filter)
  /\ \A schema \in UNION {db.schemas : db \in Databases[server]} :
       IF schema \in ask.left THEN OfSchema(ask.answer.of, schema) = {}
       ELSE \E db \in seen : OfSchema(ask.answer.of, schema) = OfSchema(PromisedList(db), schema)

AskInv ==
  /\ DOMAIN ask = AskFields /\ DOMAIN ask.at = {"schema", "name"} /\ DOMAIN ask.answer = {"is", "of"}
  /\ ask.pc \in {"idle", "current", "exists", "query", "either", "name", "schemas", "list", "answered"}
  /\ ask.pc = "current" => AtCurrent
  /\ ask.pc = "exists" => AtExists
  /\ ask.pc = "query" => AtQuery
  /\ ask.pc = "either" => AtEither
  /\ ask.pc = "name" => AtName
  /\ ask.pc = "schemas" => AtSchemas
  /\ ask.pc = "list" => AtList

SeenInv ==
  /\ server \in DOMAIN Databases /\ seen \subseteq Databases[server] /\ database \in Databases[server]
  /\ ask.pc # "idle" => database \in seen
  /\ \A db \in seen : db.current = database.current /\ (server = "sqlite" => db.schemas = database.schemas)

InfoInv == SeenInv /\ AskInv /\ AnswersAreTrue

LEMMA SeenAre ==
  ASSUME SeenInv
  PROVE  server \in Servers /\ \A db \in Databases[server] : IsDatabase(server, db)
BY InformationAssumption, KindsAre DEF SeenInv

LEMMA PromisedIs == \A db : PromisedList(db) = Listing(db, ask.method, ask.filter)
BY Zenon DEF PromisedList, Listing, InFilter

(* What does not change with the database, the answer and the progress.     *)
LEMMA Unmoved ==
  ASSUME server' = server, ask'.name = ask.name
  PROVE  /\ \A db : Meant(db)' = Meant(db) /\ Tables(db)' = Tables(db) /\ Views(db)' = Views(db)
         /\ \A db, at : /\ ColumnLists(db, at)' = ColumnLists(db, at) /\ Default(db, at)' = Default(db, at)
                        /\ TableOrViewExists(db, at)' <=> TableOrViewExists(db, at)
         /\ \A db, at, column : ColumnFound(db, at, column)' <=> ColumnFound(db, at, column)
         /\ \A r : PromisedColumns(r)' = PromisedColumns(r)
<1>1. \A db, at : Default(db, at)' = Default(db, at)
  BY DEF Default, CurrentSchema
<1>2. \A db : Meant(db)' = Meant(db)
  BY <1>1, Zenon DEF Meant
<1>3. \A db : Tables(db)' = Tables(db) /\ Views(db)' = Views(db)
  BY <1>2 DEF Tables, Views
<1>4. \A db, at : ColumnLists(db, at)' = ColumnLists(db, at)
  BY Zenon DEF ColumnLists
<1>5. \A db, at : TableOrViewExists(db, at)' <=> TableOrViewExists(db, at)
  BY Zenon DEF TableOrViewExists
<1>6. \A db, at, column : ColumnFound(db, at, column)' <=> ColumnFound(db, at, column)
  BY Zenon DEF ColumnFound
<1>7. \A r, c : PromisedColumn(r, c)' = PromisedColumn(r, c)
  BY Zenon DEF PromisedColumn
<1>8. \A r : PromisedColumns(r)' = PromisedColumns(r)
  BY <1>7, Zenon DEF PromisedColumns
<1> QED BY <1>1, <1>2, <1>3, <1>4, <1>5, <1>6, <1>8

LEMMA PromisedUnmoved ==
  ASSUME ask'.method = ask.method, ask'.filter = ask.filter
  PROVE  \A db : PromisedList(db)' = PromisedList(db)
BY Zenon DEF PromisedList

SameCall ==
  /\ ask'.method = ask.method /\ ask'.name = ask.name /\ ask'.filter = ask.filter /\ ask'.column = ask.column
  /\ ask'.signature = ask.signature /\ ask'.at = ask.at /\ ask'.left = ask.left
  /\ ask'.answer = ask.answer /\ ask'.trouble = ask.trouble

(* What was true of a database that was seen stays so.                      *)
LEMMA AtUnmoved ==
  ASSUME SeenInv, server' = server, seen \subseteq seen', SameCall, database'.current = database.current,
         server = "sqlite" => database'.schemas = database.schemas
  PROVE  /\ AtCurrent => AtCurrent'
         /\ AtExists => AtExists'
         /\ AtQuery => AtQuery'
         /\ AtEither => AtEither'
         /\ AtName => AtName'
         /\ AtSchemas => AtSchemas'
         /\ AtList => AtList'
<1>1. /\ \A db : Meant(db)' = Meant(db) /\ Tables(db)' = Tables(db) /\ Views(db)' = Views(db)
      /\ \A db, at : /\ ColumnLists(db, at)' = ColumnLists(db, at) /\ Default(db, at)' = Default(db, at)
                     /\ TableOrViewExists(db, at)' <=> TableOrViewExists(db, at)
      /\ \A db, at, column : ColumnFound(db, at, column)' <=> ColumnFound(db, at, column)
  BY Unmoved DEF SameCall
<1>2. \A db : PromisedList(db)' = PromisedList(db)
  BY PromisedUnmoved DEF SameCall
<1>3. Located => Located'
  <2>1. \A db : Default(db, ask.at)' = Default(db, ask.at)
    BY Zenon DEF SameCall, Default, CurrentSchema
  <2> QED BY <1>1, <2>1 DEF Located, SameCall
<1>4. AtCurrent => AtCurrent'
  BY DEF AtCurrent, SameCall
<1>5. AtExists => AtExists'
  BY <1>3 DEF AtExists, SameCall
<1>6. AtQuery => AtQuery'
  BY <1>1, <1>3 DEF AtQuery, SameCall
<1>7. AtEither => AtEither'
  BY <1>1, <1>3 DEF AtEither, SameCall
<1>8. AtName => AtName'
  BY <1>1 DEF AtName, SameCall
<1>9. AtSchemas => AtSchemas'
  BY DEF AtSchemas, SameCall
<1>10. AtList => AtList'
  <2> SUFFICES ASSUME AtList PROVE AtList'
    OBVIOUS
  <2>1. ask'.left \subseteq (IF ask'.filter = {} THEN database'.schemas ELSE ask'.filter)
    BY DEF AtList, SameCall
  <2>2. ASSUME NEW schema \in UNION {db.schemas : db \in Databases[server]}
        PROVE  IF schema \in ask'.left THEN OfSchema(ask'.answer.of, schema) = {}
               ELSE \E db \in seen' : OfSchema(ask'.answer.of, schema) = OfSchema(PromisedList(db)', schema)
    BY <1>2 DEF AtList, SameCall
  <2>3. server' = "sqlite" /\ ask'.method \in {"Tables", "Views"} /\ ask'.answer.is = "list"
    BY DEF AtList, SameCall
  <2> QED BY <2>1, <2>2, <2>3 DEF AtList, OfSchema
<1> QED BY <1>4, <1>5, <1>6, <1>7, <1>8, <1>9, <1>10

(* A step of a call to its next query.                                      *)
LEMMA StepTo ==
  ASSUME InfoInv, NEW p \in {"query", "either", "name", "exists", "list"}, ask.pc # "idle",
         ask' = [ask EXCEPT !.pc = p], Querying,
         p = "query" => AtQuery, p = "either" => AtEither, p = "name" => AtName, p = "exists" => AtExists, p = "list" => AtList
  PROVE  InfoInv'
<1>1. DOMAIN ask' = AskFields /\ ask'.pc = p /\ SameCall
  BY DEF InfoInv, AskInv, AskFields, SameCall
<1>2. /\ AtQuery => AtQuery'
      /\ AtEither => AtEither'
      /\ AtName => AtName'
      /\ AtExists => AtExists'
      /\ AtList => AtList'
  <2>1. SeenInv /\ server' = server /\ seen \subseteq seen' /\ database' = database
    BY DEF InfoInv, Querying
  <2> QED BY <1>1, <2>1, AtUnmoved
<1>3. AskInv'
  <2>1. DOMAIN ask'.at = {"schema", "name"} /\ DOMAIN ask'.answer = {"is", "of"}
    BY <1>1 DEF InfoInv, AskInv, SameCall
  <2>2. p = "query" => AtQuery'
    BY <1>2
  <2>3. p = "either" => AtEither'
    BY <1>2
  <2>4. p = "name" => AtName'
    BY <1>2
  <2>5. p = "exists" => AtExists'
    BY <1>2
  <2>6. p = "list" => AtList'
    BY <1>2
  <2> QED BY <1>1, <2>1, <2>2, <2>3, <2>4, <2>5, <2>6 DEF AskInv
<1>4. SeenInv'
  BY <1>1 DEF InfoInv, SeenInv, Querying
<1>5. AnswersAreTrue'
  BY <1>1 DEF AnswersAreTrue
<1> QED BY <1>3, <1>4, <1>5 DEF InfoInv

(* An answer, and whether it is the promised one.                           *)
Truth(db, a) ==
  LET relations == Tables(db) \cup Views(db)
  IN \/ ask.method = "TableExists" /\ a.is = "bool" /\ (a.of <=> Tables(db) # {})
     \/ ask.method = "ViewExists" /\ a.is = "bool" /\ (a.of <=> At(db, {"view"}, Meant(db)) # {})
     \/ /\ ask.method = "Columns"
        /\ \/ relations = {} /\ a.is = "sql.ErrNoRows"
           \/ \E r \in relations : a.is = "columns" /\ a.of = PromisedColumns(r)
     \/ /\ ask.method = "ColumnExists"
        /\ \/ relations = {} /\ a.is = "sql.ErrNoRows"
           \/ \E r \in relations : a.is = "bool" /\ a.of = HasColumn(r, ask.column)
     \/ /\ ask.method = "PrimaryKey"
        /\ \/ Tables(db) = {} /\ a.is = "sql.ErrNoRows"
           \/ \E r \in Tables(db) : a.is = "columns" /\ a.of = r.key
     \/ /\ ask.method = "ForeignKeys"
        /\ \/ Tables(db) = {} /\ a.is = "sql.ErrNoRows"
           \/ \E r \in Tables(db) : a.is = "fks" /\ a.of = PromisedKeys(r)
     \/ /\ ask.method = "RoutineExists" /\ a.is = "bool"
        /\ a.of <=> HasRoutine(db, Meant(db), ask.signature)

CameAndWent(a) ==
  /\ \E db \in seen : Tables(db) \cup Views(db) = {} \/ (ask.method \in {"PrimaryKey", "ForeignKeys"} /\ Tables(db) = {})
  /\ \E db \in seen : Tables(db) \cup Views(db) # {}
  /\ \/ a.is = "columns" /\ a.of = <<>>
     \/ a.is = "fks" /\ a.of = {}
     \/ ask.method = "ColumnExists" /\ a.is = "bool" /\ ~a.of

ListIsTrue(list) ==
  \A schema \in UNION {db.schemas : db \in seen} : schema # "role" =>
    \E db \in seen : OfSchema(list, schema) = OfSchema(PromisedList(db), schema)

GoodAnswer(a) ==
  \/ a.is = "failed" /\ FailsForAReason
  \/ a.is = "list" /\ ListIsTrue(a.of)
  \/ /\ a.is \in {"sql.ErrNoRows", "bool", "columns", "fks"}
     /\ CameAndWent(a) \/ \E db \in seen : Truth(db, a) \/ OfAnotherKind(db)

LEMMA AnswersKeep ==
  ASSUME InfoInv, NEW a, DOMAIN a = {"is", "of"}, ask.pc # "idle",
         ask' = [ask EXCEPT !.pc = "answered", !.answer = a], Querying, GoodAnswer(a)
  PROVE  InfoInv'
<1>1. /\ DOMAIN ask' = AskFields /\ ask'.pc = "answered" /\ ask'.answer = a
      /\ ask'.method = ask.method /\ ask'.name = ask.name /\ ask'.filter = ask.filter /\ ask'.column = ask.column
      /\ ask'.signature = ask.signature /\ ask'.at = ask.at /\ ask'.trouble = ask.trouble
      /\ server' = server /\ database' = database /\ seen' = seen
  BY DEF InfoInv, AskInv, AskFields, Querying
<1>2. AskInv'
  BY <1>1 DEF InfoInv, AskInv
<1>3. SeenInv'
  BY <1>1 DEF InfoInv, SeenInv
<1>4. /\ \A db : Meant(db)' = Meant(db) /\ Tables(db)' = Tables(db) /\ Views(db)' = Views(db)
      /\ \A r : PromisedColumns(r)' = PromisedColumns(r)
  BY <1>1, Unmoved
<1>5. AnswersAreTrue'
  <2>1. CASE a.is = "failed" /\ FailsForAReason
    <3>1. FailsForAReason'
      BY <1>1, <1>4, <2>1 DEF FailsForAReason
    <3> QED BY <1>1, <2>1, <3>1 DEF AnswersAreTrue
  <2>2. CASE a.is = "list" /\ ListIsTrue(a.of)
    <3>1. \A db : PromisedList(db)' = PromisedList(db)
      BY <1>1, PromisedUnmoved
    <3>2. \A schema \in UNION {db.schemas : db \in seen'} : schema # "role" =>
             \E db \in seen' : {x \in ask'.answer.of : x[1] = schema} = {x \in PromisedList(db)' : x[1] = schema}
      BY <1>1, <2>2, <3>1 DEF ListIsTrue, OfSchema
    <3> QED BY <1>1, <2>2, <3>2 DEF AnswersAreTrue
  <2>3. CASE a.is \in {"sql.ErrNoRows", "bool", "columns", "fks"} /\ CameAndWent(a)
    <3>1. CameOrWent'
      BY <1>1, <1>4, <2>3 DEF CameAndWent, CameOrWent
    <3> QED BY <1>1, <2>3, <3>1 DEF AnswersAreTrue
  <2>4. ASSUME a.is \in {"sql.ErrNoRows", "bool", "columns", "fks"}, NEW db \in seen, Truth(db, a)
        PROVE  AnswersAreTrue'
    <3>1. Kept(db)'
      <4>1. CASE ask.method = "TableExists"
        BY <1>1, <1>4, <2>4, <4>1 DEF Kept, Truth
      <4>2. CASE ask.method = "ViewExists"
        BY <1>1, <1>4, <2>4, <4>2 DEF Kept, Truth
      <4>3. CASE ask.method = "Columns"
        BY <1>1, <1>4, <2>4, <4>3 DEF Kept, Truth, ForOneOf, Answer
      <4>4. CASE ask.method = "ColumnExists"
        <5> DEFINE rs == Tables(db) \cup Views(db)
        <5>1. \/ rs = {} /\ a.is = "sql.ErrNoRows"
              \/ \E r \in rs : a.is = "bool" /\ a.of = HasColumn(r, ask.column)
          BY <2>4, <4>4 DEF Truth
        <5>2. ForOneOf(rs, LAMBDA r : Answer("bool", HasColumn(r, ask.column)))'
          <6>1. \A r : /\ Answer("bool", HasColumn(r, ask.column)).is = "bool"
                       /\ Answer("bool", HasColumn(r, ask.column)).of = HasColumn(r, ask.column)
            BY DEF Answer
          <6>2. rs' = rs
            BY <1>4
          <6>3. \A r : Answer("bool", HasColumn(r, ask.column))' = Answer("bool", HasColumn(r, ask.column))
            BY <1>1, Zenon
          <6> HIDE DEF rs
          <6> QED BY <1>1, <5>1, <6>1, <6>2, <6>3 DEF ForOneOf
        <5>3. ask'.method = "ColumnExists"
          BY <1>1, <4>4
        <5> QED BY <5>2, <5>3 DEF Kept, HasColumn
      <4>5. CASE ask.method = "PrimaryKey"
        BY <1>1, <1>4, <2>4, <4>5 DEF Kept, Truth, ForOneOf, Answer
      <4>6. CASE ask.method = "ForeignKeys"
        BY <1>1, <1>4, <2>4, <4>6 DEF Kept, Truth, ForOneOf, Answer
      <4>7. CASE ask.method = "RoutineExists"
        <5>1. a.of <=> HasRoutine(db, Meant(db), ask.signature)
          BY <2>4, <4>7 DEF Truth
        <5>2. ask'.answer.of <=> HasRoutine(db, Meant(db)', ask'.signature)
          BY <1>1, <1>4, <5>1
        <5>3. ask'.method = "RoutineExists"
          BY <1>1, <4>7
        <5> QED BY <5>2, <5>3, Zenon DEF Kept, HasRoutine
      <4> QED BY <2>4, <4>1, <4>2, <4>3, <4>4, <4>5, <4>6, <4>7 DEF Truth
    <3> QED BY <1>1, <2>4, <3>1 DEF AnswersAreTrue
  <2>5. ASSUME a.is \in {"sql.ErrNoRows", "bool", "columns", "fks"}, NEW db \in seen, OfAnotherKind(db)
        PROVE  AnswersAreTrue'
    <3>1. OfAnotherKind(db)'
      BY <1>1, <1>4, <2>5 DEF OfAnotherKind
    <3> QED BY <1>1, <2>5, <3>1 DEF AnswersAreTrue
  <2> QED BY <2>1, <2>2, <2>3, <2>4, <2>5 DEF GoodAnswer
<1> QED BY <1>2, <1>3, <1>5 DEF InfoInv

(* The names of a list begin with their schema.                             *)
LEMMA ListedBySchema ==
  ASSUME NEW db, IsDatabase(server, db), NEW S \in SUBSET db.relations, NEW schema,
         NEW T, T = {r \in S : r.schema = schema}
  PROVE  OfSchema(Qualified(S), schema) = Qualified(T)
<1>1. ASSUME NEW r \in db.relations PROVE (<<r.schema>> \o r.name)[1] = r.schema
  <2>1. r.name \in Seq(STRING) /\ <<r.schema>> \in Seq({r.schema}) /\ Len(<<r.schema>>) = 1 /\ <<r.schema>>[1] = r.schema
    BY DEF IsDatabase, IsRelation
  <2>2. \A i \in 1..1 : (<<r.schema>> \o r.name)[i] = <<r.schema>>[i]
    BY <2>1, JoinedIs
  <2> QED BY <2>1, <2>2
<1> DEFINE Name(r) == <<r.schema>> \o r.name
<1>2. Qualified(S) = {Name(r) : r \in S} /\ Qualified(T) = {Name(r) : r \in T}
  BY DEF Qualified
<1>3. \A r \in db.relations : Name(r)[1] = r.schema
  BY <1>1
<1> HIDE DEF Name
<1> QED BY <1>2, <1>3 DEF OfSchema

Kinds(method) == IF method = "Tables" THEN BaseTables ELSE {"view"}
NamesIn(db, method, schema) == Qualified({r \in db.relations : r.kind \in Kinds(method) /\ r.schema = schema})

LEMMA ListedBy ==
  ASSUME NEW db, IsDatabase(server, db), NEW method \in {"Tables", "Views"}, NEW filter, NEW schema
  PROVE  OfSchema(Listing(db, method, filter), schema)
         = IF InFilter(db, schema, filter)
           THEN NamesIn(db, method, schema) ELSE {}
<1> DEFINE S == {r \in db.relations : r.kind \in Kinds(method) /\ InFilter(db, r.schema, filter)}
           T == {r \in S : r.schema = schema}
<1>1. Listing(db, method, filter) = Qualified(S) /\ S \in SUBSET db.relations
  BY Zenon DEF Listing, Kinds
<1>2. T = IF InFilter(db, schema, filter) THEN {r \in db.relations : r.kind \in Kinds(method) /\ r.schema = schema} ELSE {}
  OBVIOUS
<1>3. T = {r \in S : r.schema = schema}
  OBVIOUS
<1> HIDE DEF S, T
<1>5. OfSchema(Qualified(S), schema) = Qualified(T)
  BY <1>1, <1>3, ListedBySchema
<1>4. Qualified({}) = {}
  BY DEF Qualified
<1> QED BY <1>1, <1>2, <1>4, <1>5 DEF NamesIn

LEMMA SqliteListed ==
  ASSUME server = "sqlite", NEW db, IsDatabase(server, db), NEW method \in {"Tables", "Views"}, NEW schema,
         NEW list, list = SqliteListSchemaObjects(db, IF method = "Tables" THEN "table" ELSE "view", schema)
  PROVE  /\ list = NamesIn(db, method, schema)
         /\ OfSchema(list, schema) = list
         /\ \A other : other # schema => OfSchema(list, other) = {}
<1> DEFINE kind == IF method = "Tables" THEN "table" ELSE "view"
           S == {r \in db.relations : r.kind = kind /\ r.schema = schema}
<1>1. server \in Servers
  BY DEF Servers
<1>2. S = {r \in db.relations : r.kind \in Kinds(method) /\ r.schema = schema}
  BY <1>1, RelationIs DEF Kinds, BaseTables
<1>3. SqliteListSchemaObjects(db, kind, schema) = Qualified(S)
  BY DEF SqliteListSchemaObjects
<1>4. \A other : OfSchema(Qualified(S), other) = IF other = schema THEN Qualified(S) ELSE {}
  <2>1. ASSUME NEW other PROVE OfSchema(Qualified(S), other) = IF other = schema THEN Qualified(S) ELSE {}
    <3> DEFINE T == {r \in S : r.schema = other}
    <3>1. T = {r \in S : r.schema = other} /\ S \in SUBSET db.relations
      OBVIOUS
    <3>2. T = IF other = schema THEN S ELSE {}
      OBVIOUS
    <3> HIDE DEF S, T
    <3>3. OfSchema(Qualified(S), other) = Qualified(T)
      BY <3>1, ListedBySchema
    <3>4. Qualified({}) = {}
      BY DEF Qualified
    <3> QED BY <3>2, <3>3, <3>4
  <2> QED BY <2>1
<1> QED BY <1>2, <1>3, <1>4 DEF NamesIn

LEMMA NextPromisedIs == \A db : PromisedList(db)' = Listing(db, ask'.method, ask'.filter)
BY Zenon DEF PromisedList, Listing, InFilter

-------------------------------------------------------------------------------
(* Calls begin.                                                             *)
LEMMA NoAskIs ==
  /\ DOMAIN NoAsk = AskFields /\ DOMAIN NoAsk.at = {"schema", "name"} /\ DOMAIN NoAsk.answer = {"is", "of"}
  /\ NoAsk.pc = "idle" /\ NoAsk.answer.is = "none" /\ NoAsk.filter = {}
BY DEF NoAsk, AskFields, None, Answer

LEMMA NewCallSees ==
  ASSUME SeenInv, seen' = {database}, UNCHANGED <<server, database>>
  PROVE  SeenInv'
BY DEF SeenInv

LEMMA AskForListKeeps ==
  ASSUME InfoInv, NEW method \in Lists, NEW filter, AskForList(method, filter)
  PROVE  InfoInv'
<1>1. SeenInv' /\ server' = server /\ database' = database /\ seen' = {database}
  BY NewCallSees DEF InfoInv, AskForList
<1>2. server \in Servers /\ \A db \in Databases[server] : IsDatabase(server, db)
  BY SeenAre DEF InfoInv
<1> DEFINE a == [NoAsk EXCEPT !.method = method, !.filter = filter, !.left = filter]
<1>3. /\ DOMAIN a = AskFields /\ DOMAIN a.at = {"schema", "name"} /\ DOMAIN a.answer = {"is", "of"}
      /\ a.method = method /\ a.filter = filter /\ a.left = filter
  BY NoAskIs DEF AskFields
<1>4. ask' = IF server # "sqlite" \/ method = "Schemas" THEN [a EXCEPT !.pc = "query"]
             ELSE IF method = "Routines" THEN [a EXCEPT !.pc = "answered", !.answer = Answer("unsupported", 0)]
             ELSE [a EXCEPT !.pc = IF filter = {} THEN "schemas" ELSE "list", !.answer = Answer("list", {})]
  BY DEF AskForList
<1> HIDE DEF a
<1>5. CASE server # "sqlite" \/ method = "Schemas"
  <2>1. DOMAIN ask' = AskFields /\ ask'.pc = "query" /\ ask'.method = method /\ ask'.at = a.at /\ ask'.answer = a.answer
    BY <1>3, <1>4, <1>5 DEF AskFields
  <2>2. AtQuery'
    BY <1>1, <1>5, <2>1 DEF AtQuery
  <2>3. AskInv'
    BY <1>3, <2>1, <2>2 DEF AskInv
  <2>4. AnswersAreTrue'
    BY <2>1 DEF AnswersAreTrue
  <2> QED BY <1>1, <2>3, <2>4 DEF InfoInv
<1>6. CASE server = "sqlite" /\ method = "Routines"
  <2>1. DOMAIN ask' = AskFields /\ ask'.pc = "answered" /\ ask'.at = a.at /\ ask'.answer = Answer("unsupported", 0)
    BY <1>3, <1>4, <1>6 DEF AskFields
  <2>2. DOMAIN ask'.answer = {"is", "of"} /\ ask'.answer.is = "unsupported"
    BY <2>1 DEF Answer
  <2>3. AskInv'
    BY <1>3, <2>1, <2>2 DEF AskInv
  <2>4. AnswersAreTrue'
    BY <1>1, <1>6, <2>2 DEF AnswersAreTrue
  <2> QED BY <1>1, <2>3, <2>4 DEF InfoInv
<1>7. CASE server = "sqlite" /\ method \in {"Tables", "Views"}
  <2>1. /\ DOMAIN ask' = AskFields /\ ask'.pc = (IF filter = {} THEN "schemas" ELSE "list") /\ ask'.at = a.at
        /\ ask'.answer = Answer("list", {}) /\ ask'.method = method /\ ask'.filter = filter /\ ask'.left = filter
    BY <1>3, <1>4, <1>7 DEF AskFields
  <2>2. DOMAIN ask'.answer = {"is", "of"} /\ ask'.answer.is = "list" /\ ask'.answer.of = {}
    BY <2>1 DEF Answer
  <2>3. ASSUME filter = {} PROVE AtSchemas'
    BY <1>1, <1>7, <2>1, <2>3 DEF AtSchemas
  <2>4. ASSUME filter # {} PROVE AtList'
    <3> PICK d : d = database
      OBVIOUS
    <3>1. ASSUME NEW schema, schema \notin filter
          PROVE  OfSchema({}, schema) = OfSchema(PromisedList(d)', schema)
      <4>1. PromisedList(d)' = Listing(d, method, filter)
        BY <2>1, NextPromisedIs
      <4>2. ~InFilter(d, schema, filter)
        BY <2>4, <3>1 DEF InFilter
      <4>3. OfSchema(Listing(d, method, filter), schema) = {}
        BY <1>2, <1>7, <4>2, ListedBy DEF InfoInv, SeenInv
      <4> QED BY <4>1, <4>3 DEF OfSchema
    <3>2. d \in seen'
      BY <1>1
    <3>3. \A schema : OfSchema({}, schema) = {}
      BY DEF OfSchema
    <3>4. \A schema \in UNION {db.schemas : db \in Databases[server']} :
            IF schema \in ask'.left THEN OfSchema(ask'.answer.of, schema) = {}
            ELSE \E db \in seen' : OfSchema(ask'.answer.of, schema) = OfSchema(PromisedList(db)', schema)
      BY <2>1, <2>2, <3>1, <3>2, <3>3
    <3>5. /\ server' = "sqlite" /\ ask'.method \in {"Tables", "Views"} /\ ask'.answer.is = "list"
          /\ ask'.left \subseteq (IF ask'.filter = {} THEN database'.schemas ELSE ask'.filter)
      BY <1>1, <1>7, <2>1, <2>2, <2>4
    <3> QED BY <3>4, <3>5 DEF AtList, OfSchema
  <2>5. AskInv'
    BY <1>3, <2>1, <2>2, <2>3, <2>4 DEF AskInv
  <2>6. AnswersAreTrue'
    BY <2>1 DEF AnswersAreTrue
  <2> QED BY <1>1, <2>5, <2>6 DEF InfoInv
<1> QED BY <1>5, <1>6, <1>7 DEF Lists

AboutMethods == {"TableExists", "ViewExists", "Columns", "ColumnExists", "PrimaryKey", "ForeignKeys", "RoutineExists"}

LEMMA AskAboutKeeps ==
  ASSUME InfoInv, NEW method \in AboutMethods, NEW name, NEW column, NEW signature, AskAbout(method, name, column, signature)
  PROVE  InfoInv'
<1>1. SeenInv' /\ server' = server /\ database' = database
  BY NewCallSees DEF InfoInv, AskAbout
<1> DEFINE split == SplitSchemaName(name)
           a == [NoAsk EXCEPT !.method = method, !.name = name, !.column = column, !.signature = signature, !.at = split]
           first == IF split.schema = "" /\ LooksUpSchema(method, signature) THEN "current" ELSE FirstQuery(method)
<1>2. DOMAIN split = {"schema", "name"}
  BY DEF SplitSchemaName
<1>3. ask' = IF server = "sqlite" /\ method = "RoutineExists"
             THEN [a EXCEPT !.pc = "answered", !.answer = Answer("unsupported", 0)] ELSE [a EXCEPT !.pc = first]
  BY DEF AskAbout
<1> HIDE DEF split
<1>4. /\ DOMAIN a = AskFields /\ DOMAIN a.answer = {"is", "of"} /\ a.at = split
      /\ a.method = method /\ a.name = name /\ a.signature = signature
  BY NoAskIs DEF AskFields
<1> HIDE DEF a, first
<1>5. CASE server = "sqlite" /\ method = "RoutineExists"
  <2>1. DOMAIN ask' = AskFields /\ ask'.pc = "answered" /\ ask'.at = split /\ ask'.answer = Answer("unsupported", 0)
    BY <1>3, <1>4, <1>5 DEF AskFields
  <2>2. DOMAIN ask'.answer = {"is", "of"} /\ ask'.answer.is = "unsupported"
    BY <2>1 DEF Answer
  <2>3. AskInv'
    BY <1>2, <2>1, <2>2 DEF AskInv
  <2>4. AnswersAreTrue'
    BY <1>1, <1>5, <2>2 DEF AnswersAreTrue
  <2> QED BY <1>1, <2>3, <2>4 DEF InfoInv
<1>6. CASE ~(server = "sqlite" /\ method = "RoutineExists")
  <2>1. /\ DOMAIN ask' = AskFields /\ ask'.pc = first /\ ask'.at = split /\ ask'.answer = a.answer
        /\ ask'.method = method /\ ask'.name = name
    BY <1>3, <1>4, <1>6 DEF AskFields
  <2>2. Located'
    <3>1. \A db : Default(db, ask.at)' = Meant(db)'
      BY <2>1, Zenon DEF Meant, split
    <3> QED BY <3>1 DEF Located
  <2>3. CASE first = "current"
    <3>1. split.schema = "" /\ LooksUpSchema(method, signature)
      BY <2>3 DEF first, FirstQuery
    <3>2. server # "sqlite" /\ method \in {"Columns", "PrimaryKey", "ForeignKeys", "RoutineExists"}
      BY <3>1 DEF LooksUpSchema
    <3>3. ask'.at = SplitSchemaName(ask'.name)
      BY <2>1 DEF split
    <3>4. AtCurrent'
      BY <1>1, <2>1, <3>1, <3>2, <3>3 DEF AtCurrent
    <3>5. AskInv'
      BY <1>2, <1>4, <2>1, <2>3, <3>4 DEF AskInv
    <3>6. AnswersAreTrue'
      BY <2>1, <2>3 DEF AnswersAreTrue
    <3> QED BY <1>1, <3>5, <3>6 DEF InfoInv
  <2>4. CASE first = "exists" /\ method \in {"PrimaryKey", "ForeignKeys"}
    <3>1. AtExists'
      BY <2>1, <2>2, <2>4 DEF AtExists
    <3>2. AskInv'
      BY <1>2, <1>4, <2>1, <2>4, <3>1 DEF AskInv
    <3>3. AnswersAreTrue'
      BY <2>1, <2>4 DEF AnswersAreTrue
    <3> QED BY <1>1, <3>2, <3>3 DEF InfoInv
  <2>5. CASE first = "query" /\ method \notin {"PrimaryKey", "ForeignKeys"}
    <3>1. AtQuery'
      BY <1>1, <1>6, <2>1, <2>2, <2>5 DEF AtQuery, AboutMethods
    <3>2. AskInv'
      BY <1>2, <1>4, <2>1, <2>5, <3>1 DEF AskInv
    <3>3. AnswersAreTrue'
      BY <2>1, <2>5 DEF AnswersAreTrue
    <3> QED BY <1>1, <3>2, <3>3 DEF InfoInv
  <2> QED BY <2>3, <2>4, <2>5 DEF first, FirstQuery
<1> QED BY <1>5, <1>6

-------------------------------------------------------------------------------
(* Queries before the one that is asked.                                    *)
LEMMA FailureIsGood == FailsForAReason => GoodAnswer(Answer("failed", 0))
BY DEF GoodAnswer, Answer

LEMMA AnswerIs == \A is, of : DOMAIN Answer(is, of) = {"is", "of"} /\ Answer(is, of).is = is /\ Answer(is, of).of = of
BY DEF Answer

LEMMA NoSchemaFails ==
  ASSUME InfoInv, ask.pc # "idle", database.current = NoSchema
  PROVE  GoodAnswer(Answer("failed", 0))
BY FailureIsGood DEF FailsForAReason, InfoInv, SeenInv

LEMMA MeantIs == \A db : Tables(db) = TablesAt(db, Meant(db)) /\ Views(db) = ViewsAt(db, Meant(db))
BY DEF Tables, Views, TablesAt, ViewsAt

LEMMA LookUpSchemaKeeps == ASSUME InfoInv, LookUpSchema PROVE InfoInv'
<1>1. ask.pc = "current" /\ AtCurrent /\ Querying
  BY DEF LookUpSchema, InfoInv, AskInv
<1>2. CASE database.current = NoSchema
  <2>1. ask' = [ask EXCEPT !.pc = "answered", !.answer = Answer("failed", 0)]
    BY <1>2 DEF LookUpSchema, Answers
  <2> QED BY <1>1, <1>2, <2>1, NoSchemaFails, AnswerIs, AnswersKeep
<1>3. CASE database.current # NoSchema
  <2>1. ask' = [ask EXCEPT !.at.schema = database.current, !.pc = FirstQuery(ask.method)]
    BY <1>3 DEF LookUpSchema
  <2>2. /\ DOMAIN ask' = AskFields /\ ask'.pc = FirstQuery(ask.method) /\ ask'.at = [ask.at EXCEPT !.schema = database.current]
        /\ ask'.method = ask.method /\ ask'.name = ask.name /\ ask'.answer = ask.answer
        /\ server' = server /\ database' = database /\ seen' = seen
    BY <1>1, <2>1 DEF InfoInv, AskInv, AskFields, Querying
  <2>3. Located'
    <3>1. ASSUME NEW db, db.current = database.current PROVE Default(db, [ask.at EXCEPT !.schema = database.current]) = Meant(db)
      <4>1. DOMAIN ask.at = {"schema", "name"} /\ ask.at = SplitSchemaName(ask.name) /\ ask.at.schema = "" /\ server # "sqlite"
        BY <1>1 DEF InfoInv, AskInv, AtCurrent
      <4>2. Meant(db) = [ask.at EXCEPT !.schema = db.current]
        BY <4>1 DEF Meant, Default, CurrentSchema
      <4>3. \A at : at = [ask.at EXCEPT !.schema = db.current] => Default(db, at) = at
        BY <4>1 DEF Default, CurrentSchema
      <4> QED BY <3>1, <4>2, <4>3
    <3>2. \A db : Default(db, ask.at)' = Default(db, [ask.at EXCEPT !.schema = database.current])
      BY <2>2, Zenon DEF Default, CurrentSchema
    <3>3. \A db : Meant(db)' = Meant(db)
      BY <2>2, Unmoved
    <3> QED BY <2>2, <3>1, <3>2, <3>3 DEF Located
  <2>4. SeenInv'
    BY <1>1, <2>2 DEF InfoInv, SeenInv
  <2>5. DOMAIN ask'.at = {"schema", "name"} /\ DOMAIN ask'.answer = {"is", "of"}
    BY <2>2 DEF InfoInv, AskInv
  <2>6. CASE ask.method \in {"PrimaryKey", "ForeignKeys"}
    <3>1. ask'.pc = "exists"
      BY <2>2, <2>6 DEF FirstQuery
    <3>2. AtExists'
      BY <2>2, <2>3, <2>6 DEF AtExists
    <3>3. AskInv'
      BY <2>2, <2>5, <3>1, <3>2 DEF AskInv
    <3>4. AnswersAreTrue'
      BY <3>1 DEF AnswersAreTrue
    <3> QED BY <2>4, <3>3, <3>4 DEF InfoInv
  <2>7. CASE ask.method \in {"Columns", "RoutineExists"}
    <3>1. ask'.pc = "query"
      BY <2>2, <2>7 DEF FirstQuery
    <3>2. AtQuery'
      BY <1>1, <2>2, <2>3, <2>7 DEF AtQuery, AtCurrent
    <3>3. AskInv'
      BY <2>2, <2>5, <3>1, <3>2 DEF AskInv
    <3>4. AnswersAreTrue'
      BY <3>1 DEF AnswersAreTrue
    <3> QED BY <2>4, <3>3, <3>4 DEF InfoInv
  <2> QED BY <1>1, <2>6, <2>7 DEF AtCurrent
<1> QED BY <1>2, <1>3

(* The database that a query of the call sees, and the place it asks for.   *)
LEMMA SeenNow ==
  ASSUME InfoInv, ask.pc # "idle"
  PROVE  /\ database \in seen /\ server \in Servers /\ IsDatabase(server, database)
         /\ Located => Default(database, ask.at) = Meant(database)
BY SeenAre DEF InfoInv, SeenInv, Located

LEMMA CheckTableKeeps == ASSUME InfoInv, CheckTable PROVE InfoInv'
<1>1. ask.pc = "exists" /\ AtExists /\ Querying
  BY DEF CheckTable, InfoInv, AskInv
<1>2. database \in seen /\ server \in Servers /\ IsDatabase(server, database) /\ Default(database, ask.at) = Meant(database)
  BY <1>1, SeenNow DEF AtExists
<1>3. KindExists(database, "table", Meant(database)) <=> Tables(database) # {}
  BY <1>2, KindExistsIs, MeantIs
<1>4. CASE KindExists(database, "table", Meant(database))
  <2>1. ask' = [ask EXCEPT !.pc = "query"]
    BY <1>2, <1>4 DEF CheckTable
  <2>2. AtQuery
    BY <1>1, <1>2, <1>3, <1>4 DEF AtExists, AtQuery
  <2> QED BY <1>1, <2>1, <2>2, StepTo
<1>5. CASE ~KindExists(database, "table", Meant(database))
  <2>1. ask' = [ask EXCEPT !.pc = "answered", !.answer = NotFound]
    BY <1>2, <1>5 DEF CheckTable, Answers
  <2>2. Truth(database, NotFound)
    BY <1>1, <1>3, <1>5, AnswerIs DEF AtExists, Truth, NotFound
  <2>3. GoodAnswer(NotFound) /\ DOMAIN NotFound = {"is", "of"}
    BY <1>2, <2>2, AnswerIs DEF GoodAnswer, NotFound
  <2> QED BY <1>1, <2>1, <2>3, AnswersKeep
<1> QED BY <1>4, <1>5

LEMMA ListAnswer == ASSUME InfoInv, ask.method \in Lists, Ask PROVE InfoInv'
<1>1. ask.pc = "query" /\ AtQuery /\ Querying
  BY DEF Ask, InfoInv, AskInv
<1>2. /\ database \in seen /\ server \in Servers /\ IsDatabase(server, database)
      /\ server = "sqlite" => ask.method = "Schemas"
  BY <1>1, SeenNow DEF AtQuery, Lists
<1>3. ASSUME NEW list, \A schema : schema # "role" =>
               OfSchema(list, schema) = OfSchema(Listing(database, ask.method, ask.filter), schema)
      PROVE  GoodAnswer(Answer("list", list))
  <2>1. ListIsTrue(list)
    BY <1>2, <1>3, PromisedIs DEF ListIsTrue
  <2> QED BY <2>1, AnswerIs DEF GoodAnswer
<1>4. PICK list : /\ ask' = [ask EXCEPT !.pc = "answered", !.answer = Answer("list", list)]
                  /\ GoodAnswer(Answer("list", list))
  <2>1. CASE ask.method = "Schemas"
    <3> DEFINE list == {<<schema>> : schema \in Schemas(database)}
    <3>1. ask' = [ask EXCEPT !.pc = "answered", !.answer = Answer("list", list)]
      BY <2>1 DEF Ask, Answers
    <3>2. \A schema : schema # "role" => OfSchema(list, schema) = OfSchema(Listing(database, ask.method, ask.filter), schema)
      BY <1>2, <2>1, SchemasAre DEF OfSchema
    <3> HIDE DEF list
    <3> QED BY <1>3, <3>1, <3>2
  <2>2. CASE ask.method \in {"Tables", "Views"}
    <3> DEFINE list == List(database, IF ask.method = "Tables" THEN "table" ELSE "view", ask.filter)
    <3>1. ask' = [ask EXCEPT !.pc = "answered", !.answer = Answer("list", list)]
      BY <2>2 DEF Ask, Answers
    <3>2. list = Listing(database, ask.method, ask.filter)
      BY <1>2, <2>2, ListIs
    <3> HIDE DEF list
    <3> QED BY <1>3, <3>1, <3>2
  <2>3. CASE ask.method = "Routines"
    <3> DEFINE list == RoutinesOf(database, ask.filter)
    <3>1. ask' = [ask EXCEPT !.pc = "answered", !.answer = Answer("list", list)]
      BY <2>3 DEF Ask, Answers
    <3>2. list = Listing(database, ask.method, ask.filter)
      BY <1>2, <2>3, RoutinesAre
    <3> HIDE DEF list
    <3> QED BY <1>3, <3>1, <3>2
  <2> QED BY <2>1, <2>2, <2>3 DEF Lists
<1> QED BY <1>1, <1>4, AnswerIs, AnswersKeep

-------------------------------------------------------------------------------
(* What a query about one relation or routine sees.                         *)
LEMMA QueryAbout ==
  ASSUME InfoInv, ask.method \notin Lists, ask.pc = "query"
  PROVE  /\ database \in seen /\ server \in Servers /\ IsDatabase(server, database)
         /\ Default(database, ask.at) = Meant(database) /\ Located
         /\ ask.method \in AboutMethods
         /\ ask.method = "RoutineExists" => server # "sqlite"
         /\ ask.method \in {"PrimaryKey", "ForeignKeys"} => \E db \in seen : Tables(db) # {}
<1>1. AtQuery
  BY DEF InfoInv, AskInv
<1>2. /\ Located /\ ask.method \in AboutMethods
      /\ ask.method = "RoutineExists" => server # "sqlite"
      /\ ask.method \in {"PrimaryKey", "ForeignKeys"} => \E db \in seen : Tables(db) # {}
  BY <1>1 DEF AtQuery, AboutMethods
<1> QED BY <1>2, SeenNow

LEMMA TruthKept ==
  ASSUME InfoInv, ask.pc # "idle", Querying, NEW is \in {"sql.ErrNoRows", "bool", "columns", "fks"}, NEW of,
         ask' = [ask EXCEPT !.pc = "answered", !.answer = Answer(is, of)],
         Truth(database, Answer(is, of)) \/ OfAnotherKind(database) \/ CameAndWent(Answer(is, of))
  PROVE  InfoInv'
<1>1. database \in seen
  BY SeenNow
<1>2. GoodAnswer(Answer(is, of))
  BY <1>1, AnswerIs DEF GoodAnswer
<1> QED BY <1>2, AnswerIs, AnswersKeep

LEMMA ExistsAnswer ==
  ASSUME InfoInv, ask.method \in {"TableExists", "ViewExists", "RoutineExists"}, Ask
  PROVE  InfoInv'
<1>1. ask.pc = "query" /\ Querying /\ ask.method \notin Lists
  BY DEF Ask, Lists
<1>2. /\ database \in seen /\ server \in Servers /\ IsDatabase(server, database)
      /\ Default(database, ask.at) = Meant(database)
      /\ ask.method = "RoutineExists" => server # "sqlite"
  BY <1>1, QueryAbout
<1>3. PICK of : /\ ask' = [ask EXCEPT !.pc = "answered", !.answer = Answer("bool", of)]
                /\ Truth(database, Answer("bool", of))
  <2>1. CASE ask.method = "TableExists"
    <3>1. ask' = [ask EXCEPT !.pc = "answered", !.answer = Answer("bool", KindExists(database, "table", Meant(database)))]
      BY <1>2, <2>1 DEF Ask, Answers
    <3>2. KindExists(database, "table", Meant(database)) <=> Tables(database) # {}
      BY <1>2, KindExistsIs, MeantIs
    <3>3. Truth(database, Answer("bool", KindExists(database, "table", Meant(database))))
      BY <2>1, <3>2, AnswerIs DEF Truth
    <3> QED BY <3>1, <3>3
  <2>2. CASE ask.method = "ViewExists"
    <3>1. ask' = [ask EXCEPT !.pc = "answered", !.answer = Answer("bool", KindExists(database, "view", Meant(database)))]
      BY <1>2, <2>2 DEF Ask, Answers
    <3>2. KindExists(database, "view", Meant(database)) <=> At(database, {"view"}, Meant(database)) # {}
      BY <1>2, KindExistsIs
    <3>3. Truth(database, Answer("bool", KindExists(database, "view", Meant(database))))
      BY <2>2, <3>2, AnswerIs DEF Truth
    <3> QED BY <3>1, <3>3
  <2>3. CASE ask.method = "RoutineExists"
    <3> DEFINE found == RoutineFound(database, Meant(database), ask.signature)
    <3>1. ask' = [ask EXCEPT !.pc = "answered", !.answer = Answer("bool", found)]
      BY <1>2, <2>3 DEF Ask, Answers
    <3>2. found <=> HasRoutine(database, Meant(database), ask.signature)
      <4>1. server \in Servers \ {"sqlite"}
        BY <1>2, <2>3
      <4> QED BY <4>1, RoutineFoundIs
    <3> HIDE DEF found
    <3>3. Truth(database, Answer("bool", found))
      <4>1. Answer("bool", found).is = "bool" /\ Answer("bool", found).of = found
        BY AnswerIs
      <4> QED BY <2>3, <3>2, <4>1, Zenon DEF Truth
    <3> QED BY <3>1, <3>3
  <2> QED BY <2>1, <2>2, <2>3
<1>4. ask.pc # "idle"
  BY <1>1
<1> QED BY <1>1, <1>3, <1>4, TruthKept

LEMMA KeyAnswer == ASSUME InfoInv, ask.method = "PrimaryKey", Ask PROVE InfoInv'
<1>1. ask.pc = "query" /\ Querying /\ ask.method \notin Lists
  BY DEF Ask, Lists
<1>2. /\ database \in seen /\ server \in Servers /\ IsDatabase(server, database)
      /\ Default(database, ask.at) = Meant(database)
      /\ \E db \in seen : Tables(db) # {}
  BY <1>1, QueryAbout
<1> DEFINE key == KeyColumns(database, Meant(database))
<1>3. ask' = [ask EXCEPT !.pc = "answered", !.answer = Answer("columns", key)]
  BY <1>2 DEF Ask, Answers
<1>4. /\ \A r \in Tables(database) : key = r.key
      /\ Tables(database) = {} => key = <<>>
  BY <1>2, KeysAre, MeantIs
<1> HIDE DEF key
<1>5. CASE Tables(database) # {}
  <2>1. Truth(database, Answer("columns", key))
    BY <1>4, <1>5, AnswerIs DEF Truth
  <2> QED BY <1>1, <1>2, <1>3, <2>1, TruthKept
<1>6. CASE Tables(database) = {}
  <2>1. CameAndWent(Answer("columns", key))
    BY <1>2, <1>4, <1>6, AnswerIs DEF CameAndWent
  <2> QED BY <1>1, <1>2, <1>3, <2>1, TruthKept
<1> QED BY <1>5, <1>6

LEMMA ForeignKeysAnswer == ASSUME InfoInv, ask.method = "ForeignKeys", Ask PROVE InfoInv'
<1>1. ask.pc = "query" /\ Querying /\ ask.method \notin Lists
  BY DEF Ask, Lists
<1>2. /\ database \in seen /\ server \in Servers /\ IsDatabase(server, database)
      /\ Default(database, ask.at) = Meant(database)
      /\ \E db \in seen : Tables(db) # {}
  BY <1>1, QueryAbout
<1>3. ask' = [ask EXCEPT !.pc = "answered", !.answer = ForeignKeys(database, Meant(database))]
  BY <1>2 DEF Ask, Answers
<1>4. /\ \A r \in Tables(database) :
            IF \E f \in r.fks : f.to = <<>> THEN ForeignKeys(database, Meant(database)) = Answer("failed", 0)
            ELSE ForeignKeys(database, Meant(database)) = Answer("fks", PromisedKeys(r))
      /\ Tables(database) = {} => ForeignKeys(database, Meant(database)) = Answer("fks", {})
  BY <1>2, ForeignKeysAre, MeantIs
<1>5. ASSUME NEW r \in Tables(database), NEW f \in r.fks, f.to = <<>> PROVE InfoInv'
  <2>1. FailsForAReason
    BY <1>2, <1>5 DEF FailsForAReason
  <2>2. ask' = [ask EXCEPT !.pc = "answered", !.answer = Answer("failed", 0)]
    BY <1>3, <1>4, <1>5
  <2> QED BY <1>1, <2>1, <2>2, FailureIsGood, AnswerIs, AnswersKeep
<1>6. ASSUME NEW r \in Tables(database), ~\E f \in r.fks : f.to = <<>> PROVE InfoInv'
  <2>1. ask' = [ask EXCEPT !.pc = "answered", !.answer = Answer("fks", PromisedKeys(r))]
    BY <1>3, <1>4, <1>6
  <2>2. Truth(database, Answer("fks", PromisedKeys(r)))
    BY <1>6, AnswerIs DEF Truth
  <2> QED BY <1>1, <1>2, <2>1, <2>2, TruthKept
<1>7. CASE Tables(database) = {}
  <2>1. ask' = [ask EXCEPT !.pc = "answered", !.answer = Answer("fks", {})]
    BY <1>3, <1>4, <1>7
  <2>2. CameAndWent(Answer("fks", {}))
    BY <1>2, <1>7, AnswerIs DEF CameAndWent
  <2> QED BY <1>1, <1>2, <2>1, <2>2, TruthKept
<1> QED BY <1>5, <1>6, <1>7

LEMMA ColumnsAnswer == ASSUME InfoInv, ask.method = "Columns", Ask PROVE InfoInv'
<1>1. ask.pc = "query" /\ Querying /\ ask.method \notin Lists
  BY DEF Ask, Lists
<1>2. /\ database \in seen /\ server \in Servers /\ IsDatabase(server, database)
      /\ Default(database, ask.at) = Meant(database) /\ Located
  BY <1>1, QueryAbout
<1> DEFINE lists == ColumnLists(database, Meant(database)) \ {<<>>}
           cols == CHOOSE c \in lists : TRUE
<1>3. IF lists = {} THEN ask' = [ask EXCEPT !.pc = "either"]
      ELSE ask' = [ask EXCEPT !.pc = "answered", !.answer = Answer("columns", cols)]
  BY <1>2 DEF Ask, Answers
<1>4. CASE lists = {}
  <2>1. AtEither
    BY <1>2, <1>4 DEF AtEither
  <2> QED BY <1>1, <1>3, <1>4, <2>1, StepTo
<1>5. CASE lists # {}
  <2>1. cols \in ColumnLists(database, Meant(database))
    BY <1>5
  <2> HIDE DEF cols
  <2>2. PICK r \in RelationsAt(database, Meant(database)) : cols = PromisedColumns(r)
    BY <1>2, <2>1, ColumnsAre
  <2>3. Truth(database, Answer("columns", cols)) \/ OfAnotherKind(database)
    BY <2>2, AnswerIs DEF Truth, OfAnotherKind, RelationsAt
  <2> HIDE DEF lists
  <2> QED BY <1>1, <1>2, <1>3, <1>5, <2>3, TruthKept
<1> QED BY <1>4, <1>5

LEMMA ColumnAnswer == ASSUME InfoInv, ask.method = "ColumnExists", Ask PROVE InfoInv'
<1>1. ask.pc = "query" /\ Querying /\ ask.method \notin Lists
  BY DEF Ask, Lists
<1>2. /\ database \in seen /\ server \in Servers /\ IsDatabase(server, database)
      /\ Default(database, ask.at) = Meant(database) /\ Located
  BY <1>1, QueryAbout
<1> DEFINE lists == ColumnLists(database, Meant(database))
           found == ColumnFound(database, Meant(database), ask.column)
<1>3. IF found THEN ask' = [ask EXCEPT !.pc = "answered", !.answer = Answer("bool", TRUE)]
      ELSE IF server = "sqlite" /\ lists \ {<<>>} # {} THEN ask' = [ask EXCEPT !.pc = "answered", !.answer = Answer("bool", FALSE)]
      ELSE ask' = [ask EXCEPT !.pc = "either"]
  BY <1>2 DEF Ask, Answers
<1>4. /\ found => \E r \in RelationsAt(database, Meant(database)) : HasColumn(r, ask.column)
      /\ ~found => \A r \in Tables(database) \cup Views(database) : ~HasColumn(r, ask.column)
  BY <1>2, ColumnFoundIs, MeantIs
<1>5. \A cols \in lists : \E r \in RelationsAt(database, Meant(database)) : cols = PromisedColumns(r)
  BY <1>2, ColumnsAre
<1>6. CASE found
  <2>1. PICK r \in RelationsAt(database, Meant(database)) : HasColumn(r, ask.column)
    BY <1>4, <1>6
  <2>2. HasColumn(r, ask.column) = TRUE
    BY <2>1 DEF HasColumn
  <2>3. Truth(database, Answer("bool", TRUE)) \/ OfAnotherKind(database)
    BY <2>2, AnswerIs DEF Truth, OfAnotherKind, RelationsAt
  <2>4. ask' = [ask EXCEPT !.pc = "answered", !.answer = Answer("bool", TRUE)]
    BY <1>3, <1>6
  <2> QED BY <1>1, <1>2, <2>3, <2>4, TruthKept
<1>7. CASE ~found /\ server = "sqlite" /\ lists \ {<<>>} # {}
  <2>1. RelationsAt(database, Meant(database)) # {}
    BY <1>5, <1>7
  <2>2. \A r \in Tables(database) \cup Views(database) : HasColumn(r, ask.column) = FALSE
    BY <1>4, <1>7 DEF HasColumn
  <2>3. Truth(database, Answer("bool", FALSE)) \/ OfAnotherKind(database)
    <3>1. CASE Tables(database) \cup Views(database) = {}
      BY <2>1, <3>1 DEF OfAnotherKind, RelationsAt
    <3>2. ASSUME NEW r \in Tables(database) \cup Views(database) PROVE Truth(database, Answer("bool", FALSE))
      <4>1. Answer("bool", FALSE).is = "bool" /\ Answer("bool", FALSE).of = HasColumn(r, ask.column)
        BY <2>2, AnswerIs
      <4> QED BY <4>1 DEF Truth
    <3> QED BY <3>1, <3>2
  <2>4. ask' = [ask EXCEPT !.pc = "answered", !.answer = Answer("bool", FALSE)]
    BY <1>3, <1>7
  <2> QED BY <1>1, <1>2, <2>3, <2>4, TruthKept
<1>8. CASE ~found /\ ~(server = "sqlite" /\ lists \ {<<>>} # {})
  <2>1. AtEither
    BY <1>2, <1>8 DEF AtEither
  <2>2. ask' = [ask EXCEPT !.pc = "either"]
    BY <1>3, <1>8
  <2> QED BY <1>1, <2>1, <2>2, StepTo
<1> QED BY <1>6, <1>7, <1>8

LEMMA AskKeeps == ASSUME InfoInv, Ask PROVE InfoInv'
<1>1. ask.method \in Lists \cup AboutMethods
  BY DEF Ask, Lists, AboutMethods
<1> QED BY <1>1, ListAnswer, ExistsAnswer, KeyAnswer, ForeignKeysAnswer, ColumnsAnswer, ColumnAnswer DEF AboutMethods

LEMMA TruthOfAnother ==
  ASSUME InfoInv, ask.pc # "idle", Querying, NEW is \in {"sql.ErrNoRows", "bool", "columns", "fks"}, NEW of,
         ask' = [ask EXCEPT !.pc = "answered", !.answer = Answer(is, of)],
         NEW db \in seen, Truth(db, Answer(is, of))
  PROVE  InfoInv'
<1>1. GoodAnswer(Answer(is, of))
  BY AnswerIs DEF GoodAnswer
<1> QED BY <1>1, AnswerIs, AnswersKeep

LEMMA NoRelation ==
  ASSUME NEW db, IsDatabase(server, db), server \in Servers, ask.method \in {"Columns", "ColumnExists"},
         ~TableOrViewExists(db, Meant(db))
  PROVE  Truth(db, NotFound)
<1>1. Tables(db) \cup Views(db) = {}
  BY EitherIs, MeantIs
<1> QED BY <1>1, AnswerIs DEF Truth, NotFound

LEMMA CheckEitherKeeps == ASSUME InfoInv, CheckEither PROVE InfoInv'
<1>1. ask.pc = "either" /\ AtEither /\ Querying
  BY DEF CheckEither, InfoInv, AskInv
<1>2. /\ database \in seen /\ server \in Servers /\ IsDatabase(server, database)
      /\ Default(database, ask.at) = Meant(database) /\ ask.method \in {"Columns", "ColumnExists"}
  BY <1>1, SeenNow DEF AtEither
<1>3. CASE TableOrViewExists(database, Meant(database))
  <2>1. RelationsAt(database, Meant(database)) # {}
    BY <1>2, <1>3, EitherIs
  <2>2. OfAnotherKind(database) \/ Tables(database) \cup Views(database) # {}
    BY <1>2, <2>1 DEF OfAnotherKind, RelationsAt
  <2>3. CASE ask.method = "Columns"
    <3>1. PICK db \in seen : ColumnLists(db, Meant(db)) \subseteq {<<>>}
      BY <1>1, <2>3 DEF AtEither
    <3>2. IsDatabase(server, db)
      BY SeenAre DEF InfoInv, SeenInv
    <3>3. ask' = [ask EXCEPT !.pc = "answered", !.answer = Answer("columns", <<>>)]
      BY <1>2, <1>3, <2>3 DEF CheckEither, Answers
    <3>4. ASSUME NEW r \in Tables(db) \cup Views(db) PROVE InfoInv'
      <4>1. PromisedColumns(r) = <<>>
        BY <1>2, <3>1, <3>2, ColumnsAre, MeantIs
      <4>2. Truth(db, Answer("columns", <<>>))
        BY <2>3, <4>1, AnswerIs DEF Truth
      <4> QED BY <1>1, <3>3, <4>2, TruthOfAnother
    <3>5. CASE Tables(db) \cup Views(db) = {}
      <4>1. OfAnotherKind(database) \/ CameAndWent(Answer("columns", <<>>))
        BY <1>2, <2>2, <3>5, AnswerIs DEF CameAndWent
      <4> QED BY <1>1, <3>3, <4>1, TruthKept
    <3> QED BY <3>4, <3>5
  <2>4. CASE ask.method = "ColumnExists"
    <3>1. PICK db \in seen : ~ColumnFound(db, Meant(db), ask.column)
      BY <1>1, <2>4 DEF AtEither
    <3>2. IsDatabase(server, db)
      BY SeenAre DEF InfoInv, SeenInv
    <3>3. ask' = [ask EXCEPT !.pc = "answered", !.answer = Answer("bool", FALSE)]
      BY <1>2, <1>3, <2>4 DEF CheckEither, Answers
    <3>4. ASSUME NEW r \in Tables(db) \cup Views(db) PROVE InfoInv'
      <4>1. HasColumn(r, ask.column) = FALSE
        <5>1. ~HasColumn(r, ask.column)
          BY <1>2, <3>1, <3>2, ColumnFoundIs, MeantIs
        <5> QED BY <5>1 DEF HasColumn
      <4>2. Answer("bool", FALSE).is = "bool" /\ Answer("bool", FALSE).of = HasColumn(r, ask.column)
        BY <4>1, AnswerIs
      <4>3. Truth(db, Answer("bool", FALSE))
        BY <2>4, <4>2 DEF Truth
      <4> QED BY <1>1, <3>3, <4>3, TruthOfAnother
    <3>5. CASE Tables(db) \cup Views(db) = {}
      <4>1. OfAnotherKind(database) \/ CameAndWent(Answer("bool", FALSE))
        BY <1>2, <2>2, <2>4, <3>5, AnswerIs DEF CameAndWent
      <4> QED BY <1>1, <3>3, <4>1, TruthKept
    <3> QED BY <3>4, <3>5
  <2> QED BY <1>2, <2>3, <2>4
<1>4. CASE ~TableOrViewExists(database, Meant(database))
  <2>1. CASE ask.method = "ColumnExists" /\ ask.at.schema = "" /\ server # "sqlite"
    <3>1. ask' = [ask EXCEPT !.pc = "name"]
      BY <1>2, <1>4, <2>1 DEF CheckEither
    <3>2. AtName
      BY <1>2, <1>4, <2>1 DEF AtName
    <3> QED BY <1>1, <3>1, <3>2, StepTo
  <2>2. CASE ~(ask.method = "ColumnExists" /\ ask.at.schema = "" /\ server # "sqlite")
    <3>1. ask' = [ask EXCEPT !.pc = "answered", !.answer = Answer("sql.ErrNoRows", 0)]
      BY <1>2, <1>4, <2>2 DEF CheckEither, Answers, NotFound
    <3>2. Truth(database, Answer("sql.ErrNoRows", 0))
      BY <1>2, <1>4, NoRelation DEF NotFound
    <3> QED BY <1>1, <3>1, <3>2, TruthKept
  <2> QED BY <2>1, <2>2
<1> QED BY <1>3, <1>4

LEMMA NameRelationKeeps == ASSUME InfoInv, NameRelation PROVE InfoInv'
<1>1. ask.pc = "name" /\ AtName /\ Querying
  BY DEF NameRelation, InfoInv, AskInv
<1>2. CASE database.current = NoSchema
  <2>1. ask' = [ask EXCEPT !.pc = "answered", !.answer = Answer("failed", 0)]
    BY <1>2 DEF NameRelation, Answers
  <2> QED BY <1>1, <1>2, <2>1, NoSchemaFails, AnswerIs, AnswersKeep
<1>3. CASE database.current # NoSchema
  <2>1. ask' = [ask EXCEPT !.pc = "answered", !.answer = Answer("sql.ErrNoRows", 0)]
    BY <1>3 DEF NameRelation, Answers, NotFound
  <2>2. PICK db \in seen : ~TableOrViewExists(db, Meant(db))
    BY <1>1 DEF AtName
  <2>3. IsDatabase(server, db) /\ server \in Servers
    BY SeenAre DEF InfoInv, SeenInv
  <2>4. Truth(db, Answer("sql.ErrNoRows", 0))
    BY <1>1, <2>2, <2>3, NoRelation DEF AtName, NotFound
  <2> QED BY <1>1, <2>1, <2>4, TruthOfAnother
<1> QED BY <1>2, <1>3

-------------------------------------------------------------------------------
(* The lists of SQLite, one query per database.                             *)
LEMMA ListDatabasesKeeps == ASSUME InfoInv, ListDatabases PROVE InfoInv'
<1>1. ask.pc = "schemas" /\ AtSchemas /\ Querying
  BY DEF ListDatabases, InfoInv, AskInv
<1>2. database \in seen /\ IsDatabase(server, database) /\ server = "sqlite"
  BY <1>1, SeenNow DEF AtSchemas
<1>3. Schemas(database) = database.schemas
  BY <1>2 DEF Schemas, SqliteSchemas
<1>4. /\ DOMAIN ask' = AskFields /\ ask'.pc = "list" /\ ask'.left = database.schemas
      /\ ask'.method = ask.method /\ ask'.filter = {} /\ ask'.answer = Answer("list", {}) /\ ask'.at = ask.at
      /\ server' = server /\ database' = database /\ seen' = seen
  BY <1>1, <1>3 DEF ListDatabases, InfoInv, AskInv, AskFields, AtSchemas, Querying
<1>5. PICK d : d = database
  OBVIOUS
<1>6. ASSUME NEW schema, schema \notin d.schemas PROVE OfSchema(PromisedList(d)', schema) = {}
  <2>1. ask.method \in {"Tables", "Views"} /\ PromisedList(d)' = Listing(d, ask.method, {})
    BY <1>1, <1>4, NextPromisedIs DEF AtSchemas
  <2>2. ~InFilter(d, schema, {})
    BY <1>6 DEF InFilter, Shown
  <2>3. OfSchema(Listing(d, ask.method, {}), schema) = {}
    BY <1>2, <1>5, <2>1, <2>2, ListedBy
  <2> QED BY <2>1, <2>3
<1>7. /\ DOMAIN ask'.at = {"schema", "name"} /\ DOMAIN ask'.answer = {"is", "of"}
      /\ ask'.answer.is = "list" /\ ask'.answer.of = {}
  BY <1>4, AnswerIs DEF InfoInv, AskInv
<1>8. AtList'
  <2>1. \A schema : OfSchema({}, schema) = {}
    BY DEF OfSchema
  <2>2. d \in seen' /\ ask'.left = d.schemas
    BY <1>2, <1>4, <1>5
  <2>3. \A schema \in UNION {db.schemas : db \in Databases[server']} :
          IF schema \in ask'.left THEN OfSchema(ask'.answer.of, schema) = {}
          ELSE \E db \in seen' : OfSchema(ask'.answer.of, schema) = OfSchema(PromisedList(db)', schema)
    BY <1>6, <1>7, <2>1, <2>2
  <2>4. /\ server' = "sqlite" /\ ask'.method \in {"Tables", "Views"} /\ ask'.answer.is = "list"
        /\ ask'.left \subseteq (IF ask'.filter = {} THEN database'.schemas ELSE ask'.filter)
    BY <1>1, <1>2, <1>4, <1>7 DEF AtSchemas
  <2> QED BY <2>3, <2>4 DEF AtList, OfSchema
<1>9. AskInv'
  BY <1>4, <1>7, <1>8 DEF AskInv
<1>10. SeenInv'
  BY <1>1, <1>4 DEF InfoInv, SeenInv
<1>11. AnswersAreTrue'
  BY <1>4 DEF AnswersAreTrue
<1> QED BY <1>9, <1>10, <1>11 DEF InfoInv

LEMMA ListOfDatabaseKeeps ==
  ASSUME InfoInv, NEW schema, ListOfDatabase(schema)
  PROVE  InfoInv'
<1>1. ask.pc = "list" /\ schema \in ask.left /\ AtList /\ Querying
  BY DEF ListOfDatabase, InfoInv, AskInv
<1>2. /\ database \in seen /\ IsDatabase(server, database) /\ server = "sqlite"
      /\ ask.method \in {"Tables", "Views"}
  BY <1>1, SeenNow DEF AtList
<1>3. CASE schema \notin database.schemas
  <2>1. ask' = [ask EXCEPT !.pc = "answered", !.answer = Answer("failed", 0)]
    BY <1>3 DEF ListOfDatabase, Answers
  <2>2. schema \in ask.filter \ database.schemas
    BY <1>1, <1>3 DEF AtList
  <2>3. FailsForAReason
    BY <1>2, <2>2 DEF FailsForAReason
  <2> QED BY <1>1, <2>1, <2>3, FailureIsGood, AnswerIs, AnswersKeep
<1>4. CASE schema \in database.schemas
  <2> DEFINE list == SqliteListSchemaObjects(database, IF ask.method = "Tables" THEN "table" ELSE "view", schema)
             left == ask.left \ {schema}
  <2>1. ask' = [ask EXCEPT !.left = left, !.pc = IF left = {} THEN "answered" ELSE "list", !.answer.of = @ \cup list]
    BY <1>4 DEF ListOfDatabase
  <2> HIDE DEF left
  <2>2. /\ list = NamesIn(database, ask.method, schema)
        /\ OfSchema(list, schema) = list
        /\ \A other : other # schema => OfSchema(list, other) = {}
    <3>1. PICK l : l = list
      OBVIOUS
    <3>2. PICK d : d = database
      OBVIOUS
    <3>3. PICK method \in {"Tables", "Views"} : method = ask.method
      BY <1>2
    <3>4. l = SqliteListSchemaObjects(d, IF method = "Tables" THEN "table" ELSE "view", schema)
      BY <3>1, <3>2, <3>3
    <3> HIDE DEF list
    <3>5. l = NamesIn(d, method, schema)
      BY <1>2, <3>2, <3>4, SqliteListed
    <3>6. OfSchema(l, schema) = l
      BY <1>2, <3>2, <3>4, SqliteListed
    <3>7. \A other : other # schema => OfSchema(l, other) = {}
      BY <1>2, <3>2, <3>4, SqliteListed
    <3> QED BY <3>1, <3>2, <3>3, <3>5, <3>6, <3>7
  <2> HIDE DEF list
  <2>3. /\ DOMAIN ask' = AskFields /\ ask'.pc = (IF left = {} THEN "answered" ELSE "list") /\ ask'.left = left
        /\ ask'.method = ask.method /\ ask'.filter = ask.filter /\ ask'.at = ask.at
        /\ DOMAIN ask'.answer = {"is", "of"} /\ ask'.answer.is = "list" /\ ask'.answer.of = ask.answer.of \cup list
        /\ server' = server /\ database' = database /\ seen' = seen
    <3>1. /\ DOMAIN ask' = AskFields /\ ask'.pc = (IF left = {} THEN "answered" ELSE "list") /\ ask'.left = left
          /\ ask'.method = ask.method /\ ask'.filter = ask.filter /\ ask'.at = ask.at
          /\ ask'.answer = [ask.answer EXCEPT !.of = @ \cup list]
      BY <2>1 DEF InfoInv, AskInv, AskFields
    <3>2. DOMAIN ask.answer = {"is", "of"} /\ ask.answer.is = "list"
      BY <1>1 DEF InfoInv, AskInv, AtList
    <3> QED BY <1>1, <3>1, <3>2 DEF Querying
  <2>4. \A db : PromisedList(db)' = PromisedList(db)
    BY <2>3, PromisedUnmoved
  <2>5. OfSchema(PromisedList(database), schema) = list
    <3>1. PromisedList(database) = Listing(database, ask.method, ask.filter)
      BY PromisedIs
    <3>2. InFilter(database, schema, ask.filter)
      BY <1>1, <1>2, <1>4 DEF InFilter, Shown, AtList, IsDatabase
    <3> QED BY <1>2, <2>2, <3>1, <3>2, ListedBy
  <2>6. \A other : OfSchema(ask'.answer.of, other) = OfSchema(ask.answer.of, other) \cup OfSchema(list, other)
    BY <2>3 DEF OfSchema
  <2>7. ASSUME NEW other \in UNION {db.schemas : db \in Databases[server]}
        PROVE  IF other \in left THEN OfSchema(ask'.answer.of, other) = {}
               ELSE \E db \in seen' : OfSchema(ask'.answer.of, other) = OfSchema(PromisedList(db)', other)
    <3>1. IF other \in ask.left THEN OfSchema(ask.answer.of, other) = {}
          ELSE \E db \in seen : OfSchema(ask.answer.of, other) = OfSchema(PromisedList(db), other)
      BY <1>1 DEF AtList
    <3>2. CASE other = schema
      <4>1. OfSchema(ask'.answer.of, other) = list
        <5>1. OfSchema(ask.answer.of, other) = {} /\ OfSchema(list, other) = list
          BY <1>1, <2>2, <3>1, <3>2
        <5>2. OfSchema(ask'.answer.of, other) = OfSchema(ask.answer.of, other) \cup OfSchema(list, other)
          BY <2>6
        <5> QED BY <5>1, <5>2
      <4>2. PICK d : d = database
        OBVIOUS
      <4>3. d \in seen' /\ OfSchema(PromisedList(d)', other) = list
        BY <1>2, <2>3, <2>4, <2>5, <3>2, <4>2
      <4> QED BY <3>2, <4>1, <4>3 DEF left
    <3>3. CASE other # schema
      <4>1. OfSchema(ask'.answer.of, other) = OfSchema(ask.answer.of, other)
        <5>1. OfSchema(list, other) = {}
          BY <2>2, <3>3
        <5>2. OfSchema(ask'.answer.of, other) = OfSchema(ask.answer.of, other) \cup OfSchema(list, other)
          BY <2>6
        <5> QED BY <5>1, <5>2
      <4> QED BY <2>3, <2>4, <3>1, <3>3, <4>1 DEF left
    <3> QED BY <3>2, <3>3
  <2>8. SeenInv'
    BY <1>1, <1>2, <2>3 DEF InfoInv, SeenInv
  <2>9. CASE left # {}
    <3>1. AtList'
      <4>1. /\ server' = "sqlite" /\ ask'.method \in {"Tables", "Views"} /\ ask'.answer.is = "list"
            /\ ask'.left \subseteq (IF ask'.filter = {} THEN database'.schemas ELSE ask'.filter)
        BY <1>1, <1>2, <2>3 DEF AtList, left
      <4> QED BY <2>3, <2>7, <4>1 DEF AtList, OfSchema
    <3>2. AskInv'
      BY <2>3, <2>9, <3>1 DEF InfoInv, AskInv
    <3>3. AnswersAreTrue'
      BY <2>3, <2>9 DEF AnswersAreTrue
    <3> QED BY <2>8, <3>2, <3>3 DEF InfoInv
  <2>10. CASE left = {}
    <3>1. AskInv'
      BY <2>3, <2>10 DEF InfoInv, AskInv
    <3>2. \A other \in UNION {db.schemas : db \in seen'} : other # "role" =>
            \E db \in seen' : {x \in ask'.answer.of : x[1] = other} = {x \in PromisedList(db)' : x[1] = other}
      BY <2>3, <2>7, <2>10 DEF InfoInv, SeenInv, OfSchema
    <3>3. AnswersAreTrue'
      BY <2>3, <3>2 DEF AnswersAreTrue
    <3> QED BY <2>8, <3>1, <3>3 DEF InfoInv
  <2> QED BY <2>9, <2>10
<1> QED BY <1>3, <1>4

LEMMA QueryFailsKeeps == ASSUME InfoInv, QueryFails PROVE InfoInv'
<1>1. /\ DOMAIN ask' = AskFields /\ ask'.pc = "answered" /\ ask'.at = ask.at /\ ask'.trouble
      /\ ask'.answer = Answer("failed", 0)
  BY DEF QueryFails, InfoInv, AskInv, AskFields
<1>2. DOMAIN ask'.answer = {"is", "of"} /\ ask'.answer.is = "failed"
  BY <1>1, AnswerIs
<1>3. AskInv'
  BY <1>1, <1>2 DEF InfoInv, AskInv
<1>4. SeenInv'
  BY DEF QueryFails, Querying, InfoInv, SeenInv
<1>5. AnswersAreTrue'
  BY <1>1, <1>2 DEF AnswersAreTrue, FailsForAReason
<1> QED BY <1>3, <1>4, <1>5 DEF InfoInv

LEMMA NextAskKeeps == ASSUME InfoInv, NextAsk PROVE InfoInv'
<1>1. ask' = NoAsk /\ seen' = {} /\ server' = server /\ database' = database
  BY DEF NextAsk
<1>2. AskInv'
  BY <1>1, NoAskIs DEF AskInv
<1>3. SeenInv'
  BY <1>1, NoAskIs DEF InfoInv, SeenInv
<1>4. AnswersAreTrue'
  BY <1>1, NoAskIs DEF AnswersAreTrue
<1> QED BY <1>2, <1>3, <1>4 DEF InfoInv

LEMMA SchemaChangesKeeps == ASSUME InfoInv, NEW db \in Databases[server], SchemaChanges(db) PROVE InfoInv'
<1>1. /\ ask.pc \notin {"idle", "answered"} /\ ask' = ask /\ server' = server
      /\ database' = db /\ seen' = seen \cup {db} /\ db.current = database.current
      /\ server = "sqlite" => db.schemas = database.schemas
  BY DEF SchemaChanges
<1>2. SeenInv'
  BY <1>1 DEF InfoInv, SeenInv
<1>3. /\ AtCurrent => AtCurrent'
      /\ AtExists => AtExists'
      /\ AtQuery => AtQuery'
      /\ AtEither => AtEither'
      /\ AtName => AtName'
      /\ AtSchemas => AtSchemas'
      /\ AtList => AtList'
  <2>1. SeenInv /\ seen \subseteq seen' /\ SameCall /\ database'.current = database.current
    BY <1>1 DEF InfoInv, SameCall
  <2>2. server = "sqlite" => database'.schemas = database.schemas
    BY <1>1
  <2> QED BY <1>1, <2>1, <2>2, AtUnmoved
<1>4. AskInv'
  BY <1>1, <1>3 DEF InfoInv, AskInv
<1>5. AnswersAreTrue'
  BY <1>1 DEF AnswersAreTrue
<1> QED BY <1>2, <1>4, <1>5 DEF InfoInv

LEMMA InfoBegins == InfoInit => InfoInv
<1> SUFFICES ASSUME InfoInit PROVE InfoInv
  OBVIOUS
<1>1. AskInv
  BY NoAskIs DEF InfoInit, AskInv
<1>2. SeenInv
  BY NoAskIs DEF InfoInit, SeenInv
<1>3. AnswersAreTrue
  BY NoAskIs DEF InfoInit, AnswersAreTrue
<1> QED BY <1>1, <1>2, <1>3 DEF InfoInv

LEMMA InfoStutters == ASSUME InfoInv, UNCHANGED infoVars PROVE InfoInv'
<1>1. ask' = ask /\ server' = server /\ database' = database /\ seen' = seen
  BY DEF infoVars
<1>2. SeenInv'
  BY <1>1 DEF InfoInv, SeenInv
<1>3. AskInv'
  <2>1. SeenInv /\ seen \subseteq seen' /\ SameCall /\ database'.current = database.current
        /\ database'.schemas = database.schemas
    BY <1>1 DEF InfoInv, SameCall
  <2>2. /\ AtCurrent => AtCurrent'
        /\ AtExists => AtExists'
        /\ AtQuery => AtQuery'
        /\ AtEither => AtEither'
        /\ AtName => AtName'
        /\ AtSchemas => AtSchemas'
        /\ AtList => AtList'
    BY <1>1, <2>1, AtUnmoved
  <2> QED BY <1>1, <2>2 DEF InfoInv, AskInv
<1>4. AnswersAreTrue'
  <2>1. \A db : Meant(db)' = Meant(db) /\ Tables(db)' = Tables(db) /\ Views(db)' = Views(db)
    BY <1>1, Unmoved
  <2>2. \A db : PromisedList(db)' = PromisedList(db)
    BY <1>1, PromisedUnmoved
  <2>3. \A r : PromisedColumns(r)' = PromisedColumns(r)
    BY <1>1, Unmoved
  <2>4. \A db : Kept(db)' <=> Kept(db)
    BY <1>1, <2>1, <2>3, ZenonT(60) DEF Kept, ForOneOf
  <2>5. \A db : OfAnotherKind(db)' <=> OfAnotherKind(db)
    BY <1>1, <2>1 DEF OfAnotherKind
  <2>6. (CameOrWent' <=> CameOrWent) /\ (FailsForAReason' <=> FailsForAReason)
    BY <1>1, <2>1 DEF CameOrWent, FailsForAReason
  <2> QED BY <1>1, <2>2, <2>4, <2>5, <2>6, Zenon DEF InfoInv, AnswersAreTrue
<1> QED BY <1>2, <1>3, <1>4 DEF InfoInv

LEMMA InfoSteps == InfoInv /\ [InfoNext]_infoVars => InfoInv'
<1> SUFFICES ASSUME InfoInv, [InfoNext]_infoVars PROVE InfoInv'
  OBVIOUS
<1>1. ASSUME NEW method \in {"Tables", "Views", "Routines"}, NEW filter \in Filters, AskForList(method, filter)
      PROVE  InfoInv'
  BY <1>1, AskForListKeeps DEF Lists
<1>2. CASE AskForList("Schemas", {})
  BY <1>2, AskForListKeeps DEF Lists
<1>3. ASSUME NEW method \in {"TableExists", "ViewExists", "Columns", "PrimaryKey", "ForeignKeys"}, NEW name \in RelationNames,
             AskAbout(method, name, "", <<>>)
      PROVE  InfoInv'
  BY <1>3, AskAboutKeeps DEF AboutMethods
<1>4. ASSUME NEW name \in RelationNames, NEW column \in ColumnNames, AskAbout("ColumnExists", name, column, <<>>)
      PROVE  InfoInv'
  BY <1>4, AskAboutKeeps DEF AboutMethods
<1>5. ASSUME NEW name \in RoutineNames, NEW signature \in Signatures, AskAbout("RoutineExists", name, "", signature)
      PROVE  InfoInv'
  BY <1>5, AskAboutKeeps DEF AboutMethods
<1>6. CASE LookUpSchema
  BY <1>6, LookUpSchemaKeeps
<1>7. CASE CheckTable
  BY <1>7, CheckTableKeeps
<1>8. CASE Ask
  BY <1>8, AskKeeps
<1>9. CASE CheckEither
  BY <1>9, CheckEitherKeeps
<1>10. CASE NameRelation
  BY <1>10, NameRelationKeeps
<1>11. CASE ListDatabases
  BY <1>11, ListDatabasesKeeps
<1>12. ASSUME NEW schema \in ask.left, ListOfDatabase(schema) PROVE InfoInv'
  BY <1>12, ListOfDatabaseKeeps
<1>13. CASE QueryFails
  BY <1>13, QueryFailsKeeps
<1>14. CASE NextAsk
  BY <1>14, NextAskKeeps
<1>15. ASSUME NEW db \in Databases[server], SchemaChanges(db) PROVE InfoInv'
  BY <1>15, SchemaChangesKeeps
<1>16. CASE UNCHANGED infoVars
  BY <1>16, InfoStutters
<1> QED BY <1>1, <1>2, <1>3, <1>4, <1>5, <1>6, <1>7, <1>8, <1>9, <1>10, <1>11, <1>12, <1>13, <1>14, <1>15, <1>16
        DEF InfoNext

(* information.go, for all databases, arguments and servers: what a method  *)
(* answers is true of the database at some moment of the call, however the  *)
(* schema changes between its queries, and it fails only when a query does. *)
(* Excepted are the answer of an empty relation when the relation came or   *)
(* went during the call (CameOrWent), which may have been true at no        *)
(* moment, and Columns and ColumnExists at the name of a relation that is   *)
(* neither a table nor a view (OfAnotherKind).                              *)
THEOREM AnswersTrue == InfoSpec => []AnswersAreTrue
<1>1. InfoInv => AnswersAreTrue
  BY DEF InfoInv
<1> QED BY <1>1, InfoBegins, InfoSteps, PTL DEF InfoSpec

===============================================================================
