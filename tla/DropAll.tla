-------------------------------- MODULE DropAll --------------------------------
(***************************************************************************)
(* The drop-all helpers of the drivers (dropall.go): each lists objects of *)
(* one kind after the other and drops them one by one.  mysqlconn and      *)
(* sqliteconn do it with the foreign key checks of the session switched    *)
(* off, mssqlconn and oraconn drop the foreign keys first, pqconn has one  *)
(* query per kind.  Every call may fail, and others drop things meanwhile. *)
(* The connection has one session: a pinned one, SQLite's or, except on    *)
(* SQLite, where the PRAGMA would have no effect in it, a transaction.     *)
(***************************************************************************)
EXTENDS Naturals, Sequences

CONSTANTS
  Catalogs   \* what the database holds: records of objects, [object -> kind], refs, the
             \* foreign keys as pairs of tables, and uses, pairs of an object and one that
             \* its definition needs, such as a type or the table of a view

(* What a table needs of another one is a foreign key.                      *)
ASSUME CatalogsAssumption ==
  \A c \in Catalogs :
    /\ DOMAIN c = {"objects", "refs", "uses"}
    /\ \A u \in c.uses :
         /\ u[1] \in DOMAIN c.objects /\ u[2] \in DOMAIN c.objects
         /\ c.objects[u[1]] = "table" => c.objects[u[2]] # "table"

VARIABLES
  catalog,   \* the database
  checks,    \* foreign key checks of the session
  drop,      \* the call: its driver, steps to do, names listed, errors to return
  trouble,   \* history: statements that failed for no reason of the catalog
  vanished   \* history: objects and foreign keys that others removed during the call

dropVars == <<catalog, checks, drop, trouble, vanished>>

-------------------------------------------------------------------------------
(* The steps of DropAll, DropAllTables of mysqlconn and sqliteconn, and the *)
(* queries of pqconn.  The step "restore" is deferred by "off".             *)

MysqlSteps == <<"table">>
SqliteSteps == <<"table">>
PqSteps == <<"table", "type">>

(* Mutant of MssqlSteps: types before tables. *)
MssqlStepsTypesFirst == <<"type", "fk", "table">>

MssqlSteps == <<"fk", "table", "type">>

(* "procedure" stands for procedures, functions and packages. *)
OracleSteps == <<"synonym", "view", "procedure", "fk", "table", "type", "sequence">>

Steps ==
  [mysql |-> MysqlSteps, sqlite |-> SqliteSteps, mssql |-> MssqlSteps, oracle |-> OracleSteps,
   pq |-> PqSteps]

SwitchesChecks(driver) == driver \in {"mysql", "sqlite"}

Of(kind) == {o \in DOMAIN catalog.objects : catalog.objects[o] = kind}
Listed(kind) == IF kind = "fk" THEN catalog.refs ELSE Of(kind)

Without(o) ==
  [objects |-> [p \in DOMAIN catalog.objects \ {o} |-> catalog.objects[p]],
   refs |-> {r \in catalog.refs : o \notin {r[1], r[2]}},
   uses |-> {u \in catalog.uses : o \notin {u[1], u[2]}}]

NoneVanished == [objects |-> {}, refs |-> {}]
NoDrop == [driver |-> "pq", pc |-> "idle", step |-> 1, todo |-> {}, err |-> {}]

DropInit ==
  /\ catalog \in Catalogs
  /\ checks = TRUE
  /\ drop = NoDrop
  /\ trouble = {} /\ vanished = NoneVanished

KindOfStep == Steps[drop.driver][drop.step]

(* Mutant of IsLast: the loop ends one step early. *)
IsLastButOne(step) == step + 1 >= Len(Steps[drop.driver])

IsLast(step) == step = Len(Steps[drop.driver])
End(driver, off) == IF SwitchesChecks(driver) /\ off THEN "restore" ELSE "returned"

-------------------------------------------------------------------------------
CallDropAll(driver) ==
  /\ drop.pc = "idle"
  /\ drop' = [NoDrop EXCEPT !.driver = driver, !.pc = "list"]
  /\ trouble' = {} /\ vanished' = NoneVanished
  /\ UNCHANGED <<catalog, checks>>

(* A statement fails for a reason of its own, such as a done context. *)
StatementFails(pc) ==
  /\ drop' = [drop EXCEPT !.pc = pc, !.err = @ \cup {drop.pc}]
  /\ trouble' = trouble \cup {drop.pc}

(* The names are read to the end and the rows closed before the first drop. *)
ListNames ==
  /\ drop.pc = "list" /\ drop.driver # "pq"
  /\ \/ /\ drop' = [drop EXCEPT !.todo = Listed(KindOfStep),
                                !.pc = IF ~SwitchesChecks(drop.driver) THEN "drop"
                                       ELSE IF Of("table") = {} THEN "returned" ELSE "off"]
        /\ UNCHANGED trouble
     \/ StatementFails("returned")
  /\ UNCHANGED <<catalog, checks, vanished>>

(* SET FOREIGN_KEY_CHECKS = 0, PRAGMA foreign_keys = OFF *)
SwitchChecksOff ==
  /\ drop.pc = "off"
  /\ \/ checks' = FALSE /\ drop' = [drop EXCEPT !.pc = "drop"] /\ UNCHANGED trouble
     \/ StatementFails("returned") /\ UNCHANGED checks
  /\ UNCHANGED <<catalog, vanished>>

(* When the database refuses to drop o, which exists: tables others refer   *)
(* to, and on SQL Server the tables of bound views and types that are used. *)
Blocked(o) ==
  \/ /\ KindOfStep = "table" /\ drop.driver \in {"mysql", "sqlite", "mssql"} /\ checks
     /\ \E r \in catalog.refs : r[2] = o /\ r[1] # o
  \/ /\ KindOfStep \in {"table", "type"} /\ drop.driver = "mssql"
     /\ \E u \in catalog.uses : u[2] = o

Exists(o) == IF KindOfStep = "fk" THEN o \in catalog.refs ELSE o \in DOMAIN catalog.objects

(* IF EXISTS; isTableOrViewNotFound for a table, and for a foreign key whose *)
(* own table is gone.                                                       *)
Tolerated(o) ==
  \/ drop.driver \in {"mysql", "sqlite"}
  \/ /\ drop.driver = "oracle"
     /\ KindOfStep = "table" \/ (KindOfStep = "fk" /\ o[1] \notin DOMAIN catalog.objects)

Dropped(o) == IF KindOfStep = "fk" THEN [catalog EXCEPT !.refs = @ \ {o}] ELSE Without(o)

(* One statement of the list. *)
DropOne(o) ==
  /\ drop.pc = "drop" /\ o \in drop.todo
  /\ LET off == SwitchesChecks(drop.driver)
         refused == (Exists(o) /\ Blocked(o)) \/ (~Exists(o) /\ ~Tolerated(o))
     IN \/ /\ refused
           /\ drop' = [drop EXCEPT !.pc = End(drop.driver, off), !.err = @ \cup {"refused"}]
           /\ UNCHANGED <<catalog, trouble>>
        \/ /\ ~refused
           /\ catalog' = IF Exists(o) THEN Dropped(o) ELSE catalog
           /\ drop' = [drop EXCEPT !.todo = @ \ {o}]
           /\ UNCHANGED trouble
        \/ StatementFails(End(drop.driver, off)) /\ UNCHANGED catalog
  /\ UNCHANGED <<checks, vanished>>

(* What stays when tables and types go with CASCADE: the other objects that *)
(* need none of them, also not through others.                              *)
Independent ==
  UNION {rest \in SUBSET (DOMAIN catalog.objects \ (Of("table") \cup Of("type"))) :
           \A u \in catalog.uses : u[1] \in rest => u[2] \in rest}

(* DropAllQuery: tables and types with CASCADE, in one query.              *)
DropByQuery ==
  /\ drop.pc = "list" /\ drop.driver = "pq"
  /\ \/ /\ catalog' = [objects |-> [o \in Independent |-> catalog.objects[o]],
                       refs |-> catalog.refs \cap (Independent \X Independent),
                       uses |-> catalog.uses \cap (Independent \X Independent)]
        /\ drop' = [drop EXCEPT !.pc = "returned"]
        /\ UNCHANGED trouble
     \/ StatementFails("returned") /\ UNCHANGED catalog
  /\ UNCHANGED <<checks, vanished>>

(* The list is done: the next one, or the end. *)
StepDone ==
  /\ drop.pc = "drop" /\ drop.todo = {}
  /\ drop' = IF IsLast(drop.step) THEN [drop EXCEPT !.pc = End(drop.driver, TRUE)]
             ELSE [drop EXCEPT !.step = @ + 1, !.pc = "list"]
  /\ UNCHANGED <<catalog, checks, trouble, vanished>>

(* Mutant of RestoreChecks: only after success. *)
RestoreChecksAfterSuccess ==
  /\ drop.pc = "restore"
  /\ checks' = IF drop.err = {} THEN TRUE ELSE checks
  /\ drop' = [drop EXCEPT !.pc = "returned"]
  /\ UNCHANGED <<catalog, trouble, vanished>>

(* The deferred statement, its error joined. *)
RestoreChecks ==
  /\ drop.pc = "restore"
  /\ \/ checks' = TRUE /\ drop' = [drop EXCEPT !.pc = "returned"] /\ UNCHANGED trouble
     \/ StatementFails("returned") /\ UNCHANGED checks
  /\ UNCHANGED <<catalog, vanished>>

(* The next call, on a fresh session of a fresh database. *)
DropReturned ==
  /\ drop.pc = "returned"
  /\ drop' = NoDrop /\ checks' = TRUE /\ trouble' = {} /\ vanished' = NoneVanished
  /\ catalog' \in Catalogs

(* While the call runs somebody else drops an object, and with a table  *)
(* its foreign keys and those to it, or a foreign key alone.  SQL Server    *)
(* drops no table that others refer to and nothing that is used.            *)
ObjectDisappears(o) ==
  /\ drop.pc \notin {"idle", "returned"}
  /\ drop.driver = "mssql" =>
       /\ \A r \in catalog.refs : r[2] = o => r[1] = o
       /\ \A u \in catalog.uses : u[2] # o
  /\ catalog' = Without(o)
  /\ vanished' = [objects |-> vanished.objects \cup {o},
                  refs |-> vanished.refs \cup {r \in catalog.refs : o \in {r[1], r[2]}}]
  /\ UNCHANGED <<checks, drop, trouble>>

ForeignKeyDisappears(r) ==
  /\ drop.pc \notin {"idle", "returned"}
  /\ catalog' = [catalog EXCEPT !.refs = @ \ {r}]
  /\ vanished' = [vanished EXCEPT !.refs = @ \cup {r}]
  /\ UNCHANGED <<checks, drop, trouble>>

DropNext ==
  \/ \E driver \in DOMAIN Steps : CallDropAll(driver)
  \/ ListNames \/ SwitchChecksOff
  \/ \E o \in drop.todo : DropOne(o)
  \/ DropByQuery \/ StepDone \/ RestoreChecks \/ DropReturned
  \/ \E o \in DOMAIN catalog.objects : ObjectDisappears(o)
  \/ \E r \in catalog.refs : ForeignKeyDisappears(r)

DropSpec == DropInit /\ [][DropNext]_dropVars

-------------------------------------------------------------------------------
(* dropall.go: a call that returns nil has left nothing of the kinds it     *)
(* drops, also not what another kind depended on.                           *)
NothingIsLeft ==
  (drop.pc = "returned" /\ drop.err = {}) =>
    \A i \in DOMAIN Steps[drop.driver] : Listed(Steps[drop.driver][i]) = {}

(* What others removed of the kind that is being dropped, and what an object *)
(* that is no table needs.                                                  *)
Vanished == IF KindOfStep = "fk" THEN vanished.refs ELSE vanished.objects
UsedByOthers(o) ==
  KindOfStep # "fk" /\ \E u \in catalog.uses : u[2] = o /\ catalog.objects[u[1]] # "table"

(* mysqlconn/dropall.go:12, oraconn/dropall.go:30: tables are dropped in    *)
(* any order whatever their foreign keys, circular ones included.  Besides  *)
(* a statement that fails by itself, a call fails only                      *)
(*   - on SQL Server, whose statements have no IF EXISTS, for something that *)
(*     others removed after it was listed, or that an object other than a   *)
(*     table uses: a view bound to a table, a type or procedure with a type; *)
(*   - on Oracle for something that others removed, unless that is a table. *)
(* Nothing the call has dropped itself is missing to it, and no foreign key *)
(* and no column of a table is in its way.                                  *)
OrderNeverFails ==
  drop.pc = "returned" =>
    /\ trouble \subseteq drop.err /\ drop.err \subseteq trouble \cup {"refused"}
    /\ "refused" \in drop.err =>
         \/ drop.driver = "mssql" /\ \E o \in drop.todo : o \in Vanished \/ UsedByOthers(o)
         \/ drop.driver = "oracle" /\ KindOfStep # "table" /\ drop.todo \cap Vanished # {}

(* mysqlconn/dropall.go:43: a session does not stay without foreign key     *)
(* checks unless the error of the call tells that they were not restored.   *)
ChecksAreRestored == (drop.pc = "returned" /\ ~checks) => "restore" \in drop.err

===============================================================================
