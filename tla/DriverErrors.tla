----------------------------- MODULE DriverErrors -----------------------------
(***************************************************************************)
(* errors.go and wrapKnownErrors of the drivers: an error of a database has *)
(* a code and the words of a message; a driver joins it with an error of   *)
(* sqldb that the application, and the retries of package db, recognize on *)
(* every database.  Not every method of a driver wraps what it returns.    *)
(***************************************************************************)
EXTENDS Naturals, FiniteSets

CONSTANT Names   \* constraint and table names: the sets of words they contain

ASSUME DriverErrorsAssumption == \A name \in Names : IsFiniteSet(name)

VARIABLES
  raised,    \* what happened in the database, the driver and the method
  returned   \* what the driver returns

errorVars == <<raised, returned>>

Drivers == {"pq", "sqlite", "mysql", "mssql", "oracle"}

-------------------------------------------------------------------------------
(* Errors of sqldb, and what errors.Is and errors.As find in them.          *)
Violations ==
  {"ErrRestrictViolation", "ErrNotNullViolation", "ErrForeignKeyViolation", "ErrUniqueViolation",
   "ErrCheckViolation", "ErrExclusionViolation"}

Unwrapped(class) ==
  {class} \cup (IF class \in Violations THEN {"ErrIntegrityConstraintViolation"} ELSE {})
          \cup (IF class = "ErrQueryCanceled" THEN {"context.Canceled"} ELSE {})

-------------------------------------------------------------------------------
(* Databases: the codes of what happens, those that no driver knows too.    *)
(* Codes of pq are SQLSTATEs; MysqlCodes has those of MariaDB as well.      *)
PqCodes ==
  [notNull |-> {"23502"}, unique |-> {"23505"}, parent |-> {"23503"}, children |-> {"23503", "23001"},
   check |-> {"23514"}, exclusion |-> {"23P01"}, integrity |-> {"23000"}, null |-> {"22004"},
   deadlock |-> {"40P01"}, serialization |-> {"40001"}, canceled |-> {"57014"}, raise |-> {"P0001"},
   other |-> {"42P01", "44000"}]
MysqlCodes ==
  [notNull |-> {1048, 1364}, unique |-> {1062}, parent |-> {1216, 1452}, children |-> {1217, 1451},
   check |-> {3819, 4025}, deadlock |-> {1213}, serialization |-> {1020}, canceled |-> {1317},
   raise |-> {1644}, other |-> {1146}]
MssqlCodes ==
  [notNull |-> {515}, unique |-> {2601, 2627}, parent |-> {547}, children |-> {547}, check |-> {547},
   deadlock |-> {1205}, serialization |-> {3960}, raise |-> {50000, 51000}, other |-> {208}]
OracleCodes ==
  [notNull |-> {1400, 1407}, unique |-> {1}, parent |-> {2291}, children |-> {2292}, check |-> {2290},
   deadlock |-> {60}, serialization |-> {8177}, canceled |-> {1013}, raise |-> {20000, 20500, 20999},
   other |-> {942, 21000}]
SqliteCodes ==
  [notNull |-> {"constraint"}, unique |-> {"constraint"}, parent |-> {"constraint"},
   children |-> {"constraint"}, check |-> {"constraint"}, integrity |-> {"constraint"},
   raise |-> {"constraint"}, canceled |-> {"interrupt"}, other |-> {"busy", "locked", "readonly", "error"}]

CodesOf(driver) ==
  [pq |-> PqCodes, mysql |-> MysqlCodes, mssql |-> MssqlCodes, oracle |-> OracleCodes,
   sqlite |-> SqliteCodes][driver]

(* What a message says: its own words and those of the names in it.         *)
Words(driver, what, name) ==
  name \cup
  (IF driver = "sqlite"
   THEN CASE what = "notNull" -> {"not_null"} [] what = "unique" -> {"unique"}
          [] what \in {"parent", "children"} -> {"foreign_key"} [] what = "check" -> {"check"}
          [] OTHER -> {}
   ELSE CASE what = "parent" -> {"foreign_key"} [] what = "children" -> {"reference"}
          [] what = "check" -> {"check"} [] OTHER -> {})

-------------------------------------------------------------------------------
(* wrapKnownErrors: the error of sqldb to join, or none.                *)
PqClass(code) ==
  CASE code = "23000" -> "ErrIntegrityConstraintViolation" [] code = "23001" -> "ErrRestrictViolation"
    [] code = "23502" -> "ErrNotNullViolation" [] code = "23503" -> "ErrForeignKeyViolation"
    [] code = "23505" -> "ErrUniqueViolation" [] code = "23514" -> "ErrCheckViolation"
    [] code = "22004" -> "ErrNullValueNotAllowed"
    [] code = "40P01" -> "ErrDeadlock" [] code = "40001" -> "ErrSerializationFailure"
    [] code = "57014" -> "ErrQueryCanceled" [] code = "23P01" -> "ErrExclusionViolation"
    [] code = "P0001" -> "ErrRaisedException" [] OTHER -> "none"

MysqlClass(code) ==
  CASE code = 1213 -> "ErrDeadlock" [] code = 1644 -> "ErrRaisedException"
    [] code = 1048 -> "ErrNotNullViolation" [] code = 1062 -> "ErrUniqueViolation"
    [] code \in {1216, 1217, 1451, 1452} -> "ErrForeignKeyViolation"
    [] code = 3819 -> "ErrCheckViolation" [] OTHER -> "none"

(* 547 is told apart by the text. *)
MssqlClass(code, words) ==
  CASE code = 515 -> "ErrNotNullViolation"
    [] code = 547 -> IF "foreign_key" \in words THEN "ErrForeignKeyViolation" ELSE "ErrCheckViolation"
    [] code = 1205 -> "ErrDeadlock" [] code = 50000 -> "ErrRaisedException"
    [] code \in {2601, 2627} -> "ErrUniqueViolation" [] OTHER -> "none"

(* Mutant of OracleClass: the range of user errors has no end. *)
OracleClassUnbounded(code) ==
  CASE code = 1 -> "ErrUniqueViolation" [] code = 1400 -> "ErrNotNullViolation"
    [] code \in {2291, 2292} -> "ErrForeignKeyViolation" [] code = 2290 -> "ErrCheckViolation"
    [] code = 60 -> "ErrDeadlock" [] code = 8177 -> "ErrSerializationFailure"
    [] code = 1013 -> "ErrQueryCanceled" [] code >= 20000 -> "ErrRaisedException" [] OTHER -> "none"

OracleClass(code) ==
  CASE code = 1 -> "ErrUniqueViolation" [] code = 1400 -> "ErrNotNullViolation"
    [] code \in {2291, 2292} -> "ErrForeignKeyViolation" [] code = 2290 -> "ErrCheckViolation"
    [] code = 60 -> "ErrDeadlock" [] code = 8177 -> "ErrSerializationFailure"
    [] code = 1013 -> "ErrQueryCanceled" [] code \in 20000..20999 -> "ErrRaisedException" [] OTHER -> "none"

(* The words are looked for one after the other.                            *)
SqliteClass(code, words) ==
  CASE code = "interrupt" -> "context.Canceled"
    [] code \notin {"interrupt", "constraint"} -> "none"
    [] code = "constraint" ->
         IF "foreign_key" \in words THEN "ErrForeignKeyViolation"
         ELSE IF "unique" \in words THEN "ErrUniqueViolation"
         ELSE IF "not_null" \in words THEN "ErrNotNullViolation"
         ELSE IF "check" \in words THEN "ErrCheckViolation"
         ELSE "ErrIntegrityConstraintViolation"

WrapKnownErrors(r) ==
  LET class == CASE r.driver = "pq" -> PqClass(r.code)
                 [] r.driver = "mysql" -> MysqlClass(r.code)
                 [] r.driver = "mssql" -> MssqlClass(r.code, r.words)
                 [] r.driver = "oracle" -> OracleClass(r.code)
                 [] r.driver = "sqlite" -> SqliteClass(r.code, r.words)
  IN Unwrapped(class) \ {"none"}

(* The methods of connections, transactions and statements that wrap.       *)
Methods == {"Exec", "ExecRowsAffected", "Query", "Prepare", "Begin", "Rows", "Commit", "Rollback"}
Wraps(driver, method) ==
  \/ method \in {"Exec", "ExecRowsAffected", "Query", "Prepare", "Begin"}
  \/ driver = "sqlite" /\ method = "Rows"

-------------------------------------------------------------------------------
(* IsUniqueViolation, IsForeignKeyViolation, ... of the driver packages: the *)
(* codes for which the function for an error of sqldb holds.                *)
PqIs ==
  [ErrIntegrityConstraintViolation |-> {"23000", "23001", "23502", "23503", "23505", "23514", "23P01"},
   ErrRestrictViolation |-> {"23001"}, ErrNotNullViolation |-> {"23502"},
   ErrForeignKeyViolation |-> {"23503"}, ErrUniqueViolation |-> {"23505"},
   ErrCheckViolation |-> {"23514"}, ErrExclusionViolation |-> {"23P01"},
   ErrSerializationFailure |-> {"40001"}, ErrDeadlock |-> {"40P01"},
   ErrQueryCanceled |-> {"57014"}, ErrRaisedException |-> {"P0001"}]

(* Mutant of MysqlIs: the old codes of foreign keys are forgotten. *)
MysqlIsNew ==
  [ErrDeadlock |-> {1213}, ErrNotNullViolation |-> {1048}, ErrUniqueViolation |-> {1062},
   ErrForeignKeyViolation |-> {1451, 1452}, ErrCheckViolation |-> {3819}]

MysqlIs ==
  [ErrDeadlock |-> {1213}, ErrNotNullViolation |-> {1048}, ErrUniqueViolation |-> {1062},
   ErrForeignKeyViolation |-> {1216, 1217, 1451, 1452}, ErrCheckViolation |-> {3819}]
MssqlIs ==
  [ErrDeadlock |-> {1205}, ErrNotNullViolation |-> {515}, ErrUniqueViolation |-> {2601, 2627},
   ErrForeignKeyViolation |-> {547}, ErrCheckViolation |-> {547}]
OracleIs ==
  [ErrUniqueViolation |-> {1}, ErrNotNullViolation |-> {1400}, ErrForeignKeyViolation |-> {2291, 2292},
   ErrCheckViolation |-> {2290}, ErrDeadlock |-> {60}, ErrQueryCanceled |-> {1013}]
SqliteIs ==
  [class \in {"ErrIntegrityConstraintViolation", "ErrForeignKeyViolation", "ErrUniqueViolation",
              "ErrNotNullViolation", "ErrCheckViolation"} |-> {"constraint"}]

IsOf(driver) ==
  [pq |-> PqIs, mysql |-> MysqlIs, mssql |-> MssqlIs, oracle |-> OracleIs, sqlite |-> SqliteIs][driver]

(* Where codes do not tell errors apart the functions look for a word.      *)
WordOf ==
  [ErrForeignKeyViolation |-> "foreign_key", ErrUniqueViolation |-> "unique",
   ErrNotNullViolation |-> "not_null", ErrCheckViolation |-> "check"]
LooksForWord(driver, class) ==
  \/ driver = "sqlite" /\ class # "ErrIntegrityConstraintViolation"
  \/ driver = "mssql" /\ class \in {"ErrForeignKeyViolation", "ErrCheckViolation"}

Is(r, class) ==
  /\ r.code \in IsOf(r.driver)[class]
  /\ LooksForWord(r.driver, class) => WordOf[class] \in r.words

-------------------------------------------------------------------------------
Nothing == [driver |-> "pq", what |-> "nothing"]

ErrorsInit == raised = Nothing /\ returned = {}

(* A call of a method fails. *)
Fail(driver, what, code, name, method) ==
  /\ raised = Nothing
  /\ LET r == [driver |-> driver, what |-> what, code |-> code, words |-> Words(driver, what, name),
               method |-> method]
     IN raised' = r /\ returned' = IF Wraps(driver, method) THEN WrapKnownErrors(r) ELSE {}

Handle == raised # Nothing /\ raised' = Nothing /\ returned' = {}

ErrorsNext ==
  \/ \E driver \in Drivers : \E what \in DOMAIN CodesOf(driver) :
       \E code \in CodesOf(driver)[what], name \in Names, method \in Methods :
          Fail(driver, what, code, name, method)
  \/ Handle

ErrorsSpec == ErrorsInit /\ [][ErrorsNext]_errorVars

-------------------------------------------------------------------------------
(* What the error of sqldb is for what happened.                            *)
Meaning ==
  [notNull |-> "ErrNotNullViolation", unique |-> "ErrUniqueViolation",
   parent |-> "ErrForeignKeyViolation", children |-> "ErrForeignKeyViolation",
   check |-> "ErrCheckViolation", exclusion |-> "ErrExclusionViolation",
   integrity |-> "ErrIntegrityConstraintViolation", null |-> "ErrNullValueNotAllowed",
   deadlock |-> "ErrDeadlock", serialization |-> "ErrSerializationFailure",
   canceled |-> "context.Canceled", raise |-> "ErrRaisedException", other |-> "none"]

(* Codes of the servers for which the drivers have no case.                 *)
NotKnown ==
  [pq |-> {}, sqlite |-> {}, mysql |-> {1020, 1317, 1364, 4025}, mssql |-> {3960, 51000}, oracle |-> {1407}]

(* What the drivers take an error for: PostgreSQL tells a key that          *)
(* restricts from other foreign keys, SQLite has no code for RAISE.         *)
Expected(driver, what, code) ==
  CASE code \in NotKnown[driver] -> "none"
    [] driver = "pq" /\ code = "23001" -> "ErrRestrictViolation"
    [] driver = "sqlite" /\ what = "raise" -> "ErrIntegrityConstraintViolation"
    [] OTHER -> Meaning[what]

(* Violations that are told apart by words, and whose words are not those   *)
(* of their kind alone: SQL Server says REFERENCE for a delete of a         *)
(* referenced row, and names in messages may contain the words.             *)
ToldByWords(r) == (r.driver = "mssql" /\ r.code = 547) \/ (r.driver = "sqlite" /\ r.code = "constraint")
Ambiguous(r) ==
  /\ ToldByWords(r)
  /\ (r.driver = "mssql" /\ r.what = "children") \/ r.words # Words(r.driver, r.what, {})

(* wrapKnownErrors of the five drivers: an error a wrapping method returns  *)
(* is the one error of sqldb for what happened in the database and no other *)
(* one, except that an error with a code of NotKnown is returned as it      *)
(* came, and that of an Ambiguous one only this holds: it is an integrity   *)
(* constraint violation, perhaps of another kind.                           *)
KnownErrorsAreClassified ==
  (raised # Nothing /\ Wraps(raised.driver, raised.method)) =>
    IF Ambiguous(raised) THEN "ErrIntegrityConstraintViolation" \in returned
    ELSE returned \ {"ErrQueryCanceled"} =
           Unwrapped(Expected(raised.driver, raised.what, raised.code)) \ {"none"}

(* Another function that finds its word, and whose error is the wrapped one. *)
HidesBehind(r, class) ==
  \E other \in DOMAIN IsOf(r.driver) \cap DOMAIN WordOf :
    other # class /\ Is(r, other) /\ other \in WrapKnownErrors(r)

(* pqconn/errors.go:163 and the functions of the other drivers, on every    *)
(* error: a function that holds tells what the wrapped error is, unless the *)
(* message has the words of several and the wrapped error is that of        *)
(* another function that holds too; and the function of the wrapped error   *)
(* holds, but for ErrCheckViolation of SQL Server, which is wrapped around  *)
(* each 547 without FOREIGN KEY where IsCheckViolation looks for CHECK.     *)
PredicatesAgree ==
  raised # Nothing =>
    \A class \in DOMAIN IsOf(raised.driver) :
      /\ Is(raised, class) => class \in WrapKnownErrors(raised) \/ HidesBehind(raised, class)
      /\ class \in WrapKnownErrors(raised) =>
           \/ Is(raised, class)
           \/ /\ raised.driver = "mssql" /\ raised.code = 547 /\ class = "ErrCheckViolation"
              /\ raised.words \cap {"foreign_key", "check"} = {}

===============================================================================
