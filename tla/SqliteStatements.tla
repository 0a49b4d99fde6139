--------------------------- MODULE SqliteStatements ---------------------------
(***************************************************************************)
(* Statements and rows of sqliteconn (connection.go, stmt.go, rows.go) on  *)
(* its one SQLite connection.  The SQLite package keeps a cache from query *)
(* text to statement: preparing a text again returns the same statement,   *)
(* reset and without bindings, and Finalize takes it out of the cache.     *)
(* The methods of transaction are those of connection on the parent's      *)
(* connection and are not repeated.                                        *)
(*                                                                         *)
(* A handle is a Rows or a Stmt the application holds.  Handles are used   *)
(* in any order: rows are read inside the loop over other rows.  But the   *)
(* application closes rows and statements of a text before it uses the     *)
(* text otherwise, and stops at the first false of Next: the code relies   *)
(* on both without checking them.                                          *)
(***************************************************************************)
EXTENDS Naturals, Sequences

CONSTANTS
  Texts,      \* query texts
  RowsOf,     \* [Texts -> Nat], number of rows a query returns
  Handles,    \* bound: handles held at one time
  MaxStmts,   \* bound: statements that exist at one time
  ArgLists,   \* lists of arguments, from which two parameters are bound
  Unsupported,\* a value that cannot be bound
  Valuers     \* values that are passed as a driver.Valuer

ASSUME StatementsAssumption ==
  /\ Texts # {}
  /\ RowsOf \in [Texts -> Nat]
  /\ MaxStmts \in Nat
  /\ Unsupported \in Nat \ Valuers
  /\ \A args \in ArgLists : args \in Seq(Nat) /\ Len(args) <= 2

VARIABLES
  stmt,     \* the statements of the SQLite package
  cache,    \* its cache, 0 where a text has no statement
  handle,   \* the Rows and Stmts
  ran,      \* history: the arguments of the last Exec of a Stmt, and what they were bound to
  misused,  \* history: a finalized statement was used
  closed    \* the connection was closed

vars == <<stmt, cache, handle, ran, misused, closed>>

-------------------------------------------------------------------------------
(* The SQLite package.  Parameters that are not bound are NULL, 0.          *)
Stmts == 1..MaxStmts
Unbound == <<0, 0>>
Prepared(t) == [text |-> t, state |-> "ready", at |-> 0, bound |-> Unbound]
NoStmt == [text |-> CHOOSE t \in Texts : TRUE, state |-> "finalized", at |-> 0, bound |-> Unbound]

Held == {h \in Handles : handle[h].kind \in {"rows", "stmt"}}
Unused == {s \in Stmts : stmt[s].state = "finalized" /\ \A h \in Held : handle[h].stmt # s}

(* The statement that preparing t returns. *)
IsPrepared(s, t) == IF cache[t] # 0 THEN s = cache[t] ELSE s \in Unused /\ \A u \in Unused : s <= u

Reset(c) == [c EXCEPT !.state = "ready", !.at = 0]
ClearBindings(c) == [c EXCEPT !.bound = Unbound]

(* A step after the last row starts over.                                   *)
Step(c) ==
  LET at == IF c.state = "row" THEN c.at + 1 ELSE 1
  IN [c EXCEPT !.state = IF at <= RowsOf[c.text] THEN "row" ELSE "done", !.at = at]

(* What the columns of the statement have now; NULLs without a row.         *)
NoRow == <<Unbound, 0>>
ColumnsOf(c) == IF c.state = "row" THEN <<c.bound, c.at>> ELSE NoRow

Finalized(s) == stmt[s].state = "finalized"

Finalize(s) ==
  /\ stmt' = [stmt EXCEPT ![s].state = "finalized"]
  /\ cache' = [t \in Texts |-> IF cache[t] = s THEN 0 ELSE cache[t]]
  /\ misused' = (misused \/ Finalized(s))

-------------------------------------------------------------------------------
(* bindArgs returns without an error after it has bound the first          *)
(* driver.Valuer, and with an error at the first value it does not support: *)
(* parameters behind it keep what they have.                                *)
Reached(args, p) == \A i \in 1..(p - 1) : args[i] \notin Valuers \cup {Unsupported}
Bindable(args) == \A p \in DOMAIN args : Reached(args, p) => args[p] # Unsupported
Binds(args, p) == p \in DOMAIN args /\ Reached(args, p) /\ args[p] # Unsupported
BindArgs(c, args) ==
  [c EXCEPT !.bound = [p \in 1..2 |-> IF Binds(args, p) THEN args[p] ELSE c.bound[p]]]

(* The argument of a call for a parameter, NULL without one. *)
Argument(args, p) == IF p \in DOMAIN args THEN args[p] ELSE 0

NoHandle == [kind |-> "none", stmt |-> 0, owns |-> FALSE, args |-> <<>>, hasRow |-> FALSE,
             err |-> FALSE, ended |-> FALSE, stepped |-> 0, read |-> {}]
RowsHandle(s, owns, args) ==
  [NoHandle EXCEPT !.kind = "rows", !.stmt = s, !.owns = owns, !.args = args]

Free(h) == h \notin Held
TextFree(t) == ~closed /\ \A h \in Held : stmt[handle[h].stmt].text # t
StmtFree(h) == \A g \in Held \ {h} : handle[g].stmt # handle[h].stmt

Init ==
  /\ stmt = [s \in Stmts |-> NoStmt]
  /\ cache = [t \in Texts |-> 0]
  /\ handle = [h \in Handles |-> NoHandle]
  /\ ran = [args |-> <<>>, got |-> Unbound]
  /\ misused = FALSE /\ closed = FALSE

(* connection.Exec: resolves each driver.Valuer; sqlitex.Execute prepares,  *)
(* binds all arguments, runs to the end and resets.                         *)
Exec(t, args) ==
  /\ TextFree(t) /\ \A p \in DOMAIN args : args[p] # Unsupported
  /\ \E s \in Stmts :
       /\ IsPrepared(s, t)
       /\ stmt' = [stmt EXCEPT ![s] = [Prepared(t) EXCEPT !.bound = [p \in 1..2 |-> Argument(args, p)]]]
       /\ cache' = [cache EXCEPT ![t] = s]
  /\ UNCHANGED <<handle, ran, misused, closed>>

(* connection.Query *)
Query(h, t, args) ==
  /\ Free(h) /\ TextFree(t)
  /\ \E s \in Stmts :
       /\ IsPrepared(s, t)
       /\ IF Bindable(args)
          THEN /\ stmt' = [stmt EXCEPT ![s] = BindArgs(Prepared(t), args)]
               /\ cache' = [cache EXCEPT ![t] = s]
               /\ handle' = [handle EXCEPT ![h] = RowsHandle(s, TRUE, args)]
          ELSE /\ stmt' = [stmt EXCEPT ![s].state = "finalized"]
               /\ cache' = [cache EXCEPT ![t] = 0]
               /\ UNCHANGED handle
  /\ UNCHANGED <<ran, misused, closed>>

(* connection.Prepare *)
Prepare(h, t) ==
  /\ Free(h) /\ TextFree(t)
  /\ \E s \in Stmts :
       /\ IsPrepared(s, t)
       /\ stmt' = [stmt EXCEPT ![s] = Prepared(t)]
       /\ cache' = [cache EXCEPT ![t] = s]
       /\ handle' = [handle EXCEPT ![h] = [NoHandle EXCEPT !.kind = "stmt", !.stmt = s]]
  /\ UNCHANGED <<ran, misused, closed>>

-------------------------------------------------------------------------------
(* statement: every use resets the statement and binds anew.                *)

(* Mutant of Rebound: the bindings of the last use stay. *)
ReboundKeeping(c, args) == BindArgs(Reset(c), args)

(* Mutant of Rebound: the statement is not reset. *)
ReboundRunning(c, args) == BindArgs(ClearBindings(c), args)

Rebound(c, args) == BindArgs(ClearBindings(Reset(c)), args)

(* Using a finalized statement: nothing more is known about the program. *)
Misuse(s) ==
  /\ Finalized(s)
  /\ misused' = TRUE
  /\ UNCHANGED <<stmt, cache, handle, ran, closed>>

(* statement.Exec: one step, after which the statement is not reset. *)
StmtExec(h, args) ==
  /\ handle[h].kind = "stmt" /\ StmtFree(h)
  /\ LET s == handle[h].stmt
         c == Rebound(stmt[s], args)
     IN \/ Misuse(s)
        \/ /\ ~Finalized(s)
           /\ \/ /\ Bindable(args)
                 /\ stmt' = [stmt EXCEPT ![s] = Step(c)]
                 /\ ran' = [args |-> args, got |-> c.bound]
              \/ /\ stmt' = [stmt EXCEPT ![s] = c]  \* bindArgs or Step fails
                 /\ UNCHANGED ran
           /\ UNCHANGED <<cache, handle, misused, closed>>

(* statement.Query *)
StmtQuery(h, g, args) ==
  /\ handle[h].kind = "stmt" /\ StmtFree(h) /\ Free(g)
  /\ LET s == handle[h].stmt
     IN \/ Misuse(s)
        \/ /\ ~Finalized(s)
           /\ stmt' = [stmt EXCEPT ![s] = Rebound(@, args)]
           /\ handle' = IF Bindable(args)
                        THEN [handle EXCEPT ![g] = RowsHandle(s, FALSE, args)]
                        ELSE handle
           /\ UNCHANGED <<cache, ran, misused, closed>>

(* statement.Close *)
StmtClose(h) ==
  /\ handle[h].kind = "stmt" /\ StmtFree(h)
  /\ Finalize(handle[h].stmt)
  /\ handle' = [handle EXCEPT ![h] = NoHandle]
  /\ UNCHANGED <<ran, closed>>

-------------------------------------------------------------------------------
(* rows *)

(* rows.Next: a step, which may fail. *)
RowsNext(h) ==
  /\ handle[h].kind = "rows" /\ ~handle[h].err /\ ~handle[h].ended
  /\ LET s == handle[h].stmt
         c == Step(stmt[s])
         hasRow == c.state = "row"
     IN \/ Misuse(s)
        \/ /\ ~Finalized(s)
           /\ \/ /\ stmt' = [stmt EXCEPT ![s] = c]
                 /\ handle' = [handle EXCEPT ![h].hasRow = hasRow, ![h].ended = ~hasRow,
                                 ![h].stepped = IF hasRow THEN c.at ELSE @]
              \/ /\ stmt' = [stmt EXCEPT ![s] = Reset(@)]
                 /\ handle' = [handle EXCEPT ![h].err = TRUE]
           /\ UNCHANGED <<cache, ran, misused, closed>>

(* rows.Scan: reads what the statement has now. *)
RowsScan(h) ==
  /\ handle[h].kind = "rows" /\ ~handle[h].err /\ handle[h].hasRow
  /\ LET s == handle[h].stmt
     IN \/ Misuse(s)
        \/ /\ ~Finalized(s)
           /\ handle' = [handle EXCEPT ![h].read = @ \cup {<<handle[h].stepped, ColumnsOf(stmt[s])>>}]
           /\ UNCHANGED <<stmt, cache, ran, misused, closed>>

(* Mutant of RowsClose: the statement stays where it is. *)
RowsCloseLeaves(h) ==
  /\ handle[h].kind = "rows"
  /\ handle' = [handle EXCEPT ![h] = NoHandle]
  /\ UNCHANGED <<stmt, cache, ran, misused, closed>>

(* Mutant of RowsClose: the statement of a Stmt is finalized too. *)
RowsCloseFinalizes(h) ==
  /\ handle[h].kind = "rows"
  /\ Finalize(handle[h].stmt)
  /\ handle' = [handle EXCEPT ![h] = NoHandle]
  /\ UNCHANGED <<ran, closed>>

(* rows.Close, which is idempotent. *)
RowsClose(h) ==
  /\ handle[h].kind = "rows"
  /\ LET s == handle[h].stmt
     IN IF handle[h].owns
        THEN Finalize(s)
        ELSE /\ stmt' = [stmt EXCEPT ![s] = IF Finalized(s) THEN @ ELSE Reset(@)]
             /\ misused' = (misused \/ Finalized(s))
             /\ UNCHANGED cache
  /\ handle' = [handle EXCEPT ![h] = NoHandle]
  /\ UNCHANGED <<ran, closed>>

(* connection.Close finalizes the statements of the cache. *)
Close ==
  /\ ~closed /\ Held = {}
  /\ closed' = TRUE
  /\ stmt' = [s \in Stmts |-> IF \E t \in Texts : cache[t] = s THEN NoStmt ELSE stmt[s]]
  /\ cache' = [t \in Texts |-> 0]
  /\ UNCHANGED <<handle, ran, misused>>

(* Connect: the application opens another connection. *)
Connect ==
  /\ closed
  /\ closed' = FALSE
  /\ stmt' = [s \in Stmts |-> NoStmt]
  /\ UNCHANGED <<cache, handle, ran, misused>>

Next ==
  \/ \E t \in Texts, args \in ArgLists : Exec(t, args)
  \/ \E h \in Handles, t \in Texts, args \in ArgLists : Query(h, t, args)
  \/ \E h \in Handles, t \in Texts : Prepare(h, t)
  \/ \E h \in Handles, args \in ArgLists : StmtExec(h, args)
  \/ \E h, g \in Handles, args \in ArgLists : StmtQuery(h, g, args)
  \/ \E h \in Handles : StmtClose(h) \/ RowsNext(h) \/ RowsScan(h) \/ RowsClose(h)
  \/ Close \/ Connect

Spec == Init /\ [][Next]_vars

-------------------------------------------------------------------------------
(* Types, and how the cache, the statements and the handles fit together: a *)
(* cached statement is one of that text that is not finalized, and no two   *)
(* statements of one text are in use.                                       *)
TypeOK ==
  /\ stmt \in [Stmts -> [text : Texts, state : {"ready", "row", "done", "finalized"},
                         at : Nat, bound : [1..2 -> Nat]]]
  /\ cache \in [Texts -> 0..MaxStmts]
  /\ \A h \in Handles : handle[h].kind \in {"none", "rows", "stmt"}
  /\ misused \in BOOLEAN /\ closed \in BOOLEAN
  /\ \A t \in Texts : cache[t] # 0 => stmt[cache[t]].text = t /\ ~Finalized(cache[t])

(* rows.go:53, stmt.go:102: who closes a statement.  Rows of a Stmt leave   *)
(* the statement to the Stmt and rows of a query finalize their own, so no  *)
(* open Rows or Stmt ever uses a finalized statement.                       *)
NoUseAfterFinalize == ~misused

(* The parameters have the arguments of the call itself, NULL behind a      *)
(* driver.Valuer and where the call gives none: none of another call.       *)
BoundTo(bound, args) ==
  \A p \in 1..2 :
    bound[p] = IF \E i \in DOMAIN args : i < p /\ args[i] \in Valuers THEN 0 ELSE Argument(args, p)

(* rows.go:19 Next and Scan: while rows of other queries, prepared          *)
(* statements and Exec are used in between, the rows of a query are its own *)
(* rows, in order, each once, computed from the arguments of its own call - *)
(* up to the first driver.Valuer, with NULL for those behind it - and Next  *)
(* returns false without an error only after the last one.                  *)
RowsAreTheQuerys ==
  \A h \in Held : handle[h].kind = "rows" =>
    /\ \A r \in handle[h].read : r[2][2] = r[1] /\ BoundTo(r[2][1], handle[h].args)
    /\ handle[h].ended => handle[h].stepped = RowsOf[stmt[handle[h].stmt].text]

(* stmt.go:21 Exec: a prepared statement runs with arguments of this call   *)
(* alone, whatever earlier calls bound before they succeeded or failed: a   *)
(* parameter the call does not bind, because there are fewer arguments or a *)
(* driver.Valuer precedes it, is NULL and not what it was before.           *)
ExecRunsWithItsArguments == BoundTo(ran.got, ran.args)

(* When the application has closed all rows and statements, no statement of *)
(* the connection is in the middle of its rows: the read lock is released   *)
(* on every path, also after errors in bindArgs and Next.                   *)
NothingRunsWhenAllIsClosed ==
  Held = {} => \A s \in Stmts : stmt[s].state # "row"

===============================================================================
