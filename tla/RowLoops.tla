------------------------------- MODULE RowLoops -------------------------------
(***************************************************************************)
(* The functions of query.go and row.go that read the rows of a query.     *)
(* Every function is one shape of the same loop, described by a record;    *)
(* the actions are the steps of the loop.  Rows come from database/sql,    *)
(* which closes them on its own when the context of the query is done, or  *)
(* from NewErrRows when the query failed.  Next, Scan, Close, a callback   *)
(* and the look at the columns fail at any time.                           *)
(***************************************************************************)
EXTENDS Integers, Sequences

CONSTANTS
  Caps,    \* row caps: arguments maxNumRows of the functions
  MaxRows  \* bound: rows of a query

ASSUME RowLoopsAssumption == Caps \subseteq Int /\ MaxRows \in Nat

VARIABLES
  loop,      \* the call: its function, cap, where it is, rows seen, result and error
  rows,      \* its Rows: none, error (NewErrRows), open or closed
  expired,   \* its context is done
  faults     \* history: what failed during the call

loopVars == <<loop, rows, expired, faults>>

-------------------------------------------------------------------------------
(* The functions.                                                           *)
(*   many     reads all rows, else one                                      *)
(*   columns  when Columns is called: before the first Next, after it, never*)
(*   capped   stops with ErrMaxNumRowsExceeded                              *)
(*   header   the column names are the first element of the result          *)
(*   calls    hands each row to a callback                                  *)
(*   default  ErrNoRows is replaced by a default value                      *)
(*   closes   closes the rows when Columns fails                            *)
Shape(many, columns) ==
  [many |-> many, columns |-> columns, capped |-> FALSE, header |-> FALSE, calls |-> FALSE,
   default |-> FALSE, closes |-> TRUE]

RowScan == Shape(FALSE, "afterNext")     \* into a struct
RowScanStrings == [Shape(FALSE, "first") EXCEPT !.closes = FALSE]
QueryRowAs == Shape(FALSE, "never")      \* of a type that is not a struct
QueryRowAsOr == [QueryRowAs EXCEPT !.default = TRUE]
QueryRowAsStmt == QueryRowAs             \* of a prepared statement
QueryRowAsMap == Shape(FALSE, "afterNext")
QueryRowsAsMapSlice == [Shape(TRUE, "first") EXCEPT !.capped = TRUE]
QueryRowsAsSlice == [Shape(TRUE, "first") EXCEPT !.capped = TRUE]
QueryRowsAsStrings == [Shape(TRUE, "first") EXCEPT !.capped = TRUE, !.header = TRUE]
QueryStructCallback == [Shape(TRUE, "first") EXCEPT !.calls = TRUE]
QueryCallback == [Shape(TRUE, "first") EXCEPT !.calls = TRUE]

Functions ==
  {RowScan, RowScanStrings, QueryRowAs, QueryRowAsOr, QueryRowAsMap, QueryRowsAsMapSlice,
   QueryRowsAsSlice, QueryRowsAsStrings, QueryStructCallback, QueryCallback}

(* ContextWithMaxNumRows: any negative cap is no cap. *)
NormalCap(maxNumRows) == IF maxNumRows < 0 THEN -1 ELSE maxNumRows

(* The wrappers of package db give the cap of the context to the functions  *)
(* that return many rows; those with a callback have none.                  *)
CapOfCall(f, maxNumRows) == IF f.capped THEN NormalCap(maxNumRows) ELSE -1

NoLoop == [f |-> QueryRowAs, cap |-> -1, pc |-> "idle", seen |-> 0, got |-> <<>>, ended |-> FALSE,
           err |-> {}]

LoopInit ==
  /\ loop = NoLoop
  /\ rows = "none"
  /\ expired = FALSE
  /\ faults = {}

-------------------------------------------------------------------------------
(* The call fails with err; the deferred function closes the rows.          *)
FailWith(err) ==
  /\ loop' = [loop EXCEPT !.pc = "closing", !.err = {err}]
  /\ faults' = faults \cup {err}

(* The error of rows that are not open. *)
RowsError == IF rows = "error" THEN "query" ELSE "ctx"

(* The function is called and issues the query. *)
CallFunction(f, cap) ==
  /\ loop.pc = "idle"
  /\ loop' = [NoLoop EXCEPT !.f = f, !.cap = CapOfCall(f, cap),
                            !.pc = IF f.columns = "first" THEN "columns" ELSE "next"]
  /\ \/ rows' = "open" /\ UNCHANGED faults
     \/ rows' = "error" /\ faults' = {"query"}
  /\ UNCHANGED expired

(* Columns; also the check that the columns fit the result type or callback. *)
ReadColumns ==
  /\ loop.pc = "columns"
  /\ \/ /\ rows = "open"
        /\ loop' = [loop EXCEPT !.pc = IF @ = "columns" /\ loop.seen = 0 THEN "next" ELSE "row",
                                !.got = IF loop.f.header THEN <<0>> ELSE <<>>]
        /\ UNCHANGED faults
     \/ /\ rows = "open" /\ loop.f.closes
        /\ FailWith("columns")
     \/ /\ rows # "open"
        /\ IF loop.f.closes
           THEN FailWith(RowsError)
           ELSE /\ loop' = [loop EXCEPT !.pc = "returned", !.err = {RowsError}]
                /\ faults' = faults \cup {RowsError}
  /\ UNCHANGED <<rows, expired>>

AtEnd(l) == IF l.f.many THEN [l EXCEPT !.pc = "closing", !.ended = TRUE]
            ELSE [l EXCEPT !.pc = "closing", !.ended = TRUE, !.err = {"noRows"}]

(* Mutant of FetchRow: rows.Err is not looked at after the loop. *)
FetchRowUnchecked ==
  /\ loop.pc = "next"
  /\ \/ /\ rows = "open" /\ loop.seen < MaxRows
        /\ loop' = [loop EXCEPT !.seen = @ + 1,
                                !.pc = IF loop.f.columns = "afterNext" THEN "columns" ELSE "row"]
        /\ UNCHANGED <<rows, faults>>
     \/ /\ loop' = AtEnd(loop)
        /\ rows' = IF rows = "open" THEN "closed" ELSE rows
        /\ UNCHANGED faults
     \/ /\ rows = "open"
        /\ rows' = "closed"
        /\ loop' = AtEnd(loop)
        /\ faults' = faults \cup {"next"}
  /\ UNCHANGED expired

(* Next, and Err when it returns false. *)
FetchRow ==
  /\ loop.pc = "next"
  /\ \/ /\ rows = "open" /\ loop.seen < MaxRows
        /\ loop' = [loop EXCEPT !.seen = @ + 1,
                                !.pc = IF loop.f.columns = "afterNext" THEN "columns" ELSE "row"]
        /\ UNCHANGED <<rows, faults>>
     \/ /\ rows = "open"
        /\ rows' = "closed"
        /\ loop' = AtEnd(loop)
        /\ UNCHANGED faults
     \/ /\ rows = "open"
        /\ rows' = "closed"
        /\ FailWith("next")
     \/ /\ rows # "open"
        /\ FailWith(RowsError)
        /\ UNCHANGED rows
  /\ UNCHANGED expired

(* Mutant of Taken: the header counts as a row. *)
TakenWithHeader(l) == Len(l.got)

(* The number of rows in the result. *)
Taken(l) == IF l.f.header THEN Len(l.got) - 1 ELSE Len(l.got)

(* The body of the loop: the cap, then the context, then Scan.              *)
TakeRow ==
  /\ loop.pc = "row"
  /\ IF loop.cap >= 0 /\ Taken(loop) >= loop.cap THEN FailWith("max")
     ELSE IF loop.f.many /\ expired THEN FailWith("ctx")
     ELSE \/ /\ rows = "open"
             /\ loop' = [loop EXCEPT !.got = Append(@, loop.seen),
                                     !.pc = IF loop.f.calls THEN "callback"
                                            ELSE IF loop.f.many THEN "next" ELSE "closing"]
             /\ UNCHANGED faults
          \/ FailWith("scan")
  /\ UNCHANGED <<rows, expired>>

CallbackReturns ==
  /\ loop.pc = "callback"
  /\ \/ loop' = [loop EXCEPT !.pc = "next"] /\ UNCHANGED faults
     \/ FailWith("callback")
  /\ UNCHANGED <<rows, expired>>

(* The deferred Close; QueryRowAsOr replaces an error that is ErrNoRows, and *)
(* the functions for one row return nothing besides an error.               *)
Returned(l, err) ==
  LET hidden == l.f.default /\ "noRows" \in err
  IN [l EXCEPT !.pc = "returned", !.err = IF hidden THEN {} ELSE err,
               !.got = IF ~l.f.many /\ err # {} THEN <<>> ELSE @]

(* Mutant of CloseRows: the error of Close is not joined. *)
CloseRowsForgets ==
  /\ loop.pc = "closing"
  /\ \/ loop' = Returned(loop, loop.err) /\ UNCHANGED faults
     \/ /\ rows = "open"
        /\ loop' = Returned(loop, loop.err)
        /\ faults' = faults \cup {"close"}
  /\ rows' = IF rows = "open" THEN "closed" ELSE rows
  /\ UNCHANGED expired

(* Mutant of CloseRows: rows are closed only after an error. *)
CloseRowsOfErrors ==
  /\ loop.pc = "closing"
  /\ loop' = Returned(loop, loop.err)
  /\ rows' = IF rows = "open" /\ loop.err # {} THEN "closed" ELSE rows
  /\ UNCHANGED <<expired, faults>>

CloseRows ==
  /\ loop.pc = "closing"
  /\ \/ loop' = Returned(loop, loop.err) /\ UNCHANGED faults
     \/ /\ rows = "open"
        /\ loop' = Returned(loop, loop.err \cup {"close"})
        /\ faults' = faults \cup {"close"}
  /\ rows' = IF rows = "open" THEN "closed" ELSE rows
  /\ UNCHANGED expired

(* The caller goes on to another call with another context. *)
TakeResult ==
  /\ loop.pc = "returned"
  /\ loop' = NoLoop /\ rows' = "none" /\ expired' = FALSE /\ faults' = {}

(* The context is done; database/sql closes the rows some time later. *)
ContextDone ==
  /\ loop.pc \notin {"idle", "returned"} /\ ~expired
  /\ expired' = TRUE
  /\ UNCHANGED <<loop, rows, faults>>

DriverClosesRows ==
  /\ expired /\ rows = "open"
  /\ rows' = "closed"
  /\ UNCHANGED <<loop, expired, faults>>

LoopNext ==
  \/ \E f \in Functions, cap \in Caps : CallFunction(f, cap)
  \/ ReadColumns \/ FetchRow \/ TakeRow \/ CallbackReturns \/ CloseRows \/ TakeResult
  \/ ContextDone \/ DriverClosesRows

LoopSpec == LoopInit /\ [][LoopNext]_loopVars

-------------------------------------------------------------------------------
(* Types, and where the rows can be at each place of the loop. *)
RowsTypeOK ==
  /\ loop.f \in Functions /\ loop.cap \in Nat \cup {-1} /\ loop.seen \in 0..MaxRows
  /\ loop.pc \in {"idle", "columns", "next", "row", "callback", "closing", "returned"}
  /\ loop.got \in Seq(0..MaxRows)
  /\ loop.ended \in BOOLEAN /\ expired \in BOOLEAN
  /\ rows \in {"none", "error", "open", "closed"}
  /\ loop.pc = "idle" <=> rows = "none"

(* query.go: the rows, and with them the session, are released on every     *)
(* path, also the ones of row.go that return without closing them.          *)
RowsReleasedOnReturn == loop.pc = "returned" => rows # "open"

(* query.go:245, 319, 393, 509: a result is a beginning of the rows of the  *)
(* query, whole rows in order; without an error it is all of them; with     *)
(* ErrMaxNumRowsExceeded it is exactly as many as the cap and the query has *)
(* more.  Callbacks get the same rows, each once.                           *)
ResultIsABeginning ==
  LET first == IF loop.f.header THEN 1 ELSE 0
      k == Len(loop.got) - first
  IN (loop.pc = "returned" /\ loop.got # <<>>) =>
       /\ \A i \in 1..k : loop.got[first + i] = i
       /\ loop.cap >= 0 => k <= loop.cap
       /\ "max" \in loop.err => k = loop.cap /\ loop.seen > k
       /\ (loop.f.many /\ loop.err = {}) => loop.ended /\ k = loop.seen

(* Nothing that failed during a call is hidden from the caller: not an      *)
(* error of Next behind the end of the loop, not one of Close behind a      *)
(* result.  Only QueryRowAsOr returns its default instead, and only when    *)
(* the query has no row.                                                    *)
FailuresAreReported ==
  loop.pc = "returned" =>
    \/ faults \subseteq loop.err
    \/ loop.f.default /\ loop.ended /\ loop.seen = 0 /\ faults \subseteq {"close"}

===============================================================================
