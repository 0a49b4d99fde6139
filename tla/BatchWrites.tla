------------------------------ MODULE BatchWrites ------------------------------
(***************************************************************************)
(* InsertRowStructs, UpdateRowStructs, UpsertRowStructs and                *)
(* DeleteRowStructs: a slice of n row structs with so many mapped columns  *)
(* is written in batches, the full ones with a prepared statement, all in  *)
(* one transaction.  A connection that is already a transaction is passed  *)
(* through; its own caller commits it if and only if no error is returned. *)
(* Every call to the server may fail, and one that begins, commits or rolls *)
(* back ends the transaction either way.                                   *)
(***************************************************************************)
EXTENDS Integers, FiniteSetsExt

CONSTANTS
  MaxArgs,       \* QueryFormatter.MaxArgs
  Slices,        \* numbers of row structs of a call
  ColumnCounts   \* mapped columns of a struct type

ASSUME BatchAssumption ==
  MaxArgs \in Nat \ {0} /\ Slices \subseteq Nat /\ ColumnCounts \subseteq Nat

VARIABLES
  write,   \* the call: what it writes, where it is, batches done, errors to return
  prepared,\* its prepared statement: none, open or closed
  tx,      \* its transaction: none, open (begun by it) or outer (passed through)
  sent,    \* row -> how often the server has accepted it
  stored,  \* row -> how often it is durable
  broken   \* history: what failed during the call

batchVars == <<write, prepared, tx, sent, stored, broken>>

(* The functions.                                                           *)
(*   batched  several rows per statement, else one                          *)
(*   noRows   a row that is not affected is ErrNoRows                       *)
Op(name, batched, noRows) == [name |-> name, batched |-> batched, noRows |-> noRows]

InsertRowStructs == Op("insert", TRUE, FALSE)
UpdateRowStructs == Op("update", FALSE, FALSE)
UpsertRowStructs == Op("upsert", FALSE, FALSE)
DeleteRowStructs == Op("delete", FALSE, TRUE)

Ops == {InsertRowStructs, UpdateRowStructs, UpsertRowStructs, DeleteRowStructs}

-------------------------------------------------------------------------------
(* Mutant of RowsPerBatch: the number of columns is forgotten. *)
RowsPerBatchOfArgs(n, cols) == Min({MaxArgs, n})

(* Rows in one INSERT, at most n. *)
RowsPerBatch(n, cols) == Min({MaxArgs \div cols, n})

(* One row for the functions that are not batched. *)
BatchSize(w) == IF w.op.batched /\ w.n > 1 THEN RowsPerBatch(w.n, w.cols) ELSE 1

FullBatches(w) == w.n \div BatchSize(w)

(* Mutant of RemainderRows: the last rows are forgotten. *)
RemainderRowsNone(w) == 0

RemainderRows(w) == w.n % BatchSize(w)

(* collectValues(start, end) for a batch, the remainder being the last. *)
BatchRows(w, batch) ==
  LET start == batch * BatchSize(w)
  IN start + 1 .. start + (IF batch < FullBatches(w) THEN BatchSize(w) ELSE RemainderRows(w))

(* A single row, or all rows in a single batch: no transaction, no prepare. *)
Single(w) == FullBatches(w) <= 1 /\ RemainderRows(w) = 0

Prepares(w) == FullBatches(w) >= 2

Refused(op, n, cols) == op.batched /\ n > 1 /\ (cols = 0 \/ MaxArgs \div cols < 1)

NoRows == [row \in 1..0 |-> 0]

NoWrite == [op |-> InsertRowStructs, n |-> 0, cols |-> 1, pc |-> "idle", batch |-> 0, err |-> {}]

BatchInit ==
  /\ write = NoWrite /\ prepared = "none" /\ tx = "none" /\ sent = NoRows /\ stored = NoRows
  /\ broken = {}

Goto(pc) == write' = [write EXCEPT !.pc = pc]

(* The step fails: its error is the one to return, at the place that follows. *)
Fails(pc, err) ==
  /\ write' = [write EXCEPT !.pc = pc, !.err = {err}]
  /\ broken' = broken \cup {err}

-------------------------------------------------------------------------------
CallWrite(op, n, cols, inTx) ==
  /\ write.pc = "idle"
  /\ LET w == [NoWrite EXCEPT !.op = op, !.n = n, !.cols = cols]
     IN IF Refused(op, n, cols)
        THEN write' = [w EXCEPT !.pc = "end", !.err = {"args"}] /\ broken' = {"args"}
        ELSE /\ write' = [w EXCEPT !.pc = IF n = 0 THEN "end" ELSE IF Single(w) THEN "exec" ELSE "begin"]
             /\ broken' = {}
  /\ tx' = IF inTx THEN "outer" ELSE "none"
  /\ prepared' = "none"
  /\ sent' = [row \in 1..n |-> 0]
  /\ stored' = [row \in 1..n |-> 0]

(* Transaction: begin, or the passed through one. *)
BeginWrites ==
  /\ write.pc = "begin"
  /\ \/ /\ Goto(IF Prepares(write) THEN "prepare" ELSE "exec")
        /\ tx' = IF tx = "outer" THEN tx ELSE "open"
        /\ UNCHANGED broken
     \/ /\ tx = "none"
        /\ Fails("end", "begin")
        /\ UNCHANGED tx
  /\ UNCHANGED <<prepared, sent, stored>>

(* The ...RowStructStmt function or the full batch query: reflection, query *)
(* and Prepare.                                                             *)
PrepareWrites ==
  /\ write.pc = "prepare"
  /\ \/ Goto("exec") /\ prepared' = "open" /\ UNCHANGED broken
     \/ Fails("end", "prepare") /\ UNCHANGED prepared
  /\ UNCHANGED <<tx, sent, stored>>

(* Where the call goes on after a batch. *)
AfterBatch(w) ==
  IF prepared = "open" THEN IF w.batch < FullBatches(w) THEN "exec" ELSE "close"
  ELSE IF w.batch < FullBatches(w) \/ (w.batch = FullBatches(w) /\ RemainderRows(w) > 0)
       THEN "exec" ELSE "end"

(* Mutant of ExecBatch: the loop goes on after a failed batch. *)
ExecBatchContinues ==
  /\ write.pc = "exec"
  /\ LET w == [write EXCEPT !.batch = @ + 1]
     IN \/ /\ sent' = [row \in DOMAIN sent |->
                         IF row \in BatchRows(write, write.batch) THEN sent[row] + 1 ELSE sent[row]]
           /\ write' = [w EXCEPT !.pc = AfterBatch(w)]
           /\ UNCHANGED broken
        \/ /\ write' = [w EXCEPT !.pc = AfterBatch(w)]
           /\ broken' = broken \cup {"exec"}
           /\ UNCHANGED sent
  /\ UNCHANGED <<prepared, tx, stored>>

(* Values are collected and the statement is executed: prepared, in the     *)
(* transaction or without one.  A delete of no row is ErrNoRows.            *)
ExecBatch ==
  /\ write.pc = "exec"
  /\ LET w == [write EXCEPT !.batch = @ + 1]
         failed == IF prepared = "open" THEN "close" ELSE "end"
     IN \/ /\ sent' = [row \in DOMAIN sent |->
                         IF row \in BatchRows(write, write.batch) THEN sent[row] + 1 ELSE sent[row]]
           /\ write' = [w EXCEPT !.pc = AfterBatch(w)]
           /\ UNCHANGED broken
        \/ Fails(failed, "exec") /\ UNCHANGED sent
        \/ write.op.noRows /\ Fails(failed, "noRows") /\ UNCHANGED sent
  /\ UNCHANGED <<prepared, tx, stored>>

(* Mutant of CloseStmt: a failed loop returns without closing. *)
CloseStmtAfterSuccess ==
  /\ write.pc = "close"
  /\ prepared' = IF write.err = {} THEN "closed" ELSE prepared
  /\ Goto(IF write.err = {} /\ RemainderRows(write) > 0 THEN "exec" ELSE "end")
  /\ UNCHANGED <<tx, sent, broken, stored>>

(* Mutant of CloseStmt: the error of Close replaces the one of the loop. *)
CloseStmtReplaces ==
  /\ write.pc = "close"
  /\ prepared' = "closed"
  /\ \/ /\ Goto(IF write.err = {} /\ RemainderRows(write) > 0 THEN "exec" ELSE "end")
        /\ UNCHANGED broken
     \/ Fails("end", "close")
  /\ UNCHANGED <<tx, sent, stored>>

(* The prepared statement is closed after the full batches, its error       *)
(* joined; the remainder follows.                                           *)
CloseStmt ==
  /\ write.pc = "close"
  /\ prepared' = "closed"
  /\ \/ /\ Goto(IF write.err = {} /\ RemainderRows(write) > 0 THEN "exec" ELSE "end")
        /\ UNCHANGED broken
     \/ /\ write' = [write EXCEPT !.pc = "end", !.err = @ \cup {"close"}]
        /\ broken' = broken \cup {"close"}
  /\ UNCHANGED <<tx, sent, stored>>

(* Mutant of EndWrites: committed although a batch failed. *)
EndWritesCommits ==
  /\ write.pc = "end"
  /\ Goto("returned")
  /\ stored' = sent
  /\ tx' = "none"
  /\ UNCHANGED <<prepared, sent, broken>>

(* Without transaction the statement is durable already; else it is         *)
(* committed, or rolled back after an error, and it is gone when that fails. *)
EndWrites ==
  /\ write.pc = "end"
  /\ \/ /\ Goto("returned")
        /\ stored' = IF write.err = {} THEN sent ELSE stored
        /\ UNCHANGED broken
     \/ LET failure == IF write.err = {} THEN "commit" ELSE "rollback"
        IN /\ tx # "none"
           /\ write' = [write EXCEPT !.pc = "returned", !.err = @ \cup {failure}]
           /\ broken' = broken \cup {failure}
           /\ UNCHANGED stored
  /\ tx' = "none"
  /\ UNCHANGED <<prepared, sent>>

ForgetWrite ==
  /\ write.pc = "returned"
  /\ write' = NoWrite /\ prepared' = "none" /\ tx' = "none" /\ sent' = NoRows /\ stored' = NoRows
  /\ broken' = {}

BatchNext ==
  \/ \E op \in Ops, n \in Slices, cols \in ColumnCounts, inTx \in BOOLEAN : CallWrite(op, n, cols, inTx)
  \/ BeginWrites \/ PrepareWrites \/ ExecBatch \/ CloseStmt \/ EndWrites \/ ForgetWrite

BatchSpec == BatchInit /\ [][BatchNext]_batchVars

-------------------------------------------------------------------------------
(* Types, and which transaction and statement a call has at each place. *)
BatchTypeOK ==
  /\ write.op \in Ops /\ write.n \in Nat /\ write.cols \in Nat
  /\ write.pc \in {"idle", "begin", "prepare", "exec", "close", "end", "returned"}
  /\ write.batch \in 0 .. write.n
  /\ prepared \in {"none", "open", "closed"} /\ tx \in {"none", "open", "outer"}
  /\ sent \in [1..write.n -> Nat]
  /\ write.pc \in {"prepare", "close"} => tx # "none"

(* insert.go:325: whatever the arithmetic of batches and remainder, no row  *)
(* is sent twice, rows are sent in order, and a call that is about to       *)
(* return nil has sent every one.                                           *)
EachRowOnce ==
  /\ \A i, j \in DOMAIN sent : i <= j => sent[j] <= sent[i] /\ sent[i] <= 1
  /\ (write.pc = "end" /\ write.err = {}) => \A i \in DOMAIN sent : sent[i] = 1

(* insert.go:320: no INSERT of several rows has more arguments than the     *)
(* driver accepts, and none is empty.                                       *)
BatchesFit ==
  (write.pc = "exec" /\ write.op.batched /\ write.n > 1) =>
    Cardinality(BatchRows(write, write.batch)) * write.cols \in 1 .. MaxArgs

(* insert.go:389, update.go:274: the prepared statement is closed before    *)
(* its transaction ends, on every path.                                     *)
StmtClosedBeforeEnd == write.pc \in {"idle", "end", "returned"} => prepared # "open"

(* Every failure of a step of the call is in the error it returns. *)
BatchFailuresReported == write.pc = "returned" => broken \subseteq write.err

(* A call on a connection writes all rows or none, one on a transaction     *)
(* too once that has ended.                                                 *)
Promise == INSTANCE AllOrNothing WITH
             request <- IF write.pc = "idle" THEN -1 ELSE write.n,
             outcome <- IF write.pc # "returned" THEN "none" ELSE IF write.err = {} THEN "nil" ELSE "error"

ImplementsAllOrNothing == Promise!WritesSpec

===============================================================================
