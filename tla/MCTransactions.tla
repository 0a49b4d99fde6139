---------------------------- MODULE MCTransactions ----------------------------
(* Instances of Transactions for TLC. *)
EXTENDS Transactions

(* sql.IsolationLevel *)
ReadCommitted == 2

(* The options of db.TransactionReadOnly. *)
ReadOnly == {[isolation |-> 0, readOnly |-> TRUE]}

===============================================================================
