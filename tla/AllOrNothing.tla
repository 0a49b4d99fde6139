----------------------------- MODULE AllOrNothing -----------------------------
(***************************************************************************)
(* What the functions for slices of row structs promise: a call that       *)
(* returns nil has written all of its rows, one that returns an error none *)
(* ("wraps all batches in a transaction for atomicity", insert.go).  A call *)
(* on a transaction promises it once that transaction has ended.           *)
(***************************************************************************)
EXTENDS Integers

CONSTANT Slices   \* numbers of rows of a call

VARIABLES
  request,   \* number of rows of the call, or -1
  stored,    \* rows that are durable: row -> how often
  outcome    \* "none", "nil" or "error"

abstractVars == <<request, stored, outcome>>

NothingStored == [row \in {} |-> 0]

Unset == request = -1 /\ stored = NothingStored /\ outcome = "none"

Request(n) ==
  /\ request = -1
  /\ request' = n /\ stored' = [row \in 1..n |-> 0] /\ outcome' = "none"

Store ==
  /\ request >= 0 /\ outcome = "none"
  /\ outcome' = "nil" /\ stored' = [row \in 1..request |-> 1]
  /\ UNCHANGED request

Refuse ==
  /\ request >= 0 /\ outcome = "none"
  /\ outcome' = "error"
  /\ UNCHANGED <<request, stored>>

Forget ==
  /\ outcome # "none"
  /\ request' = -1 /\ stored' = NothingStored /\ outcome' = "none"

AbstractNext == (\E n \in Slices : Request(n)) \/ Store \/ Refuse \/ Forget

WritesSpec == Unset /\ [][AbstractNext]_abstractVars
===============================================================================
