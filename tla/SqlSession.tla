------------------------------ MODULE SqlSession ------------------------------
(***************************************************************************)
(* One session of a SQL server (or the one SQLite connection) as seen by   *)
(* the transaction code of go-sqldb: external to the repository, modelled  *)
(* from the statements transaction.go, db/transaction.go and the drivers   *)
(* send to it.  Writes are numbered in the order in which they are made,   *)
(* so that a savepoint is the number of the first write after it.          *)
(***************************************************************************)
EXTENDS Naturals, Sequences

NoSession == [open |-> FALSE, aborted |-> FALSE, readOnly |-> FALSE, writes |-> {}, saves |-> <<>>]

(* BEGIN *)
Begun(readOnly) == [NoSession EXCEPT !.open = TRUE, !.readOnly = readOnly]

(* The session accepts statements other than ROLLBACK and ROLLBACK TO. *)
Accepts(s) == s.open /\ ~s.aborted

Written(s, w) == [s EXCEPT !.writes = @ \cup {w}]

(* The savepoints of that name, by their place on the stack of savepoints. *)
Saved(s, name) == {i \in DOMAIN s.saves : s.saves[i].name = name}

(* The most recent savepoint of that name is the one statements refer to. *)
LatestSave(s, name) == CHOOSE i \in Saved(s, name) : \A j \in Saved(s, name) : j <= i

(* SAVEPOINT name, before write number at *)
WithSavepoint(s, name, at) == [s EXCEPT !.saves = Append(@, [name |-> name, at |-> at])]

(* ROLLBACK TO name: later writes and later savepoints are gone, name stays. *)
RolledBackTo(s, name) ==
  LET i == LatestSave(s, name) IN
  [s EXCEPT !.aborted = FALSE,
            !.writes = {w \in @ : w < s.saves[i].at},
            !.saves = SubSeq(@, 1, i)]

(* RELEASE SAVEPOINT name: the savepoint and later ones are forgotten. *)
Released(s, name) == [s EXCEPT !.saves = SubSeq(@, 1, LatestSave(s, name) - 1)]

===============================================================================
