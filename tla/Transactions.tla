----------------------------- MODULE Transactions -----------------------------
(***************************************************************************)
(* The transaction functions of packages sqldb and db (transaction.go,     *)
(* db/transaction.go) over the Begin, Commit and Rollback of the drivers.  *)
(* One goroutine executes nested calls: a frame is a call of one of the    *)
(* functions whose txFunc is running.  The txFunc may write, call any of   *)
(* the functions again, return nil, an error or a serialization failure,   *)
(* panic (and the panic may be recovered in the txFunc of any outer frame) *)
(* or end the goroutine with runtime.Goexit.  Contexts expire, statements  *)
(* and COMMIT fail at any time.                                            *)
(*                                                                         *)
(* Two kinds of drivers: a pool, where every transaction has a session of  *)
(* its own and database/sql rolls it back when the context of Begin is     *)
(* done (pqconn, and mysqlconn, mssqlconn, oraconn without the aborted     *)
(* state), and one shared session with nested savepoints (sqliteconn).     *)
(***************************************************************************)
EXTENDS SqlSession

CONSTANTS
  SharedSession,    \* sqliteconn: all connections are one session
  AbortsOnError,    \* postgres: a failed statement aborts the transaction
  DefaultIsolation, \* DefaultIsolationLevel of the driver
  Asked,            \* options that are asked for besides the default ones
  Retries,          \* SerializedTransactionRetries
  MaxDepth,         \* bound: frames, the application's own included
  MaxTx,            \* bound: transactions begun
  MaxSavepoints,    \* bound: savepoints set by TransactionSavepoint
  MaxWrites         \* bound: writes

ASSUME DriverAssumption ==
  /\ SharedSession \in BOOLEAN /\ AbortsOnError \in BOOLEAN
  /\ DefaultIsolation \in 1..7
  /\ Asked \subseteq [isolation : 0..7, readOnly : BOOLEAN]

ASSUME BoundAssumption ==
  /\ Retries \in Nat
  /\ MaxDepth \in Nat \ {0} /\ MaxTx \in Nat /\ MaxSavepoints \in Nat /\ MaxWrites \in Nat

(* sql.TxOptions; nil options are the defaults, isolation 0 is              *)
(* sql.LevelDefault and 6 sql.LevelSerializable.                            *)
Serializable == 6
NilOptions == [isolation |-> 0, readOnly |-> FALSE]
SerializableOptions == [isolation |-> Serializable, readOnly |-> FALSE]
TxOptions == Asked \cup {NilOptions, SerializableOptions}

Kinds == {"plain", "pass", "serializedPass", "own", "serialized", "savepoint"}

VARIABLES
  depth,       \* number of frames
  frame,       \* the frames: what the call is, and the context of its txFunc
  session,     \* the sessions, by transaction ID; 0 is the parent connection
  options,     \* [transaction ID -> options its Begin was called with]
  txCount,     \* txCounter
  spCount,     \* savepointCounter
  writeCount,  \* number of writes so far
  unwinding,   \* runtime.Goexit is running the deferred calls
  expiredTx,   \* transactions whose Begin context is done
  durable,     \* writes that were committed
  kept,        \* history: writes a successful call made durable, as it said
  undone,      \* history: writes of txFuncs that were rolled back
  failed,      \* history: writes of txFuncs of a call that returned an error
  returned     \* history: the last return of SerializedTransaction's loop

counters == <<txCount, spCount, writeCount>>
history == <<kept, undone, failed, returned>>
vars == <<depth, frame, session, options, counters, unwinding, expiredTx, durable, history>>

-------------------------------------------------------------------------------
(* A frame: the function, the transaction of Conn(ctx), the context values  *)
(* of db.ContextWithoutTransactions and SerializedTransaction, whether the  *)
(* context is done, the savepoint, the number of tries and the writes that  *)
(* share the fate of the call.                                              *)
NoFrame == [kind |-> "plain", tx |-> 0, noTx |-> FALSE, serial |-> FALSE, expired |-> FALSE,
            name |-> 0, tries |-> 0, writes |-> {}]

Top == frame[depth]

(* The context of a txFunc inherits from the context of the call. *)
Inner(kind) == [Top EXCEPT !.kind = kind, !.name = 0, !.tries = 0, !.writes = {}]

CanCall == ~unwinding /\ depth < MaxDepth

Push(f) ==
  /\ depth' = depth + 1
  /\ frame' = [frame EXCEPT ![depth + 1] = f]

(* The call returns; ws now share the fate of the caller. *)
Pop(ws) ==
  /\ depth' = depth - 1
  /\ frame' = [frame EXCEPT ![depth] = NoFrame, ![depth - 1].writes = @ \cup ws]

(* The session behind a connection. *)
SessionOf(tx) == IF SharedSession THEN 0 ELSE tx
Session(tx) == session[SessionOf(tx)]
SetSession(tx, s) == session' = [session EXCEPT ![SessionOf(tx)] = s]

(* A transaction that is a savepoint of an outer one (sqliteconn only). *)
Nested(parentTx) == SharedSession /\ parentTx # 0

(* Mutant of TxSavepoint: the first name of the other kind of savepoints. *)
TxSavepointCollides(tx) == MaxTx + 1

(* The names of sqliteconn's savepoints sp_1, sp_2, ... do not collide with *)
(* those of TransactionSavepoint, sp1, sp2, ...                             *)
TxSavepoint(tx) == tx
NextSavepoint == MaxTx + spCount + 1

Init ==
  /\ depth = 1
  /\ frame = [d \in 1..MaxDepth |-> NoFrame]
  /\ session = [tx \in 0..MaxTx |-> NoSession]
  /\ options = [tx \in 0..MaxTx |-> NilOptions]
  /\ txCount = 0 /\ spCount = 0 /\ writeCount = 0
  /\ unwinding = FALSE
  /\ expiredTx = {}
  /\ durable = {} /\ kept = {} /\ undone = {} /\ failed = {}
  /\ returned = [tries |-> 0, error |-> "none"]

-------------------------------------------------------------------------------
(* Starting calls.                                                          *)

(* The txFunc runs without anything to undo or to commit. *)
Direct(f) ==
  /\ Push(f)
  /\ UNCHANGED <<session, options, counters, unwinding, expiredTx, durable, history>>

(* Begin succeeds: on a pool a new session, on the shared session BEGIN, or *)
(* a savepoint when parentTx is a transaction.                              *)
Begin(parentTx, tx, opts) ==
  /\ txCount < MaxTx
  /\ ~Top.expired
  /\ SharedSession => (Session(0).open <=> parentTx # 0)
  /\ SetSession(tx, IF Nested(parentTx)
                    THEN WithSavepoint(Session(0), TxSavepoint(tx), writeCount + 1)
                    ELSE Begun(opts.readOnly /\ ~SharedSession))
  /\ txCount' = txCount + 1
  /\ options' = [options EXCEPT ![tx] = opts]

(* sqldb.IsolatedTransaction up to txFunc. *)
BeginFrame(f, opts) ==
  /\ Begin(Top.tx, txCount + 1, opts)
  /\ Push([f EXCEPT !.tx = txCount + 1])
  /\ UNCHANGED <<spCount, writeCount, unwinding, expiredTx, durable, history>>

IsolationOf(opts) == IF opts.isolation = 0 THEN DefaultIsolation ELSE opts.isolation

(* CheckTxOptionsCompatibility returns nil. *)
Compatible(parent, child) ==
  /\ parent.readOnly => child.readOnly
  /\ IsolationOf(parent) >= IsolationOf(child)

(* Transaction, TransactionOpts and TransactionReadOnly, which differ only  *)
(* in their options.  An incompatible parent is an error.                   *)
Transaction(opts) ==
  /\ CanCall
  /\ \/ /\ Top.noTx
        /\ Direct(Inner("plain"))
     \/ /\ ~Top.noTx /\ Top.tx # 0
        /\ Compatible(options[Top.tx], opts)
        /\ Direct(Inner("pass"))
     \/ /\ ~Top.noTx /\ Top.tx = 0
        /\ BeginFrame(Inner("own"), opts)

IsolatedTransaction ==
  /\ CanCall /\ ~Top.noTx
  /\ BeginFrame(Inner("own"), NilOptions)

(* A nested call is passed through when the context has the key; within     *)
(* another transaction the call is an error.                                *)
SerializedTransaction ==
  /\ CanCall /\ ~Top.noTx
  /\ \/ /\ Top.tx # 0 /\ Top.serial
        /\ Direct(Inner("serializedPass"))
     \/ /\ Top.tx = 0 /\ Retries > 0
        /\ BeginFrame([Inner("serialized") EXCEPT !.serial = TRUE, !.tries = 1],
                      SerializableOptions)

(* Without a transaction it calls Transaction, which is an action of its own. *)
TransactionSavepoint ==
  /\ CanCall /\ ~Top.noTx /\ Top.tx # 0
  /\ ~Top.expired /\ Accepts(Session(Top.tx)) /\ spCount < MaxSavepoints
  /\ SetSession(Top.tx, WithSavepoint(Session(Top.tx), NextSavepoint, writeCount + 1))
  /\ spCount' = spCount + 1
  /\ Push([Inner("savepoint") EXCEPT !.name = NextSavepoint])
  /\ UNCHANGED <<options, txCount, writeCount, unwinding, expiredTx, durable, history>>

(* A call with db.ContextWithoutTransactions(ctx). *)
WithoutTransactions ==
  /\ CanCall /\ ~Top.noTx
  /\ Direct([Inner("plain") EXCEPT !.noTx = TRUE])

(* A call with db.ContextWithGlobalConn(ctx). *)
WithGlobalConn ==
  /\ CanCall /\ Top.tx # 0
  /\ Direct([Inner("plain") EXCEPT !.tx = 0])

-------------------------------------------------------------------------------
(* Statements of the txFunc that is running, on Conn(ctx).                  *)

(* A write succeeds; outside of a transaction it is committed at once,      *)
(* unless the shared session is in one.                                     *)
Exec ==
  LET w == writeCount + 1
      s == Session(Top.tx)
  IN
  /\ ~unwinding /\ ~Top.expired /\ writeCount < MaxWrites
  /\ writeCount' = w
  /\ \/ /\ Top.tx = 0 /\ ~s.open
        /\ durable' = durable \cup {w}
        /\ kept' = kept \cup {w}
        /\ UNCHANGED <<session, frame>>
     \/ /\ Accepts(s) /\ ~s.readOnly
        /\ SetSession(Top.tx, Written(s, w))
        /\ frame' = [frame EXCEPT ![depth].writes = @ \cup {w}]
        /\ kept' = IF Top.tx = 0 THEN kept \cup {w} ELSE kept
        /\ UNCHANGED durable
  /\ UNCHANGED <<depth, options, txCount, spCount, unwinding, expiredTx, undone, failed,
                 returned>>

(* A statement fails at the server. *)
ExecFails ==
  /\ ~unwinding /\ Top.tx # 0 /\ ~Top.expired
  /\ AbortsOnError /\ Accepts(Session(Top.tx))
  /\ SetSession(Top.tx, [Session(Top.tx) EXCEPT !.aborted = TRUE])
  /\ UNCHANGED <<depth, frame, options, counters, unwinding, expiredTx, durable, history>>

-------------------------------------------------------------------------------
(* The txFunc ended.                                                        *)

(* How a txFunc ends: it returns nil, an error, a serialization failure, it *)
(* panics or runtime.Goexit is called.                                      *)
Outcomes == {"nil", "error", "serialization", "panic", "goexit"}
Errors == {"error", "serialization"}

(* Goexit runs the deferred calls of all frames. *)
Ends(outcome) ==
  /\ depth > 1
  /\ unwinding => outcome = "goexit"
  /\ unwinding' = (outcome = "goexit" /\ depth > 2)

(* Mutant of DirectReturns: an error rolls the passed through transaction back. *)
PassThroughRollsBack(outcome) ==
  /\ Top.kind \in {"plain", "pass", "serializedPass"}
  /\ Ends(outcome)
  /\ Pop(Top.writes)
  /\ IF outcome \in Errors /\ Top.tx # 0 THEN SetSession(Top.tx, NoSession)
                                         ELSE UNCHANGED session
  /\ UNCHANGED <<options, counters, expiredTx, durable, history>>

(* txFunc was called directly: its result is the result of the call. *)
DirectReturns(outcome) ==
  /\ Top.kind \in {"plain", "pass", "serializedPass"}
  /\ Ends(outcome)
  /\ Pop(Top.writes)
  /\ UNCHANGED <<session, options, counters, expiredTx, durable, history>>

(* TransactionSavepoint after txFunc: "rollback to" after an error,         *)
(* "release savepoint" after nil, nothing after a panic.  Both statements   *)
(* are executed with the context of the call and can fail.                  *)
SavepointReturns(outcome) ==
  LET s == Session(Top.tx) IN
  /\ Top.kind = "savepoint"
  /\ Ends(outcome)
  /\ \/ /\ outcome \in {"panic", "goexit"}
        /\ Pop(Top.writes)
        /\ UNCHANGED <<session, undone, failed>>
     \/ /\ outcome \in Errors /\ s.open /\ ~Top.expired
        /\ SetSession(Top.tx, RolledBackTo(s, Top.name))
        /\ undone' = undone \cup Top.writes
        /\ failed' = failed \cup Top.writes
        /\ Pop({})
     \/ /\ outcome = "nil" /\ Accepts(s) /\ ~Top.expired
        /\ SetSession(Top.tx, Released(s, Top.name))
        /\ Pop(Top.writes)
        /\ UNCHANGED <<undone, failed>>
     \/ /\ \/ outcome \in Errors /\ ~(s.open /\ ~Top.expired)
           \/ outcome = "nil" /\ ~(Accepts(s) /\ ~Top.expired)
        /\ failed' = failed \cup Top.writes
        /\ Pop({})
        /\ UNCHANGED <<session, undone>>
  /\ UNCHANGED <<options, counters, expiredTx, durable, kept, returned>>

(* The result of the call that is about to return. *)
ReturnsNil == kept' = kept \cup Top.writes /\ UNCHANGED failed
ReturnsError == failed' = failed \cup Top.writes /\ UNCHANGED kept

(* Mutant of Rollback: it is forgotten. *)
RollbackForgotten(parentTx) ==
  UNCHANGED session /\ undone' = undone \cup Top.writes

(* tx.Rollback of the top frame. *)
Rollback(parentTx) ==
  LET s == Session(Top.tx) IN
  /\ IF s.open
     THEN SetSession(Top.tx, IF Nested(parentTx) THEN RolledBackTo(s, TxSavepoint(Top.tx))
                                                 ELSE NoSession)
     ELSE UNCHANGED session
  /\ undone' = undone \cup Top.writes

(* The error of a call that was rolled back, or of its COMMIT. *)
LoopReturns(error) ==
  returned' = IF Top.kind = "serialized" THEN [tries |-> Top.tries, error |-> error]
                                         ELSE returned

(* Mutant of RetriesLeft: one try too many. *)
OneRetryMore == Top.kind = "serialized" /\ Top.tries <= Retries

(* SerializedTransaction may call its txFunc again. *)
RetriesLeft == Top.kind = "serialized" /\ Top.tries < Retries

(* The deferred function of IsolatedTransaction rolls back after an error   *)
(* or a panic and the call returns, unless SerializedTransaction tries      *)
(* again.                                                                   *)
RollbackReturns(outcome) ==
  /\ Top.kind \in {"own", "serialized"}
  /\ outcome \in Errors \cup {"panic"}
  /\ Ends(outcome)
  /\ ~(outcome = "serialization" /\ RetriesLeft) \/ Top.expired
  /\ Rollback(frame[depth - 1].tx)
  /\ ReturnsError
  /\ LoopReturns(IF RetriesLeft /\ outcome = "serialization" THEN "error" ELSE outcome)
  /\ Pop({})
  /\ UNCHANGED <<options, counters, expiredTx, durable>>

(* Mutant of RollbackRetries: txFunc runs again in the same transaction. *)
RetriesWithoutRollback ==
  /\ ~unwinding /\ depth > 1 /\ RetriesLeft /\ ~Top.expired
  /\ undone' = undone \cup Top.writes
  /\ ReturnsError
  /\ frame' = [frame EXCEPT ![depth].tries = @ + 1, ![depth].writes = {}]
  /\ UNCHANGED <<depth, session, options, counters, unwinding, expiredTx, durable, returned>>

(* The next round of the loop of SerializedTransaction begins. *)
RollbackRetries ==
  /\ ~unwinding /\ depth > 1 /\ RetriesLeft /\ ~Top.expired /\ txCount < MaxTx
  /\ undone' = undone \cup Top.writes
  /\ ReturnsError
  /\ LET tx == txCount + 1 IN
     /\ session' = [session EXCEPT ![SessionOf(Top.tx)] = NoSession,
                                   ![SessionOf(tx)] = Begun(FALSE)]
     /\ options' = [options EXCEPT ![tx] = options[Top.tx]]
     /\ frame' = [frame EXCEPT ![depth] = [Top EXCEPT !.tx = tx, !.tries = @ + 1, !.writes = {}]]
  /\ txCount' = txCount + 1
  /\ UNCHANGED <<depth, spCount, writeCount, unwinding, expiredTx, durable, returned>>

(* COMMIT is executed: what was pending becomes durable. *)
CommitAccepted(parentTx) ==
  LET s == Session(Top.tx) IN
  /\ Accepts(s)
  /\ SharedSession \/ ~Top.expired
  /\ IF Nested(parentTx)
     THEN /\ SetSession(Top.tx, Released(s, TxSavepoint(Top.tx)))
          /\ Pop(Top.writes)
          /\ UNCHANGED <<durable, kept, failed>>
     ELSE /\ SetSession(Top.tx, NoSession)
          /\ Pop({})
          /\ durable' = durable \cup s.writes
          /\ ReturnsNil
  /\ UNCHANGED undone
  /\ LoopReturns("none")

(* The error of Commit becomes the result of the call. *)
CommitErrorReturned == ReturnsError

(* COMMIT fails.  database/sql is done with the transaction, but for one    *)
(* whose context is done, which is rolled back later; SQLite is still in it. *)
CommitFails(parentTx) ==
  LET s == Session(Top.tx)
      stays == SharedSession \/ (Top.expired /\ s.open)
  IN
  /\ ~Nested(parentTx)
  /\ SetSession(Top.tx, IF stays THEN s ELSE NoSession)
  /\ undone' = IF stays THEN undone ELSE undone \cup Top.writes
  /\ CommitErrorReturned
  /\ \E error \in IF SharedSession \/ Top.expired \/ ~Accepts(s) THEN {"error"} ELSE Errors :
       LoopReturns(error)
  /\ Pop({})
  /\ UNCHANGED durable

(* The deferred function commits otherwise, also when recover() returned    *)
(* nil because of runtime.Goexit.                                           *)
CommitReturns(outcome) ==
  /\ Top.kind \in {"own", "serialized"}
  /\ outcome \in {"nil", "goexit"}
  /\ Ends(outcome)
  /\ CommitAccepted(frame[depth - 1].tx) \/ CommitFails(frame[depth - 1].tx)
  /\ UNCHANGED <<options, counters, expiredTx>>

-------------------------------------------------------------------------------
(* The context of a call is done, and so are those derived from it; the     *)
(* transactions begun with one of them are bound to it.                     *)
Expire(d) ==
  /\ d \in 2..depth /\ ~frame[d].expired
  /\ frame' = [i \in 1..MaxDepth |->
                 IF i \in d..depth THEN [frame[i] EXCEPT !.expired = TRUE] ELSE frame[i]]
  /\ expiredTx' = expiredTx \cup {frame[i].tx : i \in {j \in d..depth :
                                     frame[j].kind \in {"own", "serialized"}}}
  /\ UNCHANGED <<depth, session, options, counters, unwinding, durable, history>>

(* database/sql rolls back a transaction whose context is done. *)
AwaitDone(tx) ==
  /\ ~SharedSession
  /\ tx \in expiredTx /\ session[tx].open
  /\ session' = [session EXCEPT ![tx] = NoSession]
  /\ undone' = undone \cup session[tx].writes
  /\ UNCHANGED <<depth, frame, options, counters, unwinding, expiredTx, durable, kept, failed,
                 returned>>

-------------------------------------------------------------------------------
Call ==
  \/ \E opts \in Asked \cup {NilOptions} : Transaction(opts)
  \/ IsolatedTransaction \/ SerializedTransaction \/ TransactionSavepoint
  \/ WithoutTransactions \/ WithGlobalConn

Return ==
  \/ \E outcome \in Outcomes : \/ DirectReturns(outcome) \/ SavepointReturns(outcome)
                               \/ RollbackReturns(outcome) \/ CommitReturns(outcome)
  \/ RollbackRetries

Next ==
  \/ Call \/ Exec \/ ExecFails \/ Return
  \/ \E d \in 2..MaxDepth : Expire(d)
  \/ \E tx \in 1..MaxTx : AwaitDone(tx)

Spec == Init /\ [][Next]_vars

-------------------------------------------------------------------------------
Frames == [kind : Kinds, tx : 0..MaxTx, noTx : BOOLEAN, serial : BOOLEAN, expired : BOOLEAN,
           name : Nat, tries : 0..Retries, writes : SUBSET (1..MaxWrites)]
Sessions == [open : BOOLEAN, aborted : BOOLEAN, readOnly : BOOLEAN, writes : SUBSET (1..MaxWrites),
             saves : Seq([name : Nat, at : Nat])]

(* The type invariant. *)
TypeOK ==
  /\ depth \in 1..MaxDepth
  /\ frame \in [1..MaxDepth -> Frames]
  /\ session \in [0..MaxTx -> Sessions]
  /\ options \in [0..MaxTx -> TxOptions]
  /\ txCount \in 0..MaxTx /\ spCount \in 0..MaxSavepoints /\ writeCount \in 0..MaxWrites
  /\ unwinding \in BOOLEAN
  /\ expiredTx \in SUBSET (1..MaxTx)
  /\ \A writes \in {durable, kept, undone, failed} : writes \in SUBSET (1..MaxWrites)
  /\ returned \in [tries : 0..Retries, error : {"none", "error", "serialization", "panic"}]

(* What open sessions can still commit. *)
Pending == UNION {session[tx].writes : tx \in 0..MaxTx}

(* A write whose txFunc was rolled back never becomes durable, and cannot   *)
(* any more: neither ROLLBACK, ROLLBACK TO of a savepoint at any nesting,   *)
(* the rollback of an expired transaction nor a retry of                    *)
(* SerializedTransaction leaves a part of it in a session.                  *)
RolledBackIsGone == undone \cap (durable \cup Pending) = {}

(* What a call said was committed is durable: a call that returned nil has  *)
(* committed every write of its txFunc and of the calls nested in it.       *)
KeptIsDurable == kept \subseteq durable

Owns(d, tx) == frame[d].kind \in {"own", "serialized"} /\ frame[d].tx = tx

(* Every transaction at the server belongs to exactly one running call,     *)
(* unless its context is done and database/sql is about to roll it back:    *)
(* no outcome of a txFunc, panic and Goexit included, leaves one behind.    *)
OpenIsOwned ==
  \A tx \in 1..MaxTx : session[tx].open =>
    \/ \E d \in 1..depth : Owns(d, tx) /\ \A e \in 1..depth : Owns(e, tx) => e = d
    \/ tx \in expiredTx

(* A txFunc that runs within a transaction has one at the server, with the  *)
(* savepoints its frames will release, unless its context is done.          *)
RunningIsOpen ==
  \A d \in 1..depth : frame[d].tx # 0 /\ frame[d].tx \notin expiredTx =>
    /\ Session(frame[d].tx).open
    /\ frame[d].kind = "savepoint" => Saved(Session(frame[d].tx), frame[d].name) # {}

-------------------------------------------------------------------------------
(* What the documentation says and the code does not do.                    *)

(* db/transaction.go: "If txFunc returns an error, then the transaction is  *)
(* rolled back to the savepoint".                                           *)
FailedIsNotDurable == failed \cap durable = {}

(* README.md: "Serialized with automatic retry on serialization failure".   *)
SerializationFailureIsRetried ==
  returned.error = "serialization" => returned.tries = Retries

(* connection.go: "A zero value TransactionState means no active            *)
(* transaction"; the state of the parent connection is the zero value.      *)
ParentHasNoTransaction == depth = 1 => ~session[0].open

===============================================================================
