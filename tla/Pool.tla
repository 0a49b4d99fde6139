--------------------------------- MODULE Pool ---------------------------------
(***************************************************************************)
(* Sessions of the connection pool of a driver (pqconn, mysqlconn,         *)
(* mssqlconn, oraconn, genericConn) and the goroutines that use them       *)
(* through the functions of package db: which session a call runs on, and  *)
(* which calls wait for one.                                               *)
(*                                                                         *)
(* A frame is a running call of PinnedConn, Transaction,                   *)
(* IsolatedTransaction, ContextWithGlobalConn or QueryCallback; its        *)
(* callback, with the connection of the frame as Conn(ctx), makes the next *)
(* one.  A waiting call is handed a session as soon as one is returned.    *)
(***************************************************************************)
EXTENDS Naturals, Sequences

CONSTANTS
  Goroutines,
  Pools,       \* sets of sessions: of a pool with Config.MaxOpenConns of them
  NoSession,
  MaxDepth,    \* bound: nested calls
  ReadOnly     \* Config.ReadOnly

ASSUME PoolAssumption ==
  NoSession \notin UNION Pools /\ MaxDepth \in Nat /\ ReadOnly \in BOOLEAN

VARIABLES
  session,   \* session -> closed, idle or used, and whether it is set to read-only
  frames,    \* goroutine -> its nested calls
  waiting,   \* goroutine -> the frame it needs a session for, or NoFrame
  pool,      \* "open" or "closed"
  doubles    \* the application makes calls that are documented to need a second
             \* session: IsolatedTransaction in a transaction, ContextWithGlobalConn,
             \* and calls on the pool in the callback of a query of the pool

poolVars == <<session, frames, waiting, pool, doubles>>

-------------------------------------------------------------------------------
(* A connection of the pool, in or outside of                               *)
(* ConnectionWithoutPlaceholderSubstitution, which hides the other          *)
(* interfaces of the connection it wraps.                                   *)
PoolConn == [kind |-> "pool", session |-> NoSession, masked |-> FALSE]

Frame(fn, conn, holds) == [fn |-> fn, conn |-> conn, holds |-> holds]

NoFrame == Frame("none", PoolConn, NoSession)

(* Conn(ctx): of the innermost callback, or the global one. *)
Conn(g) == IF frames[g] = <<>> THEN PoolConn ELSE frames[g][Len(frames[g])].conn

Active(conn) == conn.kind \in {"tx", "doneTx"}

Masked(conn) == [conn EXCEPT !.masked = TRUE]

On(conn, kind, s) == [conn EXCEPT !.kind = kind, !.session = s]

Pooled == DOMAIN session
Idle == {s \in Pooled : session[s].state = "idle"}
Closed == {s \in Pooled : session[s].state = "closed"}

(* In a callback for rows of the pool every call needs a session of its own. *)
InRowsOfPool(g) ==
  frames[g] # <<>> /\ frames[g][Len(frames[g])].fn = "rows" /\ Conn(g).kind = "pool"

Ready(g) ==
  /\ waiting[g] = NoFrame /\ Len(frames[g]) < MaxDepth
  /\ InRowsOfPool(g) => doubles

Push(g, frame) == frames' = [frames EXCEPT ![g] = Append(@, frame)]

(* A call that runs on the session of conn, if it has one. *)
StayOn(g, frame) ==
  /\ Push(g, frame)
  /\ UNCHANGED <<session, waiting, pool, doubles>>

(* The session of the frame's connection, where that is a new one. *)
WithSession(frame, s) ==
  [frame EXCEPT !.holds = s, !.conn.session = IF frame.fn = "rows" THEN @ ELSE s]

(* A call needs a session of the pool: an idle one, a new one while there   *)
(* are less than MaxOpenConns, or it waits.                                 *)
NeedSession(g, frame) ==
  /\ pool = "open"
  /\ IF Idle # {}
     THEN \E s \in Idle :
            /\ session' = [session EXCEPT ![s].state = "used"]
            /\ Push(g, WithSession(frame, s))
            /\ UNCHANGED waiting
     ELSE IF Closed # {}
     THEN \E s \in Closed :
            /\ session' = [session EXCEPT ![s] = [state |-> "used", readOnly |-> FALSE]]
            /\ Push(g, WithSession(frame, s))
            /\ UNCHANGED waiting
     ELSE /\ waiting' = [waiting EXCEPT ![g] = frame]
          /\ UNCHANGED <<session, frames>>
  /\ UNCHANGED <<pool, doubles>>

-------------------------------------------------------------------------------
(* Connect: with Config.ReadOnly pqconn executes SET on a session of the    *)
(* pool, which is idle afterwards.                                          *)
PoolInit ==
  /\ session \in UNION {[S -> {[state |-> "closed", readOnly |-> FALSE],
                               [state |-> "idle", readOnly |-> ReadOnly]}] : S \in Pools}
  /\ \E s \in Pooled : Idle = {s}
  /\ frames = [g \in Goroutines |-> <<>>]
  /\ waiting = [g \in Goroutines |-> NoFrame]
  /\ pool = "open"
  /\ doubles \in BOOLEAN

(* Mutant of BeginOn: a pinned connection begins on its pool. *)
BeginOnPool(g, conn) ==
  NeedSession(g, Frame("tx", On(conn, "tx", NoSession), NoSession))

(* Mutant of BeginOn: the transaction of a wrapped connection is not wrapped. *)
BeginUnmasked(g, conn) ==
  IF conn.kind = "pinned"
  THEN StayOn(g, Frame("tx", On(conn, "tx", conn.session), NoSession))
  ELSE NeedSession(g, Frame("tx", On(PoolConn, "tx", NoSession), NoSession))

(* Begin of a connection, a pinned connection and, for IsolatedTransaction, *)
(* of a transaction, which begins on the pool.                              *)
BeginOn(g, conn) ==
  IF conn.kind = "pinned"
  THEN StayOn(g, Frame("tx", On(conn, "tx", conn.session), NoSession))
  ELSE NeedSession(g, Frame("tx", On(conn, "tx", NoSession), NoSession))

(* db.Transaction, db.SerializedTransaction, and db.TransactionSavepoint,   *)
(* which sets a savepoint in a transaction, on the same session.            *)
Transaction(g) ==
  /\ Ready(g)
  /\ IF Active(Conn(g)) THEN StayOn(g, Frame("through", Conn(g), NoSession)) ELSE BeginOn(g, Conn(g))

IsolatedTransaction(g) ==
  /\ Ready(g)
  /\ Active(Conn(g)) => doubles
  /\ BeginOn(g, Conn(g))

(* Mutant of PassesThrough: pinned connections do not. *)
PassesTransactions(conn) == Active(conn)

(* A transaction and a connection that says it is pinned pass through. *)
PassesThrough(conn) == Active(conn) \/ (conn.kind = "pinned" /\ ~conn.masked)

(* A wrapped connection is no ConnPinner: ErrUnsupported, nothing happens. *)
PinnedConn(g) ==
  /\ Ready(g)
  /\ LET conn == Conn(g) IN
     IF PassesThrough(conn) THEN StayOn(g, Frame("through", conn, NoSession))
     ELSE /\ ~conn.masked
          /\ NeedSession(g, Frame("pinned", On(conn, "pinned", NoSession), NoSession))

(* QueryCallback, or Exec with nothing nested: on the session of the        *)
(* connection, or one of the pool that the rows hold until they are closed. *)
QueryCallback(g) ==
  /\ Ready(g)
  /\ Conn(g).kind # "doneTx"
  /\ IF Conn(g).kind = "pool"
     THEN NeedSession(g, Frame("rows", Conn(g), NoSession))
     ELSE StayOn(g, Frame("rows", Conn(g), NoSession))

ContextWithGlobalConn(g) ==
  /\ Ready(g) /\ doubles
  /\ Conn(g).kind # "pool"
  /\ StayOn(g, Frame("global", PoolConn, NoSession))

(* ContextWithConn with the connection wrapped. *)
WithoutPlaceholderSubstitution(g) ==
  /\ Ready(g)
  /\ ~Conn(g).masked
  /\ StayOn(g, Frame("masked", Masked(Conn(g)), NoSession))

-------------------------------------------------------------------------------
(* database/sql: a returned session goes to a waiting call, else it is idle *)
(* or, over MaxIdleConns, closed.                                           *)
Waiting == {g \in Goroutines : waiting[g] # NoFrame}

PutSession(s, rest) ==
  IF s = NoSession THEN frames' = rest /\ UNCHANGED <<session, waiting>>
  ELSE IF Waiting # {} /\ pool = "open"
  THEN \E g \in Waiting :
         /\ frames' = [rest EXCEPT ![g] = Append(@, WithSession(waiting[g], s))]
         /\ waiting' = [waiting EXCEPT ![g] = NoFrame]
         /\ UNCHANGED session
  ELSE /\ \/ session' = [session EXCEPT ![s] = [state |-> "closed", readOnly |-> FALSE]]
          \/ pool = "open" /\ session' = [session EXCEPT ![s].state = "idle"]
       /\ frames' = rest
       /\ UNCHANGED waiting

(* Mutant of Released: a pinned session is not returned. *)
ReleasedTransactions(frame) == IF frame.fn = "pinned" THEN NoSession ELSE frame.holds

(* Commit, Rollback, Close of the pinned connection or of the rows: with    *)
(* the callback's result, its error or its panic.                           *)
Released(frame) == frame.holds

CallReturns(g) ==
  /\ waiting[g] = NoFrame /\ frames[g] # <<>>
  /\ PutSession(Released(frames[g][Len(frames[g])]),
                [frames EXCEPT ![g] = SubSeq(@, 1, Len(@) - 1)])
  /\ UNCHANGED <<pool, doubles>>

(* The context of a waiting call is done. *)
WaitFails(g) ==
  /\ waiting[g] # NoFrame
  /\ waiting' = [waiting EXCEPT ![g] = NoFrame]
  /\ UNCHANGED <<session, frames, pool, doubles>>

Done(frame, s) ==
  IF frame.conn.kind = "tx" /\ frame.conn.session = s
  THEN [frame EXCEPT !.conn = On(@, "doneTx", s), !.holds = NoSession] ELSE frame

(* The context of a transaction is done: database/sql rolls it back and,    *)
(* unless it is on a pinned connection, returns its session.  Rows of it    *)
(* are closed.                                                              *)
TransactionContextDone(g, i) ==
  /\ frames[g][i].fn = "tx" /\ frames[g][i].conn.kind = "tx"
  /\ LET tx == frames[g][i]
     IN PutSession(tx.holds,
          [frames EXCEPT ![g] = [j \in DOMAIN @ |-> IF j >= i THEN Done(@[j], tx.conn.session) ELSE @[j]]])
  /\ UNCHANGED <<pool, doubles>>

(* An idle session ends; one in use is not reaped. *)
Reap(s) ==
  /\ session[s].state = "idle"
  /\ session' = [session EXCEPT ![s] = [state |-> "closed", readOnly |-> FALSE]]
  /\ UNCHANGED <<frames, waiting, pool, doubles>>

(* Close of the connection: waiting calls fail, idle sessions are closed,   *)
(* the others when they are returned.                                       *)
ClosePool ==
  /\ pool = "open"
  /\ pool' = "closed"
  /\ session' = [s \in Pooled |->
                   IF session[s].state = "idle" THEN [state |-> "closed", readOnly |-> FALSE] ELSE session[s]]
  /\ waiting' = [g \in Goroutines |-> NoFrame]
  /\ UNCHANGED <<frames, doubles>>

PoolNext ==
  \/ \E g \in Goroutines :
       \/ Transaction(g) \/ IsolatedTransaction(g) \/ PinnedConn(g) \/ QueryCallback(g)
       \/ ContextWithGlobalConn(g) \/ WithoutPlaceholderSubstitution(g)
       \/ CallReturns(g) \/ WaitFails(g)
       \/ \E i \in DOMAIN frames[g] : TransactionContextDone(g, i)
  \/ \E s \in Pooled : Reap(s)
  \/ ClosePool

(* Callbacks return: no call goes on for ever with calls nested in it. *)
PoolFairness ==
  \A g \in Goroutines : \A depth \in 1..MaxDepth :
    SF_poolVars(Len(frames[g]) = depth /\ CallReturns(g))

PoolSpec == PoolInit /\ [][PoolNext]_poolVars

-------------------------------------------------------------------------------
(* The calls that hold s: goroutine and depth. *)
Holders(s) ==
  {h \in Goroutines \X (1..MaxDepth) :
     h[2] \in DOMAIN frames[h[1]] /\ frames[h[1]][h[2]].holds = s}

(* connection.go:170: a session is in use by exactly one call of one        *)
(* goroutine or by none, however calls return, fail or lose their           *)
(* transaction: none leaks, and none is returned twice.                     *)
SessionsAreAccounted ==
  \A s \in Pooled :
    IF session[s].state = "used" THEN \E h \in Holders(s) : Holders(s) = {h} ELSE Holders(s) = {}

(* db/pinnedconn.go:12: every function called with the context of           *)
(* PinnedConn runs on its session, at any depth, except an                  *)
(* IsolatedTransaction within a transaction, which begins on another one,   *)
(* and what the application asks of the global connection.                  *)
Leaves(g, k) ==
  \/ frames[g][k].fn = "global"
  \/ frames[g][k].fn = "tx" /\ Active(frames[g][k - 1].conn)

PinnedSessionIsUsed ==
  \A g \in Goroutines : \A i, j \in DOMAIN frames[g] :
    (frames[g][i].fn = "pinned" /\ i < j /\ \A k \in i + 1 .. j : ~Leaves(g, k))
      => frames[g][j].conn.session = frames[g][i].holds

(* connection.go:125: a transaction begun on a wrapped connection, at any   *)
(* depth, does not put arguments into the text of errors either.            *)
SecretsStayMasked ==
  \A g \in Goroutines : \A i, j \in DOMAIN frames[g] :
    (frames[g][i].conn.masked /\ i < j /\ \A k \in i + 1 .. j : frames[g][k].fn # "global")
      => frames[g][j].conn.masked

(* db/pinnedconn.go:62: no call waits for a session while its goroutine     *)
(* holds one that others wait for, if the application does not ask for      *)
(* a second one.                                                            *)
WaitsHoldNothing ==
  \A g \in Waiting : ~doubles => \A i \in DOMAIN frames[g] : frames[g][i].holds = NoSession

(* So every wait for a session ends. *)
WaitsEnd == \A g \in Goroutines : (waiting[g] # NoFrame /\ ~doubles) ~> waiting[g] = NoFrame

(* config.go:32: in read-only mode no statement runs on a session that can  *)
(* write.                                                                   *)
ReadOnlyIsEnforced ==
  ReadOnly => \A s \in Pooled : session[s].state = "used" => session[s].readOnly

===============================================================================
