# Verification of go-sqldb

TLA+ models of `github.com/domonda/go-sqldb`, checked with TLC, and theorems
about them proved with TLAPS. Paths below are relative to the repository
(`src/` here). The code is the reference: where a comment or a document says
something else, the model follows the code and the difference is listed under
[Differences](#5-differences-between-code-and-documentation).

## 1. The system

go-sqldb is a layer over Go's `database/sql`. A `sqldb.Connection` is a pool or
a transaction of one of five drivers (`pqconn`, `mysqlconn`, `mssqlconn`,
`oraconn`, `sqliteconn`); package `sqldb` has the functions that take a
connection, package `db` the same functions with the connection stored in a
`context.Context`.

| Component | State it keeps | Operations | Called by / calls |
|---|---|---|---|
| **Listener** `pqconn/listener.go`, `pqconn/connection.go` | per connection: the callback maps (under `callbacksMtx`), `stop`/`stopOnce`, `connection.listener`; lib/pq: channel set, session, `Notify` queue | `ListenOnChannel`, `UnlistenChannel`, `IsListeningOnChannel`, `Close`; internally `listen`, `notify`, `handleConnectionEvent`, `resubscribeChannels`, `close` | application goroutines, one `listen()` goroutine, the pq main loop, a goroutine per callback |
| **Transaction functions** `transaction.go`, `db/transaction.go` | context values (connection, "no transactions", "serialized"), two atomic counters, the frames of the Go stack with their `defer`s | `Transaction(Opts/ReadOnly)`, `IsolatedTransaction`, `SerializedTransaction`, `TransactionSavepoint`, `ContextWithoutTransactions` | the application's `txFunc`, nested; `Begin`/`Commit`/`Rollback`/`Exec` of the driver |
| **Driver transactions** `*conn/transaction.go`, `sqliteconn/connection.go` | `sql.Tx` and options; for SQLite the one connection and the savepoint name | `Begin`, `Commit`, `Rollback`, `Exec`, `Query`, `Prepare` | `database/sql`, which rolls back when the context of `Begin` is done; zombiezen SQLite |
| **Pinned connections and pool** `*conn/pinnedconn.go`, `db/pinnedconn.go`, `connection.go` | sessions of a `database/sql` pool, the nested calls of each goroutine with the connection in their context | `PinnedConn`, transactions, `QueryCallback`, `ContextWithGlobalConn`, `ConnectionWithoutPlaceholderSubstitution` | `database/sql` pool; goroutines of the application |
| **SQLite statements** `sqliteconn/stmt.go`, `rows.go`, `connection.go` | the statement cache of the SQLite package, rows that own (or do not own) a statement | `Prepare`, `Query`, `Exec`, `Close`, `Next`, `Scan` | shared by everything on that connection |
| **Batches** `insert.go`, `upsert.go`, `update.go`, `delete.go` | position in the slice, prepared statement, transaction, errors so far | `InsertRowStructs`, `UpdateRowStructs`, `UpsertRowStructs`, `DeleteRowStructs` | a transaction, prepared statements |
| **Row loops** `query.go`, `row.go`, `rows.go`, `db/query.go` | an open `Rows`, number of rows so far, the cap from the context | `QueryRowsAsSlice`, `QueryRowAs`, `QueryCallback`, ... | `Rows`, reflection, scanning |
| **Caches** `cache.go`, the cached paths of `insert.go`, `upsert.go`, `update.go`, `delete.go`, `query.go` | `sync.Map`s of generated queries and of reflected structs | look up, build, store, `ClearQueryCaches` | every row struct function, any goroutine |
| **Query builders** `querybuilder.go`, `*conn/querybuilder.go`, `*conn/queryformatter.go` | none | statements with placeholders and the order of their arguments | the functions that write and find rows |
| **Driver errors** `errors.go`, `*conn/errors.go` | none | `wrapKnownErrors`, the predicates `Is...` | every method of a driver |
| **Scanning** `scan.go`, `mockrows.go`, `sqliteconn/rows.go` | none | conversions between the kinds and widths of values | row functions |
| **Schema information** `information.go`, `*conn/information.go` | none between the queries of one method | `Schemas`, `Tables`, `Columns`, `PrimaryKey`, `ForeignKeys`, `Routines`, ... | catalogue tables that others change |
| **Drop-all helpers** `*conn/dropall.go` | the foreign key checks of a session, objects still to drop | `DropAll`, `DropAllTables` | catalogue tables, DROP statements |
| **Mock** `mockconn.go`, `mockstmt.go`, `mockrows.go` | recordings, statement numbers | all of `Connection` | tests of applications |
| **Configuration** `config.go` | plain data | validation | `Connect` of the drivers |

What is hard about them, and what makes them correct:

* *Listener.* Callers, the `listen()` goroutine, the pq main loop and the
  callbacks interleave; a call into pq and the matching map update are two
  steps without a common lock; `close` waits for callbacks inside a
  `sync.Once`. Correct means: an `onUnlisten` runs exactly once, calls wait for
  the callbacks they start and return, a channel with callbacks is subscribed
  through reconnects, no goroutine for an `onNotify` is spawned once its `onUnlisten`
  was started (those spawned before may still call it), and everything looks to the application like the `ListenerConnection` interface.
* *Transactions.* `txFunc` may return, fail, panic (possibly recovered further
  out) or end its goroutine, at every nesting of transactions and savepoints,
  with contexts that expire and commits that fail. Correct means: what was
  rolled back is never durable, what a call reported as committed is durable,
  no transaction is left open at the server, and none is ended under a
  `txFunc` that is still running.
* *Pool.* Goroutines nest transactions, pinned connections and row callbacks,
  and contexts end under them; a goroutine that needs a second session while it
  holds one can wait for another that does the same. Correct means: a session is
  in use by one call or by none, what is called within a pinned connection
  runs on it, and a call that waits while its goroutine holds nothing gets its
  session in the end.
* *SQLite statements.* Equal query texts share one statement object, and rows
  may or may not own theirs. Correct means: nobody uses a finalized
  statement, rows return what their query found, with the arguments of their own
  call up to the first `driver.Valuer` (what is behind it is not bound) and
  none of another call.
* *Batches and row loops.* Boundaries (remainder, cap, header row) and failures
  at every call to the driver, with more failures while the call cleans up.
  Correct means: all rows or none, each once; no error hidden, no rows or
  statement left open.
* *Caches.* Look up, build and store of several goroutines, against clearing
  and another configuration. Correct means: a call executes what it would
  build without a cache.
* *Dialects.* Numbered or positional placeholders, conflict clauses, MERGE:
  every driver must do the same to a table.
* *Schema information, drop-all.* Several queries that do not run in one
  transaction, while the schema changes between them.

`PROJECT.json` lists the hazards at their lines with the properties that cover
them, or with the reason why none does. One is only described here: the channels
to re-subscribe are copied under the lock and used after it
(`pqconn/listener.go:159`), so a channel unlistened in between is subscribed
again. The model has that step; the surplus subscription costs a lookup that
finds no callback, and the promise that is checked is the other direction,
`ListeningIsSubscribed`.

## 2. Modules

| Module | Models | 
|---|---|
| `Subscriptions` | the promise of `sqldb.ListenerConnection`: a registration listens, then is unlistened, alone by channel or all at once by close |
| `PqListener` | lib/pq's `Listener` as the code uses it (external) |
| `Listener` | `pqconn/listener.go` over `PqListener`; implements `Subscriptions` |
| `ListenerProofs` | theorems about `Listener` |
| `SqlSession` | a server session with a transaction and savepoints (external): operators on a record |
| `Transactions` | `transaction.go`, `db/transaction.go`, driver `Begin`/`Commit`/`Rollback`, over `SqlSession` |
| `TransactionsProofs`, `DurabilityProofs` | theorems about `Transactions`: who owns what is open, where the savepoints are, where the writes go |
| `Pool` | a bounded pool, the nested calls of several goroutines and the sessions they run on |
| `PoolProofs` | theorems about `Pool` |
| `RowLoops` | every function of `query.go` and `row.go` that reads rows, as shapes of one loop |
| `AllOrNothing` | the promise of the functions that write a slice: all rows once, or none |
| `BatchWrites` | these functions, batch by batch; implements `AllOrNothing` |
| `Selections` | what a loop appends, or a query selects, that takes some elements of a sequence |
| `QueryCache` | `cache.go` and the cached paths of the row struct functions, by several goroutines |
| `SqliteStatements` | statements, rows and the statement cache of `sqliteconn` |
| `QueriesProofs` | theorems about `RowLoops`, `BatchWrites` (the refinement among them), `SqliteStatements` and `QueryCache` |
| `Dialects` | the query builders of five drivers and what their statements do to a table |
| `DriverErrors` | the error codes of five servers, `wrapKnownErrors` and the predicates |
| `DropAll` | the drop-all helpers |
| `Information` | `sqldb.Information` in five drivers, over catalogues that change |
| `ScanValues` | the three conversions of driver values, with integers and floats of few bits |
| `DriversProofs` | theorems about `DropAll`, `DriverErrors`, `ScanValues` and `Dialects` |
| `InformationProofs` | theorems about `Information` |
| `InductionLemmas` | induction over numbers and sequences, powers of two, largest and smallest elements |
| `MCListener`, `MCTransactions`, `MCPool`, `MCQueries` | instances for TLC |

Modules meet where the code does: `Transactions` is built on `SqlSession`,
`Listener` on `PqListener`, and `Pool` has the transaction functions again, now
seen from the sessions of a pool. `MCQueries` puts nine modules without common
state side by side: `part`, one of the constant `Parts`, says which of them takes the
steps of a behaviour, so that one run checks them all.

### Listener

A *registration* `r \in Regs` is one call of `ListenOnChannel` with its pair of
callbacks (`wants[r]` says which of the two are not nil). `notifyCallbacks` and
`unlistenCallbacks` are the two maps; slices of callbacks are sets, as nothing
depends on their order. `pc[p]` is where goroutine `p` is, and every label
stands between two points where the code can be interrupted by another
goroutine:

| Code | Actions, in order |
|---|---|
| `listenOnChannel` | `ListenOnChannel` (creation of the listener, stopped check), `PqListen` / `PqListenWakes` (LISTEN, error, already open, or waiting for the server), `Register` (under the mutex) |
| `unlistenChannel` | `UnlistenChannel` (checks), `PqUnlisten`, `RemoveCallbacks` (under the mutex, starts the callbacks), `UnlistenReturns` (`wg.Wait`) |
| `close` | `Close` / `EnterClose` (`stopOnce.Do`), `AwaitOnce` (callers that find the Once running), `ClosePq`, `ClearCallbacks`, `CloseReturns` |
| `listen` | `LoopStops`, `LoopReceives` (with `notify`, which spawns a goroutine per callback), `LoopFindsNotifyClosed` (leads into `close`) |
| callbacks | `NotifyCallbackStarts` (the goroutine calls `onNotify`, at any time after it was spawned), `NotifyCallbackReturns`, `UnlistenCallbackReturns`; a panic is recovered by the code and is a return |
| `handleConnectionEvent`, `resubscribeChannels` | `SnapshotChannels` (under the lock), one `ResubscribeChannel` per channel (without it), which adds the channel or fails and is only logged |
| lib/pq and server | `PqConnect`, `PqDisconnect`, `PqReconnect`, `PqEnd`, `SendNil`, `ServerNotify` |

Two simplifications. `ListenOnChannel` includes the creation of the listener,
which the code does under its own lock; and the checks of `isStopped` are
atomic with the start of a call, because a call that finds the listener stopped
changes nothing. `ping` only keeps the TCP connection alive and is left out, as
are names of connection events and logging.

### Transactions

One goroutine runs nested calls; a *frame* is a call whose `txFunc` is running,
with the values its context has: the transaction of `db.Conn(ctx)`, the two
context keys, and whether the context is done. `session[tx]` is the server's
view of transaction `tx` (with `SharedSession`, `session[0]` is the one SQLite
connection). Writes are numbers, so that a savepoint is the number of the first
write after it, and a rollback keeps the smaller ones.

| Code | Actions |
|---|---|
| `sqldb.Transaction`, `db.TransactionOpts`, `TransactionReadOnly` | `Transaction(opts)`: direct call, pass-through of a compatible parent, or `BeginFrame` |
| `IsolatedTransaction` up to `txFunc` | `BeginFrame` |
| its deferred function | `RollbackReturns` (error, panic), `CommitReturns` (nil, and Goexit where `recover()` is nil) |
| `SerializedTransaction` | the action of that name; `RollbackRetries` is a rollback together with the next `Begin` of the loop |
| `TransactionSavepoint` | the action of that name, `SavepointReturns` |
| `ContextWithoutTransactions`, `ContextWithGlobalConn` | `WithoutTransactions`, `WithGlobalConn` |
| driver `Begin`, `Commit`, `Rollback` | operators `Begin`, `CommitAccepted`, `CommitFails`, `Rollback` |
| `database/sql` | `AwaitDone`: rolls back a transaction whose context is done |
| the application | `Exec`, `ExecFails`, the outcomes of `txFunc`, `Expire` |

`kept`, `undone`, `failed` and `returned` are history variables: what a call
told its caller about the writes of its `txFunc`.

### Pool

`frames[g]` are the running calls of goroutine `g`, each with the function, the
connection its callback finds as `Conn(ctx)` and the session it holds.
`session[s]` is a session of the pool, `waiting[g]` the call for which `g` waits
in `database/sql`.

| Code | Actions |
|---|---|
| `db.Transaction`, `SerializedTransaction`, `TransactionSavepoint` | `Transaction`: on the session of the transaction in the context, else `BeginOn` |
| `db.IsolatedTransaction` | `IsolatedTransaction`; in a transaction it begins another one on the pool |
| `db.PinnedConn`, `PinConn` of the drivers | `PinnedConn`: passes through in transactions and pinned connections |
| `QueryCallback`, `Exec` | `QueryCallback` |
| `ContextWithGlobalConn`, `ConnectionWithoutPlaceholderSubstitution` | actions of these names; `masked` is the wrapped connection |
| commit, rollback, `Close`, however the callback ended | `CallReturns` |
| `database/sql` (external) | `NeedSession`, `PutSession`, `WaitFails`, `TransactionContextDone`, `Reap`, `ClosePool` |

`doubles` says that the application makes calls that need a second session by
their documentation. Without it every call must find its way with one.

### Row loops and batches

A function of `query.go` or `row.go` is a record (`Shape`): whether it reads one
row or all, when it asks for the columns, whether it has a cap, a header row, a
callback or a default. `CallFunction`, `ReadColumns`, `FetchRow`, `TakeRow`,
`CallbackReturns` and `CloseRows` are the steps of the loop, `DriverClosesRows`
is `database/sql` when the context ends. `loop.err` is the error that is going
to be returned, as the set of what `errors.Join` holds; `faults` the history of
what failed.

`BatchWrites` has the slice as a number of rows and a number of columns:
`CallWrite` (early returns, more columns than arguments), `BeginWrites`,
`PrepareWrites`, `ExecBatch` (full batches, then the remainder, or row by
row), `CloseStmt`, `EndWrites` (commit or rollback, or none within an outer
transaction, whose owner ends it after the result). `sent` counts what the
server accepted, `stored` what is durable.

### Query caches

`CallRowStruct`, `Lookup`, `LookupReflected`, `StoreReflected`, `Build`,
`StoreEntry` and `ExecuteStatement` are a call of `InsertRowStruct` and its
relatives, one action per access to a cache. `Reconfigure` changes the reflector between calls and
`ClearQueryCaches` / `ClearNext` clear one map after the other.

### SQLite statements

`stmt` are the statements of the SQLite package (text, state, row, bindings),
`cache` its map from text to statement, `handle` the `Rows` and `Stmt`s of the
application. `Exec`, `Query`, `Prepare`, `StmtExec`, `StmtQuery`, `StmtClose`,
`RowsNext`, `RowsScan`, `RowsClose`, `Close` and `Connect` are the methods.
`TextFree` and `StmtFree` are what the code leaves to its callers: rows and
statements of a text are closed before the text is used otherwise, and a `Stmt`
is not executed while rows of it are open (see [Differences](#5-differences-between-code-and-documentation)).
Some values are `Valuers`: `bindArgs` returns after the first of them (`Reached`,
`Binds`), while `Exec` of the connection resolves them and binds all. A handle
and the history `ran` keep the arguments of the call, and the properties compare them
with what is bound.

### Dialects, driver errors, values

These have no state of their own. `Dialects` translates a builder call into a
record of columns and placeholder numbers, binds the arguments as the server
does (by number or by place) and runs it on `table`; `last` holds what
happened and what the function promises. `DriverErrors` raises every kind of
error with codes of the server, those that no driver has a case for (`NotKnown`)
included, and compares what the application can recognize. `Ambiguous` are the errors
that a driver tells apart by words of the message where these mislead: SQL Server
says REFERENCE for a delete of a referenced row, and messages of SQL Server and SQLite
hold names that may contain the words. `ScanValues` stores each value of a driver (integers, floats, text,
times, nil) into each destination along three paths: `ScanDriverValue`,
`convertAssign` of the mock and `scanColumn` of SQLite. All numbers are counted in
halves, so that a float with a fraction is an integer of the model.

### Schema information and drop-all

`ask` is a call of a method of `Information`, one action per query
(`LookUpSchema`, `CheckTable`, `Ask`, `CheckEither`, ...), `database` what the
catalogue holds, `seen` all that it held during the call; `SchemaChanges` may
happen between any two queries. It leaves alone what belongs to the session: the
default schema, and in SQLite the attached databases. `InformationAssumption` says what a
catalogue can hold: names are unique in their schema (but for indexes of
Oracle), only tables have keys (a foreign table of PostgreSQL, which is
no table to `TableExists`, has columns and none), only PostgreSQL and Oracle have columns that are
not shown, the columns of a foreign key are paired. `DropAll` lists the objects of one kind after
the other and drops them (`ListNames`, `DropOne`, `DropByQuery`), with
`SwitchChecksOff` / `RestoreChecks` around it where the driver does so. Meanwhile
others may drop any object and any foreign key, with every driver
(`ObjectDisappears`, `ForeignKeyDisappears`, recorded in `vanished`); SQL Server
lets nobody drop a table that others refer to, or something that is used. A type may
be used by tables, views, procedures and other types. A transaction on SQLite
is excluded, as the PRAGMA has no effect in it.

## 3. Runs

| Run | Instance | Shows |
|---|---|---|
| `listener_shared` | two goroutines on the same two channels, two registrations with any non-empty pair of callbacks, `p2` and the callback of `r1` may close | `TypeOK`, `UnlistenExactlyOnce`, `CallbacksAreAwaited`, and `ImplementsSubscriptions` |
| `listener_live` | `p1` listens, `p2` closes, two registrations, one NOTIFY, server coming and going | `ListeningIsSubscribed`, `NothingSpawnedAfterUnlisten`, and under fairness `CallsReturn`, `NotificationsDelivered` |
| `tx_pq` | pool with aborted transactions, two transactions, a savepoint, four frames, two writes, two tries, read-only options | `RolledBackIsGone`, `KeptIsDurable`, `OpenIsOwned`, `RunningIsOpen` |
| `tx_sqlite` | one shared session, two (nested) transactions, two savepoints, four frames, two writes | `TypeOK`, `RolledBackIsGone` |
| `pool` | two goroutines on a pool of one session, or of two where they ask for a second one; three nested calls | `SessionsAreAccounted`, `PinnedSessionIsUsed`, `SecretsStayMasked`, `WaitsHoldNothing`, and under fairness `WaitsEnd` |
| `queries` | the nine modules of `MCQueries`, see below | the promises of all functions between the text of a query and its rows |
| `listener_closeRace`, `tx_savepointExpired`, `tx_commitSerialization`, `tx_sqliteCommit`, `pool_readOnly`, `queries_precision` | smallest instance with the behaviour | a documented claim fails, see [Differences](#5-differences-between-code-and-documentation) |

The properties of `queries`:

| Module | Property | Says |
|---|---|---|
| `RowLoops` | `RowsReleasedOnReturn` | no function returns with its rows open |
| | `ResultIsABeginning` | a result is a beginning of the rows: all without an error, exactly the cap with `ErrMaxNumRowsExceeded` |
| | `FailuresAreReported` | every failure of a call is in its error |
| `BatchWrites` | `EachRowOnce`, `BatchesFit` | batches and remainder send each row once, with no more arguments than `MaxArgs` |
| | `StmtClosedBeforeEnd`, `BatchFailuresReported` | the prepared statement is closed before its transaction ends, no error is hidden |
| | `ImplementsAllOrNothing` | the refinement; a failed COMMIT is taken as one that stored nothing (see below) |
| `QueryCache` | `ExecutesAsBuilt` | a call executes the statement it would build without a cache, with the fields of its columns: all wrapped, or all plain as calls do that find their query |
| `SqliteStatements` | `NoUseAfterFinalize`, `NothingRunsWhenAllIsClosed` | no finalized statement is used, none is left running |
| | `RowsAreTheQuerys`, `ExecRunsWithItsArguments` | rows and executions have the arguments of their own call up to the first `driver.Valuer`, NULL behind it, and none of another call |
| `Dialects` | `SameInEveryDialect` | every call has the promised effect on the table in every dialect |
| `DriverErrors` | `KnownErrorsAreClassified` | `errors.Is` recognizes an error as what happened and as nothing else; one with a code of `NotKnown` is returned as it came, and one that is `Ambiguous` is only certain to be an integrity constraint violation |
| | `PredicatesAgree` | a predicate of the driver that holds tells the wrapped error, and the one of the wrapped error holds; excepted are messages with the words of several kinds, and check violations of SQL Server without the word |
| `DropAll` | `NothingIsLeft`, `ChecksAreRestored` | nil means nothing is left, the checks are on again |
| | `OrderNeverFails` | besides a statement that fails by itself, only what others removed meanwhile (SQL Server, and Oracle but for tables) or what an object other than a table uses (SQL Server) makes a call fail: no foreign key and no column does |
| `Information` | `AnswersAreTrue` | an answer was true at some moment of the call, but for the empty answer for a relation that came or went, and for `Columns` and `ColumnExists` of what is neither table nor view |
| `ScanValues` | `KeptOrRounded` | an integer stored as an integer is the driver's number; a float is the nearest one to it; a float64 stored as an integer is that number, but for 2^63 and 2^64 on machines that saturate |

An exception that a property makes is in its comment; where a document or comment of the
repository claims the excepted case too, [Differences](#5-differences-between-code-and-documentation)
says so. `BatchWrites` ends with the transaction;
what a failed COMMIT leaves behind on SQLite, where the connection stays in the
transaction and a later call may commit its writes, is the subject of
`tx_sqliteCommit`, so `ImplementsAllOrNothing` says nothing of SQLite after a failed COMMIT.

Deadlock is checked except where the system may really stop: with a re-entrant
callback (`listener_shared`), `close` and the callback wait for each other.

**Bounds.** Two callers, two channels and two registrations are what every
race of the listener needs: two calls at one time for one channel or for
different ones, and a callback that stays or goes while another does. One
notification in flight is enough for delivery (each is handled on its own by
`LoopReceives`), and `QueueCap = 1` makes a full queue an everyday case. Two
transactions give nesting and a retry, four frames a transaction within a
savepoint within a transaction, or a pass-through between them, two writes
something to keep and something to roll back. `MaxDepth`, `MaxTx`,
`MaxSavepoints`, `MaxWrites`, `MaxNotify` and `Regs` bound counters that the
code does not bound.

A pool of one session makes every second call wait; two goroutines and three
nested calls give a transaction within a pinned connection with a query inside,
while another goroutine waits for it. Goroutines that ask for a second session
get a pool of two; closing the pool and wrapped connections are left to the
others, to keep the number of states down. Three rows with caps from -2 to 2 have every cap below, at and above
the number of rows. With `MaxArgs = 6`, slices of 0 to 7 rows and 0 to 7 columns give no batch, one,
several, with a remainder and without, and rows that do not fit. Two
goroutines, two connections and three struct layouts (keys out of order, a
read-only column and a wrapped field, a duplicate column, keys alone) use the query caches, in pairs of functions. Two
statements, two handles and two texts on the SQLite connection, with argument
lists of different lengths and one that cannot be bound. Three columns with
two values and NULL, keys of one and two columns, a second unique key. Integers
of 5 and 3 bits, floats of 3 and 2 digits whose exponents go beyond the
integers: for each border of the code (int64 and int8 to int32, float64 and
float32, the formatting with an exponent from `LongFrom`) there is one in the model.

**Fairness.** `LiveSpec` of `Listener`: weak fairness for the goroutines that
run without being called: `listen()`, the steps of `close`, callbacks (a
goroutine that was spawned runs, and the application's callbacks are presumed to return) and the pq loop, which dials
again with a back-off. Strong fairness for a caller inside a call: it may wait
for a connection (`waitConn`) that comes and goes, and pq wakes it while the
connection is up, as the back-off is seconds long. Nothing forces the server
to stay up, a NOTIFY to be issued or anyone to call. With a re-entrant callback
`CallsReturn` is false (see below).

`PoolFairness`: a call whose callback is running returns at last, for each
goroutine and depth. The fairness is strong because the callback may make more
calls, and a call that waits cannot return; nobody is forced to begin a call,
and nothing is assumed about the order in which waiting calls are served.

## 4. Proofs

`ListenerProofs` proves for all numbers of callers, registrations, channels and
notifications, from the assumptions of `Listener` (goroutine names are
different, usage constants have their types, a registration has at least one
callback):

| Theorem | Statement |
|---|---|
| `TypeCorrect` | `Spec => []TypeOK` |
| `UnlistenedExactlyOnce` | `Spec => []UnlistenExactlyOnce` |
| `CallbacksAwaited` | `Spec => []CallbacksAreAwaited` |
| `NeverSpawnedAfterUnlisten` | `Spec => NothingSpawnedAfterUnlisten` |
| `Refinement` | `Spec => ImplementsSubscriptions` |
| `RegisteredIsSubscribed` | with `OneManager` (no two callers manage one channel): `Spec => []ListeningIsSubscribed` |

`UnlistenExactlyOnce` is not inductive: that a callback taken out of the map
has been called once needs that a registration is in at most the map entry of
its own channel, that a registration still being added is in no map and was
never unlistened, and that goroutines of registrations that were not started
are idle. The inductive invariant is

    IInv == TypeOK /\ CallInv /\ HoldInv /\ RegInv /\ BatchInv /\ QueueInv /\ CallbacksAreAwaited

`CallInv` ties `pc` to `arg` and to the creation of the listener, `HoldInv`
says that a registration is held by at most one caller, which is inside
`ListenOnChannel`, `RegInv` relates maps, histories and the life of a
registration, `BatchInv` says whose callbacks a goroutine waits for, and
`QueueInv` bounds the numbers in the notification queue by those sent. One
lemma per action shows that it preserves `IInv`. For the subscription theorem
`SubInv` adds that a caller between LISTEN and `Register` has its channel
subscribed, which needs that nobody else manages that channel.


`TransactionsProofs` proves `NoTransactionLeftOpen`, `Spec => []OpenIsOwned`,
for any nesting, number of transactions, savepoints and tries and for both
kinds of drivers. `OpenIsOwned` alone is not inductive: the call that closes a
session must be its only owner, and one that leaves it open after a failed
COMMIT must be about to have it rolled back. The invariant is

    OInv == FrameInv /\ SessionInv /\ OwnerInv /\ OpenInv

`OwnerInv` says that every owner has a transaction begun before, that two
owners have different ones (so `txCount` is never reused), and that the
transaction of an owner whose context is done is in `expiredTx`; `OpenInv`
that an open session has an owner or is in `expiredTx`. The proof goes by kinds
of steps (a statement, a call that starts without or with a transaction, a call
that returns without or with one, a retry, a context that expires), each with a
lemma. A session is only required to be a record with the right fields
(`WellFormed`), as the stack of savepoints plays no role.

It also proves two invariants that depend on where the savepoints are:
`TransactionsTypes`, `Spec => []TypeOK`, and `TransactionRuns`,
`Spec => []RunningIsOpen`. `TypeOK` is not a matter of types alone:
`RolledBackTo` and `Released` of a session without the savepoint they name
have no value. That every release and every rollback finds its savepoint, and
that the transaction of a running txFunc is open, needs

    SInv == OInv /\ DataInv /\ (session \in [0..MaxTx -> Sessions])
            /\ ShapeInv /\ RunInv /\ NestInv
    NestInv == NamesInv /\ HeldInv /\ OrderInv

`ShapeInv` says which transaction a frame may have given the one of its caller,
`RunInv` that the transaction of a frame is open or in `expiredTx`. `NamesInv`
says that the names on a session are different and were given out before (for a nested
sqliteconn transaction the name is its number, for `TransactionSavepoint` a later
number, which is why both counters are in it), `HeldInv` that each
call which owns a savepoint still has it on its session, and `OrderInv` that the
savepoints lie on the session in the order of the calls that set them. `OrderInv` is
what makes the others inductive: a rollback to, or a release of, the newest
call's savepoint takes away those above it only, hence none of an outer call. `PruneStep`,
`RenewStep` and `AppendStep` show that `NestInv` is preserved when
savepoints are taken away, when a session ends or begins anew, and when a
savepoint is set; one lemma for each kind of step brings it into one of the three forms.

`DurabilityProofs` follows the writes. `RolledBackStaysGone` is
`Spec => []RolledBackIsGone` for both kinds of drivers, `PoolKeepsWhatItReports`
is `Spec => []KeptIsDurable` with the assumption `~SharedSession`. Writes are
numbered, and a savepoint has the number of the first write after it.

    WInv == BoundedInv /\ ApartInv /\ PlacedInv /\ CoverInv

`BoundedInv` bounds all numbers by `writeCount`, `ApartInv` says that a write is
durable, undone or pending in one session and never two of these, `PlacedInv`
that the writes of a running call are not durable and pending in no other session
than its own (and that a shared session has no writes of the callers of a
transaction that is begun on it as the outermost one, which COMMIT would take
along), `CoverInv` that the savepoint of a call is before its writes and those
of the calls within it, so that ROLLBACK TO leaves none of them. All steps but a
write and a commit only move or remove what is there; `SettlesWrites` states that
once (`Settles`) and a lemma per kind of step shows it.

    KInv == KeptIsDurable /\ PendingInv /\ EarlierInv

`PendingInv` is the other direction: the writes of a call whose transaction is
open are pending in it, so that COMMIT makes them durable. `EarlierInv` is what
keeps it: a savepoint is after the writes of the calls around its own, so that
ROLLBACK TO takes none of these away. With a shared session a write outside of
the transaction joins whatever is open there, and the theorem does not hold.

`PoolProofs` proves the four safety properties of `Pool` for any number of
goroutines, sessions and nested calls:

| Theorem | Statement |
|---|---|
| `SessionsAccounted` | `PoolSpec => []SessionsAreAccounted` |
| `PinnedSessions` | `PoolSpec => []PinnedSessionIsUsed` |
| `SecretsMasked` | `PoolSpec => []SecretsStayMasked` |
| `WaitingHoldsNothing` | `PoolSpec => []WaitsHoldNothing` |

The invariant `PoolInv` has a part about the nested calls of one goroutine
(`CallsOK`), a part about calls that wait (`Asking`) and one about all
goroutines (`Accounts`: what is held is in use, and held once). That pinned
sessions are used needs to know for each call that a connection of kind
`pinned` has its pinning call below it (`FrameOK`), since a transaction on it
does not hold the session itself; that waiting calls hold nothing needs that
below a call on the pool no session is held (`Careful`), and that a waiting
call still fits when a transaction around it was rolled back meanwhile
(`AskingDone`). Lemmas say what one more call, one less and a rolled back one
do to each part; one lemma per action puts them together.

`QueriesProofs` proves about `RowLoops` `RowsTypeCorrect`, `RowsReleased`, `ResultsAreBeginnings` and
`NothingIsHidden` for all caps and numbers of rows. The invariant

    LoopInv == LoopTypeInv /\ LoopPlaceInv /\ CountInv /\ ResultInv /\ FailuresAreReported

ties the place in the loop to the state of the rows, the number of rows seen
to the length of the result (one more with a header row) and the result to
the beginning of the rows.

About `BatchWrites` it proves for every number of rows, columns and arguments:

| Theorem | Statement |
|---|---|
| `BatchTypeCorrect` | `BatchSpec => []BatchTypeOK` |
| `RowsAreSentOnce` | `BatchSpec => []EachRowOnce` |
| `BatchesAlwaysFit` | `BatchSpec => []BatchesFit` |
| `StmtsAreClosed` | `BatchSpec => []StmtClosedBeforeEnd` |
| `FailuresReported` | `BatchSpec => []BatchFailuresReported` |
| `WritesAreAllOrNothing` | `BatchSpec => ImplementsAllOrNothing` |

    BatchInv == BatchTypeInv /\ StmtInv /\ ErrorInv /\ BatchPlaceInv /\ BatchRowsInv

`BatchRowsInv` says that after so many batches exactly their rows were sent once
and the others not at all; the lemma `Division` states what full batches and
remainder make of a number of rows. The refinement maps the commit to `Store`
and every other end of a call to `Refuse`.

About `SqliteStatements` it proves for any texts, rows, argument lists and `Valuers`, and numbers
of handles and statements `StatementsTypeCorrect`, `StatementsAreAlive`, `RowsBelongToTheirQuery`,
`ArgumentsAreBound` and `ClosedIsAtRest` (the type invariant and the four
properties of the run). The invariant

    SInv == StatementTypeInv /\ StatementCacheInv /\ HeldInv /\ SharedInv /\ RowsInv /\ RunningInv

says that the statement of an open handle is the cached one of its text, that
only a `Stmt` and rows that do not own it share one, that rows are where their statement is, which is
bound to their arguments as far as `bindArgs` goes (`BoundTo`), and that a running statement belongs to an open handle. Without `SharedInv` closing
one handle could finalize the statement of another.

About `QueryCache` it proves `CachesAreTransparent`, `CacheSpec => []ExecutesAsBuilt`,
for any number of goroutines and any layouts. The invariant

    CacheInv ==
      /\ uses \in Uses /\ config \in DOMAIN Layouts /\ DOMAIN queries = uses
      /\ quiet \in BOOLEAN /\ clearing \in Seq(CacheNames)
      /\ quiet => clearing # <<>> /\ \A g \in Goroutines : call[g].pc = "idle"
      /\ reflected = NoLayout \/ reflected = Layouts[config] \/ "reflected" \in Stale
      /\ \A use \in uses :
           queries[use] = NoEntry \/ GoodEntry(use, queries[use]) \/ use[1] \in Stale
      /\ call = [g \in Goroutines |-> call[g]]
      /\ \A g \in Goroutines : CallOK(call[g])

(`GoodEntry`: the entry that its use builds; `CallOK`: what a call at each
step has loaded, built and bound) says what makes a cache transparent: while nothing is reconfigured each entry,
and each entry a goroutine is about to store, is the query and the indices a
call would build; a call's values stand in the order of its query's
placeholders. The latter is the lemma `OrderOfQuery`: selecting the columns
that are no keys and then the keys gives names and indices in one order. It
takes induction over a sequence of any length, see below.

`DriversProofs` proves seven theorems about four modules. `DropAllLeavesNothing`,
`DropOrderIsRight` and `DropRestoresChecks` hold for any database, with any
uses of objects by others (what a table needs of another table is a foreign
key, `CatalogsAssumption`), and for others that drop anything meanwhile. Their invariant `DropInv`
says that all lists before the current one are empty, that what is still to
drop exists or has vanished, and that checks are off
between switching them off and restoring them or telling that they could not be.
`RefusedForAReason` is the step that matters: a drop is only refused for one of
the reasons `OrderNeverFails` names.
`ErrorsAreClassified` and `PredicatesAreErrors` hold for the codes of the model
and any words in names of constraints, with the exceptions of the properties (`NotKnown`,
`Ambiguous`, messages with the words of several kinds); the invariant says that the error is one a server raises, and the
proof goes through the codes of each server (`PqCodes` to `OracleCodes`).

`ScannedAreKeptOrRounded`, `ScanSpec => []KeptOrRounded`, holds for integers and floats of
any numbers of bits, as long as no integer overflows a float (64 bits against
the exponents of `float32`). Its parts:

* `SignedIs` and `UnsignedIs`: a conversion to fewer bits gives back the same
  number exactly if it is in range;
* `NearestIsClose`: rounding does not pass a float, so an integer, which lies
  between two powers of two that are floats, never becomes infinite;
* `ComparedIntegers`: a float that is equal to its integer part, converted
  back, is that integer, because odd floats have no exponent;
* `FloatsBecomeInts` and `FloatsBecomeUints`: out of range only the one float that
  `Saturated` names passes the comparison, on machines that saturate.

The proofs about `ScanInteger` and `ScanReal` found that their cases overlapped: a
CASE with two true guards has no determined value, though TLC takes the first. They are
written with IF now.

`DialectsAgree`, `DialectsSpec => []SameInEveryDialect`, holds for any number
of columns, any keys and `WHERE` columns among them, and any values. The property
with the ranges of `dialect` and `keys` is inductive, for a call only
replaces `last`; the work is in the statements. Each builder has a lemma
that says what its statement does when it is bound to the arguments of its
function: `JoinedIs` and `RunIs` follow the values of the columns and of
the `WHERE` through the argument list, whether the server takes them by
number or by place (MySQL and Oracle, where the order of the list has to be the
order of the text), and `ClausesAre` gives for each conflict clause and
`MERGE` the columns it looks for, what it does with the row it finds and what
it sets. To reason about the order
of keys and other columns it needs what a loop selects (`Selected` of
`Selections`) for sequences of any length.

`InformationProofs` proves `AnswersTrue`, `InfoSpec => []AnswersAreTrue`, for any
databases that satisfy `InformationAssumption`, any arguments and all five servers,
with the two exceptions of the property.
One group of lemmas is about single queries: `KindExistsIs`, `EitherIs`, `ColumnsAre`, `KeysAre`,
`ForeignKeysAre`, `ListIs` and `RoutineFoundIs` say that what a driver's query tells of one
state of the catalogue is what `information.go` promises of it, whichever kinds
of relations the query reads: rows counted by their place in a key give its
columns in order (`InOrderIs`), rows grouped by name give the foreign keys
(`GroupedIs`), and beside a table only an index of Oracle, without keys, has
its name (`OneTable`). The other group is about calls of several queries. Their
invariant

    InfoInv == SeenInv /\ AskInv /\ AnswersAreTrue

says in `SeenInv` that everything in `seen` is a state the database had with the
default schema of the session, and in `AskInv` what each place in a call remembers: a call that
asks for a key has seen the table (`AtQuery`), one that asks whether there is
such a relation at all has seen a state in which the first query finds nothing
(`AtEither`), one that lists the databases of SQLite has for each schema it is done with
the names of some state that was seen, and none of the others (`AtList`). `AnswersKeep` then
needs one state that was seen for which the answer is the promised one. The proof
showed that `AnswersAreTrue` needs the attached databases to stay: with a
database detached during the call a failure would come from a filter that never
named it.

`InductionLemmas` has what needs induction. The library's induction theorems
cannot be used here, since they take an operator, but the subsets of a finite set are
well-founded (`FiniteSetTheorems`): so a set of numbers has a least element
(`LeastExists`), and a set of numbers with 0 and every successor has them all
(`Induction`). From it follow what a loop selects (`SelectedUnfolds`,
`SelectedIsASequence`, `AllSelected`), powers of two (`PowerOfNext`, counted as subsets, `PowersGrow`) and
largest and smallest elements.

The assumptions of these theorems are the named ones of the modules: types of
the constants, `MaxArgs` at least one, that `NoSession` is none of the
sessions, and those of `DropAll`, `ScanValues` and `Information` named above.

Every safety property that a passing run checks is stated by a theorem, with
the same exceptions. Out of
reach of the prover, and therefore only model-checked: the liveness properties
and the existence of steps (`ENABLED`).

## 5. Differences between code and documentation

Shown by a run, in which TLC finds the documented claim violated:

* `listener_closeRace` (`pqconn/listener.go:220`): the stopped check comes
  before the callbacks are added, so a `ListenOnChannel` that overlaps `Close`
  returns nil and its `onUnlisten` is never called, although
  `connection.go:234` promises the call when the connection is closed.
* `tx_savepointExpired` (`db/transaction.go:328`): `rollback to` uses the
  context of the call and fails when it is done; the writes stay in the outer
  transaction, which may commit them.
* `tx_commitSerialization` (`pqconn/transaction.go:100`): the error of COMMIT is
  not wrapped, so a serialization failure reported there is not retried.
* `tx_sqliteCommit` (`sqliteconn/transaction.go:141`): after a failed COMMIT
  nobody rolls back, and the SQLite connection stays in the transaction.
* `queries_precision` (`scan.go:208`): `ScanDriverValue` is said to check for loss of
  precision (line 117); integers are rounded to the nearest float without an error, and
  on machines that saturate (arm64) the float 2^63 is stored as the largest
  int64.
* `pool_readOnly` (`pqconn/connection.go:34`): `config.go:32` promises a
  read-only connection; one session of the pool is set read-only, sessions
  opened later are not.

Noticed while modelling, without a run of their own. Listener and
transactions:

* Later calls of `close` are said to be no-ops (`pqconn/listener.go:283`); one
  made by an unlisten callback that `close` started waits for ever for the
  `sync.Once` it is called in (line 288).
* `db/listen.go:18` says callbacks run in sequence from one goroutine; each
  runs in a goroutine of its own (`pqconn/listener.go:193`), as `connection.go:240` says.
* `pqconn/README.md:30` says no notification is lost after a connection drop;
  a NOTIFY issued while there is no session reaches nobody.
* The goroutine of an `onNotify` may be spawned before and run after
  `UnlistenChannel` or `Close` has removed the callback, run its `onUnlisten` and
  returned (`pqconn/listener.go:193` and 204): only unlisten callbacks are
  waited for. No document says otherwise.
* `Close` before the first `ListenOnChannel` leaves `connection.listener` nil,
  so that a later call creates a listener nothing closes.
* When `stop` is closed `listen()` returns without draining `Notify`.
* `ListenOnChannel` overlapping `UnlistenChannel` of the *same* channel can
  leave registered callbacks without a subscription, because the pq call and
  the map update are separate steps. `ListeningIsSubscribed` therefore
  presumes one managing goroutine per channel.
* `UnlistenChannel` during the re-subscription after a reconnect leaves the
  server subscribed to a channel without callbacks.
* `SerializedTransaction` inside an `IsolatedTransaction` inside a
  `SerializedTransaction` is passed through at the default isolation level,
  because the context key is still there (`db/transaction.go:208`).
* `CheckTxOptionsCompatibility` passes a read-only child through a read-write
  parent and rejects the reverse (as `transaction_test.go` expects); its
  comment (`transaction.go:26`) describes the opposite.
* A custom savepoint function that returns the same name twice makes the inner
  rollback or release hit the outer savepoint (`db/transaction.go:354`).
* `SerializedTransactionRetries` of zero or less makes no try, and the error that is
  returned wraps nil.

SQLite:

* `bindArgs` (`sqliteconn/connection.go:319`) returns after the first
  `driver.Valuer`, so every argument behind it is NULL, without an error; `RowsAreTheQuerys`
  and `ExecRunsWithItsArguments` say what is bound.
* `sqliteconn/connection.go:194` says that `Query()` owns its statement. The
  SQLite package returns the same cached statement for an equal text, so a
  query inside the loop over rows of the same text resets and finalizes
  theirs; and executing a `Stmt` resets rows of it that are open.
* A nested use of several goroutines on the one connection is not protected:
  the SQLite package is documented for one at a time.

Queries, builders, mock:

* The first `InsertRowStruct` of a struct type wraps field values as
  `structreflector.go:32` says, the second one takes the query from the cache
  and sends the plain values (`insert.go:119`); `ExecutesAsBuilt` allows for it.
* `ErrMaxNumRowsExceeded` and other errors are joined with the one of `Close`;
  `QueryRowAsOr` drops a `Close` error that is joined with `ErrNoRows`.
* MySQL takes a conflict on any unique key for one on the key of
  `UpsertRowStruct` or `InsertUnique` and updates or skips another row
  (`mysqlconn/querybuilder.go:79`); `SameInEveryDialect` excepts this case.
* SQL Server accepts at most 1000 rows in VALUES; batches are only bounded by
  `MaxArgs`, 2100.
* `pqconn` writes wrapped arrays into the caller's slice of arguments.
* `MockConn.Prepare` reads the statement number twice (`mockconn.go:419`), a
  `MockQueryResult` shares its rows between queries, and `NormalizeQuery` is only used when
  `QueryLog` is set.

Driver errors:

* SQL Server reports a row that is still referenced with the code of check
  violations and the word REFERENCE; `mssqlconn/errors.go:44` answers `ErrCheckViolation`, as
  `errors_test.go:61` expects, where `README.md:292` and 323 promise
  `ErrForeignKeyViolation`. `IsCheckViolation` is false for the same error, and
  true for another violation whose message has a name with CHECK in it (line 131).
* `README.md:298` says THROW gives `ErrRaisedException`; only number 50000 does
  (`mssqlconn/errors.go:20`), and THROW may use any number from there on.
* SQLite and SQL Server errors are told apart by words of the message; a
  table or constraint called like one of them gives another class.
* Codes without a case (`NotKnown` of `DriverErrors`): MySQL 1364 (a missing value without
  default), 1020 and 1317 (changed row, interrupted), MariaDB 4025 (a check),
  SQL Server 3960 (snapshot conflict),
  ORA-01407 (NULL in an update). MySQL gives a wrong constraint name when the duplicate
  value has a quote in it; SQLite constraint names are lower-cased.
* Errors of `Rows.Next` and `Rows.Err` are wrapped by `sqliteconn` only.

Drop-all:

* `mssqlconn/dropall.go:83` calls the order of `DropAll` the correct one; types are dropped in
  the order in which they are listed (line 109), so the call fails when a type is used
  by one after it.
* `mssqlconn` drops without IF EXISTS, so that its calls fail when an object
  or foreign key vanished after it was listed, or is used by one
  that is not a table (a view with schema binding, a procedure); `oraconn` only
  tolerates tables that vanished, and foreign keys whose own table did.
* On a pool the two `SET FOREIGN_KEY_CHECKS` of `mysqlconn` may run on
  different sessions; the PRAGMA of `sqliteconn` does nothing within a transaction;
  both always switch the checks on in the end, whatever they were before.
* When reading the names ends with an error `mysqlconn` and `sqliteconn`
  do not close the rows.

Schema information:

* `PrimaryKey`, `ForeignKeys`, `Columns` and `ColumnExists` answer "none" or
  false for a relation that comes or goes between their queries, instead of
  `sql.ErrNoRows` (`information.go:172` promises an empty key only of a table that exists);
  `AnswersAreTrue` excepts this.
* `Columns` and `ColumnExists` of `pqconn` and `mssqlconn` also answer for
  indexes and table functions, where `information.go:119` says
  `sql.ErrNoRows`.
* SQLite: `ForeignKeys` fails for `REFERENCES parent` without columns,
  `HasDefault` is false for AUTOINCREMENT keys, `TableExists` finds internal
  tables that `Tables` omits, unqualified names are only looked up in `main`, routines
  are not supported.
* Oracle marks BY DEFAULT identities as read-only; SQL Server lists tables of
  schemas that `Schemas` omits.
* Without a default schema (`pqconn`, `mysqlconn`) most methods fail while
  `TableExists` answers false. A schema name with a dot is split at it.
* `RoutineExists` of `pqconn` with a signature whose name has no schema is
  false always.

Values:

* SQLite's `scanColumn` has no case for a NULL into a pointer to `[]byte` or to `any`
  and returns an error.
* `scanColumn` lets a float32 overflow to infinity and takes any integer but
  zero for true; an INTEGER cannot be scanned into a float64 or a string.

## 6. Not modelled

Of the modelled components: COMMIT whose outcome stays unknown to the client;
custom savepoint names (their contract is to be unique); SQLite rolling back on
its own (disk full, out of memory); a failing `Begin` of the transaction
functions (it uses up a number of the counter, nothing else); the `Result`
variants of the transaction functions, which are wrappers; several goroutines
on one SQLite connection, which its package forbids.

Where several functions go through the same steps (a method of
`sqldb.Connection` in five drivers, `db` and `sqldb` functions of one name),
the steps are modelled once, and `PROJECT.json` maps each to one of the
functions.

Left out, because they have no state and no control that a property could be
about: quoting, escaping and formatting of queries for logs and errors
(`format.go`, `strings.go`, `debug.go`), snake case names, types of columns
and referential actions in schema information, package `information` (plain
queries of `information_schema`), parsing of struct tags, the types that call
`ScanDriverValue` (`Nullable`, `Secret`, mail addresses) and converters that
an application registers, validation of the configuration, the global setters
of package `db`. The recordings of `MockConn` are those of a test double.
The test suite `conntest` and the examples are programs that use the
library.
