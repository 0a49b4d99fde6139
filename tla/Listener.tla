------------------------------- MODULE Listener -------------------------------
(***************************************************************************)
(* LISTEN/NOTIFY of package pqconn (pqconn/listener.go and the listener    *)
(* methods of pqconn/connection.go).  One listener belongs to a            *)
(* connection.  Application goroutines (Callers) call ListenOnChannel,     *)
(* UnlistenChannel and Close on it; the goroutine listen() (Loop) receives *)
(* from pq and spawns goroutines for notify callbacks; the pq main loop    *)
(* delivers connection events and re-subscribes channels; every callback   *)
(* runs in a goroutine of its own.  A step is what one of them does        *)
(* between two points where another goroutine can run: the isStopped       *)
(* check, the call into pq and the update of the callback maps under       *)
(* callbacksMtx are steps of their own, as they are in the code.           *)
(*                                                                         *)
(* A registration r stands for one call of ListenOnChannel with its pair   *)
(* of callbacks; as a goroutine it is the call of its unlisten callback.   *)
(***************************************************************************)
EXTENDS PqListener

CONSTANTS
  Callers,       \* goroutines of the application
  Regs,          \* registrations, one per successful entry of ListenOnChannel
  Loop,          \* the goroutine running listen()
  NoChannel,
  NoReg,
  Manages,       \* the channels a caller listens to and unlistens
  MayClose,      \* the callers that may close the connection
  Reentrant,     \* registrations whose unlisten callback closes the connection
  CallbackKinds, \* which of the two callbacks a registration may pass
  MaxNotify      \* bound: NOTIFY commands issued

ASSUME GoroutineAssumption ==
  /\ Callers \cap Regs = {}
  /\ Loop \notin Callers \cup Regs
  /\ NoChannel \notin Channels
  /\ NoReg \notin Regs

ASSUME UsageAssumption ==
  /\ Manages \in [Callers -> SUBSET Channels]
  /\ MayClose \subseteq Callers
  /\ Reentrant \subseteq Regs
  /\ CallbackKinds \subseteq SUBSET {"notify", "unlisten"}
  /\ MaxNotify \in Nat

(* A registration passes at least one callback. *)
ASSUME CallbackAssumption == {} \notin CallbackKinds

Procs == Callers \cup Regs \cup {Loop}

VARIABLES
  created,           \* connection.listener is not nil
  once,              \* stopOnce; stop is closed as soon as it is not "new"
  notifyCallbacks,   \* [channel -> registrations with an onNotify]
  unlistenCallbacks, \* [channel -> registrations with an onUnlisten]
  pc,                \* where every goroutine is
  arg,               \* the channel a caller is unlistening
  holds,             \* the registration a caller is adding
  batch,             \* the unlisten callbacks a goroutine started and waits for
  todo,              \* channels resubscribeChannels still has to LISTEN to
  chanOf,            \* the channel of a registration
  wants,             \* the callbacks a registration passed
  listened,          \* history: registrations whose ListenOnChannel returned nil
  unlistened,        \* history: how often an unlisten callback was started
  sent,              \* history: the channels of the NOTIFY commands
  due,               \* history: callbacks registered when pq got a notification
                     \* that were not called with it yet
  spawned,           \* goroutines of notify callbacks that have not run yet,
                     \* as <<registration, number of the notification>>
  running            \* notify callbacks that were called and run

mapVars == <<notifyCallbacks, unlistenCallbacks>>
callVars == <<pc, arg, holds, batch>>
regVars == <<chanOf, wants, listened, unlistened>>
notifyVars == <<sent, due, spawned, running>>
vars == <<pqVars, created, once, mapVars, callVars, todo, regVars, notifyVars>>

Stopped == once # "new"

Registered(ch) == notifyCallbacks[ch] # {} \/ unlistenCallbacks[ch] # {}

(* IsListeningOnChannel: what the code answers. *)
IsListeningOnChannel(ch) == created /\ Registered(ch)

(* Where a goroutine goes when its call returns. *)
Home(p) == IF p \in Callers THEN "idle" ELSE "ended"

Goto(p, label) == pc' = [pc EXCEPT ![p] = label]

Init ==
  /\ PqInit
  /\ created = FALSE
  /\ once = "new"
  /\ notifyCallbacks = [ch \in Channels |-> {}]
  /\ unlistenCallbacks = [ch \in Channels |-> {}]
  /\ pc = [p \in Procs |-> IF p = Loop THEN "off" ELSE "idle"]
  /\ arg = [p \in Callers |-> NoChannel]
  /\ holds = [p \in Callers |-> NoReg]
  /\ batch = [p \in Procs |-> {}]
  /\ todo = {}
  /\ chanOf = [r \in Regs |-> NoChannel]
  /\ wants = [r \in Regs |-> {}]
  /\ listened = {}
  /\ unlistened = [r \in Regs |-> 0]
  /\ sent = <<>>
  /\ due = {}
  /\ spawned = {}
  /\ running = {}

-------------------------------------------------------------------------------
(* ListenOnChannel.                                                         *)

(* getOrCreateListener, then the isStopped check of listenOnChannel; the    *)
(* call on a stopped listener returns an error and changes nothing.         *)
ListenOnChannel(p) ==
  \E ch \in Manages[p], r \in Regs, kind \in CallbackKinds :
    /\ pc[p] = "idle" /\ ~Stopped
    /\ chanOf[r] = NoChannel
    /\ created' = TRUE
    /\ pqLoop' = IF created THEN pqLoop ELSE "dial"
    /\ pc' = [pc EXCEPT ![p] = "listen",
                        ![Loop] = IF created THEN pc[Loop] ELSE "select"]
    /\ chanOf' = [chanOf EXCEPT ![r] = ch]
    /\ wants' = [wants EXCEPT ![r] = kind]
    /\ holds' = [holds EXCEPT ![p] = r]
    /\ UNCHANGED <<pqClosed, pqChannels, notifyChan, once, mapVars, arg, batch,
                   todo, listened, unlistened, notifyVars>>

(* Mutant of ListenFails: the error of pq is ignored. *)
ListenErrorIgnored(p) ==
  /\ Goto(p, "register")
  /\ UNCHANGED <<chanOf, wants, holds>>

(* Mutant of ListenFails: LISTEN is tried again until it succeeds. *)
ListenTriedAgain(p) == UNCHANGED <<pc, chanOf, wants, holds>>

(* listenOnChannel returns the error of pq: nothing was registered. *)
ListenFails(p) ==
  /\ Goto(p, "idle")
  /\ chanOf' = [chanOf EXCEPT ![holds[p]] = NoChannel]
  /\ wants' = [wants EXCEPT ![holds[p]] = {}]
  /\ holds' = [holds EXCEPT ![p] = NoReg]

(* l.conn.Listen: an error (pq is closed, the server rejects a new channel), *)
(* ErrChannelAlreadyOpen, or a new channel.  While there is no connection pq *)
(* adds the channel and waits for one.                                       *)
PqListen(p) ==
  LET ch == chanOf[holds[p]] IN
  /\ pc[p] = "listen"
  /\ \/ /\ pqClosed \/ (Connected /\ ch \notin pqChannels)
        /\ ListenFails(p)
        /\ UNCHANGED pqChannels
     \/ /\ ~pqClosed /\ ch \in pqChannels
        /\ Goto(p, "register")
        /\ UNCHANGED <<pqChannels, chanOf, wants, holds>>
     \/ /\ ~pqClosed /\ ch \notin pqChannels
        /\ pqChannels' = pqChannels \cup {ch}
        /\ Goto(p, IF Connected THEN "register" ELSE "waitConn")
        /\ UNCHANGED <<chanOf, wants, holds>>
  /\ UNCHANGED <<pqLoop, pqClosed, notifyChan, created, once, mapVars, arg, batch,
                 todo, listened, unlistened, notifyVars>>

(* pq's Listen wakes up when there is a connection again or pq is closed. *)
PqListenWakes(p) ==
  /\ pc[p] = "waitConn"
  /\ \/ /\ pqClosed
        /\ ListenFails(p)
     \/ /\ ~pqClosed /\ Connected
        /\ Goto(p, "register")
        /\ UNCHANGED <<chanOf, wants, holds>>
  /\ UNCHANGED <<pqVars, created, once, mapVars, arg, batch, todo, listened,
                 unlistened, notifyVars>>

(* Mutants of Add: a new map, and an assignment instead of an append. *)
AddToFreshMap(callbacks, r, kind) ==
  [ch \in {chanOf[r]} |-> IF kind \in wants[r] THEN {r} ELSE {}]
AddOverwrites(callbacks, r, kind) ==
  [ch \in Channels |->
     IF ch = chanOf[r] /\ kind \in wants[r] THEN {r} ELSE callbacks[ch]]

(* callbacks with r appended to its channel, if r passed one of that kind. *)
Add(callbacks, r, kind) ==
  [ch \in Channels |->
     IF ch = chanOf[r] /\ kind \in wants[r] THEN callbacks[ch] \cup {r}
                                           ELSE callbacks[ch]]

(* The callbacks are appended under callbacksMtx; the call returns nil. *)
Register(p) ==
  LET r == holds[p] IN
  /\ pc[p] = "register"
  /\ notifyCallbacks' = Add(notifyCallbacks, r, "notify")
  /\ unlistenCallbacks' = Add(unlistenCallbacks, r, "unlisten")
  /\ listened' = listened \cup {r}
  /\ holds' = [holds EXCEPT ![p] = NoReg]
  /\ Goto(p, "idle")
  /\ UNCHANGED <<pqVars, created, once, arg, batch, todo, chanOf, wants,
                 unlistened, notifyVars>>

-------------------------------------------------------------------------------
(* UnlistenChannel.                                                         *)

(* The check for a nil or stopped listener; otherwise an error. *)
UnlistenChannel(p) ==
  \E ch \in Manages[p] :
    /\ pc[p] = "idle" /\ created /\ ~Stopped
    /\ arg' = [arg EXCEPT ![p] = ch]
    /\ Goto(p, "unlisten")
    /\ UNCHANGED <<pqVars, created, once, mapVars, holds, batch, todo, regVars,
                   notifyVars>>

(* l.conn.Unlisten: an error when pq is closed, the channel is not open or   *)
(* the server rejects the command.                                           *)
PqUnlisten(p) ==
  /\ pc[p] = "unlisten"
  /\ \/ /\ pqClosed \/ Connected \/ arg[p] \notin pqChannels
        /\ Goto(p, "idle")
        /\ arg' = [arg EXCEPT ![p] = NoChannel]
        /\ UNCHANGED pqChannels
     \/ /\ ~pqClosed /\ arg[p] \in pqChannels
        /\ pqChannels' = pqChannels \ {arg[p]}
        /\ Goto(p, "remove")
        /\ UNCHANGED arg
  /\ UNCHANGED <<pqLoop, pqClosed, notifyChan, created, once, mapVars, holds, batch,
                 todo, regVars, notifyVars>>

(* Goroutine p goes on to label and starts the unlisten callbacks rs. *)
StartUnlistenCallbacks(p, rs, label) ==
  /\ pc' = [q \in Procs |-> IF q = p THEN label
                            ELSE IF q \in rs THEN "callback" ELSE pc[q]]
  /\ batch' = [batch EXCEPT ![p] = rs]
  /\ unlistened' = [r \in Regs |-> IF r \in rs THEN unlistened[r] + 1
                                               ELSE unlistened[r]]

(* Under callbacksMtx all callbacks of the channel are taken out. *)
RemoveCallbacks(p) ==
  LET ch == arg[p] IN
  /\ pc[p] = "remove"
  /\ notifyCallbacks' = [notifyCallbacks EXCEPT ![ch] = {}]
  /\ unlistenCallbacks' = [unlistenCallbacks EXCEPT ![ch] = {}]
  /\ StartUnlistenCallbacks(p, unlistenCallbacks[ch], "waitBatch")
  /\ arg' = [arg EXCEPT ![p] = NoChannel]
  /\ UNCHANGED <<pqVars, created, once, holds, todo, chanOf, wants, listened,
                 notifyVars>>

(* Mutant of CallbacksReturned: nobody waits. *)
NoWait(p) == TRUE

(* The WaitGroup of the callbacks p started is at zero. *)
CallbacksReturned(p) == \A r \in batch[p] : pc[r] = "ended"

(* wg.Wait: the call returns when the callbacks it started have returned. *)
UnlistenReturns(p) ==
  /\ pc[p] = "waitBatch"
  /\ CallbacksReturned(p)
  /\ batch' = [batch EXCEPT ![p] = {}]
  /\ Goto(p, "idle")
  /\ UNCHANGED <<pqVars, created, once, mapVars, arg, holds, todo, regVars,
                 notifyVars>>

-------------------------------------------------------------------------------
(* close, called by connection.Close and by listen().                       *)

(* stopOnce.Do: the first caller runs the cleanup and closes stop, callers  *)
(* that come while it runs wait for it, later ones return at once.          *)
EnterClose(p) ==
  /\ once' = IF once = "new" THEN "running" ELSE once
  /\ Goto(p, CASE once = "new"     -> "closeConn"
               [] once = "running" -> "awaitOnce"
               [] once = "done"    -> Home(p))
  /\ UNCHANGED <<pqVars, created, mapVars, arg, holds, batch, todo, regVars,
                 notifyVars>>

(* connection.Close by a caller, or by an unlisten callback; without a      *)
(* listener there is nothing to do.                                         *)
Close(p) ==
  /\ created
  /\ \/ p \in MayClose /\ pc[p] = "idle"
     \/ p \in Reentrant /\ pc[p] = "callback"
  /\ EnterClose(p)

AwaitOnce(p) ==
  /\ pc[p] = "awaitOnce" /\ once = "done"
  /\ Goto(p, Home(p))
  /\ UNCHANGED <<pqVars, created, once, mapVars, arg, holds, batch, todo, regVars,
                 notifyVars>>

(* l.conn.Close: pq drops the connection. *)
ClosePq(p) ==
  /\ pc[p] = "closeConn"
  /\ pqClosed' = TRUE
  /\ Goto(p, "clear")
  /\ UNCHANGED <<pqLoop, pqChannels, notifyChan, created, once, mapVars, arg, holds,
                 batch, todo, regVars, notifyVars>>

(* Mutants of EmptyMaps: one of the maps is forgotten. *)
EmptyNotifyOnly ==
  notifyCallbacks' = [ch \in Channels |-> {}] /\ UNCHANGED unlistenCallbacks
EmptyUnlistenOnly ==
  unlistenCallbacks' = [ch \in Channels |-> {}] /\ UNCHANGED notifyCallbacks

EmptyMaps ==
  /\ notifyCallbacks' = [ch \in Channels |-> {}]
  /\ unlistenCallbacks' = [ch \in Channels |-> {}]

(* Under callbacksMtx both maps are emptied; the unlisten callbacks start. *)
ClearCallbacks(p) ==
  /\ pc[p] = "clear"
  /\ EmptyMaps
  /\ StartUnlistenCallbacks(p, UNION {unlistenCallbacks[ch] : ch \in Channels},
                            "waitClose")
  /\ UNCHANGED <<pqVars, created, once, arg, holds, todo, chanOf, wants, listened,
                 notifyVars>>

(* What stopOnce becomes when the function it ran returns. *)
OnceAfter == "done"

CloseReturns(p) ==
  /\ pc[p] = "waitClose"
  /\ CallbacksReturned(p)
  /\ batch' = [batch EXCEPT ![p] = {}]
  /\ once' = OnceAfter
  /\ Goto(p, Home(p))
  /\ UNCHANGED <<pqVars, created, mapVars, arg, holds, todo, regVars, notifyVars>>

(* safeUnlistenCallback returns, a panic of the callback included. *)
UnlistenCallbackReturns(r) ==
  /\ pc[r] = "callback"
  /\ Goto(r, "ended")
  /\ UNCHANGED <<pqVars, created, once, mapVars, arg, holds, batch, todo, regVars,
                 notifyVars>>

-------------------------------------------------------------------------------
(* The goroutine listen().                                                  *)

LoopStops ==
  /\ pc[Loop] = "select" /\ Stopped
  /\ Goto(Loop, "ended")
  /\ UNCHANGED <<pqVars, created, once, mapVars, arg, holds, batch, todo, regVars,
                 notifyVars>>

(* Mutant of Targets: only one callback of the channel is called. *)
FirstTarget(n) ==
  {r \in Regs : n # 0 /\ notifyCallbacks[sent[n]] # {}
                /\ r = CHOOSE x \in notifyCallbacks[sent[n]] : TRUE}

(* The callbacks notify spawns goroutines for: all of the channel, and none *)
(* for the nil notification that follows a reconnect.                       *)
Targets(n) == IF n = 0 THEN {} ELSE notifyCallbacks[sent[n]]

(* notify spawns a goroutine for every callback, under callbacksMtx.        *)
LoopReceives ==
  LET n == Head(notifyChan) IN
  /\ pc[Loop] = "select" /\ notifyChan # <<>>
  /\ notifyChan' = Tail(notifyChan)
  /\ spawned' = spawned \cup {<<r, n>> : r \in Targets(n)}
  /\ UNCHANGED <<pqLoop, pqClosed, pqChannels, created, once, mapVars, callVars,
                 todo, regVars, sent, due, running>>

(* Notify was closed: listen() closes the listener and returns. *)
LoopFindsNotifyClosed ==
  /\ pc[Loop] = "select" /\ NotifyClosed
  /\ EnterClose(Loop)

(* A spawned goroutine runs safeNotifyCallback, which calls the callback; no *)
(* lock is held and nothing is looked up again.                             *)
NotifyCallbackStarts(r, n) ==
  /\ <<r, n>> \in spawned
  /\ spawned' = spawned \ {<<r, n>>}
  /\ running' = running \cup {<<r, n>>}
  /\ due' = due \ {<<r, n>>}
  /\ UNCHANGED <<pqVars, created, once, mapVars, callVars, todo, regVars, sent>>

(* safeNotifyCallback returns, a panic of the callback included. *)
NotifyCallbackReturns(r, n) ==
  /\ <<r, n>> \in running
  /\ running' = running \ {<<r, n>>}
  /\ UNCHANGED <<pqVars, created, once, mapVars, callVars, todo, regVars, sent, due, spawned>>

-------------------------------------------------------------------------------
(* The pq main loop and the server.                                         *)

ConnectionChanges ==
  /\ PqConnect \/ PqReconnect \/ PqEnd
  /\ UNCHANGED <<created, once, mapVars, callVars, todo, regVars, notifyVars>>

ConnectionLost ==
  /\ PqDisconnect
  /\ UNCHANGED <<created, once, mapVars, callVars, todo, regVars, notifyVars>>

(* handleConnectionEvent(Reconnected): resubscribeChannels returns when the *)
(* listener is stopped, else it copies the registered channels.             *)
SnapshotChannels ==
  /\ pqLoop = "event"
  /\ pqLoop' = "resubscribe"
  /\ todo' = IF Stopped THEN {} ELSE {ch \in Channels : Registered(ch)}
  /\ UNCHANGED <<pqClosed, pqChannels, notifyChan, created, once, mapVars, callVars,
                 regVars, notifyVars>>

(* ... and LISTENs to one channel of the copy after the other, without the  *)
(* lock.  pq adds the channel, or nothing changes: it is already open, or   *)
(* the call fails (pq is closed, the server rejects it) and is only logged. *)
ResubscribeChannel(ch) ==
  /\ pqLoop = "resubscribe" /\ ch \in todo
  /\ todo' = todo \ {ch}
  /\ \/ ~pqClosed /\ pqChannels' = pqChannels \cup {ch}
     \/ UNCHANGED pqChannels
  /\ UNCHANGED <<pqLoop, pqClosed, notifyChan, created, once, mapVars, callVars,
                 regVars, notifyVars>>

(* pq sends the nil notification that follows a reconnect. *)
SendNil ==
  /\ pqLoop = "resubscribe" /\ todo = {} /\ QueueHasRoom
  /\ notifyChan' = Append(notifyChan, 0)
  /\ pqLoop' = "up"
  /\ UNCHANGED <<pqClosed, pqChannels, created, once, mapVars, callVars, todo,
                 regVars, notifyVars>>

(* Some session executes NOTIFY ch: pq receives it if it is subscribed. *)
ServerNotify(ch) ==
  LET subscribed == Connected /\ ~pqClosed /\ ch \in pqChannels IN
  /\ created /\ Len(sent) < MaxNotify
  /\ sent' = Append(sent, ch)
  /\ \/ /\ subscribed /\ QueueHasRoom
        /\ notifyChan' = Append(notifyChan, Len(sent) + 1)
        /\ due' = due \cup {<<r, Len(sent) + 1>> : r \in notifyCallbacks[ch]}
     \/ /\ ~subscribed
        /\ UNCHANGED <<notifyChan, due>>
  /\ UNCHANGED <<pqLoop, pqClosed, pqChannels, created, once, mapVars, callVars, todo,
                 regVars, spawned, running>>

-------------------------------------------------------------------------------
Call(p) == ListenOnChannel(p) \/ UnlistenChannel(p)

(* A goroutine inside a call takes its next step. *)
CallerStep(p) ==
  \/ PqListen(p) \/ PqListenWakes(p) \/ Register(p)
  \/ PqUnlisten(p) \/ RemoveCallbacks(p) \/ UnlistenReturns(p)

CloseStep(p) ==
  AwaitOnce(p) \/ ClosePq(p) \/ ClearCallbacks(p) \/ CloseReturns(p)

LoopStep == LoopStops \/ LoopReceives \/ LoopFindsNotifyClosed

PqStep ==
  \/ ConnectionChanges \/ SnapshotChannels \/ SendNil
  \/ \E ch \in Channels : ResubscribeChannel(ch)

Next ==
  \/ \E p \in Callers : Call(p) \/ CallerStep(p)
  \/ \E p \in Procs : Close(p) \/ CloseStep(p)
  \/ \E r \in Regs : UnlistenCallbackReturns(r)
  \/ \E r \in Regs, n \in 1..MaxNotify :
       NotifyCallbackStarts(r, n) \/ NotifyCallbackReturns(r, n)
  \/ LoopStep
  \/ PqStep
  \/ ConnectionLost
  \/ \E ch \in Channels : ServerNotify(ch)

Spec == Init /\ [][Next]_vars

-------------------------------------------------------------------------------
(* Fairness: goroutines that can run do run, callbacks return, and pq keeps *)
(* dialling with a back-off of seconds, so that the server comes back and a *)
(* goroutine waiting in pq's Listen runs while the connection is up.        *)
Fairness ==
  /\ \A p \in Callers : SF_vars(CallerStep(p))
  /\ \A p \in Procs : WF_vars(CloseStep(p))
  /\ \A r \in Regs : WF_vars(UnlistenCallbackReturns(r))
  /\ \A r \in Regs, n \in 1..MaxNotify :
       WF_vars(NotifyCallbackStarts(r, n) \/ NotifyCallbackReturns(r, n))
  /\ WF_vars(LoopStep)
  /\ WF_vars(PqStep)

LiveSpec == Spec /\ Fairness

-------------------------------------------------------------------------------
CallerLabels ==
  {"idle", "listen", "waitConn", "register", "unlisten", "remove", "waitBatch"}
CloseLabels == {"awaitOnce", "closeConn", "clear", "waitClose"}
Labels == CallerLabels \cup CloseLabels \cup {"off", "select", "callback", "ended"}

(* The type invariant. *)
TypeOK ==
  /\ PqTypeOK
  /\ created \in BOOLEAN
  /\ once \in {"new", "running", "done"}
  /\ notifyCallbacks \in [Channels -> SUBSET Regs]
  /\ unlistenCallbacks \in [Channels -> SUBSET Regs]
  /\ pc \in [Procs -> Labels]
  /\ arg \in [Callers -> Channels \cup {NoChannel}]
  /\ holds \in [Callers -> Regs \cup {NoReg}]
  /\ batch \in [Procs -> SUBSET Regs]
  /\ todo \in SUBSET Channels
  /\ chanOf \in [Regs -> Channels \cup {NoChannel}]
  /\ wants \in [Regs -> SUBSET {"notify", "unlisten"}]
  /\ listened \in SUBSET Regs
  /\ unlistened \in [Regs -> Nat]
  /\ sent \in Seq(Channels)
  /\ due \in SUBSET (Regs \X Nat)
  /\ spawned \in SUBSET (Regs \X Nat)
  /\ running \in SUBSET (Regs \X Nat)

(* No onUnlisten is lost or called twice, whichever of UnlistenChannel,     *)
(* Close and the end of listen() takes it: a registration that              *)
(* ListenOnChannel reported as successful is either still in the map, and   *)
(* was never called, or was taken out of it and called exactly once.        *)
UnlistenExactlyOnce ==
  \A r \in listened : "unlisten" \in wants[r] =>
    unlistened[r] = IF r \in unlistenCallbacks[chanOf[r]] THEN 0 ELSE 1

(* "UnlistenChannel waits for all of them to complete before returning",    *)
(* and so does close: an unlisten callback only runs while the call that    *)
(* started it waits for it.                                                 *)
CallbacksAreAwaited ==
  \A r \in Regs : pc[r] \notin {"idle", "ended"} =>
    \E p \in Procs : r \in batch[p] /\ pc[p] \in {"waitBatch", "waitClose"}

(* Once the onUnlisten of a registration has been started, by whichever     *)
(* goroutine, listen() hands it no notification any more.  The goroutines   *)
(* spawned before may still call onNotify, even after UnlistenChannel has   *)
(* returned: the code waits for unlisten callbacks only.                    *)
NothingSpawnedAfterUnlisten ==
  [][\A call \in spawned' \ spawned : unlistened[call[1]] = 0]_vars

(* A channel with callbacks has a server subscription that can trigger them *)
(* as long as the listener is not stopped, through reconnects and           *)
(* re-subscription, except inside UnlistenChannel between UNLISTEN and the  *)
(* removal of the callbacks.  It presumes that no two goroutines manage one *)
(* channel.                                                                 *)
ListeningIsSubscribed ==
  \A ch \in Channels : IsListeningOnChannel(ch) /\ ~Stopped =>
    \/ ch \in pqChannels
    \/ \E p \in Callers : pc[p] = "remove" /\ arg[p] = ch

(* Every ListenOnChannel, UnlistenChannel and Close returns. *)
CallsReturn == \A p \in Callers : pc[p] # "idle" ~> pc[p] = "idle"

(* The registration is still in the map of its channel. *)
StillNotified(r, n) == n \in DOMAIN sent /\ r \in notifyCallbacks[sent[n]]

(* Every callback registered for a channel is called with a notification    *)
(* that pq put on Notify, unless it is removed or the listener closed.      *)
NotificationsDelivered ==
  \A r \in Regs, n \in 1..MaxNotify :
    <<r, n>> \in due
    ~> <<r, n>> \notin due \/ Stopped \/ ~StillNotified(r, n)

(* The promise of sqldb.ListenerConnection, with the maps as its state.     *)
InMaps(r) == \E ch \in Channels : r \in notifyCallbacks[ch] \cup unlistenCallbacks[ch]

Promise == INSTANCE Subscriptions WITH
  status <- [r \in Regs |-> IF r \notin listened THEN "none"
                            ELSE IF InMaps(r) THEN "listening" ELSE "unlistened"],
  channel <- [r \in Regs |-> IF r \in listened THEN chanOf[r] ELSE NoChannel]

(* Every step of the listener is a step the interface promises. *)
ImplementsSubscriptions == Promise!Spec

-------------------------------------------------------------------------------
(* What the documentation says and the code does not do.                    *)

(* connection.go: "onUnlisten if the channel gets unlistened or the         *)
(* listener connection gets closed for some reason".                        *)
CloseCallsEveryUnlisten ==
  once = "done" => \A r \in listened : "unlisten" \in wants[r] => unlistened[r] = 1

===============================================================================
