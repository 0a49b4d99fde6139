---------------------------- MODULE ListenerProofs ----------------------------
(***************************************************************************)
(* Proofs about module Listener, for any callers, channels, registrations  *)
(* and bounds.  IInv is inductive; the registration part of it follows a   *)
(* registration from the call of ListenOnChannel that holds it, through    *)
(* the callback maps, to the goroutine that runs its unlisten callback.    *)
(***************************************************************************)
EXTENDS Listener, TLAPS

Listens == {"listen", "waitConn", "register"}
Waits == {"waitBatch", "waitClose"}

(* What a caller carries fits the step it is at; listen() starts with the   *)
(* listener.                                                                *)
CallInv ==
  /\ \A p \in Callers :
       /\ pc[p] \in Listens <=> holds[p] # NoReg
       /\ pc[p] \in {"unlisten", "remove"} => arg[p] \in Channels
  /\ ~created => pc[Loop] = "off"

(* A held registration belongs to one call and is not in the maps yet. *)
HoldInv ==
  /\ \A p \in Callers : holds[p] # NoReg =>
       /\ holds[p] \notin listened
       /\ chanOf[holds[p]] \in Channels
       /\ wants[holds[p]] # {}
  /\ \A p, q \in Callers : holds[p] = holds[q] /\ holds[p] # NoReg => p = q

(* Where a registration can be found, and how often it was called. *)
RegInv ==
  \A r \in Regs :
    /\ r \in listened => chanOf[r] \in Channels
    /\ r \notin listened => unlistened[r] = 0
    /\ \A ch \in Channels : r \in notifyCallbacks[ch] =>
         r \in listened /\ chanOf[r] = ch /\ "notify" \in wants[r] /\ unlistened[r] = 0
    /\ \A ch \in Channels : r \in unlistenCallbacks[ch] =>
         r \in listened /\ chanOf[r] = ch /\ "unlisten" \in wants[r] /\ unlistened[r] = 0
    /\ r \in listened /\ "unlisten" \in wants[r] =>
         unlistened[r] = IF r \in unlistenCallbacks[chanOf[r]] THEN 0 ELSE 1
    /\ r \in listened /\ wants[r] = {"notify", "unlisten"} =>
         (r \in notifyCallbacks[chanOf[r]] <=> r \in unlistenCallbacks[chanOf[r]])
    /\ pc[r] # "idle" => unlistened[r] # 0

(* Only a goroutine that waits has a batch. *)
BatchInv ==
  \A p \in Procs : pc[p] \notin Waits => batch[p] = {}

(* Notify carries numbers of notifications that were sent, or nil. *)
QueueInv ==
  \A i \in 1..Len(notifyChan) : notifyChan[i] \in 0..Len(sent)

IInv ==
  /\ TypeOK
  /\ CallInv
  /\ HoldInv
  /\ RegInv
  /\ BatchInv
  /\ QueueInv
  /\ CallbacksAreAwaited
-------------------------------------------------------------------------------
(* Facts about the constants. *)
LEMMA ProcFacts ==
  /\ Callers \subseteq Procs
  /\ Regs \subseteq Procs
  /\ Loop \in Procs
  /\ \A p \in Callers : p \notin Regs /\ p # Loop
  /\ Loop \notin Regs
  /\ \A p \in Callers : Manages[p] \subseteq Channels
  /\ NoReg \notin Regs
  /\ NoChannel \notin Channels
BY GoroutineAssumption, UsageAssumption DEF Procs

(* The invariant holds in the beginning. *)
LEMMA InitIInv == Init => IInv
<1> SUFFICES ASSUME Init PROVE IInv
  OBVIOUS
<1> USE ProcFacts DEF Init, PqInit
<1>1. TypeOK
  <2>1. PqTypeOK
    <3>1. notifyChan \in Seq(Nat)
      OBVIOUS
    <3>2. pqClosed \in BOOLEAN
      OBVIOUS
    <3>3. QED
      BY <3>1, <3>2 DEF PqTypeOK
  <2>2. pc \in [Procs -> Labels]
    BY DEF Labels, CallerLabels
  <2>3. sent \in Seq(Channels)
    OBVIOUS
  <2>4. /\ arg \in [Callers -> Channels \cup {NoChannel}]
        /\ holds \in [Callers -> Regs \cup {NoReg}]
        /\ batch \in [Procs -> SUBSET Regs]
        /\ chanOf \in [Regs -> Channels \cup {NoChannel}]
    OBVIOUS
  <2>5. /\ notifyCallbacks \in [Channels -> SUBSET Regs]
        /\ unlistenCallbacks \in [Channels -> SUBSET Regs]
        /\ wants \in [Regs -> SUBSET {"notify", "unlisten"}]
        /\ unlistened \in [Regs -> Nat]
    OBVIOUS
  <2>6. QED
    BY <2>1, <2>2, <2>3, <2>4, <2>5 DEF TypeOK
<1>2. CallInv /\ HoldInv
  BY DEF CallInv, HoldInv, Listens
<1>3. RegInv
  BY DEF RegInv
<1>4. BatchInv
  BY DEF BatchInv
<1>5. QueueInv
  BY DEF QueueInv
<1>6. CallbacksAreAwaited
  BY DEF CallbacksAreAwaited
<1>7. QED
  BY <1>1, <1>2, <1>3, <1>4, <1>5, <1>6 DEF IInv

-------------------------------------------------------------------------------
(* Type correctness of every action. *)

(* A jump to a label keeps the type of pc. *)
LEMMA GotoTypes ==
  ASSUME TypeOK, NEW p \in Procs, NEW label \in Labels, Goto(p, label)
  PROVE  pc' \in [Procs -> Labels]
BY DEF TypeOK, Goto

(* The start of a call keeps the types. *)
LEMMA CallTypes ==
  ASSUME TypeOK, NEW p \in Callers, Call(p)
  PROVE  TypeOK'
<1> USE ProcFacts DEF TypeOK, PqTypeOK, Labels, CallerLabels, CloseLabels,
                     mapVars, callVars, regVars, notifyVars, pqVars, Goto
<1>1. CASE ListenOnChannel(p)
  <2>1. PICK ch \in Manages[p], r \in Regs, kind \in CallbackKinds :
          ListenOnChannel(p)!(ch, r, kind)
    BY <1>1 DEF ListenOnChannel
  <2>2. ch \in Channels /\ kind \in SUBSET {"notify", "unlisten"}
    BY UsageAssumption
  <2>3. pc' \in [Procs -> Labels]
    BY <2>1
  <2>4. /\ chanOf' \in [Regs -> Channels \cup {NoChannel}]
        /\ wants' \in [Regs -> SUBSET {"notify", "unlisten"}]
        /\ holds' \in [Callers -> Regs \cup {NoReg}]
    BY <2>1, <2>2
  <2>5. pqLoop' \in {"off", "dial", "redial", "event", "resubscribe", "up", "ended"}
    BY <2>1
  <2>6. QED
    BY <2>1, <2>3, <2>4, <2>5
<1>2. CASE UnlistenChannel(p)
  BY <1>2 DEF UnlistenChannel
<1>3. QED
  BY <1>1, <1>2 DEF Call

(* A step inside a call keeps the types. *)
LEMMA CallerStepTypes ==
  ASSUME TypeOK, CallInv, HoldInv, NEW p \in Callers, CallerStep(p)
  PROVE  TypeOK'
<1> USE ProcFacts DEF TypeOK, PqTypeOK, Labels, CallerLabels, CloseLabels,
                     mapVars, callVars, regVars, notifyVars, pqVars, Goto
<1>1. CASE PqListen(p)
  <2>1. holds[p] \in Regs /\ chanOf[holds[p]] \in Channels \cup {NoChannel}
    BY <1>1 DEF PqListen, CallInv, Listens
  <2>2. pqChannels' \in SUBSET Channels
    BY <1>1, <2>1 DEF PqListen, HoldInv
  <2>3. pc' \in [Procs -> Labels]
    BY <1>1, GotoTypes DEF PqListen, ListenFails
  <2>4. /\ chanOf' \in [Regs -> Channels \cup {NoChannel}]
        /\ wants' \in [Regs -> SUBSET {"notify", "unlisten"}]
        /\ holds' \in [Callers -> Regs \cup {NoReg}]
    BY <1>1, <2>1 DEF PqListen, ListenFails
  <2>5. QED
    BY <1>1, <2>2, <2>3, <2>4 DEF PqListen
<1>2. CASE PqListenWakes(p)
  BY <1>2 DEF PqListenWakes, ListenFails
<1>3. CASE Register(p)
  <2>1. holds[p] \in Regs
    BY <1>3 DEF Register, CallInv, Listens
  <2>2. ASSUME NEW callbacks \in [Channels -> SUBSET Regs], NEW kind
        PROVE  Add(callbacks, holds[p], kind) \in [Channels -> SUBSET Regs]
    BY <2>1 DEF Add
  <2>3. pc' \in [Procs -> Labels]
    BY <1>3, GotoTypes DEF Register
  <2>4. listened' \in SUBSET Regs /\ holds' \in [Callers -> Regs \cup {NoReg}]
    BY <1>3, <2>1 DEF Register
  <2>5. QED
    BY <1>3, <2>2, <2>3, <2>4 DEF Register
<1>4. CASE PqUnlisten(p)
  <2>1. pc' \in [Procs -> Labels]
    BY <1>4, GotoTypes DEF PqUnlisten
  <2>2. pqChannels' \in SUBSET Channels /\ arg' \in [Callers -> Channels \cup {NoChannel}]
    BY <1>4 DEF PqUnlisten
  <2>3. QED
    BY <1>4, <2>1, <2>2 DEF PqUnlisten
<1>5. CASE RemoveCallbacks(p)
  <2>1. arg[p] \in Channels
    BY <1>5 DEF RemoveCallbacks, CallInv
  <2>2. pc' \in [Procs -> Labels]
    BY <1>5 DEF RemoveCallbacks, StartUnlistenCallbacks
  <2>3. unlistened' \in [Regs -> Nat]
    BY <1>5 DEF RemoveCallbacks, StartUnlistenCallbacks
  <2>4. batch' \in [Procs -> SUBSET Regs]
    BY <1>5, <2>1 DEF RemoveCallbacks, StartUnlistenCallbacks
  <2>5. /\ notifyCallbacks' \in [Channels -> SUBSET Regs]
        /\ unlistenCallbacks' \in [Channels -> SUBSET Regs]
        /\ arg' \in [Callers -> Channels \cup {NoChannel}]
    BY <1>5 DEF RemoveCallbacks
  <2>6. QED
    BY <1>5, <2>2, <2>3, <2>4, <2>5 DEF RemoveCallbacks
<1>6. CASE UnlistenReturns(p)
  BY <1>6 DEF UnlistenReturns
<1>7. QED
  BY <1>1, <1>2, <1>3, <1>4, <1>5, <1>6 DEF CallerStep

(* Entering close keeps the types. *)
LEMMA EnterCloseTypes ==
  ASSUME TypeOK, NEW p \in Procs, EnterClose(p)
  PROVE  TypeOK'
BY ProcFacts DEF TypeOK, PqTypeOK, Labels, CallerLabels, CloseLabels, EnterClose,
   Home, Goto, mapVars, callVars, regVars, notifyVars, pqVars

(* A step of close keeps the types. *)
LEMMA CloseTypes ==
  ASSUME TypeOK, NEW p \in Procs, Close(p) \/ CloseStep(p)
  PROVE  TypeOK'
<1> USE ProcFacts DEF TypeOK, PqTypeOK, Labels, CallerLabels, CloseLabels,
                     mapVars, callVars, regVars, notifyVars, pqVars, Goto, Home
<1>1. CASE Close(p)
  BY <1>1, EnterCloseTypes DEF Close
<1>2. CASE AwaitOnce(p)
  BY <1>2 DEF AwaitOnce
<1>3. CASE ClosePq(p)
  BY <1>3 DEF ClosePq
<1>4. CASE ClearCallbacks(p)
  BY <1>4 DEF ClearCallbacks, EmptyMaps, StartUnlistenCallbacks
<1>5. CASE CloseReturns(p)
  BY <1>5 DEF CloseReturns, OnceAfter
<1>6. QED
  BY <1>1, <1>2, <1>3, <1>4, <1>5 DEF CloseStep

(* A notify callback starts or returns. *)
NotifyCallbackStep(r, n) == NotifyCallbackStarts(r, n) \/ NotifyCallbackReturns(r, n)

(* The start or return of a callback keeps the types. *)
LEMMA CallbackTypes ==
  ASSUME TypeOK, NEW r \in Regs,
         UnlistenCallbackReturns(r) \/ \E n \in 1..MaxNotify : NotifyCallbackStep(r, n)
  PROVE  TypeOK'
<1> USE ProcFacts DEF TypeOK, PqTypeOK, Labels, CallerLabels, CloseLabels,
                     mapVars, callVars, regVars, notifyVars, pqVars, Goto
<1>1. CASE UnlistenCallbackReturns(r)
  BY <1>1 DEF UnlistenCallbackReturns
<1>2. ASSUME NEW n \in 1..MaxNotify, NotifyCallbackStep(r, n)
      PROVE  TypeOK'
  BY <1>2 DEF NotifyCallbackStep, NotifyCallbackStarts, NotifyCallbackReturns
<1>3. QED
  BY <1>1, <1>2

(* A step of listen() keeps the types. *)
LEMMA LoopTypes ==
  ASSUME TypeOK, QueueInv, LoopStep
  PROVE  TypeOK'
<1> USE ProcFacts DEF TypeOK, PqTypeOK, Labels, CallerLabels, CloseLabels,
                     mapVars, callVars, regVars, notifyVars, pqVars, Goto
<1>1. CASE LoopStops
  BY <1>1 DEF LoopStops
<1>2. CASE LoopReceives
  <2> DEFINE n == Head(notifyChan)
             targets == Targets(n)
  <2>1. Len(notifyChan) > 0 /\ n = notifyChan[1]
    BY <1>2 DEF LoopReceives
  <2>2. n \in 0..Len(sent)
    <3>1. 1 \in 1..Len(notifyChan)
      BY <2>1
    <3>2. notifyChan[1] \in 0..Len(sent)
      BY <3>1 DEF QueueInv
    <3>3. QED
      BY <2>1, <3>2
  <2>3. targets \subseteq Regs
    BY <2>2 DEF Targets
  <2>4. spawned' = spawned \cup {<<r, n>> : r \in targets}
    BY <1>2 DEF LoopReceives
  <2>5. spawned' \in SUBSET (Regs \X Nat)
    BY <2>2, <2>3, <2>4
  <2>6. notifyChan' \in Seq(Nat)
    BY <1>2 DEF LoopReceives
  <2>7. QED
    BY <1>2, <2>5, <2>6 DEF LoopReceives
<1>3. CASE LoopFindsNotifyClosed
  BY <1>3, EnterCloseTypes DEF LoopFindsNotifyClosed
<1>4. QED
  BY <1>1, <1>2, <1>3 DEF LoopStep

(* A step of pq or the server keeps the types. *)
LEMMA PqTypes ==
  ASSUME TypeOK, PqStep \/ ConnectionLost \/ \E ch \in Channels : ServerNotify(ch)
  PROVE  TypeOK'
<1> USE ProcFacts DEF TypeOK, PqTypeOK, Labels, CallerLabels, CloseLabels,
                     mapVars, callVars, regVars, notifyVars, pqVars, Goto
<1>1. CASE ConnectionChanges
  BY <1>1 DEF ConnectionChanges, PqConnect, PqReconnect, PqEnd
<1>2. CASE SnapshotChannels
  BY <1>2 DEF SnapshotChannels
<1>3. CASE SendNil
  BY <1>3 DEF SendNil
<1>4. ASSUME NEW ch \in Channels, ResubscribeChannel(ch)
      PROVE  TypeOK'
  BY <1>4 DEF ResubscribeChannel
<1>5. CASE ConnectionLost
  BY <1>5 DEF ConnectionLost, PqDisconnect
<1>6. ASSUME NEW ch \in Channels, ServerNotify(ch)
      PROVE  TypeOK'
  <2>1. sent' \in Seq(Channels)
    BY <1>6 DEF ServerNotify
  <2>2. notifyChan' \in Seq(Nat)
    <3>1. Len(sent) + 1 \in Nat
      OBVIOUS
    <3>2. Append(notifyChan, Len(sent) + 1) \in Seq(Nat)
      BY <3>1
    <3>3. QED
      BY <1>6, <3>2 DEF ServerNotify
  <2>3. due' \in SUBSET (Regs \X Nat)
    <3>1. Len(sent) + 1 \in Nat /\ notifyCallbacks[ch] \in SUBSET Regs
      OBVIOUS
    <3>2. {<<r, Len(sent) + 1>> : r \in notifyCallbacks[ch]} \in SUBSET (Regs \X Nat)
      BY <3>1
    <3>3. QED
      BY <1>6, <3>2 DEF ServerNotify
  <2>4. QED
    BY <1>6, <2>1, <2>2, <2>3 DEF ServerNotify
<1>7. QED
  BY <1>1, <1>2, <1>3, <1>4, <1>5, <1>6 DEF PqStep

-------------------------------------------------------------------------------
(* What every action leaves of the other conjuncts of IInv.                 *)

Rest == CallInv /\ HoldInv /\ RegInv /\ BatchInv /\ QueueInv /\ CallbacksAreAwaited

(* A caller that does not wait for callbacks moves on. *)
LEMMA CallerMoves ==
  ASSUME IInv, NEW p \in Callers, pc[p] \notin Waits, NEW label \in Labels \ Waits,
         \/ pc' = [pc EXCEPT ![p] = label]
         \/ ~created /\ pc' = [pc EXCEPT ![p] = label, ![Loop] = "select"],
         UNCHANGED <<notifyChan, sent, batch>>
  PROVE  /\ BatchInv' /\ QueueInv' /\ CallbacksAreAwaited'
         /\ \A q \in Callers : pc'[q] = IF q = p THEN label ELSE pc[q]
         /\ \A r \in Regs : pc'[r] = pc[r]
<1> USE ProcFacts DEF IInv, TypeOK, Waits
<1>1. /\ \A q \in Procs : q # p /\ q # Loop => pc'[q] = pc[q]
      /\ pc'[p] = label
      /\ pc'[Loop] = pc[Loop] \/ (pc[Loop] = "off" /\ pc'[Loop] = "select")
  BY DEF CallInv
<1>2. BatchInv'
  BY <1>1 DEF BatchInv
<1>3. QueueInv'
  BY DEF QueueInv
<1>4. CallbacksAreAwaited'
  <2> SUFFICES ASSUME NEW r \in Regs, pc'[r] \notin {"idle", "ended"}
               PROVE  \E q \in Procs : r \in batch'[q] /\ pc'[q] \in Waits
    BY DEF CallbacksAreAwaited
  <2>1. pc'[r] = pc[r]
    BY <1>1
  <2>2. PICK q \in Procs : r \in batch[q] /\ pc[q] \in Waits
    BY <2>1 DEF CallbacksAreAwaited
  <2>3. pc'[q] = pc[q]
    BY <1>1, <2>2
  <2>4. QED
    BY <2>2, <2>3
<1>5. QED
  BY <1>1, <1>2, <1>3, <1>4

(* The start of a call preserves the rest of the invariant. *)
LEMMA CallRest ==
  ASSUME IInv, NEW p \in Callers, Call(p)
  PROVE  Rest'
<1> USE ProcFacts DEF IInv, TypeOK, PqTypeOK, mapVars, callVars, regVars, notifyVars,
                     pqVars, Goto, Listens, Waits
<1>1. CASE ListenOnChannel(p)
  <2>1. PICK ch \in Manages[p], r \in Regs, kind \in CallbackKinds :
          ListenOnChannel(p)!(ch, r, kind)
    BY <1>1 DEF ListenOnChannel
  <2>2. ch \in Channels /\ kind # {}
    BY UsageAssumption, CallbackAssumption
  <2>3. r \notin listened /\ \A q \in Callers : holds[q] # r
    BY <2>1 DEF RegInv, HoldInv
  <2>4. CallInv'
    BY <2>1 DEF CallInv
  <2>5. HoldInv'
    BY <2>1, <2>2, <2>3 DEF HoldInv
  <2>6. /\ BatchInv' /\ QueueInv' /\ CallbacksAreAwaited'
        /\ \A s \in Regs : pc'[s] = pc[s]
    <3>1. \/ pc' = [pc EXCEPT ![p] = "listen"]
          \/ ~created /\ pc' = [pc EXCEPT ![p] = "listen", ![Loop] = "select"]
      BY <2>1
    <3>2. "listen" \in Labels \ Waits
      BY DEF Labels, CallerLabels
    <3>3. QED
      BY <2>1, <3>1, <3>2, CallerMoves
  <2>7. RegInv'
    <3>1. \A s \in Regs : s # r => chanOf'[s] = chanOf[s] /\ wants'[s] = wants[s]
      BY <2>1
    <3>2. UNCHANGED <<listened, unlistened, notifyCallbacks, unlistenCallbacks>>
      BY <2>1
    <3>3. QED
      BY <2>3, <2>6, <3>1, <3>2 DEF RegInv
  <2>8. QED
    BY <2>4, <2>5, <2>6, <2>7 DEF Rest
<1>2. CASE UnlistenChannel(p)
  <2>1. PICK ch \in Manages[p] : UnlistenChannel(p)!(ch)
    BY <1>2 DEF UnlistenChannel
  <2>2. ch \in Channels
    BY UsageAssumption
  <2>3. CallInv' /\ HoldInv'
    BY <2>1, <2>2 DEF CallInv, HoldInv
  <2>4. /\ BatchInv' /\ QueueInv' /\ CallbacksAreAwaited'
        /\ \A s \in Regs : pc'[s] = pc[s]
    <3>1. "unlisten" \in Labels \ Waits
      BY DEF Labels, CallerLabels
    <3>2. QED
      BY <2>1, <3>1, CallerMoves
  <2>5. RegInv'
    BY <2>1, <2>4 DEF RegInv
  <2>6. QED
    BY <2>3, <2>4, <2>5 DEF Rest
<1>3. QED
  BY <1>1, <1>2 DEF Call

(* A step inside a call preserves the rest of the invariant. *)
LEMMA CallerStepRest ==
  ASSUME IInv, NEW p \in Callers, CallerStep(p)
  PROVE  Rest'
<1> USE ProcFacts DEF IInv, TypeOK, PqTypeOK, mapVars, callVars, regVars, notifyVars,
                     pqVars, Goto, Listens, Waits
<1>1. ASSUME PqListen(p) \/ PqListenWakes(p)
      PROVE  Rest'
  <2>1. PICK label \in {"idle", "register", "waitConn"} :
          /\ pc' = [pc EXCEPT ![p] = label]
          /\ \/ label = "idle" /\ ListenFails(p)
             \/ label # "idle" /\ UNCHANGED <<chanOf, wants, holds>>
    BY <1>1 DEF PqListen, PqListenWakes, ListenFails
  <2>2. /\ UNCHANGED <<created, notifyChan, notifyCallbacks, unlistenCallbacks, batch, arg,
                      sent, listened, unlistened>>
        /\ pc[p] \in Listens
    BY <1>1 DEF PqListen, PqListenWakes
  <2>3. holds[p] \in Regs /\ holds[p] \notin listened
    BY <2>2 DEF CallInv, HoldInv
  <2>4. /\ BatchInv' /\ QueueInv' /\ CallbacksAreAwaited'
        /\ \A q \in Callers : pc'[q] = IF q = p THEN label ELSE pc[q]
        /\ \A s \in Regs : pc'[s] = pc[s]
    <3>1. label \in Labels \ Waits
      BY DEF Labels, CallerLabels
    <3>2. QED
      BY <2>1, <2>2, <3>1, CallerMoves
  <2>5. CallInv'
    BY <2>1, <2>2, <2>4 DEF CallInv, ListenFails
  <2>6. CASE label # "idle"
    <3>1. HoldInv'
      BY <2>1, <2>2, <2>6 DEF HoldInv
    <3>2. RegInv'
      BY <2>1, <2>2, <2>4, <2>6, SMTT(30) DEF RegInv
    <3>3. QED
      BY <2>4, <2>5, <3>1, <3>2 DEF Rest
  <2>7. CASE ListenFails(p)
    <3>1. HoldInv'
      BY <2>2, <2>3, <2>7 DEF HoldInv, ListenFails
    <3>2. RegInv'
      BY <2>2, <2>3, <2>4, <2>7 DEF RegInv, ListenFails
    <3>3. QED
      BY <2>4, <2>5, <3>1, <3>2 DEF Rest
  <2>8. QED
    BY <2>1, <2>6, <2>7
<1>2. CASE Register(p)
  <2> DEFINE r == holds[p]
  <2>1. r \in Regs /\ r \notin listened /\ chanOf[r] \in Channels
    BY <1>2 DEF Register, CallInv, HoldInv
  <2>2. CallInv'
    BY <1>2 DEF Register, CallInv
  <2>3. HoldInv'
    BY <1>2, <2>1 DEF Register, HoldInv
  <2>4. RegInv'
    BY <1>2, <2>1 DEF Register, RegInv, Add
  <2>5. BatchInv' /\ QueueInv'
    BY <1>2 DEF Register, BatchInv, QueueInv
  <2>6. CallbacksAreAwaited'
    BY <1>2 DEF Register, CallbacksAreAwaited
  <2>7. QED
    BY <2>2, <2>3, <2>4, <2>5, <2>6 DEF Rest
<1>3. CASE PqUnlisten(p)
  <2>1. CallInv'
    <3>1. PICK label \in {"idle", "remove"} :
            /\ pc[p] = "unlisten" /\ pc' = [pc EXCEPT ![p] = label]
            /\ label = "remove" => arg' = arg
            /\ UNCHANGED <<created, holds>>
            /\ \A q \in Callers : q # p => arg'[q] = arg[q]
      BY <1>3 DEF PqUnlisten
    <3>2. QED
      BY <3>1 DEF CallInv
  <2>2. HoldInv'
    BY <1>3 DEF PqUnlisten, HoldInv
  <2>3. /\ BatchInv' /\ QueueInv' /\ CallbacksAreAwaited'
        /\ \A s \in Regs : pc'[s] = pc[s]
    <3>1. PICK label \in {"idle", "remove"} : pc' = [pc EXCEPT ![p] = label]
      BY <1>3 DEF PqUnlisten
    <3>2. label \in Labels \ Waits
      BY DEF Labels, CallerLabels
    <3>3. QED
      BY <1>3, <3>1, <3>2, CallerMoves DEF PqUnlisten
  <2>4. RegInv'
    BY <1>3, <2>3 DEF PqUnlisten, RegInv
  <2>5. QED
    BY <2>1, <2>2, <2>3, <2>4 DEF Rest
<1>4. CASE RemoveCallbacks(p)
  <2> DEFINE rs == unlistenCallbacks[arg[p]]
  <2>1. arg[p] \in Channels /\ rs \subseteq Regs
    BY <1>4 DEF RemoveCallbacks, CallInv
  <2>2. \A r \in rs : pc[r] = "idle" /\ unlistened[r] = 0
    BY <2>1 DEF RegInv
  <2>3. CallInv' /\ HoldInv'
    BY <1>4, <2>1 DEF RemoveCallbacks, StartUnlistenCallbacks, CallInv, HoldInv
  <2>4. RegInv'
    BY <1>4, <2>1 DEF RemoveCallbacks, StartUnlistenCallbacks, RegInv
  <2>5. BatchInv' /\ QueueInv'
    BY <1>4, <2>1, <2>2 DEF RemoveCallbacks, StartUnlistenCallbacks, BatchInv, QueueInv
  <2>6. CallbacksAreAwaited'
    BY <1>4, <2>1, <2>2 DEF RemoveCallbacks, StartUnlistenCallbacks, CallbacksAreAwaited
  <2>7. QED
    BY <2>3, <2>4, <2>5, <2>6 DEF Rest
<1>5. CASE UnlistenReturns(p)
  <2>1. CallInv' /\ HoldInv'
    BY <1>5 DEF UnlistenReturns, CallInv, HoldInv
  <2>2. RegInv' /\ BatchInv' /\ QueueInv'
    BY <1>5 DEF UnlistenReturns, RegInv, BatchInv, QueueInv
  <2>3. CallbacksAreAwaited'
    BY <1>5 DEF UnlistenReturns, CallbacksReturned, CallbacksAreAwaited
  <2>4. QED
    BY <2>1, <2>2, <2>3 DEF Rest
<1>6. QED
  BY <1>1, <1>2, <1>3, <1>4, <1>5 DEF CallerStep

(* Entering close preserves the rest of the invariant. *)
LEMMA EnterCloseRest ==
  ASSUME IInv, NEW p \in Procs, EnterClose(p), created,
         pc[p] \in {"idle", "callback", "select"},
         p \in Callers => pc[p] = "idle", p \in Regs => pc[p] = "callback"
  PROVE  Rest'
<1> USE ProcFacts DEF IInv, TypeOK, mapVars, callVars, regVars, notifyVars, pqVars,
                     Goto, Listens, Waits
<1>1. PICK label \in {"closeConn", "awaitOnce", "idle", "ended"} :
        pc' = [pc EXCEPT ![p] = label] /\ (label = "idle" => p \in Callers)
  BY DEF EnterClose, Home
<1>2. UNCHANGED <<notifyChan, created, notifyCallbacks, unlistenCallbacks, arg, holds, batch,
                  chanOf, wants, listened, unlistened, sent>>
  BY DEF EnterClose
<1>3. CallInv'
  BY <1>1, <1>2 DEF CallInv
<1>4. HoldInv'
  BY <1>2 DEF HoldInv
<1>5. RegInv'
  BY <1>1, <1>2 DEF RegInv
<1>6. BatchInv' /\ QueueInv'
  BY <1>1, <1>2 DEF BatchInv, QueueInv
<1>7. CallbacksAreAwaited'
  BY <1>1, <1>2 DEF CallbacksAreAwaited
<1>8. QED
  BY <1>3, <1>4, <1>5, <1>6, <1>7 DEF Rest

(* A step of close preserves the rest of the invariant. *)
LEMMA CloseRest ==
  ASSUME IInv, NEW p \in Procs, Close(p) \/ CloseStep(p)
  PROVE  Rest'
<1> USE ProcFacts DEF IInv, TypeOK, PqTypeOK, mapVars, callVars, regVars, notifyVars,
                     pqVars, Goto, Home, Listens, Waits
<1>1. CASE Close(p)
  BY <1>1, EnterCloseRest, UsageAssumption DEF Close
<1>2. ASSUME AwaitOnce(p) \/ ClosePq(p)
      PROVE  Rest'
  <2>1. PICK label \in {"clear", "idle", "ended"} :
          /\ pc[p] \in {"awaitOnce", "closeConn"} /\ pc' = [pc EXCEPT ![p] = label]
          /\ label = "idle" => p \in Callers
    BY <1>2 DEF AwaitOnce, ClosePq
  <2>2. UNCHANGED <<notifyChan, created, notifyCallbacks, unlistenCallbacks, arg, holds, batch,
                    chanOf, wants, listened, unlistened, sent>>
    BY <1>2 DEF AwaitOnce, ClosePq
  <2>3. CallInv'
    BY <2>1, <2>2 DEF CallInv
  <2>4. HoldInv'
    BY <2>2 DEF HoldInv
  <2>5. RegInv'
    BY <2>1, <2>2 DEF RegInv
  <2>6. BatchInv' /\ QueueInv'
    BY <2>1, <2>2 DEF BatchInv, QueueInv
  <2>7. CallbacksAreAwaited'
    BY <2>1, <2>2 DEF CallbacksAreAwaited
  <2>8. QED
    BY <2>3, <2>4, <2>5, <2>6, <2>7 DEF Rest
<1>3. CASE ClearCallbacks(p)
  <2> DEFINE rs == UNION {unlistenCallbacks[ch] : ch \in Channels}
  <2>1. rs \subseteq Regs /\ \A r \in rs : pc[r] = "idle" /\ unlistened[r] = 0 /\ r # p
    BY <1>3 DEF ClearCallbacks, EmptyMaps, RegInv
  <2>2. /\ StartUnlistenCallbacks(p, rs, "waitClose")
        /\ pc[p] = "clear"
        /\ UNCHANGED <<notifyChan, created, arg, holds, chanOf, wants, listened, sent>>
        /\ notifyCallbacks' = [ch \in Channels |-> {}]
        /\ unlistenCallbacks' = [ch \in Channels |-> {}]
    BY <1>3 DEF ClearCallbacks, EmptyMaps
  <2>3. \A r \in Regs : r \in rs <=> \E ch \in Channels : r \in unlistenCallbacks[ch]
    OBVIOUS
  <2> HIDE DEF rs
  <2>4. CallInv' /\ HoldInv'
    BY <2>1, <2>2 DEF StartUnlistenCallbacks, CallInv, HoldInv
  <2>5. RegInv'
    BY <2>1, <2>2, <2>3 DEF StartUnlistenCallbacks, RegInv
  <2>6. BatchInv' /\ QueueInv'
    BY <2>1, <2>2 DEF StartUnlistenCallbacks, BatchInv, QueueInv
  <2>7. CallbacksAreAwaited'
    BY <2>1, <2>2, ZenonT(60) DEF StartUnlistenCallbacks, CallbacksAreAwaited
  <2>8. QED
    BY <2>4, <2>5, <2>6, <2>7 DEF Rest
<1>4. CASE CloseReturns(p)
  <2>1. CallInv' /\ HoldInv'
    BY <1>4 DEF CloseReturns, OnceAfter, CallInv, HoldInv
  <2>2. RegInv' /\ BatchInv' /\ QueueInv'
    BY <1>4 DEF CloseReturns, OnceAfter, RegInv, BatchInv, QueueInv
  <2>3. CallbacksAreAwaited'
    BY <1>4 DEF CloseReturns, OnceAfter, CallbacksReturned, CallbacksAreAwaited
  <2>4. QED
    BY <2>1, <2>2, <2>3 DEF Rest
<1>5. QED
  BY <1>1, <1>2, <1>3, <1>4 DEF CloseStep

(* The start or return of a callback preserves the rest of the invariant. *)
LEMMA CallbackRest ==
  ASSUME IInv, NEW r \in Regs,
         UnlistenCallbackReturns(r) \/ \E n \in 1..MaxNotify : NotifyCallbackStep(r, n)
  PROVE  Rest'
<1> USE ProcFacts DEF IInv, TypeOK, PqTypeOK, mapVars, callVars, regVars, notifyVars,
                     pqVars, Goto, Listens, Waits
<1>1. CASE UnlistenCallbackReturns(r)
  <2>1. CallInv' /\ HoldInv'
    BY <1>1 DEF UnlistenCallbackReturns, CallInv, HoldInv
  <2>2. RegInv' /\ BatchInv' /\ QueueInv'
    BY <1>1 DEF UnlistenCallbackReturns, RegInv, BatchInv, QueueInv
  <2>3. CallbacksAreAwaited'
    BY <1>1 DEF UnlistenCallbackReturns, CallbacksAreAwaited
  <2>4. QED
    BY <2>1, <2>2, <2>3 DEF Rest
<1>2. ASSUME NEW n \in 1..MaxNotify, NotifyCallbackStep(r, n)
      PROVE  Rest'
  <2>1. UNCHANGED <<created, notifyCallbacks, unlistenCallbacks, pc, arg, holds, batch,
                    chanOf, wants, listened, unlistened, notifyChan, sent>>
    BY <1>2 DEF NotifyCallbackStep, NotifyCallbackStarts, NotifyCallbackReturns
  <2>2. CallInv' /\ HoldInv' /\ RegInv'
    BY <2>1 DEF CallInv, HoldInv, RegInv
  <2>3. BatchInv' /\ QueueInv' /\ CallbacksAreAwaited'
    BY <2>1 DEF BatchInv, QueueInv, CallbacksAreAwaited
  <2>4. QED
    BY <2>2, <2>3 DEF Rest
<1>3. QED
  BY <1>1, <1>2

(* A step of listen() preserves the rest of the invariant. *)
LEMMA LoopRest ==
  ASSUME IInv, LoopStep
  PROVE  Rest'
<1> USE ProcFacts DEF IInv, TypeOK, PqTypeOK, mapVars, callVars, regVars, notifyVars,
                     pqVars, Goto, Listens, Waits
<1>1. CASE LoopStops
  <2>1. CallInv' /\ HoldInv'
    BY <1>1 DEF LoopStops, CallInv, HoldInv
  <2>2. RegInv' /\ BatchInv' /\ QueueInv'
    BY <1>1 DEF LoopStops, RegInv, BatchInv, QueueInv
  <2>3. CallbacksAreAwaited'
    BY <1>1 DEF LoopStops, CallbacksAreAwaited
  <2>4. QED
    BY <2>1, <2>2, <2>3 DEF Rest
<1>2. CASE LoopReceives
  <2>1. CallInv' /\ HoldInv' /\ RegInv' /\ BatchInv' /\ CallbacksAreAwaited'
    BY <1>2 DEF LoopReceives, CallInv, HoldInv, RegInv, BatchInv, CallbacksAreAwaited
  <2>2. QueueInv'
    <3>1. notifyChan' = Tail(notifyChan) /\ notifyChan # <<>> /\ sent' = sent
      BY <1>2 DEF LoopReceives
    <3>2. /\ Len(notifyChan') = Len(notifyChan) - 1
          /\ \A i \in 1..Len(notifyChan') : notifyChan'[i] = notifyChan[i + 1]
      BY <3>1
    <3>3. QED
      BY <3>1, <3>2 DEF QueueInv
  <2>3. QED
    BY <2>1, <2>2 DEF Rest
<1>3. CASE LoopFindsNotifyClosed
  <2>1. created /\ EnterClose(Loop) /\ pc[Loop] = "select"
    BY <1>3 DEF LoopFindsNotifyClosed, CallInv
  <2>2. QED
    BY <2>1, EnterCloseRest
<1>4. QED
  BY <1>1, <1>2, <1>3 DEF LoopStep

(* A step of pq or the server preserves the rest of the invariant. *)
LEMMA PqRest ==
  ASSUME IInv, PqStep \/ ConnectionLost \/ \E ch \in Channels : ServerNotify(ch)
  PROVE  Rest'
<1> USE ProcFacts DEF IInv, TypeOK, PqTypeOK, mapVars, callVars, regVars, notifyVars,
                     pqVars, Listens, Waits
<1>1. UNCHANGED <<created, notifyCallbacks, unlistenCallbacks, pc, arg, holds, batch,
                  chanOf, wants, listened, unlistened>>
  BY DEF PqStep, ConnectionChanges, ConnectionLost, SnapshotChannels, ResubscribeChannel,
         SendNil, ServerNotify
<1>2. CallInv' /\ HoldInv' /\ RegInv' /\ BatchInv' /\ CallbacksAreAwaited'
  BY <1>1 DEF CallInv, HoldInv, RegInv, BatchInv, CallbacksAreAwaited
<1>3. QueueInv'
  <2>1. ASSUME UNCHANGED <<notifyChan, sent>>
        PROVE  QueueInv'
    BY <2>1 DEF QueueInv
  <2>2. CASE SendNil
    <3>1. notifyChan' = Append(notifyChan, 0) /\ sent' = sent
      BY <2>2 DEF SendNil
    <3>2. Len(notifyChan') = Len(notifyChan) + 1
      BY <3>1
    <3>3. ASSUME NEW i \in 1..Len(notifyChan')
          PROVE  notifyChan'[i] \in 0..Len(sent)
      <4>1. notifyChan'[i] = IF i = Len(notifyChan) + 1 THEN 0 ELSE notifyChan[i]
        BY <3>1, <3>2
      <4>2. QED
        BY <3>2, <4>1 DEF QueueInv
    <3>4. QED
      BY <3>1, <3>3 DEF QueueInv
  <2>3. ASSUME NEW ch \in Channels, ServerNotify(ch)
        PROVE  QueueInv'
    <3> DEFINE n == Len(sent) + 1
    <3>1. /\ n \in Nat
          /\ sent' = Append(sent, ch)
          /\ notifyChan' = Append(notifyChan, n) \/ notifyChan' = notifyChan
      BY <2>3 DEF ServerNotify
    <3>2. Len(sent') = n
      BY <3>1
    <3>3. ASSUME NEW i \in 1..Len(notifyChan')
          PROVE  notifyChan'[i] \in 0..n
      <4>1. CASE notifyChan' = notifyChan
        BY <4>1 DEF QueueInv
      <4>2. CASE notifyChan' = Append(notifyChan, n)
        <5>1. notifyChan'[i] = IF i = Len(notifyChan) + 1 THEN n ELSE notifyChan[i]
          BY <4>2, <3>1
        <5>2. i \in 1..Len(notifyChan) \/ i = Len(notifyChan) + 1
          BY <4>2, <3>1
        <5>3. QED
          BY <5>1, <5>2 DEF QueueInv
      <4>3. QED
        BY <3>1, <4>1, <4>2
    <3>4. QED
      BY <3>2, <3>3 DEF QueueInv
  <2>4. QED
    BY <2>1, <2>2, <2>3 DEF PqStep, ConnectionChanges, PqConnect, PqReconnect, PqEnd,
       SnapshotChannels, ResubscribeChannel, ConnectionLost, PqDisconnect
<1>4. QED
  BY <1>2, <1>3 DEF Rest

-------------------------------------------------------------------------------
(* A step that changes nothing preserves the invariant. *)
LEMMA StutterIInv == IInv /\ UNCHANGED vars => IInv'
<1> SUFFICES ASSUME IInv, UNCHANGED vars PROVE IInv'
  OBVIOUS
<1> USE DEF vars, pqVars, mapVars, callVars, regVars, notifyVars
<1>1. TypeOK'
  BY DEF IInv, TypeOK, PqTypeOK
<1>2. CallInv' /\ HoldInv' /\ RegInv'
  BY DEF IInv, CallInv, HoldInv, RegInv
<1>3. BatchInv' /\ QueueInv' /\ CallbacksAreAwaited'
  BY DEF IInv, BatchInv, QueueInv, CallbacksAreAwaited
<1>4. QED
  BY <1>1, <1>2, <1>3 DEF IInv

(* Every step preserves the invariant. *)
LEMMA NextIInv == IInv /\ [Next]_vars => IInv'
<1> SUFFICES ASSUME IInv, [Next]_vars PROVE IInv'
  OBVIOUS
<1>1. ASSUME TypeOK', Rest' PROVE IInv'
  BY <1>1 DEF IInv, Rest
<1>2. TypeOK /\ CallInv /\ HoldInv /\ QueueInv
  BY DEF IInv
<1>3. ASSUME NEW p \in Callers, Call(p) \/ CallerStep(p)
      PROVE  IInv'
  BY <1>1, <1>2, <1>3, CallTypes, CallRest, CallerStepTypes, CallerStepRest
<1>4. ASSUME NEW p \in Procs, Close(p) \/ CloseStep(p)
      PROVE  IInv'
  BY <1>1, <1>2, <1>4, CloseTypes, CloseRest
<1>5. ASSUME NEW r \in Regs,
             UnlistenCallbackReturns(r) \/ \E n \in 1..MaxNotify : NotifyCallbackStep(r, n)
      PROVE  IInv'
  BY <1>1, <1>2, <1>5, CallbackTypes, CallbackRest
<1>6. CASE LoopStep
  BY <1>1, <1>2, <1>6, LoopTypes, LoopRest
<1>7. CASE PqStep \/ ConnectionLost \/ \E ch \in Channels : ServerNotify(ch)
  BY <1>1, <1>2, <1>7, PqTypes, PqRest
<1>8. CASE UNCHANGED vars
  BY <1>8, StutterIInv
<1>9. QED
  BY <1>3, <1>4, <1>5, <1>6, <1>7, <1>8 DEF Next, NotifyCallbackStep

(* The invariant always holds. *)
LEMMA Inductive == Spec => []IInv
BY InitIInv, NextIInv, PTL DEF Spec

(* Type correctness of the listener, for any callers, channels and          *)
(* registrations (pqconn/listener.go).                                      *)
THEOREM TypeCorrect == Spec => []TypeOK
<1>1. IInv => TypeOK
  BY DEF IInv
<1>2. QED
  BY <1>1, Inductive, PTL

(* No onUnlisten of pqconn/listener.go is lost or called twice, whichever   *)
(* of unlistenChannel and close takes it out of the map.                    *)
THEOREM UnlistenedExactlyOnce == Spec => []UnlistenExactlyOnce
<1>1. IInv => UnlistenExactlyOnce
  BY DEF IInv, TypeOK, RegInv, UnlistenExactlyOnce
<1>2. QED
  BY <1>1, Inductive, PTL

(* unlistenChannel and close wait for the callbacks they started.           *)
THEOREM CallbacksAwaited == Spec => []CallbacksAreAwaited
<1>1. IInv => CallbacksAreAwaited
  BY DEF IInv
<1>2. QED
  BY <1>1, Inductive, PTL

(* listen() never hands a notification to an onNotify whose onUnlisten has  *)
(* been started: goroutines that call it later were spawned before          *)
(* (pqconn/listener.go: notify, unlistenChannel, close).                    *)
THEOREM NeverSpawnedAfterUnlisten == Spec => NothingSpawnedAfterUnlisten
<1>1. ASSUME IInv, [Next]_vars, UNCHANGED spawned
      PROVE  [\A call \in spawned' \ spawned : unlistened[call[1]] = 0]_vars
  BY <1>1
<1>2. ASSUME IInv, LoopReceives
      PROVE  \A call \in spawned' \ spawned : unlistened[call[1]] = 0
  <2> DEFINE n == Head(notifyChan)
             targets == Targets(n)
  <2>1. n \in 0..Len(sent)
    <3>1. Len(notifyChan) > 0 /\ n = notifyChan[1]
      BY <1>2 DEF LoopReceives, IInv, TypeOK, PqTypeOK
    <3>2. 1 \in 1..Len(notifyChan)
      BY <3>1, <1>2 DEF IInv, TypeOK, PqTypeOK
    <3>3. QED
      BY <3>1, <3>2, <1>2 DEF IInv, QueueInv
  <2>2. n # 0 => sent[n] \in Channels
    BY <2>1, <1>2 DEF IInv, TypeOK
  <2>3. \A r \in targets : unlistened[r] = 0
    BY <2>2, <1>2 DEF IInv, TypeOK, RegInv, Targets
  <2>4. spawned' = spawned \cup {<<r, n>> : r \in targets}
    BY <1>2 DEF LoopReceives
  <2> HIDE DEF targets, n
  <2>5. QED
    BY <2>3, <2>4
<1>3. ASSUME IInv, [Next]_vars
      PROVE  [\A call \in spawned' \ spawned : unlistened[call[1]] = 0]_vars
  <2>1. CASE LoopReceives
    BY <1>2, <1>3, <2>1
  <2>2. ASSUME NEW r \in Regs, NEW n \in 1..MaxNotify, NotifyCallbackStep(r, n)
        PROVE  \A call \in spawned' \ spawned : unlistened[call[1]] = 0
    BY <2>2 DEF NotifyCallbackStep, NotifyCallbackStarts, NotifyCallbackReturns
  <2>3. UNCHANGED spawned \/ LoopReceives
        \/ \E r \in Regs, n \in 1..MaxNotify : NotifyCallbackStep(r, n)
    BY <1>3 DEF Next, Call, CallerStep, CloseStep, LoopStep, PqStep, ListenOnChannel,
       UnlistenChannel, PqListen, PqListenWakes, Register, PqUnlisten, RemoveCallbacks,
       UnlistenReturns, Close, EnterClose, AwaitOnce, ClosePq, ClearCallbacks, EmptyMaps, CloseReturns, OnceAfter,
       UnlistenCallbackReturns, LoopStops, LoopFindsNotifyClosed, ConnectionChanges,
       SnapshotChannels, SendNil, ResubscribeChannel, ConnectionLost, ServerNotify,
       vars, notifyVars, NotifyCallbackStep
  <2>4. QED
    BY <1>1, <1>3, <2>1, <2>2, <2>3
<1>4. QED
  BY <1>3, Inductive, PTL DEF Spec, NothingSpawnedAfterUnlisten

-------------------------------------------------------------------------------
(* The listener implements Subscriptions.                                   *)

(* A registration is in the maps of its own channel only.                   *)
LEMMA InMapsChannel ==
  ASSUME IInv, NEW r \in Regs
  PROVE  /\ InMaps(r) => r \in listened
         /\ InMaps(r) <=> r \in listened /\ r \in notifyCallbacks[chanOf[r]]
                                             \cup unlistenCallbacks[chanOf[r]]
BY DEF IInv, RegInv, InMaps, TypeOK

(* What the refinement maps status and channel to.                          *)
Status ==
  [r \in Regs |-> IF r \notin listened THEN "none"
                  ELSE IF InMaps(r) THEN "listening" ELSE "unlistened"]
Channel == [r \in Regs |-> IF r \in listened THEN chanOf[r] ELSE NoChannel]

(* A step that leaves maps and registrations alone is a stutter of the promise. *)
LEMMA MapsStutter ==
  ASSUME IInv, UNCHANGED <<listened, notifyCallbacks, unlistenCallbacks>>,
         \A r \in listened : chanOf'[r] = chanOf[r]
  PROVE  UNCHANGED <<Status, Channel>>
BY DEF Status, Channel, InMaps

(* Register is ListenOnChannel of the promise. *)
LEMMA RegisterRefines ==
  ASSUME IInv, NEW p \in Callers, Register(p)
  PROVE  \E r \in Regs, ch \in Channels : Promise!ListenOnChannel(r, ch)
<1>1. PICK r \in Regs, ch \in Channels :
        r = holds[p] /\ ch = chanOf[r] /\ r \notin listened /\ wants[r] # {}
  BY DEF IInv, TypeOK, CallInv, HoldInv, Register, Listens
<1>2. /\ listened' = listened \cup {r} /\ chanOf' = chanOf
      /\ notifyCallbacks' = [c \in Channels |->
           IF c = ch /\ "notify" \in wants[r] THEN notifyCallbacks[c] \cup {r}
                                             ELSE notifyCallbacks[c]]
      /\ unlistenCallbacks' = [c \in Channels |->
           IF c = ch /\ "unlisten" \in wants[r] THEN unlistenCallbacks[c] \cup {r}
                                               ELSE unlistenCallbacks[c]]
  BY <1>1 DEF Register, Add
<1>3. "notify" \in wants[r] \/ "unlisten" \in wants[r]
  BY <1>1 DEF IInv, TypeOK
<1>4. InMaps(r)'
  BY <1>1, <1>2, <1>3 DEF InMaps
<1>5. \A s \in Regs : s # r => (InMaps(s)' <=> InMaps(s))
  BY <1>2 DEF InMaps
<1>6. Status[r] = "none"
  BY <1>1 DEF Status
<1>7. Status' = [Status EXCEPT ![r] = "listening"]
  BY <1>1, <1>2, <1>4, <1>5 DEF Status
<1>8. Channel' = [Channel EXCEPT ![r] = ch]
  BY <1>1, <1>2 DEF Channel
<1>9. QED
  BY <1>6, <1>7, <1>8 DEF Promise!ListenOnChannel, Status, Channel

(* RemoveCallbacks is UnlistenChannel of the promise. *)
LEMMA RemoveRefines ==
  ASSUME IInv, NEW p \in Callers, RemoveCallbacks(p)
  PROVE  \E ch \in Channels : Promise!UnlistenChannel(ch)
<1> DEFINE ch == arg[p]
           rs == {r \in Promise!Listening : Channel[r] = ch}
<1>1. /\ ch \in Channels
      /\ UNCHANGED <<listened, chanOf>>
      /\ notifyCallbacks' = [notifyCallbacks EXCEPT ![ch] = {}]
      /\ unlistenCallbacks' = [unlistenCallbacks EXCEPT ![ch] = {}]
  BY DEF IInv, CallInv, RemoveCallbacks
<1>2. \A r \in Regs : r \in rs <=> InMaps(r) /\ chanOf[r] = ch
  BY InMapsChannel DEF Promise!Listening, Channel
<1>3. \A r \in Regs : InMaps(r)' <=> InMaps(r) /\ chanOf[r] # ch
  BY <1>1, InMapsChannel DEF InMaps, IInv, TypeOK, RegInv
<1>4. \A r \in Regs : InMaps(r) => r \in listened
  BY InMapsChannel
<1>5. Status' = [r \in Regs |-> IF r \in rs THEN "unlistened" ELSE Status[r]]
  <2> HIDE DEF rs
  <2> QED
    BY <1>1, <1>2, <1>3, <1>4 DEF Status
<1>6. Channel' = Channel
  BY <1>1 DEF Channel
<1>7. QED
  BY <1>1, <1>5, <1>6 DEF Promise!UnlistenChannel, Promise!End, Status, Channel

(* ClearCallbacks is Close of the promise. *)
LEMMA ClearRefines ==
  ASSUME IInv, NEW p \in Procs, ClearCallbacks(p)
  PROVE  Promise!Close
<1>1. /\ UNCHANGED <<listened, chanOf>>
      /\ notifyCallbacks' = [ch \in Channels |-> {}]
      /\ unlistenCallbacks' = [ch \in Channels |-> {}]
  BY DEF ClearCallbacks, EmptyMaps
<1>2. \A r \in Regs : ~InMaps(r)'
  BY <1>1 DEF InMaps
<1>3. \A r \in Regs : r \in Promise!Listening <=> r \in listened /\ InMaps(r)
  BY DEF Promise!Listening
<1>4. Status' = [r \in Regs |-> IF r \in Promise!Listening THEN "unlistened" ELSE Status[r]]
  BY <1>1, <1>2, <1>3 DEF Status
<1>5. Channel' = Channel
  BY <1>1 DEF Channel
<1>6. QED
  BY <1>4, <1>5 DEF Promise!Close, Promise!End, Status, Channel

(* Every other step leaves the registrations of the interface alone.        *)
LEMMA OthersStutter ==
  ASSUME IInv, [Next]_vars,
         ~\E p \in Callers : Register(p) \/ RemoveCallbacks(p),
         ~\E p \in Procs : ClearCallbacks(p)
  PROVE  UNCHANGED <<Status, Channel>>
<1>1. ASSUME NEW p \in Callers, ListenOnChannel(p)
      PROVE  UNCHANGED <<Status, Channel>>
  <2>1. PICK r \in Regs : chanOf[r] = NoChannel /\ \E ch \in Channels :
                             chanOf' = [chanOf EXCEPT ![r] = ch]
    BY <1>1, ProcFacts DEF ListenOnChannel
  <2>2. r \notin listened
    BY <2>1, ProcFacts DEF IInv, RegInv
  <2>3. \A s \in listened : chanOf'[s] = chanOf[s]
    BY <2>1, <2>2 DEF IInv, TypeOK
  <2>4. UNCHANGED <<listened, notifyCallbacks, unlistenCallbacks>>
    BY <1>1 DEF ListenOnChannel, mapVars
  <2>5. QED
    BY <2>3, <2>4, MapsStutter
<1>2. ASSUME NEW p \in Callers, PqListen(p) \/ PqListenWakes(p)
      PROVE  UNCHANGED <<Status, Channel>>
  <2>1. holds[p] \in Regs /\ holds[p] \notin listened
    BY <1>2 DEF IInv, TypeOK, CallInv, HoldInv, PqListen, PqListenWakes, Listens
  <2>2. \A s \in listened : chanOf'[s] = chanOf[s]
    BY <1>2, <2>1 DEF IInv, TypeOK, PqListen, PqListenWakes, ListenFails
  <2>3. UNCHANGED <<listened, notifyCallbacks, unlistenCallbacks>>
    BY <1>2 DEF PqListen, PqListenWakes, mapVars
  <2>4. QED
    BY <2>2, <2>3, MapsStutter
<1>3. ASSUME UNCHANGED <<listened, notifyCallbacks, unlistenCallbacks, chanOf>>
      PROVE  UNCHANGED <<Status, Channel>>
  BY <1>3, MapsStutter
<1>4. \/ \E p \in Callers : ListenOnChannel(p) \/ PqListen(p) \/ PqListenWakes(p)
      \/ UNCHANGED <<listened, notifyCallbacks, unlistenCallbacks, chanOf>>
  BY DEF Next, Call, CallerStep, CloseStep, LoopStep, PqStep,
     UnlistenChannel, PqUnlisten, UnlistenReturns, Close, EnterClose, AwaitOnce, ClosePq,
     CloseReturns, OnceAfter, UnlistenCallbackReturns, NotifyCallbackStarts, NotifyCallbackReturns, LoopStops, LoopReceives,
     LoopFindsNotifyClosed, ConnectionChanges, SnapshotChannels, SendNil,
     ResubscribeChannel, ConnectionLost, ServerNotify, vars, mapVars, regVars
<1>5. QED
  BY <1>1, <1>2, <1>3, <1>4

(* pqconn/listener.go implements the registrations that                     *)
(* sqldb.ListenerConnection promises: every step of every goroutine is a    *)
(* ListenOnChannel, UnlistenChannel or Close of Subscriptions or changes    *)
(* none of them.                                                            *)
THEOREM Refinement == Spec => ImplementsSubscriptions
<1>1. Init => Promise!Init
  BY DEF Init, Promise!Init
<1>2. ASSUME IInv, [Next]_vars
      PROVE  [Promise!Next]_(Promise!svars)
  <2>1. ASSUME NEW p \in Callers, Register(p)
        PROVE  Promise!Next
    BY <1>2, <2>1, RegisterRefines DEF Promise!Next
  <2>2. ASSUME NEW p \in Callers, RemoveCallbacks(p)
        PROVE  Promise!Next
    BY <1>2, <2>2, RemoveRefines DEF Promise!Next
  <2>3. ASSUME NEW p \in Procs, ClearCallbacks(p)
        PROVE  Promise!Next
    BY <1>2, <2>3, ClearRefines DEF Promise!Next
  <2>4. ASSUME ~\E p \in Callers : Register(p) \/ RemoveCallbacks(p),
               ~\E p \in Procs : ClearCallbacks(p)
        PROVE  UNCHANGED Promise!svars
    BY <1>2, <2>4, OthersStutter DEF Promise!svars, Status, Channel
  <2>5. QED
    BY <2>1, <2>2, <2>3, <2>4
<1>3. QED
  BY <1>1, <1>2, Inductive, PTL DEF Spec, ImplementsSubscriptions, Promise!Spec

-------------------------------------------------------------------------------
(* Subscriptions at the server.                                             *)

(* No two goroutines manage one channel.                                    *)
OneManager == \A p, q \in Callers : p # q => Manages[p] \cap Manages[q] = {}

(* What a caller is about to register or remove is its own channel, and     *)
(* what it is about to register is subscribed.                              *)
OwnInv ==
  \A p \in Callers :
    /\ holds[p] # NoReg => chanOf[holds[p]] \in Manages[p]
    /\ pc[p] \in {"unlisten", "remove"} => arg[p] \in Manages[p]
    /\ pc[p] \in {"waitConn", "register"} => chanOf[holds[p]] \in pqChannels

Subscribed(ch) ==
  Registered(ch) => \/ ch \in pqChannels
                    \/ \E p \in Callers : pc[p] = "remove" /\ arg[p] = ch

SubInv == OwnInv /\ \A ch \in Channels : Subscribed(ch)

(* Subscribed is kept when no callbacks are added and no channel is dropped *)
(* by the step of a caller that is not about to remove callbacks.           *)
LEMMA KeepsSubscribed ==
  ASSUME NEW p \in Callers, pc[p] # "remove",
         \A q \in Callers : q # p => pc'[q] = pc[q] /\ arg'[q] = arg[q],
         UNCHANGED <<notifyCallbacks, unlistenCallbacks>>, pqChannels \subseteq pqChannels',
         NEW ch \in Channels, Subscribed(ch)
  PROVE  Subscribed(ch)'
BY DEF Subscribed, Registered

(* The start of a call preserves the subscription invariant. *)
LEMMA CallSubscribes ==
  ASSUME IInv, SubInv, NEW p \in Callers, Call(p)
  PROVE  SubInv'
<1> USE ProcFacts DEF IInv, TypeOK, SubInv, mapVars, callVars, regVars, Goto, Listens
<1>1. CASE ListenOnChannel(p)
  <2>1. PICK ch \in Manages[p], r \in Regs, kind \in CallbackKinds :
          ListenOnChannel(p)!(ch, r, kind)
    BY <1>1 DEF ListenOnChannel
  <2>2. \A q \in Callers : q # p => holds[q] # r
    BY <2>1 DEF HoldInv
  <2>3. OwnInv'
    BY <2>1, <2>2 DEF OwnInv, CallInv
  <2>4. \A ch1 \in Channels : Subscribed(ch1)'
    <3>1. /\ pc[p] # "remove" /\ UNCHANGED <<notifyCallbacks, unlistenCallbacks, pqChannels>>
          /\ \A q \in Callers : q # p => pc'[q] = pc[q] /\ arg'[q] = arg[q]
      BY <2>1
    <3>2. QED
      BY <3>1, KeepsSubscribed
  <2>5. QED
    BY <2>3, <2>4
<1>2. CASE UnlistenChannel(p)
  <2>1. OwnInv'
    BY <1>2 DEF UnlistenChannel, OwnInv, pqVars
  <2>2. \A ch \in Channels : Subscribed(ch)'
    <3>1. /\ pc[p] # "remove" /\ UNCHANGED <<notifyCallbacks, unlistenCallbacks, pqChannels>>
          /\ \A q \in Callers : q # p => pc'[q] = pc[q] /\ arg'[q] = arg[q]
      BY <1>2 DEF UnlistenChannel, pqVars
    <3>2. QED
      BY <3>1, KeepsSubscribed
  <2>3. QED
    BY <2>1, <2>2
<1>3. QED
  BY <1>1, <1>2 DEF Call

(* A step inside a call preserves the subscription invariant. *)
LEMMA CallerStepSubscribes ==
  ASSUME OneManager, IInv, SubInv, NEW p \in Callers, CallerStep(p)
  PROVE  SubInv'
<1> USE ProcFacts DEF IInv, TypeOK, SubInv, mapVars, callVars, regVars, pqVars, Goto, Listens
<1>1. CASE PqListen(p)
  <2>1. OwnInv'
    BY <1>1 DEF PqListen, ListenFails, OwnInv, CallInv, HoldInv
  <2>2. \A ch \in Channels : Subscribed(ch)'
    BY <1>1 DEF PqListen, ListenFails, Subscribed, Registered
  <2>3. QED
    BY <2>1, <2>2
<1>2. CASE PqListenWakes(p)
  <2>1. OwnInv'
    <3>1. CASE ListenFails(p)
      BY <1>2, <3>1 DEF PqListenWakes, ListenFails, OwnInv, CallInv, HoldInv
    <3>2. CASE pc' = [pc EXCEPT ![p] = "register"] /\ UNCHANGED <<chanOf, holds>>
      BY <1>2, <3>2 DEF PqListenWakes, OwnInv
    <3>3. QED
      BY <1>2, <3>1, <3>2 DEF PqListenWakes
  <2>2. \A ch \in Channels : Subscribed(ch)'
    <3>1. /\ pc[p] # "remove" /\ UNCHANGED <<notifyCallbacks, unlistenCallbacks, pqChannels>>
          /\ \A q \in Callers : q # p => pc'[q] = pc[q] /\ arg'[q] = arg[q]
      BY <1>2 DEF PqListenWakes, ListenFails
    <3>2. QED
      BY <3>1, KeepsSubscribed
  <2>3. QED
    BY <2>1, <2>2
<1>3. CASE Register(p)
  <2>1. OwnInv'
    BY <1>3 DEF Register, OwnInv
  <2>2. \A ch \in Channels : Subscribed(ch)'
    <3> DEFINE c == chanOf[holds[p]]
    <3>1. /\ pc[p] = "register" /\ pqChannels' = pqChannels /\ c \in pqChannels
          /\ \A q \in Callers : q # p => pc'[q] = pc[q] /\ arg'[q] = arg[q]
      BY <1>3 DEF Register, OwnInv
    <3>2. \A ch \in Channels : ch # c =>
            notifyCallbacks'[ch] = notifyCallbacks[ch] /\ unlistenCallbacks'[ch] = unlistenCallbacks[ch]
      BY <1>3 DEF Register, Add
    <3>3. ASSUME NEW ch \in Channels, Registered(ch)', ch \notin pqChannels'
          PROVE  \E q \in Callers : pc'[q] = "remove" /\ arg'[q] = ch
      <4>1. Registered(ch) /\ ch \notin pqChannels
        BY <3>1, <3>2, <3>3 DEF Registered
      <4>2. PICK q \in Callers : pc[q] = "remove" /\ arg[q] = ch
        BY <4>1 DEF Subscribed
      <4>3. QED
        BY <3>1, <4>2
    <3>4. QED
      BY <3>3 DEF Subscribed
  <2>3. QED
    BY <2>1, <2>2
<1>4. CASE PqUnlisten(p)
  <2>1. /\ pc[p] = "unlisten" /\ arg[p] \in Manages[p]
        /\ \/ pc' = [pc EXCEPT ![p] = "idle"] /\ UNCHANGED pqChannels
              /\ arg' = [arg EXCEPT ![p] = NoChannel]
           \/ pc' = [pc EXCEPT ![p] = "remove"] /\ pqChannels' = pqChannels \ {arg[p]}
              /\ UNCHANGED arg
        /\ UNCHANGED <<holds, chanOf, notifyCallbacks, unlistenCallbacks>>
    BY <1>4 DEF PqUnlisten, OwnInv
  <2>2. \A q \in Callers : q # p => arg[p] \notin Manages[q]
    BY <2>1 DEF OneManager
  <2>3. OwnInv'
    BY <2>1, <2>2 DEF OwnInv, CallInv
  <2>4. \A ch \in Channels : Subscribed(ch)'
    <3>1. CASE UNCHANGED pqChannels
      <4>1. pc[p] # "remove" /\ \A q \in Callers : q # p => pc'[q] = pc[q] /\ arg'[q] = arg[q]
        BY <2>1
      <4>2. QED
        BY <2>1, <3>1, <4>1, KeepsSubscribed
    <3>2. CASE pc' = [pc EXCEPT ![p] = "remove"] /\ pqChannels' = pqChannels \ {arg[p]}
               /\ UNCHANGED arg
      <4>1. pc'[p] = "remove" /\ \A q \in Callers : q # p => pc'[q] = pc[q]
        BY <3>2
      <4>2. QED
        BY <2>1, <3>2, <4>1 DEF Subscribed, Registered
    <3>3. QED
      BY <2>1, <3>1, <3>2
  <2>5. QED
    BY <2>3, <2>4
<1>5. CASE RemoveCallbacks(p)
  <2>1. /\ pc[p] = "remove" /\ arg[p] \in Channels
        /\ \A q \in Callers : q # p => pc'[q] = pc[q] /\ arg'[q] = arg[q]
        /\ pc'[p] = "waitBatch"
        /\ UNCHANGED <<holds, chanOf, pqChannels>>
        /\ notifyCallbacks' = [notifyCallbacks EXCEPT ![arg[p]] = {}]
        /\ unlistenCallbacks' = [unlistenCallbacks EXCEPT ![arg[p]] = {}]
    BY <1>5 DEF RemoveCallbacks, StartUnlistenCallbacks, CallInv
  <2>2. OwnInv'
    BY <2>1 DEF OwnInv
  <2>3. \A ch \in Channels : Subscribed(ch)'
    <3>1. \A ch \in Channels : /\ ch = arg[p] => ~Registered(ch)'
                              /\ ch # arg[p] => (Registered(ch)' <=> Registered(ch))
      BY <2>1 DEF Registered
    <3>2. ASSUME NEW ch \in Channels, Registered(ch)', ch \notin pqChannels'
          PROVE  \E q \in Callers : pc'[q] = "remove" /\ arg'[q] = ch
      <4>1. ch # arg[p] /\ Registered(ch) /\ ch \notin pqChannels
        BY <2>1, <3>1, <3>2 DEF Registered
      <4>2. PICK q \in Callers : pc[q] = "remove" /\ arg[q] = ch
        BY <4>1 DEF Subscribed
      <4>3. QED
        BY <2>1, <4>1, <4>2
    <3>3. QED
      BY <3>2 DEF Subscribed
  <2>4. QED
    BY <2>2, <2>3
<1>6. CASE UnlistenReturns(p)
  <2>1. OwnInv'
    BY <1>6 DEF UnlistenReturns, OwnInv
  <2>2. \A ch \in Channels : Subscribed(ch)'
    BY <1>6 DEF UnlistenReturns, Subscribed, Registered
  <2>3. QED
    BY <2>1, <2>2
<1>7. QED
  BY <1>1, <1>2, <1>3, <1>4, <1>5, <1>6 DEF CallerStep

(* The steps that are not a caller's.                                       *)
LEMMA OtherStepSubscribes ==
  ASSUME IInv, SubInv, [Next]_vars, ~\E p \in Callers : Call(p) \/ CallerStep(p)
  PROVE  SubInv'
<1> USE ProcFacts DEF IInv, TypeOK
<1> DEFINE inCall == {"unlisten", "remove", "waitConn", "register"}
<1>1. ASSUME NEW p \in Procs,
             \/ Close(p) \/ CloseStep(p)
             \/ p = Loop /\ (LoopStops \/ LoopFindsNotifyClosed)
             \/ p \in Regs /\ UnlistenCallbackReturns(p)
      PROVE  SubInv'
  <2>1. /\ UNCHANGED <<holds, chanOf, arg, pqChannels>>
        /\ \/ UNCHANGED <<notifyCallbacks, unlistenCallbacks>>
           \/ /\ notifyCallbacks' = [ch \in Channels |-> {}]
              /\ unlistenCallbacks' = [ch \in Channels |-> {}]
    BY <1>1 DEF Close, CloseStep, LoopStops, LoopFindsNotifyClosed, EnterClose, AwaitOnce,
       ClosePq, ClearCallbacks, EmptyMaps, CloseReturns, OnceAfter, UnlistenCallbackReturns, mapVars, regVars, pqVars
  <2>2. \A q \in Callers : \/ pc'[q] = pc[q]
                           \/ pc[q] \notin inCall /\ pc'[q] \notin inCall
    <3>1. CASE ClearCallbacks(p)
      BY <3>1 DEF ClearCallbacks, EmptyMaps, StartUnlistenCallbacks, RegInv
    <3>2. ASSUME ~ClearCallbacks(p)
          PROVE  \E label \in Labels \ inCall : pc[p] \notin inCall /\ pc' = [pc EXCEPT ![p] = label]
      BY <1>1, <3>2, UsageAssumption DEF Close, CloseStep, LoopStops, LoopFindsNotifyClosed, EnterClose,
         AwaitOnce, ClosePq, CloseReturns, OnceAfter, UnlistenCallbackReturns, Goto, Home, Labels,
         CallerLabels, CloseLabels
    <3>3. QED
      BY <3>1, <3>2
  <2>3. OwnInv'
    BY <2>1, <2>2 DEF SubInv, OwnInv
  <2>4. ASSUME NEW ch \in Channels
        PROVE  Subscribed(ch)'
    <3>1. CASE UNCHANGED <<notifyCallbacks, unlistenCallbacks>>
      BY <2>1, <2>2, <3>1 DEF SubInv, Subscribed, Registered
    <3>2. CASE /\ notifyCallbacks' = [c \in Channels |-> {}]
               /\ unlistenCallbacks' = [c \in Channels |-> {}]
      BY <3>2 DEF Subscribed, Registered
    <3>3. QED
      BY <2>1, <3>1, <3>2
  <2>5. QED
    BY <2>3, <2>4 DEF SubInv
<1>2. CASE UNCHANGED <<pc, holds, chanOf, arg, notifyCallbacks, unlistenCallbacks>>
           /\ pqChannels \subseteq pqChannels'
  BY <1>2 DEF SubInv, OwnInv, Subscribed, Registered
<1>3. QED
  BY <1>1, <1>2 DEF Next, LoopStep, PqStep, LoopReceives, NotifyCallbackStarts, NotifyCallbackReturns,
     ConnectionChanges, PqConnect, PqReconnect, PqEnd, SnapshotChannels, SendNil,
     ResubscribeChannel, ConnectionLost, PqDisconnect, ServerNotify, vars, callVars, regVars,
     mapVars, pqVars

(* A channel with callbacks is subscribed at the server until the listener  *)
(* is stopped or UnlistenChannel is about to remove them, when no two       *)
(* goroutines manage one channel (pqconn/listener.go: listenOnChannel,      *)
(* unlistenChannel, resubscribeChannels).                                   *)
THEOREM RegisteredIsSubscribed ==
  ASSUME OneManager
  PROVE  Spec => []ListeningIsSubscribed
<1>1. Init => SubInv
  BY ProcFacts DEF Init, SubInv, OwnInv, Subscribed, Registered
<1>2. IInv /\ SubInv /\ [Next]_vars => SubInv'
  BY CallSubscribes, CallerStepSubscribes, OtherStepSubscribes
<1>3. SubInv => ListeningIsSubscribed
  BY DEF SubInv, Subscribed, ListeningIsSubscribed, IsListeningOnChannel
<1>4. QED
  BY <1>1, <1>2, <1>3, Inductive, PTL DEF Spec

===============================================================================
