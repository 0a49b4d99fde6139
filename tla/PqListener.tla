------------------------------ MODULE PqListener ------------------------------
(***************************************************************************)
(* The part of github.com/lib/pq's Listener that package pqconn relies on. *)
(* It is external to this repository and modelled from how                 *)
(* pqconn/listener.go uses it: Listen and Unlisten work under the pq lock  *)
(* on the set of channels pq tracks; one goroutine keeps a connection up,  *)
(* LISTENs to the tracked channels again on every new connection, emits    *)
(* Connected and Reconnected events, sends nil on Notify after a reconnect *)
(* and closes Notify when it ends.                                         *)
(***************************************************************************)
EXTENDS Naturals, Sequences

CONSTANTS
  Channels,   \* channel names
  QueueCap    \* bound: notifications that fit into the Notify channel

ASSUME QueueCapAssumption == QueueCap \in Nat \ {0}

VARIABLES
  pqLoop,      \* where the pq main loop is
  pqClosed,    \* Listener.isClosed
  pqChannels,  \* Listener.channels, what the server session LISTENs to
  notifyChan   \* the Notify channel: numbers of notifications, 0 is nil

pqVars == <<pqLoop, pqClosed, pqChannels, notifyChan>>

PqTypeOK ==
  /\ pqLoop \in {"off", "dial", "redial", "event", "resubscribe", "up", "ended"}
  /\ pqClosed \in BOOLEAN
  /\ pqChannels \in SUBSET Channels
  /\ notifyChan \in Seq(Nat)

PqInit ==
  /\ pqLoop = "off"
  /\ pqClosed = FALSE
  /\ pqChannels = {}
  /\ notifyChan = <<>>

(* The server session exists: Listener.cn is not nil. *)
Connected == pqLoop \in {"event", "resubscribe", "up"}

(* Notify is closed and drained: a receive reports isOpen = false. *)
NotifyClosed == pqLoop = "ended" /\ notifyChan = <<>>

(* Notify has room. *)
QueueHasRoom == Len(notifyChan) < QueueCap

-------------------------------------------------------------------------------
(* The first connection is up: event Connected, which pqconn only logs. *)
PqConnect ==
  /\ pqLoop = "dial" /\ ~pqClosed
  /\ pqLoop' = "up"
  /\ UNCHANGED <<pqClosed, pqChannels, notifyChan>>

(* The server session is gone; pq drops it and waits to dial again. *)
PqDisconnect ==
  /\ pqLoop = "up" /\ ~pqClosed
  /\ pqLoop' = "redial"
  /\ UNCHANGED <<pqClosed, pqChannels, notifyChan>>

(* A new session LISTENs to pqChannels again; event Reconnected is next. *)
PqReconnect ==
  /\ pqLoop = "redial" /\ ~pqClosed
  /\ pqLoop' = "event"
  /\ UNCHANGED <<pqClosed, pqChannels, notifyChan>>

(* After Close the main loop ends and closes Notify. *)
PqEnd ==
  /\ pqClosed /\ pqLoop \in {"dial", "redial", "up"}
  /\ pqLoop' = "ended"
  /\ UNCHANGED <<pqClosed, pqChannels, notifyChan>>

===============================================================================
