---------------------------- MODULE Subscriptions -----------------------------
(***************************************************************************)
(* What sqldb.ListenerConnection promises about registrations, without     *)
(* goroutines, locks or a connection: a registration made with             *)
(* ListenOnChannel listens until its channel is unlistened or the          *)
(* connection is closed; UnlistenChannel ends all registrations of one     *)
(* channel and no other, Close ends all of them; an ended registration     *)
(* never listens again.                                                    *)
(***************************************************************************)
CONSTANTS Regs, Channels, NoChannel

VARIABLES
  status,   \* the life of a registration
  channel   \* its channel

svars == <<status, channel>>

Listening == {r \in Regs : status[r] = "listening"}

Init ==
  /\ status = [r \in Regs |-> "none"]
  /\ channel = [r \in Regs |-> NoChannel]

ListenOnChannel(r, ch) ==
  /\ status[r] = "none"
  /\ status' = [status EXCEPT ![r] = "listening"]
  /\ channel' = [channel EXCEPT ![r] = ch]

End(rs) ==
  /\ status' = [r \in Regs |-> IF r \in rs THEN "unlistened" ELSE status[r]]
  /\ UNCHANGED channel

UnlistenChannel(ch) == End({r \in Listening : channel[r] = ch})

Close == End(Listening)

Next ==
  \/ \E r \in Regs, ch \in Channels : ListenOnChannel(r, ch)
  \/ \E ch \in Channels : UnlistenChannel(ch)
  \/ Close

Spec == Init /\ [][Next]_svars

===============================================================================
