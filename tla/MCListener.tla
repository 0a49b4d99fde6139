------------------------------ MODULE MCListener ------------------------------
(* Instances of Listener for TLC: two goroutines p1 and p2, channels a and b. *)
EXTENDS Listener, TLC

CONSTANTS p1, p2, a, b, r1, r2

(* Each goroutine manages a channel of its own. *)
OwnChannels == [p \in Callers |-> Channels \cap IF p = p1 THEN {a} ELSE {b}]

(* Both goroutines manage both channels. *)
SharedChannels == [p \in Callers |-> Channels]

(* Callbacks may be nil, but not both. *)
AnyKind == {{"notify"}, {"unlisten"}, {"notify", "unlisten"}}
BothCallbacks == {{"notify", "unlisten"}}

===============================================================================
