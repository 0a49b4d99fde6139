-------------------------- MODULE TransactionsProofs --------------------------
(***************************************************************************)
(* Proofs about module Transactions, for any nesting, number of            *)
(* transactions, savepoints and tries, and for both kinds of drivers: who  *)
(* owns what is open, and where the savepoints are.                        *)
(***************************************************************************)
EXTENDS Transactions, SequenceTheorems, TLAPS

(* A record with the fields of a session. *)
WellFormed(s) ==
  s = [open |-> s.open, aborted |-> s.aborted, readOnly |-> s.readOnly,
       writes |-> s.writes, saves |-> s.saves]

(* The call that ends the transaction of frame d. *)
Owner(d) == frame[d].kind \in {"own", "serialized"}

FrameInv ==
  /\ depth \in 1..MaxDepth
  /\ frame \in [1..MaxDepth -> Frames]
  /\ txCount \in 0..MaxTx /\ spCount \in Nat /\ writeCount \in Nat

SessionInv ==
  /\ session = [tx \in 0..MaxTx |-> session[tx]]
  /\ \A tx \in 0..MaxTx : WellFormed(session[tx])

(* Frames own transactions that were begun, each a different one; the       *)
(* transaction of an owner whose context is done is bound to be rolled back.*)
OwnerInv ==
  /\ \A d \in 1..depth : frame[d].tx <= txCount
  /\ \A d \in 1..depth : Owner(d) =>
       frame[d].tx # 0 /\ (frame[d].expired => frame[d].tx \in expiredTx)
  /\ \A d, e \in 1..depth : Owner(d) /\ Owner(e) /\ frame[d].tx = frame[e].tx => d = e

(* A session of its own is open for a frame that owns it. *)
OpenInv ==
  \A tx \in 1..MaxTx : session[tx].open =>
    /\ ~SharedSession
    /\ tx <= txCount
    /\ tx \in expiredTx \/ \E d \in 1..depth : Owner(d) /\ frame[d].tx = tx

OInv == FrameInv /\ SessionInv /\ OwnerInv /\ OpenInv

-------------------------------------------------------------------------------
(* What statements do to a session. *)

(* Changing a field other than open keeps a session a session. *)
LEMMA FieldUpdates ==
  ASSUME NEW s, WellFormed(s), NEW x
  PROVE  /\ WellFormed([s EXCEPT !.writes = x]) /\ [s EXCEPT !.writes = x].open = s.open
         /\ WellFormed([s EXCEPT !.saves = x]) /\ [s EXCEPT !.saves = x].open = s.open
         /\ WellFormed([s EXCEPT !.aborted = x]) /\ [s EXCEPT !.aborted = x].open = s.open
         /\ WellFormed([s EXCEPT !.readOnly = x]) /\ [s EXCEPT !.readOnly = x].open = s.open
         /\ WellFormed([s EXCEPT !.open = x]) /\ [s EXCEPT !.open = x].open = x
<1>1. WellFormed([s EXCEPT !.writes = x]) /\ [s EXCEPT !.writes = x].open = s.open
  BY DEF WellFormed
<1>2. WellFormed([s EXCEPT !.saves = x]) /\ [s EXCEPT !.saves = x].open = s.open
  BY DEF WellFormed
<1>3. WellFormed([s EXCEPT !.aborted = x]) /\ [s EXCEPT !.aborted = x].open = s.open
  BY DEF WellFormed
<1>4. WellFormed([s EXCEPT !.readOnly = x]) /\ [s EXCEPT !.readOnly = x].open = s.open
  BY DEF WellFormed
<1>5. WellFormed([s EXCEPT !.open = x]) /\ [s EXCEPT !.open = x].open = x
  BY DEF WellFormed
<1>6. QED
  BY <1>1, <1>2, <1>3, <1>4, <1>5

(* No statement but BEGIN, COMMIT and ROLLBACK opens or ends a transaction. *)
LEMMA SessionOperators ==
  ASSUME NEW s, WellFormed(s), NEW name, NEW at
  PROVE  /\ WellFormed(Written(s, at)) /\ Written(s, at).open = s.open
         /\ WellFormed(WithSavepoint(s, name, at)) /\ WithSavepoint(s, name, at).open = s.open
         /\ WellFormed(RolledBackTo(s, name)) /\ RolledBackTo(s, name).open = s.open
         /\ WellFormed(Released(s, name)) /\ Released(s, name).open = s.open
<1>1. WellFormed(Written(s, at)) /\ Written(s, at).open = s.open
  BY FieldUpdates DEF Written
<1>2. WellFormed(WithSavepoint(s, name, at)) /\ WithSavepoint(s, name, at).open = s.open
  BY FieldUpdates DEF WithSavepoint
<1>3. WellFormed(RolledBackTo(s, name)) /\ RolledBackTo(s, name).open = s.open
  <2> DEFINE i == LatestSave(s, name)
             r1 == [s EXCEPT !.aborted = FALSE]
             r2 == [r1 EXCEPT !.writes = {w \in s.writes : w < s.saves[i].at}]
             r3 == [r2 EXCEPT !.saves = SubSeq(s.saves, 1, i)]
  <2>1. WellFormed(r1) /\ r1.open = s.open
    BY FieldUpdates
  <2>2. WellFormed(r2) /\ r2.open = s.open
    <3> HIDE DEF r1
    <3>1. QED
      BY <2>1, FieldUpdates
  <2>3. WellFormed(r3) /\ r3.open = s.open
    <3> HIDE DEF r2
    <3>1. QED
      BY <2>2, FieldUpdates
  <2>4. RolledBackTo(s, name) = r3
    BY DEF RolledBackTo, WellFormed
  <2>5. QED
    BY <2>3, <2>4
<1>4. WellFormed(Released(s, name)) /\ Released(s, name).open = s.open
  BY FieldUpdates DEF Released
<1>5. QED
  BY <1>1, <1>2, <1>3, <1>4

(* BEGIN opens a session, NoSession is closed. *)
LEMMA NewSessions ==
  ASSUME NEW readOnly
  PROVE  /\ WellFormed(NoSession) /\ NoSession.open = FALSE
         /\ WellFormed(Begun(readOnly)) /\ Begun(readOnly).open = TRUE
<1>1. WellFormed(NoSession) /\ NoSession.open = FALSE
  BY DEF WellFormed, NoSession
<1> DEFINE r1 == [NoSession EXCEPT !.open = TRUE]
<1>2. WellFormed(r1) /\ r1.open = TRUE
  BY <1>1, FieldUpdates
<1>3. WellFormed([r1 EXCEPT !.readOnly = readOnly]) /\ [r1 EXCEPT !.readOnly = readOnly].open = TRUE
  <2> HIDE DEF r1
  <2>1. QED
    BY <1>2, FieldUpdates, ZenonT(60)
<1>4. QED
  BY <1>1, <1>3 DEF Begun

(* Frames stay frames when a field is changed. *)
LEMMA FrameUpdates ==
  ASSUME NEW f \in Frames
  PROVE  /\ \A k \in Kinds : [f EXCEPT !.kind = k] \in Frames
         /\ \A tx \in 0..MaxTx : [f EXCEPT !.tx = tx] \in Frames
         /\ \A b \in BOOLEAN : /\ [f EXCEPT !.noTx = b] \in Frames
                              /\ [f EXCEPT !.serial = b] \in Frames
                              /\ [f EXCEPT !.expired = b] \in Frames
         /\ \A n \in Nat : [f EXCEPT !.name = n] \in Frames
         /\ \A n \in 0..Retries : [f EXCEPT !.tries = n] \in Frames
         /\ \A ws \in SUBSET (1..MaxWrites) : [f EXCEPT !.writes = ws] \in Frames
BY DEF Frames

(* The frame of a txFunc keeps the transaction and the expiry of the call.  *)
LEMMA InnerFrame ==
  ASSUME FrameInv, NEW kind \in Kinds
  PROVE  /\ Inner(kind) \in Frames
         /\ Inner(kind).kind = kind
         /\ Inner(kind).tx = Top.tx
         /\ Inner(kind).expired = Top.expired
         /\ Top \in Frames
<1>1. Top \in Frames
  BY DEF FrameInv, Top
<1> DEFINE f1 == [Top EXCEPT !.kind = kind]
           f2 == [f1 EXCEPT !.name = 0]
           f3 == [f2 EXCEPT !.tries = 0]
           f4 == [f3 EXCEPT !.writes = {}]
<1>2. f4 \in Frames
  <2>1. f1 \in Frames
    BY <1>1, FrameUpdates
  <2>2. f2 \in Frames
    <3> HIDE DEF f1
    <3>1. QED
      BY <2>1, FrameUpdates
  <2>3. f3 \in Frames
    <3> HIDE DEF f2
    <3>1. QED
      BY <2>2, FrameUpdates, BoundAssumption
  <2>4. QED
    <3> HIDE DEF f3
    <3>1. QED
      BY <2>3, FrameUpdates
<1>3. Inner(kind) = f4
  BY DEF Inner
<1>4. /\ Inner(kind).kind = kind
      /\ Inner(kind).tx = Top.tx
      /\ Inner(kind).expired = Top.expired
  BY <1>1 DEF Inner, Frames
<1>5. QED
  BY <1>1, <1>2, <1>3, <1>4

-------------------------------------------------------------------------------
(* Nothing is open in the beginning. *)
LEMMA InitOInv == Init => OInv
<1> SUFFICES ASSUME Init PROVE OInv
  OBVIOUS
<1>1. FrameInv
  <2>1. NoFrame \in Frames
    BY BoundAssumption DEF NoFrame, Frames, Kinds
  <2>2. QED
    BY <2>1, BoundAssumption DEF Init, FrameInv
<1>2. SessionInv
  BY NewSessions DEF Init, SessionInv
<1>3. OwnerInv
  BY BoundAssumption DEF Init, OwnerInv, Owner, NoFrame
<1>4. OpenInv
  <2>1. \A tx \in 1..MaxTx : session[tx] = NoSession
    BY BoundAssumption DEF Init
  <2>2. ~NoSession.open
    BY DEF NoSession
  <2>3. QED
    BY <2>1, <2>2 DEF OpenInv
<1>5. QED
  BY <1>1, <1>2, <1>3, <1>4 DEF OInv

-------------------------------------------------------------------------------
(* The kinds of steps. *)

(* What the proof needs to know of a frame. *)
SameFrame(d) ==
  /\ frame'[d].kind = frame[d].kind
  /\ frame'[d].tx = frame[d].tx
  /\ frame'[d].expired = frame[d].expired

(* No session is opened or closed. *)
SameOpen ==
  SessionInv' /\ \A tx \in 0..MaxTx : session'[tx].open = session[tx].open

(* Replacing a session by one that is as open as it was changes no openness. *)
LEMMA SetSessionKeeps ==
  ASSUME OInv, NEW tx \in 0..MaxTx, NEW s, WellFormed(s),
         s.open = Session(tx).open, SetSession(tx, s)
  PROVE  SameOpen
<1>1. SessionOf(tx) \in 0..MaxTx
  BY BoundAssumption DEF SessionOf
<1>2. session' = [session EXCEPT ![SessionOf(tx)] = s]
  BY DEF SetSession
<1>3. SessionInv'
  BY <1>1, <1>2 DEF OInv, SessionInv
<1>4. \A t \in 0..MaxTx : session'[t].open = session[t].open
  BY <1>1, <1>2 DEF OInv, SessionInv, Session
<1>5. QED
  BY <1>3, <1>4 DEF SameOpen

(* A statement on the session of a frame. *)
LEMMA StatementStep ==
  ASSUME OInv, SameOpen, depth' = depth, frame' \in [1..MaxDepth -> Frames],
         \A d \in 1..depth : SameFrame(d),
         spCount' \in Nat, writeCount' \in Nat, UNCHANGED <<txCount, expiredTx>>
  PROVE  OInv'
<1>1. FrameInv'
  BY DEF OInv, FrameInv
<1>2. SessionInv'
  BY DEF SameOpen
<1>3. OwnerInv'
  BY DEF OInv, OwnerInv, Owner, SameFrame
<1>4. OpenInv'
  BY DEF OInv, OpenInv, Owner, SameFrame, SameOpen
<1>5. QED
  BY <1>1, <1>2, <1>3, <1>4 DEF OInv

(* A call that owns no transaction starts. *)
LEMMA PushStep ==
  ASSUME OInv, NEW f \in Frames, f.kind \notin {"own", "serialized"}, f.tx \in {0, Top.tx},
         depth < MaxDepth, Push(f), SameOpen,
         spCount' \in Nat, UNCHANGED <<txCount, writeCount, expiredTx>>
  PROVE  OInv'
<1>1. FrameInv'
  BY BoundAssumption DEF OInv, FrameInv, Push
<1>2. SessionInv'
  BY DEF SameOpen
<1>3. frame'[depth + 1] = f /\ \A d \in 1..depth : frame'[d] = frame[d]
  BY BoundAssumption DEF OInv, FrameInv, Push
<1>4. OwnerInv'
  <2>1. f.tx <= txCount
    BY DEF OInv, FrameInv, OwnerInv, Top
  <2>2. \A d \in 1..depth' : d = depth + 1 \/ d \in 1..depth
    BY DEF Push, OInv, FrameInv
  <2>3. \A d \in 1..depth' : frame'[d].tx <= txCount'
    BY <1>3, <2>1, <2>2 DEF OInv, OwnerInv
  <2>4. \A d \in 1..depth' : Owner(d)' => d \in 1..depth /\ Owner(d)
    BY <1>3, <2>2 DEF Owner
  <2>5. QED
    BY <1>3, <2>3, <2>4 DEF OInv, OwnerInv
<1>5. OpenInv'
  <2>1. \A d \in 1..depth : d \in 1..depth' /\ (Owner(d) => Owner(d)')
    BY <1>3 DEF Push, OInv, FrameInv, Owner
  <2>2. QED
    BY <1>3, <2>1 DEF OInv, OpenInv, SameOpen
<1>6. QED
  BY <1>1, <1>2, <1>4, <1>5 DEF OInv

(* The top frame returns: sessions may be closed, and that of the frame is, *)
(* unless it is bound to be rolled back.                                    *)
LEMMA PopStep ==
  ASSUME OInv, depth > 1, NEW ws \in SUBSET (1..MaxWrites), Pop(ws), SessionInv',
         \A tx \in 1..MaxTx : session'[tx].open => session[tx].open,
         Owner(depth) => (session'[Top.tx].open => SharedSession \/ Top.tx \in expiredTx),
         UNCHANGED <<txCount, spCount, writeCount, expiredTx>>
  PROVE  OInv'
<1>1. depth' = depth - 1
  BY DEF Pop
<1>2. depth \in 2..MaxDepth /\ MaxDepth \in Nat
  BY BoundAssumption DEF OInv, FrameInv
<1>3. NoFrame \in Frames
  BY BoundAssumption DEF NoFrame, Frames, Kinds
<1> DEFINE f == [frame[depth - 1] EXCEPT !.writes = frame[depth - 1].writes \cup ws]
<1>4. frame[depth - 1] \in Frames
  BY <1>2 DEF OInv, FrameInv
<1>5. /\ f \in Frames
      /\ f.kind = frame[depth - 1].kind
      /\ f.tx = frame[depth - 1].tx
      /\ f.expired = frame[depth - 1].expired
  <2>1. frame[depth - 1].writes \cup ws \in SUBSET (1..MaxWrites)
    BY <1>4 DEF Frames
  <2>2. QED
    BY <1>4, <2>1, FrameUpdates DEF Frames
<1>6. /\ frame' \in [1..MaxDepth -> Frames]
      /\ frame'[depth] = NoFrame
      /\ frame'[depth - 1] = f
      /\ \A d \in 1..MaxDepth \ {depth - 1, depth} : frame'[d] = frame[d]
  <2> DEFINE g == [frame EXCEPT ![depth] = NoFrame]
  <2>1. /\ g \in [1..MaxDepth -> Frames]
        /\ g[depth] = NoFrame
        /\ \A d \in 1..MaxDepth \ {depth} : g[d] = frame[d]
    BY <1>2, <1>3 DEF OInv, FrameInv
  <2>2. frame' = [g EXCEPT ![depth - 1].writes = frame[depth - 1].writes \cup ws]
    BY DEF Pop
  <2>3. frame' = [g EXCEPT ![depth - 1] = [g[depth - 1] EXCEPT !.writes = frame[depth - 1].writes \cup ws]]
    <3> HIDE DEF g
    <3>1. QED
      BY <2>2
  <2>4. g[depth - 1] = frame[depth - 1]
    BY <1>2, <2>1
  <2>5. frame' = [g EXCEPT ![depth - 1] = f]
    BY <2>3, <2>4
  <2> HIDE DEF g, f
  <2>6. QED
    BY <1>2, <1>5, <2>1, <2>5
<1> HIDE DEF f
<1>7. \A d \in 1..(depth - 1) : SameFrame(d)
  BY <1>2, <1>5, <1>6 DEF SameFrame
<1>8. FrameInv'
  BY <1>1, <1>2, <1>6 DEF OInv, FrameInv
<1>9. \A d \in 1..depth' : d \in 1..depth /\ d # depth /\ SameFrame(d)
  BY <1>1, <1>2, <1>7
<1>10. OwnerInv'
  BY <1>9 DEF OInv, OwnerInv, Owner, SameFrame
<1>11. OpenInv'
  <2> SUFFICES ASSUME NEW tx \in 1..MaxTx, session'[tx].open
               PROVE  /\ ~SharedSession /\ tx <= txCount
                      /\ tx \in expiredTx \/ \E d \in 1..depth' : Owner(d)' /\ frame'[d].tx = tx
    BY DEF OpenInv
  <2>1. /\ ~SharedSession /\ tx <= txCount
        /\ tx \in expiredTx \/ \E d \in 1..depth : Owner(d) /\ frame[d].tx = tx
    BY DEF OInv, OpenInv
  <2>2. CASE tx \in expiredTx
    BY <2>1, <2>2
  <2>3. CASE tx \notin expiredTx
    <3>1. PICK d \in 1..depth : Owner(d) /\ frame[d].tx = tx
      BY <2>1, <2>3
    <3>2. d # depth
      BY <2>1, <2>3, <3>1 DEF Top
    <3>3. d \in 1..depth' /\ d \in 1..(depth - 1)
      BY <1>1, <1>2, <3>2
    <3>4. Owner(d)' /\ frame'[d].tx = tx
      BY <1>7, <3>1, <3>3 DEF Owner, SameFrame
    <3>5. QED
      BY <2>1, <3>3, <3>4
  <2>4. QED
    BY <2>2, <2>3
<1>12. QED
  BY <1>8, <1>10, <1>11 DEF OInv

(* A call that begins a transaction starts. *)
LEMMA BeginStep ==
  ASSUME OInv, NEW f \in Frames, NEW opts, f.kind \in {"own", "serialized"},
         f.expired = Top.expired, depth < MaxDepth, BeginFrame(f, opts)
  PROVE  OInv'
<1> DEFINE t == txCount + 1
           g == [f EXCEPT !.tx = t]
<1>1. /\ t \in 1..MaxTx /\ txCount' = t
      /\ t \in Nat /\ txCount \in Nat
      /\ ~Top.expired
  BY BoundAssumption DEF BeginFrame, Begin, OInv, FrameInv
<1>2. g \in Frames /\ g.kind = f.kind /\ g.tx = t /\ g.expired = f.expired
  <2>1. t \in 0..MaxTx
    BY <1>1
  <2>2. QED
    BY <2>1, FrameUpdates DEF Frames
<1>3. /\ depth' = depth + 1
      /\ frame' = [frame EXCEPT ![depth + 1] = g]
      /\ UNCHANGED <<spCount, writeCount, expiredTx>>
  BY DEF BeginFrame, Push
<1> DEFINE s == IF Nested(Top.tx)
                THEN WithSavepoint(Session(0), TxSavepoint(t), writeCount + 1)
                ELSE Begun(opts.readOnly /\ ~SharedSession)
<1>4. session' = [session EXCEPT ![SessionOf(t)] = s]
  BY DEF BeginFrame, Begin, SetSession
<1>5. WellFormed(s)
  <2>1. CASE Nested(Top.tx)
    <3>1. WellFormed(Session(0))
      BY BoundAssumption DEF OInv, SessionInv, Session, SessionOf
    <3>2. QED
      BY <2>1, <3>1, SessionOperators
  <2>2. CASE ~Nested(Top.tx)
    BY <2>2, NewSessions
  <2>3. QED
    BY <2>1, <2>2
<1> HIDE DEF s, g
<1>6. SessionOf(t) \in 0..MaxTx
  BY <1>1, BoundAssumption DEF SessionOf
<1>7. SessionInv'
  BY <1>4, <1>5, <1>6 DEF OInv, SessionInv
<1>8. depth \in 1..MaxDepth /\ MaxDepth \in Nat
  BY BoundAssumption DEF OInv, FrameInv
<1>9. FrameInv'
  BY <1>1, <1>2, <1>3, <1>8 DEF OInv, FrameInv
<1>10. frame'[depth + 1] = g /\ \A d \in 1..depth : frame'[d] = frame[d]
  BY <1>3, <1>8 DEF OInv, FrameInv
<1>11. \A d \in 1..depth' : d = depth + 1 \/ d \in 1..depth
  BY <1>3, <1>8
<1>12. \A d \in 1..depth : frame[d].tx < t /\ frame[d].tx \in Nat
  <2>1. \A d \in 1..depth : frame[d] \in Frames
    BY <1>8 DEF OInv, FrameInv
  <2>2. \A d \in 1..depth : frame[d].tx \in Nat
    BY <2>1 DEF Frames
  <2>3. QED
    BY <1>1, <2>2 DEF OInv, OwnerInv
<1>13. OwnerInv'
  <2>1. \A d \in 1..depth' : frame'[d].tx <= txCount'
    BY <1>1, <1>2, <1>10, <1>11, <1>12
  <2>2. \A d \in 1..depth' : Owner(d)' =>
          frame'[d].tx # 0 /\ (frame'[d].expired => frame'[d].tx \in expiredTx')
    BY <1>1, <1>2, <1>3, <1>10, <1>11 DEF OInv, OwnerInv, Owner
  <2>3. \A d, e \in 1..depth' : Owner(d)' /\ Owner(e)' /\ frame'[d].tx = frame'[e].tx => d = e
    BY <1>1, <1>2, <1>10, <1>11, <1>12 DEF OInv, OwnerInv, Owner
  <2>4. QED
    BY <2>1, <2>2, <2>3 DEF OwnerInv
<1>14. OpenInv'
  <2> SUFFICES ASSUME NEW tx \in 1..MaxTx, session'[tx].open
               PROVE  /\ ~SharedSession /\ tx <= txCount'
                      /\ tx \in expiredTx \/ \E d \in 1..depth' : Owner(d)' /\ frame'[d].tx = tx
    BY <1>3 DEF OpenInv
  <2>1. CASE tx = t /\ ~SharedSession
    <3>1. PICK e \in 1..depth' : e = depth + 1
      BY <1>3, <1>8
    <3>2. Owner(e)' /\ frame'[e].tx = tx
      BY <1>2, <1>10, <2>1, <3>1 DEF Owner
    <3>3. QED
      BY <1>1, <2>1, <3>1, <3>2
  <2>2. CASE ~(tx = t /\ ~SharedSession)
    <3>1. session'[tx] = session[tx]
      BY <1>4, <1>6, <2>2 DEF OInv, SessionInv, SessionOf
    <3>2. /\ ~SharedSession /\ tx <= txCount
          /\ tx \in expiredTx \/ \E d \in 1..depth : Owner(d) /\ frame[d].tx = tx
      BY <3>1 DEF OInv, OpenInv
    <3>3. \A d \in 1..depth : d \in 1..depth' /\ (Owner(d) => Owner(d)')
                              /\ frame'[d] = frame[d]
      BY <1>3, <1>8, <1>10 DEF Owner
    <3>4. tx <= txCount'
      BY <1>1, <3>2
    <3>5. QED
      BY <3>2, <3>3, <3>4
  <2>3. QED
    BY <2>1, <2>2
<1>15. QED
  BY <1>7, <1>9, <1>13, <1>14 DEF OInv

-------------------------------------------------------------------------------
(* Calls. *)

(* A txFunc that is called directly starts. *)
LEMMA DirectStep ==
  ASSUME OInv, NEW f \in Frames, f.kind \notin {"own", "serialized"}, f.tx \in {0, Top.tx},
         depth < MaxDepth, Direct(f)
  PROVE  OInv'
<1>1. SameOpen
  BY DEF Direct, OInv, SessionInv, SameOpen, WellFormed
<1>2. QED
  BY <1>1, PushStep DEF Direct, counters, OInv, FrameInv

(* No call disturbs the ownership of transactions. *)
LEMMA CallStep ==
  ASSUME OInv, Call
  PROVE  OInv'
<1>1. FrameInv
  BY DEF OInv
<1>2. /\ {"plain", "pass", "serializedPass", "own", "serialized", "savepoint"} \subseteq Kinds
      /\ 0 \in 0..MaxTx
  BY BoundAssumption DEF Kinds
<1>3. ASSUME NEW kind \in Kinds
      PROVE  /\ Inner(kind) \in Frames /\ Inner(kind).kind = kind
             /\ Inner(kind).tx = Top.tx /\ Inner(kind).expired = Top.expired
  BY <1>1, InnerFrame
<1>4. ASSUME NEW opts, Transaction(opts)
      PROVE  OInv'
  <2>1. depth < MaxDepth
    BY <1>4 DEF Transaction, CanCall
  <2>2. CASE Direct(Inner("plain")) \/ Direct(Inner("pass"))
    BY <1>2, <1>3, <2>1, <2>2, DirectStep
  <2>3. CASE BeginFrame(Inner("own"), opts)
    BY <1>2, <1>3, <2>1, <2>3, BeginStep
  <2>4. QED
    BY <1>4, <2>2, <2>3 DEF Transaction
<1>5. CASE IsolatedTransaction
  <2>1. depth < MaxDepth /\ BeginFrame(Inner("own"), NilOptions)
    BY <1>5 DEF IsolatedTransaction, CanCall
  <2>2. QED
    BY <1>2, <1>3, <2>1, BeginStep
<1>6. CASE SerializedTransaction
  <2> DEFINE f1 == [Inner("serialized") EXCEPT !.serial = TRUE]
             f == [Inner("serialized") EXCEPT !.serial = TRUE, !.tries = 1]
  <2>1. depth < MaxDepth
    BY <1>6 DEF SerializedTransaction, CanCall
  <2>2. CASE Direct(Inner("serializedPass"))
    BY <1>2, <1>3, <2>1, <2>2, DirectStep
  <2>3. CASE Retries > 0 /\ BeginFrame(f, SerializableOptions)
    <3>1. f1 \in Frames /\ f = [f1 EXCEPT !.tries = 1]
      BY <1>2, <1>3, FrameUpdates
    <3>2. [f1 EXCEPT !.tries = 1] \in Frames
      <4>1. 1 \in 0..Retries
        BY <2>3, BoundAssumption
      <4> HIDE DEF f1
      <4>2. QED
        BY <3>1, <4>1, FrameUpdates
    <3>3. f.kind = "serialized" /\ f.expired = Top.expired
      BY <1>2, <1>3 DEF Frames
    <3>4. f \in Frames
      BY <3>1, <3>2
    <3> HIDE DEF f, f1
    <3>5. BeginFrame(f, SerializableOptions)
      BY <2>3
    <3>6. QED
      BY <2>1, <3>3, <3>4, <3>5, BeginStep
  <2>4. QED
    BY <1>6, <2>2, <2>3 DEF SerializedTransaction
<1>7. CASE TransactionSavepoint
  <2> DEFINE f == [Inner("savepoint") EXCEPT !.name = NextSavepoint]
  <2>1. /\ depth < MaxDepth /\ Push(f)
        /\ spCount' \in Nat /\ UNCHANGED <<txCount, writeCount, expiredTx>>
    BY <1>1, <1>7 DEF TransactionSavepoint, CanCall, FrameInv
  <2>2. Top \in Frames /\ Top.tx \in 0..MaxTx
    BY <1>1, <1>2, InnerFrame DEF Frames
  <2>3. SameOpen
    <3> DEFINE s == WithSavepoint(Session(Top.tx), NextSavepoint, writeCount + 1)
    <3>1. WellFormed(Session(Top.tx))
      BY <2>2, BoundAssumption DEF OInv, SessionInv, Session, SessionOf
    <3>2. WellFormed(s) /\ s.open = Session(Top.tx).open
      BY <3>1, SessionOperators
    <3>3. SetSession(Top.tx, s)
      BY <1>7 DEF TransactionSavepoint
    <3> HIDE DEF s
    <3>4. QED
      BY <2>2, <3>2, <3>3, SetSessionKeeps
  <2>4. NextSavepoint \in Nat
    BY <1>1, BoundAssumption DEF NextSavepoint, FrameInv
  <2>5. f \in Frames /\ f.kind = "savepoint" /\ f.tx = Top.tx
    BY <1>2, <1>3, <2>4, FrameUpdates DEF Frames
  <2> HIDE DEF f
  <2>6. QED
    BY <2>1, <2>3, <2>5, PushStep
<1>8. CASE WithoutTransactions
  <2> DEFINE f == [Inner("plain") EXCEPT !.noTx = TRUE]
  <2>1. depth < MaxDepth /\ Direct(f)
    BY <1>8 DEF WithoutTransactions, CanCall
  <2>2. Inner("plain") \in Frames /\ Inner("plain").kind = "plain" /\ Inner("plain").tx = Top.tx
    BY <1>2, <1>3
  <2>3. f \in Frames
    BY <2>2, FrameUpdates
  <2>4. f.kind = "plain" /\ f.tx = Top.tx
    BY <2>2 DEF Frames
  <2> HIDE DEF f
  <2>5. QED
    BY <2>1, <2>3, <2>4, DirectStep
<1>9. CASE WithGlobalConn
  <2> DEFINE f == [Inner("plain") EXCEPT !.tx = 0]
  <2>1. depth < MaxDepth /\ Direct(f)
    BY <1>9 DEF WithGlobalConn, CanCall
  <2>2. f \in Frames /\ f.kind = "plain" /\ f.tx = 0
    BY <1>2, <1>3, FrameUpdates DEF Frames
  <2> HIDE DEF f
  <2>3. QED
    BY <2>1, <2>2, DirectStep
<1>10. QED
  BY <1>4, <1>5, <1>6, <1>7, <1>8, <1>9 DEF Call

-------------------------------------------------------------------------------
(* Statements of a txFunc. *)

(* The top frame and its session have their types. *)
LEMMA TopFacts ==
  ASSUME OInv
  PROVE  /\ depth \in 1..MaxDepth /\ MaxDepth \in Nat
         /\ Top \in Frames /\ Top.tx \in 0..MaxTx
         /\ Top.writes \in SUBSET (1..MaxWrites)
         /\ WellFormed(Session(Top.tx))
         /\ SessionOf(Top.tx) \in 0..MaxTx
<1>1. depth \in 1..MaxDepth /\ MaxDepth \in Nat
  BY BoundAssumption DEF OInv, FrameInv
<1>2. Top \in Frames
  BY <1>1 DEF OInv, FrameInv, Top
<1>3. Top.tx \in 0..MaxTx /\ Top.writes \in SUBSET (1..MaxWrites)
  BY <1>2 DEF Frames
<1>4. SessionOf(Top.tx) \in 0..MaxTx
  BY <1>3, BoundAssumption DEF SessionOf
<1>5. WellFormed(Session(Top.tx))
  BY <1>4 DEF OInv, SessionInv, Session
<1>6. QED
  BY <1>1, <1>2, <1>3, <1>4, <1>5

(* A statement, failed or not, opens and closes nothing. *)
LEMMA ExecStep ==
  ASSUME OInv, Exec \/ ExecFails
  PROVE  OInv'
<1> DEFINE w == writeCount + 1
<1>1. FrameInv /\ Top.tx \in 0..MaxTx /\ WellFormed(Session(Top.tx))
  BY TopFacts DEF OInv
<1>2. ASSUME UNCHANGED session PROVE SameOpen
  BY <1>2 DEF OInv, SessionInv, SameOpen, WellFormed
<1>3. CASE ExecFails
  <2> DEFINE s == [Session(Top.tx) EXCEPT !.aborted = TRUE]
  <2>1. WellFormed(s) /\ s.open = Session(Top.tx).open
    BY <1>1, FieldUpdates
  <2>2. SetSession(Top.tx, s)
    BY <1>3 DEF ExecFails
  <2> HIDE DEF s
  <2>3. SameOpen
    BY <1>1, <2>1, <2>2, SetSessionKeeps
  <2>4. QED
    BY <1>1, <1>3, <2>3, StatementStep DEF ExecFails, counters, FrameInv, SameFrame
<1>4. CASE Exec
  <2>1. /\ depth' = depth /\ UNCHANGED <<txCount, spCount, expiredTx>>
        /\ writeCount' = w /\ w \in 1..MaxWrites
    BY <1>1, <1>4, BoundAssumption DEF Exec, FrameInv
  <2>2. CASE UNCHANGED <<session, frame>>
    BY <1>1, <1>2, <2>1, <2>2, StatementStep DEF FrameInv, SameFrame
  <2>3. CASE /\ SetSession(Top.tx, Written(Session(Top.tx), w))
             /\ frame' = [frame EXCEPT ![depth].writes = @ \cup {w}]
    <3>1. /\ WellFormed(Written(Session(Top.tx), w))
          /\ Written(Session(Top.tx), w).open = Session(Top.tx).open
      BY <1>1, SessionOperators
    <3>2. SameOpen
      BY <1>1, <2>3, <3>1, SetSessionKeeps
    <3> DEFINE f == [frame[depth] EXCEPT !.writes = frame[depth].writes \cup {w}]
    <3>3. frame' = [frame EXCEPT ![depth] = f]
      BY <2>3
    <3>4. frame[depth] \in Frames
      BY DEF OInv, FrameInv
    <3>5. f \in Frames
      <4>1. frame[depth].writes \cup {w} \in SUBSET (1..MaxWrites)
        BY <2>1, <3>4 DEF Frames
      <4>2. QED
        BY <3>4, <4>1, FrameUpdates
    <3>6. /\ f.kind = frame[depth].kind /\ f.tx = frame[depth].tx
          /\ f.expired = frame[depth].expired
      BY <3>4 DEF Frames
    <3> HIDE DEF f
    <3>7. frame' \in [1..MaxDepth -> Frames] /\ \A d \in 1..depth : SameFrame(d)
      BY <1>1, <3>3, <3>5, <3>6, BoundAssumption DEF FrameInv, SameFrame
    <3>8. QED
      BY <1>1, <2>1, <3>2, <3>7, StatementStep DEF FrameInv
  <2>4. QED
    BY <1>4, <2>2, <2>3 DEF Exec
<1>5. QED
  BY <1>3, <1>4

-------------------------------------------------------------------------------
(* Returns. *)

(* A call that owns no transaction returns. *)
LEMMA PassStep ==
  ASSUME OInv, depth > 1, ~Owner(depth), NEW ws \in SUBSET (1..MaxWrites), Pop(ws), SameOpen,
         UNCHANGED <<txCount, spCount, writeCount, expiredTx>>
  PROVE  OInv'
<1>1. \A tx \in 1..MaxTx : session'[tx].open => session[tx].open
  BY DEF SameOpen
<1>2. QED
  BY <1>1, PopStep DEF SameOpen

(* The owner of a transaction returns and leaves the session as s. *)
LEMMA EndStep ==
  ASSUME OInv, depth > 1, Owner(depth), NEW ws \in SUBSET (1..MaxWrites), Pop(ws),
         NEW s, WellFormed(s), SetSession(Top.tx, s),
         s.open => Session(Top.tx).open /\ (SharedSession \/ Top.tx \in expiredTx),
         UNCHANGED <<txCount, spCount, writeCount, expiredTx>>
  PROVE  OInv'
<1>1. session' = [session EXCEPT ![SessionOf(Top.tx)] = s] /\ SessionOf(Top.tx) \in 0..MaxTx
  BY TopFacts DEF SetSession
<1>2. SessionInv'
  BY <1>1 DEF OInv, SessionInv
<1>3. \A tx \in 1..MaxTx : session'[tx].open => session[tx].open
  BY <1>1 DEF OInv, SessionInv, Session
<1>4. session'[Top.tx].open => SharedSession \/ Top.tx \in expiredTx
  BY <1>1, TopFacts DEF OInv, SessionInv, SessionOf
<1>5. QED
  BY <1>2, <1>3, <1>4, PopStep

(* However a txFunc ends, its call closes what it opened. *)
LEMMA ReturnStep ==
  ASSUME OInv, NEW outcome \in Outcomes,
         \/ DirectReturns(outcome) \/ SavepointReturns(outcome)
         \/ RollbackReturns(outcome) \/ CommitReturns(outcome)
  PROVE  OInv'
<1>1. /\ WellFormed(Session(Top.tx)) /\ Top.tx \in 0..MaxTx /\ Top.writes \in SUBSET (1..MaxWrites)
      /\ {} \in SUBSET (1..MaxWrites)
  BY TopFacts
<1>2. \A name :
        /\ WellFormed(RolledBackTo(Session(Top.tx), name))
        /\ RolledBackTo(Session(Top.tx), name).open = Session(Top.tx).open
        /\ WellFormed(Released(Session(Top.tx), name))
        /\ Released(Session(Top.tx), name).open = Session(Top.tx).open
  BY <1>1, SessionOperators
<1>3. ASSUME UNCHANGED session PROVE SameOpen
  BY <1>3 DEF OInv, SessionInv, SameOpen, WellFormed
<1>4. CASE DirectReturns(outcome)
  <2>1. /\ depth > 1 /\ ~Owner(depth) /\ Pop(Top.writes) /\ UNCHANGED session
        /\ UNCHANGED <<txCount, spCount, writeCount, expiredTx>>
    BY <1>4 DEF DirectReturns, Ends, Owner, Top, counters
  <2>2. QED
    BY <1>1, <1>3, <2>1, PassStep
<1>5. CASE SavepointReturns(outcome)
  <2>1. /\ depth > 1 /\ ~Owner(depth)
        /\ UNCHANGED <<txCount, spCount, writeCount, expiredTx>>
    BY <1>5 DEF SavepointReturns, Ends, Owner, Top, counters
  <2>2. Pop(Top.writes) \/ Pop({})
    BY <1>5 DEF SavepointReturns
  <2>3. \/ UNCHANGED session
        \/ SetSession(Top.tx, RolledBackTo(Session(Top.tx), Top.name))
        \/ SetSession(Top.tx, Released(Session(Top.tx), Top.name))
    BY <1>5 DEF SavepointReturns
  <2>4. SameOpen
    BY <1>1, <1>2, <1>3, <2>3, SetSessionKeeps
  <2>5. QED
    BY <1>1, <2>1, <2>2, <2>4, PassStep
<1>6. CASE RollbackReturns(outcome)
  <2> DEFINE parentTx == frame[depth - 1].tx
             s == IF Session(Top.tx).open
                  THEN IF Nested(parentTx)
                       THEN RolledBackTo(Session(Top.tx), TxSavepoint(Top.tx))
                       ELSE NoSession
                  ELSE Session(Top.tx)
  <2>1. /\ depth > 1 /\ Owner(depth) /\ Rollback(parentTx) /\ Pop({})
        /\ UNCHANGED <<txCount, spCount, writeCount, expiredTx>>
    BY <1>6 DEF RollbackReturns, Ends, Owner, Top, counters
  <2>2. SetSession(Top.tx, s)
    <3>1. CASE Session(Top.tx).open
      BY <2>1, <3>1 DEF Rollback
    <3>2. CASE ~Session(Top.tx).open
      <4>1. UNCHANGED session
        BY <2>1, <3>2 DEF Rollback
      <4>2. session = [session EXCEPT ![SessionOf(Top.tx)] = Session(Top.tx)]
        BY TopFacts DEF OInv, SessionInv, Session
      <4>3. QED
        BY <3>2, <4>1, <4>2 DEF SetSession
    <3>3. QED
      BY <3>1, <3>2
  <2>3. WellFormed(s)
    BY <1>1, <1>2, NewSessions
  <2>4. s.open => Session(Top.tx).open /\ SharedSession
    BY <1>2, NewSessions DEF Nested
  <2> HIDE DEF s
  <2>5. QED
    BY <1>1, <2>1, <2>2, <2>3, <2>4, EndStep
<1>7. CASE CommitReturns(outcome)
  <2> DEFINE parentTx == frame[depth - 1].tx
  <2>1. /\ depth > 1 /\ Owner(depth)
        /\ CommitAccepted(parentTx) \/ CommitFails(parentTx)
        /\ UNCHANGED <<txCount, spCount, writeCount, expiredTx>>
    BY <1>7 DEF CommitReturns, Ends, Owner, Top, counters
  <2>2. CASE CommitAccepted(parentTx)
    <3> DEFINE s == IF Nested(parentTx) THEN Released(Session(Top.tx), TxSavepoint(Top.tx))
                                        ELSE NoSession
    <3>1. SetSession(Top.tx, s) /\ (Pop(Top.writes) \/ Pop({}))
      BY <2>2 DEF CommitAccepted
    <3>2. WellFormed(s)
      BY <1>2, NewSessions
    <3>3. s.open => Session(Top.tx).open /\ SharedSession
      BY <1>2, NewSessions DEF Nested
    <3> HIDE DEF s
    <3>4. QED
      BY <1>1, <2>1, <3>1, <3>2, <3>3, EndStep
  <2>3. CASE CommitFails(parentTx)
    <3> DEFINE stays == SharedSession \/ (Top.expired /\ Session(Top.tx).open)
               s == IF stays THEN Session(Top.tx) ELSE NoSession
    <3>1. SetSession(Top.tx, s) /\ Pop({})
      BY <2>3 DEF CommitFails
    <3>2. WellFormed(s)
      BY <1>1, NewSessions
    <3>3. Top.expired => Top.tx \in expiredTx
      BY <2>1, TopFacts DEF OInv, OwnerInv, Top
    <3>4. s.open => Session(Top.tx).open /\ (SharedSession \/ Top.tx \in expiredTx)
      BY <3>3, NewSessions
    <3> HIDE DEF s
    <3>5. QED
      BY <1>1, <2>1, <3>1, <3>2, <3>4, EndStep
  <2>4. QED
    BY <2>1, <2>2, <2>3
<1>8. QED
  BY <1>4, <1>5, <1>6, <1>7

(* The transaction of the try is closed and the frame owns the next one. *)
LEMMA RetryStep ==
  ASSUME OInv, RollbackRetries
  PROVE  OInv'
<1> DEFINE t == txCount + 1
           g == [Top EXCEPT !.tx = t, !.tries = @ + 1, !.writes = {}]
<1>1. /\ depth \in 1..MaxDepth /\ MaxDepth \in Nat /\ Top \in Frames
      /\ SessionOf(Top.tx) \in 0..MaxTx /\ Top = frame[depth]
  BY TopFacts DEF Top
<1>2. /\ t \in 1..MaxTx /\ t \in Nat /\ txCount \in Nat /\ txCount' = t
      /\ Top.kind = "serialized" /\ Top.tries < Retries /\ ~Top.expired
      /\ UNCHANGED <<depth, spCount, writeCount, expiredTx>>
  BY BoundAssumption DEF RollbackRetries, RetriesLeft, OInv, FrameInv
<1>3. /\ session' = [session EXCEPT ![SessionOf(Top.tx)] = NoSession, ![SessionOf(t)] = Begun(FALSE)]
      /\ frame' = [frame EXCEPT ![depth] = g]
  BY DEF RollbackRetries
<1>4. g \in Frames /\ g.kind = "serialized" /\ g.tx = t /\ ~g.expired
  <2> DEFINE g1 == [Top EXCEPT !.tx = t]
             g2 == [g1 EXCEPT !.tries = Top.tries + 1]
  <2>1. g1 \in Frames
    <3>1. t \in 0..MaxTx
      BY <1>2
    <3>2. QED
      BY <1>1, <3>1, FrameUpdates
  <2>2. Top.tries + 1 \in 0..Retries
    BY <1>1, <1>2, BoundAssumption DEF Frames
  <2>3. g2 \in Frames
    <3> HIDE DEF g1
    <3>1. QED
      BY <2>1, <2>2, FrameUpdates
  <2>4. [g2 EXCEPT !.writes = {}] \in Frames
    <3> HIDE DEF g2
    <3>1. QED
      BY <2>3, FrameUpdates
  <2>5. QED
    BY <1>1, <1>2, <2>4 DEF Frames
<1> HIDE DEF g
<1>5. SessionOf(t) \in 0..MaxTx
  BY <1>2, BoundAssumption DEF SessionOf
<1>6. /\ SessionInv'
      /\ \A tx \in 0..MaxTx \ {SessionOf(Top.tx), SessionOf(t)} : session'[tx] = session[tx]
      /\ SessionOf(Top.tx) # SessionOf(t) => session'[SessionOf(Top.tx)] = NoSession
  <2>1. \A tx \in 0..MaxTx :
          session'[tx] = IF tx = SessionOf(t) THEN Begun(FALSE)
                         ELSE IF tx = SessionOf(Top.tx) THEN NoSession ELSE session[tx]
    BY <1>1, <1>3, <1>5 DEF OInv, SessionInv
  <2>2. session' = [tx \in 0..MaxTx |-> session'[tx]]
    BY <1>1, <1>3, <1>5 DEF OInv, SessionInv
  <2>3. \A tx \in 0..MaxTx : WellFormed(session'[tx])
    BY <2>1, NewSessions DEF OInv, SessionInv
  <2>4. QED
    BY <1>1, <2>1, <2>2, <2>3 DEF SessionInv
<1>7. frame'[depth] = g /\ \A d \in 1..depth : d # depth => frame'[d] = frame[d]
  BY <1>1, <1>3 DEF OInv, FrameInv
<1>8. FrameInv'
  BY <1>1, <1>2, <1>3, <1>4 DEF OInv, FrameInv
<1>9. \A d \in 1..depth : frame[d].tx < t /\ frame[d].tx \in Nat
  <2>1. \A d \in 1..depth : frame[d] \in Frames
    BY <1>1 DEF OInv, FrameInv
  <2>2. \A d \in 1..depth : frame[d].tx \in Nat
    BY <2>1 DEF Frames
  <2>3. QED
    BY <1>2, <2>2 DEF OInv, OwnerInv
<1>10. OwnerInv'
  <2>1. \A d \in 1..depth' : frame'[d].tx <= txCount'
    BY <1>2, <1>4, <1>7, <1>9
  <2>2. \A d \in 1..depth' : Owner(d)' =>
          frame'[d].tx # 0 /\ (frame'[d].expired => frame'[d].tx \in expiredTx')
    BY <1>2, <1>4, <1>7 DEF OInv, OwnerInv, Owner
  <2>3. \A d, e \in 1..depth' : Owner(d)' /\ Owner(e)' /\ frame'[d].tx = frame'[e].tx => d = e
    BY <1>2, <1>4, <1>7, <1>9 DEF OInv, OwnerInv, Owner
  <2>4. QED
    BY <2>1, <2>2, <2>3 DEF OwnerInv
<1>11. OpenInv'
  <2> SUFFICES ASSUME NEW tx \in 1..MaxTx, session'[tx].open
               PROVE  /\ ~SharedSession /\ tx <= txCount'
                      /\ tx \in expiredTx \/ \E d \in 1..depth : Owner(d)' /\ frame'[d].tx = tx
    BY <1>2 DEF OpenInv
  <2>1. CASE tx = t /\ ~SharedSession
    BY <1>1, <1>2, <1>4, <1>7, <2>1 DEF Owner
  <2>2. CASE tx = Top.tx /\ ~SharedSession /\ tx # t
    BY <1>6, <2>2, NewSessions DEF SessionOf
  <2>3. CASE SharedSession \/ tx \notin {t, Top.tx}
    <3>1. session'[tx] = session[tx]
      BY <1>6, <2>3 DEF SessionOf
    <3>2. /\ ~SharedSession /\ tx <= txCount
          /\ tx \in expiredTx \/ \E d \in 1..depth : Owner(d) /\ frame[d].tx = tx
      BY <3>1 DEF OInv, OpenInv
    <3>3. \A d \in 1..depth : Owner(d) /\ frame[d].tx = tx => Owner(d)' /\ frame'[d].tx = tx
      BY <1>1, <1>7, <2>3, <3>2 DEF Owner
    <3>4. tx <= txCount'
      BY <1>2, <3>2
    <3>5. QED
      BY <3>2, <3>3, <3>4
  <2>4. QED
    BY <2>1, <2>2, <2>3
<1>12. QED
  BY <1>6, <1>8, <1>10, <1>11 DEF OInv

-------------------------------------------------------------------------------
(* Contexts expire. *)

(* A context that expires changes no owner and binds its transactions. *)
LEMMA ExpireStep ==
  ASSUME OInv, NEW d \in 2..MaxDepth, Expire(d)
  PROVE  OInv'
<1>1. /\ UNCHANGED <<depth, session, txCount, spCount, writeCount>>
      /\ frame' = [i \in 1..MaxDepth |->
                      IF i \in d..depth THEN [frame[i] EXCEPT !.expired = TRUE] ELSE frame[i]]
      /\ expiredTx' = expiredTx \cup {frame[i].tx : i \in {j \in d..depth :
                                         frame[j].kind \in {"own", "serialized"}}}
  BY DEF Expire, counters
<1>2. depth \in 1..MaxDepth /\ MaxDepth \in Nat
  BY TopFacts
<1>3. \A i \in 1..MaxDepth : frame[i] \in Frames
  BY DEF OInv, FrameInv
<1>4. \A i \in 1..MaxDepth :
        /\ frame'[i] \in Frames
        /\ frame'[i].kind = frame[i].kind /\ frame'[i].tx = frame[i].tx
        /\ i \notin d..depth => frame'[i].expired = frame[i].expired
  <2> SUFFICES ASSUME NEW i \in 1..MaxDepth
               PROVE  /\ frame'[i] \in Frames
                      /\ frame'[i].kind = frame[i].kind /\ frame'[i].tx = frame[i].tx
                      /\ i \notin d..depth => frame'[i].expired = frame[i].expired
    OBVIOUS
  <2> DEFINE f == [frame[i] EXCEPT !.expired = TRUE]
  <2>1. f \in Frames
    BY <1>3, FrameUpdates
  <2>2. f.kind = frame[i].kind /\ f.tx = frame[i].tx
    BY <1>3 DEF Frames
  <2>3. frame'[i] = IF i \in d..depth THEN f ELSE frame[i]
    BY <1>1
  <2> HIDE DEF f
  <2>4. QED
    BY <1>3, <2>1, <2>2, <2>3
<1>5. FrameInv'
  <2>1. frame' \in [1..MaxDepth -> Frames]
    <3>1. frame' = [i \in 1..MaxDepth |-> frame'[i]]
      BY <1>1
    <3>2. QED
      BY <1>4, <3>1
  <2>2. QED
    BY <1>1, <2>1 DEF OInv, FrameInv
<1>6. SessionInv'
  BY <1>1 DEF OInv, SessionInv, WellFormed
<1>7. \A i \in 1..depth : i \in 1..MaxDepth /\ (Owner(i)' <=> Owner(i)) /\ frame'[i].tx = frame[i].tx
  BY <1>2, <1>4 DEF Owner
<1>8. \A i \in 1..depth : Owner(i) /\ frame'[i].expired => frame[i].tx \in expiredTx'
  <2> SUFFICES ASSUME NEW i \in 1..depth, Owner(i), frame'[i].expired
               PROVE  frame[i].tx \in expiredTx'
    OBVIOUS
  <2>1. CASE i \in d..depth
    BY <1>1, <2>1 DEF Owner
  <2>2. CASE i \notin d..depth
    BY <1>1, <1>4, <1>7, <2>2 DEF OInv, OwnerInv
  <2>3. QED
    BY <2>1, <2>2
<1>9. OwnerInv'
  <2>1. \A i \in 1..depth' : i \in 1..depth /\ frame'[i].tx <= txCount'
    BY <1>1, <1>7 DEF OInv, OwnerInv
  <2>2. \A i \in 1..depth' : Owner(i)' =>
          frame'[i].tx # 0 /\ (frame'[i].expired => frame'[i].tx \in expiredTx')
    <3> SUFFICES ASSUME NEW i \in 1..depth', Owner(i)'
                 PROVE  frame'[i].tx # 0 /\ (frame'[i].expired => frame'[i].tx \in expiredTx')
      OBVIOUS
    <3>1. i \in 1..depth /\ Owner(i) /\ frame'[i].tx = frame[i].tx
      BY <1>7, <2>1
    <3>2. QED
      BY <1>8, <3>1 DEF OInv, OwnerInv
  <2>3. \A i, e \in 1..depth' : Owner(i)' /\ Owner(e)' /\ frame'[i].tx = frame'[e].tx => i = e
    BY <1>7, <2>1 DEF OInv, OwnerInv
  <2>4. QED
    BY <2>1, <2>2, <2>3 DEF OwnerInv
<1>10. OpenInv'
  BY <1>1, <1>7, SMTT(30) DEF OInv, OpenInv
<1>11. QED
  BY <1>5, <1>6, <1>9, <1>10 DEF OInv

(* The rollback of an expired transaction closes one session. *)
LEMMA AwaitDoneStep ==
  ASSUME OInv, NEW tx \in 1..MaxTx, AwaitDone(tx)
  PROVE  OInv'
<1>1. /\ session' = [session EXCEPT ![tx] = NoSession]
      /\ UNCHANGED <<depth, frame, txCount, spCount, writeCount, expiredTx>>
  BY DEF AwaitDone, counters
<1>2. FrameInv'
  BY <1>1 DEF OInv, FrameInv
<1>3. SessionInv'
  BY <1>1, NewSessions DEF OInv, SessionInv
<1>4. OwnerInv'
  BY <1>1 DEF OInv, OwnerInv, Owner
<1>5. \A t \in 1..MaxTx : session'[t].open => session[t].open
  <2>1. ~NoSession.open
    BY DEF NoSession
  <2>2. \A t \in 1..MaxTx : session'[t] = IF t = tx THEN NoSession ELSE session[t]
    BY <1>1, BoundAssumption DEF OInv, SessionInv
  <2>3. QED
    BY <2>1, <2>2
<1>6. OpenInv'
  BY <1>1, <1>5 DEF OInv, OpenInv, Owner
<1>7. QED
  BY <1>2, <1>3, <1>4, <1>6 DEF OInv

-------------------------------------------------------------------------------
(* Every step preserves the invariant. *)
LEMMA OInvInductive ==
  ASSUME OInv, [Next]_vars
  PROVE  OInv'
<1>1. CASE Call
  BY <1>1, CallStep
<1>2. CASE Exec \/ ExecFails
  BY <1>2, ExecStep
<1>3. CASE Return
  BY <1>3, ReturnStep, RetryStep DEF Return
<1>4. ASSUME NEW d \in 2..MaxDepth, Expire(d)
      PROVE  OInv'
  BY <1>4, ExpireStep
<1>5. ASSUME NEW tx \in 1..MaxTx, AwaitDone(tx)
      PROVE  OInv'
  BY <1>5, AwaitDoneStep
<1>6. CASE UNCHANGED vars
  BY <1>6 DEF vars, counters, OInv, FrameInv, SessionInv, WellFormed, OwnerInv, OpenInv, Owner
<1>7. QED
  BY <1>1, <1>2, <1>3, <1>4, <1>5, <1>6 DEF Next

(* No transaction is left open at the server: whatever the txFuncs do, at   *)
(* any nesting and with any number of tries, an open transaction belongs to *)
(* exactly one running IsolatedTransaction or SerializedTransaction, or its *)
(* context is done and database/sql rolls it back.                          *)
THEOREM NoTransactionLeftOpen == Spec => []OpenIsOwned
<1>1. OInv => OpenIsOwned
  <2> SUFFICES ASSUME OInv, NEW tx \in 1..MaxTx, session[tx].open, tx \notin expiredTx
               PROVE  \E d \in 1..depth : Owns(d, tx) /\ \A e \in 1..depth : Owns(e, tx) => e = d
    BY DEF OpenIsOwned
  <2>1. PICK d \in 1..depth : Owner(d) /\ frame[d].tx = tx
    BY DEF OInv, OpenInv
  <2>2. \A e \in 1..depth : Owns(e, tx) => e = d
    BY <2>1 DEF OInv, OwnerInv, Owner, Owns
  <2>3. QED
    BY <2>1, <2>2 DEF Owner, Owns
<1>2. QED
  BY <1>1, InitOInv, OInvInductive, PTL DEF Spec

-------------------------------------------------------------------------------
(* Savepoints.  Those of TransactionSavepoint and those of nested           *)
(* sqliteconn transactions are nested on their session like the calls that  *)
(* set them, so that a release or a rollback finds its savepoint and takes  *)
(* none of an outer call away.                                              *)

(* The savepoint that the call of frame d releases or rolls back to. *)
Holds(d, name) ==
  \/ frame[d].kind = "savepoint" /\ name = frame[d].name
  \/ Owner(d) /\ Nested(frame[d - 1].tx) /\ name = frame[d].tx

Saves(tx) == session[SessionOf(tx)].saves

(* The names given to savepoints so far. *)
Known(name) == name <= txCount \/ (MaxTx < name /\ name <= MaxTx + spCount)

(* The types of the variables that are neither frames nor sessions. *)
DataInv ==
  /\ options \in [0..MaxTx -> TxOptions]
  /\ txCount \in 0..MaxTx /\ spCount \in 0..MaxSavepoints /\ writeCount \in 0..MaxWrites
  /\ unwinding \in BOOLEAN
  /\ expiredTx \in SUBSET (1..MaxTx)
  /\ durable \in SUBSET (1..MaxWrites) /\ kept \in SUBSET (1..MaxWrites)
  /\ undone \in SUBSET (1..MaxWrites) /\ failed \in SUBSET (1..MaxWrites)
  /\ returned \in [tries : 0..Retries, error : {"none", "error", "serialization", "panic"}]

(* A frame runs in the transaction of its caller, in a newer one that it    *)
(* owns, or in none.                                                        *)
ShapeInv ==
  /\ frame[1].kind = "plain" /\ frame[1].tx = 0
  /\ \A d \in 2..depth :
       /\ Owner(d) => \A e \in 1..(d - 1) : frame[e].tx < frame[d].tx
       /\ ~Owner(d) => frame[d].tx \in {0, frame[d - 1].tx}
       /\ frame[d].kind = "savepoint" => frame[d].tx # 0
       /\ frame[d].kind = "serialized" => frame[d - 1].tx = 0

(* The session of a frame is open; on a shared session the outermost        *)
(* transaction has no other below it.                                       *)
RunInv ==
  /\ SharedSession =>
       \A d \in 1..depth :
         /\ frame[d].tx # 0 => session[0].open
         /\ Owner(d) /\ frame[d - 1].tx = 0 => \A e \in 1..(d - 1) : frame[e].tx = 0
  /\ ~SharedSession =>
       /\ ~session[0].open
       /\ \A d \in 1..depth :
            frame[d].tx # 0 => session[frame[d].tx].open \/ frame[d].tx \in expiredTx

(* The savepoints of a session have names of their own. *)
Unique(s) == \A i, j \in DOMAIN s.saves : s.saves[i].name = s.saves[j].name => i = j

NamesInv ==
  \A tx \in 0..MaxTx :
    /\ ~session[tx].open => session[tx].saves = <<>> /\ session[tx].writes = {}
    /\ \A i \in DOMAIN session[tx].saves : Known(session[tx].saves[i].name)
    /\ Unique(session[tx])

(* The savepoint of a frame is on its session. *)
HeldInv ==
  \A d \in 1..depth : \A name \in Nat :
    Holds(d, name) /\ Session(frame[d].tx).open =>
      \E i \in DOMAIN Saves(frame[d].tx) : Saves(frame[d].tx)[i].name = name

(* Savepoints are nested like the calls. *)
OrderInv ==
  \A d, e \in 1..depth : \A n, m \in Nat :
    /\ d < e /\ SessionOf(frame[d].tx) = SessionOf(frame[e].tx)
    /\ Holds(d, n) /\ Holds(e, m)
    => \A i, j \in DOMAIN Saves(frame[d].tx) :
         Saves(frame[d].tx)[i].name = n /\ Saves(frame[d].tx)[j].name = m => i < j

NestInv == NamesInv /\ HeldInv /\ OrderInv

SInv ==
  /\ OInv /\ DataInv
  /\ session \in [0..MaxTx -> Sessions]
  /\ ShapeInv /\ RunInv /\ NestInv

-------------------------------------------------------------------------------
(* What statements do to a session with distinct names of savepoints. *)

SaveRecords == [name : Nat, at : Nat]

(* The last of l + 1 places is after every other one. *)
LEMMA LastIndex ==
  ASSUME NEW l \in Nat, NEW i \in 1..(l + 1), NEW j \in 1..(l + 1), i # l + 1, j \notin 1..l
  PROVE  i < j
OBVIOUS

(* The order of the savepoints of two calls, read from the invariant and    *)
(* shown for the next state.                                                *)
LEMMA OrderNow ==
  ASSUME SInv,
         NEW d \in 1..depth, NEW e \in 1..depth, NEW n \in Nat, NEW m \in Nat,
         d < e, SessionOf(frame[d].tx) = SessionOf(frame[e].tx), Holds(d, n), Holds(e, m),
         NEW i \in DOMAIN session[SessionOf(frame[d].tx)].saves,
         NEW j \in DOMAIN session[SessionOf(frame[d].tx)].saves,
         session[SessionOf(frame[d].tx)].saves[i].name = n,
         session[SessionOf(frame[d].tx)].saves[j].name = m
  PROVE  i < j
BY DEF SInv, NestInv, OrderInv, Saves

LEMMA OrderNext ==
  ASSUME \A d, e \in 1..depth' : \A n, m \in Nat :
           /\ d < e /\ SessionOf(frame'[d].tx) = SessionOf(frame'[e].tx)
           /\ Holds(d, n)' /\ Holds(e, m)'
           => \A i, j \in DOMAIN session'[SessionOf(frame'[d].tx)].saves :
                /\ session'[SessionOf(frame'[d].tx)].saves[i].name = n
                /\ session'[SessionOf(frame'[d].tx)].saves[j].name = m
                => i < j
  PROVE  OrderInv'
BY DEF OrderInv, Saves, SessionOf

(* The fields of a session. *)
LEMMA SessionFields ==
  ASSUME NEW s \in Sessions
  PROVE  /\ s.open \in BOOLEAN /\ s.aborted \in BOOLEAN /\ s.readOnly \in BOOLEAN
         /\ s.writes \in SUBSET (1..MaxWrites)
         /\ s.saves \in Seq(SaveRecords) /\ Len(s.saves) \in Nat
         /\ DOMAIN s.saves = 1..Len(s.saves)
         /\ \A i \in DOMAIN s.saves : s.saves[i] \in SaveRecords /\ s.saves[i].name \in Nat
                                      /\ s.saves[i].at \in Nat
<1>1. /\ s.open \in BOOLEAN /\ s.aborted \in BOOLEAN /\ s.readOnly \in BOOLEAN
      /\ s.writes \in SUBSET (1..MaxWrites)
      /\ s.saves \in Seq(SaveRecords)
  BY DEF Sessions, SaveRecords
<1>2. Len(s.saves) \in Nat /\ DOMAIN s.saves = 1..Len(s.saves)
  BY <1>1, LenProperties
<1>3. \A i \in DOMAIN s.saves : s.saves[i] \in SaveRecords
  BY <1>1, LenProperties
<1>4. QED
  BY <1>1, <1>2, <1>3 DEF SaveRecords

(* A savepoint with a name of its own is the latest of that name. *)
LEMMA LatestIsOnly ==
  ASSUME NEW s \in Sessions, Unique(s), NEW i \in DOMAIN s.saves
  PROVE  LatestSave(s, s.saves[i].name) = i
<1> DEFINE name == s.saves[i].name
<1>1. Saved(s, name) = {i}
  BY DEF Saved, Unique
<1>2. i \in Saved(s, name) /\ \A j \in Saved(s, name) : j <= i
  BY <1>1, SessionFields
<1>3. \A k \in Saved(s, name) : (\A j \in Saved(s, name) : j <= k) => k = i
  BY <1>1
<1> HIDE DEF name
<1>4. QED
  BY <1>2, <1>3 DEF LatestSave, name

(* A prefix of the savepoints remains. *)
Prefix(s, r, n) ==
  /\ n \in 0..Len(s.saves) /\ Len(r.saves) = n
  /\ \A j \in 1..n : r.saves[j] = s.saves[j]

(* The first n savepoints of a session. *)
LEMMA PrefixOfSaves ==
  ASSUME NEW s \in Sessions, NEW n \in 0..Len(s.saves)
  PROVE  /\ SubSeq(s.saves, 1, n) \in Seq(SaveRecords)
         /\ Len(SubSeq(s.saves, 1, n)) = n
         /\ \A j \in 1..n : SubSeq(s.saves, 1, n)[j] = s.saves[j]
<1>1. Len(s.saves) \in Nat /\ \A j \in 1..n : s.saves[j] \in SaveRecords
  BY SessionFields
<1>2. 1 \in Int /\ n \in Int /\ n \in Nat
  BY <1>1
<1>3. QED
  BY <1>1, <1>2, SubSeqProperties

(* ROLLBACK TO keeps the savepoint and those before it. *)
LEMMA RolledBackToFacts ==
  ASSUME NEW s \in Sessions, Unique(s), NEW i \in DOMAIN s.saves
  PROVE  LET r == RolledBackTo(s, s.saves[i].name) IN
         /\ r \in Sessions /\ r.open = s.open /\ r.readOnly = s.readOnly
         /\ r.writes = {w \in s.writes : w < s.saves[i].at}
         /\ Prefix(s, r, i)
<1>1. i \in 0..Len(s.saves)
  BY SessionFields
<1> DEFINE ws == {w \in s.writes : w < s.saves[i].at}
           sv == SubSeq(s.saves, 1, i)
           r  == [open |-> s.open, aborted |-> FALSE, readOnly |-> s.readOnly,
                  writes |-> ws, saves |-> sv]
<1>2. RolledBackTo(s, s.saves[i].name) = r
  <2>1. LatestSave(s, s.saves[i].name) = i
    BY LatestIsOnly
  <2>2. RolledBackTo(s, s.saves[i].name) =
          [s EXCEPT !.aborted = FALSE, !.writes = ws, !.saves = sv]
    <3> DEFINE r1 == [s EXCEPT !.aborted = FALSE]
               r2 == [r1 EXCEPT !.writes = ws]
    <3>1. s.writes = r1.writes /\ s.saves = r2.saves
      BY DEF Sessions
    <3>2. QED
      BY <2>1, <3>1 DEF RolledBackTo
  <2> HIDE DEF ws, sv
  <2>3. QED
    BY <2>2 DEF Sessions
<1>3. ws \in SUBSET (1..MaxWrites)
  BY SessionFields
<1>4. sv \in Seq(SaveRecords) /\ Len(sv) = i /\ \A j \in 1..i : sv[j] = s.saves[j]
  BY <1>1, PrefixOfSaves
<1> HIDE DEF ws, sv
<1>5. r \in Sessions
  BY <1>3, <1>4, SessionFields DEF Sessions, SaveRecords
<1>6. Prefix(s, r, i)
  BY <1>1, <1>4 DEF Prefix
<1>7. QED
  BY <1>2, <1>5, <1>6 DEF ws

(* RELEASE keeps the savepoints before it. *)
LEMMA ReleasedFacts ==
  ASSUME NEW s \in Sessions, Unique(s), NEW i \in DOMAIN s.saves
  PROVE  LET r == Released(s, s.saves[i].name) IN
         /\ r \in Sessions /\ r.open = s.open /\ r.readOnly = s.readOnly
         /\ r.writes = s.writes
         /\ Prefix(s, r, i - 1)
<1>1. i - 1 \in 0..Len(s.saves)
  BY SessionFields
<1> DEFINE sv == SubSeq(s.saves, 1, i - 1)
           r  == [open |-> s.open, aborted |-> s.aborted, readOnly |-> s.readOnly,
                  writes |-> s.writes, saves |-> sv]
<1>2. Released(s, s.saves[i].name) = r
  <2>1. LatestSave(s, s.saves[i].name) = i
    BY LatestIsOnly
  <2>2. Released(s, s.saves[i].name) = [s EXCEPT !.saves = sv]
    BY <2>1 DEF Released
  <2> HIDE DEF sv
  <2>3. QED
    BY <2>2 DEF Sessions
<1>3. sv \in Seq(SaveRecords) /\ Len(sv) = i - 1 /\ \A j \in 1..(i - 1) : sv[j] = s.saves[j]
  BY <1>1, PrefixOfSaves
<1> HIDE DEF sv
<1>4. r \in Sessions
  BY <1>3, SessionFields DEF Sessions, SaveRecords
<1>5. Prefix(s, r, i - 1)
  BY <1>1, <1>3 DEF Prefix
<1>6. QED
  BY <1>2, <1>4, <1>5

(* SAVEPOINT adds one after the others. *)
LEMMA WithSavepointFacts ==
  ASSUME NEW s \in Sessions, NEW name \in Nat, NEW at \in Nat
  PROVE  LET r == WithSavepoint(s, name, at) IN
         /\ r \in Sessions /\ r.open = s.open /\ r.readOnly = s.readOnly
         /\ r.writes = s.writes
         /\ Len(r.saves) = Len(s.saves) + 1
         /\ \A j \in 1..Len(s.saves) : r.saves[j] = s.saves[j]
         /\ r.saves[Len(s.saves) + 1] = [name |-> name, at |-> at]
<1> DEFINE rec == [name |-> name, at |-> at]
           sv == Append(s.saves, rec)
           r  == [open |-> s.open, aborted |-> s.aborted, readOnly |-> s.readOnly,
                  writes |-> s.writes, saves |-> sv]
<1>1. WithSavepoint(s, name, at) = r
  <2>1. WithSavepoint(s, name, at) = [s EXCEPT !.saves = sv]
    BY DEF WithSavepoint
  <2> HIDE DEF sv
  <2>2. QED
    BY <2>1 DEF Sessions
<1>2. rec \in SaveRecords /\ s.saves \in Seq(SaveRecords)
  BY SessionFields DEF SaveRecords
<1> HIDE DEF rec
<1>3. /\ sv \in Seq(SaveRecords) /\ Len(sv) = Len(s.saves) + 1
      /\ \A j \in 1..Len(s.saves) : sv[j] = s.saves[j]
      /\ sv[Len(s.saves) + 1] = rec
  BY <1>2, AppendProperties
<1> HIDE DEF sv
<1>4. r \in Sessions
  BY <1>3, SessionFields DEF Sessions, SaveRecords
<1>5. QED
  BY <1>1, <1>3, <1>4 DEF rec

(* Writes, and statements that fail, keep the savepoints. *)
LEMMA StatementFacts ==
  ASSUME NEW s \in Sessions, NEW w \in 1..MaxWrites
  PROVE  /\ Written(s, w) \in Sessions /\ Written(s, w).open = s.open
         /\ Written(s, w).saves = s.saves /\ Written(s, w).writes = s.writes \cup {w}
<1> DEFINE ws == s.writes \cup {w}
           r == [open |-> s.open, aborted |-> s.aborted, readOnly |-> s.readOnly,
                 writes |-> ws, saves |-> s.saves]
<1>1. Written(s, w) = r
  <2>1. Written(s, w) = [s EXCEPT !.writes = ws]
    BY DEF Written
  <2> HIDE DEF ws
  <2>2. QED
    BY <2>1 DEF Sessions
<1>2. ws \in SUBSET (1..MaxWrites)
  BY SessionFields
<1> HIDE DEF ws
<1>3. r \in Sessions
  BY <1>2, SessionFields DEF Sessions, SaveRecords
<1>4. QED
  BY <1>1, <1>3 DEF ws

LEMMA AbortedFacts ==
  ASSUME NEW s \in Sessions
  PROVE  LET r == [s EXCEPT !.aborted = TRUE] IN
         /\ r \in Sessions /\ r.open = s.open /\ r.saves = s.saves /\ r.writes = s.writes
BY DEF Sessions

LEMMA NewSessionFacts ==
  ASSUME NEW readOnly \in BOOLEAN
  PROVE  /\ NoSession \in Sessions /\ ~NoSession.open
         /\ NoSession.saves = <<>> /\ NoSession.writes = {}
         /\ Begun(readOnly) \in Sessions /\ Begun(readOnly).open
         /\ Begun(readOnly).saves = <<>> /\ Begun(readOnly).writes = {}
<1>1. <<>> \in Seq(SaveRecords)
  BY EmptySeq
<1>2. NoSession \in Sessions
  BY <1>1 DEF NoSession, Sessions, SaveRecords
<1>3. Begun(readOnly) = [open |-> TRUE, aborted |-> FALSE, readOnly |-> readOnly,
                         writes |-> {}, saves |-> <<>>]
  <2> DEFINE s1 == [NoSession EXCEPT !.open = TRUE]
  <2>1. Begun(readOnly) = [s1 EXCEPT !.readOnly = readOnly]
    BY DEF Begun
  <2>2. NoSession.aborted = FALSE /\ NoSession.writes = {} /\ NoSession.saves = <<>>
    BY DEF NoSession
  <2>3. s1 \in Sessions
    BY <1>2 DEF Sessions
  <2>4. s1.open = TRUE /\ s1.aborted = FALSE /\ s1.writes = {} /\ s1.saves = <<>>
    BY <1>2, <2>2 DEF Sessions
  <2> HIDE DEF s1
  <2>5. [s1 EXCEPT !.readOnly = readOnly] =
          [open |-> s1.open, aborted |-> s1.aborted, readOnly |-> readOnly,
           writes |-> s1.writes, saves |-> s1.saves]
    BY <2>3 DEF Sessions
  <2>6. QED
    BY <2>1, <2>4, <2>5
<1>4. Begun(readOnly) \in Sessions
  BY <1>1, <1>3 DEF Sessions, SaveRecords
<1>5. QED
  BY <1>2, <1>3, <1>4 DEF NoSession

-------------------------------------------------------------------------------
(* What calls and returns do to the frames. *)

SameCall(d) ==
  /\ frame'[d].kind = frame[d].kind
  /\ frame'[d].tx = frame[d].tx
  /\ frame'[d].name = frame[d].name

(* The frames and counters have their types. *)
LEMMA FrameFacts ==
  ASSUME OInv
  PROVE  /\ depth \in 1..MaxDepth /\ depth \in Nat /\ MaxDepth \in Nat
         /\ \A d \in 1..depth : /\ frame[d] \in Frames /\ frame[d].kind \in Kinds
                                /\ frame[d].tx \in 0..MaxTx /\ frame[d].name \in Nat
                                /\ frame[d].writes \in SUBSET (1..MaxWrites)
                                /\ frame[d].tries \in 0..Retries
                                /\ SessionOf(frame[d].tx) \in 0..MaxTx
<1>1. depth \in 1..MaxDepth /\ depth \in Nat /\ MaxDepth \in Nat
  BY BoundAssumption DEF OInv, FrameInv
<1>2. \A d \in 1..depth : frame[d] \in Frames
  BY <1>1 DEF OInv, FrameInv
<1>3. \A d \in 1..depth : SessionOf(frame[d].tx) \in 0..MaxTx
  BY <1>2, BoundAssumption DEF SessionOf, Frames
<1>4. QED
  BY <1>1, <1>2, <1>3 DEF Frames

(* A return changes the writes of the caller. *)
LEMMA PopFrames ==
  ASSUME OInv, depth > 1, NEW ws \in SUBSET (1..MaxWrites), Pop(ws)
  PROVE  /\ depth' = depth - 1 /\ depth' \in 1..depth
         /\ \A d \in 1..depth' :
              /\ d \in 1..depth /\ SameCall(d)
              /\ frame'[d].writes = IF d = depth - 1 THEN frame[d].writes \cup ws
                                                     ELSE frame[d].writes
<1>1. /\ depth' = depth - 1 /\ depth' \in 1..depth
      /\ \A d \in 1..depth' : d \in 1..depth /\ d \in 1..MaxDepth /\ d # depth
  BY FrameFacts DEF Pop
<1> DEFINE g == [frame EXCEPT ![depth] = NoFrame]
           f == [frame[depth - 1] EXCEPT !.writes = frame[depth - 1].writes \cup ws]
<1>2. depth - 1 \in 1..depth /\ depth - 1 \in 1..MaxDepth /\ depth - 1 # depth
  BY FrameFacts
<1>3. /\ f.kind = frame[depth - 1].kind /\ f.tx = frame[depth - 1].tx
      /\ f.name = frame[depth - 1].name
      /\ f.writes = frame[depth - 1].writes \cup ws
  BY <1>2, FrameFacts DEF Frames
<1>4. frame' = [g EXCEPT ![depth - 1] = f]
  <2>1. g[depth - 1] = frame[depth - 1]
    BY <1>2 DEF OInv, FrameInv
  <2>2. frame' = [g EXCEPT ![depth - 1].writes = frame[depth - 1].writes \cup ws]
    BY DEF Pop
  <2>3. frame' = [g EXCEPT ![depth - 1] = [g[depth - 1] EXCEPT !.writes = frame[depth - 1].writes \cup ws]]
    <3> HIDE DEF g
    <3>1. QED
      BY <2>2
  <2>4. QED
    BY <2>1, <2>3
<1>5. DOMAIN g = 1..MaxDepth /\ \A d \in 1..MaxDepth : d # depth => g[d] = frame[d]
  BY DEF OInv, FrameInv
<1> HIDE DEF f, g
<1>6. \A d \in 1..depth' : frame'[d] = IF d = depth - 1 THEN f ELSE frame[d]
  BY <1>1, <1>2, <1>4, <1>5
<1>7. QED
  BY <1>1, <1>3, <1>6 DEF SameCall

(* A call adds a frame. *)
LEMMA PushFrames ==
  ASSUME OInv, depth < MaxDepth, NEW f \in Frames, Push(f)
  PROVE  /\ depth' = depth + 1 /\ frame'[depth + 1] = f
         /\ \A d \in 1..depth' : d = depth + 1 \/ d \in 1..depth
         /\ \A d \in 1..depth : d \in 1..depth' /\ frame'[d] = frame[d]
BY FrameFacts DEF Push, OInv, FrameInv

(* Calls pass through, begin a transaction or set a savepoint. *)
LEMMA CallKinds ==
  ASSUME SInv, Call
  PROVE  /\ depth < MaxDepth
         /\ \/ \E f \in Frames :
                 /\ Direct(f) /\ f.kind \in {"plain", "pass", "serializedPass"}
                 /\ f.tx \in {0, Top.tx} /\ f.writes = {}
            \/ \E f \in Frames, opts \in TxOptions :
                 /\ BeginFrame(f, opts) /\ f.kind \in {"own", "serialized"}
                 /\ f.kind = "serialized" => Top.tx = 0
                 /\ f.writes = {} /\ f.expired = Top.expired
            \/ TransactionSavepoint
<1>1. FrameInv
  BY DEF SInv, OInv
<1>2. /\ {"plain", "pass", "serializedPass", "own", "serialized", "savepoint"} \subseteq Kinds
      /\ 0 \in 0..MaxTx
  BY BoundAssumption DEF Kinds
<1>3. ASSUME NEW kind \in Kinds
      PROVE  /\ Inner(kind) \in Frames /\ Inner(kind).kind = kind
             /\ Inner(kind).tx = Top.tx /\ Inner(kind).expired = Top.expired
             /\ Inner(kind).writes = {}
  <2>1. Inner(kind) \in Frames /\ Inner(kind).kind = kind /\ Top \in Frames
        /\ Inner(kind).tx = Top.tx /\ Inner(kind).expired = Top.expired
    BY <1>1, InnerFrame
  <2>2. Inner(kind).writes = {}
    BY <2>1 DEF Inner, Frames
  <2>3. QED
    BY <2>1, <2>2
<1>4. depth < MaxDepth
  BY DEF Call, Transaction, IsolatedTransaction, SerializedTransaction, TransactionSavepoint,
         WithoutTransactions, WithGlobalConn, CanCall
<1>5. ASSUME NEW opts \in Asked \cup {NilOptions}, Transaction(opts)
      PROVE  \/ Direct(Inner("plain")) \/ Direct(Inner("pass"))
             \/ BeginFrame(Inner("own"), opts) /\ opts \in TxOptions
  BY <1>5 DEF Transaction, TxOptions
<1>6. CASE IsolatedTransaction
  BY <1>2, <1>3, <1>4, <1>6 DEF IsolatedTransaction, TxOptions
<1>7. CASE SerializedTransaction
  <2> DEFINE f1 == [Inner("serialized") EXCEPT !.serial = TRUE]
             f  == [Inner("serialized") EXCEPT !.serial = TRUE, !.tries = 1]
  <2>1. CASE Direct(Inner("serializedPass"))
    BY <1>2, <1>3, <1>4, <2>1
  <2>2. CASE Top.tx = 0 /\ Retries > 0 /\ BeginFrame(f, SerializableOptions)
    <3>1. Inner("serialized") \in Frames
      BY <1>2, <1>3
    <3>2. f1 \in Frames /\ f = [f1 EXCEPT !.tries = 1]
      BY <3>1, FrameUpdates
    <3>3. [f1 EXCEPT !.tries = 1] \in Frames
      <4>1. 1 \in 0..Retries
        BY <2>2, BoundAssumption
      <4> HIDE DEF f1
      <4>2. QED
        BY <3>2, <4>1, FrameUpdates
    <3>4. f.kind = "serialized" /\ f.writes = {} /\ f.expired = Top.expired
      BY <1>2, <1>3 DEF Frames
    <3>5. f \in Frames
      BY <3>2, <3>3
    <3>6. SerializableOptions \in TxOptions
      BY DEF TxOptions
    <3> HIDE DEF f, f1
    <3>7. BeginFrame(f, SerializableOptions)
      BY <2>2
    <3>8. QED
      BY <1>4, <2>2, <3>4, <3>5, <3>6, <3>7
  <2>3. QED
    BY <1>7, <2>1, <2>2 DEF SerializedTransaction
<1>8. CASE WithoutTransactions
  <2> DEFINE f == [Inner("plain") EXCEPT !.noTx = TRUE]
  <2>1. Direct(f)
    BY <1>8 DEF WithoutTransactions
  <2>2. Inner("plain") \in Frames
    BY <1>2, <1>3
  <2>3. f \in Frames
    BY <2>2, FrameUpdates
  <2>4. f.kind = "plain" /\ f.tx = Top.tx /\ f.writes = {}
    BY <1>2, <1>3 DEF Frames
  <2> HIDE DEF f
  <2>5. QED
    BY <1>4, <2>1, <2>3, <2>4
<1>9. CASE WithGlobalConn
  <2> DEFINE f == [Inner("plain") EXCEPT !.tx = 0]
  <2>1. Direct(f)
    BY <1>9 DEF WithGlobalConn
  <2>2. f \in Frames /\ f.kind = "plain" /\ f.tx = 0 /\ f.writes = {}
    BY <1>2, <1>3, FrameUpdates DEF Frames
  <2> HIDE DEF f
  <2>3. QED
    BY <1>4, <2>1, <2>2
<1>10. CASE \E opts \in Asked \cup {NilOptions} : Transaction(opts)
  BY <1>2, <1>3, <1>4, <1>5, <1>10
<1>11. QED
  BY <1>4, <1>6, <1>7, <1>8, <1>9, <1>10 DEF Call

(* The frame of a call that begins a transaction, and its session. *)
LEMMA BegunFacts ==
  ASSUME SInv, depth < MaxDepth, NEW f \in Frames, NEW opts, BeginFrame(f, opts)
  PROVE  LET t == txCount + 1 IN
         /\ t \in 1..MaxTx /\ txCount \in 0..MaxTx /\ txCount' = t
         /\ depth' = depth + 1 /\ frame'[depth + 1] = [f EXCEPT !.tx = t]
         /\ [f EXCEPT !.tx = t] \in Frames
         /\ [f EXCEPT !.tx = t].kind = f.kind /\ [f EXCEPT !.tx = t].tx = t
         /\ [f EXCEPT !.tx = t].name = f.name /\ [f EXCEPT !.tx = t].writes = f.writes
         /\ \A d \in 1..depth' : d = depth + 1 \/ d \in 1..depth
         /\ \A d \in 1..depth : d \in 1..depth' /\ frame'[d] = frame[d] /\ frame[d].tx < t
         /\ options' = [options EXCEPT ![t] = opts]
         /\ UNCHANGED <<spCount, writeCount, unwinding, expiredTx, durable, history>>
<1> DEFINE t == txCount + 1
           g == [f EXCEPT !.tx = t]
<1>1. /\ txCount' = t /\ t \in 1..MaxTx /\ txCount \in 0..MaxTx /\ t \in 0..MaxTx
  BY BoundAssumption DEF BeginFrame, Begin, SInv, OInv, FrameInv
<1>2. g \in Frames /\ g.kind = f.kind /\ g.tx = t /\ g.name = f.name /\ g.writes = f.writes
  <2>1. g \in Frames
    BY <1>1, FrameUpdates
  <2>2. QED
    BY <2>1 DEF Frames
<1>3. Push(g)
  BY DEF BeginFrame
<1>4. \A d \in 1..depth : frame[d].tx < t
  <2>1. \A d \in 1..depth : frame[d].tx \in 0..MaxTx /\ frame[d].tx <= txCount
    BY FrameFacts DEF SInv, OInv, OwnerInv
  <2>2. QED
    BY <1>1, <2>1
<1> HIDE DEF g
<1>5. /\ depth' = depth + 1 /\ frame'[depth + 1] = g
      /\ \A d \in 1..depth' : d = depth + 1 \/ d \in 1..depth
      /\ \A d \in 1..depth : d \in 1..depth' /\ frame'[d] = frame[d]
  BY <1>2, <1>3, PushFrames DEF SInv
<1>6. /\ options' = [options EXCEPT ![t] = opts]
      /\ UNCHANGED <<spCount, writeCount, unwinding, expiredTx, durable, history>>
  BY DEF BeginFrame, Begin
<1>7. QED
  BY <1>1, <1>2, <1>4, <1>5, <1>6 DEF g

-------------------------------------------------------------------------------
(* Steps that keep the nesting. *)

(* A savepoint of a frame that stays is the one it was. *)
LEMMA SameHolds ==
  ASSUME SInv, NEW k \in 0..depth, \A d \in 1..k : SameCall(d)
  PROVE  \A d \in 1..k : /\ d \in 1..depth
                         /\ SessionOf(frame'[d].tx) = SessionOf(frame[d].tx)
                         /\ \A name : Holds(d, name)' <=> Holds(d, name)
<1>1. \A d \in 1..k : d \in 1..depth /\ (d # 1 => d - 1 \in 1..k)
  BY FrameFacts DEF SInv
<1> SUFFICES ASSUME NEW d \in 1..k, NEW name
             PROVE  /\ d \in 1..depth
                    /\ SessionOf(frame'[d].tx) = SessionOf(frame[d].tx)
                    /\ Holds(d, name)' <=> Holds(d, name)
  OBVIOUS
<1>2. SameCall(d) /\ (d # 1 => SameCall(d - 1))
  BY <1>1
<1>3. Owner(d) => d # 1
  BY DEF SInv, ShapeInv, Owner
<1>4. QED
  BY <1>1, <1>2, <1>3 DEF Holds, Owner, SameCall, SessionOf, Nested

(* What remains of a session: nothing, or the savepoints of the frames that *)
(* stay, and possibly some after them.                                      *)
Remains(tx) ==
  \/ session'[tx] = NoSession
  \/ session'[tx] = session[tx]
  \/ /\ session'[tx].open /\ session[tx].open
     /\ \E n \in 0..Len(session[tx].saves) :
          /\ Prefix(session[tx], session'[tx], n)
          /\ \A d \in 1..depth' : \A name \in Nat : \A i \in DOMAIN session[tx].saves :
               SessionOf(frame[d].tx) = tx /\ Holds(d, name) /\ session[tx].saves[i].name = name
               => i <= n

LEMMA RemainsFacts ==
  ASSUME SInv, session' \in [0..MaxTx -> Sessions], NEW tx \in 0..MaxTx, Remains(tx)
  PROVE  /\ session'[tx].open => session[tx].open
         /\ \A i \in DOMAIN session'[tx].saves :
              i \in DOMAIN session[tx].saves /\ session'[tx].saves[i] = session[tx].saves[i]
         /\ session'[tx].open => \A d \in 1..depth' : \A name \in Nat :
              \A i \in DOMAIN session[tx].saves :
                SessionOf(frame[d].tx) = tx /\ Holds(d, name) /\ session[tx].saves[i].name = name
                => i \in DOMAIN session'[tx].saves
         /\ ~session'[tx].open => session'[tx].saves = <<>> /\ session'[tx].writes = {}
<1>1. session[tx] \in Sessions /\ session'[tx] \in Sessions
  BY DEF SInv
<1>2. /\ DOMAIN session[tx].saves = 1..Len(session[tx].saves) /\ Len(session[tx].saves) \in Nat
      /\ DOMAIN session'[tx].saves = 1..Len(session'[tx].saves) /\ Len(session'[tx].saves) \in Nat
  BY <1>1, SessionFields
<1>3. CASE session'[tx] = NoSession
  <2>1. /\ ~session'[tx].open /\ session'[tx].saves = <<>> /\ session'[tx].writes = {}
    BY <1>3, NewSessionFacts
  <2>2. DOMAIN session'[tx].saves = {}
    BY <2>1
  <2>3. QED
    BY <2>1, <2>2
<1>4. CASE session'[tx] = session[tx]
  BY <1>4 DEF SInv, NestInv, NamesInv
<1>5. CASE /\ session'[tx].open /\ session[tx].open
           /\ \E n \in 0..Len(session[tx].saves) :
                /\ Prefix(session[tx], session'[tx], n)
                /\ \A d \in 1..depth' : \A name \in Nat : \A i \in DOMAIN session[tx].saves :
                     SessionOf(frame[d].tx) = tx /\ Holds(d, name)
                     /\ session[tx].saves[i].name = name => i <= n
  <2>1. PICK n \in 0..Len(session[tx].saves) :
          /\ Prefix(session[tx], session'[tx], n)
          /\ \A d \in 1..depth' : \A name \in Nat : \A i \in DOMAIN session[tx].saves :
               SessionOf(frame[d].tx) = tx /\ Holds(d, name)
               /\ session[tx].saves[i].name = name => i <= n
    BY <1>5
  <2>2. /\ DOMAIN session'[tx].saves = 1..n
        /\ \A i \in 1..n : i \in DOMAIN session[tx].saves /\ session'[tx].saves[i] = session[tx].saves[i]
        /\ \A i \in DOMAIN session[tx].saves : i <= n => i \in 1..n
    BY <1>2, <2>1 DEF Prefix
  <2>3. QED
    BY <1>5, <2>1, <2>2
<1>6. QED
  BY <1>3, <1>4, <1>5 DEF Remains

(* A step in which frames and savepoints only go away keeps the nesting of  *)
(* the others, if it takes none away from a frame that stays.               *)
LEMMA PruneStep ==
  ASSUME SInv, depth' \in 1..depth, \A d \in 1..depth' : SameCall(d),
         UNCHANGED <<txCount, spCount>>,
         session' \in [0..MaxTx -> Sessions], \A tx \in 0..MaxTx : Remains(tx)
  PROVE  NestInv'
<1>1. \A d \in 1..depth' : /\ d \in 1..depth
                           /\ SessionOf(frame'[d].tx) = SessionOf(frame[d].tx)
                           /\ SessionOf(frame[d].tx) \in 0..MaxTx
                           /\ \A name : Holds(d, name)' <=> Holds(d, name)
  <2>1. depth' \in 0..depth
    BY FrameFacts DEF SInv
  <2>2. QED
    BY <2>1, SameHolds, FrameFacts DEF SInv
<1>2. NamesInv'
  <2> SUFFICES ASSUME NEW tx \in 0..MaxTx
               PROVE  /\ ~session'[tx].open => session'[tx].saves = <<>> /\ session'[tx].writes = {}
                      /\ \A i \in DOMAIN session'[tx].saves : Known(session[tx].saves[i].name)'
                      /\ Unique(session[tx])'
    BY DEF NamesInv
  <2>1. \A i \in DOMAIN session'[tx].saves :
              i \in DOMAIN session[tx].saves /\ session'[tx].saves[i] = session[tx].saves[i]
    BY RemainsFacts
  <2>2. \A i \in DOMAIN session[tx].saves : Known(session[tx].saves[i].name)
    BY DEF SInv, NestInv, NamesInv
  <2>3. Unique(session[tx])
    BY DEF SInv, NestInv, NamesInv
  <2>4. \A i \in DOMAIN session'[tx].saves : Known(session[tx].saves[i].name)'
    BY <2>1, <2>2 DEF Known
  <2>5. Unique(session[tx])'
    BY <2>1, <2>3 DEF Unique
  <2>6. QED
    BY <2>4, <2>5, RemainsFacts
<1>3. HeldInv'
  <2> SUFFICES ASSUME NEW d \in 1..depth', NEW name \in Nat, Holds(d, name)',
                      session'[SessionOf(frame'[d].tx)].open
               PROVE  \E i \in DOMAIN session'[SessionOf(frame'[d].tx)].saves :
                        session'[SessionOf(frame'[d].tx)].saves[i].name = name
    BY DEF HeldInv, Session, Saves, SessionOf
  <2> DEFINE tx == SessionOf(frame[d].tx)
  <2>1. /\ d \in 1..depth /\ Holds(d, name) /\ tx \in 0..MaxTx
        /\ session'[tx].open /\ SessionOf(frame'[d].tx) = tx
    BY <1>1
  <2>2. session[tx].open
    BY <2>1, RemainsFacts
  <2>3. PICK i \in DOMAIN session[tx].saves : session[tx].saves[i].name = name
    BY <2>1, <2>2 DEF SInv, NestInv, HeldInv, Session, Saves
  <2> HIDE DEF tx
  <2>4. i \in DOMAIN session'[tx].saves /\ session'[tx].saves[i] = session[tx].saves[i]
    BY SMTT(30), <2>1, <2>3, RemainsFacts DEF tx
  <2>5. QED
    BY <2>1, <2>3, <2>4
<1>4. OrderInv'
  <2> SUFFICES ASSUME NEW d \in 1..depth', NEW e \in 1..depth', NEW n \in Nat, NEW m \in Nat,
                      d < e, SessionOf(frame'[d].tx) = SessionOf(frame'[e].tx),
                      Holds(d, n)', Holds(e, m)',
                      NEW i \in DOMAIN session'[SessionOf(frame'[d].tx)].saves,
                      NEW j \in DOMAIN session'[SessionOf(frame'[d].tx)].saves,
                      session'[SessionOf(frame'[d].tx)].saves[i].name = n,
                      session'[SessionOf(frame'[d].tx)].saves[j].name = m
               PROVE  i < j
    BY OrderNext
  <2> DEFINE tx == SessionOf(frame[d].tx)
  <2>1. /\ d \in 1..depth /\ e \in 1..depth /\ Holds(d, n) /\ Holds(e, m) /\ tx \in 0..MaxTx
        /\ SessionOf(frame'[d].tx) = tx /\ tx = SessionOf(frame[e].tx)
    BY <1>1
  <2> HIDE DEF tx
  <2>2. /\ i \in DOMAIN session[tx].saves /\ session[tx].saves[i].name = n
        /\ j \in DOMAIN session[tx].saves /\ session[tx].saves[j].name = m
    BY <2>1, RemainsFacts
  <2>3. QED
    BY <2>1, <2>2, OrderNow DEF tx
<1>5. QED
  BY <1>2, <1>3, <1>4 DEF NestInv

(* A session that is new has no savepoint, and no frame had one on it. *)
Renewed(tx, k) ==
  \/ session'[tx] = session[tx]
  \/ /\ \/ session'[tx].open /\ session'[tx].saves = <<>>
        \/ session'[tx] = NoSession
     /\ \A d \in 1..k : \A name \in Nat : Holds(d, name) => SessionOf(frame[d].tx) # tx

(* Transactions and savepoints are numbered upwards, so names stay known.   *)
CountersGrow ==
  /\ txCount' \in Nat /\ txCount <= txCount'
  /\ spCount' \in Nat /\ spCount <= spCount'

LEMMA SumGrows ==
  ASSUME NEW a \in Nat, NEW b \in Nat, NEW c \in Nat, NEW n \in Nat, a <= b, n <= c + a
  PROVE  n <= c + b
OBVIOUS

LEMMA KnownGrows ==
  ASSUME SInv, CountersGrow
  PROVE  \A name \in Nat : Known(name) => Known(name)'
<1>1. /\ txCount \in Nat /\ spCount \in Nat /\ MaxTx \in Nat
      /\ txCount' \in Nat /\ spCount' \in Nat
      /\ txCount <= txCount' /\ spCount <= spCount'
  BY BoundAssumption DEF SInv, DataInv, CountersGrow
<1>2. ASSUME NEW name \in Nat, Known(name)
      PROVE  Known(name)'
  <2>1. CASE name <= txCount
    <3>1. name <= txCount'
      BY <1>1, <2>1
    <3>2. QED
      BY <3>1 DEF Known
  <2>2. CASE MaxTx < name /\ name <= MaxTx + spCount
    <3>1. MaxTx < name /\ name <= MaxTx + spCount'
      BY <1>1, <2>2, SumGrows
    <3>2. QED
      BY <3>1 DEF Known
  <2>3. QED
    BY <1>2, <2>1, <2>2 DEF Known
<1>3. QED
  BY <1>2

(* A step that sets no savepoint. *)
LEMMA RenewStep ==
  ASSUME SInv, NEW k \in 0..depth, depth' \in Nat, k <= depth',
         \A d \in 1..k : SameCall(d),
         \A d \in (k + 1)..depth' : \A name \in Nat : ~Holds(d, name)',
         CountersGrow,
         session' \in [0..MaxTx -> Sessions], \A tx \in 0..MaxTx : Renewed(tx, k)
  PROVE  NestInv'
<1>1. \A d \in 1..k : /\ d \in 1..depth
                      /\ SessionOf(frame'[d].tx) = SessionOf(frame[d].tx)
                      /\ SessionOf(frame[d].tx) \in 0..MaxTx
                      /\ \A name : Holds(d, name)' <=> Holds(d, name)
  BY SameHolds, FrameFacts DEF SInv
<1>2. \A d \in 1..depth' : \A name \in Nat : Holds(d, name)' => d \in 1..k
  BY FrameFacts DEF SInv
<1>3. \A name \in Nat : Known(name) => Known(name)'
  BY KnownGrows
<1>4. \A tx \in 0..MaxTx : session[tx] \in Sessions /\ session'[tx] \in Sessions
  BY DEF SInv
<1>5. NamesInv'
  <2> SUFFICES ASSUME NEW tx \in 0..MaxTx
               PROVE  /\ ~session'[tx].open => session'[tx].saves = <<>> /\ session'[tx].writes = {}
                      /\ \A i \in DOMAIN session'[tx].saves : Known(session[tx].saves[i].name)'
                      /\ Unique(session[tx])'
    BY DEF NamesInv
  <2>1. CASE session'[tx] = session[tx]
    <3>1. /\ ~session'[tx].open => session'[tx].saves = <<>> /\ session'[tx].writes = {}
          /\ \A i \in DOMAIN session[tx].saves : Known(session[tx].saves[i].name)
          /\ Unique(session[tx])
      BY <2>1 DEF SInv, NestInv, NamesInv
    <3>2. \A i \in DOMAIN session[tx].saves : session[tx].saves[i].name \in Nat
      BY <1>4, SessionFields
    <3>3. \A i \in DOMAIN session'[tx].saves : Known(session[tx].saves[i].name)'
      BY <1>3, <2>1, <3>1, <3>2 DEF Known
    <3>4. Unique(session[tx])'
      BY <2>1, <3>1 DEF Unique
    <3>5. QED
      BY <3>1, <3>3, <3>4
  <2>2. CASE (session'[tx].open /\ session'[tx].saves = <<>>) \/ session'[tx] = NoSession
    <3>1. /\ ~session'[tx].open => session'[tx].saves = <<>> /\ session'[tx].writes = {}
          /\ session'[tx].saves = <<>>
      BY <2>2, NewSessionFacts
    <3>2. DOMAIN session'[tx].saves = {}
      BY <3>1
    <3>3. QED
      BY <3>1, <3>2 DEF Unique
  <2>3. QED
    BY <2>1, <2>2 DEF Renewed
<1>6. \A d \in 1..k : \A name \in Nat :
        Holds(d, name) => session'[SessionOf(frame[d].tx)] = session[SessionOf(frame[d].tx)]
  BY <1>1 DEF Renewed
<1>7. HeldInv'
  <2> SUFFICES ASSUME NEW d \in 1..depth', NEW name \in Nat, Holds(d, name)',
                      session'[SessionOf(frame'[d].tx)].open
               PROVE  \E i \in DOMAIN session'[SessionOf(frame'[d].tx)].saves :
                        session'[SessionOf(frame'[d].tx)].saves[i].name = name
    BY SMTT(30) DEF HeldInv, Session, Saves, SessionOf
  <2>1. d \in 1..k /\ d \in 1..depth /\ Holds(d, name)
        /\ session'[SessionOf(frame'[d].tx)] = session[SessionOf(frame[d].tx)]
    BY <1>1, <1>2, <1>6
  <2>2. QED
    BY <2>1 DEF SInv, NestInv, HeldInv, Session, Saves
<1>8. OrderInv'
  <2> SUFFICES ASSUME NEW d \in 1..depth', NEW e \in 1..depth', NEW n \in Nat, NEW m \in Nat,
                      d < e, SessionOf(frame'[d].tx) = SessionOf(frame'[e].tx),
                      Holds(d, n)', Holds(e, m)',
                      NEW i \in DOMAIN session'[SessionOf(frame'[d].tx)].saves,
                      NEW j \in DOMAIN session'[SessionOf(frame'[d].tx)].saves,
                      session'[SessionOf(frame'[d].tx)].saves[i].name = n,
                      session'[SessionOf(frame'[d].tx)].saves[j].name = m
               PROVE  i < j
    BY OrderNext
  <2>1. /\ d \in 1..k /\ d \in 1..depth /\ Holds(d, n)
        /\ e \in 1..k /\ e \in 1..depth /\ Holds(e, m)
        /\ session'[SessionOf(frame'[d].tx)] = session[SessionOf(frame[d].tx)]
        /\ SessionOf(frame[d].tx) = SessionOf(frame[e].tx)
    BY <1>1, <1>2, <1>6
  <2>2. /\ i \in DOMAIN session[SessionOf(frame[d].tx)].saves
        /\ j \in DOMAIN session[SessionOf(frame[d].tx)].saves
        /\ session[SessionOf(frame[d].tx)].saves[i].name = n
        /\ session[SessionOf(frame[d].tx)].saves[j].name = m
    BY <2>1
  <2>3. QED
    BY <2>1, <2>2, OrderNow
<1>9. QED
  BY <1>5, <1>7, <1>8 DEF NestInv

LEMMA LastOrBefore ==
  ASSUME NEW l \in Nat
  PROVE  \A i \in 1..(l + 1) : i \in 1..l \/ i = l + 1
OBVIOUS

(* A call that sets a savepoint with a new name. *)
LEMMA AppendStep ==
  ASSUME SInv, depth' = depth + 1, \A d \in 1..depth : SameCall(d),
         NEW tx \in 0..MaxTx, SessionOf(frame'[depth + 1].tx) = tx, session[tx].open,
         NEW new \in Nat, ~Known(new), Known(new)',
         \A d \in 1..depth' : \A name \in Nat : d > depth /\ Holds(d, name)' => name = new,
         CountersGrow,
         session' = [session EXCEPT ![tx] = WithSavepoint(session[tx], new, writeCount + 1)]
  PROVE  session' \in [0..MaxTx -> Sessions] /\ NestInv'
<1> DEFINE l == Len(session[tx].saves)
           s == WithSavepoint(session[tx], new, writeCount + 1)
<1>1. /\ session[tx] \in Sessions /\ l \in Nat /\ l = Len(session[tx].saves)
      /\ DOMAIN session[tx].saves = 1..l
      /\ \A i \in 1..l : session[tx].saves[i].name \in Nat
  BY SessionFields DEF SInv
<1> HIDE DEF l
<1>2. /\ s \in Sessions /\ s.open
      /\ Len(s.saves) = l + 1
      /\ \A j \in 1..l : s.saves[j] = session[tx].saves[j]
      /\ s.saves[l + 1].name = new
  <2>1. writeCount + 1 \in Nat
    BY BoundAssumption DEF SInv, DataInv
  <2>2. s.saves[l + 1] = [name |-> new, at |-> writeCount + 1]
    BY SMTT(30), <1>1, <2>1, WithSavepointFacts
  <2>3. QED
    BY SMTT(60), <1>1, <2>1, <2>2, WithSavepointFacts
<1>3. session' = [session EXCEPT ![tx] = s]
  OBVIOUS
<1> HIDE DEF s
<1>4. DOMAIN s.saves = 1..(l + 1)
  BY <1>2, SessionFields
<1>5. /\ session' \in [0..MaxTx -> Sessions] /\ session'[tx] = s
      /\ \A t \in 0..MaxTx : t # tx => session'[t] = session[t]
  BY <1>2, <1>3 DEF SInv
<1>6. \A d \in 1..depth : /\ SessionOf(frame'[d].tx) = SessionOf(frame[d].tx)
                          /\ SessionOf(frame[d].tx) \in 0..MaxTx
                          /\ \A name : Holds(d, name)' <=> Holds(d, name)
  <2>1. depth \in 0..depth
    BY FrameFacts DEF SInv
  <2>2. QED
    BY <2>1, SameHolds, FrameFacts DEF SInv
<1>7. \A d \in 1..depth' : d = depth + 1 \/ d \in 1..depth
  BY FrameFacts DEF SInv
<1>15. \A i \in 1..(l + 1) : i \in 1..l \/ i = l + 1
  BY <1>1, LastOrBefore, Zenon
<1>8. \A name \in Nat : Known(name) => Known(name)'
  BY KnownGrows
<1>9. \A i \in 1..l : Known(session[tx].saves[i].name) /\ session[tx].saves[i].name # new
  BY <1>1 DEF SInv, NestInv, NamesInv
<1>10. Unique(session[tx])
  BY DEF SInv, NestInv, NamesInv
<1>11. NamesInv'
  <2> SUFFICES ASSUME NEW t \in 0..MaxTx
               PROVE  /\ ~session'[t].open => session'[t].saves = <<>> /\ session'[t].writes = {}
                      /\ \A i \in DOMAIN session'[t].saves : Known(session[t].saves[i].name)'
                      /\ Unique(session[t])'
    BY DEF NamesInv
  <2>1. CASE t # tx
    <3>1. /\ session'[t] = session[t]
          /\ ~session'[t].open => session'[t].saves = <<>> /\ session'[t].writes = {}
          /\ \A i \in DOMAIN session[t].saves : Known(session[t].saves[i].name)
          /\ Unique(session[t])
      BY <1>5, <2>1 DEF SInv, NestInv, NamesInv
    <3>2. \A i \in DOMAIN session[t].saves : session[t].saves[i].name \in Nat
      BY SessionFields DEF SInv
    <3>3. \A i \in DOMAIN session'[t].saves : Known(session[t].saves[i].name)'
      BY <1>8, <3>1, <3>2 DEF Known
    <3>4. Unique(session[t])'
      BY <3>1 DEF Unique
    <3>5. QED
      BY <3>1, <3>3, <3>4
  <2>2. CASE t = tx
    <3>1. \A i \in 1..(l + 1) : i \in 1..l \/ i = l + 1
      BY SMTT(30), <1>1
    <3>2. \A i \in DOMAIN session'[t].saves : Known(session[t].saves[i].name)'
      <4> SUFFICES ASSUME NEW i \in 1..(l + 1)
                   PROVE  Known(session[t].saves[i].name)'
        BY <1>4, <1>5, <2>2
      <4>1. CASE i \in 1..l
        <5>1. /\ session'[t].saves[i] = session[t].saves[i]
              /\ session[t].saves[i].name \in Nat /\ Known(session[t].saves[i].name)
          BY SMTT(30), <1>1, <1>2, <1>5, <1>9, <2>2, <4>1
        <5>2. QED
          BY <1>8, <5>1 DEF Known
      <4>2. CASE i = l + 1
        BY <1>2, <1>5, <2>2, <4>2 DEF Known
      <4>3. QED
        BY <3>1, <4>1, <4>2
    <3>3. \A i, j \in 1..(l + 1) : s.saves[i].name = s.saves[j].name => i = j
      <4>1. \A i \in 1..l : s.saves[i].name = session[tx].saves[i].name /\ s.saves[i].name # new
        BY <1>2, <1>9
      <4>2. \A i, j \in 1..l : s.saves[i].name = s.saves[j].name => i = j
        <5>1. DOMAIN session[tx].saves = 1..l
          BY <1>1
        <5>2. \A i, j \in 1..l : session[tx].saves[i].name = session[tx].saves[j].name => i = j
          BY <1>10, <5>1 DEF Unique
        <5>3. QED
          BY <4>1, <5>2
      <4>3. s.saves[l + 1].name = new
        BY <1>2
      <4>4. QED
        BY <3>1, <4>1, <4>2, <4>3
    <3>4. Unique(session[t])'
      <4>1. session'[t] = s
        BY <1>5, <2>2
      <4>2. QED
        <5>1. \A i, j \in DOMAIN s.saves : s.saves[i].name = s.saves[j].name => i = j
          BY <1>4, <3>3, Zenon
        <5>2. ASSUME NEW r, r = s
              PROVE  \A i, j \in DOMAIN r.saves : r.saves[i].name = r.saves[j].name => i = j
          BY <5>1, <5>2
        <5>3. \A i, j \in DOMAIN session'[t].saves :
                session'[t].saves[i].name = session'[t].saves[j].name => i = j
          BY <4>1, <5>2, Zenon
        <5>4. QED
          BY <5>3, Zenon DEF Unique
    <3>5. QED
      BY <1>2, <1>5, <2>2, <3>2, <3>4
  <2>3. QED
    BY <2>1, <2>2
<1>12. \A d \in 1..depth : \A name \in Nat :
         Holds(d, name) /\ session'[SessionOf(frame[d].tx)].open =>
           \E i \in DOMAIN session[SessionOf(frame[d].tx)].saves :
             session[SessionOf(frame[d].tx)].saves[i].name = name
  BY <1>5, <1>6 DEF SInv, NestInv, HeldInv, Session, Saves
<1>13. HeldInv'
  <2> SUFFICES ASSUME NEW d \in 1..depth', NEW name \in Nat, Holds(d, name)',
                      session'[SessionOf(frame'[d].tx)].open
               PROVE  \E i \in DOMAIN session'[SessionOf(frame'[d].tx)].saves :
                        session'[SessionOf(frame'[d].tx)].saves[i].name = name
    BY DEF HeldInv, Session, Saves, SessionOf
  <2>1. CASE d = depth + 1
    <3>1. name = new /\ l + 1 \in 1..(l + 1)
      BY SMTT(30), <1>1, <2>1, FrameFacts DEF SInv
    <3>2. QED
      BY <1>2, <1>4, <1>5, <2>1, <3>1
  <2>2. CASE d \in 1..depth
    <3>1. PICK i \in DOMAIN session[SessionOf(frame[d].tx)].saves :
             session[SessionOf(frame[d].tx)].saves[i].name = name
      BY <1>6, <1>12, <2>2
    <3>2. CASE SessionOf(frame[d].tx) = tx
      <4>1. i \in 1..(l + 1) /\ i \in 1..l
        BY SMTT(30), <1>1, <3>1, <3>2
      <4>2. QED
        BY <1>2, <1>4, <1>5, <1>6, <2>2, <3>1, <3>2, <4>1
    <3>3. CASE SessionOf(frame[d].tx) # tx
      BY <1>5, <1>6, <2>2, <3>1, <3>3
    <3>4. QED
      BY <3>2, <3>3
  <2>3. QED
    BY <1>7, <2>1, <2>2
<1>14. OrderInv'
  <2> SUFFICES ASSUME NEW d \in 1..depth', NEW e \in 1..depth', NEW n \in Nat, NEW m \in Nat,
                      d < e, SessionOf(frame'[d].tx) = SessionOf(frame'[e].tx),
                      Holds(d, n)', Holds(e, m)',
                      NEW i \in DOMAIN session'[SessionOf(frame'[d].tx)].saves,
                      NEW j \in DOMAIN session'[SessionOf(frame'[d].tx)].saves,
                      session'[SessionOf(frame'[d].tx)].saves[i].name = n,
                      session'[SessionOf(frame'[d].tx)].saves[j].name = m
               PROVE  i < j
    BY OrderNext
  <2>1. d \in 1..depth /\ Holds(d, n) /\ SessionOf(frame'[d].tx) = SessionOf(frame[d].tx)
    BY SMTT(30), <1>6, <1>7, FrameFacts DEF SInv
  <2>2. CASE e \in 1..depth
    <3>1. Holds(e, m) /\ SessionOf(frame[d].tx) = SessionOf(frame[e].tx)
      BY <1>6, <2>1, <2>2
    <3>2. CASE SessionOf(frame[d].tx) # tx
      <4>1. session'[SessionOf(frame'[d].tx)] = session[SessionOf(frame[d].tx)]
        BY <1>5, <1>6, <2>1, <3>2
      <4>2. /\ i \in DOMAIN session[SessionOf(frame[d].tx)].saves
            /\ j \in DOMAIN session[SessionOf(frame[d].tx)].saves
            /\ session[SessionOf(frame[d].tx)].saves[i].name = n
            /\ session[SessionOf(frame[d].tx)].saves[j].name = m
        BY <4>1
      <4>3. QED
        BY <2>1, <2>2, <3>1, <4>2, OrderNow
    <3>3. CASE SessionOf(frame[d].tx) = tx
      <4>1. /\ \E i1 \in 1..l : session[tx].saves[i1].name = n
            /\ \E j1 \in 1..l : session[tx].saves[j1].name = m
        <5>1. session'[tx].open /\ SessionOf(frame[e].tx) = tx
          BY <1>2, <1>5, <3>1, <3>3
        <5>2. QED
          <6>1. DOMAIN session[tx].saves = 1..l
            BY <1>1
          <6>2. QED
            <7>1. \E i1 \in 1..l : session[tx].saves[i1].name = n
              <8>1. session'[SessionOf(frame[d].tx)].open
                BY <3>3, <5>1
              <8>2. \E i1 \in DOMAIN session[SessionOf(frame[d].tx)].saves :
                      session[SessionOf(frame[d].tx)].saves[i1].name = n
                BY <1>12, <2>1, <8>1, Zenon
              <8>3. QED
                BY <3>3, <6>1, <8>2
            <7>2. \E j1 \in 1..l : session[tx].saves[j1].name = m
              <8>1. session'[SessionOf(frame[e].tx)].open
                BY <5>1
              <8>2. \E j1 \in DOMAIN session[SessionOf(frame[e].tx)].saves :
                      session[SessionOf(frame[e].tx)].saves[j1].name = m
                BY <1>12, <2>2, <3>1, <8>1, Zenon
              <8>3. QED
                BY <5>1, <6>1, <8>2
            <7>3. QED
              BY <7>1, <7>2
      <4>2. n # new /\ m # new
        BY <1>9, <4>1
      <4>3. i \in 1..l /\ j \in 1..l
        <5>1. session'[SessionOf(frame'[d].tx)] = s
          BY <1>5, <2>1, <3>3
        <5>2. i \in 1..(l + 1) /\ j \in 1..(l + 1) /\ s.saves[i].name = n /\ s.saves[j].name = m
          BY <1>4, <5>1
        <5>3. i # l + 1 /\ j # l + 1
          BY <1>2, <4>2, <5>2
        <5>4. QED
          <6>1. QED
            BY <1>15, <5>2, <5>3
      <4>4. session[tx].saves[i].name = n /\ session[tx].saves[j].name = m
        BY SMTT(30), <1>2, <1>5, <2>1, <3>3, <4>3
      <4>5. QED
        <5>1. i \in DOMAIN Saves(frame[d].tx) /\ j \in DOMAIN Saves(frame[d].tx)
              /\ Saves(frame[d].tx)[i].name = n /\ Saves(frame[d].tx)[j].name = m
          BY <1>1, <3>3, <4>3, <4>4 DEF Saves
        <5>2. OrderInv
          BY DEF SInv, NestInv
        <5>3. QED
          BY <2>1, <2>2, <3>1, <5>1, <5>2 DEF OrderInv
    <3>4. QED
      BY <3>2, <3>3
  <2>3. CASE e = depth + 1
    <3>1. m = new /\ SessionOf(frame[d].tx) = tx /\ SessionOf(frame'[d].tx) = tx
      <4>1. e > depth /\ frame'[e] = frame'[depth + 1]
        BY <2>3, FrameFacts DEF SInv
      <4>2. m = new
        BY <4>1
      <4>3. SessionOf(frame'[e].tx) = tx
        BY <4>1
      <4>4. QED
        BY <2>1, <4>2, <4>3
    <3>2. \E i1 \in 1..l : session[tx].saves[i1].name = n
      <4>1. session'[tx].open
        BY <1>2, <1>5
      <4>2. QED
        BY SMTT(60), <1>1, <1>12, <2>1, <3>1, <4>1
    <3>3. n # new
      BY <1>9, <3>2
    <3>4. i \in 1..(l + 1) /\ j \in 1..(l + 1) /\ s.saves[i].name = n /\ s.saves[j].name = new
      BY <1>4, <1>5, <3>1
    <3>5. i # l + 1 /\ j \notin 1..l
      BY <1>2, <1>9, <3>3, <3>4
    <3>6. QED
      BY <1>1, <3>4, <3>5, LastIndex
  <2>4. QED
    BY SMTT(30), <1>7, <2>2, <2>3
<1>16. QED
  BY <1>5, <1>11, <1>13, <1>14 DEF NestInv

-------------------------------------------------------------------------------
(* Steps of the frames. *)

(* Frames that stay keep their shape. *)
LEMMA ShapeKept ==
  ASSUME SInv, depth' \in 1..depth, \A d \in 1..depth' : SameCall(d)
  PROVE  ShapeInv'
<1>1. \A d \in 2..depth' : d \in 2..depth /\ d \in 1..depth' /\ d - 1 \in 1..depth'
                           /\ \A e \in 1..(d - 1) : e \in 1..depth'
  BY FrameFacts DEF SInv
<1>2. 1 \in 1..depth'
  BY FrameFacts DEF SInv
<1>3. ShapeInv
  BY DEF SInv
<1>4. QED
  BY <1>1, <1>2, <1>3 DEF ShapeInv, Owner, SameCall

(* A session is only closed when no frame that stays needs it. *)
LEMMA RunKept ==
  ASSUME SInv, depth' \in 1..depth, \A d \in 1..depth' : SameCall(d),
         expiredTx \subseteq expiredTx',
         SharedSession => session'[0].open \/ \A d \in 1..depth' : frame[d].tx = 0
                          \/ ~session[0].open,
         ~SharedSession => /\ session'[0].open => session[0].open
                           /\ \A d \in 1..depth' : frame[d].tx # 0 =>
                                \/ session'[frame[d].tx].open
                                \/ ~session[frame[d].tx].open
                                \/ frame[d].tx \in expiredTx'
  PROVE  RunInv'
<1>1. \A d \in 1..depth' : d \in 1..depth /\ (Owner(d) => d - 1 \in 1..depth')
                           /\ \A e \in 1..(d - 1) : e \in 1..depth'
  BY FrameFacts DEF SInv, ShapeInv, Owner
<1>2. CASE SharedSession
  <2>1. \A d \in 1..depth' : frame'[d].tx # 0 => session'[0].open
    BY <1>1, <1>2 DEF SInv, RunInv, SameCall
  <2>2. \A d \in 1..depth' : Owner(d)' /\ frame'[d - 1].tx = 0 =>
          \A e \in 1..(d - 1) : frame'[e].tx = 0
    <3> SUFFICES ASSUME NEW d \in 1..depth', Owner(d)', frame'[d - 1].tx = 0,
                        NEW e \in 1..(d - 1)
                 PROVE  frame'[e].tx = 0
      OBVIOUS
    <3>1. SameCall(d) /\ SameCall(e) /\ Owner(d) /\ d \in 1..depth
      BY <1>1 DEF Owner, SameCall
    <3>2. SameCall(d - 1)
      BY <1>1, <3>1
    <3>3. frame[d - 1].tx = 0
      BY <3>2 DEF SameCall
    <3>4. frame[e].tx = 0
      BY <1>2, <3>1, <3>3 DEF SInv, RunInv
    <3>5. QED
      BY <3>1, <3>4 DEF SameCall
  <2>3. QED
    BY <1>2, <2>1, <2>2 DEF RunInv
<1>3. CASE ~SharedSession
  <2>1. ~session'[0].open
    BY <1>3 DEF SInv, RunInv
  <2>2. \A d \in 1..depth' :
          frame'[d].tx # 0 => session'[frame'[d].tx].open \/ frame'[d].tx \in expiredTx'
    BY <1>1, <1>3 DEF SInv, RunInv, SameCall
  <2>3. QED
    BY <1>3, <2>1, <2>2 DEF RunInv
<1>4. QED
  BY <1>2, <1>3

(* A frame is added. *)
LEMMA ShapePushed ==
  ASSUME SInv, depth' = depth + 1, \A d \in 1..depth : frame'[d] = frame[d],
         NEW g, frame'[depth + 1] = g,
         g.kind \in {"own", "serialized"} => \A e \in 1..depth : frame[e].tx < g.tx,
         g.kind \notin {"own", "serialized"} => g.tx \in {0, Top.tx},
         g.kind = "savepoint" => g.tx # 0,
         g.kind = "serialized" => Top.tx = 0
  PROVE  ShapeInv'
<1>1. depth \in Nat /\ depth >= 1
  BY FrameFacts DEF SInv
<1>2. frame'[1] = frame[1] /\ frame[1].kind = "plain" /\ frame[1].tx = 0
  BY <1>1 DEF SInv, ShapeInv
<1>3. ASSUME NEW d \in 2..depth'
      PROVE  /\ Owner(d)' => \A e \in 1..(d - 1) : frame'[e].tx < frame'[d].tx
             /\ ~Owner(d)' => frame'[d].tx \in {0, frame'[d - 1].tx}
             /\ frame'[d].kind = "savepoint" => frame'[d].tx # 0
             /\ frame'[d].kind = "serialized" => frame'[d - 1].tx = 0
  <2>1. CASE d \in 2..depth
    <3>1. /\ d \in 1..depth /\ d - 1 \in 1..depth /\ \A e \in 1..(d - 1) : e \in 1..depth
      BY <1>1, <2>1
    <3>2. frame'[d] = frame[d] /\ frame'[d - 1] = frame[d - 1]
          /\ \A e \in 1..(d - 1) : frame'[e] = frame[e]
      BY <3>1
    <3>3. QED
      BY <2>1, <3>2 DEF SInv, ShapeInv, Owner
  <2>2. CASE d = depth + 1
    <3>1. d - 1 = depth /\ depth \in 1..depth /\ frame'[depth] = Top
          /\ frame'[d] = g
      BY <1>1, <2>2 DEF Top
    <3>2. \A e \in 1..(d - 1) : frame'[e] = frame[e]
      BY <3>1
    <3>3. QED
      BY <3>1, <3>2 DEF Owner
  <2>3. QED
    BY <1>1, <1>3, <2>1, <2>2
<1>4. QED
  BY <1>2, <1>3 DEF ShapeInv

LEMMA RunPushed ==
  ASSUME SInv, depth' = depth + 1, \A d \in 1..depth : frame'[d] = frame[d],
         NEW g, frame'[depth + 1] = g, UNCHANGED expiredTx,
         g.kind \in {"own", "serialized"} /\ Top.tx = 0 /\ SharedSession =>
            \A e \in 1..depth : frame[e].tx = 0,
         SharedSession => (session[0].open => session'[0].open)
                          /\ (g.tx # 0 => session'[0].open),
         ~SharedSession => /\ session'[0] = session[0]
                           /\ \A tx \in 1..MaxTx : session[tx].open => session'[tx].open
                           /\ g.tx # 0 => session'[g.tx].open \/ g.tx \in expiredTx
  PROVE  RunInv'
<1>1. /\ depth \in Nat /\ depth >= 1
      /\ \A d \in 1..depth' : d \in 1..depth \/ d = depth + 1
      /\ \A d \in 1..depth : frame[d].tx \in 0..MaxTx
  BY FrameFacts DEF SInv
<1>2. CASE SharedSession
  <2>1. \A d \in 1..depth' : frame'[d].tx # 0 => session'[0].open
    BY <1>1, <1>2 DEF SInv, RunInv
  <2>2. ASSUME NEW d \in 1..depth', Owner(d)', frame'[d - 1].tx = 0
        PROVE  \A e \in 1..(d - 1) : frame'[e].tx = 0
    <3>1. CASE d \in 1..depth
      <4>1. Owner(d) /\ d # 1
        BY <2>2, <3>1 DEF Owner, SInv, ShapeInv
      <4>2. d - 1 \in 1..depth /\ \A e \in 1..(d - 1) : e \in 1..depth
        BY <1>1, <3>1, <4>1
      <4>3. frame[d - 1].tx = 0
        BY <2>2, <4>2
      <4>4. \A e \in 1..(d - 1) : frame[e].tx = 0
        BY <1>2, <3>1, <4>1, <4>3 DEF SInv, RunInv
      <4>5. QED
        BY <4>2, <4>4
    <3>2. CASE d = depth + 1
      <4>1. d - 1 = depth /\ frame'[depth] = Top /\ frame'[d] = g
        BY <1>1, <3>2 DEF Top
      <4>2. g.kind \in {"own", "serialized"} /\ Top.tx = 0
        BY <2>2, <4>1 DEF Owner
      <4>3. QED
        BY <1>2, <4>1, <4>2
    <3>3. QED
      BY <1>1, <3>1, <3>2
  <2>3. QED
    BY <1>2, <2>1, <2>2 DEF RunInv
<1>3. CASE ~SharedSession
  <2>1. ~session'[0].open
    BY <1>3 DEF SInv, RunInv
  <2>2. ASSUME NEW d \in 1..depth', frame'[d].tx # 0
        PROVE  session'[frame'[d].tx].open \/ frame'[d].tx \in expiredTx
    <3>1. CASE d \in 1..depth
      <4>1. frame'[d].tx = frame[d].tx /\ frame[d].tx \in 1..MaxTx
        BY <1>1, <2>2, <3>1
      <4>2. session[frame[d].tx].open \/ frame[d].tx \in expiredTx
        BY <1>3, <3>1, <4>1 DEF SInv, RunInv
      <4>3. QED
        BY <1>3, <4>1, <4>2
    <3>2. CASE d = depth + 1
      BY <1>3, <2>2, <3>2
    <3>3. QED
      BY <1>1, <3>1, <3>2
  <2>3. QED
    BY <1>3, <2>1, <2>2 DEF RunInv
<1>4. QED
  BY <1>2, <1>3

-------------------------------------------------------------------------------
(* The actions. *)

(* What the proofs of the actions show of the sessions and the frames. *)
NestedInv == session \in [0..MaxTx -> Sessions] /\ ShapeInv /\ RunInv /\ NestInv

(* A txFunc that is called directly starts. *)
LEMMA DirectNested ==
  ASSUME SInv, depth < MaxDepth, NEW f \in Frames, Direct(f),
         f.kind \in {"plain", "pass", "serializedPass"}, f.tx \in {0, Top.tx}
  PROVE  NestedInv'
<1>1. /\ depth' = depth + 1 /\ frame'[depth + 1] = f
      /\ \A d \in 1..depth' : d = depth + 1 \/ d \in 1..depth
      /\ \A d \in 1..depth : d \in 1..depth' /\ frame'[d] = frame[d]
  BY PushFrames DEF Direct, SInv
<1>2. UNCHANGED <<session, txCount, spCount, expiredTx>>
  BY DEF Direct, counters
<1>3. f.kind \notin {"own", "serialized", "savepoint"}
  OBVIOUS
<1>4. depth \in Nat /\ depth \in 1..depth /\ Top = frame[depth]
  BY FrameFacts DEF SInv, Top
<1>5. ShapeInv'
  BY <1>1, <1>3, ShapePushed
<1>6. RunInv'
  <2>1. f.tx # 0 => f.tx = frame[depth].tx
    BY <1>4
  <2>2. SharedSession /\ f.tx # 0 => session[0].open
    BY <1>4, <2>1 DEF SInv, RunInv
  <2>3. ~SharedSession /\ f.tx # 0 => session[f.tx].open \/ f.tx \in expiredTx
    BY <1>4, <2>1 DEF SInv, RunInv
  <2>4. QED
    BY <1>1, <1>2, <1>3, <2>2, <2>3, RunPushed
<1>7. session' \in [0..MaxTx -> Sessions]
  BY <1>2 DEF SInv
<1>8. NestInv'
  <2>1. depth \in 0..depth /\ depth' \in Nat /\ depth <= depth'
    BY <1>1, <1>4
  <2>2. \A d \in 1..depth : SameCall(d)
    BY <1>1 DEF SameCall
  <2>3. \A d \in (depth + 1)..depth' : \A name \in Nat : ~Holds(d, name)'
    <3>1. \A d \in (depth + 1)..depth' : d = depth + 1
      BY <1>1, <1>4
    <3>2. QED
      BY <1>1, <1>3, <3>1 DEF Holds, Owner
  <2>4. CountersGrow
    BY <1>2 DEF CountersGrow, SInv, DataInv
  <2>5. \A tx \in 0..MaxTx : Renewed(tx, depth)
    BY <1>2 DEF Renewed
  <2>6. QED
    BY <1>7, <2>1, <2>2, <2>3, <2>4, <2>5, RenewStep
<1>9. QED
  BY <1>5, <1>6, <1>7, <1>8 DEF NestedInv

(* A savepoint name that is new is not that of any savepoint. *)
LEMMA NewNames ==
  ASSUME SInv
  PROVE  /\ txCount + 1 \in 1..MaxTx => ~Known(txCount + 1)
         /\ MaxTx + spCount + 1 \in Nat /\ ~Known(MaxTx + spCount + 1)
<1>1. txCount \in Nat /\ spCount \in Nat /\ MaxTx \in Nat /\ txCount <= MaxTx
  BY BoundAssumption DEF SInv, DataInv
<1>2. QED
  BY <1>1 DEF Known

(* A transaction begins. *)
LEMMA BeginNested ==
  ASSUME SInv, depth < MaxDepth, NEW f \in Frames, NEW opts \in TxOptions, BeginFrame(f, opts),
         f.kind \in {"own", "serialized"}, f.kind = "serialized" => Top.tx = 0
  PROVE  NestedInv'
<1> DEFINE t == txCount + 1
           g == [f EXCEPT !.tx = t]
<1>1. /\ t \in 1..MaxTx /\ txCount \in 0..MaxTx /\ txCount' = t
      /\ depth' = depth + 1 /\ frame'[depth + 1] = g
      /\ g.kind = f.kind /\ g.tx = t
      /\ \A d \in 1..depth' : d = depth + 1 \/ d \in 1..depth
      /\ \A d \in 1..depth : d \in 1..depth' /\ frame'[d] = frame[d] /\ frame[d].tx < t
      /\ UNCHANGED <<spCount, writeCount, expiredTx>>
  BY BegunFacts
<1> HIDE DEF g
<1>2. /\ SharedSession => (session[0].open <=> Top.tx # 0)
      /\ session' = [session EXCEPT ![SessionOf(t)] =
                       IF Nested(Top.tx)
                       THEN WithSavepoint(Session(0), TxSavepoint(t), writeCount + 1)
                       ELSE Begun(opts.readOnly /\ ~SharedSession)]
  <2>1. Session(0) = session[0] \/ ~SharedSession
    BY DEF Session, SessionOf
  <2>2. QED
    BY <2>1 DEF BeginFrame, Begin, SetSession
<1>3. depth \in Nat /\ depth \in 1..depth /\ Top = frame[depth] /\ Top.tx \in 0..MaxTx
  BY FrameFacts DEF SInv, Top
<1>4. ShapeInv'
  BY <1>1, ShapePushed
<1>5. CountersGrow
  BY <1>1, BoundAssumption DEF CountersGrow, SInv, DataInv
<1>6. \A d \in 1..depth : SameCall(d)
  BY <1>1 DEF SameCall
<1>7. SessionOf(t) \in 0..MaxTx /\ t # 0
  BY <1>1, BoundAssumption DEF SessionOf
<1>8. CASE Nested(Top.tx)
  <2>1. SharedSession /\ Top.tx # 0 /\ SessionOf(t) = 0 /\ session[0].open /\ Session(0) = session[0]
    BY <1>2, <1>8 DEF Nested, SessionOf, Session
  <2>2. session' = [session EXCEPT ![0] = WithSavepoint(session[0], t, writeCount + 1)]
    BY <1>2, <1>8, <2>1 DEF TxSavepoint
  <2>10. PICK n \in Nat : n = t
    BY <1>1
  <2>3. ~Known(n) /\ Known(n)'
    <3>1. ~Known(n)
      BY <1>1, <2>10, NewNames
    <3>2. n <= txCount'
      BY <1>1, <2>10
    <3>3. QED
      BY <3>1, <3>2 DEF Known
  <2>4. \A d \in 1..depth' : \A name \in Nat : d > depth /\ Holds(d, name)' => name = n
    <3>1. \A d \in 1..depth' : d > depth => d = depth + 1
      BY <1>1, <1>3
    <3>2. \A name \in Nat : \A d \in 1..depth' : d = depth + 1 /\ Holds(d, name)' => name = n
      BY <1>1, <2>10 DEF Holds, Owner
    <3>3. QED
      BY <3>1, <3>2
  <2>5. SessionOf(frame'[depth + 1].tx) = 0 /\ 0 \in 0..MaxTx
    BY <1>1, <2>1, BoundAssumption DEF SessionOf
  <2>11. session' = [session EXCEPT ![0] = WithSavepoint(session[0], n, writeCount + 1)]
    BY <2>2, <2>10
  <2>6. session' \in [0..MaxTx -> Sessions] /\ NestInv'
    BY <1>1, <1>5, <1>6, <2>1, <2>3, <2>4, <2>5, <2>11, AppendStep
  <2>7. session'[0].open
    <3>1. /\ session[0] \in Sessions /\ writeCount + 1 \in Nat
          /\ session'[0] = WithSavepoint(session[0], n, writeCount + 1)
      BY <2>11, BoundAssumption DEF SInv, DataInv
    <3>2. WithSavepoint(session[0], n, writeCount + 1).open = session[0].open
      BY ZenonT(60), <3>1, WithSavepointFacts
    <3>3. QED
      BY <2>1, <3>1, <3>2
  <2>8. RunInv'
    BY <1>1, <2>1, <2>7, RunPushed
  <2>9. QED
    BY <1>4, <2>6, <2>8 DEF NestedInv
<1>9. CASE ~Nested(Top.tx)
  <2> DEFINE s == Begun(opts.readOnly /\ ~SharedSession)
  <2>1. s \in Sessions /\ s.open /\ s.saves = <<>>
    BY NewSessionFacts
  <2>2. session' = [session EXCEPT ![SessionOf(t)] = s]
    BY <1>2, <1>9
  <2> HIDE DEF s
  <2>3. /\ session' \in [0..MaxTx -> Sessions] /\ session'[SessionOf(t)] = s
        /\ \A tx \in 0..MaxTx : tx # SessionOf(t) => session'[tx] = session[tx]
    BY <1>7, <2>1, <2>2 DEF SInv
  <2>4. SharedSession => Top.tx = 0 /\ \A d \in 1..depth : frame[d].tx = 0
    BY <1>2, <1>9 DEF Nested, SInv, RunInv
  <2>5. RunInv'
    <3>1. CASE SharedSession
      BY <1>1, <2>1, <2>3, <2>4, <3>1, RunPushed DEF SessionOf
    <3>2. CASE ~SharedSession
      <4>1. SessionOf(t) = t /\ session'[t].open /\ 0 \in 0..MaxTx
        <5>1. SessionOf(t) = t
          BY <3>2 DEF SessionOf
        <5>2. QED
          BY <2>1, <2>3, <5>1, BoundAssumption
      <4>2. session'[0] = session[0]
        BY <1>7, <2>3, <4>1
      <4>3. \A tx \in 1..MaxTx : session[tx].open => session'[tx].open
        BY <2>3, <4>1
      <4>4. QED
        BY <1>1, <3>2, <4>1, <4>2, <4>3, RunPushed
    <3>3. QED
      BY <3>1, <3>2
  <2>6. NestInv'
    <3>1. depth \in 0..depth /\ depth' \in Nat /\ depth <= depth'
      BY <1>1, <1>3
    <3>2. \A d \in (depth + 1)..depth' : \A name \in Nat : ~Holds(d, name)'
      <4>1. \A d \in (depth + 1)..depth' : d = depth + 1 /\ d - 1 = depth
        BY <1>1, <1>3
      <4>2. frame'[depth] = Top
        BY <1>1, <1>3
      <4>3. QED
        BY <1>1, <1>9, <4>1, <4>2 DEF Holds, Owner, Nested
    <3>3. ASSUME NEW tx \in 0..MaxTx
          PROVE  Renewed(tx, depth)
      <4>1. CASE tx # SessionOf(t)
        BY <2>3, <4>1 DEF Renewed
      <4>2. CASE tx = SessionOf(t)
        <5>1. session'[tx].open /\ session'[tx].saves = <<>>
          BY <2>1, <2>3, <4>2
        <5>2. ASSUME NEW d \in 1..depth, NEW name \in Nat, Holds(d, name)
              PROVE  SessionOf(frame[d].tx) # tx
          <6>1. frame[d].tx # 0
            BY <5>2 DEF Holds, Owner, SInv, ShapeInv, OInv, OwnerInv
          <6>2. ~SharedSession
            BY <2>4, <6>1
          <6>3. frame[d].tx < t /\ frame[d].tx \in 0..MaxTx
            BY <1>1, FrameFacts DEF SInv
          <6>4. QED
            BY <1>1, <4>2, <6>2, <6>3 DEF SessionOf
        <5>3. QED
          BY <5>1, <5>2 DEF Renewed
      <4>3. QED
        BY <4>1, <4>2
    <3>4. QED
      BY <1>5, <1>6, <2>3, <3>1, <3>2, <3>3, RenewStep
  <2>7. QED
    BY <1>4, <2>3, <2>5, <2>6 DEF NestedInv
<1>10. QED
  BY <1>8, <1>9

(* A savepoint is set. *)
LEMMA SavepointNested ==
  ASSUME SInv, depth < MaxDepth, TransactionSavepoint
  PROVE  NestedInv'
<1> DEFINE f == [Inner("savepoint") EXCEPT !.name = NextSavepoint]
           tx == SessionOf(Top.tx)
<1>1. /\ Top.tx # 0 /\ Accepts(Session(Top.tx))
      /\ session' = [session EXCEPT ![tx] = WithSavepoint(Session(Top.tx), NextSavepoint, writeCount + 1)]
      /\ spCount' = spCount + 1
      /\ Push(f)
      /\ UNCHANGED <<txCount, writeCount, expiredTx>>
  BY DEF TransactionSavepoint, SetSession
<1>2. NextSavepoint \in Nat /\ ~Known(NextSavepoint)
  BY NewNames DEF NextSavepoint
<1>3. f \in Frames /\ f.kind = "savepoint" /\ f.tx = Top.tx /\ f.name = NextSavepoint
  <2>1. /\ Inner("savepoint") \in Frames /\ Inner("savepoint").kind = "savepoint"
        /\ Inner("savepoint").tx = Top.tx
    BY InnerFrame DEF SInv, OInv, Kinds
  <2>2. QED
    BY <1>2, <2>1, FrameUpdates DEF Frames
<1> HIDE DEF f
<1>4. /\ depth' = depth + 1 /\ frame'[depth + 1] = f
      /\ \A d \in 1..depth' : d = depth + 1 \/ d \in 1..depth
      /\ \A d \in 1..depth : d \in 1..depth' /\ frame'[d] = frame[d]
  BY <1>1, <1>3, PushFrames DEF SInv
<1>5. /\ depth \in Nat /\ depth \in 1..depth /\ Top = frame[depth] /\ Top.tx \in 0..MaxTx
      /\ tx \in 0..MaxTx /\ session[tx] = Session(Top.tx)
  BY FrameFacts DEF SInv, Top, Session
<1>6. ShapeInv'
  BY <1>1, <1>3, <1>4, ShapePushed
<1>7. CountersGrow
  BY <1>1, BoundAssumption DEF CountersGrow, SInv, DataInv
<1>8. session[tx].open
  BY <1>1, <1>5 DEF Accepts
<1>9. PICK n \in Nat : n = NextSavepoint
  BY <1>2
<1>10. ~Known(n) /\ Known(n)'
  <2>1. MaxTx < n /\ n <= MaxTx + spCount'
    BY <1>1, <1>9, BoundAssumption DEF SInv, DataInv, NextSavepoint
  <2>2. QED
    BY <1>2, <1>9, <2>1 DEF Known
<1>11. \A d \in 1..depth' : \A name \in Nat : d > depth /\ Holds(d, name)' => name = n
  <2>1. \A d \in 1..depth' : d > depth => d = depth + 1
    BY <1>4, <1>5
  <2>2. \A name \in Nat : \A d \in 1..depth' : d = depth + 1 /\ Holds(d, name)' => name = n
    BY <1>3, <1>4, <1>9 DEF Holds, Owner
  <2>3. QED
    BY <2>1, <2>2
<1>12. session' = [session EXCEPT ![tx] = WithSavepoint(session[tx], n, writeCount + 1)]
  BY <1>1, <1>5, <1>9
<1>13. SessionOf(frame'[depth + 1].tx) = tx /\ \A d \in 1..depth : SameCall(d)
  BY <1>3, <1>4 DEF SameCall
<1>14. PICK x \in 0..MaxTx : x = tx
  BY <1>5
<1>15. session' \in [0..MaxTx -> Sessions] /\ NestInv'
  BY <1>4, <1>7, <1>8, <1>10, <1>11, <1>12, <1>13, <1>14, AppendStep
<1>16. \A y \in 0..MaxTx : session'[y].open = session[y].open
  <2>1. session[tx] \in Sessions /\ writeCount + 1 \in Nat
    BY <1>5, BoundAssumption DEF SInv, DataInv
  <2>2. WithSavepoint(session[tx], n, writeCount + 1).open = session[tx].open
    BY ZenonT(60), <2>1, WithSavepointFacts
  <2>3. QED
    BY <1>5, <1>12, <2>2 DEF SInv
<1>17. RunInv'
  <2>1. SharedSession => session[0].open
    BY <1>1, <1>5 DEF SInv, RunInv
  <2>2. ~SharedSession => session[Top.tx].open
    BY <1>8 DEF SessionOf
  <2>3. 0 \in 0..MaxTx
    BY BoundAssumption
  <2>4. ~SharedSession => session'[0] = session[0]
    BY <1>1, <1>5, <1>12, <2>3 DEF SInv, SessionOf
  <2>5. QED
    BY <1>1, <1>3, <1>4, <1>5, <1>16, <2>1, <2>2, <2>3, <2>4, RunPushed
<1>18. QED
  BY <1>6, <1>15, <1>17 DEF NestedInv

(* Statements on the session of the top frame keep its savepoints. *)
LEMMA StatementNested ==
  ASSUME SInv, depth' = depth, \A d \in 1..depth : SameCall(d),
         UNCHANGED <<txCount, spCount, expiredTx>>,
         NEW s \in Sessions, s.open, Session(Top.tx).open,
         s.saves = Session(Top.tx).saves, SetSession(Top.tx, s)
  PROVE  NestedInv'
<1> DEFINE tx == SessionOf(Top.tx)
<1>1. /\ tx \in 0..MaxTx /\ session[tx] = Session(Top.tx) /\ session' = [session EXCEPT ![tx] = s]
      /\ depth' \in 1..depth
  BY FrameFacts, TopFacts DEF SInv, Session, SetSession
<1> HIDE DEF tx
<1>2. /\ session' \in [0..MaxTx -> Sessions] /\ session'[tx] = s
      /\ \A y \in 0..MaxTx : y # tx => session'[y] = session[y]
      /\ \A y \in 0..MaxTx : session'[y].open = session[y].open
  BY <1>1 DEF SInv
<1>3. ASSUME NEW y \in 0..MaxTx
      PROVE  Remains(y)
  <2>1. CASE y # tx
    BY <1>2, <2>1 DEF Remains
  <2>2. CASE y = tx
    <3> DEFINE l == Len(session[y].saves)
    <3>1. /\ session'[y].saves = session[y].saves /\ session'[y].open /\ session[y].open
          /\ l \in Nat /\ DOMAIN session[y].saves = 1..l
      BY <1>1, <1>2, <2>2, SessionFields DEF SInv
    <3>2. l \in 0..l /\ Prefix(session[y], session'[y], l) /\ \A i \in DOMAIN session[y].saves : i <= l
      BY <3>1 DEF Prefix
    <3>3. QED
      BY <3>1, <3>2 DEF Remains
  <2>3. QED
    BY <2>1, <2>2
<1>4. NestInv'
  BY <1>1, <1>2, <1>3, PruneStep
<1>5. RunInv'
  <2>1. 0 \in 0..MaxTx /\ \A d \in 1..depth' : frame[d].tx \in 0..MaxTx
    BY <1>1, FrameFacts, BoundAssumption DEF SInv
  <2>2. QED
    BY <1>1, <1>2, <2>1, RunKept
<1>6. ShapeInv'
  BY <1>1, ShapeKept
<1>7. QED
  BY <1>2, <1>4, <1>5, <1>6 DEF NestedInv

(* Only fields that are no part of the nesting change. *)
LEMMA StutterNested ==
  ASSUME SInv, depth' \in 1..depth, \A d \in 1..depth' : SameCall(d),
         UNCHANGED <<session, txCount, spCount>>, expiredTx \subseteq expiredTx'
  PROVE  NestedInv'
<1>1. session' \in [0..MaxTx -> Sessions] /\ \A tx \in 0..MaxTx : Remains(tx)
  BY DEF SInv, Remains
<1>2. NestInv'
  BY <1>1, PruneStep
<1>3. RunInv'
  BY RunKept
<1>4. ShapeInv'
  BY ShapeKept
<1>5. QED
  BY <1>1, <1>2, <1>3, <1>4 DEF NestedInv

LEMMA ExecNested ==
  ASSUME SInv, Exec \/ ExecFails
  PROVE  NestedInv'
<1>1. /\ depth \in 1..depth /\ Top.tx \in 0..MaxTx /\ Session(Top.tx) \in Sessions
      /\ frame \in [1..MaxDepth -> Frames] /\ depth \in 1..MaxDepth
  BY FrameFacts, TopFacts DEF SInv, Session, OInv, FrameInv
<1>2. CASE ExecFails
  <2> DEFINE s == [Session(Top.tx) EXCEPT !.aborted = TRUE]
  <2>1. /\ s \in Sessions /\ s.open = Session(Top.tx).open /\ s.saves = Session(Top.tx).saves
        /\ Session(Top.tx).open /\ SetSession(Top.tx, s)
    BY <1>1, <1>2, AbortedFacts DEF ExecFails, Accepts
  <2>2. UNCHANGED <<depth, frame, txCount, spCount, expiredTx>>
    BY <1>2 DEF ExecFails, counters
  <2> HIDE DEF s
  <2>3. \A d \in 1..depth : SameCall(d)
    BY <2>2 DEF SameCall
  <2>4. QED
    BY <2>1, <2>2, <2>3, StatementNested
<1>3. CASE Exec
  <2> DEFINE w == writeCount + 1
  <2>1. UNCHANGED <<depth, txCount, spCount, expiredTx>> /\ w \in 1..MaxWrites
    BY <1>3, BoundAssumption DEF Exec, SInv, DataInv
  <2>2. CASE UNCHANGED <<session, frame>>
    BY <1>1, <2>1, <2>2, StutterNested DEF SameCall
  <2>3. CASE /\ Accepts(Session(Top.tx)) /\ SetSession(Top.tx, Written(Session(Top.tx), w))
             /\ frame' = [frame EXCEPT ![depth].writes = @ \cup {w}]
    <3>1. \A d \in 1..depth : SameCall(d)
      <4> DEFINE f == [frame[depth] EXCEPT !.writes = frame[depth].writes \cup {w}]
      <4>1. /\ f.kind = frame[depth].kind /\ f.tx = frame[depth].tx /\ f.name = frame[depth].name
        BY <1>1 DEF Frames
      <4>2. frame' = [frame EXCEPT ![depth] = f]
        BY <2>3
      <4> HIDE DEF f
      <4>3. \A d \in 1..depth : frame'[d] = IF d = depth THEN f ELSE frame[d]
        BY <1>1, <4>2
      <4>4. QED
        BY <4>1, <4>3 DEF SameCall
    <3>2. /\ Written(Session(Top.tx), w) \in Sessions
          /\ Written(Session(Top.tx), w).open = Session(Top.tx).open
          /\ Written(Session(Top.tx), w).saves = Session(Top.tx).saves
      BY <1>1, <2>1, StatementFacts
    <3>3. Session(Top.tx).open
      BY <2>3 DEF Accepts
    <3>4. QED
      BY <2>1, <2>3, <3>1, <3>2, <3>3, StatementNested
  <2>4. QED
    BY <1>3, <2>2, <2>3 DEF Exec
<1>4. QED
  BY <1>2, <1>3

(* The top frame returns: its session is closed when it owns it, or stays   *)
(* as it is, or goes back to the savepoint of the frame.                    *)
Settled(s) ==
  \/ s = Session(Top.tx)
  \/ s = NoSession /\ Owner(depth) /\ ~Nested(frame[depth - 1].tx)
  \/ /\ Session(Top.tx).open
     /\ \E name \in Nat : /\ Holds(depth, name)
                          /\ \/ s = RolledBackTo(Session(Top.tx), name)
                             \/ s = Released(Session(Top.tx), name)

(* Where the savepoint of the top frame is. *)
LEMMA TopSavepoint ==
  ASSUME SInv, NEW name \in Nat, Holds(depth, name), Session(Top.tx).open
  PROVE  /\ Session(Top.tx) \in Sessions /\ Unique(Session(Top.tx))
         /\ \E i \in DOMAIN Session(Top.tx).saves :
              /\ Session(Top.tx).saves[i].name = name
              /\ \A d \in 1..(depth - 1) : \A n \in Nat : \A j \in DOMAIN Session(Top.tx).saves :
                   /\ SessionOf(frame[d].tx) = SessionOf(Top.tx)
                   /\ Holds(d, n) /\ Session(Top.tx).saves[j].name = n
                   => j < i
<1>1. /\ depth \in 1..depth /\ SessionOf(Top.tx) \in 0..MaxTx /\ Top = frame[depth]
      /\ \A d \in 1..(depth - 1) : d \in 1..depth /\ d < depth
  BY FrameFacts, TopFacts DEF SInv, Top
<1>2. /\ Session(Top.tx) = session[SessionOf(Top.tx)]
      /\ Saves(Top.tx) = Session(Top.tx).saves
      /\ \A d : SessionOf(frame[d].tx) = SessionOf(Top.tx) => Saves(frame[d].tx) = Saves(Top.tx)
  BY DEF Session, Saves
<1>3. Session(Top.tx) \in Sessions /\ Unique(Session(Top.tx))
  BY <1>1, <1>2 DEF SInv, NestInv, NamesInv
<1>4. PICK i \in DOMAIN Session(Top.tx).saves : Session(Top.tx).saves[i].name = name
  BY <1>1, <1>2 DEF SInv, NestInv, HeldInv
<1>5. ASSUME NEW d \in 1..(depth - 1), NEW n \in Nat, NEW j \in DOMAIN Session(Top.tx).saves,
             SessionOf(frame[d].tx) = SessionOf(Top.tx), Holds(d, n),
             Session(Top.tx).saves[j].name = n
      PROVE  j < i
  <2>1. Saves(frame[d].tx) = Session(Top.tx).saves /\ SessionOf(frame[d].tx) = SessionOf(frame[depth].tx)
    BY <1>1, <1>2, <1>5
  <2>2. OrderInv
    BY DEF SInv, NestInv
  <2>3. d \in 1..depth /\ depth \in 1..depth /\ d < depth
    BY <1>1
  <2>4. j \in DOMAIN Saves(frame[d].tx) /\ i \in DOMAIN Saves(frame[d].tx)
        /\ Saves(frame[d].tx)[j].name = n /\ Saves(frame[d].tx)[i].name = name
    BY <1>4, <1>5, <2>1
  <2>5. QED
    BY <1>5, <2>1, <2>2, <2>3, <2>4 DEF OrderInv
<1>6. QED
  BY <1>3, <1>4, <1>5

LEMMA SettleNested ==
  ASSUME SInv, depth > 1, NEW ws \in SUBSET (1..MaxWrites), Pop(ws),
         NEW s, SetSession(Top.tx, s), Settled(s),
         UNCHANGED <<txCount, spCount, expiredTx>>
  PROVE  NestedInv'
<1> DEFINE tx == SessionOf(Top.tx)
<1>1. /\ tx \in 0..MaxTx /\ session[tx] = Session(Top.tx) /\ session' = [session EXCEPT ![tx] = s]
      /\ session[tx] \in Sessions /\ Top = frame[depth] /\ tx = SessionOf(frame[depth].tx)
  BY TopFacts DEF SInv, Session, SetSession, Top
<1>2. /\ depth' = depth - 1 /\ depth' \in 1..depth /\ \A d \in 1..depth' : SameCall(d)
      /\ \A d \in 1..depth' : d \in 1..(depth - 1)
  BY PopFrames DEF SInv
<1> HIDE DEF tx
<1>3. CASE s = NoSession /\ Owner(depth) /\ ~Nested(frame[depth - 1].tx)
  <2>1. /\ session' \in [0..MaxTx -> Sessions] /\ session'[tx] = NoSession /\ ~session'[tx].open
        /\ \A y \in 0..MaxTx : y # tx => session'[y] = session[y]
    BY <1>1, <1>3, NewSessionFacts DEF SInv
  <2>2. \A y \in 0..MaxTx : Remains(y)
    BY <2>1 DEF Remains
  <2>3. NestInv'
    BY <1>2, <2>1, <2>2, PruneStep
  <2>4. depth \in 2..depth /\ depth \in 1..depth
    BY FrameFacts DEF SInv
  <2>5. RunInv'
    <3>1. CASE SharedSession
      <4>1. frame[depth - 1].tx = 0
        BY <1>3, <3>1 DEF Nested
      <4>2. \A d \in 1..depth' : frame[d].tx = 0
        BY <1>2, <1>3, <2>4, <3>1, <4>1 DEF SInv, RunInv
      <4>3. QED
        BY <1>2, <3>1, <4>2, RunKept
    <3>2. CASE ~SharedSession
      <4>1. \A d \in 1..depth' : frame[d].tx < Top.tx
        BY <1>1, <1>2, <1>3, <2>4 DEF SInv, ShapeInv
      <4>2. \A d \in 1..depth' : frame[d].tx \in 0..MaxTx /\ frame[d].tx # Top.tx
        BY <1>2, <4>1, FrameFacts DEF SInv
      <4>3. \A d \in 1..depth' : session'[frame[d].tx] = session[frame[d].tx]
        BY <2>1, <3>2, <4>2 DEF tx, SessionOf
      <4>4. session'[0].open => session[0].open
        BY <2>1, BoundAssumption
      <4>5. QED
        BY <1>2, <3>2, <4>3, <4>4, RunKept
    <3>3. QED
      BY <3>1, <3>2
  <2>6. QED
    BY <1>2, <2>1, <2>3, <2>5, ShapeKept DEF NestedInv
<1>4. CASE s = Session(Top.tx)
  <2>1. session' = session
    BY <1>1, <1>4 DEF SInv
  <2>2. QED
    BY <1>2, <2>1, StutterNested
<1>5. ASSUME Session(Top.tx).open, NEW name \in Nat, Holds(depth, name),
             \/ s = RolledBackTo(Session(Top.tx), name)
             \/ s = Released(Session(Top.tx), name)
      PROVE  NestedInv'
  <2>1. /\ Session(Top.tx) \in Sessions /\ Unique(Session(Top.tx))
        /\ \E i \in DOMAIN Session(Top.tx).saves :
              /\ Session(Top.tx).saves[i].name = name
              /\ \A d \in 1..(depth - 1) : \A n \in Nat : \A j \in DOMAIN Session(Top.tx).saves :
                   /\ SessionOf(frame[d].tx) = SessionOf(Top.tx)
                   /\ Holds(d, n) /\ Session(Top.tx).saves[j].name = n
                   => j < i
    BY <1>5, TopSavepoint
  <2>2. PICK i \in DOMAIN session[tx].saves :
              /\ session[tx].saves[i].name = name
              /\ \A d \in 1..(depth - 1) : \A n \in Nat : \A j \in DOMAIN session[tx].saves :
                   SessionOf(frame[d].tx) = tx /\ Holds(d, n) /\ session[tx].saves[j].name = n
                   => j < i
    BY <1>1, <2>1 DEF tx
  <2>3. PICK n \in {i - 1, i} : Prefix(session[tx], s, n) /\ s \in Sessions /\ s.open
    <3>1. CASE s = RolledBackTo(session[tx], session[tx].saves[i].name)
      BY <1>1, <1>5, <2>1, <2>2, <3>1, RolledBackToFacts
    <3>2. CASE s = Released(session[tx], session[tx].saves[i].name)
      BY ZenonT(60), <1>1, <1>5, <2>1, <2>2, <3>2, ReleasedFacts
    <3>3. QED
      BY SMTT(30), <1>1, <1>5, <2>2, <3>1, <3>2
  <2>4. /\ session' \in [0..MaxTx -> Sessions] /\ session'[tx] = s
        /\ \A y \in 0..MaxTx : y # tx => session'[y] = session[y]
        /\ \A y \in 0..MaxTx : session'[y].open = session[y].open
    BY <1>1, <1>5, <2>3 DEF SInv
  <2>5. ASSUME NEW y \in 0..MaxTx
        PROVE  Remains(y)
    <3>1. CASE y # tx
      BY <2>4, <3>1 DEF Remains
    <3>2. CASE y = tx
      <4>1. n \in 0..Len(session[y].saves) /\ Prefix(session[y], session'[y], n)
        BY <2>3, <2>4, <3>2 DEF Prefix
      <4>2. \A j \in DOMAIN session[y].saves : j < i => j <= n
        BY <2>2, <2>3, <3>2, <1>1, SessionFields
      <4>3. \A d \in 1..depth' : \A m \in Nat : \A j \in DOMAIN session[y].saves :
              SessionOf(frame[d].tx) = y /\ Holds(d, m) /\ session[y].saves[j].name = m => j <= n
        BY <1>2, <2>2, <3>2, <4>2
      <4>4. session'[y].open /\ session[y].open
        BY <1>1, <1>5, <2>4, <3>2
      <4>5. QED
        BY <4>1, <4>3, <4>4 DEF Remains
    <3>3. QED
      BY <3>1, <3>2
  <2>6. NestInv'
    BY <1>2, <2>4, <2>5, PruneStep
  <2>7. RunInv'
    <3>1. 0 \in 0..MaxTx /\ \A d \in 1..depth' : frame[d].tx \in 0..MaxTx
      BY <1>2, FrameFacts, BoundAssumption DEF SInv
    <3>2. QED
      BY <1>2, <2>4, <3>1, RunKept
  <2>8. QED
    BY <1>2, <2>4, <2>6, <2>7, ShapeKept DEF NestedInv
<1>6. QED
  BY <1>3, <1>4, <1>5 DEF Settled

(* A call returns. *)
LEMMA ReturnNested ==
  ASSUME SInv, NEW outcome \in Outcomes,
         \/ DirectReturns(outcome) \/ SavepointReturns(outcome)
         \/ RollbackReturns(outcome) \/ CommitReturns(outcome)
  PROVE  NestedInv'
<1> DEFINE s0 == Session(Top.tx)
<1>1. /\ Top = frame[depth] /\ Top.tx \in 0..MaxTx /\ Top.writes \in SUBSET (1..MaxWrites)
      /\ {} \in SUBSET (1..MaxWrites) /\ Top.tx \in Nat /\ Top.name \in Nat
      /\ SessionOf(Top.tx) \in 0..MaxTx
  BY TopFacts, FrameFacts DEF SInv, Top
<1>2. ASSUME UNCHANGED session PROVE SetSession(Top.tx, s0) /\ Settled(s0)
  BY <1>1, <1>2 DEF SInv, SetSession, Session, Settled
<1>3. CASE DirectReturns(outcome)
  <2>1. /\ depth > 1 /\ Pop(Top.writes) /\ UNCHANGED <<session, txCount, spCount, expiredTx>>
    BY <1>3 DEF DirectReturns, Ends, counters
  <2>2. QED
    BY <1>1, <1>2, <2>1, SettleNested
<1>4. CASE SavepointReturns(outcome)
  <2>1. /\ depth > 1 /\ UNCHANGED <<txCount, spCount, expiredTx>>
        /\ Top.kind = "savepoint" /\ (Pop(Top.writes) \/ Pop({}))
    BY <1>4 DEF SavepointReturns, Ends, counters
  <2>2. Holds(depth, Top.name)
    BY <1>1, <2>1 DEF Holds
  <2>3. \/ UNCHANGED session
        \/ s0.open /\ SetSession(Top.tx, RolledBackTo(s0, Top.name))
        \/ s0.open /\ SetSession(Top.tx, Released(s0, Top.name))
    BY <1>4 DEF SavepointReturns, Accepts
  <2>4. CASE UNCHANGED session
    BY <1>1, <1>2, <2>1, <2>4, SettleNested
  <2>5. CASE s0.open /\ SetSession(Top.tx, RolledBackTo(s0, Top.name))
    <3>1. Settled(RolledBackTo(s0, Top.name))
      BY <1>1, <2>2, <2>5 DEF Settled
    <3>2. QED
      BY <1>1, <2>1, <2>5, <3>1, SettleNested
  <2>6. CASE s0.open /\ SetSession(Top.tx, Released(s0, Top.name))
    <3>1. Settled(Released(s0, Top.name))
      BY <1>1, <2>2, <2>6 DEF Settled
    <3>2. QED
      BY <1>1, <2>1, <2>6, <3>1, SettleNested
  <2>7. QED
    BY <2>3, <2>4, <2>5, <2>6
<1> DEFINE parentTx == frame[depth - 1].tx
<1>5. ASSUME Owner(depth), Nested(parentTx), s0.open
      PROVE  Settled(RolledBackTo(s0, TxSavepoint(Top.tx))) /\ Settled(Released(s0, TxSavepoint(Top.tx)))
  <2>1. Holds(depth, Top.tx) /\ TxSavepoint(Top.tx) = Top.tx
    BY <1>1, <1>5 DEF Holds, TxSavepoint
  <2>2. QED
    BY <1>1, <1>5, <2>1 DEF Settled
<1>6. CASE RollbackReturns(outcome)
  <2>1. /\ depth > 1 /\ Owner(depth) /\ Rollback(parentTx) /\ Pop({})
        /\ UNCHANGED <<txCount, spCount, expiredTx>>
    BY <1>1, <1>6 DEF RollbackReturns, Ends, Owner, counters
  <2>2. CASE ~s0.open
    <3>1. UNCHANGED session
      BY <2>1, <2>2 DEF Rollback
    <3>2. QED
      BY <1>1, <1>2, <2>1, <3>1, SettleNested
  <2>3. CASE s0.open /\ Nested(parentTx)
    <3>1. SetSession(Top.tx, RolledBackTo(s0, TxSavepoint(Top.tx)))
      BY <2>1, <2>3 DEF Rollback
    <3>2. QED
      BY <1>1, <1>5, <2>1, <2>3, <3>1, SettleNested
  <2>4. CASE s0.open /\ ~Nested(parentTx)
    <3>1. SetSession(Top.tx, NoSession) /\ Settled(NoSession)
      BY <2>1, <2>4 DEF Rollback, Settled
    <3>2. QED
      BY <1>1, <2>1, <3>1, SettleNested
  <2>5. QED
    BY <2>2, <2>3, <2>4
<1>7. CASE CommitReturns(outcome)
  <2>1. /\ depth > 1 /\ Owner(depth) /\ UNCHANGED <<txCount, spCount, expiredTx>>
        /\ CommitAccepted(parentTx) \/ CommitFails(parentTx)
    BY <1>1, <1>7 DEF CommitReturns, Ends, Owner, counters
  <2>2. CASE CommitAccepted(parentTx) /\ Nested(parentTx)
    <3>1. SetSession(Top.tx, Released(s0, TxSavepoint(Top.tx))) /\ s0.open /\ Pop(Top.writes)
      BY <2>2 DEF CommitAccepted, Accepts
    <3>2. QED
      BY <1>1, <1>5, <2>1, <2>2, <3>1, SettleNested
  <2>3. CASE CommitAccepted(parentTx) /\ ~Nested(parentTx)
    <3>1. SetSession(Top.tx, NoSession) /\ Pop({}) /\ Settled(NoSession)
      BY <2>1, <2>3 DEF CommitAccepted, Settled
    <3>2. QED
      BY <1>1, <2>1, <3>1, SettleNested
  <2>4. CASE CommitFails(parentTx)
    <3>1. /\ SetSession(Top.tx, s0) \/ SetSession(Top.tx, NoSession)
          /\ Pop({}) /\ ~Nested(parentTx)
      BY <2>4 DEF CommitFails
    <3>2. Settled(s0) /\ Settled(NoSession)
      BY <2>1, <3>1 DEF Settled
    <3>3. QED
      BY <1>1, <2>1, <3>1, <3>2, SettleNested
  <2>5. QED
    BY <2>1, <2>2, <2>3, <2>4
<1>8. QED
  BY <1>3, <1>4, <1>6, <1>7

(* The next try begins in a new transaction. *)
LEMMA RetryFacts ==
  ASSUME SInv, RollbackRetries
  PROVE  LET t == txCount + 1 IN
         /\ t \in 1..MaxTx /\ txCount \in 0..MaxTx /\ txCount' = t /\ depth > 1
         /\ depth \in 1..depth /\ Top = frame[depth] /\ frame[depth - 1].tx = 0
         /\ Top.kind = "serialized"
         /\ frame'[depth].kind = "serialized" /\ frame'[depth].tx = t /\ frame'[depth].writes = {}
         /\ depth' = depth /\ \A d \in 1..(depth - 1) : d \in 1..depth /\ frame'[d] = frame[d]
         /\ \A d \in 1..depth : frame[d].tx < t /\ frame[d].tx \in 0..MaxTx
         /\ session' = [session EXCEPT ![SessionOf(Top.tx)] = NoSession,
                                       ![SessionOf(t)] = Begun(FALSE)]
         /\ SessionOf(Top.tx) \in 0..MaxTx /\ SessionOf(t) \in 0..MaxTx
         /\ UNCHANGED <<spCount, writeCount, expiredTx>>
<1> DEFINE t == txCount + 1
           g == [Top EXCEPT !.tx = t, !.tries = @ + 1, !.writes = {}]
<1>1. /\ t \in 1..MaxTx /\ txCount \in 0..MaxTx /\ txCount' = t /\ depth > 1
      /\ Top.kind = "serialized" /\ depth' = depth
      /\ frame' = [frame EXCEPT ![depth] = g]
      /\ session' = [session EXCEPT ![SessionOf(Top.tx)] = NoSession, ![SessionOf(t)] = Begun(FALSE)]
      /\ UNCHANGED <<spCount, writeCount, expiredTx>>
  BY BoundAssumption DEF RollbackRetries, RetriesLeft, SInv, DataInv
<1>2. /\ depth \in 2..depth /\ depth \in 1..depth /\ depth \in 1..MaxDepth /\ Top \in Frames
      /\ \A d \in 1..(depth - 1) : d \in 1..depth /\ d # depth /\ d \in 1..MaxDepth
  BY <1>1, TopFacts, FrameFacts DEF SInv
<1>3. frame[depth - 1].tx = 0
  BY <1>1, <1>2 DEF SInv, ShapeInv, Top
<1>4. g.kind = "serialized" /\ g.tx = t /\ g.writes = {}
  BY <1>1, <1>2 DEF Frames
<1> HIDE DEF g
<1>5. frame'[depth] = g /\ \A d \in 1..(depth - 1) : frame'[d] = frame[d]
  BY <1>1, <1>2 DEF SInv, OInv, FrameInv
<1>6. \A d \in 1..depth : frame[d].tx < t /\ frame[d].tx \in 0..MaxTx
  <2>1. \A d \in 1..depth : frame[d].tx \in 0..MaxTx /\ frame[d].tx <= txCount
    BY FrameFacts DEF SInv, OInv, OwnerInv
  <2>2. QED
    BY <1>1, <2>1
<1>7. SessionOf(Top.tx) \in 0..MaxTx /\ SessionOf(t) \in 0..MaxTx
  BY <1>1, TopFacts DEF SInv, SessionOf
<1>8. QED
  BY <1>1, <1>2, <1>3, <1>4, <1>5, <1>6, <1>7 DEF Top

LEMMA RetryNested ==
  ASSUME SInv, RollbackRetries
  PROVE  NestedInv'
<1> DEFINE t == txCount + 1
<1>1. /\ t \in 1..MaxTx /\ txCount \in 0..MaxTx /\ txCount' = t /\ depth > 1
      /\ depth \in 1..depth /\ Top = frame[depth] /\ frame[depth - 1].tx = 0
      /\ Top.kind = "serialized"
      /\ frame'[depth].kind = "serialized" /\ frame'[depth].tx = t
      /\ depth' = depth /\ \A d \in 1..(depth - 1) : d \in 1..depth /\ frame'[d] = frame[d]
      /\ \A d \in 1..depth : frame[d].tx < t /\ frame[d].tx \in 0..MaxTx
      /\ session' = [session EXCEPT ![SessionOf(Top.tx)] = NoSession,
                                    ![SessionOf(t)] = Begun(FALSE)]
      /\ SessionOf(Top.tx) \in 0..MaxTx /\ SessionOf(t) \in 0..MaxTx
      /\ UNCHANGED <<spCount, writeCount, expiredTx>>
  BY RetryFacts
<1>2. /\ depth \in 2..depth /\ depth - 1 \in 1..depth /\ depth \in Nat
      /\ \A d \in 1..depth : d = depth \/ d \in 1..(depth - 1)
      /\ \A d \in 2..depth : d = depth \/ (d \in 2..(depth - 1) /\ d \in 1..depth)
      /\ \A d \in 2..(depth - 1) : d \in 1..(depth - 1) /\ d - 1 \in 1..(depth - 1)
  <2>1. depth \in Nat /\ depth > 1
    BY <1>1, FrameFacts DEF SInv
  <2>2. QED
    BY <2>1
<1>3. /\ \A y \in 0..MaxTx :
           session'[y] = IF y = SessionOf(t) THEN Begun(FALSE)
                         ELSE IF y = SessionOf(Top.tx) THEN NoSession ELSE session[y]
      /\ session' \in [0..MaxTx -> Sessions]
  <2>1. \A y \in 0..MaxTx :
           session'[y] = IF y = SessionOf(t) THEN Begun(FALSE)
                         ELSE IF y = SessionOf(Top.tx) THEN NoSession ELSE session[y]
    BY <1>1 DEF SInv
  <2>2. NoSession \in Sessions /\ Begun(FALSE) \in Sessions
    BY NewSessionFacts
  <2>3. session' \in [0..MaxTx -> Sessions]
    BY <1>1, <2>2 DEF SInv
  <2>4. QED
    BY <2>1, <2>3
<1>4. Begun(FALSE).open /\ Begun(FALSE).saves = <<>> /\ ~NoSession.open
  BY NewSessionFacts
<1>5. SharedSession => \A d \in 1..(depth - 1) : frame[d].tx = 0
  BY <1>1 DEF SInv, RunInv, Owner
<1>6. ShapeInv'
  <2>1. ASSUME NEW d \in 2..depth
        PROVE  /\ Owner(d)' => \A e \in 1..(d - 1) : frame'[e].tx < frame'[d].tx
               /\ ~Owner(d)' => frame'[d].tx \in {0, frame'[d - 1].tx}
               /\ frame'[d].kind = "savepoint" => frame'[d].tx # 0
               /\ frame'[d].kind = "serialized" => frame'[d - 1].tx = 0
    <3>1. CASE d = depth
      <4>1. depth - 1 \in 1..(depth - 1)
        BY <1>2
      <4>2. frame'[depth - 1].tx = 0
        BY <1>1, <4>1
      <4>3. QED
        BY <1>1, <3>1, <4>2 DEF Owner
    <3>2. CASE d \in 2..(depth - 1)
      <4>1. frame'[d] = frame[d] /\ frame'[d - 1] = frame[d - 1]
            /\ \A e \in 1..(d - 1) : frame'[e] = frame[e]
        BY <1>1, <1>2, <3>2
      <4>2. QED
        BY <1>2, <3>2, <4>1 DEF SInv, ShapeInv, Owner
    <3>3. QED
      BY <1>2, <3>1, <3>2
  <2>2. 1 \in 1..(depth - 1)
    BY <1>2
  <2>3. frame'[1] = frame[1]
    BY <1>1, <2>2
  <2>4. QED
    BY <1>1, <2>1, <2>3 DEF ShapeInv, SInv
<1>7. RunInv'
  <2>1. CASE SharedSession
    <3>1. session'[0].open
      BY <1>1, <1>3, <1>4, <2>1 DEF SessionOf
    <3>2. \A d \in 1..depth : \A e \in 1..(d - 1) : e \in 1..(depth - 1) /\ frame'[e].tx = 0
      BY <1>1, <1>2, <1>5, <2>1
    <3>3. QED
      BY <1>1, <2>1, <3>1, <3>2 DEF RunInv
  <2>2. CASE ~SharedSession
    <3>1. SessionOf(t) = t /\ SessionOf(Top.tx) = Top.tx /\ 0 \in 0..MaxTx /\ t # 0 /\ t \in 0..MaxTx
      BY <1>1, <2>2 DEF SessionOf
    <3>2. ~session'[0].open
      BY <1>3, <1>4, <2>2, <3>1 DEF SInv, RunInv
    <3>3. \A d \in 1..(depth - 1) : frame[d].tx < Top.tx /\ frame[d].tx < t
      BY <1>1, <1>2 DEF SInv, ShapeInv, Owner
    <3>4. \A d \in 1..(depth - 1) : frame[d].tx \in 0..MaxTx /\ frame[d].tx # Top.tx /\ frame[d].tx # t
      BY <1>1, <3>3
    <3>5. \A d \in 1..(depth - 1) : session'[frame[d].tx] = session[frame[d].tx]
      BY <1>3, <3>1, <3>4
    <3>6. session'[t].open
      BY <1>3, <1>4, <3>1
    <3>7. ASSUME NEW d \in 1..depth', frame'[d].tx # 0
          PROVE  session'[frame'[d].tx].open \/ frame'[d].tx \in expiredTx'
      <4>1. CASE d = depth
        BY <1>1, <3>6, <4>1
      <4>2. CASE d \in 1..(depth - 1)
        <5>1. frame'[d] = frame[d] /\ d \in 1..depth /\ session'[frame[d].tx] = session[frame[d].tx]
          BY <1>1, <3>5, <4>2
        <5>2. session[frame[d].tx].open \/ frame[d].tx \in expiredTx
          BY <2>2, <3>7, <5>1 DEF SInv, RunInv
        <5>3. QED
          BY <1>1, <5>1, <5>2
      <4>3. QED
        BY <1>1, <1>2, <4>1, <4>2
    <3>8. QED
      BY <2>2, <3>2, <3>7 DEF RunInv
  <2>3. QED
    BY <2>1, <2>2
<1>8. NestInv'
  <2>1. depth - 1 \in 0..depth /\ depth' \in Nat /\ depth - 1 <= depth'
    BY <1>1, <1>2
  <2>2. \A d \in 1..(depth - 1) : SameCall(d)
    BY <1>1 DEF SameCall
  <2>3. \A d \in ((depth - 1) + 1)..depth' : \A name \in Nat : ~Holds(d, name)'
    <3>1. \A d \in ((depth - 1) + 1)..depth' : d = depth /\ depth - 1 \in 1..(depth - 1)
      BY <1>1, <1>2
    <3>2. frame'[depth - 1].tx = 0 /\ frame'[depth].kind = "serialized"
      BY <1>1, <1>2
    <3>3. QED
      BY <3>1, <3>2 DEF Holds, Nested
  <2>4. CountersGrow
    BY <1>1 DEF CountersGrow, SInv, DataInv
  <2>5. ASSUME NEW y \in 0..MaxTx
        PROVE  Renewed(y, depth - 1)
    <3>1. CASE y \notin {SessionOf(t), SessionOf(Top.tx)}
      BY <1>3, <3>1 DEF Renewed
    <3>2. CASE y \in {SessionOf(t), SessionOf(Top.tx)}
      <4>1. (session'[y].open /\ session'[y].saves = <<>>) \/ session'[y] = NoSession
        BY <1>3, <1>4, <3>2
      <4>2. ASSUME NEW d \in 1..(depth - 1), NEW name \in Nat, Holds(d, name)
            PROVE  SessionOf(frame[d].tx) # y
        <5>1. frame[d].tx # 0
          BY <1>1, <4>2 DEF Holds, Owner, SInv, ShapeInv, OInv, OwnerInv
        <5>2. ~SharedSession
          BY <1>5, <5>1
        <5>3. frame[d].tx < Top.tx /\ frame[d].tx < t /\ frame[d].tx \in 0..MaxTx
          BY <1>1, <1>2 DEF SInv, ShapeInv, Owner
        <5>4. Top.tx \in 0..MaxTx
          BY <1>1
        <5>5. QED
          BY <1>1, <3>2, <5>2, <5>3, <5>4 DEF SessionOf
      <4>3. QED
        BY <4>1, <4>2 DEF Renewed
    <3>3. QED
      BY <3>1, <3>2
  <2>6. QED
    BY <1>3, <2>1, <2>2, <2>3, <2>4, <2>5, RenewStep
<1>9. QED
  BY <1>3, <1>6, <1>7, <1>8 DEF NestedInv

(* Contexts expire, and database/sql rolls transactions back. *)
LEMMA ExpireNested ==
  ASSUME SInv, NEW d \in 2..MaxDepth, Expire(d)
  PROVE  NestedInv'
<1>1. /\ UNCHANGED <<depth, session, txCount, spCount>> /\ expiredTx \subseteq expiredTx'
      /\ frame' = [i \in 1..MaxDepth |->
                      IF i \in d..depth THEN [frame[i] EXCEPT !.expired = TRUE] ELSE frame[i]]
  BY DEF Expire, counters
<1>2. \A i \in 1..depth : i \in 1..MaxDepth /\ frame[i] \in Frames
  BY FrameFacts DEF SInv
<1>3. \A i \in 1..depth : SameCall(i)
  <2> SUFFICES ASSUME NEW i \in 1..depth PROVE SameCall(i)
    OBVIOUS
  <2> DEFINE f == [frame[i] EXCEPT !.expired = TRUE]
  <2>1. f.kind = frame[i].kind /\ f.tx = frame[i].tx /\ f.name = frame[i].name
    BY <1>2 DEF Frames
  <2>2. frame'[i] = IF i \in d..depth THEN f ELSE frame[i]
    BY <1>1, <1>2
  <2> HIDE DEF f
  <2>3. QED
    BY <2>1, <2>2 DEF SameCall
<1>4. depth' \in 1..depth
  BY <1>1, FrameFacts DEF SInv
<1>5. QED
  BY <1>1, <1>3, <1>4, StutterNested

LEMMA AwaitDoneNested ==
  ASSUME SInv, NEW tx \in 1..MaxTx, AwaitDone(tx)
  PROVE  NestedInv'
<1>1. /\ ~SharedSession /\ tx \in expiredTx /\ session' = [session EXCEPT ![tx] = NoSession]
      /\ UNCHANGED <<depth, frame, txCount, spCount, expiredTx>>
  BY DEF AwaitDone, counters
<1>2. /\ depth' \in 1..depth /\ \A d \in 1..depth' : SameCall(d)
      /\ \A d \in 1..depth' : frame[d].tx \in 0..MaxTx
  BY <1>1, FrameFacts DEF SInv, SameCall
<1>3. /\ session' \in [0..MaxTx -> Sessions]
      /\ \A y \in 0..MaxTx : session'[y] = IF y = tx THEN NoSession ELSE session[y]
  BY <1>1, NewSessionFacts, BoundAssumption DEF SInv
<1>4. \A y \in 0..MaxTx : Remains(y)
  BY <1>3 DEF Remains
<1>5. NestInv'
  BY <1>1, <1>2, <1>3, <1>4, PruneStep
<1>6. RunInv'
  <2>1. 0 \in 0..MaxTx /\ 0 # tx
    BY BoundAssumption
  <2>2. QED
    BY <1>1, <1>2, <1>3, <2>1, RunKept
<1>7. QED
  BY <1>2, <1>3, <1>5, <1>6, ShapeKept DEF NestedInv

-------------------------------------------------------------------------------
(* The other variables have their types. *)

LEMMA DataStep ==
  ASSUME SInv, [Next]_vars
  PROVE  DataInv'
<1>1. /\ DataInv /\ Top.tx \in 0..MaxTx /\ Top.writes \in SUBSET (1..MaxWrites)
      /\ Top.tries \in 0..Retries
  BY TopFacts, FrameFacts DEF SInv, Top
<1>2. CASE Call
  <2>1. ASSUME NEW f \in Frames, Direct(f)
        PROVE  DataInv'
    BY <1>1, <2>1 DEF DataInv, Direct, counters, history
  <2>2. ASSUME NEW f \in Frames, NEW opts \in TxOptions, BeginFrame(f, opts)
        PROVE  DataInv'
    <3>1. /\ txCount + 1 \in 1..MaxTx /\ txCount' = txCount + 1
          /\ options' = [options EXCEPT ![txCount + 1] = opts]
          /\ UNCHANGED <<spCount, writeCount, unwinding, expiredTx, durable, history>>
      BY SMTT(30), <1>1, <2>2, BoundAssumption DEF BeginFrame, Begin, DataInv
    <3>2. txCount' \in 0..MaxTx /\ options' \in [0..MaxTx -> TxOptions]
      BY <1>1, <3>1, BoundAssumption DEF DataInv
    <3>3. QED
      BY <1>1, <3>1, <3>2 DEF DataInv, history
  <2>3. CASE TransactionSavepoint
    <3>1. spCount' \in 0..MaxSavepoints
      BY SMTT(30), <1>1, <2>3, BoundAssumption DEF TransactionSavepoint, DataInv
    <3>2. UNCHANGED <<options, txCount, writeCount, unwinding, expiredTx, durable, history>>
      BY <2>3 DEF TransactionSavepoint
    <3>3. QED
      BY <1>1, <3>1, <3>2 DEF DataInv, history
  <2>4. QED
    BY <1>2, <2>1, <2>2, <2>3, CallKinds
<1>3. CASE Exec
  <2>1. /\ writeCount' = writeCount + 1 /\ writeCount' \in 0..MaxWrites
        /\ writeCount + 1 \in 1..MaxWrites
        /\ UNCHANGED <<options, txCount, spCount, unwinding, expiredTx, undone, failed, returned>>
    BY <1>1, <1>3, BoundAssumption DEF Exec, DataInv
  <2>2. durable' \in {durable, durable \cup {writeCount + 1}}
        /\ kept' \in {kept, kept \cup {writeCount + 1}}
    BY <1>3 DEF Exec
  <2>3. durable' \in SUBSET (1..MaxWrites) /\ kept' \in SUBSET (1..MaxWrites)
    BY <1>1, <2>1, <2>2 DEF DataInv
  <2>4. QED
    BY <1>1, <2>1, <2>3 DEF DataInv
<1>4. CASE ExecFails
  BY <1>1, <1>4 DEF ExecFails, DataInv, counters, history
<1>5. ASSUME NEW outcome \in Outcomes,
             \/ DirectReturns(outcome) \/ SavepointReturns(outcome)
             \/ RollbackReturns(outcome) \/ CommitReturns(outcome)
      PROVE  DataInv'
  <2>1. unwinding' \in BOOLEAN /\ UNCHANGED <<options, txCount, spCount, writeCount, expiredTx>>
    BY <1>5 DEF DirectReturns, SavepointReturns, RollbackReturns, CommitReturns, Ends, counters
  <2>2. /\ undone' \in {undone, undone \cup Top.writes}
        /\ failed' \in {failed, failed \cup Top.writes}
        /\ kept' \in {kept, kept \cup Top.writes}
    BY <1>5 DEF DirectReturns, SavepointReturns, RollbackReturns, CommitReturns, history,
                CommitAccepted, CommitFails, Rollback, ReturnsNil, ReturnsError, CommitErrorReturned
  <2>3. durable' \in {durable, durable \cup Session(Top.tx).writes}
    BY <1>5 DEF DirectReturns, SavepointReturns, RollbackReturns, CommitReturns, history,
                CommitAccepted, CommitFails
  <2>4. Session(Top.tx).writes \in SUBSET (1..MaxWrites)
    BY TopFacts, SessionFields DEF SInv, Session
  <2>5. /\ undone' \in SUBSET (1..MaxWrites) /\ failed' \in SUBSET (1..MaxWrites)
        /\ kept' \in SUBSET (1..MaxWrites) /\ durable' \in SUBSET (1..MaxWrites)
    BY <1>1, <2>2, <2>3, <2>4 DEF DataInv
  <2>6. returned' \in [tries : 0..Retries, error : {"none", "error", "serialization", "panic"}]
    <3>1. ASSUME NEW error \in {"none", "error", "serialization", "panic"}, LoopReturns(error)
          PROVE  returned' \in [tries : 0..Retries, error : {"none", "error", "serialization", "panic"}]
      BY <1>1, <3>1 DEF LoopReturns, DataInv
    <3>2. CASE UNCHANGED returned
      BY <1>1, <3>2 DEF DataInv
    <3>3. CASE RollbackReturns(outcome)
      BY <3>1, <3>3 DEF RollbackReturns, Errors
    <3>4. CASE CommitReturns(outcome)
      BY <3>1, <3>4 DEF CommitReturns, CommitAccepted, CommitFails, Errors
    <3>5. QED
      BY <1>5, <3>2, <3>3, <3>4 DEF DirectReturns, SavepointReturns, history
  <2>7. QED
    BY <1>1, <2>1, <2>5, <2>6 DEF DataInv
<1>6. CASE RollbackRetries
  <2>1. /\ txCount' \in 0..MaxTx /\ txCount + 1 \in 0..MaxTx
        /\ undone' \in SUBSET (1..MaxWrites) /\ failed' \in SUBSET (1..MaxWrites)
        /\ options' = [options EXCEPT ![txCount + 1] = options[Top.tx]]
        /\ UNCHANGED <<spCount, writeCount, unwinding, expiredTx, durable, kept, returned>>
    BY SMTT(30), <1>1, <1>6, BoundAssumption DEF RollbackRetries, ReturnsError, DataInv
  <2>2. options' \in [0..MaxTx -> TxOptions]
    BY <1>1, <2>1 DEF DataInv
  <2>3. QED
    BY <1>1, <2>1, <2>2 DEF DataInv
<1>7. ASSUME NEW d \in 2..MaxDepth, Expire(d)
      PROVE  DataInv'
  <2>1. /\ UNCHANGED <<options, txCount, spCount, writeCount, unwinding, durable, history>>
        /\ expiredTx' = expiredTx \cup {frame[i].tx : i \in {j \in d..depth :
                                     frame[j].kind \in {"own", "serialized"}}}
    BY <1>7 DEF Expire, counters
  <2>2. \A i \in d..depth : i \in 1..depth /\ frame[i].tx \in 0..MaxTx
    BY FrameFacts DEF SInv
  <2>3. \A i \in d..depth : frame[i].kind \in {"own", "serialized"} => frame[i].tx \in 1..MaxTx
    BY <2>2 DEF SInv, OInv, OwnerInv, Owner
  <2>4. expiredTx' \in SUBSET (1..MaxTx)
    BY <1>1, <2>1, <2>3 DEF DataInv
  <2>5. QED
    BY <1>1, <2>1, <2>4 DEF DataInv, history
<1>8. ASSUME NEW tx \in 1..MaxTx, AwaitDone(tx)
      PROVE  DataInv'
  <2>1. /\ UNCHANGED <<options, txCount, spCount, writeCount, unwinding, expiredTx, durable, kept,
                       failed, returned>>
        /\ undone' = undone \cup session[tx].writes
    BY <1>8 DEF AwaitDone, counters
  <2>2. session[tx].writes \in SUBSET (1..MaxWrites)
    BY SessionFields DEF SInv
  <2>3. undone' \in SUBSET (1..MaxWrites)
    BY <1>1, <2>1, <2>2 DEF DataInv
  <2>4. QED
    BY <1>1, <2>1, <2>3 DEF DataInv
<1>9. CASE UNCHANGED vars
  BY <1>1, <1>9 DEF DataInv, vars, counters, history
<1>10. QED
  BY <1>2, <1>3, <1>4, <1>5, <1>6, <1>7, <1>8, <1>9 DEF Next, Return

-------------------------------------------------------------------------------
(* The invariant and what follows from it. *)

LEMMA InitSInv == Init => SInv
<1> SUFFICES ASSUME Init PROVE SInv
  OBVIOUS
<1>1. OInv
  BY InitOInv
<1>2. DataInv
  <2>1. /\ options = [tx \in 0..MaxTx |-> NilOptions] /\ NilOptions \in TxOptions
    BY DEF Init, TxOptions
  <2>2. /\ txCount = 0 /\ spCount = 0 /\ writeCount = 0 /\ unwinding = FALSE /\ expiredTx = {}
        /\ durable = {} /\ kept = {} /\ undone = {} /\ failed = {}
        /\ returned = [tries |-> 0, error |-> "none"]
    BY DEF Init
  <2>3. /\ MaxTx \in Nat /\ MaxSavepoints \in Nat /\ MaxWrites \in Nat /\ Retries \in Nat
    BY BoundAssumption
  <2>4. options \in [0..MaxTx -> TxOptions]
    BY <2>1
  <2>5. txCount \in 0..MaxTx /\ spCount \in 0..MaxSavepoints /\ writeCount \in 0..MaxWrites
    BY <2>2, <2>3
  <2>6. returned \in [tries : 0..Retries, error : {"none", "error", "serialization", "panic"}]
    BY <2>2, <2>3
  <2>7. /\ unwinding \in BOOLEAN /\ expiredTx \in SUBSET (1..MaxTx)
        /\ durable \in SUBSET (1..MaxWrites) /\ kept \in SUBSET (1..MaxWrites)
        /\ undone \in SUBSET (1..MaxWrites) /\ failed \in SUBSET (1..MaxWrites)
    BY <2>2
  <2>8. QED
    BY <2>4, <2>5, <2>6, <2>7 DEF DataInv
<1>3. NoSession \in Sessions /\ ~NoSession.open /\ NoSession.saves = <<>> /\ NoSession.writes = {}
  BY NewSessionFacts
<1>4. session \in [0..MaxTx -> Sessions] /\ \A tx \in 0..MaxTx : session[tx] = NoSession
  BY <1>3 DEF Init
<1>5. /\ depth = 1 /\ 1 \in 1..MaxDepth /\ frame[1] = NoFrame
  BY BoundAssumption DEF Init
<1>6. frame[1].kind = "plain" /\ frame[1].tx = 0
  BY <1>5 DEF NoFrame
<1>7. ShapeInv
  BY <1>5, <1>6 DEF ShapeInv
<1>8. RunInv
  BY <1>3, <1>4, <1>5, <1>6, BoundAssumption DEF RunInv, Owner
<1>9. NamesInv
  <2>1. \A tx \in 0..MaxTx : session[tx].saves = <<>> /\ DOMAIN session[tx].saves = {}
    BY <1>3, <1>4
  <2>2. QED
    BY <1>3, <1>4, <2>1 DEF NamesInv, Unique
<1>10. HeldInv /\ OrderInv
  <2>1. \A d \in 1..depth : \A name \in Nat : ~Holds(d, name)
    BY <1>5, <1>6 DEF Holds, Owner
  <2>2. QED
    BY <2>1 DEF HeldInv, OrderInv
<1>11. QED
  BY <1>1, <1>2, <1>4, <1>7, <1>8, <1>9, <1>10 DEF SInv, NestInv

LEMMA SInvInductive ==
  ASSUME SInv, [Next]_vars
  PROVE  SInv'
<1>1. OInv' /\ DataInv'
  BY OInvInductive, DataStep DEF SInv
<1>2. NestedInv'
  <2>1. CASE Call
    <3>1. depth < MaxDepth
      BY <2>1, CallKinds
    <3>2. ASSUME NEW f \in Frames, Direct(f), f.kind \in {"plain", "pass", "serializedPass"},
                 f.tx \in {0, Top.tx}
          PROVE  NestedInv'
      BY <3>1, <3>2, DirectNested
    <3>3. ASSUME NEW f \in Frames, NEW opts \in TxOptions, BeginFrame(f, opts),
                 f.kind \in {"own", "serialized"}, f.kind = "serialized" => Top.tx = 0
          PROVE  NestedInv'
      BY <3>1, <3>3, BeginNested
    <3>4. CASE TransactionSavepoint
      BY <3>1, <3>4, SavepointNested
    <3>5. QED
      BY <2>1, <3>2, <3>3, <3>4, CallKinds
  <2>2. CASE Exec \/ ExecFails
    BY <2>2, ExecNested
  <2>3. CASE Return
    BY <2>3, ReturnNested, RetryNested DEF Return
  <2>4. ASSUME NEW d \in 2..MaxDepth, Expire(d)
        PROVE  NestedInv'
    BY <2>4, ExpireNested
  <2>5. ASSUME NEW tx \in 1..MaxTx, AwaitDone(tx)
        PROVE  NestedInv'
    BY <2>5, AwaitDoneNested
  <2>6. CASE UNCHANGED vars
    <3>1. /\ UNCHANGED <<session, txCount, spCount, expiredTx, depth, frame>>
      BY <2>6 DEF vars, counters
    <3>2. depth' \in 1..depth /\ (\A d \in 1..depth' : SameCall(d)) /\ expiredTx \subseteq expiredTx'
      BY <3>1, FrameFacts DEF SInv, SameCall
    <3>3. QED
      BY <3>1, <3>2, StutterNested
  <2>7. QED
    BY <2>1, <2>2, <2>3, <2>4, <2>5, <2>6 DEF Next
<1>3. QED
  BY <1>1, <1>2 DEF SInv, NestedInv

LEMMA SInvAlways == Spec => []SInv
BY InitSInv, SInvInductive, PTL DEF Spec

(* The transaction functions never leave the types of their state: in       *)
(* particular every release and every rollback of a savepoint finds the     *)
(* savepoint it names on its session.                                       *)
THEOREM TransactionsTypes == Spec => []TypeOK
<1>1. SInv => TypeOK
  <2> SUFFICES ASSUME SInv PROVE TypeOK
    OBVIOUS
  <2>1. /\ depth \in 1..MaxDepth /\ frame \in [1..MaxDepth -> Frames]
        /\ session \in [0..MaxTx -> Sessions] /\ DataInv
    BY DEF SInv, OInv, FrameInv
  <2>2. \A writes \in {durable, kept, undone, failed} : writes \in SUBSET (1..MaxWrites)
    BY <2>1 DEF DataInv
  <2>3. QED
    BY <2>1, <2>2 DEF TypeOK, DataInv
<1>2. QED
  BY <1>1, SInvAlways, PTL

(* transaction.go:57, db/transaction.go:336: whatever is called within      *)
(* whatever, and whatever fails in between, a txFunc that runs within a     *)
(* transaction has it open at the server, with the savepoint its call will  *)
(* release or roll back to, unless the context of the transaction is done.  *)
THEOREM TransactionRuns == Spec => []RunningIsOpen
<1>1. SInv => RunningIsOpen
  <2> SUFFICES ASSUME SInv, NEW d \in 1..depth, frame[d].tx # 0, frame[d].tx \notin expiredTx
               PROVE  /\ Session(frame[d].tx).open
                      /\ frame[d].kind = "savepoint" =>
                           Saved(Session(frame[d].tx), frame[d].name) # {}
    BY DEF RunningIsOpen
  <2>1. Session(frame[d].tx).open
    BY DEF SInv, RunInv, Session, SessionOf
  <2>2. ASSUME frame[d].kind = "savepoint"
        PROVE  Saved(Session(frame[d].tx), frame[d].name) # {}
    <3>1. Holds(d, frame[d].name) /\ frame[d].name \in Nat
      BY <2>2, FrameFacts DEF Holds, SInv
    <3>2. \E i \in DOMAIN Saves(frame[d].tx) : Saves(frame[d].tx)[i].name = frame[d].name
      BY <2>1, <3>1 DEF SInv, NestInv, HeldInv
    <3>3. QED
      BY <3>2 DEF Saved, Saves, Session
  <2>3. QED
    BY <2>1, <2>2
<1>2. QED
  BY <1>1, SInvAlways, PTL

===============================================================================
