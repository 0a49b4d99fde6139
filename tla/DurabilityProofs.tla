---------------------------- MODULE DurabilityProofs ----------------------------
(***************************************************************************)
(* Proofs about the writes of module Transactions: what was rolled back is *)
(* gone, and on a pool what a call reported as committed is durable.       *)
(***************************************************************************)
EXTENDS TransactionsProofs

(* Writes are numbered, and a savepoint is numbered like the next write.    *)
BoundedInv ==
  /\ \A w \in durable \cup undone : w <= writeCount
  /\ \A d \in 1..depth : \A w \in frame[d].writes : w <= writeCount
  /\ \A tx \in 0..MaxTx : \A w \in session[tx].writes : w <= writeCount
  /\ \A tx \in 0..MaxTx : \A i \in DOMAIN session[tx].saves :
       session[tx].saves[i].at <= writeCount + 1

(* A write is durable, rolled back or pending in one session. *)
ApartInv ==
  /\ durable \cap undone = {}
  /\ \A tx \in 0..MaxTx : session[tx].writes \cap (durable \cup undone) = {}
  /\ \A tx, t \in 0..MaxTx : tx # t => session[tx].writes \cap session[t].writes = {}

(* The writes of a running call are not durable yet, those that are pending *)
(* are in its session, and its caller has none in a transaction that it     *)
(* begins on a shared session.                                              *)
PlacedInv ==
  /\ \A d \in 1..depth : frame[d].writes \cap durable = {}
  /\ \A d \in 1..depth : \A tx \in 0..MaxTx :
       frame[d].writes \cap session[tx].writes # {} => tx = SessionOf(frame[d].tx)
  /\ SharedSession =>
       \A d \in 2..depth : Owner(d) /\ frame[d - 1].tx = 0 =>
         \A e \in 1..(d - 1) : frame[e].writes \cap session[0].writes = {}
  /\ ~SharedSession => \A d \in 1..depth : frame[d].tx = 0 => frame[d].writes = {}

(* A savepoint was set before the writes of its call and of those within it. *)
CoverInv ==
  \A d \in 1..depth : \A name \in Nat : Holds(d, name) =>
    \A i \in DOMAIN Saves(frame[d].tx) : Saves(frame[d].tx)[i].name = name =>
      \A e \in d..depth : \A w \in frame[e].writes : Saves(frame[d].tx)[i].at <= w

WInv == BoundedInv /\ ApartInv /\ PlacedInv /\ CoverInv

-------------------------------------------------------------------------------
(* Steps that make no write.                                                *)

(* Writes of a frame are its own, or those of a frame within it. *)
FramesInherit ==
  /\ \A d \in 1..depth' : \A w \in frame'[d].writes :
       \E e \in d..depth : w \in frame[e].writes /\ SessionOf(frame[e].tx) = SessionOf(frame'[d].tx)
  /\ \A d \in 1..(depth' - 1) : d \in 1..depth /\ frame'[d].writes \subseteq frame[d].writes

(* A transaction of a shared session begins without writes. *)
OutermostStay ==
  SharedSession =>
    \A d \in 2..depth' : Owner(d)' /\ frame'[d - 1].tx = 0 =>
      \/ d \in 2..depth /\ Owner(d) /\ frame[d - 1].tx = 0
      \/ session'[0].writes = {}

(* A savepoint is an old one of the same call, or the call has no writes.   *)
SavesStay ==
  \A d \in 1..depth' : \A name \in Nat : Holds(d, name)' =>
    \/ \A e \in d..depth' : frame'[e].writes = {}
    \/ /\ d \in 1..depth /\ Holds(d, name)
       /\ \A i \in DOMAIN session'[SessionOf(frame'[d].tx)].saves :
            session'[SessionOf(frame'[d].tx)].saves[i].name = name =>
              \E j \in DOMAIN Saves(frame[d].tx) :
                Saves(frame[d].tx)[j] = session'[SessionOf(frame'[d].tx)].saves[i]

SessionsShrink ==
  \A tx \in 0..MaxTx :
    /\ session'[tx].writes \subseteq session[tx].writes
    /\ \A i \in DOMAIN session'[tx].saves : session'[tx].saves[i].at <= writeCount + 1

(* What is committed was pending and is nowhere else. *)
Committed ==
  \A w \in durable' : w \in durable \/
    /\ \E tx \in 0..MaxTx : w \in session[tx].writes
    /\ w \notin undone'
    /\ \A tx \in 0..MaxTx : w \notin session'[tx].writes
    /\ \A d \in 1..depth' : w \notin frame'[d].writes

(* What is rolled back was not durable and is pending nowhere. *)
Undone ==
  \A w \in undone' : w \in undone \/
    /\ w <= writeCount
    /\ w \notin durable'
    /\ \A tx \in 0..MaxTx : w \notin session'[tx].writes

Settles ==
  /\ UNCHANGED writeCount
  /\ FramesInherit /\ OutermostStay /\ SavesStay /\ SessionsShrink /\ Committed /\ Undone

LEMMA BelowTop ==
  ASSUME NEW n \in Nat, NEW d \in 2..n, NEW e \in 1..(d - 1)
  PROVE  e \in 1..(n - 1)
OBVIOUS

(* Such a step keeps the invariant. *)
LEMMA SettlesWrites ==
  ASSUME SInv, WInv, Settles, depth' \in Nat, session' \in [0..MaxTx -> Sessions]
  PROVE  WInv'
<1>1. writeCount' = writeCount
  BY DEF Settles
<1>2. \A d \in 1..depth' : \A w \in frame'[d].writes :
        \E e \in 1..depth : /\ e \in d..depth /\ w \in frame[e].writes
                            /\ SessionOf(frame[e].tx) = SessionOf(frame'[d].tx)
  <2>1. \A d \in 1..depth' : \A e \in d..depth : e \in 1..depth
    BY FrameFacts DEF SInv
  <2>2. QED
    BY <2>1 DEF Settles, FramesInherit
<1>3. BoundedInv'
  <2>1. \A w \in durable' \cup undone' : w <= writeCount'
    BY <1>1 DEF Settles, Committed, Undone, WInv, BoundedInv
  <2>2. \A d \in 1..depth' : \A w \in frame'[d].writes : w <= writeCount'
    BY <1>1, <1>2 DEF WInv, BoundedInv
  <2>3. \A tx \in 0..MaxTx : \A w \in session'[tx].writes : w <= writeCount'
    BY <1>1 DEF Settles, SessionsShrink, WInv, BoundedInv
  <2>4. QED
    BY <1>1, <2>1, <2>2, <2>3 DEF Settles, SessionsShrink, BoundedInv
<1>4. ApartInv'
  <2>1. \A w \in durable' : w \notin undone'
    BY DEF Settles, Committed, Undone, WInv, ApartInv
  <2>2. \A tx \in 0..MaxTx : \A w \in session'[tx].writes : w \notin durable'
    BY DEF Settles, Committed, SessionsShrink, WInv, ApartInv
  <2>3. \A tx \in 0..MaxTx : \A w \in session'[tx].writes : w \notin undone'
    BY DEF Settles, Undone, SessionsShrink, WInv, ApartInv
  <2>4. \A tx, t \in 0..MaxTx : tx # t => session'[tx].writes \cap session'[t].writes = {}
    BY DEF Settles, SessionsShrink, WInv, ApartInv
  <2>5. QED
    BY <2>1, <2>2, <2>3, <2>4 DEF ApartInv
<1>5. PlacedInv'
  <2>1. \A d \in 1..depth' : \A w \in frame'[d].writes : w \notin durable'
    BY <1>2 DEF Settles, Committed, WInv, PlacedInv
  <2>2. ASSUME NEW d \in 1..depth', NEW tx \in 0..MaxTx,
               NEW w \in frame'[d].writes, w \in session'[tx].writes
        PROVE  tx = SessionOf(frame'[d].tx)
    <3>1. PICK e \in 1..depth : w \in frame[e].writes /\ SessionOf(frame[e].tx) = SessionOf(frame'[d].tx)
      BY <1>2
    <3>2. w \in session[tx].writes
      BY <2>2 DEF Settles, SessionsShrink
    <3>3. QED
      BY <3>1, <3>2 DEF WInv, PlacedInv
  <2>3. ASSUME SharedSession, NEW d \in 2..depth', Owner(d)', frame'[d - 1].tx = 0,
               NEW e \in 1..(d - 1), NEW w \in frame'[e].writes, w \in session'[0].writes
        PROVE  FALSE
    <3>1. d \in 2..depth /\ Owner(d) /\ frame[d - 1].tx = 0
      BY <2>3 DEF Settles, OutermostStay
    <3>2. e \in 1..(depth' - 1)
      BY <2>3, BelowTop
    <3>3. w \in frame[e].writes
      BY <2>3, <3>2 DEF Settles, FramesInherit
    <3>4. 0 \in 0..MaxTx
      BY BoundAssumption
    <3>5. w \in session[0].writes
      BY <2>3, <3>4 DEF Settles, SessionsShrink
    <3>6. QED
      BY <2>3, <3>1, <3>3, <3>5 DEF WInv, PlacedInv
  <2>4. ASSUME ~SharedSession, NEW d \in 1..depth', frame'[d].tx = 0, NEW w \in frame'[d].writes
        PROVE  FALSE
    <3>1. PICK e \in 1..depth : w \in frame[e].writes /\ SessionOf(frame[e].tx) = SessionOf(frame'[d].tx)
      BY <1>2
    <3>2. frame[e].tx = 0
      BY <2>4, <3>1 DEF SessionOf
    <3>3. QED
      BY <2>4, <3>1, <3>2 DEF WInv, PlacedInv
  <2>5. \A d \in 1..depth' : \A tx \in 0..MaxTx :
          frame'[d].writes \cap session'[tx].writes # {} => tx = SessionOf(frame'[d].tx)
    BY <2>2
  <2>6. SharedSession =>
          \A d \in 2..depth' : Owner(d)' /\ frame'[d - 1].tx = 0 =>
            \A e \in 1..(d - 1) : frame'[e].writes \cap session'[0].writes = {}
    BY <2>3
  <2>7. ~SharedSession => \A d \in 1..depth' : frame'[d].tx = 0 => frame'[d].writes = {}
    BY <2>4
  <2>8. QED
    BY <2>1, <2>5, <2>6, <2>7 DEF PlacedInv, Owner, SessionOf
<1>6. CoverInv'
  <2> SUFFICES ASSUME NEW d \in 1..depth', NEW name \in Nat, Holds(d, name)',
                      NEW i \in DOMAIN session'[SessionOf(frame'[d].tx)].saves,
                      session'[SessionOf(frame'[d].tx)].saves[i].name = name,
                      NEW e \in d..depth', NEW w \in frame'[e].writes
               PROVE  session'[SessionOf(frame'[d].tx)].saves[i].at <= w
    BY DEF CoverInv, Saves, SessionOf
  <2>1. /\ d \in 1..depth /\ Holds(d, name)
        /\ \E j \in DOMAIN Saves(frame[d].tx) :
             Saves(frame[d].tx)[j] = session'[SessionOf(frame'[d].tx)].saves[i]
    BY ZenonT(60) DEF Settles, SavesStay
  <2>2. PICK j \in DOMAIN Saves(frame[d].tx) :
          Saves(frame[d].tx)[j] = session'[SessionOf(frame'[d].tx)].saves[i]
    BY <2>1
  <2>3. e \in 1..depth'
    OBVIOUS
  <2>4. PICK f \in 1..depth : f \in e..depth /\ w \in frame[f].writes
    BY <1>2, <2>3
  <2>5. f \in d..depth
    BY <2>1, <2>4, FrameFacts DEF SInv
  <2>6. QED
    BY <2>1, <2>2, <2>4, <2>5 DEF WInv, CoverInv
<1>7. QED
  BY <1>3, <1>4, <1>5, <1>6 DEF WInv

-------------------------------------------------------------------------------
(* Calls that return, and steps between statements.                         *)

(* No write or savepoint is added to a session. *)
SessionLess(tx) ==
  /\ session'[tx].writes \subseteq session[tx].writes
  /\ \A i \in DOMAIN session'[tx].saves :
       /\ i \in DOMAIN session[tx].saves
       /\ session'[tx].saves[i] = session[tx].saves[i]

LEMMA RemainWrites ==
  ASSUME SInv, WInv, depth' \in 1..depth, \A d \in 1..depth' : SameCall(d),
         FramesInherit, UNCHANGED writeCount,
         session' \in [0..MaxTx -> Sessions], \A tx \in 0..MaxTx : SessionLess(tx),
         Committed, Undone
  PROVE  WInv'
<1>1. /\ depth' \in 0..depth /\ depth' \in Nat
      /\ \A d \in 1..depth' : /\ d \in 1..depth
                              /\ SessionOf(frame'[d].tx) = SessionOf(frame[d].tx)
                              /\ SessionOf(frame[d].tx) \in 0..MaxTx
                              /\ \A name : Holds(d, name)' <=> Holds(d, name)
  <2>1. depth' \in 0..depth /\ depth' \in Nat
    BY FrameFacts DEF SInv
  <2>2. QED
    BY <2>1, SameHolds, FrameFacts DEF SInv
<1>2. OutermostStay
  <2>1. \A d \in 2..depth' : d \in 1..depth' /\ d \in 2..depth /\ d - 1 \in 1..depth'
    BY <1>1, FrameFacts DEF SInv
  <2>2. QED
    BY <2>1 DEF OutermostStay, SameCall, Owner
<1>3. SavesStay
  <2>1. ASSUME NEW d \in 1..depth', NEW name \in Nat, Holds(d, name)',
               NEW i \in DOMAIN session'[SessionOf(frame'[d].tx)].saves
        PROVE  \E j \in DOMAIN Saves(frame[d].tx) :
                 Saves(frame[d].tx)[j] = session'[SessionOf(frame'[d].tx)].saves[i]
    <3>1. /\ i \in DOMAIN session[SessionOf(frame[d].tx)].saves
          /\ session[SessionOf(frame[d].tx)].saves[i] = session'[SessionOf(frame'[d].tx)].saves[i]
      BY <1>1 DEF SessionLess
    <3>2. QED
      BY <3>1 DEF Saves
  <2>2. QED
    BY <1>1, <2>1 DEF SavesStay
<1>4. SessionsShrink
  BY DEF SessionsShrink, SessionLess, WInv, BoundedInv
<1>5. QED
  BY <1>1, <1>2, <1>3, <1>4, SettlesWrites DEF Settles

(* The writes of a frame that returns go to its caller when both are in one *)
(* transaction at the server, and to nobody otherwise.                      *)
LEMMA PopInherits ==
  ASSUME SInv, WInv, depth > 1, NEW ws, Pop(ws),
         ws = {} \/ (ws = Top.writes /\ (Owner(depth) => Nested(frame[depth - 1].tx)))
  PROVE  /\ depth' \in 1..depth /\ \A d \in 1..depth' : SameCall(d)
         /\ FramesInherit
<1>1. ws \in SUBSET (1..MaxWrites) /\ Top = frame[depth] /\ depth \in Nat
  BY TopFacts, FrameFacts DEF SInv, Top
<1>2. /\ depth' = depth - 1 /\ depth' \in 1..depth
      /\ \A d \in 1..depth' :
           /\ d \in 1..depth /\ SameCall(d)
           /\ frame'[d].writes = IF d = depth - 1 THEN frame[d].writes \cup ws
                                                  ELSE frame[d].writes
  BY <1>1, PopFrames DEF SInv
<1>3. depth \in 2..depth /\ depth \in 1..depth /\ depth - 1 \in 1..depth
  BY <1>1
<1>4. ASSUME NEW w \in ws
      PROVE  SessionOf(frame[depth].tx) = SessionOf(frame[depth - 1].tx)
  <2>1. CASE SharedSession
    BY <2>1 DEF SessionOf
  <2>2. CASE ~SharedSession
    <3>1. w \in frame[depth].writes /\ ~Owner(depth)
      BY <1>1, <1>4, <2>2 DEF Nested
    <3>2. frame[depth].tx # 0
      BY <1>3, <2>2, <3>1 DEF WInv, PlacedInv
    <3>3. QED
      BY <1>3, <3>1, <3>2 DEF SInv, ShapeInv
  <2>3. QED
    BY <2>1, <2>2
<1>5. ASSUME NEW d \in 1..depth', NEW w \in frame'[d].writes
      PROVE  \E e \in d..depth :
               w \in frame[e].writes /\ SessionOf(frame[e].tx) = SessionOf(frame'[d].tx)
  <2>1. d \in d..depth /\ depth \in d..depth /\ frame'[d].tx = frame[d].tx
    <3>1. d \in 1..depth /\ SameCall(d)
      BY <1>2
    <3>2. d \in d..depth /\ depth \in d..depth
      BY <1>1, <3>1
    <3>3. QED
      BY <3>1, <3>2 DEF SameCall
  <2>2. CASE w \in frame[d].writes
    BY <2>1, <2>2
  <2>3. CASE w \notin frame[d].writes
    <3>1. d = depth - 1 /\ w \in ws
      BY <1>2, <2>3
    <3>2. w \in frame[depth].writes
      BY <1>1, <3>1
    <3>3. QED
      BY <1>4, <2>1, <3>1, <3>2
  <2>4. QED
    BY <2>2, <2>3
<1>6. \A d \in 1..(depth' - 1) : d \in 1..depth /\ frame'[d].writes \subseteq frame[d].writes
  <2>1. \A d \in 1..(depth' - 1) : d \in 1..depth' /\ d # depth - 1
    BY <1>1, <1>2
  <2>2. QED
    BY <1>2, <2>1
<1>7. QED
  BY <1>2, <1>5, <1>6 DEF FramesInherit

(* What the return of the top frame does to its session. *)
LEMMA SettledSession ==
  ASSUME SInv, NEW s, SetSession(Top.tx, s), Settled(s)
  PROVE  /\ session' \in [0..MaxTx -> Sessions]
         /\ \A tx \in 0..MaxTx : SessionLess(tx)
<1> DEFINE y == SessionOf(Top.tx)
<1>1. /\ y \in 0..MaxTx /\ session[y] = Session(Top.tx) /\ session' = [session EXCEPT ![y] = s]
      /\ session[y] \in Sessions
  BY TopFacts DEF SInv, Session, SetSession
<1> HIDE DEF y
<1>2. /\ s \in Sessions /\ s.writes \subseteq session[y].writes
      /\ \A i \in DOMAIN s.saves : i \in DOMAIN session[y].saves /\ s.saves[i] = session[y].saves[i]
  <2>1. CASE s = NoSession
    <3>1. NoSession \in Sessions /\ NoSession.saves = <<>> /\ NoSession.writes = {}
      BY NewSessionFacts
    <3>2. QED
      BY <2>1, <3>1
  <2>2. CASE s = Session(Top.tx)
    BY <1>1, <2>2
  <2>3. ASSUME Session(Top.tx).open, NEW name \in Nat, Holds(depth, name),
               \/ s = RolledBackTo(Session(Top.tx), name)
               \/ s = Released(Session(Top.tx), name)
        PROVE  /\ s \in Sessions /\ s.writes \subseteq session[y].writes
               /\ \A i \in DOMAIN s.saves : /\ i \in DOMAIN session[y].saves
                                            /\ s.saves[i] = session[y].saves[i]
    <3>1. /\ Unique(session[y])
          /\ \E i \in DOMAIN session[y].saves : session[y].saves[i].name = name
      BY <1>1, <2>3, TopSavepoint
    <3>2. PICK i \in DOMAIN session[y].saves : session[y].saves[i].name = name
      BY <3>1
    <3>3. \E n \in {i - 1, i} : Prefix(session[y], s, n) /\ s \in Sessions
                                /\ s.writes \subseteq session[y].writes
      <4>1. CASE s = RolledBackTo(session[y], session[y].saves[i].name)
        BY SMTT(30), <1>1, <3>1, <4>1, RolledBackToFacts
      <4>2. CASE s = Released(session[y], session[y].saves[i].name)
        BY <1>1, <3>1, <4>2, ReleasedFacts
      <4>3. QED
        BY SMTT(30), <1>1, <2>3, <3>2, <4>1, <4>2
    <3>4. PICK n : Prefix(session[y], s, n) /\ s \in Sessions /\ s.writes \subseteq session[y].writes
      BY <3>3
    <3>5. /\ DOMAIN session[y].saves = 1..Len(session[y].saves) /\ DOMAIN s.saves = 1..Len(s.saves)
          /\ Len(session[y].saves) \in Nat
      BY <1>1, <3>4, SessionFields
    <3>6. /\ Len(s.saves) \in 0..Len(session[y].saves)
          /\ \A j \in 1..Len(s.saves) : s.saves[j] = session[y].saves[j]
      BY <3>4 DEF Prefix
    <3>7. QED
      BY <3>4, <3>5, <3>6
  <2>4. QED
    BY <2>1, <2>2, <2>3 DEF Settled
<1>3. ASSUME NEW tx \in 0..MaxTx PROVE SessionLess(tx)
  <2>1. session'[tx] = IF tx = y THEN s ELSE session[tx]
    BY <1>1 DEF SInv
  <2>2. QED
    BY <1>2, <2>1 DEF SessionLess
<1>4. QED
  BY <1>1, <1>2, <1>3 DEF SInv

(* Rolling back the top frame leaves nothing of its writes. *)
LEMMA TopGone ==
  ASSUME SInv, WInv, NEW s, SetSession(Top.tx, s), s.writes \cap Top.writes = {},
         UNCHANGED durable, undone' = undone \cup Top.writes
  PROVE  Committed /\ Undone
<1>1. /\ Top = frame[depth] /\ depth \in 1..depth /\ SessionOf(Top.tx) \in 0..MaxTx
  BY TopFacts, FrameFacts DEF SInv, Top
<1>2. \A tx \in 0..MaxTx : session'[tx] = IF tx = SessionOf(Top.tx) THEN s ELSE session[tx]
  BY <1>1 DEF SetSession, SInv
<1>3. ASSUME NEW w \in Top.writes, NEW tx \in 0..MaxTx
      PROVE  w \notin session'[tx].writes
  <2>1. CASE tx = SessionOf(Top.tx)
    BY <1>2, <2>1
  <2>2. CASE tx # SessionOf(Top.tx)
    BY <1>1, <1>2, <2>2 DEF WInv, PlacedInv
  <2>3. QED
    BY <2>1, <2>2
<1>4. \A w \in Top.writes : w <= writeCount /\ w \notin durable'
  BY <1>1 DEF WInv, BoundedInv, PlacedInv
<1>5. Committed
  BY DEF Committed
<1>6. QED
  BY <1>3, <1>4, <1>5 DEF Undone

(* ROLLBACK TO the savepoint of the top frame undoes all its writes. *)
LEMMA RolledBackTop ==
  ASSUME SInv, WInv, NEW name \in Nat, Holds(depth, name), Session(Top.tx).open
  PROVE  RolledBackTo(Session(Top.tx), name).writes \cap Top.writes = {}
<1>1. /\ Top = frame[depth] /\ depth \in 1..depth /\ depth \in depth..depth
      /\ Top.writes \in SUBSET (1..MaxWrites) /\ MaxWrites \in Nat
  BY TopFacts, FrameFacts, BoundAssumption DEF SInv, Top
<1>2. /\ Session(Top.tx) \in Sessions /\ Unique(Session(Top.tx))
      /\ \E i \in DOMAIN Session(Top.tx).saves : Session(Top.tx).saves[i].name = name
  BY TopSavepoint
<1>3. PICK i \in DOMAIN Session(Top.tx).saves : Session(Top.tx).saves[i].name = name
  BY <1>2
<1>4. RolledBackTo(Session(Top.tx), name).writes =
        {w \in Session(Top.tx).writes : w < Session(Top.tx).saves[i].at}
  BY <1>2, <1>3, RolledBackToFacts
<1>5. Session(Top.tx).saves[i].at \in Nat
  BY <1>2, SessionFields
<1>6. \A w \in Top.writes : Session(Top.tx).saves[i].at <= w
  BY <1>1, <1>3 DEF WInv, CoverInv, Saves, Session
<1>7. \A w \in Top.writes : w \in Nat /\ ~(w < Session(Top.tx).saves[i].at)
  BY <1>1, <1>5, <1>6
<1>8. QED
  BY <1>4, <1>7

(* A return that gives the writes to the caller or forgets them, and either *)
(* commits and rolls back nothing or rolls back the writes of the call.     *)
LEMMA PopWrites ==
  ASSUME SInv, WInv, depth > 1, NEW ws, Pop(ws),
         ws = {} \/ (ws = Top.writes /\ (Owner(depth) => Nested(frame[depth - 1].tx))),
         NEW s, SetSession(Top.tx, s), Settled(s), UNCHANGED <<writeCount, durable>>,
         \/ UNCHANGED undone
         \/ undone' = undone \cup Top.writes /\ s.writes \cap Top.writes = {}
  PROVE  WInv'
<1>1. /\ depth' \in 1..depth /\ \A d \in 1..depth' : SameCall(d)
      /\ FramesInherit
  BY PopInherits
<1>2. /\ session' \in [0..MaxTx -> Sessions]
      /\ \A tx \in 0..MaxTx : SessionLess(tx)
  BY SettledSession
<1>3. Committed /\ Undone
  <2>1. CASE UNCHANGED undone
    BY <2>1 DEF Committed, Undone
  <2>2. CASE undone' = undone \cup Top.writes /\ s.writes \cap Top.writes = {}
    BY <2>2, TopGone
  <2>3. QED
    BY <2>1, <2>2
<1>4. QED
  BY <1>1, <1>2, <1>3, RemainWrites

(* COMMIT of a transaction that is not nested in another. *)
LEMMA CommitWrites ==
  ASSUME SInv, WInv, depth > 1, Pop({}), Owner(depth), ~Nested(frame[depth - 1].tx),
         SetSession(Top.tx, NoSession), UNCHANGED <<writeCount, undone>>,
         durable' = durable \cup Session(Top.tx).writes
  PROVE  WInv'
<1>1. /\ depth' \in 1..depth /\ \A d \in 1..depth' : SameCall(d)
      /\ FramesInherit
  BY PopInherits
<1>2. /\ session' \in [0..MaxTx -> Sessions]
      /\ \A tx \in 0..MaxTx : SessionLess(tx)
  BY SettledSession DEF Settled
<1> DEFINE y == SessionOf(Top.tx)
<1>3. /\ y \in 0..MaxTx /\ session[y] = Session(Top.tx) /\ session' = [session EXCEPT ![y] = NoSession]
      /\ Top = frame[depth] /\ Top.tx \in 0..MaxTx /\ depth \in 2..depth
  BY TopFacts, FrameFacts DEF SInv, Session, SetSession, Top
<1>4. /\ depth' = depth - 1
      /\ \A d \in 1..depth' : /\ d \in 1..depth /\ d \in 1..(depth - 1)
                              /\ frame'[d].writes = frame[d].writes
  <2>1. {} \in SUBSET (1..MaxWrites)
    OBVIOUS
  <2>2. /\ depth' = depth - 1
        /\ \A d \in 1..depth' :
              /\ d \in 1..depth
              /\ frame'[d].writes = IF d = depth - 1 THEN frame[d].writes \cup {}
                                                     ELSE frame[d].writes
    BY <2>1, PopFrames DEF SInv
  <2>3. QED
    BY <2>2
<1>5. ASSUME NEW w \in session[y].writes, NEW d \in 1..depth'
      PROVE  w \notin frame'[d].writes
  <2>1. CASE SharedSession
    <3>1. y = 0 /\ frame[depth - 1].tx = 0
      BY <2>1 DEF SessionOf, Nested
    <3>2. QED
      BY <1>3, <1>4, <1>5, <2>1, <3>1 DEF WInv, PlacedInv
  <2>2. CASE ~SharedSession
    <3>1. frame[d].tx < Top.tx
      BY <1>3, <1>4 DEF SInv, ShapeInv
    <3>2. frame[d].tx \in 0..MaxTx /\ frame[d].tx # Top.tx
      BY <1>3, <1>4, <3>1, FrameFacts DEF SInv
    <3>3. y # SessionOf(frame[d].tx)
      BY <2>2, <3>2 DEF SessionOf
    <3>4. w \notin frame[d].writes
      BY <1>3, <1>4, <3>3 DEF WInv, PlacedInv
    <3>5. QED
      BY <1>4, <3>4
  <2>3. QED
    BY <2>1, <2>2
<1> HIDE DEF y
<1>6. /\ session'[y].writes = {}
      /\ \A tx \in 0..MaxTx : tx # y => session'[tx] = session[tx]
  BY <1>3, NewSessionFacts DEF SInv
<1>7. ASSUME NEW w \in session[y].writes
      PROVE  w \notin undone' /\ \A tx \in 0..MaxTx : w \notin session'[tx].writes
  BY <1>3, <1>6 DEF WInv, ApartInv
<1>8. Committed /\ Undone
  BY <1>3, <1>5, <1>7 DEF Committed, Undone
<1>9. QED
  BY <1>1, <1>2, <1>8, RemainWrites

LEMMA ReturnWrites ==
  ASSUME SInv, WInv, NEW outcome \in Outcomes,
         \/ DirectReturns(outcome) \/ SavepointReturns(outcome)
         \/ RollbackReturns(outcome) \/ CommitReturns(outcome)
  PROVE  WInv'
<1> DEFINE s0 == Session(Top.tx)
           parentTx == frame[depth - 1].tx
<1>1. /\ Top = frame[depth] /\ Top.tx \in 0..MaxTx /\ Top.tx \in Nat /\ Top.name \in Nat
      /\ SessionOf(Top.tx) \in 0..MaxTx
  BY TopFacts, FrameFacts DEF SInv, Top
<1>2. ASSUME UNCHANGED session PROVE SetSession(Top.tx, s0) /\ Settled(s0)
  BY <1>1, <1>2 DEF SInv, SetSession, Session, Settled
<1>3. CASE DirectReturns(outcome)
  <2>1. /\ depth > 1 /\ Pop(Top.writes) /\ UNCHANGED <<session, writeCount, durable, undone>>
        /\ ~Owner(depth)
    BY <1>1, <1>3 DEF DirectReturns, Ends, counters, history, Owner
  <2>2. QED
    BY <1>2, <2>1, PopWrites
<1>4. CASE SavepointReturns(outcome)
  <2>1. /\ depth > 1 /\ UNCHANGED <<writeCount, durable>> /\ Top.kind = "savepoint" /\ ~Owner(depth)
    BY <1>1, <1>4 DEF SavepointReturns, Ends, counters, Owner
  <2>2. Holds(depth, Top.name)
    BY <1>1, <2>1 DEF Holds
  <2>3. \/ UNCHANGED <<session, undone>> /\ (Pop(Top.writes) \/ Pop({}))
        \/ /\ s0.open /\ SetSession(Top.tx, RolledBackTo(s0, Top.name)) /\ Pop({})
           /\ undone' = undone \cup Top.writes
        \/ /\ s0.open /\ SetSession(Top.tx, Released(s0, Top.name)) /\ Pop(Top.writes)
           /\ UNCHANGED undone
    BY <1>4 DEF SavepointReturns, Accepts
  <2>4. CASE UNCHANGED <<session, undone>> /\ (Pop(Top.writes) \/ Pop({}))
    BY <1>2, <2>1, <2>4, PopWrites
  <2>5. CASE /\ s0.open /\ SetSession(Top.tx, RolledBackTo(s0, Top.name)) /\ Pop({})
             /\ undone' = undone \cup Top.writes
    <3>1. Settled(RolledBackTo(s0, Top.name))
      BY <1>1, <2>2, <2>5 DEF Settled
    <3>2. RolledBackTo(s0, Top.name).writes \cap Top.writes = {}
      BY <1>1, <2>2, <2>5, RolledBackTop
    <3>3. QED
      BY <2>1, <2>5, <3>1, <3>2, PopWrites
  <2>6. CASE /\ s0.open /\ SetSession(Top.tx, Released(s0, Top.name)) /\ Pop(Top.writes)
             /\ UNCHANGED undone
    <3>1. Settled(Released(s0, Top.name))
      BY <1>1, <2>2, <2>6 DEF Settled
    <3>2. QED
      BY <2>1, <2>6, <3>1, PopWrites
  <2>7. QED
    BY <2>3, <2>4, <2>5, <2>6
<1>5. ASSUME Owner(depth), Nested(parentTx), s0.open
      PROVE  /\ Settled(RolledBackTo(s0, TxSavepoint(Top.tx)))
             /\ Settled(Released(s0, TxSavepoint(Top.tx)))
             /\ RolledBackTo(s0, TxSavepoint(Top.tx)).writes \cap Top.writes = {}
  <2>1. Holds(depth, Top.tx) /\ TxSavepoint(Top.tx) = Top.tx
    BY <1>1, <1>5 DEF Holds, TxSavepoint
  <2>2. Settled(RolledBackTo(s0, TxSavepoint(Top.tx))) /\ Settled(Released(s0, TxSavepoint(Top.tx)))
    BY <1>1, <1>5, <2>1 DEF Settled
  <2>3. RolledBackTo(s0, Top.tx).writes \cap Top.writes = {}
    BY <1>1, <1>5, <2>1, RolledBackTop
  <2>4. QED
    BY <2>1, <2>2, <2>3
<1>6. NoSession.writes \cap Top.writes = {}
  BY NewSessionFacts
<1>7. ~s0.open => s0.writes \cap Top.writes = {}
  BY <1>1 DEF SInv, NestInv, NamesInv, Session
<1>8. CASE RollbackReturns(outcome)
  <2>1. /\ depth > 1 /\ Owner(depth) /\ Rollback(parentTx) /\ Pop({})
        /\ UNCHANGED <<writeCount, durable>> /\ undone' = undone \cup Top.writes
    BY <1>1, <1>8 DEF RollbackReturns, Rollback, Ends, Owner, counters
  <2>2. CASE ~s0.open
    <3>1. UNCHANGED session
      BY <2>1, <2>2 DEF Rollback
    <3>2. QED
      BY <1>2, <1>7, <2>1, <2>2, <3>1, PopWrites
  <2>3. CASE s0.open /\ Nested(parentTx)
    <3>1. SetSession(Top.tx, RolledBackTo(s0, TxSavepoint(Top.tx)))
      BY <2>1, <2>3 DEF Rollback
    <3>2. QED
      BY <1>5, <2>1, <2>3, <3>1, PopWrites
  <2>4. CASE s0.open /\ ~Nested(parentTx)
    <3>1. SetSession(Top.tx, NoSession) /\ Settled(NoSession)
      BY <2>1, <2>4 DEF Rollback, Settled
    <3>2. QED
      BY <1>6, <2>1, <3>1, PopWrites
  <2>5. QED
    BY <2>2, <2>3, <2>4
<1>9. CASE CommitReturns(outcome)
  <2>1. /\ depth > 1 /\ Owner(depth) /\ UNCHANGED writeCount
        /\ CommitAccepted(parentTx) \/ CommitFails(parentTx)
    BY <1>1, <1>9 DEF CommitReturns, Ends, Owner, counters
  <2>2. CASE CommitAccepted(parentTx) /\ Nested(parentTx)
    <3>1. /\ SetSession(Top.tx, Released(s0, TxSavepoint(Top.tx))) /\ s0.open /\ Pop(Top.writes)
          /\ UNCHANGED <<durable, undone>>
      BY <2>2 DEF CommitAccepted, Accepts
    <3>2. QED
      BY <1>5, <2>1, <2>2, <3>1, PopWrites
  <2>3. CASE CommitAccepted(parentTx) /\ ~Nested(parentTx)
    <3>1. /\ SetSession(Top.tx, NoSession) /\ Pop({}) /\ UNCHANGED undone
          /\ durable' = durable \cup s0.writes
      BY <2>3 DEF CommitAccepted
    <3>2. QED
      BY <2>1, <2>3, <3>1, CommitWrites
  <2>4. CASE CommitFails(parentTx)
    <3>1. /\ ~Nested(parentTx) /\ Pop({}) /\ UNCHANGED durable
          /\ \/ SetSession(Top.tx, s0) /\ UNCHANGED undone
             \/ SetSession(Top.tx, NoSession) /\ undone' = undone \cup Top.writes
      BY <2>4 DEF CommitFails
    <3>2. Settled(s0) /\ Settled(NoSession)
      BY <2>1, <3>1 DEF Settled
    <3>3. QED
      BY <1>6, <2>1, <3>1, <3>2, PopWrites
  <2>5. QED
    BY <2>1, <2>2, <2>3, <2>4
<1>10. QED
  BY <1>3, <1>4, <1>8, <1>9

-------------------------------------------------------------------------------
(* Calls that start.                                                        *)

(* A session has savepoints it had and, when it was open, new ones.         *)
NewSaves(tx) ==
  \A i \in DOMAIN session'[tx].saves :
    \/ i \in DOMAIN session[tx].saves /\ session'[tx].saves[i] = session[tx].saves[i]
    \/ /\ session[tx].open /\ ~Known(session'[tx].saves[i].name)
       /\ session'[tx].saves[i].at = writeCount + 1

LEMMA PushWrites ==
  ASSUME SInv, SInv', WInv, depth' = depth + 1, \A d \in 1..depth : frame'[d] = frame[d],
         frame'[depth + 1].writes = {}, UNCHANGED <<writeCount, durable, undone>>,
         \A tx \in 0..MaxTx : session'[tx].writes \subseteq session[tx].writes /\ NewSaves(tx),
         /\ SharedSession /\ frame'[depth + 1].kind \in {"own", "serialized"} /\ frame'[depth].tx = 0
         => session'[0].writes = {}
  PROVE  WInv'
<1>1. /\ depth \in Nat /\ depth' \in Nat /\ depth \in 0..depth
      /\ \A d \in 1..depth' : d \in 1..depth \/ d = depth + 1
      /\ \A d \in 1..(depth' - 1) : d \in 1..depth
      /\ \A d \in 2..depth' : d \in 2..depth \/ d = depth + 1
  BY FrameFacts DEF SInv
<1>2. \A d \in 1..depth : /\ SessionOf(frame'[d].tx) = SessionOf(frame[d].tx)
                          /\ SessionOf(frame[d].tx) \in 0..MaxTx
                          /\ \A name : Holds(d, name)' <=> Holds(d, name)
  <2>1. \A d \in 1..depth : SameCall(d)
    BY DEF SameCall
  <2>2. QED
    BY <1>1, <2>1, SameHolds, FrameFacts DEF SInv
<1>3. session' \in [0..MaxTx -> Sessions]
  BY DEF SInv
<1>4. FramesInherit
  <2>1. \A d \in 1..depth : d \in d..depth
    BY <1>1
  <2>2. ASSUME NEW d \in 1..depth', NEW w \in frame'[d].writes
        PROVE  \E e \in d..depth :
                 w \in frame[e].writes /\ SessionOf(frame[e].tx) = SessionOf(frame'[d].tx)
    BY <1>1, <1>2, <2>1
  <2>3. QED
    BY <1>1, <2>2 DEF FramesInherit
<1>5. OutermostStay
  <2>1. ASSUME SharedSession, NEW d \in 2..depth', Owner(d)', frame'[d - 1].tx = 0,
               session'[0].writes # {}
        PROVE  d \in 2..depth /\ Owner(d) /\ frame[d - 1].tx = 0
    <3>1. CASE d = depth + 1
      <4>1. frame'[depth + 1].kind \in {"own", "serialized"} /\ frame'[depth].tx = 0
        BY <1>1, <2>1, <3>1 DEF Owner
      <4>2. QED
        BY <2>1, <4>1
    <3>2. CASE d \in 2..depth
      <4>1. d \in 1..depth /\ d - 1 \in 1..depth
        BY <1>1, <3>2
      <4>2. QED
        BY <2>1, <3>2, <4>1 DEF Owner
    <3>3. QED
      BY <1>1, <3>1, <3>2
  <2>2. QED
    BY <2>1 DEF OutermostStay
<1>6. SavesStay
  <2>1. ASSUME NEW d \in 1..depth, NEW name \in Nat, Holds(d, name),
               NEW i \in DOMAIN session'[SessionOf(frame'[d].tx)].saves,
               session'[SessionOf(frame'[d].tx)].saves[i].name = name
        PROVE  \E j \in DOMAIN Saves(frame[d].tx) :
                 Saves(frame[d].tx)[j] = session'[SessionOf(frame'[d].tx)].saves[i]
    <3> DEFINE y == SessionOf(frame[d].tx)
    <3>1. y \in 0..MaxTx /\ SessionOf(frame'[d].tx) = y /\ Saves(frame[d].tx) = session[y].saves
          /\ Session(frame[d].tx) = session[y]
      BY <1>2 DEF Saves, Session
    <3> HIDE DEF y
    <3>2. CASE session[y].open /\ ~Known(name)
      <4>1. \E j \in DOMAIN session[y].saves : session[y].saves[j].name = name
        BY <2>1, <3>1, <3>2 DEF SInv, NestInv, HeldInv
      <4>2. QED
        BY <3>1, <3>2, <4>1 DEF SInv, NestInv, NamesInv
    <3>3. CASE i \in DOMAIN session[y].saves /\ session'[y].saves[i] = session[y].saves[i]
      BY <3>1, <3>3
    <3>4. QED
      BY <2>1, <3>1, <3>2, <3>3 DEF NewSaves
  <2>2. \A e \in (depth + 1)..depth' : frame'[e].writes = {}
    <3>1. \A e \in (depth + 1)..depth' : e = depth + 1
      BY <1>1
    <3>2. QED
      BY <3>1
  <2>3. QED
    BY <1>1, <1>2, <2>1, <2>2 DEF SavesStay
<1>7. SessionsShrink
  <2>1. writeCount \in Nat
    BY BoundAssumption DEF SInv, DataInv
  <2>2. QED
    BY <2>1 DEF SessionsShrink, NewSaves, WInv, BoundedInv
<1>8. Committed /\ Undone
  BY DEF Committed, Undone
<1>9. QED
  BY <1>1, <1>3, <1>4, <1>5, <1>6, <1>7, <1>8, SettlesWrites DEF Settles

(* A savepoint is set on an open session. *)
LEMMA SavepointSession ==
  ASSUME SInv, NEW tx \in 0..MaxTx, session[tx].open, NEW n \in Nat, ~Known(n),
         session' = [session EXCEPT ![tx] = WithSavepoint(session[tx], n, writeCount + 1)]
  PROVE  \A t \in 0..MaxTx : session'[t].writes \subseteq session[t].writes /\ NewSaves(t)
<1> DEFINE s == WithSavepoint(session[tx], n, writeCount + 1)
           l == Len(session[tx].saves)
<1>1. session[tx] \in Sessions /\ writeCount + 1 \in Nat
  BY BoundAssumption DEF SInv, DataInv
<1>2. /\ s \in Sessions /\ s.writes = session[tx].writes /\ Len(s.saves) = l + 1
      /\ \A j \in 1..l : s.saves[j] = session[tx].saves[j]
      /\ s.saves[l + 1] = [name |-> n, at |-> writeCount + 1]
  BY SMTT(30), <1>1, WithSavepointFacts
<1> HIDE DEF s
<1>3. /\ l \in Nat /\ DOMAIN session[tx].saves = 1..l /\ DOMAIN s.saves = 1..(l + 1)
  BY <1>1, <1>2, SessionFields
<1>4. \A i \in DOMAIN s.saves : i \in DOMAIN session[tx].saves \/ i = l + 1
  BY <1>3
<1>5. s.saves[l + 1].name = n /\ s.saves[l + 1].at = writeCount + 1
  BY <1>2
<1> HIDE DEF l
<1>6. \A t \in 0..MaxTx : session'[t] = IF t = tx THEN s ELSE session[t]
  BY DEF SInv, s
<1>7. ASSUME NEW t \in 0..MaxTx
      PROVE  session'[t].writes \subseteq session[t].writes /\ NewSaves(t)
  <2>1. CASE t = tx
    BY <1>2, <1>3, <1>4, <1>5, <1>6, <2>1 DEF NewSaves
  <2>2. CASE t # tx
    BY <1>6, <2>2 DEF NewSaves
  <2>3. QED
    BY <2>1, <2>2
<1>8. QED
  BY <1>7

LEMMA CallWrites ==
  ASSUME SInv, SInv', WInv, Call
  PROVE  WInv'
<1>1. /\ depth \in Nat /\ depth \in 1..depth /\ Top = frame[depth] /\ Top.tx \in 0..MaxTx
      /\ SessionOf(Top.tx) \in 0..MaxTx /\ session[SessionOf(Top.tx)] = Session(Top.tx)
      /\ depth < MaxDepth
  BY FrameFacts, CallKinds DEF SInv, Top, Session
<1>2. ASSUME NEW f \in Frames, Direct(f), f.kind \in {"plain", "pass", "serializedPass"}, f.writes = {}
      PROVE  WInv'
  <2>1. /\ depth' = depth + 1 /\ frame'[depth + 1] = f
        /\ \A d \in 1..depth : frame'[d] = frame[d]
    BY <1>1, <1>2, PushFrames DEF SInv, Direct
  <2>2. UNCHANGED <<session, writeCount, durable, undone>>
    BY <1>2 DEF Direct, counters, history
  <2>3. \A tx \in 0..MaxTx : session'[tx].writes \subseteq session[tx].writes /\ NewSaves(tx)
    BY <2>2 DEF NewSaves
  <2>4. frame'[depth + 1].writes = {} /\ frame'[depth + 1].kind \notin {"own", "serialized"}
    BY <1>2, <2>1
  <2>5. QED
    BY <2>1, <2>2, <2>3, <2>4, PushWrites
<1>3. ASSUME NEW f \in Frames, NEW opts \in TxOptions, BeginFrame(f, opts), f.writes = {}
      PROVE  WInv'
  <2> DEFINE t == txCount + 1
  <2>1. /\ t \in 1..MaxTx /\ depth' = depth + 1 /\ frame'[depth + 1].writes = {}
        /\ \A d \in 1..depth : frame'[d] = frame[d]
        /\ UNCHANGED <<writeCount, durable, undone>>
    BY <1>1, <1>3, BegunFacts DEF history
  <2>2. /\ SharedSession => (session[0].open <=> Top.tx # 0)
        /\ session' = [session EXCEPT ![SessionOf(t)] =
                         IF Nested(Top.tx)
                         THEN WithSavepoint(Session(0), TxSavepoint(t), writeCount + 1)
                         ELSE Begun(opts.readOnly /\ ~SharedSession)]
    <3>1. Session(0) = session[0] \/ ~SharedSession
      BY DEF Session, SessionOf
    <3>2. QED
      BY <1>3, <3>1 DEF BeginFrame, Begin, SetSession
  <2>3. CASE Nested(Top.tx)
    <3>1. /\ SharedSession /\ Top.tx # 0 /\ session[0].open /\ 0 \in 0..MaxTx
          /\ session' = [session EXCEPT ![0] = WithSavepoint(session[0], t, writeCount + 1)]
      BY <2>2, <2>3, BoundAssumption DEF Nested, SessionOf, Session, TxSavepoint
    <3>2. PICK n \in Nat : n = t
      BY <2>1
    <3>3. ~Known(n)
      BY <2>1, <3>2, NewNames
    <3>4. session' = [session EXCEPT ![0] = WithSavepoint(session[0], n, writeCount + 1)]
      BY <3>1, <3>2
    <3>5. \A tx \in 0..MaxTx : session'[tx].writes \subseteq session[tx].writes /\ NewSaves(tx)
      BY <3>1, <3>3, <3>4, SavepointSession
    <3>6. frame'[depth].tx # 0
      BY <1>1, <2>1, <3>1
    <3>7. QED
      BY <2>1, <3>5, <3>6, PushWrites
  <2>4. CASE ~Nested(Top.tx)
    <3> DEFINE b == Begun(opts.readOnly /\ ~SharedSession)
    <3>1. b.saves = <<>> /\ b.writes = {}
      <4>1. (opts.readOnly /\ ~SharedSession) \in BOOLEAN
        OBVIOUS
      <4>2. QED
        BY <4>1, NewSessionFacts
    <3>2. session' = [session EXCEPT ![SessionOf(t)] = b]
      BY <2>2, <2>4
    <3> HIDE DEF b
    <3>3. \A tx \in 0..MaxTx : session'[tx] = IF tx = SessionOf(t) THEN b ELSE session[tx]
      BY <3>2 DEF SInv
    <3>4. \A tx \in 0..MaxTx : session'[tx].writes \subseteq session[tx].writes /\ NewSaves(tx)
      BY <3>1, <3>3 DEF NewSaves
    <3>5. SharedSession => session'[0].writes = {}
      BY <3>1, <3>3, BoundAssumption DEF SessionOf
    <3>6. QED
      BY <2>1, <3>4, <3>5, PushWrites
  <2>5. QED
    BY <2>3, <2>4
<1>4. CASE TransactionSavepoint
  <2> DEFINE f == [Inner("savepoint") EXCEPT !.name = NextSavepoint]
             tx == SessionOf(Top.tx)
  <2>1. /\ Accepts(Session(Top.tx)) /\ Push(f)
        /\ session' = [session EXCEPT ![tx] = WithSavepoint(Session(Top.tx), NextSavepoint, writeCount + 1)]
        /\ UNCHANGED <<writeCount, durable, undone>>
    BY <1>4 DEF TransactionSavepoint, SetSession, history
  <2>2. NextSavepoint \in Nat /\ ~Known(NextSavepoint)
    BY NewNames DEF NextSavepoint
  <2>3. f \in Frames /\ f.kind = "savepoint" /\ f.writes = {}
    <3>1. Inner("savepoint") \in Frames /\ Inner("savepoint").kind = "savepoint" /\ Top \in Frames
      BY InnerFrame DEF SInv, OInv, Kinds
    <3>2. Inner("savepoint").writes = {}
      BY <3>1 DEF Inner, Frames
    <3>3. QED
      BY ZenonT(60), <2>2, <3>1, <3>2, FrameUpdates DEF Frames
  <2> HIDE DEF f
  <2>4. /\ depth' = depth + 1 /\ frame'[depth + 1] = f
        /\ \A d \in 1..depth : frame'[d] = frame[d]
    BY <1>1, <2>1, <2>3, PushFrames DEF SInv
  <2>5. PICK n \in Nat : n = NextSavepoint
    BY <2>2
  <2>6. /\ session[tx].open /\ ~Known(n)
        /\ session' = [session EXCEPT ![tx] = WithSavepoint(session[tx], n, writeCount + 1)]
    BY <1>1, <2>1, <2>2, <2>5 DEF Accepts
  <2>7. \A t \in 0..MaxTx : session'[t].writes \subseteq session[t].writes /\ NewSaves(t)
    BY <1>1, <2>6, SavepointSession
  <2>8. frame'[depth + 1].writes = {} /\ frame'[depth + 1].kind \notin {"own", "serialized"}
    BY <2>3, <2>4
  <2>9. QED
    BY <2>1, <2>4, <2>7, <2>8, PushWrites
<1>5. QED
  BY <1>2, <1>3, <1>4, CallKinds

-------------------------------------------------------------------------------
(* The next try, writes, failures and expired contexts. *)

(* A retry begins without the writes of the try before. *)
LEMMA RetryWrites ==
  ASSUME SInv, SInv', WInv, RollbackRetries
  PROVE  WInv'
<1> DEFINE t == txCount + 1
           y == SessionOf(Top.tx)
<1>1. /\ t \in 1..MaxTx /\ depth \in 1..depth /\ depth \in Nat /\ Top = frame[depth]
      /\ frame'[depth].writes = {} /\ depth' = depth
      /\ \A d \in 1..(depth - 1) : d \in 1..depth /\ frame'[d] = frame[d]
      /\ session' = [session EXCEPT ![y] = NoSession, ![SessionOf(t)] = Begun(FALSE)]
      /\ y \in 0..MaxTx /\ SessionOf(t) \in 0..MaxTx /\ UNCHANGED writeCount
  BY RetryFacts, FrameFacts DEF SInv
<1>2. UNCHANGED durable /\ undone' = undone \cup Top.writes
  BY DEF RollbackRetries
<1> HIDE DEF y
<1>3. \A tx \in 0..MaxTx :
        \/ session'[tx] = session[tx] /\ tx # y
        \/ session'[tx].writes = {} /\ session'[tx].saves = <<>>
  <2>1. /\ NoSession.writes = {} /\ NoSession.saves = <<>>
        /\ Begun(FALSE).writes = {} /\ Begun(FALSE).saves = <<>>
    BY NewSessionFacts
  <2>2. \A tx \in 0..MaxTx :
          session'[tx] = IF tx = SessionOf(t) THEN Begun(FALSE)
                         ELSE IF tx = y THEN NoSession ELSE session[tx]
    <3> DEFINE s1 == [session EXCEPT ![y] = NoSession]
    <3>1. s1 = [tx \in 0..MaxTx |-> IF tx = y THEN NoSession ELSE session[tx]]
      BY <1>1 DEF SInv
    <3>2. session' = [s1 EXCEPT ![SessionOf(t)] = Begun(FALSE)]
      BY <1>1
    <3> HIDE DEF s1
    <3>3. QED
      BY <1>1, <3>1, <3>2
  <2>3. QED
    BY <2>1, <2>2
<1>4. \A d \in 1..depth : d = depth \/ d \in 1..(depth - 1)
  BY <1>1
<1>5. FramesInherit
  <2>1. \A d \in 1..(depth - 1) : d \in d..depth /\ frame'[d] = frame[d]
    BY <1>1
  <2>2. ASSUME NEW d \in 1..depth', NEW w \in frame'[d].writes
        PROVE  \E e \in d..depth :
                 w \in frame[e].writes /\ SessionOf(frame[e].tx) = SessionOf(frame'[d].tx)
    <3>1. d \in 1..(depth - 1)
      BY <1>1, <1>4, <2>2
    <3>2. d \in d..depth /\ frame'[d] = frame[d]
      BY <2>1, <3>1
    <3>3. SessionOf(frame[d].tx) = SessionOf(frame'[d].tx)
      BY <3>2
    <3>4. QED
      BY <2>2, <3>2, <3>3
  <2>3. QED
    BY <1>1, <2>2 DEF FramesInherit
<1>6. OutermostStay
  <2>1. SharedSession => session'[0].writes = {}
    BY <1>1, <1>3, BoundAssumption DEF y, SessionOf
  <2>2. QED
    BY <2>1 DEF OutermostStay
<1>7. SavesStay
  <2>1. depth - 1 \in 0..depth
    BY <1>1
  <2>2. \A d \in 1..(depth - 1) : SameCall(d)
    BY <1>1 DEF SameCall
  <2>3. \A d \in 1..(depth - 1) :
          /\ d \in 1..depth /\ SessionOf(frame'[d].tx) = SessionOf(frame[d].tx)
          /\ \A name : Holds(d, name)' <=> Holds(d, name)
    BY <2>1, <2>2, SameHolds
  <2>4. ASSUME NEW d \in 1..(depth - 1),
               NEW i \in DOMAIN session'[SessionOf(frame'[d].tx)].saves
        PROVE  \E j \in DOMAIN Saves(frame[d].tx) :
                 Saves(frame[d].tx)[j] = session'[SessionOf(frame'[d].tx)].saves[i]
    <3>1. SessionOf(frame'[d].tx) \in 0..MaxTx /\ SessionOf(frame'[d].tx) = SessionOf(frame[d].tx)
      BY <2>3, FrameFacts DEF SInv
    <3>2. session'[SessionOf(frame'[d].tx)] = session[SessionOf(frame'[d].tx)]
      BY <1>3, <3>1
    <3>3. QED
      BY <3>1, <3>2 DEF Saves
  <2>5. \A e \in depth..depth' : frame'[e].writes = {}
    <3>1. \A e \in depth..depth' : e = depth
      BY <1>1
    <3>2. QED
      BY <1>1, <3>1
  <2>6. ASSUME NEW d \in 1..depth', NEW name \in Nat, Holds(d, name)'
        PROVE  \/ \A e \in d..depth' : frame'[e].writes = {}
               \/ /\ d \in 1..depth /\ Holds(d, name)
                  /\ \A i \in DOMAIN session'[SessionOf(frame'[d].tx)].saves :
                       \E j \in DOMAIN Saves(frame[d].tx) :
                         Saves(frame[d].tx)[j] = session'[SessionOf(frame'[d].tx)].saves[i]
    <3>1. CASE d = depth
      BY <2>5, <3>1
    <3>2. CASE d \in 1..(depth - 1)
      BY <2>3, <2>4, <2>6, <3>2
    <3>3. QED
      BY <1>1, <1>4, <3>1, <3>2
  <2>7. QED
    BY <2>6 DEF SavesStay
<1>8. SessionsShrink
  BY <1>3 DEF SessionsShrink, WInv, BoundedInv
<1>9. \A w \in Top.writes : /\ w <= writeCount /\ w \notin durable'
                            /\ \A tx \in 0..MaxTx : w \notin session'[tx].writes
  BY <1>1, <1>2, <1>3 DEF y, WInv, BoundedInv, PlacedInv
<1>10. Committed /\ Undone
  BY <1>2, <1>9 DEF Committed, Undone
<1>11. QED
  BY <1>1, <1>5, <1>6, <1>7, <1>8, <1>10, SettlesWrites DEF Settles, SInv

(* A step that changes neither the calls nor their writes. *)
LEMMA QuietWrites ==
  ASSUME SInv, SInv', WInv, UNCHANGED <<depth, writeCount>>,
         \A d \in 1..depth : SameCall(d) /\ frame'[d].writes = frame[d].writes,
         \A tx \in 0..MaxTx : SessionLess(tx), Committed, Undone
  PROVE  WInv'
<1>1. depth \in Nat /\ depth' \in 1..depth
  BY FrameFacts DEF SInv
<1>2. FramesInherit
  <2>1. \A d \in 1..depth : d \in d..depth /\ SessionOf(frame[d].tx) = SessionOf(frame'[d].tx)
    BY <1>1 DEF SameCall
  <2>2. \A d \in 1..(depth' - 1) : d \in 1..depth
    BY <1>1
  <2>3. QED
    BY <2>1, <2>2 DEF FramesInherit
<1>3. QED
  BY <1>1, <1>2, RemainWrites DEF SInv

LEMMA FailWrites ==
  ASSUME SInv, SInv', WInv, ExecFails
  PROVE  WInv'
<1>1. SessionOf(Top.tx) \in 0..MaxTx /\ Session(Top.tx) \in Sessions
  BY TopFacts DEF SInv, Session
<1> DEFINE s == [Session(Top.tx) EXCEPT !.aborted = TRUE]
<1>2. /\ s.saves = Session(Top.tx).saves /\ s.writes = Session(Top.tx).writes
      /\ session' = [session EXCEPT ![SessionOf(Top.tx)] = s]
      /\ UNCHANGED <<depth, frame, writeCount, durable, undone>>
  BY <1>1, AbortedFacts DEF ExecFails, SetSession, counters, history
<1> HIDE DEF s
<1>3. \A tx \in 0..MaxTx : SessionLess(tx)
  BY <1>1, <1>2 DEF SessionLess, SInv, Session
<1>4. \A d \in 1..depth : SameCall(d) /\ frame'[d].writes = frame[d].writes
  BY <1>2 DEF SameCall
<1>5. Committed /\ Undone
  BY <1>2 DEF Committed, Undone
<1>6. QED
  BY <1>2, <1>3, <1>4, <1>5, QuietWrites

LEMMA ExpireWrites ==
  ASSUME SInv, SInv', WInv, NEW d \in 2..MaxDepth, Expire(d)
  PROVE  WInv'
<1>1. UNCHANGED <<depth, session, writeCount, durable, undone>>
  BY DEF Expire, counters, history
<1>2. ASSUME NEW e \in 1..depth PROVE SameCall(e) /\ frame'[e].writes = frame[e].writes
  <2>1. e \in 1..MaxDepth /\ frame[e] \in Frames
    BY FrameFacts DEF SInv
  <2>2. frame'[e] = frame[e] \/ frame'[e] = [frame[e] EXCEPT !.expired = TRUE]
    BY <2>1 DEF Expire
  <2>3. QED
    BY <2>1, <2>2 DEF SameCall, Frames
<1>3. (\A tx \in 0..MaxTx : SessionLess(tx)) /\ Committed /\ Undone
  BY <1>1 DEF SessionLess, Committed, Undone
<1>4. QED
  BY <1>1, <1>2, <1>3, QuietWrites

LEMMA AwaitDoneWrites ==
  ASSUME SInv, SInv', WInv, NEW tx \in 1..MaxTx, AwaitDone(tx)
  PROVE  WInv'
<1>1. /\ UNCHANGED <<depth, frame, writeCount, durable>> /\ undone' = undone \cup session[tx].writes
      /\ session' = [session EXCEPT ![tx] = NoSession] /\ tx \in 0..MaxTx
  BY DEF AwaitDone, counters
<1>2. \A y \in 0..MaxTx : session'[y] = IF y = tx THEN NoSession ELSE session[y]
  BY <1>1 DEF SInv
<1>3. NoSession.writes = {} /\ NoSession.saves = <<>>
  BY NewSessionFacts
<1>4. \A y \in 0..MaxTx : SessionLess(y)
  BY <1>2, <1>3 DEF SessionLess
<1>5. \A w \in session[tx].writes : /\ w <= writeCount /\ w \notin durable'
                                   /\ \A y \in 0..MaxTx : w \notin session'[y].writes
  BY <1>1, <1>2, <1>3 DEF WInv, BoundedInv, ApartInv
<1>6. Committed /\ Undone
  BY <1>1, <1>5 DEF Committed, Undone
<1>7. \A d \in 1..depth : SameCall(d) /\ frame'[d].writes = frame[d].writes
  BY <1>1 DEF SameCall
<1>8. QED
  BY <1>1, <1>4, <1>6, <1>7, QuietWrites

(* A number that is one more than another. *)
LEMMA NextNumber ==
  ASSUME NEW n \in Nat, NEW m \in Nat, m = n + 1
  PROVE  /\ \A w : w \in Nat /\ w <= n => w <= m /\ w # m
         /\ \A a \in Nat : a <= n + 1 => a <= m /\ a <= m + 1
OBVIOUS

(* A write in a session or outside of one. *)
LEMMA ExecWrites ==
  ASSUME SInv, SInv', WInv, Exec
  PROVE  WInv'
<1> DEFINE y == SessionOf(Top.tx)
<1>1. PICK w \in Nat : w = writeCount + 1
  BY BoundAssumption DEF SInv, DataInv
<1>2. /\ writeCount \in Nat /\ writeCount' = w /\ UNCHANGED <<depth, undone>>
      /\ Top = frame[depth] /\ depth \in 1..depth /\ depth \in Nat
      /\ y \in 0..MaxTx /\ Top.tx \in 0..MaxTx
      /\ session[y] = Session(Top.tx) /\ session[y] \in Sessions
  BY <1>1, TopFacts, FrameFacts, BoundAssumption DEF Exec, SInv, DataInv, Top, Session
<1>3. /\ durable \in SUBSET Nat /\ undone \in SUBSET Nat
      /\ \A tx \in 0..MaxTx : session[tx].writes \in SUBSET Nat
      /\ \A tx \in 0..MaxTx : \A i \in DOMAIN session[tx].saves : session[tx].saves[i].at \in Nat
      /\ \A d \in 1..depth : frame[d].writes \in SUBSET Nat
  <2>1. MaxWrites \in Nat /\ \A x : x \in SUBSET (1..MaxWrites) => x \in SUBSET Nat
    BY BoundAssumption
  <2>2. durable \in SUBSET Nat /\ undone \in SUBSET Nat
    BY <2>1 DEF SInv, DataInv
  <2>3. \A tx \in 0..MaxTx :
          /\ session[tx].writes \in SUBSET (1..MaxWrites)
          /\ \A i \in DOMAIN session[tx].saves : session[tx].saves[i].at \in Nat
    BY SessionFields DEF SInv
  <2>4. \A d \in 1..depth : frame[d].writes \in SUBSET (1..MaxWrites)
    BY FrameFacts DEF SInv
  <2>5. QED
    BY <2>1, <2>2, <2>3, <2>4
<1>4. /\ \A u : u \in Nat /\ u <= writeCount => u <= w /\ u # w
      /\ \A a \in Nat : a <= writeCount + 1 => a <= w /\ a <= w + 1
  BY <1>1, <1>2, NextNumber
<1>5. /\ \A u \in durable \cup undone : u <= w /\ u # w
      /\ \A tx \in 0..MaxTx : \A u \in session[tx].writes : u <= w /\ u # w
      /\ \A tx \in 0..MaxTx : \A i \in DOMAIN session[tx].saves :
           session[tx].saves[i].at <= w /\ session[tx].saves[i].at <= w + 1
      /\ \A d \in 1..depth : \A u \in frame[d].writes : u <= w /\ u # w
  BY <1>3, <1>4 DEF WInv, BoundedInv
<1>6. w <= w
  OBVIOUS
<1>7. \/ /\ durable' = durable \cup {w} /\ UNCHANGED <<session, frame>>
      \/ /\ Accepts(Session(Top.tx)) /\ SetSession(Top.tx, Written(Session(Top.tx), w))
         /\ frame' = [frame EXCEPT ![depth].writes = @ \cup {w}]
         /\ UNCHANGED durable
  BY <1>1 DEF Exec
<1> HIDE DEF y
<1>8. CASE durable' = durable \cup {w} /\ UNCHANGED <<session, frame>>
  <2>1. BoundedInv'
    BY <1>2, <1>5, <1>6, <1>8 DEF BoundedInv
  <2>2. ApartInv'
    BY <1>2, <1>5, <1>8 DEF ApartInv, WInv
  <2>3. PlacedInv'
    BY <1>2, <1>5, <1>8 DEF PlacedInv, WInv, Owner, SessionOf
  <2>4. CoverInv'
    <3>1. \A d \in 1..depth : \A name : Holds(d, name)' <=> Holds(d, name)
      BY <1>8 DEF Holds, Owner, Nested
    <3>2. \A d \in 1..depth : Saves(frame[d].tx)' = Saves(frame[d].tx)
      BY <1>8 DEF Saves, SessionOf
    <3>3. depth' = depth /\ frame' = frame
      BY <1>2, <1>8
    <3>4. QED
      BY <3>1, <3>2, <3>3 DEF CoverInv, WInv
  <2>5. QED
    BY <2>1, <2>2, <2>3, <2>4 DEF WInv
<1>9. CASE /\ Accepts(Session(Top.tx)) /\ SetSession(Top.tx, Written(Session(Top.tx), w))
           /\ frame' = [frame EXCEPT ![depth].writes = @ \cup {w}]
           /\ UNCHANGED durable
  <2> DEFINE s == Written(Session(Top.tx), w)
             f == [frame[depth] EXCEPT !.writes = frame[depth].writes \cup {w}]
  <2>1. w \in 1..MaxWrites
    BY <1>1, <1>2, BoundAssumption DEF Exec
  <2>2. s.saves = session[y].saves /\ s.writes = session[y].writes \cup {w}
    BY <1>2, <2>1, StatementFacts
  <2>3. \A tx \in 0..MaxTx : session'[tx] = IF tx = y THEN s ELSE session[tx]
    BY <1>2, <1>9 DEF SetSession, SInv, y
  <2> HIDE DEF s
  <2>4. f.writes = frame[depth].writes \cup {w} /\ f.kind = frame[depth].kind
        /\ f.tx = frame[depth].tx /\ f.name = frame[depth].name
    <3>1. frame[depth] \in Frames
      BY <1>2, FrameFacts DEF SInv
    <3>2. QED
      BY <3>1 DEF Frames
  <2>5. \A d \in 1..depth : frame'[d] = IF d = depth THEN f ELSE frame[d]
    <3>1. frame' = [frame EXCEPT ![depth] = f]
      BY <1>9
    <3> HIDE DEF f
    <3>2. frame \in [1..MaxDepth -> Frames] /\ \A d \in 1..depth : d \in 1..MaxDepth
      BY SMTT(30), FrameFacts DEF SInv, OInv, FrameInv
    <3>3. QED
      BY <3>1, <3>2
  <2> HIDE DEF f
  <2>6. \A tx \in 0..MaxTx : /\ session'[tx].saves = session[tx].saves
                             /\ session'[tx].writes = IF tx = y THEN session[tx].writes \cup {w}
                                                                ELSE session[tx].writes
    BY <2>2, <2>3
  <2>7. \A d \in 1..depth : /\ SameCall(d)
                            /\ frame'[d].writes = IF d = depth THEN frame[d].writes \cup {w}
                                                               ELSE frame[d].writes
    BY <2>4, <2>5 DEF SameCall
  <2>8. \A d \in 1..depth : /\ SessionOf(frame'[d].tx) = SessionOf(frame[d].tx)
                            /\ SessionOf(frame[d].tx) \in 0..MaxTx
                            /\ \A name : Holds(d, name)' <=> Holds(d, name)
    <3>1. depth \in 0..depth
      BY <1>2
    <3>2. QED
      BY <2>7, <3>1, SameHolds, FrameFacts DEF SInv
  <2>9. BoundedInv'
    <3>1. \A u \in durable' \cup undone' : u <= writeCount'
      BY <1>2, <1>5, <1>9
    <3>2. ASSUME NEW d \in 1..depth, NEW u \in frame'[d].writes PROVE u <= w
      <4>1. u \in frame[d].writes \/ u = w
        BY <2>7, <3>2
      <4>2. QED
        BY <1>5, <1>6, <4>1
    <3>3. ASSUME NEW tx \in 0..MaxTx, NEW u \in session'[tx].writes PROVE u <= w
      <4>1. u \in session[tx].writes \/ u = w
        BY <2>6, <3>3
      <4>2. QED
        BY <1>5, <1>6, <4>1
    <3>4. \A tx \in 0..MaxTx : \A i \in DOMAIN session'[tx].saves :
            session'[tx].saves[i].at <= writeCount' + 1
      BY <1>2, <1>5, <2>6
    <3>5. QED
      BY <1>2, <3>1, <3>2, <3>3, <3>4 DEF BoundedInv
  <2>10. ApartInv'
    BY ZenonT(60), <1>2, <1>5, <1>9, <2>6 DEF ApartInv, WInv
  <2>11. PlacedInv'
    <3>1. \A d \in 1..depth' : frame'[d].writes \cap durable' = {}
      BY <1>2, <1>5, <1>9, <2>7 DEF PlacedInv, WInv
    <3>2. ASSUME NEW d \in 1..depth, NEW tx \in 0..MaxTx,
                 NEW u \in frame'[d].writes, u \in session'[tx].writes
          PROVE  tx = SessionOf(frame'[d].tx)
      <4>1. CASE u = w
        <5>1. d = depth /\ tx = y
          BY <1>2, <1>5, <2>6, <2>7, <3>2, <4>1
        <5>2. QED
          BY <1>2, <2>8, <5>1 DEF y
      <4>2. CASE u # w
        <5>1. u \in frame[d].writes /\ u \in session[tx].writes
          BY ZenonT(60), <2>6, <2>7, <3>2, <4>2
        <5>2. QED
          BY <2>8, <5>1 DEF PlacedInv, WInv
      <4>3. QED
        BY <4>1, <4>2
    <3>3. ASSUME SharedSession, NEW d \in 2..depth, Owner(d)', frame'[d - 1].tx = 0,
                 NEW e \in 1..(d - 1)
          PROVE  frame'[e].writes \cap session'[0].writes = {}
      <4>1. d \in 1..depth /\ d - 1 \in 1..depth /\ e \in 1..depth /\ e # depth
        BY <1>2, <3>3
      <4>2. Owner(d) /\ frame[d - 1].tx = 0
        BY <2>7, <3>3, <4>1 DEF SameCall, Owner
      <4>3. frame'[e].writes = frame[e].writes /\ w \notin frame[e].writes
        BY <1>5, <2>7, <4>1
      <4>4. frame[e].writes \cap session[0].writes = {}
        BY <3>3, <4>2 DEF PlacedInv, WInv
      <4>5. 0 \in 0..MaxTx
        BY BoundAssumption
      <4>6. QED
        BY <2>6, <4>3, <4>4, <4>5
    <3>4. ASSUME ~SharedSession, NEW d \in 1..depth, frame'[d].tx = 0
          PROVE  frame'[d].writes = {}
      <4>1. frame[d].tx = 0 /\ frame[d].writes = {}
        BY <2>7, <3>4 DEF SameCall, PlacedInv, WInv
      <4>2. d # depth
        BY <1>2, <1>9, <3>4, <4>1 DEF Accepts, y, SessionOf, SInv, RunInv
      <4>3. QED
        BY <2>7, <4>1, <4>2
    <3>5. QED
      BY <1>2, <3>1, <3>2, <3>3, <3>4 DEF PlacedInv, Owner, SessionOf
  <2>12. CoverInv'
    <3> SUFFICES ASSUME NEW d \in 1..depth', NEW name \in Nat, Holds(d, name)',
                        NEW i \in DOMAIN session'[SessionOf(frame'[d].tx)].saves,
                        session'[SessionOf(frame'[d].tx)].saves[i].name = name,
                        NEW e \in d..depth', NEW u \in frame'[e].writes
                 PROVE  session'[SessionOf(frame'[d].tx)].saves[i].at <= u
      BY DEF CoverInv, Saves, SessionOf
    <3>1. d \in 1..depth /\ e \in d..depth /\ e \in 1..depth /\ Holds(d, name)
      BY <1>2, <2>8
    <3>2. session'[SessionOf(frame'[d].tx)].saves = session[SessionOf(frame[d].tx)].saves
      BY <2>6, <2>8, <3>1
    <3>3. CASE u \in frame[e].writes
      BY <3>1, <3>2, <3>3 DEF CoverInv, WInv, Saves
    <3>4. CASE u = w
      BY <1>5, <2>8, <3>1, <3>2, <3>4
    <3>5. QED
      BY <2>7, <3>1, <3>3, <3>4
  <2>13. QED
    BY <2>9, <2>10, <2>11, <2>12 DEF WInv
<1>10. QED
  BY <1>7, <1>8, <1>9

-------------------------------------------------------------------------------
(* What is rolled back is gone. *)

LEMMA InitWrites == Init => WInv
<1> SUFFICES ASSUME Init PROVE WInv
  OBVIOUS
<1>1. /\ durable = {} /\ undone = {} /\ depth = 1
      /\ \A tx \in 0..MaxTx : session[tx].writes = {} /\ session[tx].saves = <<>>
  BY NewSessionFacts DEF Init
<1>2. \A d \in 1..depth : d = 1 /\ frame[d].writes = {}
  BY <1>1, BoundAssumption DEF Init, NoFrame
<1>3. BoundedInv /\ ApartInv
  BY <1>1, <1>2 DEF BoundedInv, ApartInv
<1>4. PlacedInv
  <2>1. \A d \in 2..depth : \A e \in 1..(d - 1) : FALSE
    BY <1>1
  <2>2. QED
    BY <1>1, <1>2, <2>1 DEF PlacedInv
<1>5. CoverInv
  <2>1. \A d \in 1..depth : \A e \in d..depth : frame[e].writes = {}
    BY <1>1, <1>2
  <2>2. QED
    BY <2>1 DEF CoverInv
<1>6. QED
  BY <1>3, <1>4, <1>5 DEF WInv

LEMMA WInvInductive ==
  ASSUME SInv, SInv', WInv, [Next]_vars
  PROVE  WInv'
<1>1. CASE Call
  BY <1>1, CallWrites
<1>2. CASE Exec
  BY <1>2, ExecWrites
<1>3. CASE ExecFails
  BY <1>3, FailWrites
<1>4. ASSUME NEW outcome \in Outcomes,
             \/ DirectReturns(outcome) \/ SavepointReturns(outcome)
             \/ RollbackReturns(outcome) \/ CommitReturns(outcome)
      PROVE  WInv'
  BY <1>4, ReturnWrites
<1>5. CASE RollbackRetries
  BY <1>5, RetryWrites
<1>6. ASSUME NEW d \in 2..MaxDepth, Expire(d)
      PROVE  WInv'
  BY <1>6, ExpireWrites
<1>7. ASSUME NEW tx \in 1..MaxTx, AwaitDone(tx)
      PROVE  WInv'
  BY <1>7, AwaitDoneWrites
<1>8. CASE UNCHANGED vars
  <2>1. UNCHANGED <<depth, frame, session, writeCount, durable, undone>>
    BY <1>8 DEF vars, counters, history
  <2>2. /\ \A d \in 1..depth : SameCall(d) /\ frame'[d].writes = frame[d].writes
        /\ \A tx \in 0..MaxTx : SessionLess(tx)
        /\ Committed /\ Undone
    BY <2>1 DEF SameCall, SessionLess, Committed, Undone
  <2>3. QED
    BY <2>1, <2>2, QuietWrites
<1>9. QED
  BY <1>1, <1>2, <1>3, <1>4, <1>5, <1>6, <1>7, <1>8 DEF Next, Return

LEMMA WInvAlways == Spec => [](SInv /\ WInv)
<1>1. Init => SInv /\ WInv
  BY InitSInv, InitWrites
<1>2. SInv /\ WInv /\ [Next]_vars => (SInv /\ WInv)'
  BY SInvInductive, WInvInductive
<1>3. QED
  BY <1>1, <1>2, PTL DEF Spec

(* transaction.go:67, db/transaction.go:328: for both kinds of drivers and  *)
(* whatever is nested, retried, expired or fails to commit: a write of a    *)
(* txFunc that was rolled back is not durable and can not become so.        *)
THEOREM RolledBackStaysGone == Spec => []RolledBackIsGone
<1>1. WInv => RolledBackIsGone
  BY DEF WInv, ApartInv, RolledBackIsGone, Pending
<1>2. QED
  BY <1>1, WInvAlways, PTL

-------------------------------------------------------------------------------
(* Pools: what was reported as committed is durable. *)

(* The writes of a frame whose transaction is open are pending in it. *)
PendingInv ==
  \A d \in 1..depth : frame[d].tx # 0 /\ session[frame[d].tx].open =>
    frame[d].writes \subseteq session[frame[d].tx].writes

(* A savepoint was set after the writes of the calls around its own. *)
EarlierInv ==
  \A d, e \in 1..depth : \A name \in Nat :
    d < e /\ SessionOf(frame[d].tx) = SessionOf(frame[e].tx) /\ Holds(e, name) =>
      \A i \in DOMAIN Saves(frame[e].tx) : Saves(frame[e].tx)[i].name = name =>
        \A w \in frame[d].writes : w < Saves(frame[e].tx)[i].at

KInv == KeptIsDurable /\ PendingInv /\ EarlierInv

LEMMA BelowLast ==
  ASSUME NEW n \in Nat, NEW d \in 1..n, NEW e \in 1..n, d < e
  PROVE  d \in 1..(n - 1)
OBVIOUS

(* Only the top frame gets writes, and new savepoints are after all writes. *)
LEMMA EarlierStep ==
  ASSUME SInv, WInv, KInv, depth' \in Nat, NEW k \in 0..depth,
         \A d \in 1..k : SameCall(d),
         \A d \in 1..(depth' - 1) : d \in 1..k /\ frame'[d].writes \subseteq frame[d].writes,
         \A tx \in 0..MaxTx : \A i \in DOMAIN session'[tx].saves :
           \/ i \in DOMAIN session[tx].saves /\ session'[tx].saves[i] = session[tx].saves[i]
           \/ session'[tx].saves[i].at = writeCount + 1,
         \A e \in 1..depth' : \A name \in Nat : e \notin 1..k /\ Holds(e, name)' =>
           \A i \in DOMAIN session'[SessionOf(frame'[e].tx)].saves :
             session'[SessionOf(frame'[e].tx)].saves[i].name = name =>
               session'[SessionOf(frame'[e].tx)].saves[i].at = writeCount + 1
  PROVE  EarlierInv'
<1> SUFFICES ASSUME NEW d \in 1..depth', NEW e \in 1..depth', NEW name \in Nat, d < e,
                    SessionOf(frame'[d].tx) = SessionOf(frame'[e].tx), Holds(e, name)',
                    NEW i \in DOMAIN session'[SessionOf(frame'[e].tx)].saves,
                    session'[SessionOf(frame'[e].tx)].saves[i].name = name,
                    NEW w \in frame'[d].writes
             PROVE  w < session'[SessionOf(frame'[e].tx)].saves[i].at
  BY DEF EarlierInv, Saves, SessionOf
<1>1. \A c \in 1..k : /\ c \in 1..depth /\ SessionOf(frame'[c].tx) = SessionOf(frame[c].tx)
                      /\ SessionOf(frame[c].tx) \in 0..MaxTx
                      /\ \A n : Holds(c, n)' <=> Holds(c, n)
  BY SameHolds, FrameFacts DEF SInv
<1>2. d \in 1..(depth' - 1)
  BY BelowLast
<1>3. d \in 1..k /\ d \in 1..depth /\ w \in frame[d].writes
  BY <1>1, <1>2
<1>4. w < writeCount + 1
  <2>1. w \in Nat /\ writeCount \in Nat
    BY SMTT(30), <1>3, FrameFacts, BoundAssumption DEF SInv, DataInv
  <2>2. w <= writeCount
    BY <1>3 DEF WInv, BoundedInv
  <2>3. QED
    BY <2>1, <2>2
<1>5. CASE session'[SessionOf(frame'[e].tx)].saves[i].at = writeCount + 1
  BY <1>4, <1>5
<1>6. CASE session'[SessionOf(frame'[e].tx)].saves[i].at # writeCount + 1
  <2>1. e \in 1..k
    BY <1>6
  <2>2. /\ e \in 1..depth /\ SessionOf(frame'[e].tx) = SessionOf(frame[e].tx) /\ Holds(e, name)
        /\ SessionOf(frame[e].tx) \in 0..MaxTx
        /\ SessionOf(frame[d].tx) = SessionOf(frame[e].tx)
    BY <1>1, <1>3, <2>1
  <2>3. /\ i \in DOMAIN Saves(frame[e].tx)
        /\ Saves(frame[e].tx)[i] = session'[SessionOf(frame'[e].tx)].saves[i]
    BY <1>6, <2>2 DEF Saves
  <2>4. Saves(frame[e].tx)[i].name = name
    BY <2>3
  <2>5. w < Saves(frame[e].tx)[i].at
    BY <1>3, <2>2, <2>3, <2>4 DEF KInv, EarlierInv
  <2>6. QED
    BY <2>3, <2>5
<1>7. QED
  BY <1>5, <1>6

(* A call starts. *)
LEMMA PushPool ==
  ASSUME ~SharedSession, SInv, SInv', WInv, KInv,
         depth' = depth + 1, \A d \in 1..depth : frame'[d] = frame[d],
         frame'[depth + 1].writes = {}, UNCHANGED <<durable, kept>>,
         \A tx \in 0..MaxTx : NewSaves(tx),
         \A d \in 1..depth : /\ session'[frame[d].tx].writes = session[frame[d].tx].writes
                             /\ session'[frame[d].tx].open => session[frame[d].tx].open,
         frame'[depth + 1].kind = "savepoint" => ~Known(frame'[depth + 1].name)
  PROVE  KInv'
<1>1. /\ depth \in Nat /\ depth' \in Nat /\ depth \in 0..depth
      /\ \A d \in 1..depth' : d \in 1..depth \/ d = depth + 1
      /\ \A d \in 1..(depth' - 1) : d \in 1..depth
      /\ depth + 1 \in 1..depth'
  BY FrameFacts DEF SInv
<1>2. KeptIsDurable'
  BY DEF KInv, KeptIsDurable
<1>3. PendingInv'
  <2>1. ASSUME NEW d \in 1..depth', frame'[d].tx # 0, session'[frame'[d].tx].open
        PROVE  frame'[d].writes \subseteq session'[frame'[d].tx].writes
    <3>1. CASE d = depth + 1
      BY <3>1
    <3>2. CASE d \in 1..depth
      <4>1. frame'[d] = frame[d] /\ session[frame[d].tx].open /\ frame[d].tx # 0
            /\ session'[frame[d].tx].writes = session[frame[d].tx].writes
        BY <2>1, <3>2
      <4>2. QED
        BY <3>2, <4>1 DEF KInv, PendingInv
    <3>3. QED
      BY <1>1, <3>1, <3>2
  <2>2. QED
    BY <2>1 DEF PendingInv
<1>4. EarlierInv'
  <2>1. \A d \in 1..depth : SameCall(d)
    BY DEF SameCall
  <2>2. \A d \in 1..(depth' - 1) : d \in 1..depth /\ frame'[d].writes \subseteq frame[d].writes
    BY <1>1
  <2>3. \A tx \in 0..MaxTx : \A i \in DOMAIN session'[tx].saves :
           \/ i \in DOMAIN session[tx].saves /\ session'[tx].saves[i] = session[tx].saves[i]
           \/ session'[tx].saves[i].at = writeCount + 1
    BY DEF NewSaves
  <2>4. ASSUME NEW e \in 1..depth', NEW name \in Nat, e \notin 1..depth, Holds(e, name)',
               NEW i \in DOMAIN session'[SessionOf(frame'[e].tx)].saves,
               session'[SessionOf(frame'[e].tx)].saves[i].name = name
        PROVE  session'[SessionOf(frame'[e].tx)].saves[i].at = writeCount + 1
    <3>1. e = depth + 1
      BY <1>1, <2>4
    <3>2. frame'[e].kind = "savepoint" /\ name = frame'[e].name
      BY <2>4 DEF Holds, Nested
    <3>3. ~Known(name)
      BY <3>1, <3>2
    <3>4. SessionOf(frame'[e].tx) \in 0..MaxTx
      <4>1. frame' \in [1..MaxDepth -> Frames] /\ depth' \in 1..MaxDepth
        BY DEF SInv, OInv, FrameInv
      <4>2. e \in 1..MaxDepth
        BY <4>1, BoundAssumption
      <4>3. frame'[e] \in Frames
        BY <4>1, <4>2
      <4>4. frame'[e].tx \in 0..MaxTx
        BY <4>3 DEF Frames
      <4>5. QED
        BY <4>4 DEF SessionOf
    <3>5. QED
      BY <2>4, <3>3, <3>4 DEF NewSaves, SInv, NestInv, NamesInv
  <2>5. QED
    BY <1>1, <2>1, <2>2, <2>3, <2>4, EarlierStep
<1>5. QED
  BY <1>2, <1>3, <1>4 DEF KInv

(* A call returns: its writes go to a caller in the same transaction, or    *)
(* they end with the transaction or savepoint of the call.                  *)
LEMMA PopPool ==
  ASSUME ~SharedSession, SInv, SInv', WInv, KInv, depth > 1, NEW ws, Pop(ws),
         ws = {} \/ (ws = Top.writes /\ ~Owner(depth)),
         NEW s, SetSession(Top.tx, s), Settled(s), (kept \subseteq durable)',
         \/ s = NoSession
         \/ s.writes = Session(Top.tx).writes /\ (s.open => Session(Top.tx).open)
         \/ /\ ws = {} /\ Session(Top.tx).open
            /\ \E name \in Nat : Holds(depth, name) /\ s = RolledBackTo(Session(Top.tx), name)
  PROVE  KInv'
<1> DEFINE y == Top.tx
<1>1. /\ Top = frame[depth] /\ depth \in Nat /\ depth \in 2..depth /\ depth \in 1..depth
      /\ y \in 0..MaxTx /\ session[y] = Session(Top.tx) /\ session' = [session EXCEPT ![y] = s]
      /\ ws \in SUBSET (1..MaxWrites)
  BY TopFacts, FrameFacts DEF SInv, Top, Session, SessionOf, SetSession
<1>2. /\ depth' = depth - 1 /\ depth' \in 1..depth
      /\ \A d \in 1..depth' :
           /\ d \in 1..depth /\ SameCall(d)
           /\ frame'[d].writes = IF d = depth - 1 THEN frame[d].writes \cup ws
                                                  ELSE frame[d].writes
  BY <1>1, PopFrames DEF SInv
<1>3. \A tx \in 0..MaxTx : session'[tx] = IF tx = y THEN s ELSE session[tx]
  BY <1>1 DEF SInv
<1> HIDE DEF y
<1>4. ASSUME NEW d \in 1..depth', frame[d].tx # 0, session[frame[d].tx].open,
             NEW w \in frame'[d].writes
      PROVE  w \in session[frame[d].tx].writes
  <2>1. CASE w \in frame[d].writes
    BY <1>2, <1>4, <2>1 DEF KInv, PendingInv
  <2>2. CASE w \notin frame[d].writes
    <3>1. d = depth - 1 /\ w \in ws
      BY <1>2, <1>4, <2>2
    <3>2. w \in frame[depth].writes /\ ~Owner(depth)
      BY <1>1, <3>1
    <3>3. frame[depth].tx # 0
      BY <1>1, <3>2 DEF WInv, PlacedInv
    <3>4. frame[depth].tx = frame[d].tx
      BY <1>1, <3>1, <3>2, <3>3 DEF SInv, ShapeInv
    <3>5. QED
      BY <1>1, <1>4, <3>2, <3>3, <3>4 DEF KInv, PendingInv
  <2>3. QED
    BY <2>1, <2>2
<1>5. PendingInv'
  <2> SUFFICES ASSUME NEW d \in 1..depth', frame'[d].tx # 0, session'[frame'[d].tx].open,
                      NEW w \in frame'[d].writes
               PROVE  w \in session'[frame'[d].tx].writes
    BY DEF PendingInv
  <2>1. frame'[d].tx = frame[d].tx /\ d \in 1..depth /\ frame[d].tx \in 0..MaxTx
    BY <1>2, FrameFacts DEF SameCall, SInv
  <2>2. CASE frame[d].tx # y
    <3>1. session'[frame[d].tx] = session[frame[d].tx]
      BY <1>3, <2>1, <2>2
    <3>2. QED
      BY <1>4, <2>1, <3>1
  <2>3. CASE frame[d].tx = y
    <3>1. session'[frame[d].tx] = s /\ s.open
      BY <1>3, <2>1, <2>3
    <3>2. s # NoSession
      BY <3>1, NewSessionFacts
    <3>3. session[y].open
      BY <1>1, <3>1, <3>2
    <3>4. w \in session[y].writes
      BY <1>4, <2>1, <2>3, <3>3
    <3>5. ASSUME ws = {}, NEW name \in Nat, Holds(depth, name), s = RolledBackTo(session[y], name)
          PROVE  w \in s.writes
      <4>1. /\ session[y] \in Sessions /\ Unique(session[y])
            /\ \E i \in DOMAIN session[y].saves : session[y].saves[i].name = name
        BY <1>1, <3>3, <3>5, TopSavepoint
      <4>2. PICK i \in DOMAIN session[y].saves : session[y].saves[i].name = name
        BY <4>1
      <4>3. s.writes = {u \in session[y].writes : u < session[y].saves[i].at}
        BY <3>5, <4>1, <4>2, RolledBackToFacts
      <4>4. w \in frame[d].writes
        BY <1>2, <3>5
      <4>5. d < depth /\ SessionOf(frame[d].tx) = SessionOf(frame[depth].tx)
            /\ Saves(frame[depth].tx) = session[y].saves
        BY <1>1, <1>2, <2>3 DEF y, SessionOf, Saves
      <4>6. w < session[y].saves[i].at
        BY <1>1, <2>1, <3>5, <4>2, <4>4, <4>5 DEF KInv, EarlierInv
      <4>7. QED
        BY <3>4, <4>3, <4>6
    <3>6. w \in s.writes
      BY <1>1, <3>2, <3>4, <3>5
    <3>7. QED
      BY <2>1, <3>1, <3>6
  <2>4. QED
    BY <2>2, <2>3
<1>6. EarlierInv'
  <2>1. depth' \in 0..depth /\ depth' \in Nat
    BY <1>2
  <2>2. \A d \in 1..(depth' - 1) : d \in 1..depth' /\ d # depth - 1
    BY <1>1, <1>2
  <2>3. \A d \in 1..(depth' - 1) : d \in 1..depth' /\ frame'[d].writes \subseteq frame[d].writes
    BY <1>2, <2>2
  <2>4. \A tx \in 0..MaxTx : SessionLess(tx)
    BY SettledSession
  <2>5. \A tx \in 0..MaxTx : \A i \in DOMAIN session'[tx].saves :
          i \in DOMAIN session[tx].saves /\ session'[tx].saves[i] = session[tx].saves[i]
    BY <2>4 DEF SessionLess
  <2>6. \A d \in 1..depth' : SameCall(d)
    BY <1>2
  <2>7. QED
    BY <2>1, <2>3, <2>5, <2>6, EarlierStep
<1>7. QED
  BY <1>5, <1>6 DEF KInv, KeptIsDurable

LEMMA ReturnPool ==
  ASSUME ~SharedSession, SInv, SInv', WInv, KInv, NEW outcome \in Outcomes,
         \/ DirectReturns(outcome) \/ SavepointReturns(outcome)
         \/ RollbackReturns(outcome) \/ CommitReturns(outcome)
  PROVE  KInv'
<1> DEFINE s0 == Session(Top.tx)
           parentTx == frame[depth - 1].tx
<1>1. /\ Top = frame[depth] /\ depth \in 1..depth /\ Top.tx \in 0..MaxTx /\ Top.tx \in Nat
      /\ Top.name \in Nat /\ SessionOf(Top.tx) \in 0..MaxTx /\ s0 = session[Top.tx]
      /\ ~Nested(parentTx)
  BY TopFacts, FrameFacts DEF SInv, Top, Session, SessionOf, Nested
<1>2. ASSUME UNCHANGED session PROVE SetSession(Top.tx, s0) /\ Settled(s0)
  BY <1>1, <1>2 DEF SInv, SetSession, Session, Settled
<1>3. UNCHANGED <<kept, durable>> => (kept \subseteq durable)'
  BY DEF KInv, KeptIsDurable
<1>4. Owner(depth) => Settled(NoSession)
  BY <1>1 DEF Settled
<1>5. CASE DirectReturns(outcome)
  <2>1. /\ depth > 1 /\ Pop(Top.writes) /\ UNCHANGED <<session, kept, durable>> /\ ~Owner(depth)
    BY <1>1, <1>5 DEF DirectReturns, Ends, history, Owner
  <2>2. QED
    BY <1>2, <1>3, <2>1, PopPool
<1>6. CASE SavepointReturns(outcome)
  <2>1. /\ depth > 1 /\ UNCHANGED <<kept, durable>> /\ Top.kind = "savepoint" /\ ~Owner(depth)
    BY <1>1, <1>6 DEF SavepointReturns, Ends, Owner
  <2>2. Holds(depth, Top.name)
    BY <1>1, <2>1 DEF Holds
  <2>3. \/ UNCHANGED session /\ (Pop(Top.writes) \/ Pop({}))
        \/ s0.open /\ SetSession(Top.tx, RolledBackTo(s0, Top.name)) /\ Pop({})
        \/ s0.open /\ SetSession(Top.tx, Released(s0, Top.name)) /\ Pop(Top.writes)
    BY <1>6 DEF SavepointReturns, Accepts
  <2>4. CASE UNCHANGED session /\ (Pop(Top.writes) \/ Pop({}))
    BY <1>2, <1>3, <2>1, <2>4, PopPool
  <2>5. CASE s0.open /\ SetSession(Top.tx, RolledBackTo(s0, Top.name)) /\ Pop({})
    <3>1. Settled(RolledBackTo(s0, Top.name))
      BY <1>1, <2>2, <2>5 DEF Settled
    <3>2. QED
      BY <1>1, <1>3, <2>1, <2>2, <2>5, <3>1, PopPool
  <2>6. CASE s0.open /\ SetSession(Top.tx, Released(s0, Top.name)) /\ Pop(Top.writes)
    <3>1. Settled(Released(s0, Top.name))
      BY <1>1, <2>2, <2>6 DEF Settled
    <3>2. Released(s0, Top.name).writes = s0.writes
      <4>1. /\ s0 \in Sessions /\ Unique(s0)
            /\ \E i \in DOMAIN s0.saves : s0.saves[i].name = Top.name
        BY <1>1, <2>2, <2>6, TopSavepoint
      <4>2. QED
        BY SMTT(30), <4>1, ReleasedFacts
    <3>3. QED
      BY <1>3, <2>1, <2>6, <3>1, <3>2, PopPool
  <2>7. QED
    BY <2>3, <2>4, <2>5, <2>6
<1>7. CASE RollbackReturns(outcome)
  <2>1. /\ depth > 1 /\ Owner(depth) /\ Pop({}) /\ UNCHANGED <<kept, durable>>
        /\ UNCHANGED session \/ SetSession(Top.tx, NoSession)
    BY <1>1, <1>7 DEF RollbackReturns, Rollback, ReturnsError, Ends, Owner
  <2>2. QED
    BY <1>2, <1>3, <1>4, <2>1, PopPool
<1>8. CASE CommitReturns(outcome)
  <2>1. /\ depth > 1 /\ Owner(depth)
        /\ CommitAccepted(parentTx) \/ CommitFails(parentTx)
    BY <1>1, <1>8 DEF CommitReturns, Ends, Owner
  <2>2. CASE CommitAccepted(parentTx)
    <3>1. /\ s0.open /\ SetSession(Top.tx, NoSession) /\ Pop({})
          /\ durable' = durable \cup s0.writes /\ kept' = kept \cup Top.writes
      BY <1>1, <2>2 DEF CommitAccepted, Accepts, ReturnsNil
    <3>2. Top.tx # 0
      BY <1>1, <2>1 DEF SInv, OInv, OwnerInv
    <3>3. Top.writes \subseteq s0.writes
      BY <1>1, <3>1, <3>2 DEF KInv, PendingInv
    <3>4. (kept \subseteq durable)'
      BY <3>1, <3>3 DEF KInv, KeptIsDurable
    <3>5. QED
      BY <1>4, <2>1, <3>1, <3>4, PopPool
  <2>3. CASE CommitFails(parentTx)
    <3>1. /\ Pop({}) /\ UNCHANGED <<kept, durable>>
          /\ SetSession(Top.tx, s0) \/ SetSession(Top.tx, NoSession)
      BY <2>3 DEF CommitFails, CommitErrorReturned, ReturnsError
    <3>2. Settled(s0)
      BY DEF Settled
    <3>3. QED
      BY <1>3, <1>4, <2>1, <3>1, <3>2, PopPool
  <2>4. QED
    BY <2>1, <2>2, <2>3
<1>9. QED
  BY <1>5, <1>6, <1>7, <1>8

(* A savepoint is set without a write. *)
LEMMA SavepointKeeps ==
  ASSUME SInv, NEW tx \in 0..MaxTx, NEW n \in Nat,
         session' = [session EXCEPT ![tx] = WithSavepoint(session[tx], n, writeCount + 1)]
  PROVE  \A t \in 0..MaxTx : /\ session'[t].writes = session[t].writes
                             /\ session'[t].open = session[t].open
<1> DEFINE s == WithSavepoint(session[tx], n, writeCount + 1)
<1>1. ASSUME NEW r \in Sessions, NEW at \in Nat
      PROVE  /\ WithSavepoint(r, n, at).writes = r.writes
             /\ WithSavepoint(r, n, at).open = r.open
  BY ZenonT(60), WithSavepointFacts
<1>2. s.writes = session[tx].writes /\ s.open = session[tx].open
  BY <1>1, BoundAssumption DEF SInv, DataInv
<1> HIDE DEF s
<1>3. \A t \in 0..MaxTx : session'[t] = IF t = tx THEN s ELSE session[t]
  BY DEF SInv, s
<1>4. QED
  BY <1>2, <1>3

LEMMA CallPool ==
  ASSUME ~SharedSession, SInv, SInv', WInv, KInv, Call
  PROVE  KInv'
<1>1. /\ depth \in Nat /\ depth \in 1..depth /\ Top = frame[depth] /\ Top.tx \in 0..MaxTx
      /\ session[Top.tx] = Session(Top.tx) /\ depth < MaxDepth /\ ~Nested(Top.tx)
      /\ \A d \in 1..depth : frame[d].tx \in 0..MaxTx
  BY FrameFacts, CallKinds DEF SInv, Top, Session, SessionOf, Nested
<1>2. ASSUME NEW f \in Frames, Direct(f), f.kind \in {"plain", "pass", "serializedPass"}, f.writes = {}
      PROVE  KInv'
  <2>1. /\ depth' = depth + 1 /\ frame'[depth + 1] = f
        /\ \A d \in 1..depth : frame'[d] = frame[d]
    BY <1>1, <1>2, PushFrames DEF SInv, Direct
  <2>2. UNCHANGED <<session, durable, kept>>
    BY <1>2 DEF Direct, history
  <2>3. \A tx \in 0..MaxTx : NewSaves(tx)
    BY <2>2 DEF NewSaves
  <2>4. frame'[depth + 1].writes = {} /\ frame'[depth + 1].kind # "savepoint"
    BY <1>2, <2>1
  <2>5. QED
    BY <2>1, <2>2, <2>3, <2>4, PushPool
<1>3. ASSUME NEW f \in Frames, NEW opts \in TxOptions, BeginFrame(f, opts), f.writes = {},
             f.kind \in {"own", "serialized"}
      PROVE  KInv'
  <2> DEFINE t == txCount + 1
             b == Begun(opts.readOnly /\ ~SharedSession)
  <2>1. /\ t \in 1..MaxTx /\ depth' = depth + 1 /\ frame'[depth + 1].writes = {}
        /\ frame'[depth + 1].kind # "savepoint"
        /\ \A d \in 1..depth : frame'[d] = frame[d] /\ frame[d].tx < t
        /\ UNCHANGED <<durable, kept>>
    BY <1>1, <1>3, BegunFacts DEF history
  <2>2. session' = [session EXCEPT ![t] = b]
    BY <1>1, <1>3 DEF BeginFrame, Begin, SetSession, SessionOf
  <2>3. b.saves = <<>>
    <3>1. (opts.readOnly /\ ~SharedSession) \in BOOLEAN
      OBVIOUS
    <3>2. QED
      BY <3>1, NewSessionFacts
  <2> HIDE DEF b
  <2>4. \A tx \in 0..MaxTx : session'[tx] = IF tx = t THEN b ELSE session[tx]
    BY <2>2 DEF SInv
  <2>5. \A tx \in 0..MaxTx : NewSaves(tx)
    BY <2>3, <2>4 DEF NewSaves
  <2>6. \A d \in 1..depth : session'[frame[d].tx] = session[frame[d].tx]
    <3>1. \A d \in 1..depth : frame[d].tx # t
      BY <1>1, <2>1
    <3>2. QED
      BY <1>1, <2>4, <3>1
  <2>7. QED
    BY <2>1, <2>5, <2>6, PushPool
<1>4. CASE TransactionSavepoint
  <2> DEFINE f == [Inner("savepoint") EXCEPT !.name = NextSavepoint]
             tx == Top.tx
  <2>1. /\ Accepts(Session(Top.tx)) /\ Push(f)
        /\ session' = [session EXCEPT ![tx] = WithSavepoint(Session(Top.tx), NextSavepoint, writeCount + 1)]
        /\ UNCHANGED <<durable, kept>>
    BY <1>4 DEF TransactionSavepoint, SetSession, SessionOf, history
  <2>2. NextSavepoint \in Nat /\ ~Known(NextSavepoint)
    BY NewNames DEF NextSavepoint
  <2>3. f \in Frames /\ f.name = NextSavepoint /\ f.writes = {}
    <3>1. Inner("savepoint") \in Frames /\ Top \in Frames
      BY InnerFrame DEF SInv, OInv, Kinds
    <3>2. Inner("savepoint").writes = {}
      BY <3>1 DEF Inner, Frames
    <3>3. QED
      BY ZenonT(60), <2>2, <3>1, <3>2, FrameUpdates DEF Frames
  <2> HIDE DEF f
  <2>4. /\ depth' = depth + 1 /\ frame'[depth + 1] = f
        /\ \A d \in 1..depth : frame'[d] = frame[d]
    BY <1>1, <2>1, <2>3, PushFrames DEF SInv
  <2>5. PICK n \in Nat : n = NextSavepoint
    BY <2>2
  <2>6. /\ session[tx].open /\ ~Known(n)
        /\ session' = [session EXCEPT ![tx] = WithSavepoint(session[tx], n, writeCount + 1)]
    BY <1>1, <2>1, <2>2, <2>5 DEF Accepts
  <2>7. \A x \in 0..MaxTx : NewSaves(x)
    BY <1>1, <2>6, SavepointSession
  <2>8. \A x \in 0..MaxTx : /\ session'[x].writes = session[x].writes
                            /\ session'[x].open = session[x].open
    BY <1>1, <2>6, SavepointKeeps
  <2>9. frame'[depth + 1].writes = {} /\ ~Known(frame'[depth + 1].name)
    BY <2>2, <2>3, <2>4
  <2>10. QED
    BY <1>1, <2>1, <2>4, <2>7, <2>8, <2>9, PushPool
<1>5. QED
  BY <1>2, <1>3, <1>4, CallKinds

(* A step that changes neither calls nor writes nor opens a session. *)
LEMMA QuietPool ==
  ASSUME ~SharedSession, SInv, SInv', WInv, KInv, UNCHANGED <<depth, durable, kept>>,
         \A d \in 1..depth : SameCall(d) /\ frame'[d].writes = frame[d].writes,
         \A tx \in 0..MaxTx : /\ session'[tx].open =>
                                   session[tx].open /\ session'[tx].writes = session[tx].writes
                              /\ SessionLess(tx)
  PROVE  KInv'
<1>1. /\ depth \in Nat /\ depth' = depth /\ depth \in 0..depth
      /\ \A d \in 1..(depth' - 1) : d \in 1..depth
      /\ \A d \in 1..depth : frame[d].tx \in 0..MaxTx
  BY FrameFacts DEF SInv
<1>2. PendingInv'
  <2>1. ASSUME NEW d \in 1..depth, frame'[d].tx # 0, session'[frame'[d].tx].open
        PROVE  frame'[d].writes \subseteq session'[frame'[d].tx].writes
    <3>1. frame'[d].tx = frame[d].tx /\ frame'[d].writes = frame[d].writes /\ frame[d].tx \in 0..MaxTx
      BY <1>1 DEF SameCall
    <3>2. session[frame[d].tx].open /\ session'[frame[d].tx].writes = session[frame[d].tx].writes
      BY <2>1, <3>1
    <3>3. frame[d].writes \subseteq session[frame[d].tx].writes
      BY <2>1, <3>1, <3>2 DEF KInv, PendingInv
    <3>4. QED
      BY <3>1, <3>2, <3>3
  <2>2. QED
    BY <1>1, <2>1 DEF PendingInv
<1>3. EarlierInv'
  <2>1. \A tx \in 0..MaxTx : \A i \in DOMAIN session'[tx].saves :
          i \in DOMAIN session[tx].saves /\ session'[tx].saves[i] = session[tx].saves[i]
    BY DEF SessionLess
  <2>2. \A d \in 1..(depth' - 1) : d \in 1..depth /\ frame'[d].writes \subseteq frame[d].writes
    BY <1>1
  <2>3. depth' \in Nat /\ \A e \in 1..depth' : e \in 1..depth
    BY <1>1
  <2>4. QED
    BY <1>1, <2>1, <2>2, <2>3, EarlierStep
<1>4. QED
  BY <1>2, <1>3 DEF KInv, KeptIsDurable

LEMMA FailPool ==
  ASSUME ~SharedSession, SInv, SInv', WInv, KInv, ExecFails
  PROVE  KInv'
<1> DEFINE s == [Session(Top.tx) EXCEPT !.aborted = TRUE]
           y == SessionOf(Top.tx)
<1>1. y \in 0..MaxTx /\ session[y] = Session(Top.tx) /\ session[y] \in Sessions
  BY TopFacts DEF SInv, Session
<1>2. /\ s.saves = session[y].saves /\ s.writes = session[y].writes /\ s.open = session[y].open
      /\ session' = [session EXCEPT ![y] = s]
      /\ UNCHANGED <<depth, frame, durable, kept>>
  BY <1>1, AbortedFacts DEF ExecFails, SetSession, history
<1> HIDE DEF s, y
<1>3. \A tx \in 0..MaxTx : session'[tx] = IF tx = y THEN s ELSE session[tx]
  BY <1>2 DEF SInv
<1>4. \A tx \in 0..MaxTx : /\ session'[tx].open =>
                                session[tx].open /\ session'[tx].writes = session[tx].writes
                           /\ SessionLess(tx)
  BY <1>2, <1>3 DEF SessionLess
<1>5. \A d \in 1..depth : SameCall(d) /\ frame'[d].writes = frame[d].writes
  BY <1>2 DEF SameCall
<1>6. QED
  BY <1>2, <1>4, <1>5, QuietPool

LEMMA ExpirePool ==
  ASSUME ~SharedSession, SInv, SInv', WInv, KInv, NEW d \in 2..MaxDepth, Expire(d)
  PROVE  KInv'
<1>1. UNCHANGED <<depth, session, durable, kept>>
  BY DEF Expire, history
<1>2. ASSUME NEW e \in 1..depth PROVE SameCall(e) /\ frame'[e].writes = frame[e].writes
  <2>1. e \in 1..MaxDepth /\ frame[e] \in Frames
    BY FrameFacts DEF SInv
  <2>2. frame'[e] = frame[e] \/ frame'[e] = [frame[e] EXCEPT !.expired = TRUE]
    BY <2>1 DEF Expire
  <2>3. QED
    BY <2>1, <2>2 DEF SameCall, Frames
<1>3. \A tx \in 0..MaxTx : SessionLess(tx)
  BY <1>1 DEF SessionLess
<1>4. QED
  BY <1>1, <1>2, <1>3, QuietPool

LEMMA AwaitDonePool ==
  ASSUME ~SharedSession, SInv, SInv', WInv, KInv, NEW tx \in 1..MaxTx, AwaitDone(tx)
  PROVE  KInv'
<1>1. /\ UNCHANGED <<depth, frame, durable, kept>>
      /\ session' = [session EXCEPT ![tx] = NoSession] /\ tx \in 0..MaxTx
  BY DEF AwaitDone
<1>2. \A y \in 0..MaxTx : session'[y] = IF y = tx THEN NoSession ELSE session[y]
  BY <1>1 DEF SInv
<1>3. NoSession.writes = {} /\ NoSession.saves = <<>> /\ ~NoSession.open
  BY NewSessionFacts
<1>4. \A y \in 0..MaxTx : /\ session'[y].open =>
                               session[y].open /\ session'[y].writes = session[y].writes
                          /\ SessionLess(y)
  BY <1>2, <1>3 DEF SessionLess
<1>5. \A d \in 1..depth : SameCall(d) /\ frame'[d].writes = frame[d].writes
  BY <1>1 DEF SameCall
<1>6. QED
  BY <1>1, <1>4, <1>5, QuietPool

(* The next try begins in a session of its own. *)
LEMMA RetryPool ==
  ASSUME ~SharedSession, SInv, SInv', WInv, KInv, RollbackRetries
  PROVE  KInv'
<1> DEFINE t == txCount + 1
           y == Top.tx
<1>1. /\ t \in 1..MaxTx /\ depth \in 1..depth /\ depth \in Nat /\ Top = frame[depth]
      /\ frame'[depth].writes = {} /\ frame'[depth].kind = "serialized"
      /\ depth' = depth
      /\ \A d \in 1..(depth - 1) : d \in 1..depth /\ frame'[d] = frame[d]
      /\ \A d \in 1..depth : frame[d].tx < t /\ frame[d].tx \in 0..MaxTx
      /\ session' = [session EXCEPT ![y] = NoSession, ![t] = Begun(FALSE)]
      /\ y \in 0..MaxTx /\ t \in 0..MaxTx
  BY RetryFacts, FrameFacts DEF SInv, SessionOf
<1>2. UNCHANGED <<durable, kept>>
  BY DEF RollbackRetries, ReturnsError
<1> HIDE DEF y
<1>3. \A tx \in 0..MaxTx :
        session'[tx] = IF tx = t THEN Begun(FALSE)
                       ELSE IF tx = y THEN NoSession ELSE session[tx]
  <2> DEFINE s1 == [session EXCEPT ![y] = NoSession]
  <2>1. s1 = [tx \in 0..MaxTx |-> IF tx = y THEN NoSession ELSE session[tx]]
    BY <1>1 DEF SInv
  <2>2. session' = [s1 EXCEPT ![t] = Begun(FALSE)]
    BY <1>1
  <2> HIDE DEF s1
  <2>3. QED
    BY <1>1, <2>1, <2>2
<1>4. ~NoSession.open /\ NoSession.saves = <<>> /\ Begun(FALSE).saves = <<>>
  BY NewSessionFacts
<1>5. \A d \in 1..depth : d = depth \/ d \in 1..(depth - 1)
  BY <1>1
<1>6. PendingInv'
  <2> SUFFICES ASSUME NEW d \in 1..depth', frame'[d].tx # 0, session'[frame'[d].tx].open
               PROVE  frame'[d].writes \subseteq session'[frame'[d].tx].writes
    BY DEF PendingInv
  <2>1. CASE d = depth
    BY <1>1, <2>1
  <2>2. CASE d \in 1..(depth - 1)
    <3>1. d \in 1..depth /\ frame'[d] = frame[d] /\ frame[d].tx \in 0..MaxTx /\ frame[d].tx < t
      BY <1>1, <2>2
    <3>2. frame[d].tx # t
      BY <1>1, <3>1
    <3>3. session'[frame[d].tx] = session[frame[d].tx]
      BY <1>3, <1>4, <3>1, <3>2
    <3>4. QED
      BY <3>1, <3>3 DEF KInv, PendingInv
  <2>3. QED
    BY <1>1, <1>5, <2>1, <2>2
<1>7. EarlierInv'
  <2>1. depth - 1 \in 0..depth /\ \A d \in 1..(depth - 1) : SameCall(d)
    BY <1>1 DEF SameCall
  <2>2. \A d \in 1..(depth' - 1) : d \in 1..(depth - 1) /\ frame'[d].writes \subseteq frame[d].writes
    BY <1>1
  <2>3. \A tx \in 0..MaxTx : \A i \in DOMAIN session'[tx].saves :
          i \in DOMAIN session[tx].saves /\ session'[tx].saves[i] = session[tx].saves[i]
    <3>1. \A tx \in 0..MaxTx : session'[tx] = session[tx] \/ session'[tx].saves = <<>>
      BY <1>3, <1>4
    <3>2. DOMAIN <<>> = {}
      OBVIOUS
    <3>3. QED
      BY <3>1, <3>2
  <2>4. \A e \in 1..depth' : \A name \in Nat : e \notin 1..(depth - 1) => ~Holds(e, name)'
    BY <1>1, <1>5 DEF Holds, Nested
  <2>5. PICK k \in 0..depth : k = depth - 1
    BY <2>1
  <2>6. depth' \in Nat /\ \A d \in 1..k : SameCall(d)
    BY <1>1, <2>1, <2>5
  <2>7. \A d \in 1..(depth' - 1) : d \in 1..k /\ frame'[d].writes \subseteq frame[d].writes
    BY <2>2, <2>5
  <2>8. \A e \in 1..depth' : \A name \in Nat : e \notin 1..k => ~Holds(e, name)'
    BY <2>4, <2>5
  <2>9. QED
    BY <2>3, <2>6, <2>7, <2>8, EarlierStep
<1>8. QED
  BY <1>2, <1>6, <1>7 DEF KInv, KeptIsDurable

(* A write of a txFunc is pending in its transaction, others are durable. *)
LEMMA ExecPool ==
  ASSUME ~SharedSession, SInv, SInv', WInv, KInv, Exec
  PROVE  KInv'
<1> DEFINE y == Top.tx
           w == writeCount + 1
<1>1. /\ depth \in Nat /\ depth \in 1..depth /\ Top = frame[depth] /\ y \in 0..MaxTx
      /\ session[y] = Session(Top.tx) /\ session[y] \in Sessions /\ UNCHANGED depth
      /\ \A d \in 1..depth : frame[d].tx \in 0..MaxTx
  BY TopFacts, FrameFacts DEF Exec, SInv, Top, Session, SessionOf
<1>2. w \in 1..MaxWrites
  BY BoundAssumption DEF Exec, SInv, DataInv
<1>3. \/ /\ durable' = durable \cup {w} /\ kept' = kept \cup {w}
         /\ UNCHANGED <<session, frame>>
      \/ /\ session[y].open /\ session' = [session EXCEPT ![y] = Written(session[y], w)]
         /\ frame' = [frame EXCEPT ![depth].writes = @ \cup {w}]
         /\ y # 0 => UNCHANGED kept
         /\ UNCHANGED durable
  BY <1>1 DEF Exec, SetSession, SessionOf, Accepts
<1> HIDE DEF y, w
<1>4. CASE /\ durable' = durable \cup {w} /\ kept' = kept \cup {w}
           /\ UNCHANGED <<session, frame>>
  <2>1. KeptIsDurable'
    BY <1>4 DEF KInv, KeptIsDurable
  <2>2. PendingInv'
    BY <1>1, <1>4 DEF KInv, PendingInv
  <2>3. EarlierInv'
    <3>1. \A d \in 1..depth : \A name : Holds(d, name)' <=> Holds(d, name)
      BY <1>4 DEF Holds, Owner, Nested
    <3>2. \A d \in 1..depth : Saves(frame[d].tx)' = Saves(frame[d].tx)
      BY <1>4 DEF Saves, SessionOf
    <3>3. depth' = depth /\ frame' = frame
      BY <1>1, <1>4
    <3>4. QED
      BY <3>1, <3>2, <3>3 DEF EarlierInv, KInv, SessionOf
  <2>4. QED
    BY <2>1, <2>2, <2>3 DEF KInv
<1>5. CASE /\ session[y].open /\ session' = [session EXCEPT ![y] = Written(session[y], w)]
           /\ frame' = [frame EXCEPT ![depth].writes = @ \cup {w}]
           /\ y # 0 => UNCHANGED kept
           /\ UNCHANGED durable
  <2> DEFINE s == Written(session[y], w)
             f == [frame[depth] EXCEPT !.writes = frame[depth].writes \cup {w}]
  <2>1. y # 0
    BY <1>5 DEF SInv, RunInv
  <2>2. s.saves = session[y].saves /\ s.writes = session[y].writes \cup {w} /\ s.open = session[y].open
    BY <1>1, <1>2, StatementFacts
  <2>3. \A tx \in 0..MaxTx : session'[tx] = IF tx = y THEN s ELSE session[tx]
    BY <1>5 DEF SInv
  <2>4. f.writes = frame[depth].writes \cup {w} /\ f.kind = frame[depth].kind
        /\ f.tx = frame[depth].tx /\ f.name = frame[depth].name
    <3>1. frame[depth] \in Frames
      BY <1>1, FrameFacts DEF SInv
    <3>2. QED
      BY <3>1 DEF Frames
  <2> HIDE DEF s
  <2>5. \A d \in 1..depth : frame'[d] = IF d = depth THEN f ELSE frame[d]
    <3>1. frame' = [frame EXCEPT ![depth] = f]
      BY <1>5
    <3> HIDE DEF f
    <3>2. frame \in [1..MaxDepth -> Frames] /\ \A d \in 1..depth : d \in 1..MaxDepth
      BY SMTT(30), FrameFacts DEF SInv, OInv, FrameInv
    <3>3. QED
      BY <3>1, <3>2
  <2> HIDE DEF f
  <2>6. \A d \in 1..depth : /\ SameCall(d)
                            /\ frame'[d].writes = IF d = depth THEN frame[d].writes \cup {w}
                                                               ELSE frame[d].writes
    BY <2>4, <2>5 DEF SameCall
  <2>7. PendingInv'
    <3> SUFFICES ASSUME NEW d \in 1..depth', frame'[d].tx # 0, session'[frame'[d].tx].open,
                        NEW u \in frame'[d].writes
                 PROVE  u \in session'[frame'[d].tx].writes
      BY DEF PendingInv
    <3>1. d \in 1..depth /\ frame'[d].tx = frame[d].tx /\ frame[d].tx \in 0..MaxTx
      BY <1>1, <2>6 DEF SameCall
    <3>2. session[frame[d].tx].open
      BY <2>2, <2>3, <3>1
    <3>3. CASE u \in frame[d].writes
      <4>1. u \in session[frame[d].tx].writes
        BY <3>1, <3>2, <3>3 DEF KInv, PendingInv
      <4>2. QED
        BY <2>2, <2>3, <3>1, <4>1
    <3>4. CASE u \notin frame[d].writes
      <4>1. d = depth /\ u = w
        BY <2>6, <3>1, <3>4
      <4>2. frame[d].tx = y
        BY <1>1, <4>1 DEF y
      <4>3. QED
        BY <2>2, <2>3, <3>1, <4>1, <4>2
    <3>5. QED
      BY <3>3, <3>4
  <2>8. EarlierInv'
    <3>1. depth \in 0..depth /\ depth' \in Nat /\ \A e \in 1..depth' : e \in 1..depth
      BY <1>1
    <3>2. \A d \in 1..(depth' - 1) : d \in 1..depth /\ d # depth
      BY <1>1
    <3>3. \A d \in 1..(depth' - 1) : d \in 1..depth /\ frame'[d].writes \subseteq frame[d].writes
      BY <2>6, <3>2
    <3>4. \A tx \in 0..MaxTx : \A i \in DOMAIN session'[tx].saves :
            i \in DOMAIN session[tx].saves /\ session'[tx].saves[i] = session[tx].saves[i]
      BY <2>2, <2>3
    <3>5. \A d \in 1..depth : SameCall(d)
      BY <2>6
    <3>6. QED
      BY <3>1, <3>3, <3>4, <3>5, EarlierStep
  <2>9. QED
    BY <1>5, <2>1, <2>7, <2>8 DEF KInv, KeptIsDurable
<1>6. QED
  BY <1>3, <1>4, <1>5

LEMMA InitPool == Init => KInv
<1> SUFFICES ASSUME Init PROVE KInv
  OBVIOUS
<1>1. depth = 1 /\ frame[1].writes = {} /\ kept = {}
  BY BoundAssumption DEF Init, NoFrame
<1>2. \A d, e \in 1..depth : ~(d < e)
  BY <1>1
<1>3. \A d \in 1..depth : d = 1
  BY <1>1
<1>4. QED
  BY <1>1, <1>2, <1>3 DEF KInv, KeptIsDurable, PendingInv, EarlierInv

LEMMA KInvInductive ==
  ASSUME ~SharedSession, SInv, SInv', WInv, KInv, [Next]_vars
  PROVE  KInv'
<1>1. ASSUME NEW outcome \in Outcomes,
             \/ DirectReturns(outcome) \/ SavepointReturns(outcome)
             \/ RollbackReturns(outcome) \/ CommitReturns(outcome)
      PROVE  KInv'
  BY <1>1, ReturnPool
<1>2. ASSUME NEW d \in 2..MaxDepth, Expire(d)
      PROVE  KInv'
  BY <1>2, ExpirePool
<1>3. ASSUME NEW tx \in 1..MaxTx, AwaitDone(tx)
      PROVE  KInv'
  BY <1>3, AwaitDonePool
<1>4. CASE UNCHANGED vars
  <2>1. UNCHANGED <<depth, frame, session, durable, kept>>
    BY <1>4 DEF vars, history
  <2>2. /\ \A d \in 1..depth : SameCall(d) /\ frame'[d].writes = frame[d].writes
        /\ \A tx \in 0..MaxTx : SessionLess(tx) /\ session'[tx] = session[tx]
    BY <2>1 DEF SameCall, SessionLess
  <2>3. QED
    BY <2>1, <2>2, QuietPool
<1>5. QED
  BY <1>1, <1>2, <1>3, <1>4, CallPool, ExecPool, FailPool, RetryPool DEF Next, Return

(* transaction.go:75, db/transaction.go:336: on a pool, where every         *)
(* transaction has a session of its own, a call that returned nil has made  *)
(* all writes of its txFunc durable, those of the calls nested in it that   *)
(* reported success included; savepoints that were rolled back in between,  *)
(* retries and expired contexts take none of them away.                     *)
THEOREM PoolKeepsWhatItReports ==
  ASSUME ~SharedSession
  PROVE  Spec => []KeptIsDurable
<1>1. Init => SInv /\ WInv /\ KInv
  BY InitSInv, InitWrites, InitPool
<1>2. SInv /\ WInv /\ KInv /\ [Next]_vars => (SInv /\ WInv /\ KInv)'
  BY SInvInductive, WInvInductive, KInvInductive
<1>3. SInv /\ WInv /\ KInv => KeptIsDurable
  BY DEF KInv
<1>4. QED
  BY <1>1, <1>2, <1>3, PTL DEF Spec

===============================================================================
