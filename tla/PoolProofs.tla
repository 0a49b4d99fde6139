------------------------------ MODULE PoolProofs ------------------------------
(***************************************************************************)
(* Proofs about module Pool, for any number of goroutines, sessions and    *)
(* nested calls, and whatever the application asks for.                    *)
(***************************************************************************)
EXTENDS Pool, TLAPS

AllSessions == UNION Pools
ConnType == [kind : {"pool", "tx", "doneTx", "pinned"}, session : AllSessions \cup {NoSession},
             masked : BOOLEAN]
FrameType == [fn : {"none", "tx", "through", "pinned", "rows", "global", "masked"},
              conn : ConnType, holds : AllSessions \cup {NoSession}]

TypeInv ==
  /\ Pooled \in Pools
  /\ session \in [Pooled -> [state : {"closed", "idle", "used"}, readOnly : BOOLEAN]]
  /\ frames \in [Goroutines -> Seq(FrameType)]
  /\ waiting \in [Goroutines -> FrameType]
  /\ doubles \in BOOLEAN

(* The nested calls of one goroutine: calls and what they hold.             *)
PinnedBelow(calls, i, s) == \E k \in 1..i : calls[k].fn = "pinned" /\ calls[k].holds = s

Holding(f) ==
  \/ f.holds = NoSession
  \/ f.fn = "rows" /\ f.conn.kind = "pool"
  \/ f.fn \in {"tx", "pinned"} /\ f.conn.kind = f.fn /\ f.conn.session = f.holds

FrameOK(calls, i) ==
  LET f == calls[i] IN
  /\ Holding(f)
  /\ f.fn = "pinned" => f.holds # NoSession
  /\ f.conn.kind = "pool" => f.conn.session = NoSession
  /\ f.conn.kind = "pinned" => PinnedBelow(calls, i, f.conn.session)
  /\ (f.fn = "tx" /\ f.conn.kind = "tx" /\ f.holds = NoSession) => PinnedBelow(calls, i, f.conn.session)

(* The call leaves the session of the callback it is made in. *)
LeavesAt(calls, k) ==
  calls[k].fn = "global" \/ (calls[k].fn = "tx" /\ Active(calls[k - 1].conn))

MasksOK(calls) ==
  \A i, j \in 1..Len(calls) :
    (calls[i].conn.masked /\ i < j /\ \A k \in i + 1 .. j : calls[k].fn # "global")
      => calls[j].conn.masked

PinsOK(calls) ==
  \A i, j \in 1..Len(calls) :
    (calls[i].fn = "pinned" /\ i < j /\ \A k \in i + 1 .. j : ~LeavesAt(calls, k))
      => calls[j].conn.session = calls[i].holds

(* Inside of a call that holds a session there is no call on the pool but   *)
(* the innermost one, a query.                                              *)
Careful(calls) ==
  \A i, j \in 1..Len(calls) :
    (calls[i].holds # NoSession /\ i <= j) =>
      calls[j].conn.kind # "pool" \/ (calls[j].fn = "rows" /\ j = Len(calls))

CallsOK(calls, d) ==
  /\ \A i \in 1..Len(calls) : FrameOK(calls, i)
  /\ MasksOK(calls) /\ PinsOK(calls)
  /\ ~d => Careful(calls)
  /\ Len(calls) <= MaxDepth

HoldsNothing(calls) == \A i \in 1..Len(calls) : calls[i].holds = NoSession

(* A call that may be made in the innermost callback of calls. *)
Extends(calls, f) ==
  /\ Len(calls) < MaxDepth
  /\ Len(calls) > 0 =>
       LET top == calls[Len(calls)] IN
       /\ (top.conn.masked /\ f.fn # "global") => f.conn.masked
       /\ \/ f.fn = "global" \/ top.conn.kind = "pool"
          \/ f.fn = "tx" /\ Active(top.conn)
          \/ f.conn.session = top.conn.session

(* A call that waits for its session, or will hold it. *)
Asking(calls, f, d) ==
  /\ f.fn \in {"tx", "pinned", "rows"}
  /\ f.conn.kind = IF f.fn = "rows" THEN "pool" ELSE f.fn
  /\ f.fn = "rows" => f.conn.session = NoSession
  /\ f.holds = NoSession
  /\ Len(calls) < MaxDepth
  /\ Len(calls) > 0 =>
       LET top == calls[Len(calls)] IN
       /\ top.conn.masked => f.conn.masked
       /\ top.conn.kind = "pool" \/ (f.fn = "tx" /\ Active(top.conn))
  /\ ~d => HoldsNothing(calls)

(* Who holds the sessions: each that is used is held once. *)
UsedOf(ss) == {s \in DOMAIN ss : ss[s].state = "used"}
HeldOnce(fr) ==
  \A g, h \in Goroutines : \A i \in 1..Len(fr[g]), j \in 1..Len(fr[h]) :
    (fr[g][i].holds # NoSession /\ fr[g][i].holds = fr[h][j].holds) => g = h /\ i = j
HeldAre(fr, used) ==
  /\ \A g \in Goroutines : \A i \in 1..Len(fr[g]) : fr[g][i].holds \in used \cup {NoSession}
  /\ \A s \in used : \E g \in Goroutines : \E i \in 1..Len(fr[g]) : fr[g][i].holds = s
Accounts(fr, used) == HeldOnce(fr) /\ HeldAre(fr, used)

PoolInv ==
  /\ TypeInv
  /\ \A g \in Goroutines : CallsOK(frames[g], doubles)
  /\ \A g \in Goroutines : waiting[g] # NoFrame => Asking(frames[g], waiting[g], doubles)
  /\ Accounts(frames, UsedOf(session))

-------------------------------------------------------------------------------
(* Sequences of calls. *)

(* One call more. *)
LEMMA Appended ==
  ASSUME NEW S, NEW calls \in Seq(S), NEW f \in S
  PROVE  /\ Append(calls, f) \in Seq(S)
         /\ Len(Append(calls, f)) = Len(calls) + 1 /\ Len(calls) \in Nat
         /\ \A i \in 1..Len(calls) : Append(calls, f)[i] = calls[i]
         /\ Append(calls, f)[Len(calls) + 1] = f
OBVIOUS

(* One call less. *)
LEMMA Shortened ==
  ASSUME NEW S, NEW calls \in Seq(S), calls # <<>>
  PROVE  /\ SubSeq(calls, 1, Len(calls) - 1) \in Seq(S)
         /\ Len(SubSeq(calls, 1, Len(calls) - 1)) = Len(calls) - 1
         /\ Len(calls) \in Nat \ {0}
         /\ \A i \in 1..Len(calls) - 1 : SubSeq(calls, 1, Len(calls) - 1)[i] = calls[i]
BY SMTT(30)

(* The calls after the transaction of call i, on session s, was rolled back. *)
DoneFrom(calls, i, s) == [j \in DOMAIN calls |-> IF j >= i THEN Done(calls[j], s) ELSE calls[j]]

(* What Done does to a call. *)
LEMMA DoneFrame ==
  ASSUME NEW f \in FrameType, NEW s
  PROVE  /\ Done(f, s) \in FrameType
         /\ Done(f, s).fn = f.fn
         /\ Done(f, s).conn.masked = f.conn.masked /\ Done(f, s).conn.session = f.conn.session
         /\ Active(Done(f, s).conn) <=> Active(f.conn)
         /\ (f.conn.kind # "tx" \/ f.conn.session # s) => Done(f, s) = f
         /\ (f.conn.kind = "tx" /\ f.conn.session = s) =>
              Done(f, s).conn.kind = "doneTx" /\ Done(f, s).holds = NoSession
<1>1. CASE f.conn.kind = "tx" /\ f.conn.session = s
  <2> PICK c : c = On(f.conn, "doneTx", s)
    OBVIOUS
  <2>1. c \in ConnType /\ c.kind = "doneTx" /\ c.session = s /\ c.masked = f.conn.masked
    BY <1>1 DEF On, FrameType, ConnType
  <2> PICK d : d = [f EXCEPT !.conn = c, !.holds = NoSession]
    OBVIOUS
  <2>2. d \in FrameType /\ d.fn = f.fn /\ d.conn = c /\ d.holds = NoSession
    BY <2>1 DEF FrameType
  <2>3. Done(f, s) = d
    BY <1>1 DEF Done
  <2> QED BY <1>1, <2>1, <2>2, <2>3 DEF Active
<1>2. CASE ~(f.conn.kind = "tx" /\ f.conn.session = s)
  <2>1. Done(f, s) = f
    BY <1>2 DEF Done
  <2> QED BY <1>2, <2>1
<1> QED BY <1>1, <1>2

(* As many calls as before, each as Done leaves it. *)
LEMMA DoneCalls ==
  ASSUME NEW calls \in Seq(FrameType), NEW i \in 1..Len(calls), NEW s
  PROVE  /\ DoneFrom(calls, i, s) \in Seq(FrameType)
         /\ Len(DoneFrom(calls, i, s)) = Len(calls) /\ Len(calls) \in Nat
         /\ \A j \in 1..Len(calls) :
              DoneFrom(calls, i, s)[j] = IF j >= i THEN Done(calls[j], s) ELSE calls[j]
<1>1. Len(calls) \in Nat /\ DOMAIN calls = 1..Len(calls) /\ \A j \in 1..Len(calls) : calls[j] \in FrameType
  OBVIOUS
<1>2. \A j \in 1..Len(calls) : (IF j >= i THEN Done(calls[j], s) ELSE calls[j]) \in FrameType
  BY <1>1, DoneFrame
<1>3. DoneFrom(calls, i, s) \in [1..Len(calls) -> FrameType]
  BY <1>1, <1>2 DEF DoneFrom
<1>4. DoneFrom(calls, i, s) \in Seq(FrameType) /\ Len(DoneFrom(calls, i, s)) = Len(calls)
  BY <1>1, <1>3
<1> QED BY <1>1, <1>4 DEF DoneFrom

-------------------------------------------------------------------------------
(* A call of the innermost callback, on its session or another one. *)
LEMMA CallsAppended ==
  ASSUME NEW d \in BOOLEAN, NEW calls \in Seq(FrameType), CallsOK(calls, d),
         NEW f \in FrameType, Extends(calls, f),
         FrameOK(Append(calls, f), Len(calls) + 1),
         ~d => Careful(Append(calls, f))
  PROVE  CallsOK(Append(calls, f), d)
<1> DEFINE n == Len(calls)
<1> PICK more : more = Append(calls, f)
  OBVIOUS
<1>1. /\ more \in Seq(FrameType) /\ Len(more) = n + 1 /\ n \in Nat
      /\ \A i \in 1..n : more[i] = calls[i]
      /\ more[n + 1] = f
  BY Appended
<1> HIDE DEF n
<1>2. \A i \in 1..Len(more) : FrameOK(more, i)
  <2>1. ASSUME NEW i \in 1..n PROVE FrameOK(more, i)
    <3>1. more[i] = calls[i] /\ \A k \in 1..i : more[k] = calls[k]
      BY <1>1
    <3>2. FrameOK(calls, i)
      BY DEF CallsOK, n
    <3> QED BY <3>1, <3>2 DEF FrameOK, PinnedBelow
  <2>2. FrameOK(more, n + 1)
    BY DEF n
  <2> QED BY <1>1, <2>1, <2>2
<1>3. ASSUME n > 0
      PROVE  /\ (calls[n].conn.masked /\ f.fn # "global") => f.conn.masked
             /\ \/ f.fn = "global" \/ calls[n].conn.kind = "pool"
                \/ f.fn = "tx" /\ Active(calls[n].conn)
                \/ f.conn.session = calls[n].conn.session
  BY <1>3 DEF Extends, n
<1>4. MasksOK(more)
  <2> SUFFICES ASSUME NEW i \in 1..n + 1, NEW j \in 1..n + 1, more[i].conn.masked, i < j,
                      \A k \in i + 1 .. j : more[k].fn # "global"
               PROVE  more[j].conn.masked
    BY <1>1 DEF MasksOK
  <2>0. MasksOK(calls)
    BY DEF CallsOK
  <2>1. CASE j <= n
    <3>1. i \in 1..n /\ j \in 1..n /\ \A k \in i + 1 .. j : k \in 1..n
      BY <1>1, <2>1
    <3>2. calls[i].conn.masked /\ \A k \in i + 1 .. j : calls[k].fn # "global"
      BY <1>1, <3>1
    <3> QED BY <1>1, <2>0, <3>1, <3>2 DEF MasksOK, n
  <2>2. CASE j = n + 1
    <3>1. i \in 1..n /\ n \in 1..n /\ n > 0 /\ j \in i + 1 .. j /\ \A k \in i + 1 .. n : k \in i + 1 .. j /\ k \in 1..n
      BY <1>1, <2>2
    <3>2. calls[i].conn.masked /\ \A k \in i + 1 .. n : calls[k].fn # "global"
      BY <1>1, <3>1
    <3>3. calls[n].conn.masked
      BY <1>1, <2>0, <3>1, <3>2 DEF MasksOK, n
    <3>4. f.fn # "global"
      BY <1>1, <2>2, <3>1
    <3> QED BY <1>1, <1>3, <2>2, <3>1, <3>3, <3>4
  <2> QED BY <1>1, <2>1, <2>2
<1>5. PinsOK(more)
  <2> SUFFICES ASSUME NEW i \in 1..n + 1, NEW j \in 1..n + 1, more[i].fn = "pinned", i < j,
                      \A k \in i + 1 .. j : ~LeavesAt(more, k)
               PROVE  more[j].conn.session = more[i].holds
    BY <1>1 DEF PinsOK
  <2>0. PinsOK(calls)
    BY DEF CallsOK
  <2>1. \A k \in 2..n : LeavesAt(more, k) <=> LeavesAt(calls, k)
    <3> SUFFICES ASSUME NEW k \in 2..n PROVE LeavesAt(more, k) <=> LeavesAt(calls, k)
      OBVIOUS
    <3>1. k \in 1..n /\ k - 1 \in 1..n
      BY <1>1
    <3> QED BY <1>1, <3>1 DEF LeavesAt
  <2>2. i \in 1..n /\ calls[i].fn = "pinned" /\ more[i] = calls[i]
    BY <1>1
  <2>3. CASE j <= n
    <3>1. j \in 1..n /\ \A k \in i + 1 .. j : k \in 2..n
      BY <1>1, <2>2, <2>3
    <3> QED BY <1>1, <2>0, <2>1, <2>2, <3>1 DEF PinsOK, n
  <2>4. CASE j = n + 1
    <3>1. n \in 1..n /\ n > 0 /\ j \in i + 1 .. j /\ \A k \in i + 1 .. n : k \in i + 1 .. j /\ k \in 2..n
      BY <1>1, <2>2, <2>4
    <3>2. calls[n].conn.session = calls[i].holds
      <4>1. CASE i = n
        <5>1. FrameOK(calls, n)
          BY <3>1 DEF CallsOK, n
        <5> QED BY <2>2, <4>1, <5>1 DEF FrameOK, Holding
      <4>2. CASE i # n
        <5>1. i < n
          BY <1>1, <2>2, <4>2
        <5> QED BY <1>1, <2>0, <2>1, <2>2, <3>1, <5>1 DEF PinsOK, n
      <4> QED BY <4>1, <4>2
    <3>3. calls[i].holds # NoSession
      <4>1. FrameOK(calls, i)
        BY <2>2 DEF CallsOK, n
      <4> QED BY <2>2, <4>1 DEF FrameOK
    <3>4. calls[n].conn.kind # "pool"
      <4>1. FrameOK(calls, n)
        BY <3>1 DEF CallsOK, n
      <4> QED BY <3>2, <3>3, <4>1 DEF FrameOK
    <3>5. ~LeavesAt(more, n + 1) /\ (n + 1) - 1 = n
      BY <1>1, <2>4, <3>1
    <3>6. f.fn # "global" /\ ~(f.fn = "tx" /\ Active(calls[n].conn))
      BY <1>1, <3>1, <3>5 DEF LeavesAt
    <3> QED BY <1>1, <1>3, <2>2, <2>4, <3>1, <3>2, <3>4, <3>6
  <2> QED BY <1>1, <2>3, <2>4
<1>6. Len(more) <= MaxDepth
  BY <1>1, PoolAssumption DEF Extends, n
<1> QED BY <1>2, <1>4, <1>5, <1>6 DEF CallsOK

(* The innermost call returns. *)
LEMMA CallsShortened ==
  ASSUME NEW d \in BOOLEAN, NEW calls \in Seq(FrameType), CallsOK(calls, d), calls # <<>>
  PROVE  CallsOK(SubSeq(calls, 1, Len(calls) - 1), d)
<1> DEFINE n == Len(calls)
<1> PICK less : less = SubSeq(calls, 1, Len(calls) - 1)
  OBVIOUS
<1>1. /\ less \in Seq(FrameType) /\ Len(less) = n - 1 /\ n \in Nat \ {0}
      /\ \A i \in 1..n - 1 : less[i] = calls[i]
  BY Shortened
<1> HIDE DEF n
<1>2. ASSUME NEW i \in 1..n - 1 PROVE FrameOK(less, i)
  <2>1. less[i] = calls[i] /\ (\A k \in 1..i : less[k] = calls[k]) /\ i \in 1..n
    BY <1>1
  <2>2. FrameOK(calls, i)
    BY <2>1 DEF CallsOK, n
  <2> QED BY <2>1, <2>2 DEF FrameOK, PinnedBelow
<1>3. MasksOK(less)
  <2> SUFFICES ASSUME NEW i \in 1..n - 1, NEW j \in 1..n - 1, less[i].conn.masked, i < j,
                      \A k \in i + 1 .. j : less[k].fn # "global"
               PROVE  less[j].conn.masked
    BY <1>1 DEF MasksOK
  <2>1. i \in 1..n /\ j \in 1..n /\ \A k \in i + 1 .. j : k \in 1..n - 1
    BY <1>1
  <2> QED BY <1>1, <2>1 DEF CallsOK, MasksOK, n
<1>4. PinsOK(less)
  <2> SUFFICES ASSUME NEW i \in 1..n - 1, NEW j \in 1..n - 1, less[i].fn = "pinned", i < j,
                      \A k \in i + 1 .. j : ~LeavesAt(less, k)
               PROVE  less[j].conn.session = less[i].holds
    BY <1>1 DEF PinsOK
  <2>1. i \in 1..n /\ j \in 1..n /\ \A k \in i + 1 .. j : k \in 1..n - 1 /\ k - 1 \in 1..n - 1
    BY <1>1
  <2>2. \A k \in i + 1 .. j : ~LeavesAt(calls, k)
    BY <1>1, <2>1 DEF LeavesAt
  <2> QED BY <1>1, <2>1, <2>2 DEF CallsOK, PinsOK, n
<1>5. ~d => Careful(less)
  <2> SUFFICES ASSUME ~d, NEW i \in 1..n - 1, NEW j \in 1..n - 1, less[i].holds # NoSession, i <= j
               PROVE  less[j].conn.kind # "pool"
    BY <1>1 DEF Careful
  <2>1. i \in 1..n /\ j \in 1..n /\ j # n
    BY <1>1
  <2> QED BY <1>1, <2>1 DEF CallsOK, Careful, n
<1>6. Len(less) <= MaxDepth
  BY <1>1, PoolAssumption DEF CallsOK, n
<1> QED BY <1>1, <1>2, <1>3, <1>4, <1>5, <1>6 DEF CallsOK

(* The transaction of a call is rolled back when its context is done: no    *)
(* session is released but the one of that transaction.                     *)
LEMMA CallsDone ==
  ASSUME NEW d \in BOOLEAN, NEW calls \in Seq(FrameType), CallsOK(calls, d),
         NEW i \in 1..Len(calls), NEW s
  PROVE  CallsOK(DoneFrom(calls, i, s), d)
<1> DEFINE n == Len(calls)
<1> PICK done : done = DoneFrom(calls, i, s)
  OBVIOUS
<1>1. /\ done \in Seq(FrameType) /\ Len(done) = n /\ n \in Nat
      /\ \A j \in 1..n : done[j] = IF j >= i THEN Done(calls[j], s) ELSE calls[j]
  BY DoneCalls
<1>2. \A j \in 1..n : calls[j] \in FrameType /\ FrameOK(calls, j)
  BY DEF CallsOK
<1> HIDE DEF n
<1>3. ASSUME NEW j \in 1..n
      PROVE  /\ done[j].fn = calls[j].fn
             /\ done[j].conn.masked = calls[j].conn.masked /\ done[j].conn.session = calls[j].conn.session
             /\ Active(done[j].conn) <=> Active(calls[j].conn)
             /\ \/ done[j] = calls[j]
                \/ calls[j].conn.kind = "tx" /\ done[j].conn.kind = "doneTx" /\ done[j].holds = NoSession
             /\ calls[j].fn = "pinned" => done[j].holds = calls[j].holds
  <2>1. calls[j].fn = "pinned" => calls[j].conn.kind = "pinned"
    BY <1>2 DEF FrameOK, Holding
  <2> QED BY <1>1, <1>2, <2>1, DoneFrame
<1>4. ASSUME NEW j \in 1..n PROVE FrameOK(done, j)
  <2>1. \A k \in 1..j : k \in 1..n
    BY <1>1
  <2>2. \A r : PinnedBelow(calls, j, r) => PinnedBelow(done, j, r)
    BY <1>3, <2>1 DEF PinnedBelow
  <2>3. FrameOK(calls, j)
    BY <1>2
  <2>4. CASE done[j] = calls[j]
    BY <2>2, <2>3, <2>4 DEF FrameOK
  <2>5. CASE calls[j].conn.kind = "tx" /\ done[j].conn.kind = "doneTx" /\ done[j].holds = NoSession
    BY <1>3, <2>3, <2>5 DEF FrameOK, Holding
  <2> QED BY <1>3, <2>4, <2>5
<1>5. MasksOK(done)
  <2> SUFFICES ASSUME NEW k \in 1..n, NEW j \in 1..n, done[k].conn.masked, k < j,
                      \A m \in k + 1 .. j : done[m].fn # "global"
               PROVE  done[j].conn.masked
    BY <1>1 DEF MasksOK
  <2>1. \A m \in k + 1 .. j : m \in 1..n
    BY <1>1
  <2>2. calls[k].conn.masked /\ \A m \in k + 1 .. j : calls[m].fn # "global"
    BY <1>3, <2>1
  <2>3. MasksOK(calls)
    BY DEF CallsOK
  <2>4. calls[j].conn.masked
    BY <2>2, <2>3 DEF MasksOK, n
  <2> QED BY <1>3, <2>4
<1>6. PinsOK(done)
  <2> SUFFICES ASSUME NEW k \in 1..n, NEW j \in 1..n, done[k].fn = "pinned", k < j,
                      \A m \in k + 1 .. j : ~LeavesAt(done, m)
               PROVE  done[j].conn.session = done[k].holds
    BY <1>1 DEF PinsOK
  <2>1. \A m \in k + 1 .. j : m \in 1..n /\ m - 1 \in 1..n
    BY <1>1
  <2>2. \A m \in k + 1 .. j : ~LeavesAt(calls, m)
    <3> SUFFICES ASSUME NEW m \in k + 1 .. j PROVE ~LeavesAt(calls, m)
      OBVIOUS
    <3>1. done[m].fn = calls[m].fn /\ (Active(done[m - 1].conn) <=> Active(calls[m - 1].conn))
      BY <1>3, <2>1
    <3>2. ~LeavesAt(done, m)
      OBVIOUS
    <3> QED BY <3>1, <3>2 DEF LeavesAt
  <2> QED BY <1>3, <2>2 DEF CallsOK, PinsOK, n
<1>7. ~d => Careful(done)
  <2> SUFFICES ASSUME ~d, NEW k \in 1..n, NEW j \in 1..n, done[k].holds # NoSession, k <= j
               PROVE  done[j].conn.kind # "pool" \/ (done[j].fn = "rows" /\ j = n)
    BY <1>1 DEF Careful
  <2>1. calls[k].holds # NoSession
    BY <1>3
  <2>2. calls[j].conn.kind # "pool" \/ (calls[j].fn = "rows" /\ j = n)
    BY <2>1 DEF CallsOK, Careful, n
  <2> QED BY <1>3, <2>2
<1>8. Len(done) <= MaxDepth
  BY <1>1 DEF CallsOK, n
<1> QED BY <1>1, <1>4, <1>5, <1>6, <1>7, <1>8 DEF CallsOK

-------------------------------------------------------------------------------
(* A call on the session of the callback it is made in, or on the global    *)
(* connection or a wrapped one.                                             *)
Staying(calls, f, d) ==
  /\ f.holds = NoSession /\ f.fn # "pinned"
  /\ Len(calls) < MaxDepth
  /\ Len(calls) = 0 => f.fn # "tx" /\ f.conn.kind = "pool" /\ f.conn.session = NoSession
  /\ Len(calls) > 0 =>
       LET top == calls[Len(calls)] IN
       \/ f.fn = "global" /\ f.conn = PoolConn /\ d
       \/ /\ f.fn # "global"
          /\ f.conn.session = top.conn.session
          /\ top.conn.masked => f.conn.masked
          /\ \/ f.fn # "tx" /\ f.conn.kind = top.conn.kind
             \/ f.fn = "tx" /\ f.conn.kind = "tx" /\ top.conn.kind = "pinned"
          /\ ~d => ~(top.fn = "rows" /\ top.conn.kind = "pool")

(* It fits. *)
LEMMA StayingFits ==
  ASSUME NEW d \in BOOLEAN, NEW calls \in Seq(FrameType), CallsOK(calls, d),
         NEW f \in FrameType, Staying(calls, f, d)
  PROVE  CallsOK(Append(calls, f), d)
<1> DEFINE n == Len(calls)
<1> PICK more : more = Append(calls, f)
  OBVIOUS
<1>1. /\ more \in Seq(FrameType) /\ Len(more) = n + 1 /\ n \in Nat
      /\ \A i \in 1..n : more[i] = calls[i]
      /\ more[n + 1] = f
  BY Appended
<1>2. n > 0 => n \in 1..n /\ FrameOK(calls, n)
  BY DEF CallsOK
<1>3. f.holds = NoSession /\ f.fn # "pinned" /\ n < MaxDepth
  BY DEF Staying
<1>4. n = 0 => f.fn # "tx" /\ f.conn.kind = "pool" /\ f.conn.session = NoSession
  BY DEF Staying
<1> HIDE DEF n
<1>5. n > 0 => \/ f.fn = "global" /\ f.conn = PoolConn /\ d
               \/ /\ f.fn # "global"
                  /\ f.conn.session = calls[n].conn.session
                  /\ calls[n].conn.masked => f.conn.masked
                  /\ \/ f.fn # "tx" /\ f.conn.kind = calls[n].conn.kind
                     \/ f.fn = "tx" /\ f.conn.kind = "tx" /\ calls[n].conn.kind = "pinned"
                  /\ ~d => ~(calls[n].fn = "rows" /\ calls[n].conn.kind = "pool")
  BY DEF Staying, n
<1>6. PoolConn.kind = "pool" /\ PoolConn.session = NoSession
  BY DEF PoolConn
<1>7. Extends(calls, f)
  BY <1>3, <1>5 DEF Extends, n
<1>8. FrameOK(more, n + 1)
  <2>1. CASE n = 0
    BY <1>1, <1>3, <1>4, <2>1 DEF FrameOK, Holding
  <2>2. CASE n > 0
    <3>1. \A r : PinnedBelow(calls, n, r) => PinnedBelow(more, n + 1, r)
      <4> SUFFICES ASSUME NEW r, PinnedBelow(calls, n, r) PROVE PinnedBelow(more, n + 1, r)
        OBVIOUS
      <4>1. PICK k \in 1..n : calls[k].fn = "pinned" /\ calls[k].holds = r
        BY DEF PinnedBelow
      <4>2. k \in 1..n + 1 /\ more[k] = calls[k]
        BY <1>1, <4>1
      <4> QED BY <4>1, <4>2 DEF PinnedBelow
    <3>2. CASE f.fn = "global"
      BY <1>1, <1>3, <1>5, <1>6, <2>2, <3>2 DEF FrameOK, Holding
    <3>3. CASE f.fn # "global"
      BY <1>1, <1>2, <1>3, <1>5, <2>2, <3>1, <3>3 DEF FrameOK, Holding
    <3> QED BY <3>2, <3>3
  <2> QED BY <1>1, <2>1, <2>2
<1>9. ~d => Careful(more)
  <2> SUFFICES ASSUME ~d, NEW i \in 1..n + 1, NEW j \in 1..n + 1, more[i].holds # NoSession, i <= j
               PROVE  more[j].conn.kind # "pool" \/ (more[j].fn = "rows" /\ j = n + 1)
    BY <1>1 DEF Careful
  <2>1. i \in 1..n /\ more[i] = calls[i] /\ n > 0
    BY <1>1, <1>3
  <2>2. Careful(calls)
    BY DEF CallsOK
  <2>3. calls[n].conn.kind # "pool" /\ f.fn # "global"
    BY <1>1, <1>2, <1>5, <2>1, <2>2 DEF Careful, n
  <2>4. CASE j = n + 1
    BY <1>1, <1>5, <2>1, <2>3, <2>4
  <2>5. CASE j # n + 1
    <3>1. j \in 1..n /\ more[j] = calls[j]
      BY <1>1, <2>5
    <3>2. calls[j].conn.kind # "pool" \/ j = n
      BY <2>1, <2>2, <3>1 DEF Careful, n
    <3> QED BY <2>3, <3>1, <3>2
  <2> QED BY <2>4, <2>5
<1> QED BY <1>7, <1>8, <1>9, CallsAppended DEF n

(* A call that asked for a session and got s. *)
LEMMA AskingFits ==
  ASSUME NEW d \in BOOLEAN, NEW calls \in Seq(FrameType), CallsOK(calls, d),
         NEW f \in FrameType, Asking(calls, f, d), NEW s \in AllSessions
  PROVE  /\ WithSession(f, s) \in FrameType /\ WithSession(f, s).holds = s
         /\ CallsOK(Append(calls, WithSession(f, s)), d)
<1> DEFINE n == Len(calls)
<1>0. s # NoSession
  BY PoolAssumption DEF AllSessions
<1> PICK c : c = IF f.fn = "rows" THEN f.conn ELSE [f.conn EXCEPT !.session = s]
  OBVIOUS
<1>1. /\ c \in ConnType /\ c.kind = f.conn.kind /\ c.masked = f.conn.masked
      /\ c.session = IF f.fn = "rows" THEN NoSession ELSE s
  BY DEF FrameType, ConnType, Asking
<1> PICK w : w = WithSession(f, s)
  OBVIOUS
<1>2. w = [f EXCEPT !.holds = s, !.conn = c]
  <2>1. CASE f.fn = "rows"
    BY <2>1 DEF WithSession, FrameType, ConnType
  <2>2. CASE f.fn # "rows"
    BY <2>2 DEF WithSession, FrameType, ConnType
  <2> QED BY <2>1, <2>2
<1>3. w \in FrameType /\ w.fn = f.fn /\ w.conn = c /\ w.holds = s
  BY <1>1, <1>2 DEF FrameType
<1>4. /\ f.fn \in {"tx", "pinned", "rows"}
      /\ c.kind = IF f.fn = "rows" THEN "pool" ELSE f.fn
      /\ n < MaxDepth
      /\ ~d => HoldsNothing(calls)
  BY <1>1 DEF Asking
<1> PICK more : more = Append(calls, w)
  OBVIOUS
<1>5. /\ more \in Seq(FrameType) /\ Len(more) = n + 1 /\ n \in Nat
      /\ \A i \in 1..n : more[i] = calls[i]
      /\ more[n + 1] = w
  BY <1>3, Appended
<1>6. Extends(calls, w)
  BY <1>1, <1>3 DEF Asking, Extends
<1> HIDE DEF n
<1>7. FrameOK(more, n + 1)
  <2>1. w.fn = "pinned" => PinnedBelow(more, n + 1, s)
    BY <1>3, <1>5 DEF PinnedBelow
  <2> QED BY <1>0, <1>1, <1>3, <1>4, <1>5, <2>1 DEF FrameOK, Holding
<1>8. ~d => Careful(more)
  <2> SUFFICES ASSUME ~d, NEW i \in 1..n + 1, NEW j \in 1..n + 1, more[i].holds # NoSession, i <= j
               PROVE  more[j].conn.kind # "pool" \/ (more[j].fn = "rows" /\ j = n + 1)
    BY <1>5 DEF Careful
  <2>1. i = n + 1
    BY <1>4, <1>5 DEF HoldsNothing, n
  <2>2. j = n + 1
    BY <1>5, <2>1
  <2> QED BY <1>3, <1>4, <1>5, <2>2, ZenonT(60)
<1>9. CallsOK(more, d)
  BY <1>3, <1>6, <1>7, <1>8, CallsAppended DEF n
<1> QED BY <1>3, <1>9

(* It still asks when a transaction around it was rolled back meanwhile. *)
LEMMA AskingDone ==
  ASSUME NEW d \in BOOLEAN, NEW calls \in Seq(FrameType), NEW f \in FrameType, Asking(calls, f, d),
         NEW i \in 1..Len(calls), NEW s
  PROVE  Asking(DoneFrom(calls, i, s), f, d)
<1> DEFINE n == Len(calls)
<1> PICK done : done = DoneFrom(calls, i, s)
  OBVIOUS
<1>1. /\ done \in Seq(FrameType) /\ Len(done) = n /\ n \in Nat
      /\ \A j \in 1..n : done[j] = IF j >= i THEN Done(calls[j], s) ELSE calls[j]
  BY DoneCalls
<1>2. ASSUME NEW j \in 1..n
      PROVE  /\ done[j].conn.masked = calls[j].conn.masked
             /\ Active(done[j].conn) <=> Active(calls[j].conn)
             /\ done[j] = calls[j] \/ (calls[j].conn.kind = "tx" /\ done[j].holds = NoSession)
  <2>1. calls[j] \in FrameType
    OBVIOUS
  <2>2. CASE j >= i
    BY <1>1, <2>1, <2>2, DoneFrame
  <2>3. CASE ~(j >= i)
    <3>1. done[j] = calls[j]
      BY <1>1, <2>3
    <3> QED BY <3>1
  <2> QED BY <2>2, <2>3
<1>3. HoldsNothing(calls) => HoldsNothing(done)
  BY <1>1, <1>2 DEF HoldsNothing
<1>4. n > 0 => n \in 1..n
  BY <1>1
<1> QED BY <1>1, <1>2, <1>3, <1>4 DEF Asking

-------------------------------------------------------------------------------
(* What the calls of all goroutines hold. *)
AllCalls == [Goroutines -> Seq(FrameType)]

(* A call more, which holds nothing or a session that nobody holds. *)
LEMMA AccountsAppended ==
  ASSUME NEW fr \in AllCalls, NEW used, NoSession \notin used, Accounts(fr, used),
         NEW g \in Goroutines, NEW f \in FrameType, f.holds \notin used,
         NEW more, more = [fr EXCEPT ![g] = Append(@, f)]
  PROVE  Accounts(more, (used \cup {f.holds}) \ {NoSession})
<1> DEFINE n == Len(fr[g])
<1>1. /\ more \in AllCalls /\ Len(more[g]) = n + 1 /\ n \in Nat
      /\ \A i \in 1..n : more[g][i] = fr[g][i]
      /\ more[g][n + 1] = f
      /\ \A h \in Goroutines \ {g} : more[h] = fr[h]
  <2>1. more[g] = Append(fr[g], f) /\ fr[g] \in Seq(FrameType)
    BY DEF AllCalls
  <2> QED BY <2>1, Appended DEF AllCalls
<1>2. HeldOnce(fr) /\ HeldAre(fr, used)
  BY DEF Accounts
<1>3. \A h \in Goroutines : \A i \in 1..Len(fr[h]) : fr[h][i].holds \in used \cup {NoSession}
  BY <1>2 DEF HeldAre
<1> HIDE DEF n
<1>4. \A h \in Goroutines : \A i \in 1..Len(more[h]) :
        \/ i \in 1..Len(fr[h]) /\ more[h][i] = fr[h][i]
        \/ h = g /\ i = n + 1
  BY <1>1 DEF n
<1>5. HeldOnce(more)
  <2> SUFFICES ASSUME NEW h \in Goroutines, NEW k \in Goroutines,
                      NEW i \in 1..Len(more[h]), NEW j \in 1..Len(more[k]),
                      more[h][i].holds # NoSession, more[h][i].holds = more[k][j].holds
               PROVE  h = k /\ i = j
    BY DEF HeldOnce
  <2>1. CASE (h = g /\ i = n + 1) \/ (k = g /\ j = n + 1)
    BY <1>1, <1>3, <1>4, <2>1
  <2>2. CASE ~(h = g /\ i = n + 1) /\ ~(k = g /\ j = n + 1)
    <3>1. /\ i \in 1..Len(fr[h]) /\ more[h][i] = fr[h][i]
          /\ j \in 1..Len(fr[k]) /\ more[k][j] = fr[k][j]
      BY <1>4, <2>2
    <3> QED BY <1>2, <3>1 DEF HeldOnce
  <2> QED BY <2>1, <2>2
<1>6. \A h \in Goroutines : \A i \in 1..Len(more[h]) :
        more[h][i].holds \in ((used \cup {f.holds}) \ {NoSession}) \cup {NoSession}
  BY <1>1, <1>3, <1>4
<1>7. ASSUME NEW s \in (used \cup {f.holds}) \ {NoSession}
      PROVE  \E h \in Goroutines : \E i \in 1..Len(more[h]) : more[h][i].holds = s
  <2>1. CASE s = f.holds
    <3>1. n + 1 \in 1..Len(more[g])
      BY <1>1
    <3> QED BY <1>1, <2>1, <3>1
  <2>2. CASE s \in used
    <3>1. PICK h \in Goroutines : \E i \in 1..Len(fr[h]) : fr[h][i].holds = s
      BY <1>2, <2>2 DEF HeldAre
    <3>2. PICK i \in 1..Len(fr[h]) : fr[h][i].holds = s
      BY <3>1
    <3>3. i \in 1..Len(more[h]) /\ more[h][i] = fr[h][i]
      BY <1>1, <3>2 DEF n
    <3> QED BY <3>2, <3>3
  <2> QED BY <2>1, <2>2
<1> QED BY <1>5, <1>6, <1>7 DEF Accounts, HeldAre

(* Calls that hold less: the sessions of U are released. *)
LEMMA AccountsReleased ==
  ASSUME NEW fr \in AllCalls, NEW used, NoSession \notin used, Accounts(fr, used),
         NEW rest \in AllCalls, NEW s \in used \cup {NoSession},
         \A h \in Goroutines :
           /\ Len(rest[h]) <= Len(fr[h])
           /\ \A i \in 1..Len(rest[h]) :
                rest[h][i].holds = IF fr[h][i].holds = s THEN NoSession ELSE fr[h][i].holds
           /\ \A i \in 1..Len(fr[h]) : i \in 1..Len(rest[h]) \/ fr[h][i].holds \in {s, NoSession}
  PROVE  Accounts(rest, used \ {s})
<1>1. HeldOnce(fr) /\ HeldAre(fr, used)
  BY DEF Accounts
<1>2. \A h \in Goroutines : \A i \in 1..Len(rest[h]) : i \in 1..Len(fr[h])
  <2> SUFFICES ASSUME NEW h \in Goroutines PROVE \A i \in 1..Len(rest[h]) : i \in 1..Len(fr[h])
    OBVIOUS
  <2>1. Len(rest[h]) \in Nat /\ Len(fr[h]) \in Nat /\ Len(rest[h]) <= Len(fr[h])
    BY DEF AllCalls
  <2> QED BY <2>1
<1>3. HeldOnce(rest)
  BY <1>1, <1>2 DEF HeldOnce
<1>4. \A h \in Goroutines : \A i \in 1..Len(rest[h]) : rest[h][i].holds \in (used \ {s}) \cup {NoSession}
  BY <1>1, <1>2 DEF HeldAre
<1>5. ASSUME NEW r \in used \ {s}
      PROVE  \E h \in Goroutines : \E i \in 1..Len(rest[h]) : rest[h][i].holds = r
  <2>1. PICK h \in Goroutines : \E i \in 1..Len(fr[h]) : fr[h][i].holds = r
    BY <1>1 DEF HeldAre
  <2>2. PICK i \in 1..Len(fr[h]) : fr[h][i].holds = r
    BY <2>1
  <2>3. i \in 1..Len(rest[h]) /\ rest[h][i].holds = r
    BY <2>2
  <2> QED BY <2>3
<1> QED BY <1>3, <1>4, <1>5 DEF Accounts, HeldAre

(* The innermost call returns: what it holds is released. *)
LEMMA AccountsShortened ==
  ASSUME NEW fr \in AllCalls, NEW used, NoSession \notin used, Accounts(fr, used),
         NEW g \in Goroutines, fr[g] # <<>>,
         NEW rest, rest = [fr EXCEPT ![g] = SubSeq(@, 1, Len(@) - 1)]
  PROVE  rest \in AllCalls /\ Accounts(rest, used \ {fr[g][Len(fr[g])].holds})
<1> DEFINE n == Len(fr[g])
           s == fr[g][n].holds
<1>1. /\ rest[g] \in Seq(FrameType) /\ rest \in AllCalls /\ Len(rest[g]) = n - 1 /\ n \in Nat \ {0}
      /\ \A i \in 1..n - 1 : rest[g][i] = fr[g][i]
      /\ \A h \in Goroutines \ {g} : rest[h] = fr[h]
  <2>1. rest[g] = SubSeq(fr[g], 1, n - 1) /\ fr[g] \in Seq(FrameType)
    BY DEF AllCalls
  <2> QED BY <2>1, Shortened DEF AllCalls
<1>2. HeldOnce(fr) /\ \A h \in Goroutines : \A i \in 1..Len(fr[h]) : fr[h][i].holds \in used \cup {NoSession}
  BY DEF Accounts, HeldAre
<1>3. s \in used \cup {NoSession}
  BY <1>1, <1>2
<1>4. ASSUME NEW h \in Goroutines
      PROVE  /\ Len(rest[h]) <= Len(fr[h])
             /\ \A i \in 1..Len(rest[h]) :
                  rest[h][i].holds = IF fr[h][i].holds = s THEN NoSession ELSE fr[h][i].holds
             /\ \A i \in 1..Len(fr[h]) : i \in 1..Len(rest[h]) \/ fr[h][i].holds \in {s, NoSession}
  <2>1. CASE h = g
    <3>1. Len(rest[h]) <= Len(fr[h])
      BY <1>1, <2>1
    <3>2. ASSUME NEW i \in 1..n - 1
          PROVE  rest[g][i].holds = IF fr[g][i].holds = s THEN NoSession ELSE fr[g][i].holds
      <4>1. i \in 1..n /\ n \in 1..n /\ i # n
        BY <1>1
      <4>2. fr[g][i].holds = s => s = NoSession
        BY <1>2, <4>1 DEF HeldOnce
      <4> QED BY <1>1, <4>2
    <3>3. \A i \in 1..n : i \in 1..n - 1 \/ fr[g][i].holds = s
      BY <1>1
    <3> QED BY <1>1, <2>1, <3>1, <3>2, <3>3
  <2>2. CASE h # g
    <3>1. rest[h] = fr[h] /\ Len(fr[h]) \in Nat
      BY <1>1, <2>2 DEF AllCalls
    <3>2. ASSUME NEW i \in 1..Len(fr[h]), fr[h][i].holds = s PROVE s = NoSession
      <4>1. n \in 1..n
        BY <1>1
      <4>2. fr[h][i].holds # NoSession => h = g
        BY <1>2, <3>2, <4>1 DEF HeldOnce
      <4> QED BY <2>2, <3>2, <4>2
    <3> QED BY <3>1, <3>2
  <2> QED BY <2>1, <2>2
<1> QED BY <1>1, <1>3, <1>4, AccountsReleased, ZenonT(60)

(* A transaction is rolled back: what its call holds is released. *)
LEMMA AccountsDone ==
  ASSUME NEW fr \in AllCalls, NEW used, NoSession \notin used, Accounts(fr, used),
         NEW g \in Goroutines, NEW d \in BOOLEAN, CallsOK(fr[g], d),
         NEW t \in 1..Len(fr[g]), fr[g][t].fn = "tx", fr[g][t].conn.kind = "tx",
         NEW rest, rest = [fr EXCEPT ![g] = DoneFrom(@, t, fr[g][t].conn.session)]
  PROVE  rest \in AllCalls /\ Accounts(rest, used \ {fr[g][t].holds})
<1> DEFINE n == Len(fr[g])
           c == fr[g][t].conn.session
           s == fr[g][t].holds
<1>1. /\ rest \in AllCalls /\ Len(rest[g]) = n /\ n \in Nat
      /\ \A i \in 1..n : rest[g][i] = IF i >= t THEN Done(fr[g][i], c) ELSE fr[g][i]
      /\ \A h \in Goroutines \ {g} : rest[h] = fr[h]
  <2>1. rest[g] = DoneFrom(fr[g], t, c) /\ fr[g] \in Seq(FrameType)
    BY DEF AllCalls
  <2> QED BY <2>1, DoneCalls DEF AllCalls
<1>2. HeldOnce(fr) /\ \A h \in Goroutines : \A i \in 1..Len(fr[h]) : fr[h][i].holds \in used \cup {NoSession}
  BY DEF Accounts, HeldAre
<1>3. \A i \in 1..n : fr[g][i] \in FrameType /\ FrameOK(fr[g], i)
  BY DEF AllCalls, CallsOK
<1>4. s \in used \cup {NoSession}
  BY <1>2
<1>5. ASSUME NEW i \in 1..n
      PROVE  rest[g][i].holds = IF fr[g][i].holds = s THEN NoSession ELSE fr[g][i].holds
  <2>1. fr[g][i].holds = s => i = t \/ s = NoSession
    BY <1>2 DEF HeldOnce
  <2>2. CASE i >= t /\ fr[g][i].conn.kind = "tx" /\ fr[g][i].conn.session = c
    <3>1. rest[g][i].holds = NoSession
      BY <1>1, <1>3, <2>2, DoneFrame
    <3>2. fr[g][i].holds \in {s, NoSession}
      <4> SUFFICES ASSUME fr[g][i].holds # NoSession PROVE fr[g][i].holds = s
        OBVIOUS
      <4>1. fr[g][i].holds = c
        BY <1>3, <2>2 DEF FrameOK, Holding
      <4>2. s = NoSession \/ s = c
        BY <1>3 DEF FrameOK, Holding
      <4>3. CASE s = NoSession
        <5>1. PinnedBelow(fr[g], t, c)
          BY <1>3, <4>3 DEF FrameOK
        <5>2. PICK k \in 1..t : fr[g][k].fn = "pinned" /\ fr[g][k].holds = c
          BY <5>1 DEF PinnedBelow
        <5>3. k \in 1..n /\ k = i
          BY <1>1, <1>2, <4>1, <5>2 DEF HeldOnce
        <5> QED BY <1>3, <2>2, <4>1, <5>2, <5>3 DEF FrameOK, Holding
      <4> QED BY <4>1, <4>2, <4>3
    <3> QED BY <3>1, <3>2
  <2>3. CASE ~(i >= t /\ fr[g][i].conn.kind = "tx" /\ fr[g][i].conn.session = c)
    <3>1. rest[g][i] = fr[g][i]
      BY <1>1, <1>3, <2>3, DoneFrame
    <3>2. fr[g][i].holds = s => s = NoSession
      <4> SUFFICES ASSUME i = t, s # NoSession PROVE FALSE
        BY <2>1
      <4>1. i >= t
        BY <1>1
      <4> QED BY <2>3, <4>1
    <3> QED BY <3>1, <3>2
  <2> QED BY <2>2, <2>3
<1>6. ASSUME NEW h \in Goroutines
      PROVE  /\ Len(rest[h]) <= Len(fr[h])
             /\ \A i \in 1..Len(rest[h]) :
                  rest[h][i].holds = IF fr[h][i].holds = s THEN NoSession ELSE fr[h][i].holds
             /\ \A i \in 1..Len(fr[h]) : i \in 1..Len(rest[h]) \/ fr[h][i].holds \in {s, NoSession}
  <2>1. CASE h = g
    BY <1>1, <1>5, <2>1
  <2>2. CASE h # g
    <3>1. rest[h] = fr[h] /\ Len(fr[h]) \in Nat
      BY <1>1, <2>2 DEF AllCalls
    <3>2. ASSUME NEW i \in 1..Len(fr[h]), fr[h][i].holds = s PROVE s = NoSession
      <4>1. fr[h][i].holds # NoSession => h = g
        BY <1>2, <3>2 DEF HeldOnce
      <4> QED BY <2>2, <3>2, <4>1
    <3>3. \A i \in 1..Len(fr[h]) :
            fr[h][i].holds = IF fr[h][i].holds = s THEN NoSession ELSE fr[h][i].holds
      BY <3>2
    <3> QED BY <3>1, <3>3
  <2> QED BY <2>1, <2>2
<1> QED BY <1>1, <1>4, <1>6, AccountsReleased, ZenonT(60)

-------------------------------------------------------------------------------
(* Steps of the pool. *)

(* Sessions that are used are sessions. *)
LEMMA UsedSessions ==
  ASSUME TypeInv
  PROVE  /\ UsedOf(session) \subseteq Pooled /\ Pooled \subseteq AllSessions
         /\ NoSession \notin Pooled /\ NoSession \notin AllSessions /\ frames \in AllCalls
BY PoolAssumption DEF TypeInv, UsedOf, AllSessions, AllCalls, Pooled

(* What a goroutine waits for that does not wait. *)
LEMMA NoFrameType == NoFrame \in FrameType
BY DEF NoFrame, Frame, PoolConn, FrameType, ConnType

(* Goroutine g makes a call that stays on its session. *)
LEMMA StayPreserves ==
  ASSUME PoolInv, NEW g \in Goroutines, waiting[g] = NoFrame,
         NEW f \in FrameType, Staying(frames[g], f, doubles), StayOn(g, f)
  PROVE  PoolInv'
<1>1. /\ frames' = [frames EXCEPT ![g] = Append(@, f)]
      /\ UNCHANGED <<session, waiting, doubles>>
  BY DEF StayOn, Push
<1>2. /\ frames'[g] = Append(frames[g], f) /\ \A h \in Goroutines \ {g} : frames'[h] = frames[h]
      /\ frames[g] \in Seq(FrameType)
  BY <1>1 DEF PoolInv, TypeInv
<1>3. CallsOK(frames'[g], doubles)
  BY <1>2, StayingFits DEF PoolInv, TypeInv
<1>4. frames'[g] \in Seq(FrameType)
  BY <1>2, Appended
<1>5. TypeInv'
  BY <1>1, <1>2, <1>4 DEF PoolInv, TypeInv, Pooled
<1>6. Accounts(frames', (UsedOf(session) \cup {f.holds}) \ {NoSession})
  BY <1>1, UsedSessions, AccountsAppended DEF PoolInv, Staying
<1>7. (UsedOf(session) \cup {f.holds}) \ {NoSession} = UsedOf(session)
  BY UsedSessions DEF PoolInv, Staying
<1>8. (Accounts(frames, UsedOf(session)))'
  BY <1>1, <1>6, <1>7 DEF Accounts, HeldOnce, HeldAre, UsedOf
<1>9. \A h \in Goroutines : CallsOK(frames'[h], doubles')
  BY <1>1, <1>2, <1>3 DEF PoolInv
<1>10. \A h \in Goroutines : waiting'[h] # NoFrame => Asking(frames'[h], waiting'[h], doubles')
  BY <1>1, <1>2 DEF PoolInv
<1> QED BY <1>5, <1>8, <1>9, <1>10 DEF PoolInv, CallsOK, Asking

(* Goroutine g asks for a session: it gets one or waits. *)
LEMMA NeedPreserves ==
  ASSUME PoolInv, NEW g \in Goroutines, waiting[g] = NoFrame,
         NEW f \in FrameType, Asking(frames[g], f, doubles), NeedSession(g, f)
  PROVE  PoolInv'
<1>1. doubles' = doubles
  BY DEF NeedSession
<1>2. frames[g] \in Seq(FrameType)
  BY DEF PoolInv, TypeInv
<1>3. ASSUME NEW s \in Pooled, s \notin UsedOf(session), NEW r \in BOOLEAN,
             session' = [session EXCEPT ![s] = [state |-> "used", readOnly |-> r]],
             Push(g, WithSession(f, s)), UNCHANGED waiting
      PROVE  PoolInv'
  <2> PICK w : w = WithSession(f, s)
    OBVIOUS
  <2>1. w \in FrameType /\ w.holds = s /\ CallsOK(Append(frames[g], w), doubles)
    BY <1>2, AskingFits, UsedSessions DEF PoolInv, TypeInv
  <2>2. frames' = [frames EXCEPT ![g] = Append(@, w)]
    BY <1>3 DEF Push
  <2>3. frames'[g] = Append(frames[g], w) /\ \A h \in Goroutines \ {g} : frames'[h] = frames[h]
    BY <2>2 DEF PoolInv, TypeInv
  <2>4. frames'[g] \in Seq(FrameType)
    BY <1>2, <2>1, <2>3, Appended
  <2>5. UsedOf(session') = UsedOf(session) \cup {s} /\ DOMAIN session' = DOMAIN session
    BY <1>3 DEF UsedOf, PoolInv, TypeInv, Pooled
  <2>6. TypeInv'
    BY <1>1, <1>3, <2>2, <2>4, <2>5 DEF PoolInv, TypeInv, Pooled
  <2>7. Accounts(frames', (UsedOf(session) \cup {s}) \ {NoSession})
    BY <1>3, <2>1, <2>2, UsedSessions, AccountsAppended DEF PoolInv
  <2>8. (UsedOf(session) \cup {s}) \ {NoSession} = UsedOf(session')
    BY <1>3, <2>5, UsedSessions DEF PoolInv
  <2>9. \A h \in Goroutines : CallsOK(frames'[h], doubles')
    BY <1>1, <2>1, <2>3 DEF PoolInv
  <2>10. \A h \in Goroutines : waiting'[h] # NoFrame => Asking(frames'[h], waiting'[h], doubles')
    BY <1>1, <1>3, <2>3 DEF PoolInv
  <2> QED BY <2>6, <2>7, <2>8, <2>9, <2>10 DEF PoolInv, CallsOK, Asking, UsedOf
<1>4. CASE waiting' = [waiting EXCEPT ![g] = f] /\ UNCHANGED <<session, frames>>
  <2>1. TypeInv'
    BY <1>1, <1>4 DEF PoolInv, TypeInv, Pooled
  <2>2. \A h \in Goroutines : waiting'[h] # NoFrame => Asking(frames'[h], waiting'[h], doubles')
    BY <1>1, <1>4 DEF PoolInv, TypeInv
  <2>3. \A h \in Goroutines : CallsOK(frames'[h], doubles')
    BY <1>1, <1>4 DEF PoolInv
  <2>4. Accounts(frames', UsedOf(session'))
    BY <1>4 DEF PoolInv
  <2> QED BY <2>1, <2>2, <2>3, <2>4 DEF PoolInv
<1>5. ASSUME NEW s \in Idle, session' = [session EXCEPT ![s].state = "used"],
             Push(g, WithSession(f, s)), UNCHANGED waiting
      PROVE  PoolInv'
  <2>1. s \in Pooled /\ s \notin UsedOf(session) /\ session[s].readOnly \in BOOLEAN
        /\ session[s] = [state |-> session[s].state, readOnly |-> session[s].readOnly]
    BY DEF Idle, UsedOf, PoolInv, TypeInv
  <2>2. session' = [session EXCEPT ![s] = [state |-> "used", readOnly |-> session[s].readOnly]]
    <3>1. [session[s] EXCEPT !.state = "used"] = [state |-> "used", readOnly |-> session[s].readOnly]
      BY DEF Idle, PoolInv, TypeInv
    <3> QED BY <1>5, <3>1
  <2> QED BY <1>3, <1>5, <2>1, <2>2
<1>6. ASSUME NEW s \in Closed, session' = [session EXCEPT ![s] = [state |-> "used", readOnly |-> FALSE]],
             Push(g, WithSession(f, s)), UNCHANGED waiting
      PROVE  PoolInv'
  <2>1. s \in Pooled /\ s \notin UsedOf(session)
    BY DEF Closed, UsedOf
  <2> QED BY <1>3, <1>6, <2>1
<1> QED BY <1>4, <1>5, <1>6 DEF NeedSession

(* A session is returned, or none: a waiting call gets it.                  *)
LEMMA PutPreserves ==
  ASSUME PoolInv, NEW rest \in AllCalls, NEW s \in UsedOf(session) \cup {NoSession},
         \A h \in Goroutines : CallsOK(rest[h], doubles),
         \A h \in Goroutines : waiting[h] # NoFrame => Asking(rest[h], waiting[h], doubles),
         Accounts(rest, UsedOf(session) \ {s}),
         PutSession(s, rest), UNCHANGED doubles
  PROVE  PoolInv'
<1>0. /\ UsedOf(session) \subseteq Pooled /\ Pooled \subseteq AllSessions
      /\ NoSession \notin Pooled /\ NoSession \notin AllSessions
  BY UsedSessions DEF PoolInv
<1>1. CASE s = NoSession
  <2>1. frames' = rest /\ UNCHANGED <<session, waiting>>
    BY <1>1 DEF PutSession
  <2>2. UsedOf(session) \ {s} = UsedOf(session')
    BY <1>0, <1>1, <2>1
  <2>3. TypeInv'
    BY <2>1 DEF PoolInv, TypeInv, Pooled, AllCalls
  <2> QED BY <2>1, <2>2, <2>3 DEF PoolInv
<1>2. ASSUME s # NoSession, NEW g \in Waiting,
             frames' = [rest EXCEPT ![g] = Append(@, WithSession(waiting[g], s))],
             waiting' = [waiting EXCEPT ![g] = NoFrame],
             UNCHANGED session
      PROVE  PoolInv'
  <2>0. g \in Goroutines /\ waiting[g] # NoFrame /\ waiting[g] \in FrameType /\ s \in UsedOf(session)
        /\ s \in AllSessions /\ rest[g] \in Seq(FrameType) /\ doubles \in BOOLEAN
    BY <1>0, <1>2 DEF Waiting, PoolInv, TypeInv, AllCalls
  <2> PICK w : w = WithSession(waiting[g], s)
    OBVIOUS
  <2>1. w \in FrameType /\ w.holds = s /\ CallsOK(Append(rest[g], w), doubles)
    BY <2>0, AskingFits
  <2>2. frames' = [rest EXCEPT ![g] = Append(@, w)]
    BY <1>2
  <2>3. frames'[g] = Append(rest[g], w) /\ \A h \in Goroutines \ {g} : frames'[h] = rest[h]
    BY <2>0, <2>2 DEF AllCalls
  <2>4. frames'[g] \in Seq(FrameType)
    BY <2>0, <2>1, <2>3, Appended
  <2>5. frames' \in AllCalls
    BY <2>0, <2>2, <2>4 DEF AllCalls
  <2>6. TypeInv'
    BY <1>2, <2>5, NoFrameType DEF PoolInv, TypeInv, Pooled, AllCalls
  <2>7. Accounts(frames', ((UsedOf(session) \ {s}) \cup {s}) \ {NoSession})
    BY <1>0, <2>0, <2>1, <2>2, AccountsAppended
  <2>8. ((UsedOf(session) \ {s}) \cup {s}) \ {NoSession} = UsedOf(session')
    BY <1>0, <1>2, <2>0
  <2>9. \A h \in Goroutines : CallsOK(frames'[h], doubles')
    BY <2>1, <2>3
  <2>10. \A h \in Goroutines : waiting'[h] # NoFrame => Asking(frames'[h], waiting'[h], doubles')
    BY <1>2, <2>3 DEF PoolInv, TypeInv
  <2> QED BY <2>6, <2>7, <2>8, <2>9, <2>10 DEF PoolInv
<1>3. ASSUME s # NoSession, NEW v \in [state : {"closed", "idle"}, readOnly : BOOLEAN],
             session' = [session EXCEPT ![s] = v], frames' = rest, UNCHANGED waiting
      PROVE  PoolInv'
  <2>1. UsedOf(session') = UsedOf(session) \ {s} /\ DOMAIN session' = DOMAIN session
    BY <1>0, <1>3 DEF UsedOf, PoolInv, TypeInv, Pooled
  <2>2. TypeInv'
    BY <1>3, <2>1 DEF PoolInv, TypeInv, Pooled, AllCalls
  <2> QED BY <1>3, <2>1, <2>2 DEF PoolInv
<1>4. CASE s # NoSession /\ Waiting # {} /\ pool = "open"
  BY <1>2, <1>4 DEF PutSession
<1>5. CASE s # NoSession /\ ~(Waiting # {} /\ pool = "open")
  <2>1. session' = [session EXCEPT ![s] = [state |-> "closed", readOnly |-> FALSE]]
        \/ session' = [session EXCEPT ![s].state = "idle"]
    BY <1>5 DEF PutSession
  <2>2. frames' = rest /\ UNCHANGED waiting
    BY <1>5 DEF PutSession
  <2>3. CASE session' = [session EXCEPT ![s] = [state |-> "closed", readOnly |-> FALSE]]
    BY <1>3, <1>5, <2>2, <2>3
  <2>4. CASE session' = [session EXCEPT ![s].state = "idle"]
    <3>1. s \in Pooled
      BY <1>0, <1>5
    <3> PICK v : v = [session[s] EXCEPT !.state = "idle"]
      OBVIOUS
    <3>2. v \in [state : {"closed", "idle"}, readOnly : BOOLEAN]
      BY <3>1 DEF PoolInv, TypeInv
    <3>3. session' = [session EXCEPT ![s] = v]
      BY <2>4
    <3> QED BY <1>3, <1>5, <2>2, <3>2, <3>3
  <2> QED BY <2>1, <2>3, <2>4
<1> QED BY <1>1, <1>4, <1>5

-------------------------------------------------------------------------------
(* Actions. *)

(* The connection of the innermost callback. *)
LEMMA Connection ==
  ASSUME PoolInv, NEW g \in Goroutines
  PROVE  /\ Conn(g) \in ConnType /\ Len(frames[g]) \in Nat /\ frames[g] \in Seq(FrameType)
         /\ Len(frames[g]) > 0 => Conn(g) = frames[g][Len(frames[g])].conn
         /\ Len(frames[g]) = 0 => Conn(g) = PoolConn
         /\ PoolConn \in ConnType /\ PoolConn.kind = "pool" /\ PoolConn.session = NoSession
         /\ Conn(g).kind = "pool" => Conn(g).session = NoSession
<1> DEFINE n == Len(frames[g])
<1>1. frames[g] \in Seq(FrameType) /\ n \in Nat /\ (frames[g] = <<>> <=> n = 0)
  BY DEF PoolInv, TypeInv
<1>2. PoolConn \in ConnType /\ PoolConn.kind = "pool" /\ PoolConn.session = NoSession
  BY DEF PoolConn, ConnType
<1>3. n > 0 => n \in 1..n /\ frames[g][n] \in FrameType /\ FrameOK(frames[g], n)
  BY <1>1 DEF PoolInv, CallsOK
<1>4. CASE n = 0
  BY <1>1, <1>2, <1>4 DEF Conn
<1>5. CASE n > 0
  BY <1>1, <1>2, <1>3, <1>5 DEF Conn, FrameType, FrameOK
<1> QED BY <1>1, <1>4, <1>5

(* What On makes of a connection. *)
LEMMA OnConn ==
  ASSUME NEW conn \in ConnType, NEW kind \in {"pool", "tx", "doneTx", "pinned"},
         NEW s \in AllSessions \cup {NoSession}
  PROVE  /\ On(conn, kind, s) \in ConnType /\ On(conn, kind, s).kind = kind
         /\ On(conn, kind, s).session = s /\ On(conn, kind, s).masked = conn.masked
BY DEF On, ConnType

(* The frame of a call that holds nothing yet. *)
LEMMA NewFrame ==
  ASSUME NEW fn \in {"none", "tx", "through", "pinned", "rows", "global", "masked"}, NEW conn \in ConnType
  PROVE  /\ Frame(fn, conn, NoSession) \in FrameType /\ Frame(fn, conn, NoSession).fn = fn
         /\ Frame(fn, conn, NoSession).conn = conn /\ Frame(fn, conn, NoSession).holds = NoSession
BY DEF Frame, FrameType

(* Where the careful application may use the pool it holds nothing. *)
LEMMA OnPoolHoldsNothing ==
  ASSUME PoolInv, NEW g \in Goroutines, Ready(g), ~doubles, Conn(g).kind = "pool"
  PROVE  HoldsNothing(frames[g])
<1> DEFINE n == Len(frames[g])
<1>1. n \in Nat /\ (n > 0 => Conn(g) = frames[g][n].conn) /\ (n > 0 => frames[g] # <<>>)
  BY Connection
<1>2. Careful(frames[g])
  BY DEF PoolInv, CallsOK
<1>3. n > 0 => frames[g][n].conn.kind = "pool" /\ frames[g][n].fn # "rows"
  BY <1>1 DEF Ready, InRowsOfPool
<1> SUFFICES ASSUME NEW i \in 1..n, frames[g][i].holds # NoSession PROVE FALSE
  BY DEF HoldsNothing
<1>4. n \in 1..n /\ i <= n
  BY <1>1
<1> QED BY <1>2, <1>3, <1>4 DEF Careful

(* A call on the connection conn of the callback, or one made of it.        *)
LEMMA StayKeeps ==
  ASSUME PoolInv, NEW g \in Goroutines, Ready(g), NEW conn \in ConnType,
         NEW fn \in {"tx", "through", "rows", "masked"},
         conn.session = Conn(g).session, Conn(g).masked => conn.masked,
         IF fn = "tx" THEN Conn(g).kind = "pinned" /\ conn.kind = "tx" ELSE conn.kind = Conn(g).kind,
         StayOn(g, Frame(fn, conn, NoSession))
  PROVE  PoolInv'
<1> DEFINE n == Len(frames[g])
<1> PICK f : f = Frame(fn, conn, NoSession)
  OBVIOUS
<1>1. f \in FrameType /\ f.fn = fn /\ f.conn = conn /\ f.holds = NoSession
  BY NewFrame
<1>2. /\ n \in Nat /\ frames[g] \in Seq(FrameType)
      /\ n > 0 => Conn(g) = frames[g][n].conn
      /\ n = 0 => Conn(g).kind = "pool" /\ Conn(g).session = NoSession
      /\ n > 0 => frames[g] # <<>>
  BY Connection
<1>3. n < MaxDepth /\ waiting[g] = NoFrame
  BY DEF Ready
<1>4. n > 0 /\ ~doubles => ~(frames[g][n].fn = "rows" /\ frames[g][n].conn.kind = "pool")
  BY <1>2 DEF Ready, InRowsOfPool
<1>5. Staying(frames[g], f, doubles)
  BY <1>1, <1>2, <1>3, <1>4 DEF Staying
<1> QED BY <1>1, <1>3, <1>5, StayPreserves

(* A call that needs a session of the pool. *)
LEMMA NeedKeeps ==
  ASSUME PoolInv, NEW g \in Goroutines, Ready(g), NEW conn \in ConnType,
         NEW fn \in {"tx", "pinned", "rows"},
         Conn(g).masked => conn.masked,
         conn.kind = (IF fn = "rows" THEN "pool" ELSE fn), fn = "rows" => conn.session = NoSession,
         Conn(g).kind = "pool" \/ (fn = "tx" /\ Active(Conn(g)) /\ doubles),
         NeedSession(g, Frame(fn, conn, NoSession))
  PROVE  PoolInv'
<1> DEFINE n == Len(frames[g])
<1> PICK f : f = Frame(fn, conn, NoSession)
  OBVIOUS
<1>1. f \in FrameType /\ f.fn = fn /\ f.conn = conn /\ f.holds = NoSession
  BY NewFrame
<1>2. n \in Nat /\ (n > 0 => Conn(g) = frames[g][n].conn)
  BY Connection
<1>3. n < MaxDepth /\ waiting[g] = NoFrame
  BY DEF Ready
<1>4. ~doubles => HoldsNothing(frames[g])
  BY OnPoolHoldsNothing
<1>5. Asking(frames[g], f, doubles)
  BY <1>1, <1>2, <1>3, <1>4 DEF Asking
<1> QED BY <1>1, <1>3, <1>5, NeedPreserves

(* Begin of a connection, pinned connection or, where allowed, transaction. *)
LEMMA BeginKeeps ==
  ASSUME PoolInv, NEW g \in Goroutines, Ready(g), Active(Conn(g)) => doubles, BeginOn(g, Conn(g))
  PROVE  PoolInv'
<1>1. Conn(g) \in ConnType /\ Conn(g).session \in AllSessions \cup {NoSession}
  BY Connection DEF ConnType
<1>2. CASE Conn(g).kind = "pinned"
  <2> PICK conn : conn = On(Conn(g), "tx", Conn(g).session)
    OBVIOUS
  <2>1. /\ conn \in ConnType /\ conn.kind = "tx" /\ conn.session = Conn(g).session
        /\ conn.masked = Conn(g).masked
    BY <1>1 DEF On, ConnType
  <2>2. StayOn(g, Frame("tx", conn, NoSession))
    BY <1>2 DEF BeginOn
  <2> QED BY <1>2, <2>1, <2>2, StayKeeps
<1>3. CASE Conn(g).kind # "pinned"
  <2> PICK conn : conn = On(Conn(g), "tx", NoSession)
    OBVIOUS
  <2>1. conn \in ConnType /\ conn.kind = "tx" /\ conn.masked = Conn(g).masked
    BY <1>1 DEF On, ConnType
  <2>2. NeedSession(g, Frame("tx", conn, NoSession))
    BY <1>3 DEF BeginOn
  <2>3. Conn(g).kind = "pool" \/ Active(Conn(g))
    BY <1>1, <1>3 DEF ConnType, Active
  <2> QED BY <2>1, <2>2, <2>3, NeedKeeps
<1> QED BY <1>2, <1>3

(* Transaction and IsolatedTransaction *)
LEMMA TransactionKeeps ==
  ASSUME PoolInv, NEW g \in Goroutines, Transaction(g) \/ IsolatedTransaction(g)
  PROVE  PoolInv'
<1>1. CASE Transaction(g) /\ Active(Conn(g))
  <2>1. Ready(g) /\ StayOn(g, Frame("through", Conn(g), NoSession))
    BY <1>1 DEF Transaction
  <2> QED BY <2>1, Connection, StayKeeps
<1>2. CASE Transaction(g) /\ ~Active(Conn(g))
  BY <1>2, BeginKeeps DEF Transaction
<1>3. CASE IsolatedTransaction(g)
  BY <1>3, BeginKeeps DEF IsolatedTransaction
<1> QED BY <1>1, <1>2, <1>3

(* PinnedConn *)
LEMMA PinnedConnKeeps ==
  ASSUME PoolInv, NEW g \in Goroutines, PinnedConn(g)
  PROVE  PoolInv'
<1>1. Ready(g) /\ Conn(g) \in ConnType
  BY Connection DEF PinnedConn
<1>2. CASE PassesThrough(Conn(g))
  BY <1>1, <1>2, StayKeeps DEF PinnedConn
<1>3. CASE ~PassesThrough(Conn(g))
  <2> PICK conn : conn = On(Conn(g), "pinned", NoSession)
    OBVIOUS
  <2>1. conn \in ConnType /\ conn.kind = "pinned" /\ conn.masked = Conn(g).masked
    BY <1>1, OnConn
  <2>2. ~Conn(g).masked /\ NeedSession(g, Frame("pinned", conn, NoSession))
    BY <1>3 DEF PinnedConn
  <2>3. Conn(g).kind = "pool"
    BY <1>1, <1>3, <2>2 DEF PassesThrough, Active, ConnType
  <2> QED BY <1>1, <2>1, <2>2, <2>3, NeedKeeps
<1> QED BY <1>2, <1>3

(* QueryCallback *)
LEMMA QueryCallbackKeeps ==
  ASSUME PoolInv, NEW g \in Goroutines, QueryCallback(g)
  PROVE  PoolInv'
<1>1. Ready(g) /\ Conn(g) \in ConnType /\ (Conn(g).kind = "pool" => Conn(g).session = NoSession)
  BY Connection DEF QueryCallback
<1>2. CASE Conn(g).kind = "pool"
  <2>1. NeedSession(g, Frame("rows", Conn(g), NoSession))
    BY <1>2 DEF QueryCallback
  <2> QED BY <1>1, <1>2, <2>1, NeedKeeps
<1>3. CASE Conn(g).kind # "pool"
  <2>1. StayOn(g, Frame("rows", Conn(g), NoSession))
    BY <1>3 DEF QueryCallback
  <2> QED BY <1>1, <2>1, StayKeeps
<1> QED BY <1>2, <1>3

(* ContextWithGlobalConn and WithoutPlaceholderSubstitution *)
LEMMA OtherConnKeeps ==
  ASSUME PoolInv, NEW g \in Goroutines, ContextWithGlobalConn(g) \/ WithoutPlaceholderSubstitution(g)
  PROVE  PoolInv'
<1>1. CASE ContextWithGlobalConn(g)
  <2> PICK f : f = Frame("global", PoolConn, NoSession)
    OBVIOUS
  <2>1. /\ f \in FrameType /\ f.fn = "global" /\ f.conn = PoolConn /\ f.holds = NoSession
        /\ PoolConn.kind = "pool" /\ PoolConn.session = NoSession
    BY Connection, NewFrame
  <2>2. Len(frames[g]) < MaxDepth /\ waiting[g] = NoFrame /\ doubles /\ StayOn(g, f)
    BY <1>1 DEF ContextWithGlobalConn, Ready
  <2>3. Staying(frames[g], f, doubles)
    BY <2>1, <2>2 DEF Staying
  <2> QED BY <2>1, <2>2, <2>3, StayPreserves
<1>2. CASE WithoutPlaceholderSubstitution(g)
  <2> PICK conn : conn = Masked(Conn(g))
    OBVIOUS
  <2>1. /\ conn \in ConnType /\ conn.kind = Conn(g).kind /\ conn.session = Conn(g).session
        /\ conn.masked = TRUE
    BY Connection DEF Masked, ConnType
  <2>2. Ready(g) /\ StayOn(g, Frame("masked", conn, NoSession))
    BY <1>2 DEF WithoutPlaceholderSubstitution
  <2> QED BY <2>1, <2>2, StayKeeps
<1> QED BY <1>1, <1>2

(* What is held is used. *)
LEMMA HeldIsUsed ==
  ASSUME PoolInv, NEW g \in Goroutines, NEW i \in 1..Len(frames[g])
  PROVE  frames[g][i].holds \in UsedOf(session) \cup {NoSession}
BY DEF PoolInv, Accounts, HeldAre

(* The innermost call returns. *)
LEMMA ReturnKeeps ==
  ASSUME PoolInv, NEW g \in Goroutines, CallReturns(g)
  PROVE  PoolInv'
<1> DEFINE n == Len(frames[g])
           s == frames[g][n].holds
<1> PICK rest : rest = [frames EXCEPT ![g] = SubSeq(@, 1, Len(@) - 1)]
  OBVIOUS
<1>1. /\ waiting[g] = NoFrame /\ frames[g] # <<>> /\ PutSession(s, rest) /\ UNCHANGED doubles
  BY DEF CallReturns, Released
<1>2. frames \in AllCalls /\ NoSession \notin UsedOf(session) /\ n \in 1..n
  BY <1>1, UsedSessions, Shortened DEF PoolInv, AllCalls
<1>3. rest \in AllCalls /\ Accounts(rest, UsedOf(session) \ {s})
  BY <1>1, <1>2, AccountsShortened DEF PoolInv
<1>4. rest[g] = SubSeq(frames[g], 1, n - 1) /\ \A h \in Goroutines \ {g} : rest[h] = frames[h]
  BY <1>2 DEF AllCalls
<1>5. CallsOK(rest[g], doubles)
  BY <1>1, <1>2, <1>4, CallsShortened DEF PoolInv, TypeInv
<1>6. \A h \in Goroutines : CallsOK(rest[h], doubles)
  BY <1>4, <1>5 DEF PoolInv
<1>7. \A h \in Goroutines : waiting[h] # NoFrame => Asking(rest[h], waiting[h], doubles)
  BY <1>1, <1>4 DEF PoolInv
<1>8. s \in UsedOf(session) \cup {NoSession}
  BY <1>2, HeldIsUsed
<1> QED BY <1>1, <1>3, <1>6, <1>7, <1>8, PutPreserves

(* The context of a transaction is done. *)
LEMMA DoneKeeps ==
  ASSUME PoolInv, NEW g \in Goroutines, NEW i \in DOMAIN frames[g], TransactionContextDone(g, i)
  PROVE  PoolInv'
<1> DEFINE s == frames[g][i].holds
           c == frames[g][i].conn.session
<1> PICK rest : rest = [frames EXCEPT ![g] = DoneFrom(@, i, c)]
  OBVIOUS
<1>1. /\ frames[g][i].fn = "tx" /\ frames[g][i].conn.kind = "tx"
      /\ PutSession(s, rest) /\ UNCHANGED doubles
  BY DEF TransactionContextDone, DoneFrom
<1>2. frames \in AllCalls /\ NoSession \notin UsedOf(session)
  BY UsedSessions DEF PoolInv
<1>3. frames[g] \in Seq(FrameType) /\ i \in 1..Len(frames[g]) /\ CallsOK(frames[g], doubles)
      /\ doubles \in BOOLEAN
  BY DEF PoolInv, TypeInv
<1>4. rest \in AllCalls /\ Accounts(rest, UsedOf(session) \ {s})
  BY <1>1, <1>2, <1>3, AccountsDone DEF PoolInv
<1>5. rest[g] = DoneFrom(frames[g], i, c) /\ \A h \in Goroutines \ {g} : rest[h] = frames[h]
  BY <1>2 DEF AllCalls
<1>6. CallsOK(rest[g], doubles)
  BY <1>3, <1>5, CallsDone
<1>7. \A h \in Goroutines : CallsOK(rest[h], doubles)
  BY <1>5, <1>6 DEF PoolInv
<1>8. waiting[g] # NoFrame => Asking(rest[g], waiting[g], doubles)
  BY <1>3, <1>5, AskingDone DEF PoolInv, TypeInv
<1>9. \A h \in Goroutines : waiting[h] # NoFrame => Asking(rest[h], waiting[h], doubles)
  BY <1>5, <1>8 DEF PoolInv
<1>10. s \in UsedOf(session) \cup {NoSession}
  BY <1>3, HeldIsUsed
<1> QED BY <1>1, <1>4, <1>7, <1>9, <1>10, PutPreserves

(* A call gives up waiting. *)
LEMMA WaitFailsKeeps ==
  ASSUME PoolInv, NEW g \in Goroutines, WaitFails(g)
  PROVE  PoolInv'
<1>1. waiting' = [waiting EXCEPT ![g] = NoFrame] /\ UNCHANGED <<session, frames, doubles>>
  BY DEF WaitFails
<1>2. TypeInv'
  BY <1>1, NoFrameType DEF PoolInv, TypeInv, Pooled
<1>3. \A h \in Goroutines : waiting'[h] # NoFrame => waiting'[h] = waiting[h] /\ waiting[h] # NoFrame
  BY <1>1 DEF PoolInv, TypeInv
<1> QED BY <1>1, <1>2, <1>3 DEF PoolInv, UsedOf

(* Idle sessions are closed, and calls may give up waiting. *)
LEMMA ClosingKeeps ==
  ASSUME PoolInv, UNCHANGED <<frames, doubles>>,
         session' \in [Pooled -> [state : {"closed", "idle", "used"}, readOnly : BOOLEAN]],
         \A s \in Pooled : session'[s].state = "used" <=> session[s].state = "used",
         waiting' \in [Goroutines -> FrameType],
         \A g \in Goroutines : waiting'[g] \in {waiting[g], NoFrame}
  PROVE  PoolInv'
<1>1. TypeInv'
  BY DEF PoolInv, TypeInv, Pooled
<1>2. UsedOf(session') = UsedOf(session)
  BY DEF UsedOf, Pooled
<1> QED BY <1>1, <1>2 DEF PoolInv

(* Reap and ClosePool *)
LEMMA CloseKeeps ==
  ASSUME PoolInv, ClosePool \/ \E s \in Pooled : Reap(s)
  PROVE  PoolInv'
<1> PICK none : none = [state |-> "closed", readOnly |-> FALSE]
  OBVIOUS
<1>1. none \in [state : {"closed", "idle", "used"}, readOnly : BOOLEAN] /\ none.state = "closed"
  OBVIOUS
<1>2. /\ session \in [Pooled -> [state : {"closed", "idle", "used"}, readOnly : BOOLEAN]]
      /\ waiting \in [Goroutines -> FrameType]
  BY DEF PoolInv, TypeInv
<1>3. CASE ClosePool
  <2>1. /\ session' = [s \in Pooled |-> IF session[s].state = "idle" THEN none ELSE session[s]]
        /\ waiting' = [g \in Goroutines |-> NoFrame]
        /\ UNCHANGED <<frames, doubles>>
    BY <1>3 DEF ClosePool
  <2> QED BY <1>1, <1>2, <2>1, NoFrameType, ClosingKeeps
<1>4. ASSUME NEW s \in Pooled, Reap(s) PROVE PoolInv'
  <2>1. /\ session[s].state = "idle" /\ session' = [session EXCEPT ![s] = none]
        /\ UNCHANGED <<frames, waiting, doubles>>
    BY <1>4 DEF Reap
  <2>2. /\ session' \in [Pooled -> [state : {"closed", "idle", "used"}, readOnly : BOOLEAN]]
        /\ \A r \in Pooled : session'[r].state = "used" <=> session[r].state = "used"
    BY <1>1, <1>2, <2>1
  <2> QED BY <1>2, <2>1, <2>2, ClosingKeeps
<1> QED BY <1>3, <1>4

(* At first no call runs and no session is used. *)
LEMMA InitKeeps == PoolInit => PoolInv
<1> SUFFICES ASSUME PoolInit PROVE PoolInv
  OBVIOUS
<1>1. PICK S \in Pools :
        session \in [S -> {[state |-> "closed", readOnly |-> FALSE],
                           [state |-> "idle", readOnly |-> ReadOnly]}]
  BY DEF PoolInit
<1>2. Pooled = S /\ \A s \in S : session[s].state # "used"
  BY <1>1 DEF Pooled
<1>3. session \in [Pooled -> [state : {"closed", "idle", "used"}, readOnly : BOOLEAN]]
  <2>1. \A v \in {[state |-> "closed", readOnly |-> FALSE], [state |-> "idle", readOnly |-> ReadOnly]} :
          v \in [state : {"closed", "idle", "used"}, readOnly : BOOLEAN]
    <3>1. ReadOnly \in BOOLEAN
      BY PoolAssumption
    <3>2. ReadOnly \in BOOLEAN => [state |-> "idle", readOnly |-> ReadOnly] \in
                                    [state : {"closed", "idle", "used"}, readOnly : BOOLEAN]
      OBVIOUS
    <3>3. [state |-> "closed", readOnly |-> FALSE] \in
            [state : {"closed", "idle", "used"}, readOnly : BOOLEAN]
      OBVIOUS
    <3> QED BY <3>1, <3>2, <3>3, Zenon
  <2>2. \A s \in S : session[s] \in [state : {"closed", "idle", "used"}, readOnly : BOOLEAN]
    BY <1>1, <2>1
  <2>3. session = [s \in S |-> session[s]]
    BY <1>1
  <2> QED BY <1>2, <2>2, <2>3
<1>4. /\ frames = [g \in Goroutines |-> <<>>] /\ waiting = [g \in Goroutines |-> NoFrame]
      /\ doubles \in BOOLEAN
  BY DEF PoolInit
<1>5. <<>> \in Seq(FrameType) /\ Len(<<>>) = 0
  OBVIOUS
<1>6. TypeInv
  BY <1>2, <1>3, <1>4, <1>5, NoFrameType DEF TypeInv
<1>7. \A g \in Goroutines : frames[g] = <<>> /\ waiting[g] = NoFrame
  BY <1>4
<1>8. \A d \in BOOLEAN : CallsOK(<<>>, d)
  BY <1>5, PoolAssumption DEF CallsOK, MasksOK, PinsOK, Careful
<1>9. UsedOf(session) = {}
  BY <1>2 DEF UsedOf, Pooled
<1>10. Accounts(frames, UsedOf(session))
  BY <1>7, <1>9 DEF Accounts, HeldOnce, HeldAre
<1> QED BY <1>4, <1>6, <1>7, <1>8, <1>10 DEF PoolInv

(* The invariant is inductive. *)
LEMMA NextKeeps == PoolInv /\ [PoolNext]_poolVars => PoolInv'
<1> SUFFICES ASSUME PoolInv, [PoolNext]_poolVars PROVE PoolInv'
  OBVIOUS
<1>1. ASSUME NEW g \in Goroutines, Transaction(g) \/ IsolatedTransaction(g) PROVE PoolInv'
  BY <1>1, TransactionKeeps
<1>2. ASSUME NEW g \in Goroutines, PinnedConn(g) PROVE PoolInv'
  BY <1>2, PinnedConnKeeps
<1>3. ASSUME NEW g \in Goroutines, QueryCallback(g) PROVE PoolInv'
  BY <1>3, QueryCallbackKeeps
<1>4. ASSUME NEW g \in Goroutines, ContextWithGlobalConn(g) \/ WithoutPlaceholderSubstitution(g)
      PROVE  PoolInv'
  BY <1>4, OtherConnKeeps
<1>5. ASSUME NEW g \in Goroutines, CallReturns(g) PROVE PoolInv'
  BY <1>5, ReturnKeeps
<1>6. ASSUME NEW g \in Goroutines, WaitFails(g) PROVE PoolInv'
  BY <1>6, WaitFailsKeeps
<1>7. ASSUME NEW g \in Goroutines, NEW i \in DOMAIN frames[g], TransactionContextDone(g, i)
      PROVE  PoolInv'
  BY <1>7, DoneKeeps
<1>8. CASE ClosePool \/ \E s \in Pooled : Reap(s)
  BY <1>8, CloseKeeps
<1>9. CASE UNCHANGED poolVars
  BY <1>9 DEF PoolInv, TypeInv, Pooled, UsedOf, poolVars
<1> QED BY <1>1, <1>2, <1>3, <1>4, <1>5, <1>6, <1>7, <1>8, <1>9 DEF PoolNext

(* It holds in every state. *)
LEMMA PoolInvariant == PoolSpec => []PoolInv
  BY InitKeeps, NextKeeps, PTL DEF PoolSpec

-------------------------------------------------------------------------------
(* SessionsAreAccounted (connection.go:170): a session that is in use is    *)
(* held by exactly one running call and the others by none, however calls   *)
(* return, fail or lose their transaction.                                  *)
THEOREM SessionsAccounted == PoolSpec => []SessionsAreAccounted
<1>1. PoolInv => SessionsAreAccounted
  <2> SUFFICES ASSUME PoolInv, NEW s \in Pooled
               PROVE  IF session[s].state = "used"
                      THEN \E h \in Holders(s) : Holders(s) = {h} ELSE Holders(s) = {}
    BY DEF SessionsAreAccounted
  <2>1. s # NoSession /\ (s \in UsedOf(session) <=> session[s].state = "used")
    BY UsedSessions DEF PoolInv, UsedOf, Pooled
  <2>2. HeldOnce(frames) /\ HeldAre(frames, UsedOf(session))
    BY DEF PoolInv, Accounts
  <2>3. \A g \in Goroutines : DOMAIN frames[g] = 1..Len(frames[g]) /\ Len(frames[g]) \in Nat
                              /\ Len(frames[g]) <= MaxDepth
    <3> SUFFICES ASSUME NEW g \in Goroutines
                 PROVE  DOMAIN frames[g] = 1..Len(frames[g]) /\ Len(frames[g]) \in Nat
                        /\ Len(frames[g]) <= MaxDepth
      OBVIOUS
    <3>1. frames[g] \in Seq(FrameType)
      BY DEF PoolInv, TypeInv
    <3>2. Len(frames[g]) <= MaxDepth
      BY DEF PoolInv, CallsOK
    <3> QED BY <3>1, <3>2
  <2>4. \A h : h \in Holders(s) <=>
          /\ h \in Goroutines \X (1..MaxDepth)
          /\ h[2] \in 1..Len(frames[h[1]]) /\ frames[h[1]][h[2]].holds = s
    BY <2>3 DEF Holders
  <2>5. CASE session[s].state = "used"
    <3>1. PICK g \in Goroutines : \E i \in 1..Len(frames[g]) : frames[g][i].holds = s
      BY <2>1, <2>2, <2>5 DEF HeldAre
    <3>2. PICK i \in 1..Len(frames[g]) : frames[g][i].holds = s
      BY <3>1
    <3>3. i \in 1..MaxDepth
      BY <2>3, <3>2, PoolAssumption
    <3>4. <<g, i>> \in Holders(s)
      BY <2>4, <3>2, <3>3
    <3>5. ASSUME NEW h \in Holders(s) PROVE h = <<g, i>>
      <4>1. h = <<h[1], h[2]>> /\ h[1] \in Goroutines /\ h[2] \in 1..Len(frames[h[1]])
            /\ frames[h[1]][h[2]].holds = s
        BY <2>4, <3>5
      <4>2. h[1] = g /\ h[2] = i
        BY <2>1, <2>2, <3>2, <4>1 DEF HeldOnce
      <4> QED BY <4>1, <4>2
    <3> QED BY <2>5, <3>4, <3>5
  <2>6. CASE session[s].state # "used"
    <3>1. ASSUME NEW h \in Holders(s) PROVE FALSE
      BY <2>1, <2>2, <2>4, <2>6, <3>1 DEF HeldAre
    <3> QED BY <2>6, <3>1
  <2> QED BY <2>5, <2>6
<1> QED BY <1>1, PoolInvariant, PTL

(* PinnedSessionIsUsed (db/pinnedconn.go:12): what is called with the       *)
(* context of PinnedConn, at any depth, runs on its session.                *)
THEOREM PinnedSessions == PoolSpec => []PinnedSessionIsUsed
<1>1. PoolInv => PinnedSessionIsUsed
  <2> SUFFICES ASSUME PoolInv, NEW g \in Goroutines, NEW i \in DOMAIN frames[g], NEW j \in DOMAIN frames[g],
                      frames[g][i].fn = "pinned", i < j, \A k \in i + 1 .. j : ~Leaves(g, k)
               PROVE  frames[g][j].conn.session = frames[g][i].holds
    BY DEF PinnedSessionIsUsed
  <2>1. DOMAIN frames[g] = 1..Len(frames[g]) /\ PinsOK(frames[g])
    BY DEF PoolInv, TypeInv, CallsOK
  <2>2. \A k \in i + 1 .. j : ~LeavesAt(frames[g], k)
    BY DEF Leaves, LeavesAt
  <2> QED BY <2>1, <2>2 DEF PinsOK
<1> QED BY <1>1, PoolInvariant, PTL

(* SecretsStayMasked (connection.go:125): what is called on a wrapped       *)
(* connection, at any depth, is wrapped too.                                *)
THEOREM SecretsMasked == PoolSpec => []SecretsStayMasked
<1>1. PoolInv => SecretsStayMasked
  <2> SUFFICES ASSUME PoolInv, NEW g \in Goroutines PROVE
                 DOMAIN frames[g] = 1..Len(frames[g]) /\ MasksOK(frames[g])
    BY DEF SecretsStayMasked, MasksOK
  <2> QED BY DEF PoolInv, TypeInv, CallsOK
<1> QED BY <1>1, PoolInvariant, PTL

(* WaitsHoldNothing (db/pinnedconn.go:62): a call that waits for a session  *)
(* is made by a goroutine that holds none, if the application does not ask  *)
(* for a second one; so no two goroutines wait for each other.              *)
THEOREM WaitingHoldsNothing == PoolSpec => []WaitsHoldNothing
<1>1. PoolInv => WaitsHoldNothing
  <2> SUFFICES ASSUME PoolInv, NEW g \in Waiting, ~doubles
               PROVE  \A i \in DOMAIN frames[g] : frames[g][i].holds = NoSession
    BY DEF WaitsHoldNothing
  <2>1. g \in Goroutines /\ waiting[g] # NoFrame
    BY DEF Waiting
  <2>2. HoldsNothing(frames[g]) /\ DOMAIN frames[g] = 1..Len(frames[g])
    BY <2>1 DEF PoolInv, TypeInv, Asking
  <2> QED BY <2>2 DEF HoldsNothing
<1> QED BY <1>1, PoolInvariant, PTL

===============================================================================
