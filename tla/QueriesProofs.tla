----------------------------- MODULE QueriesProofs -----------------------------
(***************************************************************************)
(* Proofs about the modules of queries.  RowLoops: for every function, cap *)
(* and number of rows, whatever fails and whenever the context ends.       *)
(* BatchWrites: for every limit of arguments, number of rows and number of *)
(* columns, and whatever the server refuses.  SqliteStatements: for any    *)
(* number of texts, rows, handles and statements and any arguments.        *)
(* QueryCache: for any number of goroutines that share the caches, any     *)
(* layouts of the struct and any uses of an application.                   *)
(***************************************************************************)
EXTENDS RowLoops, BatchWrites, SqliteStatements, QueryCache, InductionLemmas

-------------------------------------------------------------------------------
(* RowLoops.                                                               *)
(* The fields of a call. *)
IsLoop(l) ==
  l = [f |-> l.f, cap |-> l.cap, pc |-> l.pc, seen |-> l.seen, got |-> l.got, ended |-> l.ended,
       err |-> l.err]

Running == {"columns", "next", "row", "callback"}

(* Elements of the result before the first row, and the rows after it. *)
First(l) == IF l.f.header THEN 1 ELSE 0
Rows(l) == Len(l.got) - First(l)

LoopTypeInv ==
  /\ IsLoop(loop)
  /\ loop.f \in Functions /\ loop.cap \in Nat \cup {-1} /\ loop.seen \in Nat
  /\ loop.pc \in Running \cup {"idle", "closing", "returned"}
  /\ loop.got \in Seq(Nat)
  /\ loop.cap >= 0 => loop.f.capped

(* Where the rows are, and that nothing failed yet but the query. *)
LoopPlaceInv ==
  /\ loop.pc = "idle" => faults = {}
  /\ loop.pc = "returned" => rows # "open"
  /\ rows = "error" => loop.pc \notin {"row", "callback"}
  /\ loop.pc \in Running => loop.err = {} /\ faults = (IF rows = "error" THEN {"query"} ELSE {})
  /\ loop.pc = "closing" => faults \subseteq loop.err
  /\ "max" \in loop.err => loop.cap >= 0
  /\ (loop.pc = "closing" /\ "noRows" \in loop.err) =>
       faults = {} /\ loop.ended /\ rows # "open" /\ (~loop.f.many => loop.seen = 0)

(* How many rows were read and taken at each place. *)
CountInv ==
  /\ loop.pc = "columns" => loop.got = <<>> /\ loop.seen \in {0, 1} /\ ~loop.ended
  /\ (loop.pc = "columns" /\ loop.seen = 1) => ~loop.f.header
  /\ loop.pc \in {"next", "row", "callback"} => Len(loop.got) >= First(loop) /\ ~loop.ended
  /\ (loop.pc = "next" /\ ~loop.f.many) => loop.seen = 0
  /\ loop.pc = "callback" => loop.f.calls
  /\ loop.pc \in {"next", "callback"} => loop.seen = Rows(loop)
  /\ loop.pc = "row" => loop.seen = Rows(loop) + 1

(* What was taken is a beginning of the rows, no more than the cap. *)
ResultInv ==
  /\ \A i \in 1..Len(loop.got) : i > First(loop) => loop.got[i] = i - First(loop)
  /\ loop.cap >= 0 => Rows(loop) <= loop.cap
  /\ "max" \in loop.err => Rows(loop) = loop.cap /\ loop.seen > Rows(loop)
  /\ (loop.pc \in {"closing", "returned"} /\ loop.f.many /\ loop.err = {} /\ loop.got # <<>>) =>
       loop.ended /\ Rows(loop) = loop.seen

LoopInv == LoopTypeInv /\ LoopPlaceInv /\ CountInv /\ ResultInv /\ FailuresAreReported

-------------------------------------------------------------------------------
(* What the functions have in common. *)
Sound(f) ==
  /\ f.calls => f.many
  /\ f.default => ~f.many
  /\ f.header => f.many /\ f.columns = "first"
  /\ f.capped => f.many
  /\ f.columns \in {"first", "afterNext", "never"}
  /\ f.columns = "afterNext" => ~f.many /\ ~f.header

(* The functions are sound. *)
LEMMA FunctionFacts == \A f \in Functions : Sound(f)
<1>1. Sound(RowScan)
  BY DEF RowScan, Shape, Sound
<1>2. Sound(RowScanStrings)
  BY DEF RowScanStrings, Shape, Sound
<1>3. Sound(QueryRowAs)
  BY DEF QueryRowAs, Shape, Sound
<1>4. Sound(QueryRowAsOr)
  BY DEF QueryRowAsOr, QueryRowAs, Shape, Sound
<1>5. Sound(QueryRowAsMap)
  BY DEF QueryRowAsMap, Shape, Sound
<1>6. Sound(QueryRowsAsMapSlice)
  BY DEF QueryRowsAsMapSlice, Shape, Sound
<1>7. Sound(QueryRowsAsSlice)
  BY DEF QueryRowsAsSlice, Shape, Sound
<1>8. Sound(QueryRowsAsStrings)
  BY DEF QueryRowsAsStrings, Shape, Sound
<1>9. Sound(QueryStructCallback)
  BY DEF QueryStructCallback, Shape, Sound
<1>10. Sound(QueryCallback)
  BY DEF QueryCallback, Shape, Sound
<1> QED
  BY <1>1, <1>2, <1>3, <1>4, <1>5, <1>6, <1>7, <1>8, <1>9, <1>10 DEF Functions

(* The invariant holds before the first call. *)
LEMMA InitLoopInv == LoopInit => LoopInv
BY DEF LoopInit, LoopInv, LoopTypeInv, LoopPlaceInv, CountInv, ResultInv, FailuresAreReported, NoLoop, IsLoop, Running,
       First, Rows, Functions, QueryRowAs, Shape
(* The step fails with e and goes on to the deferred Close. *)
LEMMA LoopFailStep ==
  ASSUME LoopInv, loop.pc \in Running,
         NEW e, e # "noRows", rows = "error" => e = "query",
         e = "max" => loop.cap >= 0 /\ Rows(loop) = loop.cap /\ loop.seen > Rows(loop),
         FailWith(e), rows' = "error" => rows = "error"
  PROVE  LoopInv'
<1>1. loop' = [f |-> loop.f, cap |-> loop.cap, pc |-> "closing", seen |-> loop.seen, got |-> loop.got,
               ended |-> loop.ended, err |-> {e}]
  BY DEF LoopInv, LoopTypeInv, IsLoop, FailWith
<1> DEFINE l == [f |-> loop.f, cap |-> loop.cap, pc |-> "closing", seen |-> loop.seen, got |-> loop.got,
                 ended |-> loop.ended, err |-> {e}]
<1>2. /\ l.f = loop.f /\ l.cap = loop.cap /\ l.pc = "closing" /\ l.seen = loop.seen /\ l.got = loop.got
      /\ l.ended = loop.ended /\ l.err = {e} /\ IsLoop(l)
  BY DEF IsLoop
<1>3. loop' = l
  BY <1>1
<1> HIDE DEF l
<1>4. faults' = faults \cup {e} /\ faults \subseteq {e}
  BY DEF FailWith, LoopInv, LoopPlaceInv
<1>5. LoopTypeInv'
  BY <1>2, <1>3 DEF LoopInv, LoopTypeInv
<1>6. LoopPlaceInv'
  BY <1>2, <1>3, <1>4 DEF LoopPlaceInv, Running
<1>7. CountInv'
  BY <1>2, <1>3 DEF CountInv
<1>8. ResultInv'
  BY <1>2, <1>3 DEF LoopInv, ResultInv, Rows, First
<1>9. FailuresAreReported'
  BY <1>2, <1>3 DEF FailuresAreReported
<1> QED
  BY <1>5, <1>6, <1>7, <1>8, <1>9 DEF LoopInv

(* The look at the columns. *)
LEMMA ReadColumnsStep ==
  ASSUME LoopInv, ReadColumns
  PROVE  LoopInv'
<1>0. loop.pc = "columns" /\ loop.f \in Functions /\ Sound(loop.f) /\ loop.got = <<>> /\ rows' = rows
  BY FunctionFacts DEF ReadColumns, LoopInv, CountInv, LoopTypeInv
<1>a. loop.pc \in Running
  BY <1>0 DEF Running
<1>1. CASE /\ rows = "open" /\ faults' = faults
           /\ loop' = [loop EXCEPT !.pc = IF @ = "columns" /\ loop.seen = 0 THEN "next" ELSE "row",
                                   !.got = IF loop.f.header THEN <<0>> ELSE <<>>]
  <2> DEFINE l == [f |-> loop.f, cap |-> loop.cap,
                   pc |-> (IF loop.seen = 0 THEN "next" ELSE "row"),
                   seen |-> loop.seen, got |-> (IF loop.f.header THEN <<0>> ELSE <<>>),
                   ended |-> loop.ended, err |-> loop.err]
  <2>1. loop' = l
    BY <1>0, <1>1 DEF LoopInv, LoopTypeInv, IsLoop
  <2>2. /\ l.f = loop.f /\ l.cap = loop.cap
        /\ l.pc = (IF loop.seen = 0 THEN "next" ELSE "row")
        /\ l.seen = loop.seen /\ l.got = (IF loop.f.header THEN <<0>> ELSE <<>>)
        /\ l.ended = loop.ended /\ l.err = loop.err /\ IsLoop(l)
    BY DEF IsLoop
  <2> HIDE DEF l
  <2>3. LoopTypeInv'
    BY <2>1, <2>2, <1>0 DEF LoopInv, LoopTypeInv, Running
  <2>4. LoopPlaceInv'
    BY <2>1, <2>2, <1>0, <1>1 DEF LoopInv, LoopPlaceInv, LoopTypeInv, CountInv, Running
  <2>5. CountInv'
    BY <2>1, <2>2, <1>0 DEF LoopInv, CountInv, LoopTypeInv, Rows, First
  <2>6. ResultInv'
    BY <2>1, <2>2, <1>0 DEF LoopInv, ResultInv, LoopPlaceInv, CountInv, LoopTypeInv, Running, Rows, First
  <2>7. FailuresAreReported'
    BY <2>1, <2>2, <1>0 DEF FailuresAreReported
  <2> QED
    BY <2>3, <2>4, <2>5, <2>6, <2>7 DEF LoopInv
<1>2. CASE rows = "open" /\ FailWith("columns")
  BY <1>2, <1>0, <1>a, LoopFailStep
<1>3. CASE rows # "open" /\ FailWith(RowsError)
  BY <1>3, <1>0, <1>a, LoopFailStep DEF RowsError
<1>4. CASE /\ rows # "open" /\ faults' = faults \cup {RowsError}
           /\ loop' = [loop EXCEPT !.pc = "returned", !.err = {RowsError}]
  <2> DEFINE l == [f |-> loop.f, cap |-> loop.cap, pc |-> "returned", seen |-> loop.seen, got |-> loop.got,
                   ended |-> loop.ended, err |-> {RowsError}]
  <2>1. loop' = l
    BY <1>0, <1>4 DEF LoopInv, LoopTypeInv, IsLoop
  <2>2. /\ l.f = loop.f /\ l.cap = loop.cap /\ l.pc = "returned" /\ l.seen = loop.seen /\ l.got = loop.got
        /\ l.ended = loop.ended /\ l.err = {RowsError} /\ IsLoop(l)
    BY DEF IsLoop
  <2>8. faults' = {RowsError} /\ RowsError \notin {"max", "noRows"}
    BY <1>a, <1>4 DEF LoopInv, LoopPlaceInv, RowsError
  <2> HIDE DEF l
  <2>3. LoopTypeInv'
    BY <2>1, <2>2, <1>0, <1>4, <2>8 DEF LoopInv, LoopTypeInv, Running
  <2>4. LoopPlaceInv'
    BY <2>1, <2>2, <1>0, <1>4, <2>8 DEF LoopInv, LoopPlaceInv, LoopTypeInv, CountInv, Running
  <2>5. CountInv'
    BY <2>1, <2>2, <1>0, <1>4, <2>8 DEF LoopInv, CountInv, LoopTypeInv, Rows, First
  <2>6. ResultInv'
    BY <2>1, <2>2, <1>0, <1>4, <2>8 DEF LoopInv, ResultInv, LoopPlaceInv, CountInv, LoopTypeInv, Running, Rows, First
  <2>7. FailuresAreReported'
    BY <2>1, <2>2, <1>0, <1>4, <2>8 DEF FailuresAreReported
  <2> QED
    BY <2>3, <2>4, <2>5, <2>6, <2>7 DEF LoopInv
<1> QED
  BY <1>0, <1>1, <1>2, <1>3, <1>4 DEF ReadColumns

(* A step that takes no row keeps what was taken. *)
LEMMA ResultKept ==
  ASSUME ResultInv, loop'.got = loop.got, loop'.cap = loop.cap, loop'.f = loop.f,
         "max" \notin loop'.err, loop'.pc # "returned",
         loop'.pc = "closing" => loop'.ended /\ Rows(loop) = loop'.seen
  PROVE  ResultInv'
<1>1. Rows(loop)' = Rows(loop) /\ First(loop)' = First(loop)
  BY DEF Rows, First
<1> QED
  BY <1>1 DEF ResultInv

(* The end of the rows. *)
LEMMA AtEndStep ==
  ASSUME LoopInv, loop.pc = "next", rows = "open", rows' = "closed", loop' = AtEnd(loop), faults' = faults
  PROVE  LoopInv'
<1>0. loop.f \in Functions /\ Sound(loop.f)
  BY FunctionFacts DEF LoopInv, LoopTypeInv
<1>1. CASE loop.f.many
  <2> DEFINE l == [f |-> loop.f, cap |-> loop.cap, pc |-> "closing", seen |-> loop.seen, got |-> loop.got,
                   ended |-> TRUE, err |-> loop.err]
  <2>1. loop' = l
    BY <1>1 DEF LoopInv, LoopTypeInv, IsLoop, AtEnd
  <2>2. /\ l.f = loop.f /\ l.cap = loop.cap /\ l.pc = "closing" /\ l.seen = loop.seen /\ l.got = loop.got
        /\ l.ended = TRUE /\ l.err = loop.err /\ IsLoop(l)
    BY DEF IsLoop
  <2> HIDE DEF l
  <2>3. LoopTypeInv'
    BY <2>1, <2>2, <1>0, <1>1 DEF LoopInv, LoopTypeInv, Running
  <2>4. LoopPlaceInv'
    BY <2>1, <2>2, <1>1, <1>0 DEF LoopInv, LoopPlaceInv, LoopTypeInv, CountInv, Running
  <2>5. CountInv'
    BY <2>1, <2>2, <1>0, <1>1 DEF LoopInv, CountInv, LoopTypeInv, Rows, First
  <2>6. ResultInv'
    <3>1. loop.err = {} /\ loop.seen = Rows(loop) /\ ResultInv
      BY DEF LoopInv, LoopPlaceInv, CountInv, Running
    <3> QED
      BY <2>1, <2>2, <3>1, ResultKept
  <2>7. FailuresAreReported'
    BY <2>1, <2>2, <1>0, <1>1 DEF FailuresAreReported
  <2> QED
    BY <2>3, <2>4, <2>5, <2>6, <2>7 DEF LoopInv
<1>2. CASE ~loop.f.many
  <2> DEFINE l == [f |-> loop.f, cap |-> loop.cap, pc |-> "closing", seen |-> loop.seen, got |-> loop.got,
                   ended |-> TRUE, err |-> {"noRows"}]
  <2>1. loop' = l
    BY <1>2 DEF LoopInv, LoopTypeInv, IsLoop, AtEnd
  <2>2. /\ l.f = loop.f /\ l.cap = loop.cap /\ l.pc = "closing" /\ l.seen = loop.seen /\ l.got = loop.got
        /\ l.ended = TRUE /\ l.err = {"noRows"} /\ IsLoop(l)
    BY DEF IsLoop
  <2> HIDE DEF l
  <2>3. LoopTypeInv'
    BY <2>1, <2>2, <1>0, <1>2 DEF LoopInv, LoopTypeInv, Running
  <2>4. LoopPlaceInv'
    BY <2>1, <2>2, <1>2, <1>0 DEF LoopInv, LoopPlaceInv, LoopTypeInv, CountInv, Running
  <2>5. CountInv'
    BY <2>1, <2>2, <1>0, <1>2 DEF LoopInv, CountInv, LoopTypeInv, Rows, First
  <2>8. "max" \notin loop'.err /\ loop'.err # {}
    BY <2>1, <2>2
  <2>9. loop'.f = loop.f /\ loop'.got = loop.got /\ loop'.cap = loop.cap
    BY <2>1, <2>2
  <2>6. ResultInv'
    BY <2>8, <2>9 DEF LoopInv, ResultInv, Rows, First
  <2>7. FailuresAreReported'
    BY <2>1, <2>2, <1>0, <1>2 DEF FailuresAreReported
  <2> QED
    BY <2>3, <2>4, <2>5, <2>6, <2>7 DEF LoopInv
<1> QED
  BY <1>1, <1>2

(* Next, and what it says after the last row. *)
LEMMA FetchRowStep ==
  ASSUME LoopInv, FetchRow
  PROVE  LoopInv'
<1>0. loop.pc = "next" /\ loop.f \in Functions /\ Sound(loop.f)
  BY FunctionFacts DEF FetchRow, LoopInv, LoopTypeInv
<1>a. loop.pc \in Running
  BY <1>0 DEF Running
<1>1. CASE /\ rows = "open" /\ rows' = rows /\ faults' = faults
           /\ loop' = [loop EXCEPT !.seen = @ + 1,
                                   !.pc = IF loop.f.columns = "afterNext" THEN "columns" ELSE "row"]
  <2> DEFINE l == [f |-> loop.f, cap |-> loop.cap,
                   pc |-> (IF loop.f.columns = "afterNext" THEN "columns" ELSE "row"),
                   seen |-> loop.seen + 1, got |-> loop.got,
                   ended |-> loop.ended, err |-> loop.err]
  <2>1. loop' = l
    BY <1>0, <1>1 DEF LoopInv, LoopTypeInv, IsLoop
  <2>2. /\ l.f = loop.f /\ l.cap = loop.cap
        /\ l.pc = (IF loop.f.columns = "afterNext" THEN "columns" ELSE "row")
        /\ l.seen = loop.seen + 1 /\ l.got = loop.got
        /\ l.ended = loop.ended /\ l.err = loop.err /\ IsLoop(l)
    BY DEF IsLoop
  <2>8. ASSUME loop.f.columns = "afterNext"
        PROVE  loop.got = <<>> /\ loop.seen = 0 /\ ~loop.f.header
    <3>1. ~loop.f.many /\ ~loop.f.header
      BY <1>0, <2>8 DEF Sound
    <3>2. loop.seen = 0 /\ loop.seen = Len(loop.got) - 0
      BY <1>0, <3>1 DEF LoopInv, CountInv, Rows, First
    <3>3. loop.got \in Seq(Nat) /\ Len(loop.got) = 0
      BY <3>2 DEF LoopInv, LoopTypeInv
    <3> QED
      BY <3>1, <3>2, <3>3
  <2> HIDE DEF l
  <2>3. LoopTypeInv'
    BY <2>1, <2>2, <1>0, <2>8 DEF LoopInv, LoopTypeInv, Running
  <2>4. LoopPlaceInv'
    BY <2>1, <2>2, <1>0, <1>1, <2>8 DEF LoopInv, LoopPlaceInv, LoopTypeInv, CountInv, Running
  <2>9. /\ loop.seen \in Nat /\ loop.seen = Rows(loop) /\ ~loop.ended
        /\ Rows(loop)' = Rows(loop) /\ First(loop)' = First(loop) /\ Len(loop'.got) >= First(loop)
        /\ loop'.seen = loop.seen + 1 /\ ~loop'.ended
    BY <2>1, <2>2, <1>0 DEF LoopInv, LoopTypeInv, CountInv, Rows, First
  <2>5. CountInv'
    <3>1. CASE loop.f.columns = "afterNext"
      <4>1. loop'.pc = "columns" /\ loop'.got = <<>> /\ loop'.seen = 1 /\ ~loop'.f.header
        BY <3>1, <2>1, <2>2, <2>8
      <4> QED
        BY <4>1, <2>9 DEF CountInv
    <3>2. CASE loop.f.columns # "afterNext"
      <4>1. loop'.pc = "row"
        BY <3>2, <2>1, <2>2
      <4> QED
        BY <4>1, <2>9 DEF CountInv
    <3> QED
      BY <3>1, <3>2
  <2>6. ResultInv'
    <3>1. loop.err = {} /\ ResultInv
      BY <1>0 DEF LoopInv, LoopPlaceInv, Running
    <3>2. loop'.pc \in {"columns", "row"}
      BY <2>1, <2>2
    <3> QED
      BY <2>1, <2>2, <3>1, <3>2, ResultKept
  <2>7. FailuresAreReported'
    BY <2>1, <2>2, <1>0, <2>8 DEF FailuresAreReported
  <2> QED
    BY <2>3, <2>4, <2>5, <2>6, <2>7 DEF LoopInv
<1>2. CASE rows = "open" /\ rows' = "closed" /\ loop' = AtEnd(loop) /\ faults' = faults
  BY <1>0, <1>2, AtEndStep
<1>3. CASE rows = "open" /\ rows' = "closed" /\ FailWith("next")
  BY <1>3, <1>a, LoopFailStep
<1>4. CASE rows # "open" /\ FailWith(RowsError) /\ rows' = rows
  BY <1>4, <1>a, LoopFailStep DEF RowsError
<1> QED
  BY <1>1, <1>2, <1>3, <1>4 DEF FetchRow

(* A row is taken, or the cap, the context or Scan ends the loop. *)
LEMMA TakeRowStep ==
  ASSUME LoopInv, TakeRow
  PROVE  LoopInv'
<1>0. /\ loop.pc = "row" /\ loop.pc \in Running /\ loop.f \in Functions /\ Sound(loop.f) /\ rows' = rows
      /\ rows # "error" /\ loop.err = {} /\ faults = {}
  BY FunctionFacts DEF TakeRow, LoopInv, LoopTypeInv, LoopPlaceInv, Running
<1>a. /\ loop.got \in Seq(Nat) /\ Len(loop.got) \in Nat /\ loop.seen \in Nat /\ loop.cap \in Nat \cup {-1}
      /\ First(loop) \in {0, 1}
  BY DEF LoopInv, LoopTypeInv, First
<1>b. Taken(loop) = Rows(loop)
  BY <1>a DEF Taken, Rows, First
<1>c. /\ loop.seen = Rows(loop) + 1 /\ Len(loop.got) >= First(loop) /\ ~loop.ended
      /\ loop.cap >= 0 => Rows(loop) <= loop.cap
  BY <1>0 DEF LoopInv, CountInv, ResultInv
<1>1. CASE loop.cap >= 0 /\ Taken(loop) >= loop.cap /\ FailWith("max")
  <2>1. Rows(loop) = loop.cap /\ loop.seen > Rows(loop)
    BY <1>a, <1>b, <1>c, <1>1 DEF Rows
  <2> QED
    BY <1>0, <1>1, <2>1, LoopFailStep
<1>2. CASE FailWith("ctx") \/ FailWith("scan")
  BY <1>0, <1>2, LoopFailStep
<1>3. CASE /\ ~(loop.cap >= 0 /\ Taken(loop) >= loop.cap) /\ faults' = faults
           /\ loop' = [loop EXCEPT !.got = Append(@, loop.seen),
                                   !.pc = IF loop.f.calls THEN "callback"
                                          ELSE IF loop.f.many THEN "next" ELSE "closing"]
  <2> DEFINE l == [f |-> loop.f, cap |-> loop.cap,
                   pc |-> (IF loop.f.calls THEN "callback" ELSE IF loop.f.many THEN "next" ELSE "closing"),
                   seen |-> loop.seen, got |-> Append(loop.got, loop.seen),
                   ended |-> loop.ended, err |-> loop.err]
  <2>1. loop' = l
    BY <1>0, <1>3 DEF LoopInv, LoopTypeInv, IsLoop
  <2>2. /\ l.f = loop.f /\ l.cap = loop.cap
        /\ l.pc = (IF loop.f.calls THEN "callback" ELSE IF loop.f.many THEN "next" ELSE "closing")
        /\ l.seen = loop.seen /\ l.got = Append(loop.got, loop.seen)
        /\ l.ended = loop.ended /\ l.err = loop.err /\ IsLoop(l)
    BY DEF IsLoop
  <2> HIDE DEF l
  <2>3. LoopTypeInv'
    BY <2>1, <2>2, <1>0, <1>a, <1>b, <1>c DEF LoopInv, LoopTypeInv, Running
  <2>4. LoopPlaceInv'
    BY <2>1, <2>2, <1>0, <1>3 DEF LoopPlaceInv, Running
  <2>8. /\ Len(loop'.got) = Len(loop.got) + 1 /\ First(loop') = First(loop) /\ Rows(loop') = loop.seen
        /\ loop'.seen = loop.seen /\ ~loop'.ended /\ loop'.f = loop.f /\ loop'.cap = loop.cap /\ loop'.err = {}
        /\ loop'.got = Append(loop.got, loop.seen)
    BY <2>1, <2>2, <1>0, <1>a, <1>b, <1>c DEF Rows, First
  <2>9. /\ loop'.pc \in {"callback", "next", "closing"}
        /\ loop'.pc = "callback" => loop.f.calls
        /\ loop'.pc = "next" => loop.f.many
        /\ loop'.pc = "closing" => ~loop.f.many
    BY <2>1, <2>2, <1>0 DEF Sound
  <2>5. CountInv'
    BY <2>8, <2>9, <1>a, <1>b, <1>c DEF CountInv
  <2>6. ResultInv'
    <3>1. ASSUME NEW i \in 1..Len(loop'.got), i > First(loop')
          PROVE  loop'.got[i] = i - First(loop')
      <4>1. CASE i = Len(loop.got) + 1
        BY <4>1, <2>8, <1>a, <1>b, <1>c DEF Rows
      <4>2. CASE i \in 1..Len(loop.got)
        <5>1. loop'.got[i] = loop.got[i]
          BY <4>2, <2>8, <1>a, <1>b, <1>c
        <5> QED
          BY <5>1, <4>2, <3>1, <2>8, <1>a, <1>b, <1>c DEF LoopInv, ResultInv
      <4> QED
        BY <4>1, <4>2, <2>8, <1>a, <1>b, <1>c
    <3>2. loop'.cap >= 0 => Rows(loop') <= loop'.cap
      BY <2>8, <1>a, <1>b, <1>c, <1>3 DEF Rows
    <3> QED
      BY <3>1, <3>2, <2>8, <2>9 DEF ResultInv
  <2>7. FailuresAreReported'
    BY <2>9 DEF FailuresAreReported
  <2> QED
    BY <2>3, <2>4, <2>5, <2>6, <2>7 DEF LoopInv
<1> QED
  BY <1>1, <1>2, <1>3 DEF TakeRow

(* The callback returns. *)
LEMMA CallbackStep ==
  ASSUME LoopInv, CallbackReturns
  PROVE  LoopInv'
<1>0. /\ loop.pc = "callback" /\ loop.pc \in Running /\ loop.f \in Functions /\ Sound(loop.f) /\ rows' = rows
      /\ rows # "error" /\ loop.err = {} /\ faults = {} /\ loop.f.calls /\ loop.f.many
  BY FunctionFacts DEF CallbackReturns, LoopInv, LoopTypeInv, LoopPlaceInv, CountInv, Running, Sound
<1>1. CASE FailWith("callback")
  BY <1>0, <1>1, LoopFailStep
<1>2. CASE loop' = [loop EXCEPT !.pc = "next"] /\ faults' = faults
  <2> DEFINE l == [f |-> loop.f, cap |-> loop.cap, pc |-> "next", seen |-> loop.seen, got |-> loop.got,
                   ended |-> loop.ended, err |-> loop.err]
  <2>1. loop' = l
    BY <1>0, <1>2 DEF LoopInv, LoopTypeInv, IsLoop
  <2>2. /\ l.f = loop.f /\ l.cap = loop.cap /\ l.pc = "next" /\ l.seen = loop.seen /\ l.got = loop.got
        /\ l.ended = loop.ended /\ l.err = loop.err /\ IsLoop(l)
    BY DEF IsLoop
  <2> HIDE DEF l
  <2>3. LoopTypeInv'
    BY <2>1, <2>2, <1>0 DEF LoopInv, LoopTypeInv, Running
  <2>4. LoopPlaceInv'
    BY <2>1, <2>2, <1>0, <1>2 DEF LoopInv, LoopPlaceInv, LoopTypeInv, CountInv, Running
  <2>5. CountInv'
    BY <2>1, <2>2, <1>0 DEF LoopInv, CountInv, LoopTypeInv, Rows, First
  <2>6. ResultInv'
    <3>1. ResultInv
      BY DEF LoopInv
    <3> QED
      BY <1>0, <2>1, <2>2, <3>1, ResultKept
  <2>7. FailuresAreReported'
    BY <2>1, <2>2, <1>0 DEF FailuresAreReported
  <2> QED
    BY <2>3, <2>4, <2>5, <2>6, <2>7 DEF LoopInv
<1> QED
  BY <1>1, <1>2 DEF CallbackReturns

(* The deferred Close. *)
LEMMA CloseRowsStep ==
  ASSUME LoopInv, CloseRows
  PROVE  LoopInv'
<1>0. loop.pc = "closing" /\ loop.f \in Functions /\ Sound(loop.f) /\ rows' # "open"
  BY FunctionFacts DEF CloseRows, LoopInv, LoopTypeInv
<1>1. PICK e : /\ e = loop.err \/ e = loop.err \cup {"close"}
               /\ loop' = Returned(loop, e)
               /\ faults' \subseteq e /\ faults' \subseteq faults \cup {"close"}
  <2>0. faults \subseteq loop.err
    BY <1>0 DEF LoopInv, LoopPlaceInv
  <2>1. CASE loop' = Returned(loop, loop.err) /\ faults' = faults
    BY <2>0, <2>1
  <2>2. CASE loop' = Returned(loop, loop.err \cup {"close"}) /\ faults' = faults \cup {"close"}
    BY <2>0, <2>2
  <2> QED
    BY <2>1, <2>2 DEF CloseRows
<1> DEFINE hidden == loop.f.default /\ "noRows" \in e
           err == IF hidden THEN {} ELSE e
           got == IF ~loop.f.many /\ e # {} THEN <<>> ELSE loop.got
<1> DEFINE l == [f |-> loop.f, cap |-> loop.cap, pc |-> "returned", seen |-> loop.seen, got |-> got,
                 ended |-> loop.ended, err |-> err]
<1>2. loop' = l
  BY <1>1 DEF LoopInv, LoopTypeInv, IsLoop, Returned
<1>3. /\ l.f = loop.f /\ l.cap = loop.cap /\ l.pc = "returned" /\ l.seen = loop.seen /\ l.got = got
      /\ l.ended = loop.ended /\ l.err = err /\ IsLoop(l)
  BY DEF IsLoop
<1> HIDE DEF l
<1>4. /\ "max" \in e => "max" \in loop.err
      /\ "noRows" \in e => "noRows" \in loop.err
      /\ e = {} => loop.err = {}
      /\ faults' \subseteq e
  BY <1>0, <1>1 DEF LoopInv, LoopPlaceInv
<1>5. /\ hidden => loop.f.default /\ ~loop.f.many /\ "noRows" \in loop.err /\ faults = {}
                  /\ loop.ended /\ loop.seen = 0
      /\ hidden => faults' \subseteq {"close"}
  BY <1>0, <1>1, <1>4 DEF LoopInv, LoopPlaceInv, Sound
<1>6. loop.f.many => ~hidden /\ got = loop.got
  BY <1>0 DEF Sound
<1>7. ~loop.f.many => First(loop) = 0 /\ ~(loop.cap >= 0)
  BY <1>0 DEF Sound, First, LoopInv, LoopTypeInv
<1>8. /\ got = loop.got \/ (~loop.f.many /\ got = <<>>)
      /\ err = {} \/ err = e
      /\ got \in Seq(Nat)
  <2>1. loop.got \in Seq(Nat) /\ <<>> \in Seq(Nat)
    BY DEF LoopInv, LoopTypeInv
  <2> QED
    BY <2>1
<1> HIDE DEF hidden, err, got
<1>9. LoopTypeInv'
  BY <1>2, <1>3, <1>8 DEF LoopInv, LoopTypeInv, Running
<1>10. LoopPlaceInv'
  BY <1>0, <1>2, <1>3, <1>4, <1>8 DEF LoopInv, LoopPlaceInv, Running
<1>11. CountInv'
  BY <1>2, <1>3 DEF CountInv
<1>12. ResultInv'
  <2>1. CASE loop.f.many
    <3>1. loop'.got = loop.got /\ loop'.err = e /\ First(loop') = First(loop) /\ Rows(loop') = Rows(loop)
      BY <2>1, <1>2, <1>3, <1>6, <1>8 DEF First, Rows, err
    <3> QED
      BY <2>1, <3>1, <1>0, <1>2, <1>3, <1>4 DEF LoopInv, ResultInv
  <2>2. CASE ~loop.f.many
    <3>1. "max" \notin loop'.err
      BY <2>2, <1>2, <1>3, <1>4, <1>7, <1>8 DEF LoopInv, LoopPlaceInv
    <3>2. ~loop'.f.many /\ ~(loop'.cap >= 0) /\ First(loop') = 0
      BY <2>2, <1>2, <1>3, <1>7 DEF First
    <3>3. \A i \in 1..Len(loop'.got) : i > First(loop') => loop'.got[i] = i - First(loop')
      <4>1. CASE loop'.got = loop.got
        BY <4>1, <3>2, <1>7, <2>2 DEF LoopInv, ResultInv
      <4>2. CASE loop'.got = <<>>
        BY <4>2
      <4> QED
        BY <4>1, <4>2, <1>2, <1>3, <1>8
    <3> QED
      BY <3>1, <3>2, <3>3 DEF ResultInv
  <2> QED
    BY <2>1, <2>2
<1>13. FailuresAreReported'
  <2>1. CASE hidden
    BY <2>1, <1>2, <1>3, <1>5 DEF FailuresAreReported
  <2>2. CASE ~hidden
    BY <2>2, <1>2, <1>3, <1>4 DEF FailuresAreReported, err
  <2> QED
    BY <2>1, <2>2
<1> QED
  BY <1>9, <1>10, <1>11, <1>12, <1>13 DEF LoopInv

(* A call begins without a result; its query may have failed. *)
LEMMA CallFunctionStep ==
  ASSUME LoopInv, NEW f \in Functions, NEW cap \in Caps, CallFunction(f, cap)
  PROVE  LoopInv'
<1>0. Sound(f) /\ cap \in Int
  BY FunctionFacts, RowLoopsAssumption
<1> DEFINE l == [f |-> f, cap |-> CapOfCall(f, cap), pc |-> (IF f.columns = "first" THEN "columns" ELSE "next"),
                 seen |-> 0, got |-> <<>>, ended |-> FALSE, err |-> {}]
<1>1. loop' = l
  BY DEF CallFunction, NoLoop
<1>2. /\ l.f = f /\ l.cap = CapOfCall(f, cap) /\ l.pc = (IF f.columns = "first" THEN "columns" ELSE "next")
      /\ l.seen = 0 /\ l.got = <<>> /\ l.ended = FALSE /\ l.err = {} /\ IsLoop(l)
  BY DEF IsLoop
<1> HIDE DEF l
<1>3. CapOfCall(f, cap) \in Nat \cup {-1} /\ (CapOfCall(f, cap) >= 0 => f.capped)
  BY <1>0 DEF CapOfCall, NormalCap
<1>4. rows' # "none" /\ faults' = (IF rows' = "error" THEN {"query"} ELSE {})
  <2>1. CASE rows' = "open" /\ faults' = faults
    <3>1. faults = {}
      BY DEF CallFunction, LoopInv, LoopPlaceInv
    <3> QED
      BY <2>1, <3>1
  <2>2. CASE rows' = "error" /\ faults' = {"query"}
    BY <2>2
  <2> QED
    BY <2>1, <2>2 DEF CallFunction
<1>5. LoopTypeInv'
  BY <1>1, <1>2, <1>3 DEF LoopTypeInv, Running
<1>6. LoopPlaceInv'
  BY <1>1, <1>2, <1>4 DEF LoopPlaceInv, Running
<1>7. First(l) \in {0, 1} /\ (f.columns # "first" => First(l) = 0) /\ Rows(l) = 0 - First(l) /\ Len(l.got) = 0
  BY <1>0, <1>2 DEF First, Rows, Sound
<1>8. CountInv'
  BY <1>1, <1>2, <1>7 DEF CountInv
<1>9. ResultInv'
  BY <1>1, <1>2, <1>3, <1>7 DEF ResultInv
<1>10. FailuresAreReported'
  BY <1>1, <1>2 DEF FailuresAreReported
<1> QED
  BY <1>5, <1>6, <1>8, <1>9, <1>10 DEF LoopInv

(* The invariant is inductive. *)
LEMMA StepLoopInv ==
  ASSUME LoopInv, [LoopNext]_loopVars
  PROVE  LoopInv'
<1>1. ASSUME NEW f \in Functions, NEW cap \in Caps, CallFunction(f, cap) PROVE LoopInv'
  BY <1>1, CallFunctionStep
<1>2. CASE ReadColumns
  BY <1>2, ReadColumnsStep
<1>3. CASE FetchRow
  BY <1>3, FetchRowStep
<1>4. CASE TakeRow
  BY <1>4, TakeRowStep
<1>5. CASE CallbackReturns
  BY <1>5, CallbackStep
<1>6. CASE CloseRows
  BY <1>6, CloseRowsStep
<1>7. CASE TakeResult
  BY <1>7 DEF TakeResult, LoopInv, LoopTypeInv, LoopPlaceInv, CountInv, ResultInv, FailuresAreReported, NoLoop, IsLoop,
              Running, First, Rows, Functions, QueryRowAs, Shape
<1>8. CASE ContextDone
  BY <1>8 DEF ContextDone, LoopInv, LoopTypeInv, LoopPlaceInv, CountInv, ResultInv, FailuresAreReported, IsLoop, First, Rows
<1>9. CASE DriverClosesRows
  <2>1. loop' = loop /\ faults' = faults /\ rows = "open" /\ rows' = "closed"
    BY <1>9 DEF DriverClosesRows
  <2>2. LoopTypeInv' /\ CountInv' /\ ResultInv' /\ FailuresAreReported'
    BY <2>1 DEF LoopInv, LoopTypeInv, CountInv, ResultInv, FailuresAreReported, IsLoop, First, Rows
  <2>3. LoopPlaceInv'
    BY <2>1 DEF LoopInv, LoopPlaceInv
  <2> QED
    BY <2>2, <2>3 DEF LoopInv
<1>10. CASE UNCHANGED loopVars
  BY <1>10 DEF loopVars, LoopInv, LoopTypeInv, LoopPlaceInv, CountInv, ResultInv, FailuresAreReported, IsLoop, First, Rows
<1> QED
  BY <1>1, <1>2, <1>3, <1>4, <1>5, <1>6, <1>7, <1>8, <1>9, <1>10 DEF LoopNext

(* So it is an invariant. *)
LEMMA LoopInvariant == LoopSpec => []LoopInv
<1> QED
  BY InitLoopInv, StepLoopInv, PTL DEF LoopSpec

(* Flags, the state of the rows, and rows as numbers up to MaxRows. *)
DataInv ==
  /\ expired \in BOOLEAN /\ rows \in {"none", "error", "open", "closed"}
  /\ loop.pc = "idle" <=> rows = "none"
  /\ loop.ended \in BOOLEAN
  /\ loop.seen \in 0..MaxRows
  /\ loop.got \in Seq(0..MaxRows)

(* No call. *)
LEMMA NoLoopFields ==
  NoLoop.pc = "idle" /\ NoLoop.ended = FALSE /\ NoLoop.seen \in 0..MaxRows /\ NoLoop.got \in Seq(0..MaxRows)
BY RowLoopsAssumption DEF NoLoop

(* They keep their types. *)
LEMMA StepDataInv ==
  ASSUME LoopInv, DataInv, [LoopNext]_loopVars
  PROVE  DataInv'
<1>0. IsLoop(loop) /\ MaxRows \in Nat
  BY RowLoopsAssumption DEF LoopInv, LoopTypeInv
<1>f. ASSUME NEW e, FailWith(e)
      PROVE  /\ loop'.pc = "closing" /\ loop'.ended = loop.ended /\ loop'.seen = loop.seen
             /\ loop'.got = loop.got
  BY <1>0, <1>f DEF FailWith, IsLoop
<1>1. ASSUME NEW f \in Functions, NEW cap \in Caps, CallFunction(f, cap) PROVE DataInv'
  <2> DEFINE pc == IF f.columns = "first" THEN "columns" ELSE "next"
  <2>1. loop' = [f |-> f, cap |-> CapOfCall(f, cap), pc |-> pc, seen |-> 0, got |-> <<>>,
                 ended |-> FALSE, err |-> {}]
    BY <1>1 DEF CallFunction, NoLoop
  <2>2. rows' \in {"open", "error"} /\ expired' = expired
    BY <1>1 DEF CallFunction
  <2> QED
    BY <1>0, <2>1, <2>2 DEF DataInv
<1>2. CASE ReadColumns
  <2>1. loop.pc = "columns" /\ rows' = rows /\ expired' = expired
    BY <1>2 DEF ReadColumns
  <2>2. loop'.pc # "idle" /\ loop'.ended = loop.ended /\ loop'.seen = loop.seen
        /\ loop'.got \in {loop.got, <<0>>, <<>>}
    BY <1>0, <1>2, <1>f DEF ReadColumns, IsLoop
  <2>3. <<0>> \in Seq(0..MaxRows) /\ <<>> \in Seq(0..MaxRows)
    BY <1>0
  <2> QED
    BY <2>1, <2>2, <2>3 DEF DataInv
<1>3. CASE FetchRow
  <2>1. loop.pc = "next" /\ expired' = expired /\ rows' \in {rows, "closed"}
    BY <1>3 DEF FetchRow
  <2>2. ASSUME rows = "open", loop.seen < MaxRows,
               loop' = [loop EXCEPT !.seen = @ + 1,
                                    !.pc = IF loop.f.columns = "afterNext" THEN "columns" ELSE "row"]
        PROVE  DataInv'
    <3>1. loop'.pc \in {"columns", "row"} /\ loop'.ended = loop.ended /\ loop'.got = loop.got
          /\ loop'.seen = loop.seen + 1
      BY <1>0, <2>2 DEF IsLoop
    <3> QED
      BY <1>0, <2>1, <2>2, <3>1 DEF DataInv
  <2>3. ASSUME loop' = AtEnd(loop) PROVE DataInv'
    <3>1. loop'.pc = "closing" /\ loop'.ended = TRUE /\ loop'.got = loop.got /\ loop'.seen = loop.seen
      BY <1>0, <2>3 DEF IsLoop, AtEnd
    <3> QED
      BY <2>1, <3>1 DEF DataInv
  <2>4. ASSUME NEW e, FailWith(e) PROVE DataInv'
    BY <1>f, <2>1, <2>4 DEF DataInv
  <2> QED
    BY <1>3, <2>2, <2>3, <2>4 DEF FetchRow
<1>4. CASE TakeRow
  <2>1. loop.pc = "row" /\ expired' = expired /\ rows' = rows
    BY <1>4 DEF TakeRow
  <2>2. ASSUME NEW e, FailWith(e) PROVE DataInv'
    BY <1>f, <2>1, <2>2 DEF DataInv
  <2>3. ASSUME loop' = [loop EXCEPT !.got = Append(@, loop.seen),
                                    !.pc = IF loop.f.calls THEN "callback"
                                           ELSE IF loop.f.many THEN "next" ELSE "closing"]
        PROVE  DataInv'
    <3>1. loop'.pc \in {"callback", "next", "closing"} /\ loop'.ended = loop.ended /\ loop'.seen = loop.seen
          /\ loop'.got = Append(loop.got, loop.seen)
      BY <1>0, <2>3 DEF IsLoop
    <3> QED
      BY <2>1, <3>1 DEF DataInv
  <2> QED
    BY <1>4, <2>2, <2>3 DEF TakeRow
<1>5. CASE CallbackReturns
  <2>1. loop.pc = "callback" /\ expired' = expired /\ rows' = rows
    BY <1>5 DEF CallbackReturns
  <2>2. loop'.pc \in {"next", "closing"} /\ loop'.ended = loop.ended /\ loop'.seen = loop.seen
        /\ loop'.got = loop.got
    BY <1>0, <1>5, <1>f DEF CallbackReturns, IsLoop
  <2> QED
    BY <2>1, <2>2 DEF DataInv
<1>6. CASE CloseRows
  <2>1. loop.pc = "closing" /\ expired' = expired /\ rows' \in {rows, "closed"}
    BY <1>6 DEF CloseRows
  <2>2. ASSUME NEW e, loop' = Returned(loop, e)
        PROVE  /\ loop'.pc = "returned" /\ loop'.ended = loop.ended /\ loop'.seen = loop.seen
               /\ loop'.got \in {loop.got, <<>>}
    BY <1>0, <2>2 DEF Returned, IsLoop
  <2>3. loop'.pc = "returned" /\ loop'.ended = loop.ended /\ loop'.seen = loop.seen
        /\ loop'.got \in {loop.got, <<>>}
    BY <1>6, <2>2 DEF CloseRows
  <2>4. <<>> \in Seq(0..MaxRows) /\ rows # "none"
    BY <2>1 DEF DataInv
  <2> QED
    BY <2>1, <2>3, <2>4 DEF DataInv
<1>7. CASE TakeResult
  BY <1>7, NoLoopFields DEF TakeResult, DataInv
<1>8. CASE ContextDone
  BY <1>8 DEF ContextDone, DataInv
<1>9. CASE DriverClosesRows
  BY <1>9 DEF DriverClosesRows, DataInv
<1>10. CASE UNCHANGED loopVars
  BY <1>10 DEF loopVars, DataInv
<1> QED
  BY <1>1, <1>2, <1>3, <1>4, <1>5, <1>6, <1>7, <1>8, <1>9, <1>10 DEF LoopNext

-------------------------------------------------------------------------------
(* The state of a call has its types, and it has rows exactly when there   *)
(* is a call.                                                              *)
THEOREM RowsTypeCorrect == LoopSpec => []RowsTypeOK
<1>1. LoopInit => DataInv
  BY NoLoopFields DEF LoopInit, DataInv
<1>2. LoopInv /\ DataInv /\ [LoopNext]_loopVars => DataInv'
  BY StepDataInv
<1>3. LoopInv /\ DataInv => RowsTypeOK
  BY DEF LoopInv, LoopTypeInv, Running, DataInv, RowsTypeOK
<1> QED
  BY <1>1, <1>2, <1>3, LoopInvariant, PTL DEF LoopSpec

(* No function returns while its rows are open, on any path: the session   *)
(* of a query is always given back.                                        *)
THEOREM RowsReleased == LoopSpec => []RowsReleasedOnReturn
<1>1. LoopInv => RowsReleasedOnReturn
  BY DEF LoopInv, LoopPlaceInv, RowsReleasedOnReturn
<1> QED
  BY <1>1, LoopInvariant, PTL

(* What failed during a call is in the error it returns, but for           *)
(* QueryRowAsOr without a row.                                             *)
THEOREM NothingIsHidden == LoopSpec => []FailuresAreReported
<1>1. LoopInv => FailuresAreReported
  BY DEF LoopInv
<1> QED
  BY <1>1, LoopInvariant, PTL

(* A result is a beginning of the rows of the query: all of them without   *)
(* an error, and as many as the cap with ErrMaxNumRowsExceeded.            *)
THEOREM ResultsAreBeginnings == LoopSpec => []ResultIsABeginning
<1>1. ASSUME LoopInv PROVE ResultIsABeginning
  <2> SUFFICES ASSUME loop.pc = "returned", loop.got # <<>>
               PROVE  /\ \A i \in 1..Rows(loop) : loop.got[First(loop) + i] = i
                      /\ loop.cap >= 0 => Rows(loop) <= loop.cap
                      /\ "max" \in loop.err => Rows(loop) = loop.cap /\ loop.seen > Rows(loop)
                      /\ (loop.f.many /\ loop.err = {}) => loop.ended /\ Rows(loop) = loop.seen
    BY DEF ResultIsABeginning, Rows, First
  <2>1. ASSUME NEW i \in 1..Rows(loop)
        PROVE  loop.got[First(loop) + i] = i
    <3>1. Len(loop.got) \in Nat /\ First(loop) \in {0, 1}
      BY <1>1 DEF LoopInv, LoopTypeInv, First
    <3>2. First(loop) + i \in 1..Len(loop.got) /\ First(loop) + i > First(loop)
      BY <2>1, <3>1 DEF Rows
    <3>3. loop.got[First(loop) + i] = (First(loop) + i) - First(loop)
      BY <1>1, <3>2 DEF LoopInv, ResultInv
    <3> QED
      BY <3>1, <3>3
  <2> QED
    BY <1>1, <2>1 DEF LoopInv, ResultInv
<1> QED
  BY <1>1, LoopInvariant, PTL

-------------------------------------------------------------------------------
(* BatchWrites.                                                            *)
IsWrite(w) ==
  w = [op |-> w.op, n |-> w.n, cols |-> w.cols, pc |-> w.pc, batch |-> w.batch, err |-> w.err]

(* The call could be divided into batches. *)
Divided(w) ==
  /\ BatchSize(w) \in Nat \ {0} /\ FullBatches(w) \in Nat /\ RemainderRows(w) \in Nat
  /\ w.n = FullBatches(w) * BatchSize(w) + RemainderRows(w)
  /\ RemainderRows(w) < BatchSize(w)
  /\ (w.op.batched /\ w.n > 1) => BatchSize(w) * w.cols \in 1 .. MaxArgs

(* Rows sent after the batches that are done. *)
Progress(w) == IF w.batch <= FullBatches(w) THEN w.batch * BatchSize(w) ELSE w.n

(* Batches that are done, the remainder being the last. *)
Bounded(w) ==
  \/ w.batch <= FullBatches(w)
  \/ w.batch = FullBatches(w) + 1 /\ RemainderRows(w) > 0

SentUpTo(n, k) == [row \in 1..n |-> IF row <= k THEN 1 ELSE 0]

BatchTypeInv ==
  /\ IsWrite(write)
  /\ write.op \in Ops /\ write.n \in Nat /\ write.cols \in Nat /\ write.batch \in Nat
  /\ write.pc \in {"idle", "begin", "prepare", "exec", "close", "end", "returned"}

(* The statement is open between its Prepare and its Close only. *)
StmtInv ==
  /\ prepared = "open" => write.pc \in {"exec", "close"}
  /\ write.pc = "close" => prepared = "open"

(* Nothing failed before the end but what is returned. *)
ErrorInv ==
  /\ broken \subseteq write.err
  /\ write.pc \in {"idle", "begin", "prepare", "exec"} => write.err = {}
  /\ "args" \in write.err => write.pc \in {"end", "returned"}

(* Which batch is next at each place. *)
BatchPlaceInv ==
  /\ write.pc \in {"begin", "prepare"} => write.batch = 0 /\ write.n > 0 /\ ~Single(write)
  /\ write.pc = "prepare" => Prepares(write)
  /\ write.pc = "exec" => \/ write.batch < FullBatches(write)
                          \/ write.batch = FullBatches(write) /\ RemainderRows(write) > 0
  /\ (write.pc = "exec" /\ prepared = "open") => write.batch < FullBatches(write)
  /\ (write.pc = "close" /\ write.err = {}) => write.batch = FullBatches(write)
  /\ (write.pc \in {"end", "returned"} /\ write.err = {}) => Progress(write) = write.n

(* What the server has accepted, and what is durable. *)
BatchRowsInv ==
  /\ "args" \in write.err => sent = SentUpTo(write.n, 0) /\ write.batch = 0
  /\ "args" \notin write.err => Divided(write) /\ sent = SentUpTo(write.n, Progress(write))
  /\ "args" \notin write.err => Bounded(write)
  /\ stored = SentUpTo(write.n, IF write.pc = "returned" /\ write.err = {} THEN write.n ELSE 0)

BatchInv == BatchTypeInv /\ StmtInv /\ ErrorInv /\ BatchPlaceInv /\ BatchRowsInv

-------------------------------------------------------------------------------
(* Division with remainder. *)
LEMMA Division ==
  ASSUME NEW a \in Nat, NEW b \in Nat \ {0}
  PROVE  a \div b \in Nat /\ a % b \in Nat /\ a % b < b /\ a = (a \div b) * b + (a % b)
OBVIOUS

(* A call that is not refused is divided into batches that fit. *)
LEMMA NotRefused ==
  ASSUME NEW w, w.op \in Ops, w.n \in Nat, w.cols \in Nat, ~Refused(w.op, w.n, w.cols)
  PROVE  Divided(w)
<1>1. CASE w.op.batched /\ w.n > 1
  <2>1. w.cols \in Nat \ {0} /\ MaxArgs \div w.cols \in Nat \ {0} /\ MaxArgs \in Nat
    BY <1>1, BatchAssumption, Division DEF Refused
  <2> DEFINE k == MaxArgs \div w.cols
  <2>2. (k <= w.n /\ BatchSize(w) = k) \/ (w.n <= k /\ BatchSize(w) = w.n)
    BY <1>1, <2>1 DEF BatchSize, RowsPerBatch, Min
  <2>3. k * w.cols <= MaxArgs /\ k * w.cols \in Nat
    BY <2>1, Division
  <2>4. BatchSize(w) \in Nat \ {0} /\ BatchSize(w) <= k
    BY <1>1, <2>1, <2>2
  <2>5. BatchSize(w) * w.cols <= k * w.cols /\ BatchSize(w) * w.cols >= 1 /\ BatchSize(w) * w.cols \in Nat
    BY <2>1, <2>4, Z3
  <2> QED
    BY <2>1, <2>3, <2>4, <2>5, Division, BatchAssumption, SMTT(30) DEF Divided, FullBatches, RemainderRows
<1>2. CASE ~(w.op.batched /\ w.n > 1)
  <2>1. BatchSize(w) = 1
    BY <1>2 DEF BatchSize
  <2> QED
    BY <1>2, <2>1, Division DEF Divided, FullBatches, RemainderRows
<1> QED
  BY <1>1, <1>2

(* A step that keeps what is written keeps how it is divided. *)
LEMMA SameDivision ==
  ASSUME NEW v, NEW w, v.op = w.op, v.n = w.n, v.cols = w.cols
  PROVE  /\ BatchSize(v) = BatchSize(w) /\ FullBatches(v) = FullBatches(w)
         /\ RemainderRows(v) = RemainderRows(w)
         /\ Single(v) <=> Single(w)
         /\ Prepares(v) <=> Prepares(w)
         /\ Divided(v) <=> Divided(w)
         /\ v.batch = w.batch => Progress(v) = Progress(w) /\ (Bounded(v) <=> Bounded(w))
<1>1. BatchSize(v) = BatchSize(w)
  BY DEF BatchSize, RowsPerBatch
<1>2. FullBatches(v) = FullBatches(w) /\ RemainderRows(v) = RemainderRows(w)
  BY <1>1 DEF FullBatches, RemainderRows
<1> QED
  BY <1>1, <1>2 DEF Single, Prepares, Divided, Progress, Bounded

(* Before a call nothing is written. *)
Unwritten == write = NoWrite /\ prepared = "none" /\ sent = NoRows /\ stored = NoRows /\ broken = {}

(* That satisfies the invariant. *)
LEMMA InitBatchInv == Unwritten => BatchInv
<1> SUFFICES ASSUME Unwritten PROVE BatchInv
  OBVIOUS
<1> USE DEF Unwritten
<1>1. write.op = InsertRowStructs /\ write.n = 0 /\ write.cols = 1 /\ write.pc = "idle" /\ write.batch = 0
      /\ write.err = {} /\ IsWrite(write)
  BY DEF NoWrite, IsWrite
<1>2. BatchTypeInv /\ StmtInv /\ ErrorInv /\ BatchPlaceInv
  BY <1>1 DEF BatchTypeInv, StmtInv, ErrorInv, BatchPlaceInv, Ops
<1>3. ~Refused(write.op, write.n, write.cols)
  BY <1>1 DEF Refused
<1>4. Divided(write) /\ Bounded(write)
  <2>1. Divided(write)
    BY <1>1, <1>2, <1>3, NotRefused DEF BatchTypeInv
  <2> QED
    BY <1>1, <2>1 DEF Divided, Bounded
<1>5. \A k : NoRows = SentUpTo(0, k)
  BY DEF NoRows, SentUpTo
<1>6. BatchRowsInv
  BY <1>1, <1>4, <1>5 DEF BatchRowsInv
<1> QED
  BY <1>2, <1>6 DEF BatchInv

(* A call that goes on with the same rows at another place. *)
At(w, pc, err, batch) ==
  [op |-> w.op, n |-> w.n, cols |-> w.cols, pc |-> pc, batch |-> batch, err |-> err]

(* Its fields. *)
LEMMA GoOn ==
  ASSUME NEW w, NEW pc, NEW err, NEW batch
  PROVE  /\ IsWrite(At(w, pc, err, batch))
         /\ At(w, pc, err, batch).op = w.op /\ At(w, pc, err, batch).n = w.n
         /\ At(w, pc, err, batch).cols = w.cols /\ At(w, pc, err, batch).pc = pc
         /\ At(w, pc, err, batch).err = err /\ At(w, pc, err, batch).batch = batch
BY DEF At, IsWrite

(* Nothing is sent at this step. *)
LEMMA KeepRows ==
  ASSUME BatchInv, write'.op = write.op, write'.n = write.n, write'.cols = write.cols,
         write'.batch = write.batch, "args" \in write'.err <=> "args" \in write.err,
         sent' = sent, stored' = stored, write.pc # "returned", write'.pc # "returned"
  PROVE  BatchRowsInv'
<1>1. (Divided(write') <=> Divided(write)) /\ (Bounded(write') <=> Bounded(write))
      /\ Progress(write') = Progress(write)
  BY SameDivision
<1> QED
  BY <1>1 DEF BatchInv, BatchRowsInv

(* A step that fails while nothing has failed before. *)
LEMMA BatchFailStep ==
  ASSUME BatchInv, write.pc \in {"begin", "prepare", "exec"}, NEW e, e # "args", NEW pc,
         \/ pc = "end" /\ prepared # "open"
         \/ pc = "close" /\ prepared = "open",
         Fails(pc, e), prepared' = prepared, sent' = sent, stored' = stored
  PROVE  BatchInv'
<1>0. write' = At(write, pc, {e}, write.batch)
  BY DEF Fails, BatchInv, BatchTypeInv, IsWrite, At
<1>1. /\ IsWrite(write') /\ write'.op = write.op /\ write'.n = write.n /\ write'.cols = write.cols
      /\ write'.pc = pc /\ write'.err = {e} /\ write'.batch = write.batch
  BY <1>0, GoOn
<1>2. write.err = {} /\ broken' = {e}
  BY DEF BatchInv, ErrorInv, Fails
<1>3. BatchTypeInv'
  BY <1>1 DEF BatchInv, BatchTypeInv
<1>4. StmtInv' /\ ErrorInv' /\ BatchPlaceInv'
  BY <1>1, <1>2 DEF BatchInv, StmtInv, ErrorInv, BatchPlaceInv
<1>5. BatchRowsInv'
  BY <1>1, <1>2, KeepRows
<1> QED
  BY <1>3, <1>4, <1>5 DEF BatchInv

(* Transaction begins, or not. *)
LEMMA BeginStep ==
  ASSUME BatchInv, BeginWrites
  PROVE  BatchInv'
<1>0. write.pc = "begin" /\ prepared' = prepared /\ sent' = sent /\ stored' = stored /\ prepared # "open"
  BY DEF BeginWrites, BatchInv, StmtInv
<1>1. CASE Fails("end", "begin")
  BY <1>0, <1>1, BatchFailStep
<1>2. CASE Goto(IF Prepares(write) THEN "prepare" ELSE "exec") /\ broken' = broken
  <2>1. /\ write.err = {} /\ broken' = {} /\ write.batch = 0 /\ write.n > 0 /\ ~Single(write)
        /\ Divided(write)
    BY <1>0, <1>2 DEF BatchInv, ErrorInv, BatchPlaceInv, BatchRowsInv
  <2> DEFINE pc == IF Prepares(write) THEN "prepare" ELSE "exec"
  <2>2. write' = At(write, pc, write.err, write.batch)
    BY <1>2 DEF Goto, BatchInv, BatchTypeInv, IsWrite, At
  <2>3. /\ IsWrite(write') /\ write'.op = write.op /\ write'.n = write.n /\ write'.cols = write.cols
        /\ write'.pc = pc /\ write'.err = write.err /\ write'.batch = write.batch
    BY <2>2, GoOn
  <2>4. /\ FullBatches(write') = FullBatches(write) /\ RemainderRows(write') = RemainderRows(write)
        /\ (Single(write') <=> Single(write)) /\ (Prepares(write') <=> Prepares(write))
    BY <2>3, SameDivision
  <2>5. BatchTypeInv'
    BY <2>3 DEF BatchInv, BatchTypeInv
  <2>6. StmtInv' /\ ErrorInv'
    BY <1>0, <2>1, <2>3 DEF StmtInv, ErrorInv
  <2>7. ~Prepares(write) => RemainderRows(write) > 0 /\ FullBatches(write) \in {0, 1}
    BY <2>1 DEF Prepares, Single, Divided
  <2>8. BatchPlaceInv'
    BY <1>0, <2>1, <2>3, <2>4, <2>7 DEF BatchPlaceInv, Divided
  <2>9. BatchRowsInv'
    BY <1>0, <2>3, KeepRows
  <2> QED
    BY <2>5, <2>6, <2>8, <2>9 DEF BatchInv
<1> QED
  BY <1>1, <1>2 DEF BeginWrites

(* The statement of the full batches is prepared, or not. *)
LEMMA PrepareStep ==
  ASSUME BatchInv, PrepareWrites
  PROVE  BatchInv'
<1>0. write.pc = "prepare" /\ sent' = sent /\ stored' = stored /\ prepared # "open"
  BY DEF PrepareWrites, BatchInv, StmtInv
<1>1. CASE Fails("end", "prepare") /\ prepared' = prepared
  BY <1>0, <1>1, BatchFailStep
<1>2. CASE Goto("exec") /\ prepared' = "open" /\ broken' = broken
  <2>1. /\ write.err = {} /\ broken' = {} /\ write.batch = 0 /\ FullBatches(write) >= 2
        /\ FullBatches(write) \in Nat
    BY <1>0, <1>2 DEF BatchInv, ErrorInv, BatchPlaceInv, BatchRowsInv, Prepares, Divided
  <2>2. write' = At(write, "exec", write.err, write.batch)
    BY <1>2 DEF Goto, BatchInv, BatchTypeInv, IsWrite, At
  <2>3. /\ IsWrite(write') /\ write'.op = write.op /\ write'.n = write.n /\ write'.cols = write.cols
        /\ write'.pc = "exec" /\ write'.err = write.err /\ write'.batch = write.batch
    BY <2>2, GoOn
  <2>4. FullBatches(write') = FullBatches(write)
    BY <2>3, SameDivision
  <2>5. BatchTypeInv'
    BY <2>3 DEF BatchInv, BatchTypeInv
  <2>6. StmtInv' /\ ErrorInv'
    BY <1>2, <2>1, <2>3 DEF StmtInv, ErrorInv
  <2>7. BatchPlaceInv'
    BY <2>1, <2>3, <2>4 DEF BatchPlaceInv
  <2>8. BatchRowsInv'
    BY <1>0, <2>3, KeepRows
  <2> QED
    BY <2>5, <2>6, <2>7, <2>8 DEF BatchInv
<1> QED
  BY <1>1, <1>2 DEF PrepareWrites

(* A batch is accepted, or not. *)
LEMMA ExecStep ==
  ASSUME BatchInv, ExecBatch
  PROVE  BatchInv'
<1>0. write.pc = "exec" /\ stored' = stored /\ prepared' = prepared
  BY DEF ExecBatch
<1> DEFINE failed == IF prepared = "open" THEN "close" ELSE "end"
<1>1. CASE (Fails(failed, "exec") \/ Fails(failed, "noRows")) /\ sent' = sent
  BY <1>0, <1>1, BatchFailStep
<1> DEFINE w == [write EXCEPT !.batch = @ + 1]
<1>2. CASE /\ sent' = [row \in DOMAIN sent |->
                         IF row \in BatchRows(write, write.batch) THEN sent[row] + 1 ELSE sent[row]]
           /\ write' = [w EXCEPT !.pc = AfterBatch(w)]
           /\ broken' = broken
  <2> DEFINE k == write.batch
             full == FullBatches(write)
             rest == RemainderRows(write)
             size == BatchSize(write)
  <2>1. /\ write.err = {} /\ broken' = {} /\ Divided(write) /\ k \in Nat /\ write.n \in Nat
        /\ k < full \/ (k = full /\ rest > 0)
        /\ prepared = "open" => k < full
        /\ sent = SentUpTo(write.n, Progress(write))
    BY <1>0, <1>2 DEF BatchInv, BatchTypeInv, ErrorInv, BatchPlaceInv, BatchRowsInv
  <2>2. /\ w.op = write.op /\ w.n = write.n /\ w.cols = write.cols /\ w.batch = k + 1
        /\ write' = At(write, AfterBatch(w), write.err, k + 1)
    BY <1>2 DEF BatchInv, BatchTypeInv, IsWrite, At
  <2> DEFINE pc == AfterBatch(w)
  <2>3. FullBatches(w) = full /\ RemainderRows(w) = rest
    BY <2>2, SameDivision
  <2>4. pc = (IF prepared = "open" THEN IF k + 1 < full THEN "exec" ELSE "close"
              ELSE IF k + 1 < full \/ (k + 1 = full /\ rest > 0) THEN "exec" ELSE "end")
    BY <2>2, <2>3 DEF AfterBatch
  <2> HIDE DEF w, pc
  <2>5. /\ IsWrite(write') /\ write'.op = write.op /\ write'.n = write.n /\ write'.cols = write.cols
        /\ write'.pc = pc /\ write'.err = write.err /\ write'.batch = k + 1
    BY <2>2, GoOn DEF pc
  <2>6. /\ FullBatches(write') = full /\ RemainderRows(write') = rest /\ BatchSize(write') = size
        /\ Divided(write')
    BY <2>1, <2>5, SameDivision
  <2>7. full \in Nat /\ rest \in Nat /\ size \in Nat \ {0} /\ write.n = full * size + rest
    BY <2>1 DEF Divided
  <2> HIDE DEF full, rest, size
  <2>8. BatchTypeInv'
    BY <2>1, <2>4, <2>5 DEF BatchInv, BatchTypeInv
  <2>9. StmtInv' /\ ErrorInv'
    BY <1>0, <2>1, <2>4, <2>5 DEF StmtInv, ErrorInv
  <2>10. /\ Progress(write) = k * size
         /\ Progress(write') = (IF k < full THEN k * size + size ELSE k * size + rest)
         /\ BatchRows(write, k) = k * size + 1 .. k * size + (IF k < full THEN size ELSE rest)
         /\ k * size \in Nat
    <3>1. Progress(write) = k * size /\ k * size \in Nat /\ (k + 1) * size = k * size + size
      BY <2>1, <2>7 DEF Progress, full, size
    <3>2. Progress(write') = (IF k < full THEN (k + 1) * size ELSE write.n)
      BY <2>1, <2>5, <2>6, <2>7 DEF Progress
    <3>3. ~(k < full) => write.n = k * size + rest
      BY <2>1, <2>7
    <3> QED
      BY <3>1, <3>2, <3>3 DEF BatchRows, full, rest, size
  <2>11. sent' = SentUpTo(write'.n, Progress(write'))
    BY <1>2, <2>1, <2>5, <2>7, <2>10, SMTT(30) DEF SentUpTo
  <2>15. Bounded(write')
    BY <2>1, <2>5, <2>6, <2>7 DEF Bounded
  <2>12. BatchRowsInv'
    BY <1>0, <2>1, <2>4, <2>5, <2>6, <2>11, <2>15 DEF BatchInv, BatchRowsInv
  <2>13. pc = "end" => Progress(write') = write.n
    BY <2>1, <2>4, <2>5, <2>6, <2>7 DEF Progress
  <2>14. BatchPlaceInv'
    BY <1>0, <2>1, <2>4, <2>5, <2>6, <2>7, <2>13 DEF BatchPlaceInv
  <2> QED
    BY <2>8, <2>9, <2>12, <2>14 DEF BatchInv
<1> QED
  BY <1>0, <1>1, <1>2 DEF ExecBatch

(* The statement is closed, with an error or not. *)
LEMMA CloseStep ==
  ASSUME BatchInv, CloseStmt
  PROVE  BatchInv'
<1>0. write.pc = "close" /\ sent' = sent /\ stored' = stored /\ prepared' = "closed" /\ "args" \notin write.err
  BY DEF CloseStmt, BatchInv, ErrorInv
<1>1. Divided(write) /\ (write.err = {} => write.batch = FullBatches(write))
  BY <1>0 DEF BatchInv, BatchPlaceInv, BatchRowsInv
<1>2. PICK pc, err :
        /\ write' = At(write, pc, err, write.batch)
        /\ broken' \subseteq err /\ "args" \notin err
        /\ \/ pc = "exec" /\ err = {} /\ write.err = {} /\ RemainderRows(write) > 0
           \/ pc = "end" /\ (err = {} => write.err = {} /\ ~(RemainderRows(write) > 0))
  <2>1. CASE /\ Goto(IF write.err = {} /\ RemainderRows(write) > 0 THEN "exec" ELSE "end")
             /\ broken' = broken
    <3>1. write' = At(write, IF write.err = {} /\ RemainderRows(write) > 0 THEN "exec" ELSE "end",
                      write.err, write.batch)
      BY <2>1 DEF Goto, BatchInv, BatchTypeInv, IsWrite, At
    <3>2. broken' \subseteq write.err
      BY <2>1 DEF BatchInv, ErrorInv
    <3>3. CASE write.err = {} /\ RemainderRows(write) > 0
      <4>1. write' = At(write, "exec", {}, write.batch)
        BY <3>1, <3>3
      <4> QED
        BY <4>1, <3>2, <3>3
    <3>4. CASE ~(write.err = {} /\ RemainderRows(write) > 0)
      <4>1. write' = At(write, "end", write.err, write.batch)
        BY <3>1, <3>4
      <4> QED
        BY <4>1, <3>2, <3>4, <1>0
    <3> QED
      BY <3>3, <3>4
  <2>2. CASE /\ write' = [write EXCEPT !.pc = "end", !.err = @ \cup {"close"}]
             /\ broken' = broken \cup {"close"}
    <3>1. write' = At(write, "end", write.err \cup {"close"}, write.batch)
      BY <2>2 DEF BatchInv, BatchTypeInv, IsWrite, At
    <3>2. broken' \subseteq write.err \cup {"close"} /\ write.err \cup {"close"} # {}
          /\ "args" \notin write.err \cup {"close"}
      BY <2>2, <1>0 DEF BatchInv, ErrorInv
    <3> QED
      BY <3>1, <3>2
  <2> QED
    BY <2>1, <2>2 DEF CloseStmt
<1>3. /\ IsWrite(write') /\ write'.op = write.op /\ write'.n = write.n /\ write'.cols = write.cols
      /\ write'.pc = pc /\ write'.err = err /\ write'.batch = write.batch
  BY <1>2, GoOn
<1>4. /\ FullBatches(write') = FullBatches(write) /\ RemainderRows(write') = RemainderRows(write)
      /\ Progress(write') = Progress(write)
  BY <1>3, SameDivision
<1>5. BatchTypeInv' /\ StmtInv' /\ ErrorInv'
  BY <1>0, <1>2, <1>3 DEF BatchInv, BatchTypeInv, StmtInv, ErrorInv
<1>6. (write.err = {} /\ ~(RemainderRows(write) > 0)) => Progress(write) = write.n
  BY <1>1 DEF Progress, Divided
<1>7. BatchPlaceInv'
  BY <1>0, <1>1, <1>2, <1>3, <1>4, <1>6 DEF BatchPlaceInv
<1>8. BatchRowsInv'
  BY <1>0, <1>2, <1>3, KeepRows
<1> QED
  BY <1>5, <1>7, <1>8 DEF BatchInv

(* The call ends; what it sent is durable if it returns nil. *)
LEMMA EndStep ==
  ASSUME BatchInv, EndWrites
  PROVE  /\ BatchInv' /\ write'.pc = "returned" /\ write'.n = write.n
         /\ stored' = SentUpTo(write.n, IF write'.err = {} THEN write.n ELSE 0)
<1>0. write.pc = "end" /\ sent' = sent /\ prepared' = prepared /\ prepared # "open"
  BY DEF EndWrites, BatchInv, StmtInv
<1>1. /\ stored = SentUpTo(write.n, 0)
      /\ write.err = {} => sent = SentUpTo(write.n, write.n)
  BY <1>0 DEF BatchInv, BatchRowsInv, BatchPlaceInv
<1>2. PICK err :
        /\ write' = At(write, "returned", err, write.batch)
        /\ broken' \subseteq err /\ ("args" \in err <=> "args" \in write.err)
        /\ err = {} => write.err = {}
        /\ stored' = SentUpTo(write.n, IF err = {} THEN write.n ELSE 0)
  <2>1. CASE /\ Goto("returned")
             /\ stored' = IF write.err = {} THEN sent ELSE stored
             /\ broken' = broken
    <3>1. write' = At(write, "returned", write.err, write.batch)
      BY <2>1 DEF Goto, BatchInv, BatchTypeInv, IsWrite, At
    <3> QED
      BY <3>1, <2>1, <1>1 DEF BatchInv, ErrorInv
  <2>2. ASSUME NEW failure \in {"commit", "rollback"},
               write' = [write EXCEPT !.pc = "returned", !.err = @ \cup {failure}],
               broken' = broken \cup {failure}, stored' = stored
        PROVE  \E err :
                 /\ write' = At(write, "returned", err, write.batch)
                 /\ broken' \subseteq err /\ ("args" \in err <=> "args" \in write.err)
                 /\ err = {} => write.err = {}
                 /\ stored' = SentUpTo(write.n, IF err = {} THEN write.n ELSE 0)
    <3>1. write' = At(write, "returned", write.err \cup {failure}, write.batch)
      BY <2>2 DEF BatchInv, BatchTypeInv, IsWrite, At
    <3>2. broken' \subseteq write.err \cup {failure} /\ write.err \cup {failure} # {} /\ failure # "args"
      BY <2>2 DEF BatchInv, ErrorInv
    <3> QED
      BY <3>1, <3>2, <2>2, <1>1
  <2> QED
    BY <2>1, <2>2 DEF EndWrites
<1>3. /\ IsWrite(write') /\ write'.op = write.op /\ write'.n = write.n /\ write'.cols = write.cols
      /\ write'.pc = "returned" /\ write'.err = err /\ write'.batch = write.batch
  BY <1>2, GoOn
<1>4. (Divided(write') <=> Divided(write)) /\ (Bounded(write') <=> Bounded(write))
      /\ Progress(write') = Progress(write)
  BY <1>3, SameDivision
<1>5. BatchTypeInv' /\ StmtInv' /\ ErrorInv'
  BY <1>0, <1>2, <1>3 DEF BatchInv, BatchTypeInv, StmtInv, ErrorInv
<1>6. BatchPlaceInv'
  BY <1>0, <1>2, <1>3, <1>4 DEF BatchInv, BatchPlaceInv
<1>7. BatchRowsInv'
  BY <1>0, <1>2, <1>3, <1>4 DEF BatchInv, BatchRowsInv
<1> QED
  BY <1>2, <1>3, <1>5, <1>6, <1>7 DEF BatchInv

(* The result is taken. *)
LEMMA ForgetStep ==
  ASSUME BatchInv, ForgetWrite
  PROVE  BatchInv'
<1>1. Unwritten'
  BY DEF ForgetWrite, Unwritten
<1>2. Unwritten' => BatchInv'
  BY InitBatchInv, PTL
<1> QED
  BY <1>1, <1>2

(* A call is made, or refused at once. *)
LEMMA CallStep ==
  ASSUME BatchInv, NEW op \in Ops, NEW n \in Slices, NEW cols \in ColumnCounts, NEW inTx \in BOOLEAN,
         CallWrite(op, n, cols, inTx)
  PROVE  /\ BatchInv' /\ write'.pc \notin {"idle", "prepare", "returned"} /\ write'.n = n
         /\ stored' = SentUpTo(n, 0)
<1>0. n \in Nat /\ cols \in Nat
  BY BatchAssumption
<1> DEFINE w == [NoWrite EXCEPT !.op = op, !.n = n, !.cols = cols]
<1>a. w = [op |-> op, n |-> n, cols |-> cols, pc |-> "idle", batch |-> 0, err |-> {}]
  <2>1. PICK x : x = NoWrite
    OBVIOUS
  <2>2. IsWrite(x) /\ x.pc = "idle" /\ x.batch = 0 /\ x.err = {}
    BY <2>1 DEF NoWrite, IsWrite
  <2>3. PICK y : y = [x EXCEPT !.op = op, !.n = n, !.cols = cols]
    OBVIOUS
  <2>4. y = [op |-> op, n |-> n, cols |-> cols, pc |-> x.pc, batch |-> x.batch, err |-> x.err]
    BY <2>2, <2>3 DEF IsWrite
  <2>5. y = w
    BY <2>1, <2>3
  <2> QED
    BY <2>2, <2>4, <2>5
<1>b. /\ Refused(op, n, cols) => write' = [w EXCEPT !.pc = "end", !.err = {"args"}] /\ broken' = {"args"}
      /\ ~Refused(op, n, cols) =>
            /\ write' = [w EXCEPT !.pc = IF n = 0 THEN "end" ELSE IF Single(w) THEN "exec" ELSE "begin"]
            /\ broken' = {}
  BY DEF CallWrite
<1> HIDE DEF w
<1>1. w.op = op /\ w.n = n /\ w.cols = cols /\ w.batch = 0 /\ IsWrite(w)
  BY <1>a DEF IsWrite
<1>2. sent' = SentUpTo(n, 0) /\ stored' = SentUpTo(n, 0) /\ prepared' = "none"
  BY <1>0 DEF CallWrite, SentUpTo
<1>3. CASE Refused(op, n, cols)
  <2>1. write' = At(w, "end", {"args"}, 0) /\ broken' = {"args"}
    BY <1>1, <1>3, <1>a, <1>b DEF At
  <2>2. /\ IsWrite(write') /\ write'.op = op /\ write'.n = n /\ write'.cols = cols
        /\ write'.pc = "end" /\ write'.err = {"args"} /\ write'.batch = 0
    BY <2>1, <1>1, GoOn
  <2>3. BatchInv'
    BY <1>0, <1>2, <2>1, <2>2 DEF BatchInv, BatchTypeInv, StmtInv, ErrorInv, BatchPlaceInv, BatchRowsInv
  <2> QED
    BY <2>2, <2>3, <1>2
<1>4. CASE ~Refused(op, n, cols)
  <2> DEFINE pc == IF n = 0 THEN "end" ELSE IF Single(w) THEN "exec" ELSE "begin"
  <2>1. write' = At(w, pc, {}, 0) /\ broken' = {}
    BY <1>1, <1>4, <1>a, <1>b DEF At
  <2>2. /\ IsWrite(write') /\ write'.op = op /\ write'.n = n /\ write'.cols = cols
        /\ write'.pc = pc /\ write'.err = {} /\ write'.batch = 0
    BY <2>1, <1>1, GoOn
  <2>3. Divided(write')
    BY <1>0, <1>4, <2>2, NotRefused
  <2>4. Single(write') <=> Single(w)
    BY <1>1, <2>2, SameDivision
  <2>5. pc = "exec" => FullBatches(write') > 0
    BY <2>2, <2>3, <2>4 DEF Divided, Single
  <2>6. Progress(write') = 0 /\ Bounded(write')
    BY <2>2, <2>3 DEF Progress, Bounded, Divided
  <2>7. BatchTypeInv' /\ StmtInv' /\ ErrorInv'
    BY <1>0, <1>2, <2>1, <2>2 DEF BatchTypeInv, StmtInv, ErrorInv
  <2>8. BatchPlaceInv'
    BY <1>0, <1>2, <2>2, <2>3, <2>4, <2>5, <2>6 DEF BatchPlaceInv, Divided
  <2>9. BatchRowsInv'
    BY <1>2, <2>2, <2>3, <2>6 DEF BatchRowsInv
  <2> QED
    BY <2>2, <2>7, <2>8, <2>9, <1>2 DEF BatchInv
<1> QED
  BY <1>3, <1>4

(* The invariant is inductive. *)
LEMMA StepBatchInv ==
  ASSUME BatchInv, [BatchNext]_batchVars
  PROVE  BatchInv'
<1>1. ASSUME NEW op \in Ops, NEW n \in Slices, NEW cols \in ColumnCounts, NEW inTx \in BOOLEAN,
             CallWrite(op, n, cols, inTx)
      PROVE  BatchInv'
  BY <1>1, CallStep
<1>2. CASE BeginWrites
  BY <1>2, BeginStep
<1>3. CASE PrepareWrites
  BY <1>3, PrepareStep
<1>4. CASE ExecBatch
  BY <1>4, ExecStep
<1>5. CASE CloseStmt
  BY <1>5, CloseStep
<1>6. CASE EndWrites
  BY <1>6, EndStep
<1>7. CASE ForgetWrite
  BY <1>7, ForgetStep
<1>8. CASE UNCHANGED batchVars
  BY <1>8 DEF batchVars, BatchInv, BatchTypeInv, IsWrite, StmtInv, ErrorInv, BatchPlaceInv, BatchRowsInv, Divided, Progress, Bounded,
              BatchSize, RowsPerBatch, FullBatches, RemainderRows, Single, Prepares
<1> QED
  BY <1>1, <1>2, <1>3, <1>4, <1>5, <1>6, <1>7, <1>8 DEF BatchNext

(* So it is an invariant. *)
LEMMA BatchInvariant == BatchSpec => []BatchInv
<1>1. BatchInit => BatchInv
  BY InitBatchInv DEF BatchInit, Unwritten
<1> QED
  BY <1>1, StepBatchInv, PTL DEF BatchSpec

(* Which transaction the call has. *)
TxInv ==
  /\ tx \in {"none", "open", "outer"} /\ prepared \in {"none", "open", "closed"}
  /\ write.pc = "prepare" \/ prepared = "open" => tx # "none"

(* Statements are prepared within a transaction. *)
LEMMA StepTxInv ==
  ASSUME BatchInv, TxInv, [BatchNext]_batchVars
  PROVE  TxInv'
<1>0. IsWrite(write)
  BY DEF BatchInv, BatchTypeInv
<1>1. ASSUME NEW op \in Ops, NEW n \in Slices, NEW cols \in ColumnCounts, NEW inTx \in BOOLEAN,
             CallWrite(op, n, cols, inTx)
      PROVE  TxInv'
  <2>1. prepared' = "none" /\ tx' \in {"none", "outer"}
    BY <1>1 DEF CallWrite
  <2>3. write'.pc # "prepare"
    BY <1>1, CallStep
  <2> QED
    BY <2>1, <2>3 DEF TxInv
<1>2. CASE BeginWrites
  BY <1>0, <1>2 DEF BeginWrites, Goto, Fails, IsWrite, TxInv, BatchInv, StmtInv
<1>3. CASE PrepareWrites
  BY <1>0, <1>3 DEF PrepareWrites, Goto, Fails, IsWrite, TxInv
<1>4. CASE ExecBatch
  <2>1. \A w : AfterBatch(w) # "prepare"
    BY DEF AfterBatch
  <2>2. ASSUME NEW pc, NEW err, Fails(pc, err) PROVE write'.pc = pc
    BY <1>0, <2>2 DEF Fails, IsWrite
  <2>3. ASSUME NEW pc, write' = [[write EXCEPT !.batch = @ + 1] EXCEPT !.pc = pc] PROVE write'.pc = pc
    BY <1>0, <2>3 DEF IsWrite
  <2>4. write'.pc # "prepare"
    BY <1>4, <2>1, <2>2, <2>3 DEF ExecBatch
  <2> QED
    BY <1>4, <2>4 DEF ExecBatch, TxInv
<1>5. CASE CloseStmt
  BY <1>0, <1>5 DEF CloseStmt, Goto, IsWrite, TxInv
<1>6. CASE EndWrites
  <2>1. write'.pc = "returned" /\ tx' = "none" /\ prepared' = prepared /\ prepared # "open"
    BY <1>0, <1>6 DEF EndWrites, Goto, IsWrite, BatchInv, StmtInv
  <2> QED
    BY <2>1 DEF TxInv
<1>7. CASE ForgetWrite
  BY <1>7 DEF ForgetWrite, NoWrite, TxInv
<1>8. CASE UNCHANGED batchVars
  BY <1>8 DEF batchVars, TxInv
<1> QED
  BY <1>1, <1>2, <1>3, <1>4, <1>5, <1>6, <1>7, <1>8 DEF BatchNext

-------------------------------------------------------------------------------
(* The state of a call has its types, and a call that prepares has a       *)
(* transaction.                                                            *)
THEOREM BatchTypeCorrect == BatchSpec => []BatchTypeOK
<1>1. BatchInit => TxInv
  BY DEF BatchInit, TxInv, NoWrite
<1>2. ASSUME BatchInv, TxInv PROVE BatchTypeOK
  <2>1. write.batch <= write.n
    <3>1. CASE "args" \in write.err
      BY <1>2, <3>1 DEF BatchInv, BatchTypeInv, BatchRowsInv
    <3>2. CASE "args" \notin write.err
      <4>1. Divided(write) /\ Bounded(write) /\ write.batch \in Nat
        BY <1>2, <3>2 DEF BatchInv, BatchTypeInv, BatchRowsInv
      <4> DEFINE full == FullBatches(write)
                 size == BatchSize(write)
                 rest == RemainderRows(write)
      <4>2. full \in Nat /\ size \in Nat \ {0} /\ rest \in Nat /\ write.n = full * size + rest
        BY <4>1 DEF Divided
      <4>3. write.batch <= full \/ (write.batch = full + 1 /\ rest > 0)
        BY <4>1 DEF Bounded
      <4> HIDE DEF full, size, rest
      <4>4. full <= full * size /\ full * size \in Nat
        BY <4>2
      <4> QED
        BY <4>1, <4>2, <4>3, <4>4
    <3> QED
      BY <3>1, <3>2
  <2>2. write.n \in Nat /\ write.batch \in 0 .. write.n
    BY <1>2, <2>1 DEF BatchInv, BatchTypeInv
  <2>3. sent \in [1..write.n -> Nat]
    BY <1>2 DEF BatchInv, BatchRowsInv, SentUpTo
  <2> QED
    BY <1>2, <2>2, <2>3 DEF BatchInv, BatchTypeInv, StmtInv, TxInv, BatchTypeOK
<1>3. BatchInv /\ TxInv /\ [BatchNext]_batchVars => TxInv'
  BY StepTxInv
<1> QED
  BY <1>1, <1>2, <1>3, BatchInvariant, PTL DEF BatchSpec

(* The prepared statement of a call is closed before its transaction ends, *)
(* whatever failed before.                                                 *)
THEOREM StmtsAreClosed == BatchSpec => []StmtClosedBeforeEnd
<1>1. BatchInv => StmtClosedBeforeEnd
  BY DEF BatchInv, StmtInv, StmtClosedBeforeEnd
<1> QED
  BY <1>1, BatchInvariant, PTL

(* A call hides no error of its steps, not the one of a Close or a rollback *)
(* after another either.                                                   *)
THEOREM FailuresReported == BatchSpec => []BatchFailuresReported
<1>1. BatchInv => BatchFailuresReported
  BY DEF BatchInv, ErrorInv, BatchFailuresReported
<1> QED
  BY <1>1, BatchInvariant, PTL

(* Rows are sent once, in order, and all of them before nil is returned,   *)
(* for every number of rows, of columns and of arguments.                  *)
THEOREM RowsAreSentOnce == BatchSpec => []EachRowOnce
<1>1. ASSUME BatchInv PROVE EachRowOnce
  <2>1. PICK k \in Nat : /\ sent = SentUpTo(write.n, k)
                         /\ (write.pc = "end" /\ write.err = {}) => k = write.n
    <3>1. CASE "args" \in write.err
      BY <1>1, <3>1 DEF BatchInv, BatchRowsInv
    <3>2. CASE "args" \notin write.err
      <4>1. Progress(write) \in Nat
        <5>1. write.batch \in Nat /\ BatchSize(write) \in Nat /\ write.n \in Nat
          BY <1>1, <3>2 DEF BatchInv, BatchTypeInv, BatchRowsInv, Divided
        <5>2. write.batch * BatchSize(write) \in Nat
          BY <5>1
        <5> QED
          BY <5>1, <5>2 DEF Progress
      <4> QED
        BY <1>1, <3>2, <4>1 DEF BatchInv, BatchRowsInv, BatchPlaceInv
    <3> QED
      BY <3>1, <3>2
  <2>2. write.n \in Nat /\ DOMAIN sent = 1..write.n
    BY <1>1, <2>1 DEF BatchInv, BatchTypeInv, SentUpTo
  <2>3. \A i \in 1..write.n : sent[i] = IF i <= k THEN 1 ELSE 0
    BY <2>1 DEF SentUpTo
  <2> QED
    BY <2>1, <2>2, <2>3 DEF EachRowOnce
<1> QED
  BY <1>1, BatchInvariant, PTL

(* No statement has more arguments than the driver accepts, and none is    *)
(* empty.                                                                  *)
THEOREM BatchesAlwaysFit == BatchSpec => []BatchesFit
<1>1. ASSUME BatchInv PROVE BatchesFit
  <2> SUFFICES ASSUME write.pc = "exec", write.op.batched, write.n > 1
               PROVE  Cardinality(BatchRows(write, write.batch)) * write.cols \in 1 .. MaxArgs
    BY DEF BatchesFit
  <2> DEFINE size == BatchSize(write)
             start == write.batch * size
             numRows == IF write.batch < FullBatches(write) THEN size ELSE RemainderRows(write)
  <2>1. /\ Divided(write) /\ write.batch \in Nat /\ write.cols \in Nat
        /\ write.batch < FullBatches(write) \/ RemainderRows(write) > 0
    BY <1>1 DEF BatchInv, BatchTypeInv, ErrorInv, BatchPlaceInv, BatchRowsInv
  <2>2. size \in Nat /\ numRows \in Nat /\ numRows >= 1 /\ numRows <= size /\ size * write.cols \in 1 .. MaxArgs
    BY <2>1 DEF Divided
  <2> HIDE DEF size, numRows
  <2>3. start \in Nat
    BY <2>1, <2>2
  <2> HIDE DEF start
  <2>4. Cardinality(start + 1 .. start + numRows) = numRows
    BY <2>2, <2>3, FS_Interval
  <2>5. Cardinality(BatchRows(write, write.batch)) = numRows
    BY <2>4 DEF BatchRows, start, size, numRows
  <2>6. write.cols >= 1
    BY <2>1, <2>2
  <2>7. numRows * write.cols <= size * write.cols /\ numRows * write.cols >= 1 /\ numRows * write.cols \in Nat
    BY <2>1, <2>2, <2>6, Z3
  <2> QED
    BY <2>1, <2>2, <2>5, <2>7, BatchAssumption
<1> QED
  BY <1>1, BatchInvariant, PTL

-------------------------------------------------------------------------------
(* What a caller sees of the call. *)
request == IF write.pc = "idle" THEN -1 ELSE write.n
outcome == IF write.pc # "returned" THEN "none" ELSE IF write.err = {} THEN "nil" ELSE "error"

(* A step that is neither a call nor its end is not seen. *)
LEMMA Unseen ==
  ASSUME BatchInv, BeginWrites \/ PrepareWrites \/ ExecBatch \/ CloseStmt
  PROVE  request' = request /\ stored' = stored /\ outcome' = outcome
<1>1. write.pc \in {"begin", "prepare", "exec", "close"} /\ stored' = stored
  BY DEF BeginWrites, PrepareWrites, ExecBatch, CloseStmt
<1>2. write'.n = write.n /\ write'.pc \in {"prepare", "exec", "close", "end"}
  BY DEF BeginWrites, PrepareWrites, ExecBatch, CloseStmt, Goto, Fails, AfterBatch, BatchInv, BatchTypeInv, IsWrite
<1> QED
  BY <1>1, <1>2 DEF request, outcome

(* Every step is a step of AllOrNothing or is not seen. *)
LEMMA StepImplements ==
  ASSUME BatchInv, [BatchNext]_batchVars
  PROVE  [Promise!AbstractNext]_<<request, stored, outcome>>
<1>1. ASSUME NEW op \in Ops, NEW n \in Slices, NEW cols \in ColumnCounts, NEW inTx \in BOOLEAN,
             CallWrite(op, n, cols, inTx)
      PROVE  Promise!Request(n)
  <2>1. write.pc = "idle" /\ write'.pc \notin {"idle", "returned"} /\ write'.n = n
        /\ stored' = SentUpTo(n, 0)
    BY <1>1, CallStep DEF CallWrite
  <2>2. stored' = [row \in 1..n |-> 0]
    BY <1>1 DEF CallWrite
  <2> QED
    BY <2>1, <2>2 DEF Promise!Request
<1>2. CASE BeginWrites \/ PrepareWrites \/ ExecBatch \/ CloseStmt
  BY <1>2, Unseen DEF request, outcome
<1>3. CASE EndWrites
  <2>1. /\ write.pc = "end" /\ write'.pc = "returned" /\ write'.n = write.n /\ write.n \in Nat
        /\ stored = SentUpTo(write.n, 0)
        /\ stored' = SentUpTo(write.n, IF write'.err = {} THEN write.n ELSE 0)
    BY <1>3, EndStep DEF EndWrites, BatchInv, BatchTypeInv, BatchRowsInv
  <2>2. request = write.n /\ request' = write.n /\ outcome = "none" /\ request >= 0
    BY <2>1 DEF request, outcome
  <2>3. CASE write'.err = {}
    <3>1. outcome' = "nil"
      BY <2>1, <2>3 DEF outcome
    <3>2. stored' = [row \in 1..write.n |-> 1]
      BY <2>1, <2>3 DEF SentUpTo
    <3>3. Promise!Store
      BY <2>2, <3>1, <3>2 DEF Promise!Store, request, outcome
    <3> QED
      BY <3>3 DEF Promise!AbstractNext
  <2>4. CASE write'.err # {}
    <3>1. outcome' = "error" /\ stored' = stored
      BY <2>1, <2>4 DEF outcome
    <3>2. Promise!Refuse
      BY <2>2, <3>1 DEF Promise!Refuse, request, outcome
    <3> QED
      BY <3>2 DEF Promise!AbstractNext
  <2> QED
    BY <2>3, <2>4
<1>4. CASE ForgetWrite
  <2>1. write.pc = "returned" /\ write'.pc = "idle" /\ stored' = NoRows
    BY <1>4 DEF ForgetWrite, NoWrite
  <2>2. NoRows = Promise!NothingStored
    <3>1. 1..0 = {}
      OBVIOUS
    <3> QED
      BY <3>1 DEF NoRows, Promise!NothingStored
  <2>3. Promise!Forget
    BY <2>1, <2>2 DEF Promise!Forget
  <2> QED
    BY <2>3 DEF Promise!AbstractNext
<1>5. CASE UNCHANGED batchVars
  BY <1>5 DEF batchVars, request, outcome
<1> QED
  BY <1>1, <1>2, <1>3, <1>4, <1>5 DEF BatchNext, Promise!AbstractNext

(* A call that returns nil has made all of its rows durable, one that      *)
(* returns an error none: the calls implement AllOrNothing.                *)
THEOREM WritesAreAllOrNothing == BatchSpec => ImplementsAllOrNothing
<1>1. BatchInit => Promise!Unset
  <2> SUFFICES ASSUME BatchInit PROVE Promise!Unset
    OBVIOUS
  <2>1. write.pc = "idle" /\ stored = NoRows
    BY DEF BatchInit, NoWrite
  <2>2. 1..0 = {}
    OBVIOUS
  <2> QED
    BY <2>1, <2>2 DEF Promise!Unset, Promise!NothingStored, NoRows
<1>2. BatchInv /\ [BatchNext]_batchVars => [Promise!AbstractNext]_Promise!abstractVars
  BY StepImplements DEF Promise!abstractVars, request, outcome
<1> QED
  BY <1>1, <1>2, BatchInvariant, PTL DEF BatchSpec, ImplementsAllOrNothing, Promise!WritesSpec

-------------------------------------------------------------------------------
(* SqliteStatements.                                                       *)
Bindings == [1..2 -> Nat]
StmtType == [text : Texts, state : {"ready", "row", "done", "finalized"}, at : Nat, bound : Bindings]
ReadType == SUBSET (Nat \X (Bindings \X Nat))
HandleType ==
  [kind : {"none", "rows", "stmt"}, stmt : 0..MaxStmts, owns : BOOLEAN, args : Seq(Nat),
   hasRow : BOOLEAN, err : BOOLEAN, ended : BOOLEAN, stepped : Nat, read : ReadType]

StatementTypeInv ==
  /\ stmt \in [Stmts -> StmtType]
  /\ cache \in [Texts -> 0..MaxStmts]
  /\ handle \in [Handles -> HandleType]
  /\ misused \in BOOLEAN /\ closed \in BOOLEAN

(* A cached statement is one of that text. *)
StatementCacheInv ==
  /\ \A t \in Texts : cache[t] # 0 => stmt[cache[t]].text = t /\ ~Finalized(cache[t])
  /\ closed => Held = {} /\ \A t \in Texts : cache[t] = 0

(* The statement of an open Rows or Stmt is in the cache, so the text finds it. *)
HeldInv ==
  \A h \in Handles : handle[h].kind # "none" =>
    /\ handle[h].stmt # 0
    /\ ~Finalized(handle[h].stmt)
    /\ cache[stmt[handle[h].stmt].text] = handle[h].stmt

(* Only a Stmt and rows that do not own the statement share it. *)
Shares(v, w) == v.kind = "stmt" /\ w.kind = "rows" /\ ~w.owns
SharedInv ==
  \A g, h \in Handles :
    (g # h /\ handle[g].kind # "none" /\ handle[h].kind # "none" /\ handle[g].stmt = handle[h].stmt)
      => Shares(handle[g], handle[h]) \/ Shares(handle[h], handle[g])

(* Rows are where their statement is, which runs with their arguments. *)
InStep(w, c) ==
  /\ BoundTo(c.bound, w.args)
  /\ w.hasRow <=> c.state = "row"
  /\ w.ended <=> c.state = "done"
  /\ c.state = "row" => w.stepped = c.at /\ c.at <= RowsOf[c.text]
  /\ c.state = "ready" => w.stepped = 0
  /\ w.ended => w.stepped = RowsOf[c.text]
OwnRows(w, c) ==
  /\ \A r \in w.read : r[2][2] = r[1] /\ BoundTo(r[2][1], w.args)
  /\ w.ended => w.stepped = RowsOf[c.text]
  /\ ~w.err => InStep(w, c)
RowsInv == \A h \in Handles : handle[h].kind = "rows" => OwnRows(handle[h], stmt[handle[h].stmt])

(* A statement with a row is the one of an open Rows or Stmt. *)
RunningInv == \A s \in Stmts : stmt[s].state = "row" =>
                \E h \in Handles : handle[h].kind # "none" /\ handle[h].stmt = s

SInv == StatementTypeInv /\ StatementCacheInv /\ HeldInv /\ SharedInv /\ RowsInv /\ RunningInv

-------------------------------------------------------------------------------
(* A held handle is one that is not "none". *)
LEMMA HeldHandles ==
  ASSUME StatementTypeInv
  PROVE  Held = {h \in Handles : handle[h].kind # "none"}
BY DEF StatementTypeInv, Held, HandleType

(* Unbound parameters are bindings. *)
LEMMA UnboundType == Unbound \in Bindings
BY DEF Unbound, Bindings

(* A statement that does not exist is a finalized one. *)
LEMMA NoStmtType == NoStmt \in StmtType /\ NoStmt.state = "finalized"
<1> PICK t : t = CHOOSE u \in Texts : TRUE
  OBVIOUS
<1>1. t \in Texts
  BY StatementsAssumption
<1>2. NoStmt = [text |-> t, state |-> "finalized", at |-> 0, bound |-> Unbound]
  BY DEF NoStmt
<1> QED BY <1>1, <1>2, UnboundType DEF StmtType

(* What a call binds is its own arguments, up to the first driver.Valuer.   *)
LEMMA BindsItsArguments ==
  ASSUME NEW args \in ArgLists, Bindable(args), NEW bound,
         bound = [p \in 1..2 |-> IF Binds(args, p) THEN args[p] ELSE Unbound[p]]
  PROVE  BoundTo(bound, args)
<1>1. args \in Seq(Nat) /\ DOMAIN args = 1..Len(args) /\ Len(args) \in Nat
  BY StatementsAssumption
<1> SUFFICES ASSUME NEW p \in 1..2
             PROVE  (IF Binds(args, p) THEN args[p] ELSE Unbound[p])
                      = IF \E i \in DOMAIN args : i < p /\ args[i] \in Valuers THEN 0 ELSE Argument(args, p)
  BY DEF BoundTo
<1>2. Unbound[p] = 0 /\ p \in Nat
  BY DEF Unbound
<1>3. CASE \E i \in DOMAIN args : i < p /\ args[i] \in Valuers
  <2>1. PICK i \in 1..(p - 1) : args[i] \in Valuers
    BY <1>1, <1>3
  <2>2. ~Binds(args, p)
    BY <2>1 DEF Binds, Reached
  <2> QED BY <1>2, <1>3, <2>2
<1>4. CASE ~(\E i \in DOMAIN args : i < p /\ args[i] \in Valuers) /\ p \notin DOMAIN args
  BY <1>2, <1>4 DEF Binds, Argument
<1>5. CASE ~(\E i \in DOMAIN args : i < p /\ args[i] \in Valuers) /\ p \in DOMAIN args
  <2>1. \A i \in 1..(p - 1) : i = 1 /\ i \in DOMAIN args /\ i < p
    BY <1>1, <1>5
  <2>2. Reached(args, 1)
    BY DEF Reached
  <2>3. \A i \in 1..(p - 1) : args[i] # Unsupported
    BY <2>1, <2>2 DEF Bindable
  <2>4. Reached(args, p)
    BY <1>5, <2>1, <2>3 DEF Reached
  <2>5. Binds(args, p)
    BY <1>5, <2>4 DEF Bindable, Binds
  <2> QED BY <1>5, <2>5 DEF Argument
<1> QED BY <1>3, <1>4, <1>5

(* What bindArgs changes of a statement, whatever it was bound to before.   *)
LEMMA BindArgsType ==
  ASSUME NEW c \in StmtType, NEW args \in ArgLists
  PROVE  /\ BindArgs(c, args) \in StmtType
         /\ BindArgs(c, args).text = c.text /\ BindArgs(c, args).state = c.state
         /\ BindArgs(c, args).at = c.at
         /\ c.bound = Unbound /\ Bindable(args) => BoundTo(BindArgs(c, args).bound, args)
<1>1. \A p \in DOMAIN args : args[p] \in Nat
  BY StatementsAssumption
<1> PICK b : b = [p \in 1..2 |-> IF Binds(args, p) THEN args[p] ELSE c.bound[p]]
  OBVIOUS
<1>2. c.bound \in Bindings
  BY DEF StmtType
<1>3. b \in Bindings
  BY <1>1, <1>2 DEF Bindings, Binds
<1>4. BindArgs(c, args) = [text |-> c.text, state |-> c.state, at |-> c.at, bound |-> b]
  BY DEF BindArgs, StmtType
<1>5. c.bound = Unbound /\ Bindable(args) => BoundTo(b, args)
  BY BindsItsArguments
<1> QED BY <1>3, <1>4, <1>5 DEF StmtType

(* A statement that is prepared is ready and bound to nothing.              *)
LEMMA PreparedType ==
  ASSUME NEW t \in Texts
  PROVE  /\ Prepared(t) \in StmtType /\ Prepared(t).text = t
         /\ Prepared(t).state = "ready" /\ Prepared(t).bound = Unbound
BY UnboundType DEF Prepared, StmtType

(* Rebound prepares a statement for its next use. *)
LEMMA ReboundType ==
  ASSUME NEW c \in StmtType, NEW args \in ArgLists
  PROVE  /\ Rebound(c, args) \in StmtType /\ Rebound(c, args).text = c.text
         /\ Rebound(c, args).state = "ready"
         /\ Bindable(args) => BoundTo(Rebound(c, args).bound, args)
<1> DEFINE d == ClearBindings(Reset(c))
<1>1. d \in StmtType /\ d.text = c.text /\ d.state = "ready" /\ d.bound = Unbound
  BY UnboundType DEF ClearBindings, Reset, StmtType
<1> HIDE DEF d
<1>2. Rebound(c, args) = BindArgs(d, args)
  BY DEF Rebound, d
<1> QED BY <1>1, <1>2, BindArgsType

(* A step stays with the text and the bindings. *)
LEMMA StepType ==
  ASSUME NEW c \in StmtType
  PROVE  /\ Step(c) \in StmtType /\ Step(c).text = c.text /\ Step(c).bound = c.bound
         /\ Step(c).at = (IF c.state = "row" THEN c.at + 1 ELSE 1)
         /\ Step(c).state = (IF Step(c).at <= RowsOf[c.text] THEN "row" ELSE "done")
<1> DEFINE at == IF c.state = "row" THEN c.at + 1 ELSE 1
           state == IF at <= RowsOf[c.text] THEN "row" ELSE "done"
<1>1. at \in Nat /\ state \in {"ready", "row", "done", "finalized"}
  BY DEF StmtType
<1>2. Step(c) = [c EXCEPT !.state = state, !.at = at]
  BY DEF Step
<1> HIDE DEF at, state
<1>3. Step(c) = [text |-> c.text, state |-> state, at |-> at, bound |-> c.bound]
  BY <1>2 DEF StmtType
<1>4. Step(c) \in StmtType
  BY <1>1, <1>3 DEF StmtType
<1> QED BY <1>3, <1>4 DEF at, state

(* Reset leaves text and bindings. *)
LEMMA ResetType ==
  ASSUME NEW c \in StmtType
  PROVE  /\ Reset(c) \in StmtType /\ Reset(c).text = c.text /\ Reset(c).bound = c.bound
         /\ Reset(c).state = "ready"
BY DEF Reset, StmtType

(* New rows have read nothing yet. *)
LEMMA RowsHandleType ==
  ASSUME NEW s \in Stmts, NEW owns \in BOOLEAN, NEW args \in ArgLists
  PROVE  /\ RowsHandle(s, owns, args) \in HandleType
         /\ RowsHandle(s, owns, args) =
              [kind |-> "rows", stmt |-> s, owns |-> owns, args |-> args, hasRow |-> FALSE,
               err |-> FALSE, ended |-> FALSE, stepped |-> 0, read |-> {}]
         /\ RowsHandle(s, owns, args).kind = "rows" /\ RowsHandle(s, owns, args).stmt = s
         /\ RowsHandle(s, owns, args).owns = owns
<1> PICK w : w = NoHandle
  OBVIOUS
<1>1. w = [kind |-> "none", stmt |-> 0, owns |-> FALSE, args |-> <<>>, hasRow |-> FALSE,
           err |-> FALSE, ended |-> FALSE, stepped |-> 0, read |-> {}]
  BY DEF NoHandle
<1>2. RowsHandle(s, owns, args) =
        [w EXCEPT !.kind = "rows", !.stmt = s, !.owns = owns, !.args = args]
  BY DEF RowsHandle
<1>3. ASSUME NEW v, v = [w EXCEPT !.kind = "rows", !.stmt = s, !.owns = owns, !.args = args]
      PROVE  v = [kind |-> "rows", stmt |-> s, owns |-> owns, args |-> args, hasRow |-> FALSE,
         err |-> FALSE, ended |-> FALSE, stepped |-> 0, read |-> {}]
  <2>1. w \in HandleType /\ w.hasRow = FALSE /\ w.err = FALSE /\ w.ended = FALSE /\ w.stepped = 0
        /\ w.read = {}
    BY <1>1, StatementsAssumption DEF HandleType, ReadType
  <2> QED BY <1>3, <2>1 DEF HandleType
<1>4. {} \in ReadType /\ s \in 0..MaxStmts /\ args \in Seq(Nat)
  BY StatementsAssumption DEF ReadType, Stmts
<1>5. RowsHandle(s, owns, args) =
        [kind |-> "rows", stmt |-> s, owns |-> owns, args |-> args, hasRow |-> FALSE,
         err |-> FALSE, ended |-> FALSE, stepped |-> 0, read |-> {}]
  BY <1>2, <1>3
<1>6. RowsHandle(s, owns, args) \in HandleType
  BY <1>4, <1>5 DEF HandleType
<1> QED BY <1>5, <1>6

(* NoHandle and the handle of a new Stmt have their types. *)
LEMMA OtherHandleTypes ==
  /\ NoHandle \in HandleType /\ NoHandle.kind = "none"
  /\ \A s \in Stmts :
       /\ [NoHandle EXCEPT !.kind = "stmt", !.stmt = s] \in HandleType
       /\ [NoHandle EXCEPT !.kind = "stmt", !.stmt = s].kind = "stmt"
       /\ [NoHandle EXCEPT !.kind = "stmt", !.stmt = s].stmt = s
<1> PICK w : w = NoHandle
  OBVIOUS
<1>1. w = [kind |-> "none", stmt |-> 0, owns |-> FALSE, args |-> <<>>, hasRow |-> FALSE,
           err |-> FALSE, ended |-> FALSE, stepped |-> 0, read |-> {}]
  BY DEF NoHandle
<1>2. {} \in ReadType /\ 0 \in 0..MaxStmts /\ \A s \in Stmts : s \in 0..MaxStmts
  BY StatementsAssumption DEF ReadType, Stmts
<1>3. w \in HandleType /\ w.kind = "none"
  BY <1>1, <1>2 DEF HandleType
<1>4. ASSUME NEW s \in Stmts, NEW v, v = [w EXCEPT !.kind = "stmt", !.stmt = s]
      PROVE  v \in HandleType /\ v.kind = "stmt" /\ v.stmt = s
  BY <1>2, <1>3, <1>4 DEF HandleType
<1> QED BY <1>3, <1>4

(* The statement that preparing a text returns is used by no handle. *)
LEMMA PreparedIsFree ==
  ASSUME SInv, NEW t \in Texts, TextFree(t), NEW s \in Stmts, IsPrepared(s, t)
  PROVE  /\ \A h \in Handles : handle[h].kind # "none" => handle[h].stmt # s /\ stmt[handle[h].stmt].text # t
         /\ \A u \in Texts : cache[u] = s => u = t
         /\ ~closed
<1>1. Held = {h \in Handles : handle[h].kind # "none"}
  BY HeldHandles DEF SInv
<1>2. s # 0
  BY StatementsAssumption DEF Stmts
<1>3. CASE cache[t] # 0
  BY <1>1, <1>2, <1>3 DEF SInv, StatementCacheInv, IsPrepared, TextFree
<1>4. CASE cache[t] = 0
  BY <1>1, <1>2, <1>4 DEF SInv, StatementCacheInv, IsPrepared, TextFree, Unused, Finalized
<1> QED BY <1>3, <1>4

-------------------------------------------------------------------------------
(* A handle uses its statement, whose rows, if there are any, are its own. *)
LEMMA UsePreserves ==
  ASSUME SInv, NEW h \in Handles, handle[h].kind # "none",
         NEW w \in HandleType, NEW c \in StmtType,
         w.kind = handle[h].kind, w.stmt = handle[h].stmt, w.owns = handle[h].owns,
         c.text = stmt[handle[h].stmt].text, c.state # "finalized",
         w.kind = "rows" => OwnRows(w, c),
         w.kind = "stmt" => StmtFree(h),
         stmt' = [stmt EXCEPT ![handle[h].stmt] = c],
         handle' = [handle EXCEPT ![h] = w],
         UNCHANGED <<cache, misused, closed>>
  PROVE  SInv'
<1> DEFINE s == handle[h].stmt
<1>0. Held = {k \in Handles : handle[k].kind # "none"}
  BY HeldHandles DEF SInv
<1>1. s \in Stmts /\ ~Finalized(s)
  BY StatementsAssumption DEF SInv, StatementTypeInv, HeldInv, HandleType, Stmts
<1>2. /\ stmt'[s] = c /\ \A u \in Stmts \ {s} : stmt'[u] = stmt[u]
      /\ handle'[h] = w /\ \A k \in Handles \ {h} : handle'[k] = handle[k]
  BY <1>1 DEF SInv, StatementTypeInv
<1>3. StatementTypeInv'
  BY <1>1 DEF SInv, StatementTypeInv
<1>4. \A u \in Stmts : stmt'[u].text = stmt[u].text /\ (~Finalized(u) => stmt'[u].state # "finalized")
  BY <1>1, <1>2 DEF Finalized
<1>5. \A k \in Handles : /\ handle'[k].kind = handle[k].kind /\ handle'[k].stmt = handle[k].stmt
                         /\ handle'[k].owns = handle[k].owns
  BY <1>2
<1>6. \A k \in Handles : handle[k].kind # "none" => handle[k].stmt \in Stmts
  BY StatementsAssumption DEF SInv, StatementTypeInv, HeldInv, HandleType, Stmts
<1>7. Held' = Held
  <2>1. Held' = {k \in Handles : handle'[k].kind # "none"}
    BY <1>3, <1>5, <1>0 DEF Held, StatementTypeInv, HandleType
  <2> QED BY <2>1, <1>5, <1>0
<1>8. StatementCacheInv'
  <2>1. \A t \in Texts : cache[t] # 0 => cache[t] \in Stmts
    BY StatementsAssumption DEF SInv, StatementTypeInv, Stmts
  <2> QED BY <2>1, <1>4, <1>7 DEF SInv, StatementCacheInv, Finalized
<1>9. HeldInv'
  BY <1>4, <1>5, <1>6 DEF SInv, HeldInv, Finalized
<1>10. SharedInv'
  BY <1>5 DEF SInv, SharedInv, Shares
<1>11. ASSUME NEW k \in Handles, k # h, handle[k].kind = "rows"
       PROVE  handle[k].stmt # s
  <2>1. CASE w.kind = "stmt"
    BY <1>0, <1>11, <2>1 DEF StmtFree
  <2>2. CASE w.kind = "rows"
    BY <1>11, <2>2 DEF SInv, SharedInv, Shares
  <2> QED BY <2>1, <2>2 DEF HandleType
<1>12. RowsInv'
  BY <1>2, <1>6, <1>11 DEF SInv, RowsInv
<1>13. RunningInv'
  BY <1>2, <1>5 DEF SInv, RunningInv
<1> QED BY <1>3, <1>8, <1>9, <1>10, <1>12, <1>13 DEF SInv

(* A text is prepared whose statement nobody holds; the statement may get a *)
(* new handle, and it may be finalized again at once.                       *)
LEMMA PreparingPreserves ==
  ASSUME SInv, NEW t \in Texts, TextFree(t), NEW s \in Stmts, IsPrepared(s, t),
         NEW c \in StmtType, c.state # "row",
         stmt' = [stmt EXCEPT ![s] = c],
         NEW n \in {0, s}, cache' = [cache EXCEPT ![t] = n],
         n = s => c.text = t /\ c.state # "finalized",
         UNCHANGED <<misused, closed>>,
         \/ UNCHANGED handle
         \/ \E h \in Handles, w \in HandleType :
              /\ Free(h) /\ n = s
              /\ w.kind # "none" /\ w.stmt = s
              /\ w.kind = "rows" => OwnRows(w, c)
              /\ handle' = [handle EXCEPT ![h] = w]
  PROVE  SInv'
<1>0. Held = {k \in Handles : handle[k].kind # "none"}
  BY HeldHandles DEF SInv
<1>1. /\ \A k \in Handles : handle[k].kind # "none" => handle[k].stmt # s /\ stmt[handle[k].stmt].text # t
      /\ \A u \in Texts : cache[u] = s => u = t
      /\ ~closed
  BY PreparedIsFree
<1>2. s \in 0..MaxStmts /\ s # 0 /\ 0 \in 0..MaxStmts
  BY StatementsAssumption DEF Stmts
<1>3. StatementTypeInv'
  BY <1>2 DEF SInv, StatementTypeInv
<1>4. /\ stmt'[s] = c /\ \A u \in Stmts \ {s} : stmt'[u] = stmt[u]
      /\ cache'[t] = n /\ \A u \in Texts \ {t} : cache'[u] = cache[u]
  BY DEF SInv, StatementTypeInv
<1>5. \A k \in Handles : handle[k].kind # "none" =>
        /\ handle[k].stmt \in Stmts \ {s} /\ stmt[handle[k].stmt].text \in Texts \ {t}
        /\ stmt'[handle[k].stmt] = stmt[handle[k].stmt]
  <2> SUFFICES ASSUME NEW k \in Handles, handle[k].kind # "none"
               PROVE  /\ handle[k].stmt \in Stmts \ {s} /\ stmt[handle[k].stmt].text \in Texts \ {t}
                      /\ stmt'[handle[k].stmt] = stmt[handle[k].stmt]
    OBVIOUS
  <2>1. handle[k].stmt \in Stmts
    BY StatementsAssumption DEF SInv, StatementTypeInv, HeldInv, HandleType, Stmts
  <2>2. stmt[handle[k].stmt].text \in Texts
    BY <2>1 DEF SInv, StatementTypeInv, StmtType
  <2> QED BY <1>1, <1>4, <2>1, <2>2
<1>6. StatementCacheInv'
  <2>1. \A u \in Texts : cache[u] # 0 => cache[u] \in Stmts
    BY StatementsAssumption DEF SInv, StatementTypeInv, Stmts
  <2>2. ASSUME NEW u \in Texts, cache'[u] # 0
        PROVE  stmt'[cache'[u]].text = u /\ stmt'[cache'[u]].state # "finalized"
    <3>1. CASE u = t
      BY <1>4, <2>2, <3>1
    <3>2. CASE u # t
      BY <1>1, <1>4, <2>1, <2>2, <3>2 DEF SInv, StatementCacheInv, Finalized
    <3> QED BY <3>1, <3>2
  <2> QED BY <1>1, <2>2 DEF StatementCacheInv, Finalized
<1>7. CASE UNCHANGED handle
  <2>1. HeldInv'
    BY <1>4, <1>5, <1>7 DEF SInv, HeldInv, Finalized
  <2>2. SharedInv'
    BY <1>7 DEF SInv, SharedInv, Shares
  <2>3. RowsInv'
    BY <1>5, <1>7 DEF SInv, RowsInv, StatementTypeInv, HandleType
  <2>4. RunningInv'
    BY <1>4, <1>7 DEF SInv, RunningInv
  <2> QED BY <1>3, <1>6, <2>1, <2>2, <2>3, <2>4 DEF SInv
<1>8. ASSUME NEW h \in Handles, NEW w \in HandleType, Free(h), n = s,
             w.kind # "none", w.stmt = s, w.kind = "rows" => OwnRows(w, c),
             handle' = [handle EXCEPT ![h] = w]
      PROVE  SInv'
  <2>1. handle[h].kind = "none"
    BY <1>0, <1>8 DEF Free
  <2>2. handle'[h] = w /\ \A k \in Handles \ {h} : handle'[k] = handle[k]
    BY <1>8 DEF SInv, StatementTypeInv
  <2>3. HeldInv'
    <3> SUFFICES ASSUME NEW k \in Handles, handle'[k].kind # "none"
                 PROVE  /\ handle'[k].stmt # 0 /\ stmt'[handle'[k].stmt].state # "finalized"
                        /\ cache'[stmt'[handle'[k].stmt].text] = handle'[k].stmt
      BY DEF HeldInv, Finalized
    <3>1. CASE k = h
      BY <1>2, <1>4, <1>8, <2>2, <3>1
    <3>2. CASE k # h
      BY <1>4, <1>5, <2>2, <3>2 DEF SInv, HeldInv, Finalized
    <3> QED BY <3>1, <3>2
  <2>4. SharedInv'
    BY <1>5, <1>8, <2>2 DEF SInv, SharedInv, Shares
  <2>5. RowsInv'
    <3> SUFFICES ASSUME NEW k \in Handles, handle'[k].kind = "rows"
                 PROVE  OwnRows(handle'[k], stmt'[handle'[k].stmt])
      BY DEF RowsInv
    <3>1. CASE k = h
      BY <1>4, <1>8, <2>2, <3>1
    <3>2. CASE k # h
      BY <1>5, <2>2, <3>2 DEF SInv, RowsInv
    <3> QED BY <3>1, <3>2
  <2>6. RunningInv'
    BY <1>4, <2>1, <2>2 DEF SInv, RunningInv
  <2> QED BY <1>3, <1>6, <2>3, <2>4, <2>5, <2>6 DEF SInv
<1> QED BY <1>7, <1>8

(* A Stmt whose rows are closed is queried. *)
LEMMA SharingPreserves ==
  ASSUME SInv, NEW h \in Handles, handle[h].kind = "stmt", StmtFree(h),
         NEW g \in Handles, Free(g),
         NEW w \in HandleType, NEW c \in StmtType,
         w.kind = "rows", w.stmt = handle[h].stmt, ~w.owns, OwnRows(w, c),
         c.text = stmt[handle[h].stmt].text, c.state = "ready",
         stmt' = [stmt EXCEPT ![handle[h].stmt] = c],
         handle' = [handle EXCEPT ![g] = w],
         UNCHANGED <<cache, misused, closed>>
  PROVE  SInv'
<1> DEFINE s == handle[h].stmt
<1>0. Held = {k \in Handles : handle[k].kind # "none"}
  BY HeldHandles DEF SInv
<1>1. s \in Stmts /\ ~Finalized(s) /\ s # 0 /\ cache[stmt[s].text] = s /\ g # h /\ handle[g].kind = "none"
  BY <1>0, StatementsAssumption DEF SInv, StatementTypeInv, HeldInv, HandleType, Stmts, Free
<1>2. /\ stmt'[s] = c /\ \A u \in Stmts \ {s} : stmt'[u] = stmt[u]
      /\ handle'[g] = w /\ \A k \in Handles \ {g} : handle'[k] = handle[k]
  BY <1>1 DEF SInv, StatementTypeInv
<1>3. StatementTypeInv'
  BY <1>1 DEF SInv, StatementTypeInv
<1>4. \A u \in Stmts : stmt'[u].text = stmt[u].text /\ (~Finalized(u) => stmt'[u].state # "finalized")
  BY <1>1, <1>2 DEF Finalized
<1>5. \A k \in Handles : handle[k].kind # "none" =>
        handle[k].stmt \in Stmts /\ (k # h => handle[k].stmt # s)
  BY <1>0, StatementsAssumption DEF SInv, StatementTypeInv, HeldInv, HandleType, Stmts, StmtFree
<1>6. StatementCacheInv'
  <2>1. \A t \in Texts : cache[t] # 0 => cache[t] \in Stmts
    BY StatementsAssumption DEF SInv, StatementTypeInv, Stmts
  <2>2. ~closed
    BY <1>0 DEF SInv, StatementCacheInv
  <2> QED BY <2>1, <2>2, <1>4 DEF SInv, StatementCacheInv, Finalized
<1>7. HeldInv'
  <2> SUFFICES ASSUME NEW k \in Handles, handle'[k].kind # "none"
               PROVE  /\ handle'[k].stmt # 0 /\ stmt'[handle'[k].stmt].state # "finalized"
                      /\ cache'[stmt'[handle'[k].stmt].text] = handle'[k].stmt
    BY DEF HeldInv, Finalized
  <2>1. CASE k = g
    BY <1>1, <1>2, <1>4, <2>1 DEF Finalized
  <2>2. CASE k # g
    BY <1>2, <1>4, <1>5, <2>2 DEF SInv, HeldInv, Finalized
  <2> QED BY <2>1, <2>2
<1>8. SharedInv'
  BY <1>1, <1>2, <1>5 DEF SInv, SharedInv, Shares
<1>9. RowsInv'
  <2> SUFFICES ASSUME NEW k \in Handles, handle'[k].kind = "rows"
               PROVE  OwnRows(handle'[k], stmt'[handle'[k].stmt])
    BY DEF RowsInv
  <2>1. CASE k = g
    BY <1>2, <2>1
  <2>2. CASE k # g
    BY <1>2, <1>5, <2>2 DEF SInv, RowsInv
  <2> QED BY <2>1, <2>2
<1>10. RunningInv'
  BY <1>1, <1>2 DEF SInv, RunningInv
<1> QED BY <1>3, <1>6, <1>7, <1>8, <1>9, <1>10 DEF SInv

(* A handle is closed that its statement belongs to alone. *)
LEMMA FinalizingPreserves ==
  ASSUME SInv, NEW h \in Handles, handle[h].kind # "none",
         \A k \in Handles \ {h} : handle[k].kind # "none" => handle[k].stmt # handle[h].stmt,
         Finalize(handle[h].stmt), handle' = [handle EXCEPT ![h] = NoHandle], UNCHANGED closed
  PROVE  SInv' /\ (~misused => ~misused')
<1> DEFINE s == handle[h].stmt
<1>0. Held = {k \in Handles : handle[k].kind # "none"}
  BY HeldHandles DEF SInv
<1>1. s \in Stmts /\ ~Finalized(s) /\ stmt[s] \in StmtType
  BY StatementsAssumption DEF SInv, StatementTypeInv, HeldInv, HandleType, Stmts
<1> PICK w : w = NoHandle
  OBVIOUS
<1>w. w \in HandleType /\ w.kind = "none"
  BY OtherHandleTypes
<1>2. handle'[h] = w /\ \A k \in Handles \ {h} : handle'[k] = handle[k]
  BY DEF SInv, StatementTypeInv
<1> PICK c : c = [stmt[s] EXCEPT !.state = "finalized"]
  OBVIOUS
<1>c. c \in StmtType /\ c.state = "finalized"
  BY <1>1 DEF StmtType
<1>3. stmt' = [stmt EXCEPT ![s] = c]
  BY DEF Finalize
<1>4. stmt'[s] = c /\ \A u \in Stmts \ {s} : stmt'[u] = stmt[u]
  BY <1>1, <1>3 DEF SInv, StatementTypeInv
<1>5. \A t \in Texts : cache'[t] = IF cache[t] = s THEN 0 ELSE cache[t]
  BY DEF Finalize
<1>6. cache' \in [Texts -> 0..MaxStmts]
  BY StatementsAssumption DEF Finalize, SInv, StatementTypeInv
<1>7. misused' = misused
  BY <1>1 DEF Finalize, SInv, StatementTypeInv
<1>8. StatementTypeInv'
  BY <1>w, <1>c, <1>1, <1>3, <1>6, <1>7 DEF SInv, StatementTypeInv
<1>9. \A k \in Handles : handle'[k].kind # "none" =>
        k # h /\ handle'[k] = handle[k] /\ handle[k].stmt \in Stmts \ {s}
          /\ stmt[handle[k].stmt].text \in Texts
  BY <1>w, <1>2, StatementsAssumption DEF SInv, StatementTypeInv, HeldInv, HandleType, StmtType, Stmts
<1>10. StatementCacheInv'
  <2>1. \A t \in Texts : cache[t] # 0 => cache[t] \in Stmts
    BY StatementsAssumption DEF SInv, StatementTypeInv, Stmts
  <2>2. ~closed
    BY <1>0 DEF SInv, StatementCacheInv
  <2> QED BY <2>1, <2>2, <1>4, <1>5 DEF SInv, StatementCacheInv, Finalized
<1>11. HeldInv'
  BY <1>4, <1>5, <1>9 DEF SInv, HeldInv, Finalized
<1>12. SharedInv'
  BY <1>9 DEF SInv, SharedInv, Shares
<1>13. RowsInv'
  <2> SUFFICES ASSUME NEW k \in Handles, handle'[k].kind = "rows"
               PROVE  OwnRows(handle'[k], stmt'[handle'[k].stmt])
    BY DEF RowsInv
  <2> QED BY <1>4, <1>9 DEF SInv, RowsInv
<1>14. RunningInv'
  <2> SUFFICES ASSUME NEW u \in Stmts, stmt'[u].state = "row"
               PROVE  \E k \in Handles : handle'[k].kind # "none" /\ handle'[k].stmt = u
    BY DEF RunningInv
  <2>1. u # s /\ stmt[u].state = "row"
    BY <1>c, <1>4
  <2>2. PICK k \in Handles : handle[k].kind # "none" /\ handle[k].stmt = u
    BY <2>1 DEF SInv, RunningInv
  <2> QED BY <1>2, <2>1, <2>2
<1> QED BY <1>7, <1>8, <1>10, <1>11, <1>12, <1>13, <1>14 DEF SInv

(* The rows of a Stmt are closed, which resets the statement. *)
LEMMA ReleasingPreserves ==
  ASSUME SInv, NEW h \in Handles, handle[h].kind = "rows", ~handle[h].owns,
         stmt' = [stmt EXCEPT ![handle[h].stmt] = Reset(@)],
         handle' = [handle EXCEPT ![h] = NoHandle],
         UNCHANGED <<cache, misused, closed>>
  PROVE  SInv'
<1> DEFINE s == handle[h].stmt
<1>0. Held = {k \in Handles : handle[k].kind # "none"}
  BY HeldHandles DEF SInv
<1>1. s \in Stmts /\ ~Finalized(s) /\ stmt[s] \in StmtType
  BY StatementsAssumption DEF SInv, StatementTypeInv, HeldInv, HandleType, Stmts
<1> PICK w : w = NoHandle
  OBVIOUS
<1>w. w \in HandleType /\ w.kind = "none"
  BY OtherHandleTypes
<1> PICK c : c = Reset(stmt[s])
  OBVIOUS
<1>c. c \in StmtType /\ c.state = "ready" /\ c.text = stmt[s].text
  BY <1>1, ResetType
<1>2. /\ handle'[h] = w /\ \A k \in Handles \ {h} : handle'[k] = handle[k]
      /\ stmt'[s] = c /\ \A u \in Stmts \ {s} : stmt'[u] = stmt[u]
  BY <1>1 DEF SInv, StatementTypeInv
<1>3. stmt' = [stmt EXCEPT ![s] = c]
  OBVIOUS
<1>4. StatementTypeInv'
  BY <1>w, <1>c, <1>1, <1>3 DEF SInv, StatementTypeInv
<1>5. \A u \in Stmts : stmt'[u].text = stmt[u].text /\ (~Finalized(u) => stmt'[u].state # "finalized")
  BY <1>c, <1>1, <1>2 DEF Finalized
<1>6. \A k \in Handles : handle'[k].kind # "none" =>
        k # h /\ handle'[k] = handle[k] /\ handle[k].stmt \in Stmts
  BY <1>w, <1>2, StatementsAssumption DEF SInv, StatementTypeInv, HeldInv, HandleType, Stmts
<1>7. StatementCacheInv'
  <2>1. \A t \in Texts : cache[t] # 0 => cache[t] \in Stmts
    BY StatementsAssumption DEF SInv, StatementTypeInv, Stmts
  <2>2. ~closed
    BY <1>0 DEF SInv, StatementCacheInv
  <2> QED BY <2>1, <2>2, <1>5 DEF SInv, StatementCacheInv, Finalized
<1>8. HeldInv'
  BY <1>5, <1>6 DEF SInv, HeldInv, Finalized
<1>9. SharedInv'
  BY <1>6 DEF SInv, SharedInv, Shares
<1>10. RowsInv'
  <2> SUFFICES ASSUME NEW k \in Handles, handle'[k].kind = "rows"
               PROVE  OwnRows(handle'[k], stmt'[handle'[k].stmt])
    BY DEF RowsInv
  <2>1. k # h /\ handle'[k] = handle[k] /\ handle[k].stmt \in Stmts
    BY <1>6
  <2>2. handle[k].stmt # s
    BY <2>1 DEF SInv, SharedInv, Shares
  <2> QED BY <1>2, <2>1, <2>2 DEF SInv, RowsInv
<1>11. RunningInv'
  <2> SUFFICES ASSUME NEW u \in Stmts, stmt'[u].state = "row"
               PROVE  \E k \in Handles : handle'[k].kind # "none" /\ handle'[k].stmt = u
    BY DEF RunningInv
  <2>1. u # s /\ stmt[u].state = "row"
    BY <1>c, <1>2
  <2>2. PICK k \in Handles : handle[k].kind # "none" /\ handle[k].stmt = u
    BY <2>1 DEF SInv, RunningInv
  <2> QED BY <1>2, <2>1, <2>2
<1> QED BY <1>4, <1>7, <1>8, <1>9, <1>10, <1>11 DEF SInv

-------------------------------------------------------------------------------
(* What every step keeps. *)
Kept == SInv /\ NoUseAfterFinalize /\ ExecRunsWithItsArguments

(* The statement of a held handle. *)
LEMMA HeldStmt ==
  ASSUME SInv, NEW h \in Handles, handle[h].kind # "none"
  PROVE  /\ handle[h].stmt \in Stmts /\ ~Finalized(handle[h].stmt)
         /\ stmt[handle[h].stmt] \in StmtType /\ handle[h] \in HandleType
BY StatementsAssumption DEF SInv, StatementTypeInv, HeldInv, HandleType, Stmts

(* A statement that was just bound fits rows that were just opened. *)
LEMMA NewRows ==
  ASSUME NEW s \in Stmts, NEW owns \in BOOLEAN, NEW args \in ArgLists,
         NEW c, BoundTo(c.bound, args), c.state = "ready"
  PROVE  OwnRows(RowsHandle(s, owns, args), c)
<1> PICK w : w = RowsHandle(s, owns, args)
  OBVIOUS
<1>1. w.read = {} /\ w.ended = FALSE /\ w.args = args /\ w.hasRow = FALSE /\ w.stepped = 0
  BY RowsHandleType
<1> QED BY <1>1 DEF OwnRows, InStep

(* Exec *)
LEMMA ExecKeeps ==
  ASSUME Kept, NEW t \in Texts, NEW args \in ArgLists, Exec(t, args)
  PROVE  Kept'
<1> PICK s \in Stmts : /\ IsPrepared(s, t)
                       /\ stmt' = [stmt EXCEPT ![s] =
                                    [Prepared(t) EXCEPT !.bound = [p \in 1..2 |-> Argument(args, p)]]]
                       /\ cache' = [cache EXCEPT ![t] = s]
  BY DEF Exec
<1> PICK b : b = [p \in 1..2 |-> Argument(args, p)]
  OBVIOUS
<1> PICK c : c = [Prepared(t) EXCEPT !.bound = b]
  OBVIOUS
<1>b. b \in Bindings
  BY StatementsAssumption DEF Bindings, Argument
<1>1. c \in StmtType /\ c.state = "ready" /\ c.text = t
  BY <1>b, PreparedType DEF StmtType
<1>2. SInv'
  <2>1. stmt' = [stmt EXCEPT ![s] = c]
    OBVIOUS
  <2> QED BY <1>1, <2>1, PreparingPreserves DEF Kept, Exec
<1> QED BY <1>2 DEF Kept, Exec, NoUseAfterFinalize, ExecRunsWithItsArguments

(* Query *)
LEMMA QueryKeeps ==
  ASSUME Kept, NEW h \in Handles, NEW t \in Texts, NEW args \in ArgLists, Query(h, t, args)
  PROVE  Kept'
<1> PICK s \in Stmts :
      /\ IsPrepared(s, t)
      /\ IF Bindable(args)
         THEN /\ stmt' = [stmt EXCEPT ![s] = BindArgs(Prepared(t), args)]
              /\ cache' = [cache EXCEPT ![t] = s]
              /\ handle' = [handle EXCEPT ![h] = RowsHandle(s, TRUE, args)]
         ELSE /\ stmt' = [stmt EXCEPT ![s].state = "finalized"]
              /\ cache' = [cache EXCEPT ![t] = 0]
              /\ UNCHANGED handle
  BY DEF Query
<1>0. SUFFICES SInv'
  BY DEF Kept, Query, NoUseAfterFinalize, ExecRunsWithItsArguments
<1>1. CASE Bindable(args)
  <2> PICK c : c = BindArgs(Prepared(t), args)
    OBVIOUS
  <2>1. c \in StmtType /\ c.state = "ready" /\ c.text = t /\ BoundTo(c.bound, args)
    BY <1>1, PreparedType, BindArgsType
  <2> PICK w : w = RowsHandle(s, TRUE, args)
    OBVIOUS
  <2>2. w \in HandleType /\ w.kind = "rows" /\ w.stmt = s
    <3>1. TRUE \in BOOLEAN
      OBVIOUS
    <3>2. /\ RowsHandle(s, TRUE, args) \in HandleType /\ RowsHandle(s, TRUE, args).kind = "rows"
          /\ RowsHandle(s, TRUE, args).stmt = s /\ RowsHandle(s, TRUE, args).owns = TRUE
      BY <3>1, RowsHandleType, Zenon
    <3> QED BY <3>2
  <2>3. OwnRows(w, c)
    <3>1. TRUE \in BOOLEAN
      OBVIOUS
    <3> QED BY <2>1, <3>1, NewRows
  <2>4. Free(h) /\ TextFree(t) /\ UNCHANGED <<misused, closed>>
    BY DEF Query
  <2>5. handle' = [handle EXCEPT ![h] = w] /\ stmt' = [stmt EXCEPT ![s] = c] /\ cache' = [cache EXCEPT ![t] = s]
    BY <1>1
  <2>6. \E g \in Handles, v \in HandleType :
          /\ Free(g) /\ s = s
          /\ v.kind # "none" /\ v.stmt = s
          /\ v.kind = "rows" => OwnRows(v, c)
          /\ handle' = [handle EXCEPT ![g] = v]
    BY <2>2, <2>3, <2>4, <2>5
  <2> QED BY <2>1, <2>4, <2>5, <2>6, PreparingPreserves, ZenonT(60) DEF Kept
<1>2. CASE ~Bindable(args)
  <2> PICK c : c = [stmt[s] EXCEPT !.state = "finalized"]
    OBVIOUS
  <2>1. c \in StmtType /\ c.state = "finalized"
    BY DEF Kept, SInv, StatementTypeInv, StmtType
  <2>2. stmt' = [stmt EXCEPT ![s] = c]
    BY <1>2
  <2>3. TextFree(t) /\ UNCHANGED <<misused, closed>>
    BY DEF Query
  <2>4. s # 0
    BY StatementsAssumption DEF Stmts
  <2> QED BY <1>2, <2>1, <2>2, <2>3, <2>4, PreparingPreserves DEF Kept
<1> QED BY <1>1, <1>2

(* Prepare *)
LEMMA PrepareKeeps ==
  ASSUME Kept, NEW h \in Handles, NEW t \in Texts, Prepare(h, t)
  PROVE  Kept'
<1> PICK s \in Stmts : /\ IsPrepared(s, t)
                       /\ stmt' = [stmt EXCEPT ![s] = Prepared(t)]
                       /\ cache' = [cache EXCEPT ![t] = s]
                       /\ handle' = [handle EXCEPT ![h] = [NoHandle EXCEPT !.kind = "stmt", !.stmt = s]]
  BY DEF Prepare
<1> PICK c : c = Prepared(t)
  OBVIOUS
<1>1. c \in StmtType /\ c.state = "ready" /\ c.text = t
  BY PreparedType
<1> PICK w : w = [NoHandle EXCEPT !.kind = "stmt", !.stmt = s]
  OBVIOUS
<1>2. w \in HandleType /\ w.kind = "stmt" /\ w.stmt = s
  BY OtherHandleTypes
<1>3. Free(h) /\ TextFree(t) /\ UNCHANGED <<misused, closed>>
  BY DEF Prepare
<1>5. handle' = [handle EXCEPT ![h] = w] /\ stmt' = [stmt EXCEPT ![s] = c] /\ c.state # "row"
  BY <1>1
<1>6. \E g \in Handles, v \in HandleType :
        /\ Free(g) /\ s = s
        /\ v.kind # "none" /\ v.stmt = s
        /\ v.kind = "rows" => OwnRows(v, c)
        /\ handle' = [handle EXCEPT ![g] = v]
  BY <1>2, <1>3, <1>5
<1>7. SInv'
  BY <1>1, <1>3, <1>5, <1>6, PreparingPreserves, ZenonT(60) DEF Kept
<1> QED BY <1>7 DEF Kept, Prepare, NoUseAfterFinalize, ExecRunsWithItsArguments

(* statement.Exec *)
LEMMA StmtExecKeeps ==
  ASSUME Kept, NEW h \in Handles, NEW args \in ArgLists, StmtExec(h, args)
  PROVE  Kept'
<1> DEFINE s == handle[h].stmt
<1>1. s \in Stmts /\ ~Finalized(s) /\ stmt[s] \in StmtType /\ handle[h] \in HandleType
      /\ handle[h].kind = "stmt" /\ StmtFree(h)
  BY HeldStmt DEF Kept, StmtExec
<1> PICK c : c = Rebound(stmt[s], args)
  OBVIOUS
<1>2. /\ c \in StmtType /\ c.text = stmt[s].text /\ c.state = "ready"
      /\ Bindable(args) => BoundTo(c.bound, args)
  BY <1>1, ReboundType
<1>3. handle' = [handle EXCEPT ![h] = handle[h]] /\ UNCHANGED <<cache, misused, closed>>
  BY <1>1 DEF StmtExec, Misuse, Kept, SInv, StatementTypeInv
<1>4. \/ Bindable(args) /\ stmt' = [stmt EXCEPT ![s] = Step(c)] /\ ran' = [args |-> args, got |-> c.bound]
      \/ stmt' = [stmt EXCEPT ![s] = c] /\ UNCHANGED ran
  BY <1>1 DEF StmtExec, Misuse
<1>5. PICK d \in {c, Step(c)} : stmt' = [stmt EXCEPT ![s] = d]
  BY <1>4
<1>6. d \in StmtType /\ d.text = stmt[s].text /\ d.state # "finalized"
  BY <1>2, StepType
<1>7. SInv'
  BY <1>1, <1>3, <1>5, <1>6, UsePreserves DEF Kept
<1>8. ExecRunsWithItsArguments'
  BY <1>2, <1>4 DEF Kept, ExecRunsWithItsArguments
<1> QED BY <1>3, <1>7, <1>8 DEF Kept, NoUseAfterFinalize

(* statement.Query *)
LEMMA StmtQueryKeeps ==
  ASSUME Kept, NEW h \in Handles, NEW g \in Handles, NEW args \in ArgLists, StmtQuery(h, g, args)
  PROVE  Kept'
<1> DEFINE s == handle[h].stmt
<1>1. s \in Stmts /\ ~Finalized(s) /\ stmt[s] \in StmtType /\ handle[h] \in HandleType
      /\ handle[h].kind = "stmt" /\ StmtFree(h) /\ Free(g)
  BY HeldStmt DEF Kept, StmtQuery
<1> PICK c : c = Rebound(stmt[s], args)
  OBVIOUS
<1>2. /\ c \in StmtType /\ c.text = stmt[s].text /\ c.state = "ready"
      /\ Bindable(args) => BoundTo(c.bound, args)
  BY <1>1, ReboundType
<1>3. /\ stmt' = [stmt EXCEPT ![s] = c]
      /\ handle' = IF Bindable(args) THEN [handle EXCEPT ![g] = RowsHandle(s, FALSE, args)] ELSE handle
      /\ UNCHANGED <<cache, ran, misused, closed>>
  BY <1>1 DEF StmtQuery, Misuse
<1>0. SUFFICES SInv'
  BY <1>3 DEF Kept, NoUseAfterFinalize, ExecRunsWithItsArguments
<1>4. CASE Bindable(args)
  <2> PICK w : w = RowsHandle(s, FALSE, args)
    OBVIOUS
  <2>1. w \in HandleType /\ w.kind = "rows" /\ w.stmt = s /\ ~w.owns
    <3>1. FALSE \in BOOLEAN
      OBVIOUS
    <3>2. /\ RowsHandle(s, FALSE, args) \in HandleType /\ RowsHandle(s, FALSE, args).kind = "rows"
          /\ RowsHandle(s, FALSE, args).stmt = s /\ RowsHandle(s, FALSE, args).owns = FALSE
      BY <1>1, <3>1, RowsHandleType, ZenonT(60)
    <3> QED BY <3>2
  <2>2. OwnRows(w, c)
    <3>1. FALSE \in BOOLEAN
      OBVIOUS
    <3> QED BY <1>1, <1>2, <1>4, <3>1, NewRows
  <2> QED BY <1>1, <1>2, <1>3, <1>4, <2>1, <2>2, SharingPreserves DEF Kept
<1>5. CASE ~Bindable(args)
  <2>1. handle' = [handle EXCEPT ![h] = handle[h]]
    BY <1>3, <1>5 DEF Kept, SInv, StatementTypeInv
  <2> QED BY <1>1, <1>2, <1>3, <2>1, UsePreserves DEF Kept
<1> QED BY <1>4, <1>5

(* statement.Close *)
LEMMA StmtCloseKeeps ==
  ASSUME Kept, NEW h \in Handles, StmtClose(h)
  PROVE  Kept'
<1>1. Held = {k \in Handles : handle[k].kind # "none"}
  BY HeldHandles DEF Kept, SInv
<1>2. SInv' /\ (~misused => ~misused')
  BY <1>1, FinalizingPreserves DEF Kept, StmtClose, StmtFree
<1> QED BY <1>2 DEF Kept, StmtClose, NoUseAfterFinalize, ExecRunsWithItsArguments

(* rows.Close *)
LEMMA RowsCloseKeeps ==
  ASSUME Kept, NEW h \in Handles, RowsClose(h)
  PROVE  Kept'
<1> DEFINE s == handle[h].stmt
<1>1. s \in Stmts /\ ~Finalized(s) /\ stmt[s] \in StmtType /\ handle[h] \in HandleType
      /\ handle[h].kind = "rows"
  BY HeldStmt DEF Kept, RowsClose
<1>2. handle' = [handle EXCEPT ![h] = NoHandle] /\ UNCHANGED <<ran, closed>>
  BY DEF RowsClose
<1>3. CASE handle[h].owns
  <2>1. Finalize(s)
    BY <1>3 DEF RowsClose
  <2>2. \A k \in Handles \ {h} : handle[k].kind # "none" => handle[k].stmt # s
    BY <1>1, <1>3 DEF Kept, SInv, SharedInv, Shares
  <2>3. SInv' /\ (~misused => ~misused')
    BY <1>1, <1>2, <2>1, <2>2, FinalizingPreserves DEF Kept
  <2> QED BY <1>2, <2>3 DEF Kept, NoUseAfterFinalize, ExecRunsWithItsArguments
<1>4. CASE ~handle[h].owns
  <2>1. stmt' = [stmt EXCEPT ![s] = Reset(@)] /\ UNCHANGED <<cache, misused>>
    <3>1. /\ stmt' = [stmt EXCEPT ![s] = IF Finalized(s) THEN @ ELSE Reset(@)]
          /\ misused' = (misused \/ Finalized(s)) /\ UNCHANGED cache
      BY <1>4 DEF RowsClose
    <3>2. stmt' = [stmt EXCEPT ![s] = Reset(@)]
      BY <1>1, <3>1
    <3>3. misused' = misused
      BY <1>1, <3>1 DEF Kept, SInv, StatementTypeInv
    <3> QED BY <3>1, <3>2, <3>3
  <2>2. SInv'
    BY <1>1, <1>2, <1>4, <2>1, ReleasingPreserves DEF Kept
  <2> QED BY <1>2, <2>1, <2>2 DEF Kept, NoUseAfterFinalize, ExecRunsWithItsArguments
<1> QED BY <1>3, <1>4

(* After the last row there is none. *)
LEMMA LastRow == \A at, last \in Nat : at <= last /\ ~(at + 1 <= last) => at = last
OBVIOUS

(* rows.Next *)
LEMMA RowsNextKeeps ==
  ASSUME Kept, NEW h \in Handles, RowsNext(h)
  PROVE  Kept'
<1> DEFINE s == handle[h].stmt
<1>1. s \in Stmts /\ ~Finalized(s) /\ stmt[s] \in StmtType /\ handle[h] \in HandleType
      /\ handle[h].kind = "rows" /\ ~handle[h].err /\ ~handle[h].ended
  BY HeldStmt DEF Kept, RowsNext
<1>2. OwnRows(handle[h], stmt[s]) /\ RowsOf[stmt[s].text] \in Nat
  BY <1>1, StatementsAssumption DEF Kept, SInv, RowsInv, StmtType
<1>3. UNCHANGED <<cache, ran, misused, closed>>
  BY <1>1 DEF RowsNext, Misuse
<1>4. CASE /\ stmt' = [stmt EXCEPT ![s] = Step(@)]
           /\ handle' = [handle EXCEPT ![h].hasRow = Step(stmt[s]).state = "row",
                           ![h].ended = ~(Step(stmt[s]).state = "row"),
                           ![h].stepped = IF Step(stmt[s]).state = "row" THEN Step(stmt[s]).at ELSE @]
  <2> PICK c : c = Step(stmt[s])
    OBVIOUS
  <2>1. /\ c \in StmtType /\ c.text = stmt[s].text /\ c.bound = stmt[s].bound
        /\ c.at = (IF stmt[s].state = "row" THEN stmt[s].at + 1 ELSE 1)
        /\ c.state = (IF c.at <= RowsOf[stmt[s].text] THEN "row" ELSE "done")
    BY <1>1, StepType
  <2> PICK w : w = [handle[h] EXCEPT !.hasRow = c.state = "row", !.ended = ~(c.state = "row"),
                      !.stepped = IF c.state = "row" THEN c.at ELSE @]
    OBVIOUS
  <2>2. /\ w \in HandleType /\ w.kind = "rows" /\ w.stmt = s /\ w.owns = handle[h].owns
        /\ (w.hasRow <=> c.state = "row") /\ (w.ended <=> c.state # "row") /\ w.err = FALSE
        /\ w.stepped = (IF c.state = "row" THEN c.at ELSE handle[h].stepped)
        /\ w.args = handle[h].args /\ w.read = handle[h].read
    BY <1>1, <2>1 DEF HandleType, StmtType
  <2>3. handle' = [handle EXCEPT ![h] = w] /\ stmt' = [stmt EXCEPT ![s] = c]
    BY <1>4 DEF Kept, SInv, StatementTypeInv, HandleType
  <2>4. stmt[s].state # "done" /\ c.at \in Nat /\ handle[h].stepped \in Nat /\ stmt[s].at \in Nat
        /\ stmt[s].state \in {"ready", "row"}
    BY <1>1, <1>2, <2>1 DEF OwnRows, InStep, StmtType, HandleType, Finalized
  <2>5. w.ended => w.stepped = RowsOf[c.text]
    <3> DEFINE last == RowsOf[stmt[s].text]
    <3>0. last \in Nat
      BY <1>2
    <3>1. /\ w.ended => ~(c.at <= last) /\ w.stepped = handle[h].stepped
          /\ c.text = stmt[s].text
      BY <2>1, <2>2
    <3>2. CASE stmt[s].state = "row"
      <4>1. c.at = stmt[s].at + 1 /\ handle[h].stepped = stmt[s].at /\ stmt[s].at <= last
        BY <1>1, <1>2, <2>1, <3>2 DEF OwnRows, InStep
      <4> HIDE DEF last
      <4>2. w.ended => w.stepped = last
        BY <2>4, <3>0, <3>1, <4>1, LastRow, Zenon
      <4> QED BY <3>1, <4>2 DEF last
    <3>3. CASE stmt[s].state = "ready"
      <4>1. c.at = 1 /\ handle[h].stepped = 0
        BY <1>1, <1>2, <2>1, <3>3 DEF OwnRows, InStep
      <4> HIDE DEF last
      <4>2. w.ended => w.stepped = last
        BY <2>4, <3>0, <3>1, <4>1
      <4> QED BY <3>1, <4>2 DEF last
    <3> QED BY <2>4, <3>2, <3>3
  <2>6. InStep(w, c)
    BY <1>1, <1>2, <2>1, <2>2, <2>4, <2>5 DEF OwnRows, InStep
  <2>7. OwnRows(w, c)
    BY <1>2, <2>2, <2>5, <2>6 DEF OwnRows
  <2>8. SInv'
    BY <1>1, <1>3, <2>1, <2>2, <2>3, <2>7, UsePreserves, ZenonT(60) DEF Kept
  <2> QED BY <1>3, <2>8 DEF Kept, NoUseAfterFinalize, ExecRunsWithItsArguments
<1>5. CASE stmt' = [stmt EXCEPT ![s] = Reset(@)] /\ handle' = [handle EXCEPT ![h].err = TRUE]
  <2> PICK c : c = Reset(stmt[s])
    OBVIOUS
  <2>1. c \in StmtType /\ c.text = stmt[s].text /\ c.state = "ready"
    BY <1>1, ResetType
  <2> PICK w : w = [handle[h] EXCEPT !.err = TRUE]
    OBVIOUS
  <2>2. /\ w \in HandleType /\ w.kind = "rows" /\ w.stmt = s /\ w.owns = handle[h].owns
        /\ w.ended = handle[h].ended /\ w.err = TRUE
        /\ w.args = handle[h].args /\ w.read = handle[h].read
    BY <1>1 DEF HandleType
  <2>3. handle' = [handle EXCEPT ![h] = w] /\ stmt' = [stmt EXCEPT ![s] = c]
    BY <1>5
  <2>4. OwnRows(w, c)
    BY <1>1, <1>2, <2>2 DEF OwnRows
  <2>5. SInv'
    BY <1>1, <1>3, <2>1, <2>2, <2>3, <2>4, UsePreserves DEF Kept
  <2> QED BY <1>3, <2>5 DEF Kept, NoUseAfterFinalize, ExecRunsWithItsArguments
<1> QED BY <1>1, <1>4, <1>5 DEF RowsNext, Misuse

(* rows.Scan *)
LEMMA RowsScanKeeps ==
  ASSUME Kept, NEW h \in Handles, RowsScan(h)
  PROVE  Kept'
<1> DEFINE s == handle[h].stmt
<1>1. s \in Stmts /\ ~Finalized(s) /\ stmt[s] \in StmtType /\ handle[h] \in HandleType
      /\ handle[h].kind = "rows" /\ ~handle[h].err /\ handle[h].hasRow
  BY HeldStmt DEF Kept, RowsScan
<1>2. OwnRows(handle[h], stmt[s])
  BY <1>1 DEF Kept, SInv, RowsInv
<1>3. /\ handle' = [handle EXCEPT ![h].read = @ \cup {<<handle[h].stepped, ColumnsOf(stmt[s])>>}]
      /\ UNCHANGED <<stmt, cache, ran, misused, closed>>
  BY <1>1 DEF RowsScan, Misuse
<1> DEFINE row == <<handle[h].stepped, <<stmt[s].bound, handle[h].stepped>>>>
<1>4. <<handle[h].stepped, ColumnsOf(stmt[s])>> = row
  BY <1>1, <1>2 DEF OwnRows, InStep, ColumnsOf
<1>5. row \in Nat \X (Bindings \X Nat)
  BY <1>1 DEF HandleType, StmtType
<1> PICK w : w = [handle[h] EXCEPT !.read = @ \cup {row}]
  OBVIOUS
<1>6. /\ w \in HandleType /\ w.kind = "rows" /\ w.stmt = s /\ w.owns = handle[h].owns
      /\ w.read = handle[h].read \cup {row} /\ w.args = handle[h].args
      /\ w.hasRow = handle[h].hasRow /\ w.ended = handle[h].ended /\ w.err = handle[h].err
      /\ w.stepped = handle[h].stepped
  BY <1>1, <1>5 DEF HandleType, ReadType
<1>7. handle' = [handle EXCEPT ![h] = w] /\ stmt' = [stmt EXCEPT ![s] = stmt[s]]
  BY <1>3, <1>4 DEF Kept, SInv, StatementTypeInv
<1>8. OwnRows(w, stmt[s])
  <2>1. row[2][2] = row[1] /\ BoundTo(row[2][1], w.args)
    BY <1>1, <1>2, <1>6 DEF OwnRows, InStep
  <2>2. \A r \in w.read : r[2][2] = r[1] /\ BoundTo(r[2][1], w.args)
    BY <1>2, <1>6, <2>1 DEF OwnRows
  <2> QED BY <1>1, <1>2, <1>6, <2>2 DEF OwnRows, InStep
<1>9. stmt[s].state # "finalized"
  BY <1>1 DEF Finalized
<1>10. SInv'
  <2> PICK c : c = stmt[s]
    OBVIOUS
  <2>1. c \in StmtType /\ c.text = stmt[s].text /\ c.state # "finalized" /\ OwnRows(w, c)
    BY <1>1, <1>8, <1>9
  <2>2. stmt' = [stmt EXCEPT ![s] = c]
    BY <1>7
  <2>3. handle' = [handle EXCEPT ![h] = w] /\ UNCHANGED <<cache, misused, closed>>
    BY <1>3, <1>7
  <2>4. /\ w \in HandleType /\ w.kind = handle[h].kind /\ w.stmt = handle[h].stmt
        /\ w.owns = handle[h].owns /\ handle[h].kind = "rows"
    BY <1>1, <1>6
  <2> QED BY <2>1, <2>2, <2>3, <2>4, UsePreserves DEF Kept
<1> QED BY <1>3, <1>10 DEF Kept, NoUseAfterFinalize, ExecRunsWithItsArguments

(* connection.Close, and another connection. *)
LEMMA CloseKeeps ==
  ASSUME Kept, Close \/ Connect
  PROVE  Kept'
<1>1. Held = {k \in Handles : handle[k].kind # "none"}
  BY HeldHandles DEF Kept, SInv
<1>2. Held = {}
  BY DEF Kept, SInv, StatementCacheInv, Close, Connect
<1>3. \A k \in Handles : handle[k].kind = "none"
  BY <1>1, <1>2
<1> PICK none : none = NoStmt
  OBVIOUS
<1>4. none \in StmtType /\ none.state = "finalized"
  BY NoStmtType
<1>5. UNCHANGED <<handle, ran, misused>> /\ closed' \in BOOLEAN
  BY DEF Close, Connect
<1>6. Held' = {}
  BY <1>2, <1>5 DEF Held
<1>7. stmt' \in [Stmts -> StmtType] /\ \A u \in Stmts : stmt'[u].state = "row" => stmt[u].state = "row"
  BY <1>4 DEF Close, Connect, Kept, SInv, StatementTypeInv
<1>8. cache' \in [Texts -> 0..MaxStmts] /\ \A t \in Texts : cache'[t] = 0
  BY StatementsAssumption DEF Close, Connect, Kept, SInv, StatementTypeInv, StatementCacheInv
<1>9. StatementTypeInv' /\ StatementCacheInv'
  BY <1>5, <1>6, <1>7, <1>8 DEF Kept, SInv, StatementTypeInv, StatementCacheInv
<1>10. HeldInv' /\ SharedInv' /\ RowsInv'
  BY <1>3, <1>5 DEF HeldInv, SharedInv, RowsInv
<1>11. RunningInv'
  BY <1>3, <1>7 DEF Kept, SInv, RunningInv
<1>12. SInv'
  BY <1>9, <1>10, <1>11 DEF SInv
<1> QED BY <1>5, <1>12 DEF Kept, NoUseAfterFinalize, ExecRunsWithItsArguments

-------------------------------------------------------------------------------
(* Nothing is prepared or held in the beginning. *)
LEMMA InitKept == Init => Kept
<1> SUFFICES ASSUME Init PROVE Kept
  OBVIOUS
<1> PICK none : none = NoStmt
  OBVIOUS
<1>1. none \in StmtType /\ none.state = "finalized"
  BY NoStmtType
<1> PICK w : w = NoHandle
  OBVIOUS
<1>2. w \in HandleType /\ w.kind = "none"
  BY OtherHandleTypes
<1>3. stmt = [s \in Stmts |-> none] /\ handle = [h \in Handles |-> w] /\ cache = [t \in Texts |-> 0]
      /\ misused = FALSE /\ closed = FALSE
  BY DEF Init
<1>4. StatementTypeInv
  <2>1. stmt \in [Stmts -> StmtType] /\ handle \in [Handles -> HandleType]
    BY <1>1, <1>2, <1>3
  <2>2. 0 \in 0..MaxStmts
    BY StatementsAssumption
  <2>3. cache \in [Texts -> 0..MaxStmts]
    BY <1>3, <2>2
  <2> QED BY <1>3, <2>1, <2>3 DEF StatementTypeInv
<1>5. \A h \in Handles : handle[h].kind = "none"
  BY <1>2, <1>3
<1>6. StatementCacheInv /\ HeldInv /\ SharedInv /\ RowsInv /\ RunningInv
  BY <1>1, <1>3, <1>5 DEF StatementCacheInv, HeldInv, SharedInv, RowsInv, RunningInv
<1>7. BoundTo(Unbound, <<>>)
  BY DEF BoundTo, Unbound, Argument
<1>8. ExecRunsWithItsArguments
  BY <1>7 DEF ExecRunsWithItsArguments, Init
<1> QED BY <1>3, <1>4, <1>6, <1>8 DEF Kept, SInv, NoUseAfterFinalize

(* Every step keeps the invariant. *)
LEMMA NextKeeps == Kept /\ [Next]_vars => Kept'
<1> SUFFICES ASSUME Kept, [Next]_vars PROVE Kept'
  OBVIOUS
<1>1. CASE \E t \in Texts, args \in ArgLists : Exec(t, args)
  BY <1>1, ExecKeeps
<1>2. CASE \E h \in Handles, t \in Texts, args \in ArgLists : Query(h, t, args)
  BY <1>2, QueryKeeps
<1>3. CASE \E h \in Handles, t \in Texts : Prepare(h, t)
  BY <1>3, PrepareKeeps
<1>4. CASE \E h \in Handles, args \in ArgLists : StmtExec(h, args)
  BY <1>4, StmtExecKeeps
<1>5. CASE \E h, g \in Handles, args \in ArgLists : StmtQuery(h, g, args)
  BY <1>5, StmtQueryKeeps
<1>6. CASE \E h \in Handles : StmtClose(h) \/ RowsNext(h) \/ RowsScan(h) \/ RowsClose(h)
  BY <1>6, StmtCloseKeeps, RowsNextKeeps, RowsScanKeeps, RowsCloseKeeps
<1>7. CASE Close \/ Connect
  BY <1>7, CloseKeeps
<1>8. CASE UNCHANGED vars
  BY <1>8 DEF vars, Kept, SInv, StatementTypeInv, StatementCacheInv, HeldInv, SharedInv, RowsInv, RunningInv, Held,
              Finalized, NoUseAfterFinalize, ExecRunsWithItsArguments
<1> QED BY <1>1, <1>2, <1>3, <1>4, <1>5, <1>6, <1>7, <1>8 DEF Next

(* Every reachable state has what every step keeps. *)
LEMMA AlwaysKept == Spec => []Kept
BY InitKept, NextKeeps, PTL DEF Spec

(* sqliteconn: statements, cache and handles have their types, and a cached *)
(* statement is one of its text that is not finalized.                      *)
THEOREM StatementsTypeCorrect == Spec => []TypeOK
<1>1. Kept => TypeOK
  BY DEF Kept, SInv, StatementTypeInv, StatementCacheInv, TypeOK, StmtType, HandleType, Bindings
<1> QED BY AlwaysKept, <1>1, PTL

(* rows.go:53, stmt.go:102: for any number of texts and handles, in any     *)
(* order of use, no finalized statement is stepped, read, reset or closed.  *)
THEOREM StatementsAreAlive == Spec => []NoUseAfterFinalize
<1>1. Kept => NoUseAfterFinalize
  BY DEF Kept
<1> QED BY AlwaysKept, <1>1, PTL

(* rows.go:19: rows are the query's own, computed from arguments of its own *)
(* call (those up to the first driver.Valuer, NULL behind it), each once    *)
(* and in order, whatever is done with other handles in between.            *)
THEOREM RowsBelongToTheirQuery == Spec => []RowsAreTheQuerys
<1>1. Kept => RowsAreTheQuerys
  BY DEF Kept, SInv, RowsInv, OwnRows, RowsAreTheQuerys, Held
<1> QED BY AlwaysKept, <1>1, PTL

(* stmt.go:21: a prepared statement runs with arguments of this call, up to *)
(* the first driver.Valuer, and with NULL otherwise: never with what an     *)
(* earlier call had bound.                                                  *)
THEOREM ArgumentsAreBound == Spec => []ExecRunsWithItsArguments
<1>1. Kept => ExecRunsWithItsArguments
  BY DEF Kept
<1> QED BY AlwaysKept, <1>1, PTL

(* rows.go:53: nothing runs on the connection once all handles are closed.  *)
THEOREM ClosedIsAtRest == Spec => []NothingRunsWhenAllIsClosed
<1>1. Kept => NothingRunsWhenAllIsClosed
  <2> SUFFICES ASSUME Kept, Held = {}, NEW s \in Stmts, stmt[s].state = "row" PROVE FALSE
    BY DEF NothingRunsWhenAllIsClosed
  <2>1. Held = {k \in Handles : handle[k].kind # "none"}
    BY HeldHandles DEF Kept, SInv
  <2> QED BY <2>1 DEF Kept, SInv, RunningInv
<1> QED BY AlwaysKept, <1>1, PTL

-------------------------------------------------------------------------------
(* QueryCache.                                                             *)
-------------------------------------------------------------------------------
(* What a call for a use without options stores, and what it executes.     *)
EntryOf(use) ==
  LET indices == Mapped(Layouts[config], use[1], {})
  IN [query |-> BuiltQuery(Layouts[config], use[1], use[2], indices),
      indices |-> Reordered(Layouts[config], use[1], indices)]

GoodEntry(use, entry) ==
  entry = EntryOf(use) /\ Buildable(Layouts[config], use[1], {}, Len(entry.indices))

Executes(c) ==
  /\ Buildable(Layouts[config], c.kind, c.ignored, c.given)
  /\ c.entry.query = Fresh(c)
  /\ Len(c.vals) = Len(c.entry.query[3])
  /\ \A i \in 1..Len(c.vals) : Layouts[config][c.vals[i][1]].name = c.entry.query[3][i]
  /\ AsValuers(c) \/ (NoOptions(c) /\ AsPlain(c))

CallOK(c) ==
  /\ DOMAIN c = DOMAIN NoCall
  /\ c.pc # "idle" => Use(c) \in uses
  /\ c.kind = "queryRow" => NoOptions(c)
  /\ c.pc = "build" => c.layout = Layouts[config]
  /\ c.pc = "store" => UsesCache(c) /\ c.entry = EntryOf(Use(c))
  /\ c.pc \in {"store", "exec"} => Executes(c)

(* The caches that have yet to be cleared after the reflector has changed. *)
Stale == IF quiet THEN {clearing[i] : i \in 1..Len(clearing)} ELSE {}

CacheNames == Kinds \cup {"reflected"}

CacheInv ==
  /\ uses \in Uses /\ config \in DOMAIN Layouts
  /\ DOMAIN queries = uses
  /\ quiet \in BOOLEAN /\ clearing \in Seq(CacheNames)
  /\ quiet => clearing # <<>> /\ \A g \in Goroutines : call[g].pc = "idle"
  /\ reflected = NoLayout \/ reflected = Layouts[config] \/ "reflected" \in Stale
  /\ \A use \in uses :
       queries[use] = NoEntry \/ GoodEntry(use, queries[use]) \/ use[1] \in Stale
  /\ call = [g \in Goroutines |-> call[g]]
  /\ \A g \in Goroutines : CallOK(call[g])

-------------------------------------------------------------------------------
(* The columns of a query and the fields whose values it gets agree.       *)
LEMMA OrderOfQuery ==
  ASSUME NEW layout, Len(layout) \in Nat, DOMAIN layout = 1..Len(layout),
         NEW kind, NEW conn, NEW ignored
  PROVE  LET indices == Mapped(layout, kind, ignored)
             order == Reordered(layout, kind, indices)
             columns == BuiltQuery(layout, kind, conn, indices)[3]
         IN /\ order \in Seq(DOMAIN layout)
            /\ Len(columns) = Len(order)
            /\ \A i \in 1..Len(order) : layout[order[i]].name = columns[i]
<1> DEFINE indices == Mapped(layout, kind, ignored)
           set == Selected(indices, DOMAIN layout \ PrimaryKeys(layout))
           where == Selected(indices, PrimaryKeys(layout))
<1>1. indices \in Seq(DOMAIN layout)
  <2> DEFINE all == [i \in 1..Len(layout) |-> i]
             included == IF kind \in {"delete", "queryRow"} THEN {i \in DOMAIN layout : layout[i].pk}
                         ELSE {i \in DOMAIN layout : ~layout[i].readOnly /\ layout[i].name \notin ignored}
  <2>1. all \in Seq(DOMAIN layout)
    OBVIOUS
  <2>2. indices = Selected(all, included)
    BY DEF Mapped
  <2>3. included \subseteq DOMAIN layout
    OBVIOUS
  <2> HIDE DEF all, included, indices
  <2>4. indices \in Seq(DOMAIN layout \cap included)
    BY <2>1, <2>2, SelectedIsASequence
  <2>5. DOMAIN layout \cap included \subseteq DOMAIN layout
    OBVIOUS
  <2> QED BY <2>4, <2>5
<1> HIDE DEF indices
<1>2. set \in Seq(DOMAIN layout) /\ where \in Seq(DOMAIN layout)
  <2>1. set \in Seq(DOMAIN layout \cap (DOMAIN layout \ PrimaryKeys(layout)))
    BY <1>1, SelectedIsASequence
  <2>2. where \in Seq(DOMAIN layout \cap PrimaryKeys(layout))
    BY <1>1, SelectedIsASequence
  <2> QED BY <2>1, <2>2
<1>3. CASE kind # "update"
  <2>1. Reordered(layout, kind, indices) = indices
    BY <1>3 DEF Reordered
  <2>2. BuiltQuery(layout, kind, conn, indices)[3] = FieldNames(layout, indices)
    BY <1>3 DEF BuiltQuery
  <2> QED BY <1>1, <2>1, <2>2 DEF FieldNames, indices
<1>4. CASE kind = "update"
  <2> HIDE DEF set, where
  <2>1. Reordered(layout, kind, indices) = set \o where
    BY <1>4 DEF Reordered, set, where
  <2>2. BuiltQuery(layout, kind, conn, indices)[3] = FieldNames(layout, set) \o FieldNames(layout, where)
    BY <1>4 DEF BuiltQuery, set, where
  <2> DEFINE names(s) == [i \in 1..Len(s) |-> layout[s[i]].name]
             all == {layout[i].name : i \in DOMAIN layout}
  <2>3. FieldNames(layout, set) = names(set) /\ FieldNames(layout, where) = names(where)
    BY DEF FieldNames
  <2>4. names(set) \in Seq(all) /\ names(where) \in Seq(all)
    BY <1>2
  <2>5. Len(names(set)) = Len(set) /\ Len(names(where)) = Len(where)
    BY <1>2
  <2>6. \A i \in 1..Len(set) : names(set)[i] = layout[set[i]].name
    OBVIOUS
  <2>7. \A i \in 1..Len(where) : names(where)[i] = layout[where[i]].name
    OBVIOUS
  <2> HIDE DEF names, all
  <2> DEFINE order == set \o where
             columns == names(set) \o names(where)
  <2>8. /\ order \in Seq(DOMAIN layout) /\ Len(order) = Len(set) + Len(where)
        /\ \A i \in 1..Len(set) + Len(where) : order[i] = IF i <= Len(set) THEN set[i] ELSE where[i - Len(set)]
    BY <1>2
  <2>9. /\ Len(columns) = Len(set) + Len(where)
        /\ \A i \in 1..Len(set) + Len(where) :
             columns[i] = IF i <= Len(set) THEN names(set)[i] ELSE names(where)[i - Len(set)]
    <3>1. /\ Len(columns) = Len(names(set)) + Len(names(where))
          /\ \A i \in 1..Len(names(set)) + Len(names(where)) :
               columns[i] = IF i <= Len(names(set)) THEN names(set)[i] ELSE names(where)[i - Len(names(set))]
      BY <2>4
    <3> QED BY <3>1, <2>5
  <2> HIDE DEF order, columns
  <2>10. \A i \in 1..Len(order) : layout[order[i]].name = columns[i]
    <3> SUFFICES ASSUME NEW i \in 1..Len(order) PROVE layout[order[i]].name = columns[i]
      OBVIOUS
    <3>1. Len(set) \in Nat /\ Len(where) \in Nat /\ i \in 1..Len(set) + Len(where)
      BY <1>2, <2>8
    <3>2. CASE i <= Len(set)
      <4>1. i \in 1..Len(set)
        BY <3>1, <3>2
      <4> QED BY <3>1, <3>2, <4>1, <2>6, <2>8, <2>9
    <3>3. CASE i > Len(set)
      <4>1. i - Len(set) \in 1..Len(where)
        BY <3>1, <3>3
      <4>2. order[i] = where[i - Len(set)] /\ columns[i] = names(where)[i - Len(set)]
        BY <3>1, <3>3, <2>8, <2>9
      <4>3. names(where)[i - Len(set)] = layout[where[i - Len(set)]].name
        BY <4>1, <2>7
      <4> QED BY <4>2, <4>3
    <3> QED BY <3>1, <3>2, <3>3
  <2>11. Reordered(layout, kind, indices) = order /\ BuiltQuery(layout, kind, conn, indices)[3] = columns
    BY <2>1, <2>2, <2>3 DEF order, columns
  <2> QED BY <2>8, <2>9, <2>10, <2>11 DEF indices
<1> QED BY <1>3, <1>4

(* Values that come from the fields of an order fit its query.             *)
LEMMA ValuesFit ==
  ASSUME CacheInv, NEW c, NEW order, NEW vals,
         c.entry.query = Fresh(c), c.vals = vals,
         Buildable(Layouts[config], c.kind, c.ignored, c.given),
         order = Reordered(Layouts[config], c.kind, Mapped(Layouts[config], c.kind, c.ignored)),
         (NoOptions(c) /\ vals = PlainVals(order)) \/ vals = WrappedVals(Layouts[config], order)
  PROVE  Executes(c)
<1> DEFINE layout == Layouts[config]
           columns == c.entry.query[3]
<1>1. Len(layout) \in Nat /\ DOMAIN layout = 1..Len(layout)
  BY CacheAssumption DEF CacheInv
<1>2. columns = BuiltQuery(layout, c.kind, c.conn, Mapped(layout, c.kind, c.ignored))[3]
  BY DEF Fresh
<1>3. /\ order \in Seq(DOMAIN layout) /\ Len(columns) = Len(order)
      /\ \A i \in 1..Len(order) : layout[order[i]].name = columns[i]
  <2> HIDE DEF layout, columns
  <2>1. order = Reordered(layout, c.kind, Mapped(layout, c.kind, c.ignored))
    BY DEF layout
  <2> QED BY <1>1, <1>2, <2>1, OrderOfQuery
<1>4. /\ Len(vals) = Len(order) /\ \A i \in 1..Len(order) : vals[i][1] = order[i]
      /\ \/ \A i \in 1..Len(order) : vals[i][2] = layout[order[i]].wrapped
         \/ NoOptions(c) /\ \A i \in 1..Len(order) : vals[i][2] = FALSE
  <2>1. CASE NoOptions(c) /\ vals = PlainVals(order)
    <3>1. /\ Len(vals) = Len(order)
          /\ \A i \in 1..Len(order) : vals[i][1] = order[i] /\ vals[i][2] = FALSE
      BY <1>3, <2>1, SMTT(30) DEF PlainVals
    <3> QED BY <2>1, <3>1
  <2>2. CASE vals = WrappedVals(Layouts[config], order)
    <3>1. PICK n \in Nat : n = Len(order)
      BY <1>3
    <3>2. vals = [i \in 1..n |-> <<order[i], layout[order[i]].wrapped>>]
      BY <2>2, <3>1, Zenon DEF WrappedVals, layout
    <3> HIDE DEF layout
    <3>3. Len(vals) = n
      <4>1. Len([i \in 1..n |-> <<order[i], layout[order[i]].wrapped>>]) = n
        OBVIOUS
      <4> QED BY <3>2, <4>1, Zenon
    <3>4. ASSUME NEW i \in 1..n PROVE vals[i][1] = order[i] /\ vals[i][2] = layout[order[i]].wrapped
      <4>1. vals[i] = <<order[i], layout[order[i]].wrapped>>
        BY <3>2
      <4> QED BY <4>1
    <3> QED BY <3>1, <3>3, <3>4
  <2> QED BY <2>1, <2>2
<1>5. AsValuers(c) \/ (NoOptions(c) /\ AsPlain(c))
  BY <1>4 DEF AsValuers, AsPlain
<1> QED BY <1>3, <1>4, <1>5 DEF Executes

(* A step that only moves a call.                                          *)
LEMMA CallMoves ==
  ASSUME CacheInv, NEW g \in Goroutines, NEW c, CallOK(c),
         ~quiet, call' = [call EXCEPT ![g] = c],
         UNCHANGED <<uses, config, reflected, queries, clearing, quiet>>
  PROVE  CacheInv'
<1>1. \A h \in Goroutines : call'[h] = IF h = g THEN c ELSE call[h]
  BY DEF CacheInv
<1>2. \A d : CallOK(d) <=> CallOK(d)'
  BY DEF CallOK, Executes, AsValuers, AsPlain, EntryOf, Fresh, UsesCache, NoOptions, Use
<1>3. \A use, entry : GoodEntry(use, entry) <=> GoodEntry(use, entry)'
  BY DEF GoodEntry, EntryOf
<1>4. \A h \in Goroutines : CallOK(call[h])'
  <2> SUFFICES ASSUME NEW h \in Goroutines PROVE CallOK(call[h])'
    OBVIOUS
  <2>1. CallOK(call'[h])
    BY <1>1 DEF CacheInv
  <2> QED BY <2>1 DEF CallOK, Executes, AsValuers, AsPlain, EntryOf, Fresh, UsesCache, NoOptions, Use
<1>5. \A use \in uses' :
        queries'[use] = NoEntry \/ GoodEntry(use, queries[use])' \/ use[1] \in Stale'
  BY DEF CacheInv, GoodEntry, EntryOf, Stale
<1>6. call' = [h \in Goroutines |-> call'[h]]
  BY DEF CacheInv
<1> QED BY <1>4, <1>5, <1>6 DEF CacheInv, Stale

LEMMA CacheInitInv == CacheInit => CacheInv
<1> SUFFICES ASSUME CacheInit PROVE CacheInv
  OBVIOUS
<1>1. \A g \in Goroutines : CallOK(call[g])
  BY DEF CacheInit, CallOK, NoCall
<1>2. DOMAIN queries = uses /\ \A use \in uses : queries[use] = NoEntry
  BY DEF CacheInit
<1>3. clearing \in Seq(CacheNames) /\ quiet = FALSE
  BY DEF CacheInit
<1> QED BY <1>1, <1>2, <1>3 DEF CacheInit, CacheInv

LEMMA CachesIsASequence ==
  /\ Caches \in Seq(CacheNames) /\ Len(Caches) = 6 /\ Caches # <<>>
  /\ Caches[1] = "reflected" /\ Caches[2] = "insert" /\ Caches[3] = "upsert"
  /\ Caches[4] = "delete" /\ Caches[5] = "update" /\ Caches[6] = "queryRow"
<1>1. Len(Caches) = 6
  BY DEF Caches
<1>2. /\ Caches[1] = "reflected" /\ Caches[2] = "insert" /\ Caches[3] = "upsert"
      /\ Caches[4] = "delete" /\ Caches[5] = "update" /\ Caches[6] = "queryRow"
  BY DEF Caches
<1>3. Caches = [i \in 1..6 |-> Caches[i]]
  BY DEF Caches
<1>4. \A i \in 1..6 : Caches[i] \in CacheNames
  <2>1. \A i \in 1..6 : i = 1 \/ i = 2 \/ i = 3 \/ i = 4 \/ i = 5 \/ i = 6
    OBVIOUS
  <2>2. /\ Caches[1] \in CacheNames /\ Caches[2] \in CacheNames /\ Caches[3] \in CacheNames
        /\ Caches[4] \in CacheNames /\ Caches[5] \in CacheNames /\ Caches[6] \in CacheNames
    BY <1>2 DEF CacheNames, Kinds
  <2> QED BY <2>1, <2>2
<1>5. Caches \in Seq(CacheNames)
  BY <1>3, <1>4
<1> QED BY <1>1, <1>2, <1>5

LEMMA CacheNextInv == CacheInv /\ [CacheNext]_cacheVars => CacheInv'
<1> SUFFICES ASSUME CacheInv, [CacheNext]_cacheVars PROVE CacheInv'
  OBVIOUS
<1>kinds. \A use \in uses : use[1] \in Kinds /\ use = <<use[1], use[2]>>
  BY CacheAssumption DEF CacheInv
<1>call. \A g \in Goroutines : CallOK(call[g]) /\ DOMAIN call = Goroutines
  BY DEF CacheInv
<1>busy. \A g \in Goroutines : call[g].pc # "idle" => ~quiet
  BY DEF CacheInv
<1>1. ASSUME NEW g \in Goroutines, NEW use \in uses, NEW ignored, NEW given,
             CallRowStruct(g, use, ignored, given)
      PROVE  CacheInv'
  <2> DEFINE c == [NoCall EXCEPT !.pc = "lookup", !.kind = use[1], !.conn = use[2],
                                 !.ignored = ignored, !.given = given]
  <2>1. CallOK(c)
    BY <1>1, <1>kinds DEF CallRowStruct, CallOK, NoCall, NoOptions, Use
  <2>2. call' = [call EXCEPT ![g] = c] /\ ~quiet
    BY <1>1 DEF CallRowStruct
  <2> QED BY <1>1, <2>1, <2>2, CallMoves DEF CallRowStruct
<1>2. ASSUME NEW g \in Goroutines, Lookup(g) PROVE CacheInv'
  <2> DEFINE c == call[g]
             entry == queries[Use(c)]
             hit == [c EXCEPT !.pc = "exec", !.entry = entry, !.vals = PlainVals(entry.indices)]
  <2>1. /\ c.pc = "lookup" /\ Use(c) \in uses /\ DOMAIN c = DOMAIN NoCall /\ ~quiet
        /\ c.kind = "queryRow" => NoOptions(c)
    BY <1>2, <1>call, <1>busy DEF Lookup, CallOK
  <2>2. CASE ~(UsesCache(c) /\ entry # NoEntry)
    <3>1. call' = [call EXCEPT ![g] = [c EXCEPT !.pc = "reflect"]]
      BY <1>2, <2>2 DEF Lookup
    <3>2. CallOK([c EXCEPT !.pc = "reflect"])
      BY <2>1 DEF CallOK, NoCall, NoOptions, Use
    <3> QED BY <1>2, <2>1, <3>1, <3>2, CallMoves DEF Lookup
  <2>3. CASE UsesCache(c) /\ entry # NoEntry
    <3>1. call' = [call EXCEPT ![g] = Hit(c, entry)]
      BY <1>2, <2>3 DEF Lookup
    <3>2. CASE c.kind = "queryRow" /\ Len(entry.indices) # c.given
      <4>1. Hit(c, entry) = [c EXCEPT !.pc = "failed"]
        BY <3>2 DEF Hit
      <4>2. CallOK([c EXCEPT !.pc = "failed"])
        BY <2>1 DEF CallOK, NoCall, NoOptions, Use
      <4> QED BY <1>2, <2>1, <3>1, <4>1, <4>2, CallMoves DEF Lookup
    <3>3. CASE ~(c.kind = "queryRow" /\ Len(entry.indices) # c.given)
      <4>1. Hit(c, entry) = hit
        BY <3>3 DEF Hit
      <4>2. GoodEntry(Use(c), entry)
        BY <2>1, <2>3 DEF CacheInv, Stale
      <4>3. /\ hit.pc = "exec" /\ hit.kind = c.kind /\ hit.conn = c.conn
            /\ hit.ignored = {} /\ hit.given = c.given /\ hit.entry = entry
            /\ hit.vals = PlainVals(entry.indices) /\ DOMAIN hit = DOMAIN NoCall
        BY <2>1, <2>3 DEF NoCall, UsesCache, NoOptions
      <4> HIDE DEF hit
      <4>4. Buildable(Layouts[config], hit.kind, hit.ignored, hit.given)
        BY <3>3, <4>2, <4>3 DEF GoodEntry, Buildable, Use
      <4>5. hit.entry.query = Fresh(hit)
        BY <4>2, <4>3 DEF GoodEntry, EntryOf, Fresh, Use
      <4>6. entry.indices = Reordered(Layouts[config], hit.kind, Mapped(Layouts[config], hit.kind, hit.ignored))
        BY <4>2, <4>3 DEF GoodEntry, EntryOf, Use
      <4>7. Executes(hit)
        BY <4>3, <4>4, <4>5, <4>6, ValuesFit DEF NoOptions
      <4>8. CallOK(hit)
        BY <2>1, <4>3, <4>7 DEF CallOK, NoOptions, Use
      <4> QED BY <1>2, <2>1, <3>1, <4>1, <4>8, CallMoves DEF Lookup
    <3> QED BY <3>2, <3>3
  <2> QED BY <2>2, <2>3
<1>3. ASSUME NEW g \in Goroutines, LookupReflected(g) PROVE CacheInv'
  <2> DEFINE c == [call[g] EXCEPT !.pc = IF reflected # NoLayout THEN "build" ELSE "flatten",
                                  !.layout = reflected]
  <2>1. /\ call[g].pc = "reflect" /\ Use(call[g]) \in uses /\ DOMAIN call[g] = DOMAIN NoCall /\ ~quiet
        /\ call[g].kind = "queryRow" => NoOptions(call[g])
    BY <1>3, <1>call, <1>busy DEF LookupReflected, CallOK
  <2>2. reflected = NoLayout \/ reflected = Layouts[config]
    BY <2>1 DEF CacheInv, Stale
  <2>3. CallOK(c)
    BY <2>1, <2>2 DEF CallOK, NoCall, NoOptions, Use
  <2>4. call' = [call EXCEPT ![g] = c]
    BY <1>3, <1>call DEF LookupReflected
  <2> QED BY <1>3, <2>1, <2>3, <2>4, CallMoves DEF LookupReflected
<1>4. ASSUME NEW g \in Goroutines, StoreReflected(g) PROVE CacheInv'
  <2> DEFINE layout == Layouts[config]
             failed == [call[g] EXCEPT !.pc = "failed"]
             built == [call[g] EXCEPT !.pc = "build", !.layout = layout]
  <2>1. /\ call[g].pc = "flatten" /\ Use(call[g]) \in uses /\ DOMAIN call[g] = DOMAIN NoCall /\ ~quiet
        /\ call[g].kind = "queryRow" => NoOptions(call[g])
    BY <1>4, <1>call, <1>busy DEF StoreReflected, CallOK
  <2>2. CallOK(failed) /\ CallOK(built)
    BY <2>1 DEF CallOK, NoCall, NoOptions, Use
  <2>3. \/ call' = [call EXCEPT ![g] = failed] /\ UNCHANGED reflected
        \/ call' = [call EXCEPT ![g] = built] /\ reflected' = layout
    BY <1>4, <1>call DEF StoreReflected
  <2>4. CASE call' = [call EXCEPT ![g] = failed] /\ UNCHANGED reflected
    BY <1>4, <2>1, <2>2, <2>4, CallMoves DEF StoreReflected
  <2>5. CASE call' = [call EXCEPT ![g] = built] /\ reflected' = layout
    <3>1. UNCHANGED <<uses, config, queries, clearing, quiet>>
      BY <1>4 DEF StoreReflected
    <3>2. \A h \in Goroutines : call'[h] = IF h = g THEN built ELSE call[h]
      BY <2>5, <1>call
    <3>3. \A h \in Goroutines : CallOK(call[h])'
      <4> SUFFICES ASSUME NEW h \in Goroutines PROVE CallOK(call[h])'
        OBVIOUS
      <4>1. CallOK(call'[h])
        BY <2>2, <3>2, <1>call
      <4> QED BY <4>1, <3>1 DEF CallOK, Executes, AsValuers, AsPlain, EntryOf, Fresh, UsesCache, NoOptions, Use
    <3>4. \A use \in uses' :
            queries'[use] = NoEntry \/ GoodEntry(use, queries[use])' \/ use[1] \in Stale'
      BY <3>1, ZenonT(40) DEF CacheInv, GoodEntry, EntryOf, Stale
    <3>5. call' = [h \in Goroutines |-> call'[h]]
      BY <2>5 DEF CacheInv
    <3> QED BY <2>1, <2>5, <3>1, <3>3, <3>4, <3>5 DEF CacheInv, Stale
  <2> QED BY <2>3, <2>4, <2>5
<1>5. ASSUME NEW g \in Goroutines, Build(g) PROVE CacheInv'
  <2> DEFINE c == call[g]
             layout == c.layout
             indices == Mapped(layout, c.kind, c.ignored)
             order == Reordered(layout, c.kind, indices)
             entry == [query |-> BuiltQuery(layout, c.kind, c.conn, indices), indices |-> order]
             vals == IF c.kind = "queryRow" THEN PlainVals(order) ELSE WrappedVals(layout, order)
             failed == [c EXCEPT !.pc = "failed", !.layout = NoLayout]
             built == [c EXCEPT !.layout = NoLayout, !.pc = IF UsesCache(c) THEN "store" ELSE "exec",
                                !.entry = entry, !.vals = vals]
  <2>1. /\ c.pc = "build" /\ Use(c) \in uses /\ DOMAIN c = DOMAIN NoCall /\ ~quiet
        /\ layout = Layouts[config] /\ (c.kind = "queryRow" => NoOptions(c))
    BY <1>5, <1>call, <1>busy DEF Build, CallOK
  <2>2. CASE ~Buildable(layout, c.kind, c.ignored, c.given)
    <3>1. call' = [call EXCEPT ![g] = failed]
      BY <1>5, <2>2 DEF Build
    <3>2. CallOK(failed)
      BY <2>1 DEF CallOK, NoCall, NoOptions, Use
    <3> QED BY <1>5, <2>1, <3>1, <3>2, CallMoves DEF Build
  <2>3. CASE Buildable(layout, c.kind, c.ignored, c.given)
    <3>1. call' = [call EXCEPT ![g] = built]
      BY <1>5, <2>3 DEF Build
    <3>2. /\ built.pc = IF UsesCache(c) THEN "store" ELSE "exec"
          /\ built.kind = c.kind /\ built.conn = c.conn /\ built.ignored = c.ignored
          /\ built.given = c.given /\ built.entry = entry /\ built.vals = vals
          /\ DOMAIN built = DOMAIN NoCall
      BY <2>1 DEF NoCall
    <3> HIDE DEF built
    <3>3. built.entry.query = Fresh(built)
      BY <2>1, <3>2 DEF Fresh
    <3>4. Executes(built)
      BY <2>1, <2>3, <3>2, <3>3, ValuesFit DEF NoOptions
    <3>5. built.pc = "store" => UsesCache(built) /\ built.entry = EntryOf(Use(built))
      BY <2>1, <3>2 DEF UsesCache, NoOptions, EntryOf, Use
    <3>6. CallOK(built)
      BY <2>1, <3>2, <3>4, <3>5 DEF CallOK, NoOptions, Use
    <3> QED BY <1>5, <2>1, <3>1, <3>6, CallMoves DEF Build
  <2> QED BY <2>2, <2>3
<1>6. ASSUME NEW g \in Goroutines, StoreEntry(g) PROVE CacheInv'
  <2> DEFINE c == call[g]
             next == [c EXCEPT !.pc = "exec"]
  <2>1. /\ c.pc = "store" /\ Use(c) \in uses /\ DOMAIN c = DOMAIN NoCall /\ ~quiet
        /\ UsesCache(c) /\ c.entry = EntryOf(Use(c)) /\ Executes(c)
        /\ c.kind = "queryRow" => NoOptions(c)
    BY <1>6, <1>call, <1>busy DEF StoreEntry, CallOK
  <2>2. UNCHANGED <<uses, config, reflected, clearing, quiet>>
    BY <1>6 DEF StoreEntry
  <2>3. \A use \in uses : queries'[use] = IF use = Use(c) THEN c.entry ELSE queries[use]
    BY <1>6, <2>1 DEF StoreEntry, CacheInv
  <2>4. GoodEntry(Use(c), c.entry)
    <3> DEFINE indices == Mapped(Layouts[config], c.kind, {})
    <3>1. Buildable(Layouts[config], c.kind, {}, c.given)
      BY <2>1 DEF Executes, UsesCache, NoOptions
    <3>2. c.entry.indices = Reordered(Layouts[config], c.kind, indices)
      BY <2>1 DEF EntryOf, Use
    <3>3. c.kind = "queryRow" => c.entry.indices = indices
      BY <3>2 DEF Reordered
    <3>4. Buildable(Layouts[config], c.kind, {}, Len(c.entry.indices))
      BY <3>1, <3>3 DEF Buildable
    <3> QED BY <2>1, <3>4 DEF GoodEntry, Use
  <2>5. \A use \in uses' :
          queries'[use] = NoEntry \/ GoodEntry(use, queries[use])' \/ use[1] \in Stale'
    BY <2>2, <2>3, <2>4, ZenonT(40) DEF CacheInv, GoodEntry, EntryOf, Stale
  <2>6. \A h \in Goroutines : call'[h] = IF h = g THEN next ELSE call[h]
    BY <1>6, <1>call DEF StoreEntry
  <2>7. CallOK(next)
    <3>1. /\ next.pc = "exec" /\ next.kind = c.kind /\ next.conn = c.conn
          /\ next.ignored = c.ignored /\ next.given = c.given /\ next.entry = c.entry
          /\ next.vals = c.vals /\ DOMAIN next = DOMAIN NoCall
      BY <2>1 DEF NoCall
    <3> HIDE DEF next
    <3> QED BY <2>1, <3>1 DEF CallOK, Executes, AsValuers, AsPlain, NoOptions, Fresh, Use
  <2>8. \A h \in Goroutines : CallOK(call[h])'
    <3> SUFFICES ASSUME NEW h \in Goroutines PROVE CallOK(call[h])'
      OBVIOUS
    <3>1. CallOK(call'[h])
      BY <2>6, <2>7, <1>call
    <3> QED BY <3>1, <2>2 DEF CallOK, Executes, AsValuers, AsPlain, EntryOf, Fresh, UsesCache, NoOptions, Use
  <2>9. call' = [h \in Goroutines |-> call'[h]] /\ DOMAIN queries' = uses'
    BY <1>6, <2>2 DEF StoreEntry, CacheInv
  <2> QED BY <2>1, <2>2, <2>5, <2>8, <2>9 DEF CacheInv, Stale
<1>7. ASSUME NEW g \in Goroutines, ExecuteStatement(g) PROVE CacheInv'
  <2>1. CallOK(NoCall)
    BY DEF CallOK, NoCall
  <2>2. ~quiet
    BY <1>7, <1>busy DEF ExecuteStatement
  <2> QED BY <1>7, <2>1, <2>2, CallMoves DEF ExecuteStatement
<1>8. ASSUME NEW c \in DOMAIN Layouts, Reconfigure(c) PROVE CacheInv'
  <2>1. /\ config' = c /\ quiet' = TRUE /\ clearing' = Caches
        /\ UNCHANGED <<uses, reflected, queries, call>>
        /\ \A g \in Goroutines : call[g].pc = "idle"
    BY <1>8 DEF Reconfigure
  <2>2. Kinds \cup {"reflected"} \subseteq Stale' /\ Caches \in Seq(CacheNames) /\ Caches # <<>>
    <3>2. \A i \in 1..6 : Caches[i] \in Stale'
      BY <2>1, CachesIsASequence DEF Stale
    <3> QED BY CachesIsASequence, <3>2 DEF Kinds
  <2>3. \A use \in uses' : use[1] \in Stale'
    BY <1>kinds, <2>1, <2>2
  <2>4. \A g \in Goroutines : CallOK(call[g])'
    BY <1>call, <2>1 DEF CallOK
  <2> QED BY <2>1, <2>2, <2>3, <2>4 DEF CacheInv
<1>9. ASSUME ClearQueryCaches PROVE CacheInv'
  <2>1. /\ clearing = <<>> /\ clearing' = Caches /\ ~quiet
        /\ UNCHANGED <<uses, config, reflected, queries, quiet, call>>
    BY <1>9 DEF ClearQueryCaches, CacheInv
  <2>2. Caches \in Seq(CacheNames) /\ Stale' = Stale
    BY <2>1, CachesIsASequence DEF Stale
  <2>3. \A g \in Goroutines : CallOK(call[g])'
    BY <1>call, <2>1 DEF CallOK, Executes, AsValuers, AsPlain, EntryOf, Fresh, UsesCache, NoOptions, Use
  <2>4. \A use, entry : GoodEntry(use, entry) <=> GoodEntry(use, entry)'
    BY <2>1 DEF GoodEntry, EntryOf
  <2>5. \A use \in uses' :
          queries'[use] = NoEntry \/ GoodEntry(use, queries[use])' \/ use[1] \in Stale'
    BY <2>1, <2>2 DEF CacheInv, GoodEntry, EntryOf
  <2> QED BY <2>1, <2>2, <2>3, <2>5 DEF CacheInv
<1>10. ASSUME ClearNext PROVE CacheInv'
  <2> DEFINE cleared == Head(clearing)
             left == Tail(clearing)
  <2>1. /\ clearing # <<>> /\ clearing' = left /\ UNCHANGED <<uses, config, call>>
        /\ reflected' = (IF cleared = "reflected" THEN NoLayout ELSE reflected)
        /\ queries' = [use \in uses |-> IF use[1] = cleared THEN NoEntry ELSE queries[use]]
        /\ quiet' = (quiet /\ left # <<>>)
    BY <1>10 DEF ClearNext, Cleared
  <2>2. /\ left \in Seq(CacheNames)
        /\ \A x : (\E i \in 1..Len(clearing) : clearing[i] = x)
                    => x = cleared \/ \E i \in 1..Len(left) : left[i] = x
    <3>1. clearing \in Seq(CacheNames) /\ clearing # <<>>
      BY <2>1 DEF CacheInv
    <3>2. /\ left \in Seq(CacheNames) /\ Len(left) = Len(clearing) - 1 /\ cleared = clearing[1]
          /\ \A i \in 1..Len(left) : left[i] = clearing[i + 1]
      BY <3>1
    <3>3. \A i \in 1..Len(clearing) : i # 1 => i - 1 \in 1..Len(left) /\ left[i - 1] = clearing[i]
      BY <3>1, <3>2
    <3> QED BY <3>2, <3>3
  <2> HIDE DEF cleared, left
  <2>3. \A x \in Stale : x = cleared \/ x \in Stale'
    <3>1. CASE left = <<>>
      <4>1. Len(left) = 0
        BY <3>1
      <4> QED BY <2>1, <2>2, <3>1, <4>1 DEF Stale
    <3>2. CASE left # <<>>
      <4>1. quiet' = quiet /\ quiet \in BOOLEAN
        BY <2>1, <3>2 DEF CacheInv
      <4>2. CASE quiet
        <5>1. Stale = {clearing[i] : i \in 1..Len(clearing)} /\ Stale' = {left[i] : i \in 1..Len(left)}
          BY <2>1, <4>1, <4>2 DEF Stale
        <5> QED BY <2>2, <5>1
      <4>3. CASE ~quiet
        BY <4>3 DEF Stale
      <4> QED BY <4>1, <4>2, <4>3
    <3> QED BY <3>1, <3>2
  <2>4. \A g \in Goroutines : CallOK(call[g])'
    BY <1>call, <2>1 DEF CallOK, Executes, AsValuers, AsPlain, EntryOf, Fresh, UsesCache, NoOptions, Use
  <2>5. \A use \in uses' :
          queries'[use] = NoEntry \/ GoodEntry(use, queries[use])' \/ use[1] \in Stale'
    BY <2>1, <2>3 DEF CacheInv, GoodEntry, EntryOf
  <2>6. reflected' = NoLayout \/ reflected' = Layouts[config'] \/ "reflected" \in Stale'
    BY <2>1, <2>3 DEF CacheInv
  <2>7. quiet' \in BOOLEAN /\ (quiet' => clearing' # <<>> /\ \A g \in Goroutines : call'[g].pc = "idle")
    BY <2>1 DEF CacheInv
  <2> QED BY <2>1, <2>2, <2>4, <2>5, <2>6, <2>7 DEF CacheInv
<1>11. CASE UNCHANGED cacheVars
  <2>1. \A g \in Goroutines : CallOK(call[g])'
    BY <1>call, <1>11 DEF cacheVars, CallOK, Executes, AsValuers, AsPlain, EntryOf, Fresh, UsesCache, NoOptions, Use
  <2>2. \A use \in uses' :
          queries'[use] = NoEntry \/ GoodEntry(use, queries[use])' \/ use[1] \in Stale'
    BY <1>11, ZenonT(40) DEF cacheVars, CacheInv, GoodEntry, EntryOf, Stale
  <2> QED BY <1>11, <2>1, <2>2, ZenonT(40) DEF cacheVars, CacheInv, Stale
<1> QED BY <1>1, <1>2, <1>3, <1>4, <1>5, <1>6, <1>7, <1>8, <1>9, <1>10, <1>11 DEF CacheNext

(* cache.go: however goroutines look up, build, store and clear, each       *)
(* executes the statement it would execute without caches, and each         *)
(* placeholder gets the field of its column.                                *)
THEOREM CachesAreTransparent == CacheSpec => []ExecutesAsBuilt
<1>1. CacheInv => ExecutesAsBuilt
  BY DEF CacheInv, CallOK, Executes, ExecutesAsBuilt
<1> QED BY <1>1, CacheInitInv, CacheNextInv, PTL DEF CacheSpec

===============================================================================
