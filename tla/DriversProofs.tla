----------------------------- MODULE DriversProofs -----------------------------
(***************************************************************************)
(* Proofs about what the driver packages have beside their connections:    *)
(* DropAll, for any database, DriverErrors, for any names in it,           *)
(* ScanValues, for integers and floats of any widths, and Dialects, for    *)
(* any columns and keys.                                                   *)
(***************************************************************************)
EXTENDS DropAll, DriverErrors, ScanValues, Dialects, InductionLemmas

-------------------------------------------------------------------------------
(* DropAll.  The inductive invariant: the lists before the current one are *)
(* empty, the current one is in todo, and what is in todo exists or was    *)
(* removed by others; checks are off while mysqlconn and sqliteconn drop,  *)
(* and until they are restored or the call tells that they are not.        *)
UsesAreKnown ==
  \A u \in catalog.uses :
    /\ u[1] \in DOMAIN catalog.objects /\ u[2] \in DOMAIN catalog.objects
    /\ catalog.objects[u[1]] = "table" => catalog.objects[u[2]] # "table"

DropShape ==
  /\ vanished = [objects |-> vanished.objects, refs |-> vanished.refs]
  /\ DOMAIN catalog = {"objects", "refs", "uses"}
  /\ checks \in BOOLEAN
  /\ DOMAIN drop = DOMAIN NoDrop
  /\ drop.driver \in DOMAIN Steps
  /\ drop.step \in 1..Len(Steps[drop.driver])
  /\ drop.pc \in {"idle", "list", "off", "drop", "restore", "returned"}

EmptyBefore(step) == \A i \in 1..step - 1 : Listed(Steps[drop.driver][i]) = {}

DropInv ==
  /\ DropShape /\ UsesAreKnown
  /\ "refused" \notin trouble
  /\ drop.pc # "returned" => drop.err = trouble
  /\ OrderNeverFails
  /\ ~checks => /\ SwitchesChecks(drop.driver)
                /\ drop.pc \in {"drop", "restore"} \/ (drop.pc = "returned" /\ "restore" \in drop.err)
  /\ drop.pc \in {"off", "drop"} => drop.driver # "pq"
  /\ drop.pc = "off" => SwitchesChecks(drop.driver)
  /\ drop.pc = "drop" /\ SwitchesChecks(drop.driver) => ~checks
  /\ drop.pc \in {"list", "off", "drop"} => EmptyBefore(drop.step)
  /\ drop.pc \in {"off", "drop"} =>
       /\ Listed(KindOfStep) \subseteq drop.todo
       /\ drop.todo \subseteq Listed(KindOfStep) \cup Vanished
  /\ drop.pc \in {"restore", "returned"} /\ drop.err = {} =>
       EmptyBefore(Len(Steps[drop.driver]) + 1)

(* The steps of each driver.                                               *)
LEMMA StepsOf ==
  /\ DOMAIN Steps = {"mysql", "sqlite", "mssql", "oracle", "pq"}
  /\ \A d \in {"mysql", "sqlite"} : Len(Steps[d]) = 1 /\ Steps[d][1] = "table"
  /\ Len(Steps["mssql"]) = 3 /\ Steps["mssql"][1] = "fk" /\ Steps["mssql"][2] = "table"
  /\ Steps["mssql"][3] = "type"
  /\ Len(Steps["oracle"]) = 7
  /\ Len(Steps["pq"]) = 2 /\ Steps["pq"][1] = "table" /\ Steps["pq"][2] = "type"
BY DEF Steps, MysqlSteps, SqliteSteps, MssqlSteps, OracleSteps, PqSteps

LEMMA StepsAreMany == \A d \in DOMAIN Steps : Len(Steps[d]) \in Nat \ {0}
<1> SUFFICES ASSUME NEW d \in DOMAIN Steps PROVE Len(Steps[d]) \in Nat \ {0}
  OBVIOUS
<1>1. d \in {"mysql", "sqlite"} \/ d = "mssql" \/ d = "oracle" \/ d = "pq"
  BY StepsOf
<1>2. Len(Steps[d]) \in {1, 2, 3, 7}
  <2>1. CASE d \in {"mysql", "sqlite"}
    BY <2>1, StepsOf
  <2>2. CASE d = "mssql"
    BY <2>2, StepsOf
  <2>3. CASE d = "oracle"
    BY <2>3, StepsOf
  <2>4. CASE d = "pq"
    BY <2>4, StepsOf
  <2> QED BY <1>1, <2>1, <2>2, <2>3, <2>4
<1> DEFINE len == Len(Steps[d])
<1>3. len \in {1, 2, 3, 7}
  BY <1>2
<1> HIDE DEF len
<1>4. len \in Nat \ {0}
  BY <1>3
<1> QED BY <1>4 DEF len

(* Without an object nothing is listed that was not, the rest stays.       *)
LEMMA WithoutShrinks ==
  ASSUME DropShape, UsesAreKnown, NEW o, catalog' = Without(o)
  PROVE  /\ DOMAIN catalog' = {"objects", "refs", "uses"} /\ UsesAreKnown'
         /\ \A kind : Listed(kind)' \subseteq Listed(kind)
         /\ \A kind : kind # "fk" => Listed(kind)' = Listed(kind) \ {o}
         /\ Listed("fk")' = Listed("fk") \ {r \in catalog.refs : o \in {r[1], r[2]}}
<1>1. /\ DOMAIN catalog' = {"objects", "refs", "uses"}
      /\ DOMAIN catalog'.objects = DOMAIN catalog.objects \ {o}
      /\ \A p \in DOMAIN catalog'.objects : catalog'.objects[p] = catalog.objects[p]
      /\ catalog'.refs = {r \in catalog.refs : o \notin {r[1], r[2]}}
      /\ catalog'.uses = {u \in catalog.uses : o \notin {u[1], u[2]}}
  BY DEF Without
<1>2. UsesAreKnown'
  BY <1>1 DEF UsesAreKnown
<1>3. \A kind : Of(kind)' = Of(kind) \ {o}
  BY <1>1 DEF Of
<1> QED BY <1>1, <1>2, <1>3 DEF Listed

(* A statement is refused for what others removed or what others use.      *)
LEMMA RefusedForAReason ==
  ASSUME DropInv, drop.pc = "drop", NEW o \in drop.todo,
         (Exists(o) /\ Blocked(o)) \/ (~Exists(o) /\ ~Tolerated(o))
  PROVE  \/ drop.driver = "mssql" /\ (o \in Vanished \/ UsedByOthers(o))
         \/ drop.driver = "oracle" /\ KindOfStep # "table" /\ o \in Vanished
<1>1. o \in Listed(KindOfStep) \/ o \in Vanished
  BY DEF DropInv
<1>2. ~Exists(o) => o \in Vanished
  BY <1>1 DEF Exists, Listed, Of
<1>3. drop.driver \in {"mysql", "sqlite", "mssql", "oracle"}
  BY StepsOf DEF DropInv, DropShape
<1>4. CASE drop.driver \in {"mysql", "sqlite"}
  <2>1. ~Blocked(o)
    BY <1>4 DEF DropInv, SwitchesChecks, Blocked
  <2> QED BY <1>4, <2>1 DEF Tolerated
<1>5. CASE drop.driver = "oracle"
  <2>1. ~Blocked(o)
    BY <1>5 DEF Blocked
  <2> QED BY <1>2, <1>5, <2>1 DEF Tolerated
<1>6. CASE drop.driver = "mssql"
  <2> SUFFICES ASSUME o \notin Vanished PROVE UsedByOthers(o)
    BY <1>6
  <2>1. Blocked(o) /\ o \in Listed(KindOfStep)
    BY <1>1, <1>2
  <2>2. drop.step \in 1..3 /\ EmptyBefore(drop.step)
    BY <1>6, StepsOf DEF DropInv, DropShape
  <2>3. CASE KindOfStep = "table"
    <3>1. 1 \in 1..drop.step - 1
      BY <1>6, <2>2, <2>3, StepsOf DEF KindOfStep
    <3>2. catalog.refs = {}
      BY <1>6, <2>2, <3>1, StepsOf DEF EmptyBefore, Listed
    <3>3. PICK u \in catalog.uses : u[2] = o
      BY <1>6, <2>1, <3>2 DEF Blocked
    <3>4. catalog.objects[o] = "table"
      BY <2>1, <2>3 DEF Listed, Of
    <3> QED BY <2>3, <3>3, <3>4 DEF UsedByOthers, DropInv, UsesAreKnown
  <2>4. CASE KindOfStep = "type"
    <3>1. 2 \in 1..drop.step - 1
      BY <1>6, <2>2, <2>4, StepsOf DEF KindOfStep
    <3>2. Of("table") = {}
      BY <1>6, <2>2, <3>1, StepsOf DEF EmptyBefore, Listed
    <3>3. PICK u \in catalog.uses : u[2] = o
      BY <1>6, <2>1, <2>4 DEF Blocked
    <3> QED BY <2>4, <3>2, <3>3 DEF UsedByOthers, DropInv, UsesAreKnown, Of
  <2> QED BY <2>1, <2>3, <2>4 DEF Blocked
<1> QED BY <1>3, <1>4, <1>5, <1>6

LEMMA DropInitInv == DropInit => DropInv
<1> SUFFICES ASSUME DropInit PROVE DropInv
  OBVIOUS
<1>1. DropShape
  BY CatalogsAssumption, StepsOf DEF DropInit, DropShape, NoDrop, NoneVanished
<1>2. UsesAreKnown
  BY CatalogsAssumption DEF DropInit, UsesAreKnown
<1> QED BY <1>1, <1>2 DEF DropInit, DropInv, NoDrop, OrderNeverFails

(* A statement that fails by itself ends the call with what it had done.   *)
LEMMA FailureKeepsInv ==
  ASSUME DropInv, NEW pc, StatementFails(pc), UNCHANGED <<catalog, checks, vanished>>,
         drop.pc \in {"list", "off", "drop", "restore"},
         (pc = "returned" /\ (~checks => drop.pc = "restore")) \/ pc = "restore"
  PROVE  DropInv'
<1>1. /\ drop' = [drop EXCEPT !.pc = pc, !.err = @ \cup {drop.pc}]
      /\ trouble' = trouble \cup {drop.pc}
  BY DEF StatementFails
<1>2. /\ drop'.pc = pc /\ drop'.err = drop.err \cup {drop.pc} /\ drop'.driver = drop.driver
      /\ drop'.step = drop.step /\ DOMAIN drop' = DOMAIN NoDrop
  BY <1>1 DEF DropInv, DropShape, NoDrop
<1>3. drop'.err # {} /\ drop'.err = trouble' /\ "refused" \notin trouble'
  BY <1>1, <1>2 DEF DropInv
<1>4. DropShape' /\ UsesAreKnown'
  BY <1>2 DEF DropInv, DropShape, UsesAreKnown
<1>5. OrderNeverFails'
  BY <1>3 DEF OrderNeverFails
<1> QED BY <1>2, <1>3, <1>4, <1>5 DEF DropInv, SwitchesChecks

(* What is known of a step carries over to a catalog where less is listed. *)
LEMMA EmptyStaysEmpty ==
  ASSUME \A kind : Listed(kind)' \subseteq Listed(kind), drop'.driver = drop.driver, NEW step
  PROVE  EmptyBefore(step) => EmptyBefore(step)'
BY DEF EmptyBefore

LEMMA DropNextInv == DropInv /\ [DropNext]_dropVars => DropInv'
<1> SUFFICES ASSUME DropInv, [DropNext]_dropVars PROVE DropInv'
  OBVIOUS
<1>1. ASSUME NEW driver \in DOMAIN Steps, CallDropAll(driver) PROVE DropInv'
  <2>1. /\ drop'.pc = "list" /\ drop'.driver = driver /\ drop'.step = 1 /\ drop'.err = {}
        /\ DOMAIN drop' = DOMAIN NoDrop /\ trouble' = {} /\ vanished' = NoneVanished
        /\ UNCHANGED <<catalog, checks>>
    BY <1>1 DEF CallDropAll, NoDrop
  <2>2. checks
    BY <1>1 DEF CallDropAll, DropInv
  <2>3. DropShape' /\ UsesAreKnown'
    BY <2>1, StepsAreMany DEF DropInv, DropShape, UsesAreKnown, NoneVanished
  <2>4. EmptyBefore(drop.step)'
    BY <2>1 DEF EmptyBefore
  <2> QED BY <2>1, <2>2, <2>3, <2>4 DEF DropInv, OrderNeverFails
<1>2. ASSUME ListNames PROVE DropInv'
  <2>1. drop.pc = "list" /\ drop.driver # "pq" /\ UNCHANGED <<catalog, checks, vanished>> /\ checks
    BY <1>2 DEF ListNames, DropInv
  <2>2. CASE StatementFails("returned")
    BY <2>1, <2>2, FailureKeepsInv
  <2>3. ASSUME drop' = [drop EXCEPT !.todo = Listed(KindOfStep),
                                    !.pc = IF ~SwitchesChecks(drop.driver) THEN "drop"
                                           ELSE IF Of("table") = {} THEN "returned" ELSE "off"],
               UNCHANGED trouble
        PROVE  DropInv'
    <3>1. /\ drop'.todo = Listed(KindOfStep) /\ drop'.driver = drop.driver /\ drop'.step = drop.step
          /\ drop'.err = drop.err /\ DOMAIN drop' = DOMAIN NoDrop
          /\ drop'.pc = (IF ~SwitchesChecks(drop.driver) THEN "drop"
                         ELSE IF Of("table") = {} THEN "returned" ELSE "off")
      BY <2>3 DEF DropInv, DropShape, NoDrop
    <3>2. DropShape' /\ UsesAreKnown'
      BY <2>1, <3>1 DEF DropInv, DropShape, UsesAreKnown
    <3>3. \A kind : Listed(kind)' = Listed(kind)
      BY <2>1 DEF Listed, Of
    <3>4. KindOfStep' = KindOfStep /\ drop'.todo = Listed(KindOfStep)'
      BY <3>1, <3>3 DEF KindOfStep
    <3>5. EmptyBefore(drop.step)'
      BY <2>1, <3>1, <3>3 DEF DropInv, EmptyBefore
    <3>6. drop'.pc = "returned" => EmptyBefore(Len(Steps[drop.driver]) + 1)'
      <4> SUFFICES ASSUME drop'.pc = "returned" PROVE EmptyBefore(Len(Steps[drop.driver]) + 1)'
        OBVIOUS
      <4>1. drop.driver \in {"mysql", "sqlite"} /\ Of("table") = {}
        BY <3>1 DEF SwitchesChecks
      <4>2. Listed("table") = {}
        BY <4>1 DEF Listed
      <4> QED BY <3>1, <3>3, <4>1, <4>2, StepsOf DEF EmptyBefore
    <3>7. drop'.err = trouble' /\ "refused" \notin trouble' /\ OrderNeverFails'
      BY <2>1, <2>3, <3>1 DEF DropInv, OrderNeverFails
    <3> QED BY <2>1, <2>3, <3>1, <3>2, <3>4, <3>5, <3>6, <3>7 DEF DropInv, SwitchesChecks
  <2> QED BY <1>2, <2>2, <2>3 DEF ListNames
<1>3. ASSUME SwitchChecksOff PROVE DropInv'
  <2>1. drop.pc = "off" /\ UNCHANGED <<catalog, vanished>> /\ checks
    BY <1>3 DEF SwitchChecksOff, DropInv
  <2>2. CASE StatementFails("returned") /\ UNCHANGED checks
    BY <2>1, <2>2, FailureKeepsInv
  <2>3. ASSUME checks' = FALSE, drop' = [drop EXCEPT !.pc = "drop"], UNCHANGED trouble
        PROVE  DropInv'
    <3>1. /\ drop'.todo = drop.todo /\ drop'.driver = drop.driver /\ drop'.step = drop.step
          /\ drop'.err = drop.err /\ DOMAIN drop' = DOMAIN NoDrop /\ drop'.pc = "drop"
      BY <2>3 DEF DropInv, DropShape, NoDrop
    <3>2. DropShape' /\ UsesAreKnown'
      BY <2>1, <2>3, <3>1 DEF DropInv, DropShape, UsesAreKnown
    <3>3. \A kind : Listed(kind)' = Listed(kind)
      BY <2>1 DEF Listed, Of
    <3>4. KindOfStep' = KindOfStep /\ Vanished' = Vanished /\ SwitchesChecks(drop.driver)
      BY <2>1, <3>1 DEF KindOfStep, Vanished, DropInv
    <3>5. EmptyBefore(drop.step)'
      BY <2>1, <3>1, <3>3 DEF DropInv, EmptyBefore
    <3>6. Listed(KindOfStep)' \subseteq drop'.todo /\ drop'.todo \subseteq Listed(KindOfStep)' \cup Vanished'
      BY <2>1, <3>1, <3>3, <3>4 DEF DropInv
    <3>7. drop'.err = trouble' /\ "refused" \notin trouble' /\ OrderNeverFails'
      BY <2>1, <2>3, <3>1 DEF DropInv, OrderNeverFails
    <3> QED BY <2>1, <2>3, <3>1, <3>2, <3>4, <3>5, <3>6, <3>7 DEF DropInv
  <2> QED BY <1>3, <2>2, <2>3 DEF SwitchChecksOff
<1>4. ASSUME NEW o \in drop.todo, DropOne(o) PROVE DropInv'
  <2>1. /\ drop.pc = "drop" /\ drop.driver # "pq" /\ UNCHANGED <<checks, vanished>>
        /\ SwitchesChecks(drop.driver) <=> ~checks
    BY <1>4 DEF DropOne, DropInv, DropShape
  <2>2. ASSUME (Exists(o) /\ Blocked(o)) \/ (~Exists(o) /\ ~Tolerated(o)),
               drop' = [drop EXCEPT !.pc = End(drop.driver, SwitchesChecks(drop.driver)),
                                    !.err = @ \cup {"refused"}],
               UNCHANGED <<catalog, trouble>>
        PROVE  DropInv'
    <3>1. \/ drop.driver = "mssql" /\ (o \in Vanished \/ UsedByOthers(o))
          \/ drop.driver = "oracle" /\ KindOfStep # "table" /\ o \in Vanished
      BY <2>1, <2>2, RefusedForAReason
    <3>2. End(drop.driver, SwitchesChecks(drop.driver)) = "returned" /\ checks
      BY <2>1, <3>1 DEF End, SwitchesChecks
    <3>3. /\ drop'.todo = drop.todo /\ drop'.driver = drop.driver /\ drop'.step = drop.step
          /\ drop'.err = trouble \cup {"refused"} /\ DOMAIN drop' = DOMAIN NoDrop /\ drop'.pc = "returned"
      BY <2>1, <2>2, <3>2 DEF DropInv, DropShape, NoDrop
    <3>4. DropShape' /\ UsesAreKnown'
      BY <2>1, <2>2, <3>3 DEF DropInv, DropShape, UsesAreKnown
    <3>5. KindOfStep' = KindOfStep /\ Vanished' = Vanished /\ (UsedByOthers(o)' <=> UsedByOthers(o))
      BY <2>1, <2>2, <3>3 DEF KindOfStep, Vanished, UsedByOthers
    <3>6. OrderNeverFails'
      BY <2>2, <3>1, <3>3, <3>5 DEF OrderNeverFails
    <3> QED BY <2>1, <2>2, <3>2, <3>3, <3>4, <3>6 DEF DropInv
  <2>3. CASE StatementFails(End(drop.driver, SwitchesChecks(drop.driver))) /\ UNCHANGED catalog
    <3>1. End(drop.driver, SwitchesChecks(drop.driver)) = IF ~checks THEN "restore" ELSE "returned"
      BY <2>1 DEF End
    <3> QED BY <2>1, <2>3, <3>1, FailureKeepsInv
  <2>4. ASSUME catalog' = IF Exists(o) THEN Dropped(o) ELSE catalog,
               drop' = [drop EXCEPT !.todo = @ \ {o}], UNCHANGED trouble
        PROVE  DropInv'
    <3>1. /\ drop'.todo = drop.todo \ {o} /\ drop'.driver = drop.driver /\ drop'.step = drop.step
          /\ drop'.err = drop.err /\ DOMAIN drop' = DOMAIN NoDrop /\ drop'.pc = "drop"
      BY <2>1, <2>4 DEF DropInv, DropShape, NoDrop
    <3>0. KindOfStep' = KindOfStep
      BY <3>1 DEF KindOfStep
    <3>2. /\ DOMAIN catalog' = {"objects", "refs", "uses"} /\ UsesAreKnown'
          /\ \A kind : Listed(kind)' \subseteq Listed(kind)
          /\ Listed(KindOfStep)' = Listed(KindOfStep) \ {o}
      <4>1. CASE ~Exists(o)
        <5>1. catalog' = catalog
          BY <2>4, <4>1
        <5>2. \A kind : Listed(kind)' = Listed(kind)
          BY <5>1 DEF Listed, Of
        <5>3. o \notin Listed(KindOfStep)
          BY <4>1 DEF Exists, Listed, Of
        <5> QED BY <3>0, <5>1, <5>2, <5>3 DEF DropInv, DropShape, UsesAreKnown
      <4>2. CASE Exists(o) /\ KindOfStep = "fk"
        <5>1. catalog' = [catalog EXCEPT !.refs = @ \ {o}]
          BY <2>4, <4>2 DEF Dropped
        <5>2. /\ DOMAIN catalog' = {"objects", "refs", "uses"} /\ catalog'.objects = catalog.objects
              /\ catalog'.refs = catalog.refs \ {o} /\ catalog'.uses = catalog.uses
          BY <5>1 DEF DropInv, DropShape
        <5>3. Listed("fk")' = Listed("fk") \ {o} /\ \A kind : Listed(kind)' \subseteq Listed(kind)
          BY <5>2 DEF Listed, Of
        <5>4. UsesAreKnown'
          BY <5>2 DEF DropInv, UsesAreKnown
        <5> QED BY <3>0, <4>2, <5>2, <5>3, <5>4
      <4>3. CASE Exists(o) /\ KindOfStep # "fk"
        <5>1. catalog' = Without(o)
          BY <2>4, <4>3 DEF Dropped
        <5> QED BY <3>0, <4>3, <5>1, WithoutShrinks DEF DropInv
      <4> QED BY <4>1, <4>2, <4>3
    <3>3. DropShape'
      BY <2>1, <3>1, <3>2 DEF DropInv, DropShape
    <3>4. KindOfStep' = KindOfStep /\ Vanished' = Vanished
      BY <2>1, <3>1 DEF KindOfStep, Vanished
    <3>5. EmptyBefore(drop.step)'
      BY <2>1, <3>1, <3>2, EmptyStaysEmpty DEF DropInv, EmptyBefore
    <3>6. Listed(KindOfStep)' = Listed(KindOfStep) \ {o}
      BY <3>2
    <3>7. Listed(KindOfStep)' \subseteq drop'.todo /\ drop'.todo \subseteq Listed(KindOfStep)' \cup Vanished'
      BY <2>1, <3>1, <3>4, <3>6 DEF DropInv
    <3>8. drop'.err = trouble' /\ "refused" \notin trouble' /\ OrderNeverFails'
      BY <2>1, <2>4, <3>1 DEF DropInv, OrderNeverFails
    <3> QED BY <2>1, <2>4, <3>1, <3>2, <3>3, <3>4, <3>5, <3>7, <3>8 DEF DropInv
  <2> QED BY <1>4, <2>2, <2>3, <2>4 DEF DropOne
<1>5. ASSUME DropByQuery PROVE DropInv'
  <2>1. drop.pc = "list" /\ drop.driver = "pq" /\ UNCHANGED <<checks, vanished>> /\ checks
    BY <1>5 DEF DropByQuery, DropInv, SwitchesChecks
  <2>2. CASE StatementFails("returned") /\ UNCHANGED catalog
    BY <2>1, <2>2, FailureKeepsInv
  <2> DEFINE rest == Independent
  <2>3. ASSUME catalog' = [objects |-> [o \in rest |-> catalog.objects[o]],
                           refs |-> catalog.refs \cap (rest \X rest),
                           uses |-> catalog.uses \cap (rest \X rest)],
               drop' = [drop EXCEPT !.pc = "returned"], UNCHANGED trouble
        PROVE  DropInv'
    <3>1. /\ drop'.driver = "pq" /\ drop'.step = drop.step
          /\ drop'.err = drop.err /\ DOMAIN drop' = DOMAIN NoDrop /\ drop'.pc = "returned"
      BY <2>1, <2>3 DEF DropInv, DropShape, NoDrop
    <3>0. rest \subseteq DOMAIN catalog.objects \ (Of("table") \cup Of("type"))
      BY DEF Independent
    <3>2. /\ DOMAIN catalog' = {"objects", "refs", "uses"}
          /\ DOMAIN catalog'.objects = rest
          /\ \A o \in rest : catalog'.objects[o] = catalog.objects[o]
          /\ catalog'.uses = catalog.uses \cap (rest \X rest)
      BY <2>3
    <3>3. Of("table")' = {} /\ Of("type")' = {}
      BY <3>0, <3>2 DEF Of
    <3>4. UsesAreKnown'
      <4> SUFFICES ASSUME NEW u \in catalog'.uses
                   PROVE  /\ u[1] \in rest /\ u[2] \in rest
                          /\ catalog'.objects[u[1]] = "table" => catalog'.objects[u[2]] # "table"
        BY <3>2 DEF UsesAreKnown
      <4>1. u \in catalog.uses /\ u[1] \in rest /\ u[2] \in rest
        BY <3>2
      <4> QED BY <3>0, <3>2, <4>1 DEF DropInv, UsesAreKnown
    <3>5. DropShape' /\ UsesAreKnown'
      BY <2>1, <3>1, <3>2, <3>4 DEF DropInv, DropShape, UsesAreKnown
    <3>6. EmptyBefore(3)'
      BY <3>1, <3>3, StepsOf DEF EmptyBefore, Listed
    <3>7. Len(Steps["pq"]) + 1 = 3
      BY StepsOf
    <3>8. drop'.err = trouble' /\ "refused" \notin trouble' /\ OrderNeverFails'
      BY <2>1, <2>3, <3>1 DEF DropInv, OrderNeverFails
    <3> QED BY <2>1, <2>3, <3>1, <3>5, <3>6, <3>7, <3>8 DEF DropInv
  <2> QED BY <1>5, <2>2, <2>3 DEF DropByQuery
<1>6. ASSUME StepDone PROVE DropInv'
  <2>1. /\ drop.pc = "drop" /\ drop.todo = {} /\ drop.driver # "pq"
        /\ UNCHANGED <<catalog, checks, trouble, vanished>>
        /\ SwitchesChecks(drop.driver) <=> ~checks
    BY <1>6 DEF StepDone, DropInv, DropShape
  <2>2. \A kind : Listed(kind)' = Listed(kind)
    BY <2>1 DEF Listed, Of
  <2>3. EmptyBefore(drop.step + 1)
    <3>1. Listed(Steps[drop.driver][drop.step]) = {} /\ EmptyBefore(drop.step)
      BY <2>1 DEF DropInv, KindOfStep
    <3>2. drop.step \in Nat /\ \A i \in 1..(drop.step + 1) - 1 : i = drop.step \/ i \in 1..drop.step - 1
      BY DEF DropInv, DropShape
    <3> QED BY <3>1, <3>2 DEF EmptyBefore
  <2>4. CASE drop.step = Len(Steps[drop.driver])
    <3>1. drop' = [drop EXCEPT !.pc = IF ~checks THEN "restore" ELSE "returned"]
      BY <1>6, <2>1, <2>4 DEF StepDone, IsLast, End
    <3>2. /\ drop'.driver = drop.driver /\ drop'.step = drop.step /\ drop'.err = drop.err
          /\ DOMAIN drop' = DOMAIN NoDrop /\ drop'.pc = IF ~checks THEN "restore" ELSE "returned"
      BY <3>1 DEF DropInv, DropShape, NoDrop
    <3>3. DropShape' /\ UsesAreKnown'
      BY <2>1, <3>2 DEF DropInv, DropShape, UsesAreKnown
    <3>4. EmptyBefore(Len(Steps[drop.driver]) + 1)'
      BY <2>2, <2>3, <2>4, <3>2 DEF EmptyBefore
    <3>5. drop'.err = trouble' /\ "refused" \notin trouble' /\ OrderNeverFails'
      BY <2>1, <3>2 DEF DropInv, OrderNeverFails
    <3> QED BY <2>1, <3>2, <3>3, <3>4, <3>5 DEF DropInv
  <2>5. CASE drop.step # Len(Steps[drop.driver])
    <3>1. drop' = [drop EXCEPT !.step = @ + 1, !.pc = "list"]
      BY <1>6, <2>5 DEF StepDone, IsLast
    <3>2. /\ drop'.driver = drop.driver /\ drop'.step = drop.step + 1 /\ drop'.err = drop.err
          /\ DOMAIN drop' = DOMAIN NoDrop /\ drop'.pc = "list"
      BY <3>1 DEF DropInv, DropShape, NoDrop
    <3>3. Len(Steps[drop.driver]) \in Nat /\ checks
      <4>1. Len(Steps[drop.driver]) \in Nat
        BY StepsAreMany DEF DropInv, DropShape
      <4>2. ~SwitchesChecks(drop.driver)
        <5> SUFFICES ASSUME drop.driver \in {"mysql", "sqlite"} PROVE FALSE
          BY DEF SwitchesChecks
        <5>1. Len(Steps[drop.driver]) = 1
          BY StepsOf
        <5>2. drop.step \in 1..Len(Steps[drop.driver])
          BY DEF DropInv, DropShape
        <5> QED BY <2>5, <5>1, <5>2
      <4> QED BY <2>1, <4>1, <4>2
    <3>4. DropShape' /\ UsesAreKnown'
      BY <2>1, <2>5, <3>2, <3>3 DEF DropInv, DropShape, UsesAreKnown
    <3>5. EmptyBefore(drop.step)'
      BY <2>2, <2>3, <3>2 DEF EmptyBefore
    <3>6. drop'.err = trouble' /\ "refused" \notin trouble' /\ OrderNeverFails'
      BY <2>1, <3>2 DEF DropInv, OrderNeverFails
    <3> QED BY <2>1, <3>2, <3>3, <3>4, <3>5, <3>6 DEF DropInv
  <2> QED BY <2>4, <2>5
<1>7. ASSUME RestoreChecks PROVE DropInv'
  <2>1. drop.pc = "restore" /\ UNCHANGED <<catalog, vanished>>
    BY <1>7 DEF RestoreChecks
  <2>2. CASE StatementFails("returned") /\ UNCHANGED checks
    BY <2>1, <2>2, FailureKeepsInv
  <2>3. ASSUME checks' = TRUE, drop' = [drop EXCEPT !.pc = "returned"], UNCHANGED trouble
        PROVE  DropInv'
    <3>1. /\ drop'.driver = drop.driver /\ drop'.step = drop.step /\ drop'.err = drop.err
          /\ DOMAIN drop' = DOMAIN NoDrop /\ drop'.pc = "returned"
      BY <2>3 DEF DropInv, DropShape, NoDrop
    <3>2. DropShape' /\ UsesAreKnown'
      BY <2>1, <2>3, <3>1 DEF DropInv, DropShape, UsesAreKnown
    <3>3. drop'.err = {} => EmptyBefore(Len(Steps[drop.driver]) + 1)'
      BY <2>1, <3>1 DEF DropInv, EmptyBefore, Listed, Of
    <3>4. drop'.err = trouble' /\ "refused" \notin trouble' /\ OrderNeverFails'
      BY <2>1, <2>3, <3>1 DEF DropInv, OrderNeverFails
    <3> QED BY <2>1, <2>3, <3>1, <3>2, <3>3, <3>4 DEF DropInv
  <2> QED BY <1>7, <2>2, <2>3 DEF RestoreChecks
<1>8. ASSUME DropReturned PROVE DropInv'
  <2>1. /\ drop' = NoDrop /\ checks' = TRUE /\ trouble' = {} /\ vanished' = NoneVanished
        /\ catalog' \in Catalogs
    BY <1>8 DEF DropReturned
  <2>2. DropShape'
    BY <2>1, CatalogsAssumption, StepsOf DEF DropShape, NoDrop, NoneVanished
  <2>3. UsesAreKnown'
    BY <2>1, CatalogsAssumption DEF UsesAreKnown
  <2> QED BY <2>1, <2>2, <2>3 DEF DropInv, NoDrop, OrderNeverFails
<1>9. ASSUME NEW o \in DOMAIN catalog.objects, ObjectDisappears(o) PROVE DropInv'
  <2>1. /\ drop.pc \notin {"idle", "returned"}
        /\ catalog' = Without(o) /\ UNCHANGED <<checks, drop, trouble>>
        /\ vanished' = [objects |-> vanished.objects \cup {o},
                        refs |-> vanished.refs \cup {r \in catalog.refs : o \in {r[1], r[2]}}]
    BY <1>9 DEF ObjectDisappears
  <2>2. /\ DOMAIN catalog' = {"objects", "refs", "uses"} /\ UsesAreKnown'
        /\ \A kind : Listed(kind)' \subseteq Listed(kind)
        /\ \A kind : kind # "fk" => Listed(kind)' = Listed(kind) \ {o}
        /\ Listed("fk")' = Listed("fk") \ {r \in catalog.refs : o \in {r[1], r[2]}}
    BY <2>1, WithoutShrinks DEF DropInv
  <2>3. \A step : EmptyBefore(step) => EmptyBefore(step)'
    BY <2>1, <2>2, EmptyStaysEmpty
  <2>4. DropShape' /\ KindOfStep' = KindOfStep
    BY <2>1, <2>2 DEF DropInv, DropShape, KindOfStep
  <2>5. Listed(KindOfStep) \cup Vanished \subseteq Listed(KindOfStep)' \cup Vanished'
    <3>1. CASE KindOfStep = "fk"
      <4>1. Vanished = vanished.refs /\ Vanished' = vanished'.refs
        BY <3>1, <2>4 DEF Vanished
      <4> QED BY <2>1, <2>2, <2>4, <3>1, <4>1
    <3>2. CASE KindOfStep # "fk"
      <4>1. Vanished = vanished.objects /\ Vanished' = vanished'.objects
        BY <3>2, <2>4 DEF Vanished
      <4> QED BY <2>1, <2>2, <2>4, <3>2, <4>1
    <3> QED BY <3>1, <3>2
  <2>6. drop.pc \in {"off", "drop"} =>
          /\ Listed(KindOfStep)' \subseteq drop.todo
          /\ drop.todo \subseteq Listed(KindOfStep)' \cup Vanished'
    BY <2>2, <2>4, <2>5 DEF DropInv
  <2>7. OrderNeverFails'
    BY <2>1 DEF OrderNeverFails
  <2> QED BY <2>1, <2>2, <2>3, <2>4, <2>6, <2>7 DEF DropInv
<1>10. ASSUME NEW r \in catalog.refs, ForeignKeyDisappears(r) PROVE DropInv'
  <2>1. /\ drop.pc \notin {"idle", "returned"}
        /\ catalog' = [catalog EXCEPT !.refs = @ \ {r}] /\ UNCHANGED <<checks, drop, trouble>>
        /\ vanished' = [vanished EXCEPT !.refs = @ \cup {r}]
    BY <1>10 DEF ForeignKeyDisappears
  <2>2. /\ DOMAIN catalog' = {"objects", "refs", "uses"} /\ catalog'.objects = catalog.objects
        /\ catalog'.refs = catalog.refs \ {r} /\ catalog'.uses = catalog.uses
        /\ vanished'.refs = vanished.refs \cup {r} /\ vanished'.objects = vanished.objects
        /\ DOMAIN vanished' = DOMAIN vanished
    BY <2>1 DEF DropInv, DropShape
  <2>3. /\ Listed("fk")' = Listed("fk") \ {r} /\ \A kind : Listed(kind)' \subseteq Listed(kind)
        /\ \A kind : kind # "fk" => Listed(kind)' = Listed(kind)
    BY <2>2 DEF Listed, Of
  <2>4. \A step : EmptyBefore(step) => EmptyBefore(step)'
    BY <2>1, <2>3, EmptyStaysEmpty
  <2>5. DropShape' /\ UsesAreKnown' /\ KindOfStep' = KindOfStep
    <3>1. vanished' = [objects |-> vanished'.objects, refs |-> vanished'.refs]
      BY <2>1 DEF DropInv, DropShape
    <3> QED BY <2>1, <2>2, <3>1 DEF DropInv, DropShape, UsesAreKnown, KindOfStep
  <2>6. Listed(KindOfStep) \cup Vanished \subseteq Listed(KindOfStep)' \cup Vanished'
    <3>1. CASE KindOfStep = "fk"
      <4>1. Vanished = vanished.refs /\ Vanished' = vanished'.refs
        BY <3>1, <2>5 DEF Vanished
      <4> QED BY <2>2, <2>3, <2>5, <3>1, <4>1
    <3>2. CASE KindOfStep # "fk"
      <4>1. Vanished = vanished.objects /\ Vanished' = vanished'.objects
        BY <3>2, <2>5 DEF Vanished
      <4> QED BY <2>2, <2>3, <2>5, <3>2, <4>1
    <3> QED BY <3>1, <3>2
  <2>7. drop.pc \in {"off", "drop"} =>
          /\ Listed(KindOfStep)' \subseteq drop.todo
          /\ drop.todo \subseteq Listed(KindOfStep)' \cup Vanished'
    BY <2>3, <2>5, <2>6 DEF DropInv
  <2>8. OrderNeverFails'
    BY <2>1 DEF OrderNeverFails
  <2> QED BY <2>1, <2>4, <2>5, <2>7, <2>8 DEF DropInv
<1>11. CASE UNCHANGED dropVars
  BY <1>11 DEF dropVars, DropInv, DropShape, UsesAreKnown, EmptyBefore, Listed, Of, KindOfStep, Vanished,
       UsedByOthers, OrderNeverFails
<1> QED BY <1>1, <1>2, <1>3, <1>4, <1>5, <1>6, <1>7, <1>8, <1>9, <1>10, <1>11 DEF DropNext

LEMMA DropSpecInv == DropSpec => []DropInv
BY DropInitInv, DropNextInv, PTL DEF DropSpec

(* dropall.go: a call that returns nil has left nothing of the kinds it     *)
(* drops, whatever the database held and whoever dropped things meanwhile.  *)
THEOREM DropAllLeavesNothing == DropSpec => []NothingIsLeft
<1>1. DropInv => NothingIsLeft
  <2> SUFFICES ASSUME DropInv, drop.pc = "returned", drop.err = {},
                      NEW i \in DOMAIN Steps[drop.driver]
               PROVE  Listed(Steps[drop.driver][i]) = {}
    BY DEF NothingIsLeft
  <2>1. EmptyBefore(Len(Steps[drop.driver]) + 1)
    BY DEF DropInv
  <2>2. i \in 1..(Len(Steps[drop.driver]) + 1) - 1
    BY StepsOf DEF DropInv, DropShape, Steps, MysqlSteps, SqliteSteps, MssqlSteps, OracleSteps, PqSteps
  <2> QED BY <2>1, <2>2 DEF EmptyBefore
<1> QED BY <1>1, DropSpecInv, PTL

(* mysqlconn/dropall.go:12, oraconn/dropall.go:30: whatever refers to       *)
(* whatever, besides statements that fail by themselves only these make a   *)
(* call fail: on SQL Server what others removed after it was listed, or     *)
(* what an object that is no table uses, and on Oracle what others removed, *)
(* tables excepted.                                                         *)
THEOREM DropOrderIsRight == DropSpec => []OrderNeverFails
<1>1. DropInv => OrderNeverFails
  BY DEF DropInv, OrderNeverFails
<1> QED BY <1>1, DropSpecInv, PTL

(* mysqlconn/dropall.go:43: the session has its foreign key checks again    *)
(* when the call returns, or the error tells that it has not.               *)
THEOREM DropRestoresChecks == DropSpec => []ChecksAreRestored
<1>1. DropInv => ChecksAreRestored
  BY DEF DropInv, ChecksAreRestored
<1> QED BY <1>1, DropSpecInv, PTL

-------------------------------------------------------------------------------
(* DriverErrors.  The inductive invariant: what the driver returns is what *)
(* it makes of one error that a database raises.                           *)
Raised(driver, what, code, name, method) ==
  [driver |-> driver, what |-> what, code |-> code, words |-> Words(driver, what, name),
   method |-> method]

ErrorsInv ==
  raised # Nothing =>
    \E driver \in Drivers : \E what \in DOMAIN CodesOf(driver) :
      \E code \in CodesOf(driver)[what], name \in Names, method \in Methods :
        /\ raised = Raised(driver, what, code, name, method)
        /\ returned = IF Wraps(driver, method) THEN WrapKnownErrors(raised) ELSE {}

LEMMA ErrorsInvHolds == ErrorsSpec => []ErrorsInv
<1>1. ErrorsInit => ErrorsInv
  BY DEF ErrorsInit, ErrorsInv
<1>2. ASSUME ErrorsInv, [ErrorsNext]_errorVars PROVE ErrorsInv'
  <2>1. CASE Handle
    BY <2>1 DEF Handle, ErrorsInv
  <2>2. ASSUME NEW driver \in Drivers, NEW what \in DOMAIN CodesOf(driver), NEW code \in CodesOf(driver)[what],
               NEW name \in Names, NEW method \in Methods, Fail(driver, what, code, name, method)
        PROVE  ErrorsInv'
    <3>1. /\ raised' = Raised(driver, what, code, name, method)
          /\ returned' = IF Wraps(driver, method) THEN WrapKnownErrors(raised') ELSE {}
      BY <2>2 DEF Fail, Raised
    <3> HIDE DEF Drivers, CodesOf, Methods, Raised, Wraps, WrapKnownErrors
    <3> QED BY <2>2, <3>1 DEF ErrorsInv
  <2>3. CASE UNCHANGED errorVars
    BY <1>2, <2>3 DEF errorVars, ErrorsInv
  <2> QED BY <1>2, <2>1, <2>2, <2>3 DEF ErrorsNext
<1> QED BY <1>1, <1>2, PTL DEF ErrorsSpec

(* The words of an error that cannot be taken for another one, and the      *)
(* codes of those that can.                                                 *)
LEMMA WordsAreOwn ==
  ASSUME NEW driver \in Drivers, NEW what, NEW code, NEW name, NEW method,
         NEW r, r = Raised(driver, what, code, name, method), ~Ambiguous(r)
  PROVE  /\ driver = "sqlite" /\ code = "constraint" => r.words = Words(driver, what, {})
         /\ driver = "mssql" /\ code = 547 => what # "children" /\ r.words = Words(driver, what, {})
BY DEF Raised, Ambiguous, ToldByWords

LEMMA AmbiguousCodes ==
  ASSUME NEW driver \in Drivers, NEW what, NEW code, NEW name, NEW method,
         NEW r, r = Raised(driver, what, code, name, method), Ambiguous(r)
  PROVE  \/ driver = "mssql" /\ code = 547
         \/ driver = "sqlite" /\ code = "constraint"
BY DEF Raised, Ambiguous, ToldByWords

(* What each error of sqldb is for, and what it is an error of.            *)
LEMMA MeaningOfEach ==
  /\ Meaning["notNull"] = "ErrNotNullViolation" /\ Meaning["unique"] = "ErrUniqueViolation"
  /\ Meaning["parent"] = "ErrForeignKeyViolation"
  /\ Meaning["children"] = "ErrForeignKeyViolation" /\ Meaning["check"] = "ErrCheckViolation"
  /\ Meaning["exclusion"] = "ErrExclusionViolation"
  /\ Meaning["integrity"] = "ErrIntegrityConstraintViolation"
  /\ Meaning["null"] = "ErrNullValueNotAllowed"
  /\ Meaning["deadlock"] = "ErrDeadlock" /\ Meaning["serialization"] = "ErrSerializationFailure"
  /\ Meaning["canceled"] = "context.Canceled" /\ Meaning["raise"] = "ErrRaisedException"
  /\ Meaning["other"] = "none"
BY DEF Meaning

LEMMA ExpectedOfEach ==
  ASSUME NEW what, NEW code
  PROVE  /\ Expected("pq", what, code) = IF code = "23001" THEN "ErrRestrictViolation" ELSE Meaning[what]
         /\ Expected("mysql", what, code) = IF code \in {1020, 1317, 1364, 4025} THEN "none" ELSE Meaning[what]
         /\ Expected("mssql", what, code) = IF code \in {3960, 51000} THEN "none" ELSE Meaning[what]
         /\ Expected("oracle", what, code) = IF code = 1407 THEN "none" ELSE Meaning[what]
         /\ Expected("sqlite", what, code) =
              IF what = "raise" THEN "ErrIntegrityConstraintViolation" ELSE Meaning[what]
<1>1. /\ NotKnown["pq"] = {} /\ NotKnown["sqlite"] = {} /\ NotKnown["mysql"] = {1020, 1317, 1364, 4025}
      /\ NotKnown["mssql"] = {3960, 51000} /\ NotKnown["oracle"] = {1407}
  BY DEF NotKnown
<1>2. Expected("pq", what, code) = IF code = "23001" THEN "ErrRestrictViolation" ELSE Meaning[what]
  BY <1>1 DEF Expected
<1>3. Expected("mysql", what, code) = IF code \in {1020, 1317, 1364, 4025} THEN "none" ELSE Meaning[what]
  BY <1>1 DEF Expected
<1>4. Expected("mssql", what, code) = IF code \in {3960, 51000} THEN "none" ELSE Meaning[what]
  BY <1>1 DEF Expected
<1>5. Expected("oracle", what, code) = IF code = 1407 THEN "none" ELSE Meaning[what]
  BY <1>1 DEF Expected
<1>6. Expected("sqlite", what, code) =
        IF what = "raise" THEN "ErrIntegrityConstraintViolation" ELSE Meaning[what]
  BY <1>1 DEF Expected
<1> QED BY <1>2, <1>3, <1>4, <1>5, <1>6

LEMMA UnwrappedOfEach ==
  \A class :
    /\ class \in Violations => Unwrapped(class) = {class, "ErrIntegrityConstraintViolation"}
    /\ class = "ErrQueryCanceled" => Unwrapped(class) = {class, "context.Canceled"}
    /\ class \notin Violations \cup {"ErrQueryCanceled"} => Unwrapped(class) = {class}
BY DEF Unwrapped, Violations

(* PostgreSQL: the classes of the codes, and the functions for them. *)
LEMMA PqClassOfEach ==
  \A code :
    /\ code = "23000" => PqClass(code) = "ErrIntegrityConstraintViolation"
    /\ code = "23001" => PqClass(code) = "ErrRestrictViolation"
    /\ code = "23502" => PqClass(code) = "ErrNotNullViolation"
    /\ code = "23503" => PqClass(code) = "ErrForeignKeyViolation"
    /\ code = "23505" => PqClass(code) = "ErrUniqueViolation"
    /\ code = "23514" => PqClass(code) = "ErrCheckViolation"
    /\ code = "40P01" => PqClass(code) = "ErrDeadlock"
    /\ code = "40001" => PqClass(code) = "ErrSerializationFailure"
    /\ code = "57014" => PqClass(code) = "ErrQueryCanceled"
    /\ code = "23P01" => PqClass(code) = "ErrExclusionViolation"
    /\ code = "P0001" => PqClass(code) = "ErrRaisedException"
    /\ code = "22004" => PqClass(code) = "ErrNullValueNotAllowed"
    /\ code \in {"42P01", "44000"} => PqClass(code) = "none"
BY ZenonT(40) DEF PqClass

LEMMA PqDomain ==
  DOMAIN PqIs =
    {"ErrIntegrityConstraintViolation", "ErrRestrictViolation", "ErrNotNullViolation",
     "ErrForeignKeyViolation", "ErrUniqueViolation", "ErrCheckViolation", "ErrExclusionViolation",
     "ErrSerializationFailure", "ErrDeadlock", "ErrQueryCanceled", "ErrRaisedException"}
BY DEF PqIs

LEMMA PqIsOfEach ==
  /\ PqIs["ErrIntegrityConstraintViolation"] = {"23000", "23001", "23502", "23503", "23505", "23514", "23P01"}
  /\ PqIs["ErrRestrictViolation"] = {"23001"}
  /\ PqIs["ErrNotNullViolation"] = {"23502"}
  /\ PqIs["ErrForeignKeyViolation"] = {"23503"}
  /\ PqIs["ErrUniqueViolation"] = {"23505"}
  /\ PqIs["ErrCheckViolation"] = {"23514"}
  /\ PqIs["ErrExclusionViolation"] = {"23P01"}
  /\ PqIs["ErrSerializationFailure"] = {"40001"}
  /\ PqIs["ErrDeadlock"] = {"40P01"}
  /\ PqIs["ErrQueryCanceled"] = {"57014"}
  /\ PqIs["ErrRaisedException"] = {"P0001"}
BY DEF PqIs

LEMMA PqClasses ==
  ASSUME NEW what \in DOMAIN PqCodes, NEW code \in PqCodes[what]
  PROVE  PqClass(code) = IF what = "canceled" THEN "ErrQueryCanceled" ELSE Expected("pq", what, code)
<1>1. \/ what = "notNull" /\ code = "23502"
      \/ what = "unique" /\ code = "23505"
      \/ what = "parent" /\ code = "23503"
      \/ what = "children" /\ code \in {"23503", "23001"}
      \/ what = "check" /\ code = "23514"
      \/ what = "exclusion" /\ code = "23P01"
      \/ what = "integrity" /\ code = "23000"
      \/ what = "null" /\ code = "22004"
      \/ what = "deadlock" /\ code = "40P01"
      \/ what = "serialization" /\ code = "40001"
      \/ what = "canceled" /\ code = "57014"
      \/ what = "raise" /\ code = "P0001"
      \/ what = "other" /\ code \in {"42P01", "44000"}
  BY DEF PqCodes
<1> QED BY <1>1, PqClassOfEach, MeaningOfEach, ExpectedOfEach

LEMMA PqFunctions ==
  ASSUME NEW what \in DOMAIN PqCodes, NEW code \in PqCodes[what], NEW class \in DOMAIN PqIs
  PROVE  code \in PqIs[class] <=> class \in Unwrapped(PqClass(code)) \ {"none"}
<1>1. code \in {"23000", "23001", "23502", "23503", "23505", "23514", "40P01", "40001", "57014",
             "23P01", "P0001", "42P01", "44000", "22004"}
  BY DEF PqCodes
<1>2. CASE code = "23000"
  <2>1. Unwrapped(PqClass(code)) = {"ErrIntegrityConstraintViolation"}
    BY <1>2, PqClassOfEach, UnwrappedOfEach DEF Violations
  <2>2. code \in PqIs[class] <=> class \in {"ErrIntegrityConstraintViolation"}
    BY <1>2, PqIsOfEach, PqDomain
  <2> QED BY <2>1, <2>2, PqDomain
<1>3. CASE code = "23001"
  <2>1. Unwrapped(PqClass(code)) = {"ErrRestrictViolation", "ErrIntegrityConstraintViolation"}
    BY <1>3, PqClassOfEach, UnwrappedOfEach DEF Violations
  <2>2. code \in PqIs[class] <=> class \in {"ErrIntegrityConstraintViolation", "ErrRestrictViolation"}
    BY <1>3, PqIsOfEach, PqDomain
  <2> QED BY <2>1, <2>2, PqDomain
<1>4. CASE code = "23502"
  <2>1. Unwrapped(PqClass(code)) = {"ErrNotNullViolation", "ErrIntegrityConstraintViolation"}
    BY <1>4, PqClassOfEach, UnwrappedOfEach DEF Violations
  <2>2. code \in PqIs[class] <=> class \in {"ErrIntegrityConstraintViolation", "ErrNotNullViolation"}
    BY <1>4, PqIsOfEach, PqDomain
  <2> QED BY <2>1, <2>2, PqDomain
<1>5. CASE code = "23503"
  <2>1. Unwrapped(PqClass(code)) = {"ErrForeignKeyViolation", "ErrIntegrityConstraintViolation"}
    BY <1>5, PqClassOfEach, UnwrappedOfEach DEF Violations
  <2>2. code \in PqIs[class] <=> class \in {"ErrIntegrityConstraintViolation", "ErrForeignKeyViolation"}
    BY <1>5, PqIsOfEach, PqDomain
  <2> QED BY <2>1, <2>2, PqDomain
<1>6. CASE code = "23505"
  <2>1. Unwrapped(PqClass(code)) = {"ErrUniqueViolation", "ErrIntegrityConstraintViolation"}
    BY <1>6, PqClassOfEach, UnwrappedOfEach DEF Violations
  <2>2. code \in PqIs[class] <=> class \in {"ErrIntegrityConstraintViolation", "ErrUniqueViolation"}
    BY <1>6, PqIsOfEach, PqDomain
  <2> QED BY <2>1, <2>2, PqDomain
<1>7. CASE code = "23514"
  <2>1. Unwrapped(PqClass(code)) = {"ErrCheckViolation", "ErrIntegrityConstraintViolation"}
    BY <1>7, PqClassOfEach, UnwrappedOfEach DEF Violations
  <2>2. code \in PqIs[class] <=> class \in {"ErrIntegrityConstraintViolation", "ErrCheckViolation"}
    BY <1>7, PqIsOfEach, PqDomain
  <2> QED BY <2>1, <2>2, PqDomain
<1>8. CASE code = "40P01"
  <2>1. Unwrapped(PqClass(code)) = {"ErrDeadlock"}
    BY <1>8, PqClassOfEach, UnwrappedOfEach DEF Violations
  <2>2. code \in PqIs[class] <=> class \in {"ErrDeadlock"}
    BY <1>8, PqIsOfEach, PqDomain
  <2> QED BY <2>1, <2>2, PqDomain
<1>9. CASE code = "40001"
  <2>1. Unwrapped(PqClass(code)) = {"ErrSerializationFailure"}
    BY <1>9, PqClassOfEach, UnwrappedOfEach DEF Violations
  <2>2. code \in PqIs[class] <=> class \in {"ErrSerializationFailure"}
    BY <1>9, PqIsOfEach, PqDomain
  <2> QED BY <2>1, <2>2, PqDomain
<1>10. CASE code = "57014"
  <2>1. Unwrapped(PqClass(code)) = {"ErrQueryCanceled", "context.Canceled"}
    BY <1>10, PqClassOfEach, UnwrappedOfEach DEF Violations
  <2>2. code \in PqIs[class] <=> class \in {"ErrQueryCanceled"}
    BY <1>10, PqIsOfEach, PqDomain
  <2> QED BY <2>1, <2>2, PqDomain
<1>11. CASE code = "23P01"
  <2>1. Unwrapped(PqClass(code)) = {"ErrExclusionViolation", "ErrIntegrityConstraintViolation"}
    BY <1>11, PqClassOfEach, UnwrappedOfEach DEF Violations
  <2>2. code \in PqIs[class] <=> class \in {"ErrIntegrityConstraintViolation", "ErrExclusionViolation"}
    BY <1>11, PqIsOfEach, PqDomain
  <2> QED BY <2>1, <2>2, PqDomain
<1>12. CASE code = "P0001"
  <2>1. Unwrapped(PqClass(code)) = {"ErrRaisedException"}
    BY <1>12, PqClassOfEach, UnwrappedOfEach DEF Violations
  <2>2. code \in PqIs[class] <=> class \in {"ErrRaisedException"}
    BY <1>12, PqIsOfEach, PqDomain
  <2> QED BY <2>1, <2>2, PqDomain
<1>13. CASE code \in {"42P01", "44000"}
  <2>1. Unwrapped(PqClass(code)) = {"none"}
    BY <1>13, PqClassOfEach, UnwrappedOfEach DEF Violations
  <2>2. code \in PqIs[class] <=> class \in {}
    BY <1>13, PqIsOfEach, PqDomain
  <2> QED BY <2>1, <2>2, PqDomain
<1>14. CASE code = "22004"
  <2>1. Unwrapped(PqClass(code)) = {"ErrNullValueNotAllowed"}
    BY <1>14, PqClassOfEach, UnwrappedOfEach DEF Violations
  <2>2. code \in PqIs[class] <=> class \in {}
    BY <1>14, PqIsOfEach, PqDomain
  <2> QED BY <2>1, <2>2, PqDomain
<1> QED BY <1>1, <1>2, <1>3, <1>4, <1>5, <1>6, <1>7, <1>8, <1>9, <1>10, <1>11, <1>12, <1>13, <1>14

(* MySQL: the classes of the codes, and the functions for them. *)
LEMMA MysqlClassOfEach ==
  \A code :
    /\ code = 1213 => MysqlClass(code) = "ErrDeadlock"
    /\ code = 1644 => MysqlClass(code) = "ErrRaisedException"
    /\ code = 1048 => MysqlClass(code) = "ErrNotNullViolation"
    /\ code = 1062 => MysqlClass(code) = "ErrUniqueViolation"
    /\ code \in {1216, 1217, 1451, 1452} => MysqlClass(code) = "ErrForeignKeyViolation"
    /\ code = 3819 => MysqlClass(code) = "ErrCheckViolation"
    /\ code \in {1146, 1020, 1317, 1364, 4025} => MysqlClass(code) = "none"
BY DEF MysqlClass

LEMMA MysqlDomain ==
  DOMAIN MysqlIs =
    {"ErrDeadlock", "ErrNotNullViolation", "ErrUniqueViolation", "ErrForeignKeyViolation",
     "ErrCheckViolation"}
BY DEF MysqlIs

LEMMA MysqlIsOfEach ==
  /\ MysqlIs["ErrDeadlock"] = {1213}
  /\ MysqlIs["ErrNotNullViolation"] = {1048}
  /\ MysqlIs["ErrUniqueViolation"] = {1062}
  /\ MysqlIs["ErrForeignKeyViolation"] = {1216, 1217, 1451, 1452}
  /\ MysqlIs["ErrCheckViolation"] = {3819}
BY DEF MysqlIs

LEMMA MysqlClasses ==
  ASSUME NEW what \in DOMAIN MysqlCodes, NEW code \in MysqlCodes[what]
  PROVE  MysqlClass(code) = Expected("mysql", what, code)
<1>1. \/ what = "notNull" /\ code \in {1048, 1364}
      \/ what = "unique" /\ code = 1062
      \/ what = "parent" /\ code \in {1216, 1452}
      \/ what = "children" /\ code \in {1217, 1451}
      \/ what = "check" /\ code \in {3819, 4025}
      \/ what = "deadlock" /\ code = 1213
      \/ what = "serialization" /\ code = 1020
      \/ what = "canceled" /\ code = 1317
      \/ what = "raise" /\ code = 1644
      \/ what = "other" /\ code = 1146
  BY DEF MysqlCodes
<1> QED BY <1>1, MysqlClassOfEach, MeaningOfEach, ExpectedOfEach

LEMMA MysqlFunctions ==
  ASSUME NEW what \in DOMAIN MysqlCodes, NEW code \in MysqlCodes[what], NEW class \in DOMAIN MysqlIs
  PROVE  code \in MysqlIs[class] <=> class \in Unwrapped(MysqlClass(code)) \ {"none"}
<1>1. code \in {1213, 1644, 1048, 1062, 1216, 1217, 1451, 1452, 3819, 1146, 1020, 1317, 1364, 4025}
  BY DEF MysqlCodes
<1>2. CASE code = 1213
  <2>1. Unwrapped(MysqlClass(code)) = {"ErrDeadlock"}
    BY <1>2, MysqlClassOfEach, UnwrappedOfEach DEF Violations
  <2>2. code \in MysqlIs[class] <=> class \in {"ErrDeadlock"}
    BY <1>2, MysqlIsOfEach, MysqlDomain
  <2> QED BY <2>1, <2>2, MysqlDomain
<1>3. CASE code = 1644
  <2>1. Unwrapped(MysqlClass(code)) = {"ErrRaisedException"}
    BY <1>3, MysqlClassOfEach, UnwrappedOfEach DEF Violations
  <2>2. code \in MysqlIs[class] <=> class \in {}
    BY <1>3, MysqlIsOfEach, MysqlDomain
  <2> QED BY <2>1, <2>2, MysqlDomain
<1>4. CASE code = 1048
  <2>1. Unwrapped(MysqlClass(code)) = {"ErrNotNullViolation", "ErrIntegrityConstraintViolation"}
    BY <1>4, MysqlClassOfEach, UnwrappedOfEach DEF Violations
  <2>2. code \in MysqlIs[class] <=> class \in {"ErrNotNullViolation"}
    BY <1>4, MysqlIsOfEach, MysqlDomain
  <2> QED BY <2>1, <2>2, MysqlDomain
<1>5. CASE code = 1062
  <2>1. Unwrapped(MysqlClass(code)) = {"ErrUniqueViolation", "ErrIntegrityConstraintViolation"}
    BY <1>5, MysqlClassOfEach, UnwrappedOfEach DEF Violations
  <2>2. code \in MysqlIs[class] <=> class \in {"ErrUniqueViolation"}
    BY <1>5, MysqlIsOfEach, MysqlDomain
  <2> QED BY <2>1, <2>2, MysqlDomain
<1>6. CASE code \in {1216, 1217, 1451, 1452}
  <2>1. Unwrapped(MysqlClass(code)) = {"ErrForeignKeyViolation", "ErrIntegrityConstraintViolation"}
    BY <1>6, MysqlClassOfEach, UnwrappedOfEach DEF Violations
  <2>2. code \in MysqlIs[class] <=> class \in {"ErrForeignKeyViolation"}
    BY <1>6, MysqlIsOfEach, MysqlDomain
  <2> QED BY <2>1, <2>2, MysqlDomain
<1>7. CASE code = 3819
  <2>1. Unwrapped(MysqlClass(code)) = {"ErrCheckViolation", "ErrIntegrityConstraintViolation"}
    BY <1>7, MysqlClassOfEach, UnwrappedOfEach DEF Violations
  <2>2. code \in MysqlIs[class] <=> class \in {"ErrCheckViolation"}
    BY <1>7, MysqlIsOfEach, MysqlDomain
  <2> QED BY <2>1, <2>2, MysqlDomain
<1>8. CASE code \in {1146, 1020, 1317, 1364, 4025}
  <2>1. Unwrapped(MysqlClass(code)) = {"none"}
    BY <1>8, MysqlClassOfEach, UnwrappedOfEach DEF Violations
  <2>2. code \in MysqlIs[class] <=> class \in {}
    BY <1>8, MysqlIsOfEach, MysqlDomain
  <2> QED BY <2>1, <2>2, MysqlDomain
<1> QED BY <1>1, <1>2, <1>3, <1>4, <1>5, <1>6, <1>7, <1>8

(* Oracle: the classes of the codes, and the functions for them. *)
LEMMA OracleClassOfEach ==
  \A code :
    /\ code = 1 => OracleClass(code) = "ErrUniqueViolation"
    /\ code = 1400 => OracleClass(code) = "ErrNotNullViolation"
    /\ code = 2291 => OracleClass(code) = "ErrForeignKeyViolation"
    /\ code = 2292 => OracleClass(code) = "ErrForeignKeyViolation"
    /\ code = 2290 => OracleClass(code) = "ErrCheckViolation"
    /\ code = 60 => OracleClass(code) = "ErrDeadlock"
    /\ code = 8177 => OracleClass(code) = "ErrSerializationFailure"
    /\ code = 1013 => OracleClass(code) = "ErrQueryCanceled"
    /\ code = 20000 => OracleClass(code) = "ErrRaisedException"
    /\ code = 20500 => OracleClass(code) = "ErrRaisedException"
    /\ code = 20999 => OracleClass(code) = "ErrRaisedException"
    /\ code = 942 => OracleClass(code) = "none"
    /\ code = 1407 => OracleClass(code) = "none"
    /\ code = 21000 => OracleClass(code) = "none"
<1>1. OracleClass(1) = "ErrUniqueViolation" /\ OracleClass(1400) = "ErrNotNullViolation"
  BY DEF OracleClass
<1>2. OracleClass(2291) = "ErrForeignKeyViolation" /\ OracleClass(2292) = "ErrForeignKeyViolation"
  BY DEF OracleClass
<1>3. OracleClass(2290) = "ErrCheckViolation"
  BY DEF OracleClass
<1>4. /\ OracleClass(60) = "ErrDeadlock" /\ OracleClass(8177) = "ErrSerializationFailure"
      /\ OracleClass(1013) = "ErrQueryCanceled"
  BY DEF OracleClass
<1>5. OracleClass(20000) = "ErrRaisedException"
  BY DEF OracleClass
<1>6. OracleClass(20500) = "ErrRaisedException"
  BY DEF OracleClass
<1>7. OracleClass(20999) = "ErrRaisedException"
  BY DEF OracleClass
<1>8. OracleClass(942) = "none"
  BY DEF OracleClass
<1>9. OracleClass(21000) = "none"
  BY DEF OracleClass
<1>10. OracleClass(1407) = "none"
  BY DEF OracleClass
<1> QED BY <1>1, <1>2, <1>3, <1>4, <1>5, <1>6, <1>7, <1>8, <1>9, <1>10

LEMMA OracleDomain ==
  DOMAIN OracleIs =
    {"ErrUniqueViolation", "ErrNotNullViolation", "ErrForeignKeyViolation", "ErrCheckViolation",
     "ErrDeadlock", "ErrQueryCanceled"}
BY DEF OracleIs

LEMMA OracleIsOfEach ==
  /\ OracleIs["ErrUniqueViolation"] = {1}
  /\ OracleIs["ErrNotNullViolation"] = {1400}
  /\ OracleIs["ErrForeignKeyViolation"] = {2291, 2292}
  /\ OracleIs["ErrCheckViolation"] = {2290}
  /\ OracleIs["ErrDeadlock"] = {60}
  /\ OracleIs["ErrQueryCanceled"] = {1013}
BY DEF OracleIs

LEMMA OracleClasses ==
  ASSUME NEW what \in DOMAIN OracleCodes, NEW code \in OracleCodes[what]
  PROVE  OracleClass(code) = IF what = "canceled" THEN "ErrQueryCanceled" ELSE Expected("oracle", what, code)
<1>1. \/ what = "notNull" /\ code \in {1400, 1407}
      \/ what = "unique" /\ code = 1
      \/ what = "parent" /\ code = 2291
      \/ what = "children" /\ code = 2292
      \/ what = "check" /\ code = 2290
      \/ what = "deadlock" /\ code = 60
      \/ what = "serialization" /\ code = 8177
      \/ what = "canceled" /\ code = 1013
      \/ what = "raise" /\ code \in {20000, 20500, 20999}
      \/ what = "other" /\ code \in {942, 21000}
  BY DEF OracleCodes
<1> QED BY <1>1, OracleClassOfEach, MeaningOfEach, ExpectedOfEach

LEMMA OracleFunctions ==
  ASSUME NEW what \in DOMAIN OracleCodes, NEW code \in OracleCodes[what], NEW class \in DOMAIN OracleIs
  PROVE  code \in OracleIs[class] <=> class \in Unwrapped(OracleClass(code)) \ {"none"}
<1>1. code \in {1, 1400, 2291, 2292, 2290, 60, 8177, 1013, 20000, 20500, 20999, 942, 21000, 1407}
  BY DEF OracleCodes
<1>2. CASE code = 1
  <2>1. Unwrapped(OracleClass(code)) = {"ErrUniqueViolation", "ErrIntegrityConstraintViolation"}
    BY <1>2, OracleClassOfEach, UnwrappedOfEach DEF Violations
  <2>2. code \in OracleIs[class] <=> class \in {"ErrUniqueViolation"}
    BY <1>2, OracleIsOfEach, OracleDomain
  <2> QED BY <2>1, <2>2, OracleDomain
<1>3. CASE code = 1400
  <2>1. Unwrapped(OracleClass(code)) = {"ErrNotNullViolation", "ErrIntegrityConstraintViolation"}
    BY <1>3, OracleClassOfEach, UnwrappedOfEach DEF Violations
  <2>2. code \in OracleIs[class] <=> class \in {"ErrNotNullViolation"}
    BY <1>3, OracleIsOfEach, OracleDomain
  <2> QED BY <2>1, <2>2, OracleDomain
<1>4. CASE code \in {2291, 2292}
  <2>1. Unwrapped(OracleClass(code)) = {"ErrForeignKeyViolation", "ErrIntegrityConstraintViolation"}
    BY <1>4, OracleClassOfEach, UnwrappedOfEach DEF Violations
  <2>2. code \in OracleIs[class] <=> class \in {"ErrForeignKeyViolation"}
    BY <1>4, OracleIsOfEach, OracleDomain
  <2> QED BY <2>1, <2>2, OracleDomain
<1>5. CASE code = 2290
  <2>1. Unwrapped(OracleClass(code)) = {"ErrCheckViolation", "ErrIntegrityConstraintViolation"}
    BY <1>5, OracleClassOfEach, UnwrappedOfEach DEF Violations
  <2>2. code \in OracleIs[class] <=> class \in {"ErrCheckViolation"}
    BY <1>5, OracleIsOfEach, OracleDomain
  <2> QED BY <2>1, <2>2, OracleDomain
<1>6. CASE code = 60
  <2>1. Unwrapped(OracleClass(code)) = {"ErrDeadlock"}
    BY <1>6, OracleClassOfEach, UnwrappedOfEach DEF Violations
  <2>2. code \in OracleIs[class] <=> class \in {"ErrDeadlock"}
    BY <1>6, OracleIsOfEach, OracleDomain
  <2> QED BY <2>1, <2>2, OracleDomain
<1>7. CASE code = 8177
  <2>1. Unwrapped(OracleClass(code)) = {"ErrSerializationFailure"}
    BY <1>7, OracleClassOfEach, UnwrappedOfEach DEF Violations
  <2>2. code \in OracleIs[class] <=> class \in {}
    BY <1>7, OracleIsOfEach, OracleDomain
  <2> QED BY <2>1, <2>2, OracleDomain
<1>8. CASE code = 1013
  <2>1. Unwrapped(OracleClass(code)) = {"ErrQueryCanceled", "context.Canceled"}
    BY <1>8, OracleClassOfEach, UnwrappedOfEach DEF Violations
  <2>2. code \in OracleIs[class] <=> class \in {"ErrQueryCanceled"}
    BY <1>8, OracleIsOfEach, OracleDomain
  <2> QED BY <2>1, <2>2, OracleDomain
<1>9. CASE code \in {20000, 20500, 20999}
  <2>1. Unwrapped(OracleClass(code)) = {"ErrRaisedException"}
    BY <1>9, OracleClassOfEach, UnwrappedOfEach DEF Violations
  <2>2. code \in OracleIs[class] <=> class \in {}
    BY <1>9, OracleIsOfEach, OracleDomain
  <2> QED BY <2>1, <2>2, OracleDomain
<1>10. CASE code \in {942, 21000, 1407}
  <2>1. Unwrapped(OracleClass(code)) = {"none"}
    BY <1>10, OracleClassOfEach, UnwrappedOfEach DEF Violations
  <2>2. code \in OracleIs[class] <=> class \in {}
    BY <1>10, OracleIsOfEach, OracleDomain
  <2> QED BY <2>1, <2>2, OracleDomain
<1> QED BY <1>1, <1>2, <1>3, <1>4, <1>5, <1>6, <1>7, <1>8, <1>9, <1>10

(* SQL Server: error 547 has one of two classes, for the words of its message. *)
LEMMA MssqlOccurs ==
  ASSUME NEW what, NEW code, NEW words,
         what \in DOMAIN MssqlCodes, code \in MssqlCodes[what],
         code = 547 => what # "children" /\ words = Words("mssql", what, {})
  PROVE  \/ what = "notNull" /\ code = 515
         \/ what = "unique" /\ code \in {2601, 2627}
         \/ what = "parent" /\ code = 547 /\ words = {"foreign_key"}
         \/ what = "check" /\ code = 547 /\ words = {"check"}
         \/ what = "deadlock" /\ code = 1205
         \/ what = "serialization" /\ code = 3960
         \/ what = "raise" /\ code \in {50000, 51000}
         \/ what = "other" /\ code = 208
<1>1. Words("mssql", "parent", {}) = {"foreign_key"} /\ Words("mssql", "check", {}) = {"check"}
  BY DEF Words
<1>2. \/ what = "notNull" /\ code = 515
      \/ what = "unique" /\ code \in {2601, 2627}
      \/ what = "parent" /\ code = 547
      \/ what = "children" /\ code = 547
      \/ what = "check" /\ code = 547
      \/ what = "deadlock" /\ code = 1205
      \/ what = "serialization" /\ code = 3960
      \/ what = "raise" /\ code \in {50000, 51000}
      \/ what = "other" /\ code = 208
  BY DEF MssqlCodes
<1> QED BY <1>1, <1>2

LEMMA MssqlClassOfEach ==
  \A code, words :
    /\ code = 515 => MssqlClass(code, words) = "ErrNotNullViolation"
    /\ code \in {2601, 2627} => MssqlClass(code, words) = "ErrUniqueViolation"
    /\ code = 547 /\ "foreign_key" \in words => MssqlClass(code, words) = "ErrForeignKeyViolation"
    /\ code = 547 /\ "foreign_key" \notin words => MssqlClass(code, words) = "ErrCheckViolation"
    /\ code = 1205 => MssqlClass(code, words) = "ErrDeadlock"
    /\ code = 50000 => MssqlClass(code, words) = "ErrRaisedException"
    /\ code \in {208, 3960, 51000} => MssqlClass(code, words) = "none"
BY DEF MssqlClass

LEMMA MssqlDomain ==
  DOMAIN MssqlIs =
    {"ErrDeadlock", "ErrNotNullViolation", "ErrUniqueViolation", "ErrForeignKeyViolation",
     "ErrCheckViolation"}
BY DEF MssqlIs

LEMMA MssqlIsOfEach ==
  /\ MssqlIs["ErrDeadlock"] = {1205}
  /\ MssqlIs["ErrNotNullViolation"] = {515}
  /\ MssqlIs["ErrUniqueViolation"] = {2601, 2627}
  /\ MssqlIs["ErrForeignKeyViolation"] = {547}
  /\ MssqlIs["ErrCheckViolation"] = {547}
BY DEF MssqlIs

LEMMA MssqlClasses ==
  ASSUME NEW what, NEW code, NEW words,
         what \in DOMAIN MssqlCodes, code \in MssqlCodes[what],
         code = 547 => what # "children" /\ words = Words("mssql", what, {})
  PROVE  MssqlClass(code, words) = Expected("mssql", what, code)
BY MssqlOccurs, MssqlClassOfEach, MeaningOfEach, ExpectedOfEach

(* The functions of SQL Server on an error with any words.                  *)
MssqlHolds(code, words, class) ==
  /\ code \in MssqlIs[class]
  /\ class \in {"ErrForeignKeyViolation", "ErrCheckViolation"} => WordOf[class] \in words

LEMMA MssqlFunctions ==
  ASSUME NEW what, NEW code, NEW words,
         what \in DOMAIN MssqlCodes, code \in MssqlCodes[what], NEW class \in DOMAIN MssqlIs
  PROVE  /\ MssqlHolds(code, words, class) =>
              \/ class \in Unwrapped(MssqlClass(code, words)) \ {"none"}
              \/ /\ "ErrForeignKeyViolation" # class
                 /\ MssqlHolds(code, words, "ErrForeignKeyViolation")
                 /\ "ErrForeignKeyViolation" \in Unwrapped(MssqlClass(code, words)) \ {"none"}
         /\ class \in Unwrapped(MssqlClass(code, words)) \ {"none"} =>
              \/ MssqlHolds(code, words, class)
              \/ code = 547 /\ class = "ErrCheckViolation" /\ words \cap {"foreign_key", "check"} = {}
<1>1. WordOf["ErrForeignKeyViolation"] = "foreign_key" /\ WordOf["ErrCheckViolation"] = "check"
  BY DEF WordOf
<1>2. code \in {515, 2601, 2627, 547, 1205, 3960, 50000, 51000, 208}
  BY DEF MssqlCodes
<1>3. CASE code = 515
  <2>1. Unwrapped(MssqlClass(code, words)) = {"ErrNotNullViolation", "ErrIntegrityConstraintViolation"}
    BY <1>3, MssqlClassOfEach, UnwrappedOfEach DEF Violations
  <2>2. MssqlHolds(code, words, class) <=> class \in {"ErrNotNullViolation"}
    BY <1>1, <1>3, MssqlIsOfEach, MssqlDomain DEF MssqlHolds
  <2> QED BY <2>1, <2>2, MssqlDomain
<1>4. CASE code \in {2601, 2627}
  <2>1. Unwrapped(MssqlClass(code, words)) = {"ErrUniqueViolation", "ErrIntegrityConstraintViolation"}
    BY <1>4, MssqlClassOfEach, UnwrappedOfEach DEF Violations
  <2>2. MssqlHolds(code, words, class) <=> class \in {"ErrUniqueViolation"}
    BY <1>1, <1>4, MssqlIsOfEach, MssqlDomain DEF MssqlHolds
  <2> QED BY <2>1, <2>2, MssqlDomain
<1>5. CASE code = 547 /\ "foreign_key" \in words
  <2>1. Unwrapped(MssqlClass(code, words)) = {"ErrForeignKeyViolation", "ErrIntegrityConstraintViolation"}
    BY <1>5, MssqlClassOfEach, UnwrappedOfEach DEF Violations
  <2>2. MssqlHolds(code, words, "ErrForeignKeyViolation")
    BY <1>1, <1>5, MssqlIsOfEach DEF MssqlHolds
  <2> QED BY <2>1, <2>2, MssqlDomain
<1>6. CASE code = 547 /\ "foreign_key" \notin words
  <2>1. Unwrapped(MssqlClass(code, words)) = {"ErrCheckViolation", "ErrIntegrityConstraintViolation"}
    BY <1>6, MssqlClassOfEach, UnwrappedOfEach DEF Violations
  <2>2. MssqlHolds(code, words, class) <=> class = "ErrCheckViolation" /\ "check" \in words
    BY <1>1, <1>6, MssqlIsOfEach, MssqlDomain DEF MssqlHolds
  <2> QED BY <1>6, <2>1, <2>2, MssqlDomain
<1>7. CASE code = 1205
  <2>1. Unwrapped(MssqlClass(code, words)) = {"ErrDeadlock"}
    BY <1>7, MssqlClassOfEach, UnwrappedOfEach DEF Violations
  <2>2. MssqlHolds(code, words, class) <=> class \in {"ErrDeadlock"}
    BY <1>1, <1>7, MssqlIsOfEach, MssqlDomain DEF MssqlHolds
  <2> QED BY <2>1, <2>2, MssqlDomain
<1>8. CASE code = 50000
  <2>1. Unwrapped(MssqlClass(code, words)) = {"ErrRaisedException"}
    BY <1>8, MssqlClassOfEach, UnwrappedOfEach DEF Violations
  <2>2. MssqlHolds(code, words, class) <=> class \in {}
    BY <1>1, <1>8, MssqlIsOfEach, MssqlDomain DEF MssqlHolds
  <2> QED BY <2>1, <2>2, MssqlDomain
<1>9. CASE code \in {208, 3960, 51000}
  <2>1. Unwrapped(MssqlClass(code, words)) = {"none"}
    BY <1>9, MssqlClassOfEach, UnwrappedOfEach DEF Violations
  <2>2. MssqlHolds(code, words, class) <=> class \in {}
    BY <1>1, <1>9, MssqlIsOfEach, MssqlDomain DEF MssqlHolds
  <2> QED BY <2>1, <2>2, MssqlDomain
<1> QED BY <1>2, <1>3, <1>4, <1>5, <1>6, <1>7, <1>8, <1>9

(* SQLite: all violations have one code and are told apart by words.       *)
LEMMA SqliteOccurs ==
  ASSUME NEW what, NEW code, NEW words,
         what \in DOMAIN SqliteCodes, code \in SqliteCodes[what],
         code = "constraint" => words = Words("sqlite", what, {})
  PROVE  \/ what = "notNull" /\ code = "constraint" /\ words = {"not_null"}
         \/ what = "unique" /\ code = "constraint" /\ words = {"unique"}
         \/ what \in {"parent", "children"} /\ code = "constraint" /\ words = {"foreign_key"}
         \/ what = "check" /\ code = "constraint" /\ words = {"check"}
         \/ what \in {"integrity", "raise"} /\ code = "constraint" /\ words = {}
         \/ what = "canceled" /\ code = "interrupt"
         \/ what = "other" /\ code \in {"busy", "locked", "readonly", "error"}
<1>1. /\ Words("sqlite", "notNull", {}) = {"not_null"} /\ Words("sqlite", "unique", {}) = {"unique"}
      /\ Words("sqlite", "parent", {}) = {"foreign_key"} /\ Words("sqlite", "children", {}) = {"foreign_key"}
      /\ Words("sqlite", "check", {}) = {"check"} /\ Words("sqlite", "integrity", {}) = {}
      /\ Words("sqlite", "raise", {}) = {}
  BY DEF Words
<1>2. \/ what \in {"notNull", "unique", "parent", "children", "check", "integrity", "raise"} /\ code = "constraint"
      \/ what = "canceled" /\ code = "interrupt"
      \/ what = "other" /\ code \in {"busy", "locked", "readonly", "error"}
  BY DEF SqliteCodes
<1> QED BY <1>1, <1>2

(* The error of sqldb for the first of the words that the message has.      *)
SqliteOrder(words) ==
  IF "foreign_key" \in words THEN "ErrForeignKeyViolation"
  ELSE IF "unique" \in words THEN "ErrUniqueViolation"
  ELSE IF "not_null" \in words THEN "ErrNotNullViolation"
  ELSE IF "check" \in words THEN "ErrCheckViolation"
  ELSE "ErrIntegrityConstraintViolation"

LEMMA SqliteClassOfEach ==
  \A code, words :
    /\ code = "constraint" => SqliteClass(code, words) = SqliteOrder(words)
    /\ code = "interrupt" => SqliteClass(code, words) = "context.Canceled"
    /\ code \in {"busy", "locked", "readonly", "error"} => SqliteClass(code, words) = "none"
BY ZenonT(40) DEF SqliteClass, SqliteOrder

LEMMA SqliteDomain ==
  DOMAIN SqliteIs =
    {"ErrIntegrityConstraintViolation", "ErrForeignKeyViolation", "ErrUniqueViolation",
     "ErrNotNullViolation", "ErrCheckViolation"}
BY DEF SqliteIs

LEMMA SqliteIsOfEach == \A class \in DOMAIN SqliteIs : SqliteIs[class] = {"constraint"}
BY DEF SqliteIs

LEMMA SqliteClasses ==
  ASSUME NEW what, NEW code, NEW words,
         what \in DOMAIN SqliteCodes, code \in SqliteCodes[what],
         code = "constraint" => words = Words("sqlite", what, {})
  PROVE  SqliteClass(code, words) = Expected("sqlite", what, code)
<1>1. /\ SqliteOrder({"foreign_key"}) = "ErrForeignKeyViolation" /\ SqliteOrder({"unique"}) = "ErrUniqueViolation"
      /\ SqliteOrder({"not_null"}) = "ErrNotNullViolation" /\ SqliteOrder({"check"}) = "ErrCheckViolation"
      /\ SqliteOrder({}) = "ErrIntegrityConstraintViolation"
  BY DEF SqliteOrder
<1>2. CASE code = "constraint"
  <2>1. SqliteClass(code, words) = SqliteOrder(words)
    BY <1>2, SqliteClassOfEach
  <2>2. Expected("sqlite", what, code) = IF what = "raise" THEN "ErrIntegrityConstraintViolation" ELSE Meaning[what]
    BY ExpectedOfEach
  <2>3. \/ what = "notNull" /\ words = {"not_null"}
        \/ what = "unique" /\ words = {"unique"}
        \/ what \in {"parent", "children"} /\ words = {"foreign_key"}
        \/ what = "check" /\ words = {"check"}
        \/ what \in {"integrity", "raise"} /\ words = {}
    BY <1>2, SqliteOccurs
  <2> QED BY <1>1, <2>1, <2>2, <2>3, MeaningOfEach
<1>3. CASE code # "constraint"
  <2>1. what \in {"canceled", "other"}
    BY <1>3, SqliteOccurs
  <2>2. what = "canceled" => code = "interrupt"
    BY <1>3, SqliteOccurs
  <2>3. what = "other" => code \in {"busy", "locked", "readonly", "error"}
    BY <1>3, SqliteOccurs
  <2> QED BY <2>1, <2>2, <2>3, SqliteClassOfEach, MeaningOfEach, ExpectedOfEach
<1> QED BY <1>2, <1>3

(* The functions of SQLite on an error with any words.                      *)
SqliteHolds(code, words, class) ==
  /\ code \in SqliteIs[class]
  /\ class # "ErrIntegrityConstraintViolation" => WordOf[class] \in words

LEMMA SqliteFunctions ==
  ASSUME NEW what, NEW code, NEW words,
         what \in DOMAIN SqliteCodes, code \in SqliteCodes[what], NEW class \in DOMAIN SqliteIs
  PROVE  /\ SqliteHolds(code, words, class) =>
              \/ class \in Unwrapped(SqliteClass(code, words)) \ {"none"}
              \/ \E other \in DOMAIN WordOf :
                   /\ other # class /\ SqliteHolds(code, words, other)
                   /\ other \in Unwrapped(SqliteClass(code, words)) \ {"none"}
         /\ class \in Unwrapped(SqliteClass(code, words)) \ {"none"} => SqliteHolds(code, words, class)
<1>1. /\ WordOf["ErrForeignKeyViolation"] = "foreign_key" /\ WordOf["ErrCheckViolation"] = "check"
      /\ WordOf["ErrUniqueViolation"] = "unique" /\ WordOf["ErrNotNullViolation"] = "not_null"
  BY DEF WordOf
<1>2. DOMAIN WordOf = {"ErrForeignKeyViolation", "ErrUniqueViolation", "ErrNotNullViolation", "ErrCheckViolation"}
  BY DEF WordOf
<1>3. code \in {"constraint", "interrupt", "busy", "locked", "readonly", "error"}
  BY DEF SqliteCodes
<1>4. ASSUME NEW first \in DOMAIN WordOf, code = "constraint", SqliteOrder(words) = first, WordOf[first] \in words
      PROVE  /\ class \in {first, "ErrIntegrityConstraintViolation"} => SqliteHolds(code, words, class)
             /\ Unwrapped(SqliteClass(code, words)) \ {"none"} = {first, "ErrIntegrityConstraintViolation"}
             /\ SqliteHolds(code, words, first)
  <2>1. Unwrapped(SqliteClass(code, words)) = {first, "ErrIntegrityConstraintViolation"}
    BY <1>2, <1>4, SqliteClassOfEach, UnwrappedOfEach DEF Violations
  <2>2. SqliteHolds(code, words, first)
    BY <1>2, <1>4, SqliteIsOfEach, SqliteDomain DEF SqliteHolds
  <2>3. SqliteHolds(code, words, "ErrIntegrityConstraintViolation")
    BY <1>4, SqliteIsOfEach, SqliteDomain DEF SqliteHolds
  <2> QED BY <1>2, <2>1, <2>2, <2>3
<1>5. CASE code = "constraint" /\ SqliteOrder(words) \in DOMAIN WordOf
  <2>1. WordOf[SqliteOrder(words)] \in words
    BY <1>1, <1>2, <1>5 DEF SqliteOrder
  <2>2. PICK first \in DOMAIN WordOf : first = SqliteOrder(words)
    BY <1>5
  <2> QED BY <1>4, <1>5, <2>1, <2>2
<1>6. CASE code = "constraint" /\ SqliteOrder(words) \notin DOMAIN WordOf
  <2>1. /\ SqliteOrder(words) = "ErrIntegrityConstraintViolation"
        /\ words \cap {"foreign_key", "unique", "not_null", "check"} = {}
    BY <1>2, <1>6 DEF SqliteOrder
  <2>2. Unwrapped(SqliteClass(code, words)) = {"ErrIntegrityConstraintViolation"}
    BY <1>6, <2>1, SqliteClassOfEach, UnwrappedOfEach DEF Violations
  <2>3. SqliteHolds(code, words, class) <=> class = "ErrIntegrityConstraintViolation"
    BY <1>1, <1>6, <2>1, SqliteIsOfEach, SqliteDomain DEF SqliteHolds
  <2> QED BY <2>2, <2>3
<1>7. CASE code # "constraint"
  <2>1. Unwrapped(SqliteClass(code, words)) \subseteq {"context.Canceled", "none"}
    BY <1>3, <1>7, SqliteClassOfEach, UnwrappedOfEach DEF Violations
  <2>2. ~SqliteHolds(code, words, class)
    BY <1>7, SqliteIsOfEach DEF SqliteHolds
  <2> QED BY <2>1, <2>2, SqliteDomain
<1> QED BY <1>5, <1>6, <1>7

LEMMA WrappedIs ==
  ASSUME NEW r
  PROVE  /\ r.driver = "pq" => WrapKnownErrors(r) = Unwrapped(PqClass(r.code)) \ {"none"}
         /\ r.driver = "mysql" => WrapKnownErrors(r) = Unwrapped(MysqlClass(r.code)) \ {"none"}
         /\ r.driver = "mssql" => WrapKnownErrors(r) = Unwrapped(MssqlClass(r.code, r.words)) \ {"none"}
         /\ r.driver = "oracle" => WrapKnownErrors(r) = Unwrapped(OracleClass(r.code)) \ {"none"}
         /\ r.driver = "sqlite" => WrapKnownErrors(r) = Unwrapped(SqliteClass(r.code, r.words)) \ {"none"}
<1> HIDE DEF Unwrapped, PqClass, MysqlClass, MssqlClass, OracleClass, SqliteClass
<1> QED BY DEF WrapKnownErrors

LEMMA CodesOfEach ==
  /\ CodesOf("pq") = PqCodes /\ CodesOf("mysql") = MysqlCodes /\ CodesOf("mssql") = MssqlCodes
  /\ CodesOf("oracle") = OracleCodes /\ CodesOf("sqlite") = SqliteCodes
BY DEF CodesOf

LEMMA IsOfEach ==
  /\ IsOf("pq") = PqIs /\ IsOf("mysql") = MysqlIs /\ IsOf("mssql") = MssqlIs
  /\ IsOf("oracle") = OracleIs /\ IsOf("sqlite") = SqliteIs
BY DEF IsOf

(* A cancellation of PostgreSQL and Oracle is also context.Canceled, that  *)
(* of SQLite is nothing else.                                              *)
LEMMA UnwrappedCancel ==
  /\ Unwrapped("ErrQueryCanceled") \ {"ErrQueryCanceled"} = Unwrapped("context.Canceled") \ {"ErrQueryCanceled"}
  /\ \A class : class # "ErrQueryCanceled" => "ErrQueryCanceled" \notin Unwrapped(class)
BY DEF Unwrapped, Violations

(* wrapKnownErrors of the five drivers (pqconn/errors.go:57 and the others *)
(* like it), for every set of names and each code of the tables: an error  *)
(* that a wrapping method returns is the error of sqldb for what happened, *)
(* but for the codes of NotKnown, which stay as they are, and for those of *)
(* violations with the words of another kind or with REFERENCE, which are  *)
(* some integrity constraint violation.                                    *)
THEOREM ErrorsAreClassified == ErrorsSpec => []KnownErrorsAreClassified
<1>1. ASSUME ErrorsInv PROVE KnownErrorsAreClassified
  <2> SUFFICES ASSUME raised # Nothing, Wraps(raised.driver, raised.method)
               PROVE  IF Ambiguous(raised) THEN "ErrIntegrityConstraintViolation" \in returned
                      ELSE returned \ {"ErrQueryCanceled"} =
                             Unwrapped(Expected(raised.driver, raised.what, raised.code)) \ {"none"}
    BY DEF KnownErrorsAreClassified
  <2>1. PICK driver \in Drivers : \E what \in DOMAIN CodesOf(driver) :
          \E code \in CodesOf(driver)[what], name \in Names, method \in Methods :
            /\ raised = Raised(driver, what, code, name, method)
            /\ returned = IF Wraps(driver, method) THEN WrapKnownErrors(raised) ELSE {}
    BY <1>1 DEF ErrorsInv
  <2>20. PICK what \in DOMAIN CodesOf(driver) :
          \E code \in CodesOf(driver)[what], name \in Names, method \in Methods :
            /\ raised = Raised(driver, what, code, name, method)
            /\ returned = IF Wraps(driver, method) THEN WrapKnownErrors(raised) ELSE {}
    BY <2>1
  <2>2. PICK code \in CodesOf(driver)[what], name \in Names, method \in Methods :
            /\ raised = Raised(driver, what, code, name, method)
            /\ returned = IF Wraps(driver, method) THEN WrapKnownErrors(raised) ELSE {}
    BY <2>20
  <2>3. /\ raised.driver = driver /\ raised.what = what /\ raised.code = code /\ raised.method = method
    BY <2>2 DEF Raised
  <2>4. returned = WrapKnownErrors(raised)
    BY <2>2, <2>3
  <2> DEFINE words == raised.words
  <2>5. CASE Ambiguous(raised)
    <3>1. \/ driver = "mssql" /\ code = 547
          \/ driver = "sqlite" /\ code = "constraint"
      BY <2>2, <2>5, AmbiguousCodes
    <3>2. CASE driver = "mssql" /\ code = 547
      <4>1. MssqlClass(code, words) \in {"ErrForeignKeyViolation", "ErrCheckViolation"}
        BY <3>2, MssqlClassOfEach
      <4>2. "ErrIntegrityConstraintViolation" \in Unwrapped(MssqlClass(code, words))
        BY <4>1, UnwrappedOfEach DEF Violations
      <4> QED BY <2>3, <2>4, <2>5, <3>2, <4>2, WrappedIs
    <3>3. CASE driver = "sqlite" /\ code = "constraint"
      <4>1. SqliteOrder(words) \in {"ErrForeignKeyViolation", "ErrUniqueViolation", "ErrNotNullViolation",
                                    "ErrCheckViolation", "ErrIntegrityConstraintViolation"}
        BY DEF SqliteOrder
      <4>2. "ErrIntegrityConstraintViolation" \in Unwrapped(SqliteOrder(words))
        BY <4>1, UnwrappedOfEach DEF Violations
      <4>3. SqliteClass(code, words) = SqliteOrder(words)
        BY <3>3, SqliteClassOfEach
      <4> QED BY <2>3, <2>4, <2>5, <3>3, <4>2, <4>3, WrappedIs
    <3> QED BY <3>1, <3>2, <3>3
  <2>6. CASE ~Ambiguous(raised)
    <3>1. /\ driver = "sqlite" /\ code = "constraint" => words = Words("sqlite", what, {})
          /\ driver = "mssql" /\ code = 547 => what # "children" /\ words = Words("mssql", what, {})
      BY <2>2, <2>6, WordsAreOwn
    <3>2. PICK class : class = Expected(driver, what, code)
      OBVIOUS
    <3>3. class # "ErrQueryCanceled" /\ (what = "canceled" => class \in {"context.Canceled", "none"})
      <4>1. what \in DOMAIN Meaning
        BY CodesOfEach DEF Drivers, PqCodes, MysqlCodes, MssqlCodes, OracleCodes, SqliteCodes, Meaning
      <4>2. DOMAIN Meaning =
              {"notNull", "unique", "parent", "children", "check", "exclusion", "integrity", "null",
               "deadlock", "serialization", "canceled", "raise", "other"}
        BY DEF Meaning
      <4>3. Meaning[what] # "ErrQueryCanceled" /\ (what = "canceled" => Meaning[what] = "context.Canceled")
        BY <4>1, <4>2, MeaningOfEach
      <4>4. \/ class \in {"none", "ErrRestrictViolation", Meaning[what]}
            \/ class = "ErrIntegrityConstraintViolation" /\ what = "raise"
        BY <3>2, ExpectedOfEach DEF Drivers
      <4>5. what = "canceled" => class # "ErrRestrictViolation"
        <5>1. driver = "pq" /\ what = "canceled" => code # "23001"
          BY CodesOfEach DEF PqCodes
        <5> QED BY <3>2, <4>3, <5>1, ExpectedOfEach DEF Drivers
      <4> QED BY <4>3, <4>4, <4>5
    <3>4. \/ WrapKnownErrors(raised) = Unwrapped(class) \ {"none"}
          \/ WrapKnownErrors(raised) = Unwrapped("ErrQueryCanceled") \ {"none"} /\ class = "context.Canceled"
      <4>1. CASE driver = "pq"
        <5>1. PqClass(code) = IF what = "canceled" THEN "ErrQueryCanceled" ELSE class
          BY <4>1, <3>2, CodesOfEach, PqClasses
        <5>2. what = "canceled" => class = "context.Canceled"
          <6>1. what = "canceled" => code = "57014"
            BY <4>1, CodesOfEach DEF PqCodes
          <6> QED BY <6>1, <4>1, <3>2, ExpectedOfEach, MeaningOfEach
        <5>3. WrapKnownErrors(raised) = Unwrapped(PqClass(code)) \ {"none"}
          BY <4>1, <2>3, WrappedIs
        <5> QED BY <5>1, <5>2, <5>3
      <4>2. CASE driver = "oracle"
        <5>1. OracleClass(code) = IF what = "canceled" THEN "ErrQueryCanceled" ELSE class
          BY <4>2, <3>2, CodesOfEach, OracleClasses
        <5>2. what = "canceled" => class = "context.Canceled"
          <6>1. what = "canceled" => code = 1013
            BY <4>2, CodesOfEach DEF OracleCodes
          <6> QED BY <6>1, <4>2, <3>2, ExpectedOfEach, MeaningOfEach
        <5>3. WrapKnownErrors(raised) = Unwrapped(OracleClass(code)) \ {"none"}
          BY <4>2, <2>3, WrappedIs
        <5> QED BY <5>1, <5>2, <5>3
      <4>3. CASE driver = "mysql"
        <5>1. MysqlClass(code) = class
          BY <4>3, <3>2, CodesOfEach, MysqlClasses
        <5>2. WrapKnownErrors(raised) = Unwrapped(MysqlClass(code)) \ {"none"}
          BY <4>3, <2>3, WrappedIs
        <5> QED BY <5>1, <5>2
      <4>4. CASE driver = "mssql"
        <5>1. MssqlClass(code, words) = class
          BY <4>4, <3>1, <3>2, CodesOfEach, MssqlClasses
        <5>2. WrapKnownErrors(raised) = Unwrapped(MssqlClass(code, words)) \ {"none"}
          BY <4>4, <2>3, WrappedIs
        <5> QED BY <5>1, <5>2
      <4>5. CASE driver = "sqlite"
        <5>1. SqliteClass(code, words) = class
          BY <4>5, <3>1, <3>2, CodesOfEach, SqliteClasses
        <5>2. WrapKnownErrors(raised) = Unwrapped(SqliteClass(code, words)) \ {"none"}
          BY <4>5, <2>3, WrappedIs
        <5> QED BY <5>1, <5>2
      <4> QED BY <4>1, <4>2, <4>3, <4>4, <4>5 DEF Drivers
    <3>5. "ErrQueryCanceled" \notin Unwrapped(class)
      BY <3>3, UnwrappedCancel
    <3>6. WrapKnownErrors(raised) \ {"ErrQueryCanceled"} = Unwrapped(class) \ {"none"}
      BY <3>4, <3>5, UnwrappedCancel
    <3> QED BY <2>3, <2>4, <2>6, <3>2, <3>6
  <2> QED BY <2>5, <2>6
<1> QED BY <1>1, ErrorsInvHolds, PTL

(* The functions of pqconn/errors.go:163 and of the other drivers, for     *)
(* every set of names and every error of the tables: one that holds tells  *)
(* of the wrapped error or of one that hides behind it for the words of    *)
(* the message, and that of the wrapped error holds, but for SQL Server's  *)
(* ErrCheckViolation around a message that says neither FOREIGN KEY nor    *)
(* CHECK.                                                                  *)
THEOREM PredicatesAreErrors == ErrorsSpec => []PredicatesAgree
<1>1. ASSUME ErrorsInv PROVE PredicatesAgree
  <2> SUFFICES ASSUME raised # Nothing, NEW class \in DOMAIN IsOf(raised.driver)
               PROVE  /\ Is(raised, class) => class \in WrapKnownErrors(raised) \/ HidesBehind(raised, class)
                      /\ class \in WrapKnownErrors(raised) =>
                           \/ Is(raised, class)
                           \/ /\ raised.driver = "mssql" /\ raised.code = 547 /\ class = "ErrCheckViolation"
                              /\ raised.words \cap {"foreign_key", "check"} = {}
    BY DEF PredicatesAgree
  <2>1. PICK driver \in Drivers : \E what \in DOMAIN CodesOf(driver) :
          \E code \in CodesOf(driver)[what], name \in Names, method \in Methods :
            raised = Raised(driver, what, code, name, method)
    BY <1>1 DEF ErrorsInv
  <2>20. PICK what \in DOMAIN CodesOf(driver) :
          \E code \in CodesOf(driver)[what], name \in Names, method \in Methods :
            raised = Raised(driver, what, code, name, method)
    BY <2>1
  <2>2. PICK code \in CodesOf(driver)[what], name \in Names, method \in Methods :
            raised = Raised(driver, what, code, name, method)
    BY <2>20
  <2>3. raised.driver = driver /\ raised.what = what /\ raised.code = code
    BY <2>2 DEF Raised
  <2>4. PICK words : words = raised.words
    OBVIOUS
  <2>6. \A c : Is(raised, c) <=> /\ code \in IsOf(driver)[c]
                                 /\ LooksForWord(driver, c) => WordOf[c] \in words
    BY <2>3, <2>4 DEF Is
  <2>7. class \in DOMAIN IsOf(driver)
    BY <2>3
  <2>11. CASE driver = "pq"
    <3>1. /\ what \in DOMAIN PqCodes /\ code \in PqCodes[what] /\ class \in DOMAIN PqIs
          /\ WrapKnownErrors(raised) = Unwrapped(PqClass(code)) \ {"none"}
          /\ Is(raised, class) <=> code \in PqIs[class]
      BY <2>11, <2>3, <2>6, <2>7, CodesOfEach, IsOfEach, WrappedIs DEF LooksForWord
    <3>2. code \in PqIs[class] <=> class \in Unwrapped(PqClass(code)) \ {"none"}
      BY <3>1, PqFunctions
    <3> QED BY <3>1, <3>2
  <2>12. CASE driver = "mysql"
    <3>1. /\ what \in DOMAIN MysqlCodes /\ code \in MysqlCodes[what] /\ class \in DOMAIN MysqlIs
          /\ WrapKnownErrors(raised) = Unwrapped(MysqlClass(code)) \ {"none"}
          /\ Is(raised, class) <=> code \in MysqlIs[class]
      BY <2>12, <2>3, <2>6, <2>7, CodesOfEach, IsOfEach, WrappedIs DEF LooksForWord
    <3>2. code \in MysqlIs[class] <=> class \in Unwrapped(MysqlClass(code)) \ {"none"}
      BY <3>1, MysqlFunctions
    <3> QED BY <3>1, <3>2
  <2>13. CASE driver = "oracle"
    <3>1. /\ what \in DOMAIN OracleCodes /\ code \in OracleCodes[what] /\ class \in DOMAIN OracleIs
          /\ WrapKnownErrors(raised) = Unwrapped(OracleClass(code)) \ {"none"}
          /\ Is(raised, class) <=> code \in OracleIs[class]
      BY <2>13, <2>3, <2>6, <2>7, CodesOfEach, IsOfEach, WrappedIs DEF LooksForWord
    <3>2. code \in OracleIs[class] <=> class \in Unwrapped(OracleClass(code)) \ {"none"}
      BY <3>1, OracleFunctions
    <3> QED BY <3>1, <3>2
  <2>14. CASE driver = "mssql"
    <3>1. /\ what \in DOMAIN MssqlCodes /\ code \in MssqlCodes[what] /\ class \in DOMAIN MssqlIs
          /\ WrapKnownErrors(raised) = Unwrapped(MssqlClass(code, words)) \ {"none"}
      BY <2>14, <2>3, <2>4, <2>7, CodesOfEach, IsOfEach, WrappedIs
    <3>2. \A c : Is(raised, c) <=> MssqlHolds(code, words, c)
      BY <2>14, <2>6, IsOfEach DEF LooksForWord, MssqlHolds
    <3>3. "ErrForeignKeyViolation" \in DOMAIN IsOf(raised.driver) \cap DOMAIN WordOf
      BY <2>14, <2>3, IsOfEach, MssqlDomain DEF WordOf
    <3>4. /\ "ErrForeignKeyViolation" # class
          /\ MssqlHolds(code, words, "ErrForeignKeyViolation")
          /\ "ErrForeignKeyViolation" \in WrapKnownErrors(raised)
          => HidesBehind(raised, class)
      BY <3>2, <3>3 DEF HidesBehind
    <3> HIDE DEF MssqlHolds
    <3>5. /\ MssqlHolds(code, words, class) =>
               \/ class \in WrapKnownErrors(raised)
               \/ /\ "ErrForeignKeyViolation" # class
                  /\ MssqlHolds(code, words, "ErrForeignKeyViolation")
                  /\ "ErrForeignKeyViolation" \in WrapKnownErrors(raised)
          /\ class \in WrapKnownErrors(raised) =>
               \/ MssqlHolds(code, words, class)
               \/ code = 547 /\ class = "ErrCheckViolation" /\ words \cap {"foreign_key", "check"} = {}
      BY <3>1, MssqlFunctions
    <3> QED BY <2>3, <2>4, <2>14, <3>2, <3>4, <3>5
  <2>15. CASE driver = "sqlite"
    <3>1. /\ what \in DOMAIN SqliteCodes /\ code \in SqliteCodes[what] /\ class \in DOMAIN SqliteIs
          /\ WrapKnownErrors(raised) = Unwrapped(SqliteClass(code, words)) \ {"none"}
      BY <2>15, <2>3, <2>4, <2>7, CodesOfEach, IsOfEach, WrappedIs
    <3>2. \A c : Is(raised, c) <=> SqliteHolds(code, words, c)
      BY <2>15, <2>6, IsOfEach DEF LooksForWord, SqliteHolds
    <3>3. DOMAIN WordOf \subseteq DOMAIN IsOf(raised.driver)
      BY <2>15, <2>3, IsOfEach, SqliteDomain DEF WordOf
    <3> HIDE DEF SqliteHolds
    <3>4. /\ SqliteHolds(code, words, class) =>
               \/ class \in WrapKnownErrors(raised)
               \/ \E other \in DOMAIN WordOf :
                    /\ other # class /\ SqliteHolds(code, words, other)
                    /\ other \in WrapKnownErrors(raised)
          /\ class \in WrapKnownErrors(raised) => SqliteHolds(code, words, class)
      BY <3>1, SqliteFunctions
    <3>5. (\E other \in DOMAIN WordOf :
             /\ other # class /\ SqliteHolds(code, words, other)
             /\ other \in WrapKnownErrors(raised))
          => HidesBehind(raised, class)
      BY <3>2, <3>3 DEF HidesBehind
    <3> QED BY <3>2, <3>4, <3>5
  <2> QED BY <2>11, <2>12, <2>13, <2>14, <2>15 DEF Drivers
<1> QED BY <1>1, ErrorsInvHolds, PTL

-------------------------------------------------------------------------------
(* ScanValues.  First the arithmetic of the machine's integers and floats.  *)
LEMMA ProductsGrow ==
  ASSUME NEW a \in Nat, NEW b \in Nat, NEW c \in Nat, NEW d \in Nat, a <= b, c <= d
  PROVE  a * c \in Nat /\ b * d \in Nat /\ a * c <= b * d
OBVIOUS
LEMMA ModIs ==
  ASSUME NEW x \in Int, NEW p \in Nat, p > 0
  PROVE  /\ x % p \in 0..p - 1
         /\ 0 <= x /\ x < p => x % p = x
OBVIOUS
LEMMA PowersAdd ==
  ASSUME NEW m \in Nat, NEW n \in Nat
  PROVE  2^(m + n) = 2^m * 2^n
<1>1. \A k \in Nat : 2^k \in Nat /\ 2^(k + 1) = 2 * 2^k
  BY PowerOfNext
<1> DEFINE P == [k \in Nat |-> 2^k]
<1>2. \A k \in Nat : P[k] = 2^k
  OBVIOUS
<1> HIDE DEF P
<1>3. \A k \in Nat : P[k] \in Nat /\ P[k + 1] = 2 * P[k]
  <2> SUFFICES ASSUME NEW k \in Nat PROVE P[k] \in Nat /\ P[k + 1] = 2 * P[k]
    OBVIOUS
  <2>1. P[k] = 2^k /\ P[k + 1] = 2^(k + 1)
    BY <1>2
  <2>2. 2^k \in Nat /\ 2^(k + 1) = 2 * 2^k
    BY <1>1
  <2> QED BY <2>1, <2>2
<1>4. P[0] = 1
  BY <1>2, PowerOfZero
<1> DEFINE T == {k \in Nat : P[m + k] = P[m] * P[k]}
<1>5. 0 \in T
  BY <1>3, <1>4
<1>6. ASSUME NEW k \in T PROVE k + 1 \in T
  <2>1. P[m + (k + 1)] = 2 * P[m + k]
    <3>1. m + k \in Nat /\ m + (k + 1) = (m + k) + 1
      OBVIOUS
    <3> QED BY <3>1, <1>3
  <2>2. P[k + 1] = 2 * P[k] /\ P[m + k] = P[m] * P[k] /\ P[m] \in Nat /\ P[k] \in Nat
    BY <1>3
  <2> QED BY <2>1, <2>2
<1>7. T = Nat
  <2> HIDE DEF T
  <2>1. T \subseteq Nat
    BY DEF T
  <2> QED BY <2>1, <1>5, <1>6, Induction
<1>8. P[m + n] = P[m] * P[n]
  BY <1>7
<1> QED BY <1>2, <1>8

-------------------------------------------------------------------------------
(* Floats with d digits and exponents to e.                                *)
LEMMA FloatsAre ==
  ASSUME NEW d \in Nat \ {0}, NEW e \in Nat, NEW F, F = FloatsOf(d, e), NEW L, L = (2^d - 1) * 2^e
  PROVE  /\ F \subseteq Int /\ L \in Nat /\ L \in F /\ -L \in F /\ 0 \in F
         /\ \A g \in F : -L <= g /\ g <= L
         /\ 2^(d - 1 + e) \in Nat /\ 2^(d + e) \in Nat /\ 2^(d - 1 + e) <= L /\ L < 2^(d + e)
<1>1. /\ \A k \in Nat : 2^k \in Nat /\ 1 <= 2^k
      /\ 2^d = 2 * 2^(d - 1) /\ 2^(d - 1 + e) = 2^(d - 1) * 2^e /\ 2^(d + e) = 2^d * 2^e
  <2>1. \A k \in Nat : 2^k \in Nat /\ 1 <= 2^k
    BY PowersGrow
  <2>2. d - 1 \in Nat /\ d = (d - 1) + 1
    OBVIOUS
  <2>3. 2^((d - 1) + 1) = 2 * 2^(d - 1)
    BY <2>2, PowerOfNext
  <2>4. 2^(d - 1 + e) = 2^(d - 1) * 2^e /\ 2^(d + e) = 2^d * 2^e
    BY <2>2, PowersAdd
  <2> QED BY <2>1, <2>2, <2>3, <2>4
<1> DEFINE p == 2^d
           q == 2^e
           h == 2^(d - 1)
           ms == 0..(p - 1)
           positive == {m * 2^k : m \in ms, k \in 0..e}
<1>2. p \in Nat /\ q \in Nat /\ h \in Nat /\ 1 <= q /\ 1 <= h /\ p = 2 * h
  BY <1>1
<1>3. F = positive \cup {-f : f \in positive}
  BY DEF FloatsOf
<1>4. ASSUME NEW f \in positive PROVE f \in Int /\ 0 <= f /\ f <= L
  <2>1. PICK m \in ms, k \in 0..e : f = m * 2^k
    OBVIOUS
  <2>2. 2^k \in Nat /\ 2^k <= q
    BY <1>1, PowersGrow
  <2>3. m \in Nat /\ m <= p - 1 /\ p - 1 \in Nat
    BY <1>2
  <2> HIDE DEF p, q, ms, positive
  <2>4. m * 2^k \in Nat /\ m * 2^k <= (p - 1) * q
    BY <2>2, <2>3, <1>2, ProductsGrow
  <2> QED BY <2>1, <2>4 DEF p, q
<1>5. L = (p - 1) * q /\ p - 1 \in ms /\ e \in 0..e
  BY <1>2
<1>6. L \in positive
  BY <1>5
<1>7. 0 \in positive
  <2>1. 0 \in ms /\ 0 \in 0..e /\ 2^0 = 1
    BY <1>2, PowerOfZero
  <2>2. 0 = 0 * 2^0
    BY <2>1
  <2> QED BY <2>1, <2>2
<1>8. 2^(d - 1 + e) = h * q /\ 2^(d + e) = p * q
  BY <1>1
<1> HIDE DEF p, q, h, ms, positive
<1>9. L \in Nat
  BY <1>2, <1>5, ProductsGrow
<1>10. h * q \in Nat /\ p * q \in Nat /\ h * q <= L /\ L < p * q
  <2>1. h * q \in Nat /\ h * q <= (p - 1) * q
    BY <1>2, ProductsGrow
  <2>2. p * q = (p - 1) * q + q
    BY <1>2
  <2> QED BY <2>1, <2>2, <1>2, <1>5, <1>9
<1>11. ASSUME NEW g \in F PROVE g \in Int /\ -L <= g /\ g <= L
  <2>1. CASE g \in positive
    BY <2>1, <1>4, <1>9
  <2>2. CASE g \in {-f : f \in positive}
    <3>1. PICK f \in positive : g = -f
      BY <2>2
    <3> QED BY <3>1, <1>4, <1>9
  <2> QED BY <2>1, <2>2, <1>3
<1>12. L \in F /\ -L \in F /\ 0 \in F
  BY <1>3, <1>6, <1>7
<1> QED BY <1>8, <1>9, <1>10, <1>11, <1>12

(* Integers of d binary digits and powers of two are floats; odd numbers   *)
(* that are floats have no exponent.                                       *)
LEMMA SmallAreFloats ==
  ASSUME NEW d \in Nat \ {0}, NEW e \in Nat, NEW F, F = FloatsOf(d, e)
  PROVE  /\ \A x \in Int : -(2^d) < x /\ x < 2^d => x \in F
         /\ \A f \in F : f % 2 = 1 => -(2^d) < f /\ f < 2^d
<1>1. 2^d \in Nat /\ 2^0 = 1 /\ 0 \in 0..e
  BY PowersGrow, PowerOfZero
<1> DEFINE ms == 0..(2^d - 1)
           positive == {m * 2^k : m \in ms, k \in 0..e}
<1>2. F = positive \cup {-f : f \in positive}
  BY DEF FloatsOf
<1>3. ASSUME NEW m \in ms PROVE m \in positive
  <2>1. m \in Int
    BY <1>1
  <2>2. ASSUME NEW k \in 0..e, 2^k = 1 PROVE m \in positive
    <3>1. m * 2^k \in positive
      <4> DEFINE top == 2^d - 1
      <4>1. m \in 0..top /\ positive = {x * 2^y : x \in 0..top, y \in 0..e}
        BY <1>3
      <4> HIDE DEF top, positive, ms
      <4>2. \E x \in 0..top, y \in 0..e : m * 2^k = x * 2^y
        BY <4>1
      <4> QED BY <4>1, <4>2
    <3>2. m * 2^k = m
      BY <2>1, <2>2
    <3> HIDE DEF positive
    <3> QED BY <3>1, <3>2
  <2> HIDE DEF positive
  <2> QED BY <2>2, <1>1
<1>4. ASSUME NEW x \in Int, -(2^d) < x, x < 2^d PROVE x \in F
  <2>1. CASE x >= 0
    <3>1. x \in ms
      BY <2>1, <1>1, <1>4
    <3> HIDE DEF ms, positive
    <3> QED BY <3>1, <1>2, <1>3
  <2>2. CASE x < 0
    <3>1. -x \in ms /\ x = -(-x)
      BY <2>2, <1>1, <1>4
    <3> HIDE DEF ms, positive
    <3> QED BY <3>1, <1>2, <1>3
  <2> QED BY <2>1, <2>2
<1>5. ASSUME NEW f \in positive PROVE f \in Int /\ (f % 2 = 1 => f \in ms) /\ ((-f) % 2 = 1 => f \in ms)
  <2>1. PICK m \in ms, k \in 0..e : f = m * 2^k
    OBVIOUS
  <2>2. CASE k = 0
    BY <2>1, <2>2, <1>1
  <2>3. CASE k # 0
    <3>1. k - 1 \in Nat /\ k = (k - 1) + 1
      BY <2>3
    <3>2. 2^(k - 1) \in Nat /\ 2^((k - 1) + 1) = 2 * 2^(k - 1)
      BY <3>1, PowerOfNext
    <3> DEFINE z == m * 2^(k - 1)
    <3>3. z \in Int /\ f = 2 * z
      BY <2>1, <3>1, <3>2
    <3> HIDE DEF z
    <3> QED BY <3>3
  <2> QED BY <2>2, <2>3
<1>6. ASSUME NEW f \in F, f % 2 = 1 PROVE -(2^d) < f /\ f < 2^d
  <2> HIDE DEF positive
  <2>1. CASE f \in positive
    BY <2>1, <1>5, <1>6, <1>1
  <2>2. CASE f \in {-g : g \in positive}
    <3>1. PICK g \in positive : f = -g
      BY <2>2
    <3>2. g \in ms
      BY <3>1, <1>5, <1>6
    <3> QED BY <3>1, <3>2, <1>1
  <2> QED BY <2>1, <2>2, <1>2
<1> QED BY <1>4, <1>6

LEMMA PowersAreFloats ==
  ASSUME NEW d \in Nat \ {0}, NEW e \in Nat, NEW F, F = FloatsOf(d, e), NEW k \in Nat, k < d + e
  PROVE  2^k \in F /\ -(2^k) \in F
<1> DEFINE i == IF k <= e THEN k ELSE e
           j == k - i
<1>1. i \in 0..e /\ j \in Nat /\ j + i = k /\ j < d
  OBVIOUS
<1> HIDE DEF i, j
<1>2. 2^k = 2^j * 2^i
  <2>1. i \in Nat /\ j \in Nat
    BY <1>1
  <2>2. 2^(j + i) = 2^j * 2^i
    BY <2>1, PowersAdd
  <2> QED BY <2>2, <1>1
<1>3. 2^j \in 0..(2^d - 1)
  <2>1. 2^j \in Nat /\ 2^d \in Nat /\ 1 <= 2^j /\ 2 * 2^j <= 2^d
    BY <1>1, PowersGrow
  <2> QED BY <2>1
<1> DEFINE positive == {m * 2^x : m \in 0..(2^d - 1), x \in 0..e}
<1>4. 2^k \in positive
  BY <1>1, <1>2, <1>3
<1>5. F = positive \cup {-f : f \in positive}
  BY DEF FloatsOf
<1> HIDE DEF positive
<1> QED BY <1>4, <1>5

(* Nearest, for numbers that the floats enclose.                           *)
LEMMA NearestIsClose ==
  ASSUME NEW F \in SUBSET Int, NEW L \in Nat, L \in F, -L \in F, \A g \in F : -L <= g /\ g <= L,
         Infinity \in Int, L < Infinity, NEW n \in Int, Abs(n) <= L
  PROVE  /\ Nearest(n, F) \in F
         /\ n \in F => Nearest(n, F) = n
         /\ \A g \in F : n <= g => Nearest(n, F) <= g
         /\ \A g \in F : g <= n => g <= Nearest(n, F)
<1>1. -L <= n /\ n <= L /\ Abs(n) # Infinity
  BY DEF Abs
<1>2. CASE n \in F
  <2>1. Nearest(n, F) = n
    BY <1>2 DEF Nearest
  <2> QED BY <2>1, <1>2
<1>3. CASE n \notin F
  <2>1. Largest(F) = L
    <3>1. L \in F /\ \A g \in F : g <= L
      OBVIOUS
    <3>2. \A f \in F : (\A g \in F : g <= f) => f = L
      <4> SUFFICES ASSUME NEW f \in F, \A g \in F : g <= f PROVE f = L
        OBVIOUS
      <4>1. f \in Int /\ f <= L /\ L <= f
        OBVIOUS
      <4> QED BY <4>1
    <3> QED BY <3>1, <3>2 DEF Largest
  <2> DEFINE below == CHOOSE f \in F : f < n /\ \A g \in F : g < n => g <= f
             above == CHOOSE f \in F : f > n /\ \A g \in F : g > n => g >= f
  <2>2. below \in F /\ below < n /\ \A g \in F : g < n => g <= below
    <3> DEFINE S == {f \in F : f < n}
    <3>1. S \in SUBSET Int /\ -L \in S /\ \A x \in S : x <= n
      <4>1. -L \in Int /\ -L # n
        BY <1>3
      <4>2. -L < n
        BY <4>1, <1>1
      <4>3. S \in SUBSET Int /\ \A x \in S : x <= n
        <5>1. S \in SUBSET Int
          OBVIOUS
        <5>2. ASSUME NEW x \in S PROVE x <= n
          <6>1. x \in Int /\ x < n
            OBVIOUS
          <6> QED BY <6>1
        <5> QED BY <5>1, <5>2
      <4>4. -L \in S
        BY <4>2
      <4> HIDE DEF S
      <4> QED BY <4>3, <4>4
    <3> HIDE DEF S
    <3>2. PICK f \in S : \A g \in S : g <= f
      BY <3>1, LargestExists
    <3>3. f \in F /\ f < n /\ \A g \in F : g < n => g <= f
      BY <3>2 DEF S
    <3> QED BY <3>3
  <2>3. above \in F /\ above > n /\ \A g \in F : g > n => g >= above
    <3> DEFINE S == {f \in F : f > n}
    <3>1. S \in SUBSET Int /\ L \in S /\ \A x \in S : n <= x
      <4>1. L \in Int /\ L # n
        BY <1>3
      <4>2. n < L
        BY <4>1, <1>1
      <4>3. S \in SUBSET Int /\ \A x \in S : n <= x
        <5>1. S \in SUBSET Int
          OBVIOUS
        <5>2. ASSUME NEW x \in S PROVE n <= x
          <6>1. x \in Int /\ x > n
            OBVIOUS
          <6> QED BY <6>1
        <5> QED BY <5>1, <5>2
      <4>4. L \in S
        BY <4>2
      <4> HIDE DEF S
      <4> QED BY <4>3, <4>4
    <3> HIDE DEF S
    <3>2. PICK f \in S : \A g \in S : f <= g
      BY <3>1, SmallestExists
    <3>3. f \in F /\ f > n /\ \A g \in F : g > n => g >= f
      BY <3>2 DEF S
    <3> QED BY <3>3
  <2>4. Nearest(n, F) = below \/ Nearest(n, F) = above
    <3>1. ~(Abs(n) > L)
      <4>1. Abs(n) \in Int
        BY DEF Abs
      <4> QED BY <4>1
    <3>2. Nearest(n, F) = IF n - below < above - n THEN below
                          ELSE IF n - below > above - n THEN above
                          ELSE IF below % (2 * (above - below)) = 0 THEN below ELSE above
      BY <1>1, <1>3, <2>1, <3>1 DEF Nearest
    <3> QED BY <3>2
  <2> HIDE DEF below, above
  <2>5. \A g \in F : n <= g => below <= g /\ above <= g
    <3> SUFFICES ASSUME NEW g \in F, n <= g PROVE below <= g /\ above <= g
      OBVIOUS
    <3>1. g \in Int /\ n < g /\ below \in Int /\ above \in Int
      BY <1>3, <2>2, <2>3
    <3> QED BY <3>1, <2>2, <2>3
  <2>6. \A g \in F : g <= n => g <= below /\ g <= above
    <3> SUFFICES ASSUME NEW g \in F, g <= n PROVE g <= below /\ g <= above
      OBVIOUS
    <3>1. g \in Int /\ g < n /\ below \in Int /\ above \in Int
      BY <1>3, <2>2, <2>3
    <3> QED BY <3>1, <2>2, <2>3
  <2> QED BY <1>3, <2>2, <2>3, <2>4, <2>5, <2>6
<1> QED BY <1>2, <1>3

(* What holds of the floats of a size and of a number that bounds them.     *)
Encloses(F, L) ==
  /\ F \in SUBSET Int /\ L \in Nat /\ L \in F /\ -L \in F /\ L < Infinity
  /\ \A g \in F : -L <= g /\ g <= L

LEMMA LargestIs ==
  ASSUME NEW F, NEW L, Encloses(F, L)
  PROVE  Largest(F) = L
<1>1. L \in F /\ \A g \in F : g <= L
  BY DEF Encloses
<1>2. \A f \in F : (\A g \in F : g <= f) => f = L
  <2> SUFFICES ASSUME NEW f \in F, \A g \in F : g <= f PROVE f = L
    OBVIOUS
  <2>1. f \in Int /\ L \in Int /\ f <= L /\ L <= f
    BY DEF Encloses
  <2> QED BY <2>1
<1> QED BY <1>1, <1>2 DEF Largest

LEMMA InfinityIs == Infinity \in Nat /\ Infinity % 2 = 0 /\ Infinity > 0
<1> DEFINE j == Digits64 + Exponents64 - 1
<1>1. j \in Nat /\ Digits64 + Exponents64 = j + 1
  BY ScanValuesAssumption
<1>2. 2^j \in Nat /\ 2^(j + 1) = 2 * 2^j /\ 1 <= 2^j
  BY <1>1, PowerOfNext, PowersGrow
<1> QED BY <1>1, <1>2 DEF Infinity

LEMMA FloatsAreEnclosed ==
  ASSUME NEW size
  PROVE  \E L : Encloses(FloatsFor(size), L) /\ 2^Width <= L /\ 2^Width \in Nat
<1>1. \E d \in Nat \ {0}, e \in Nat :
         /\ FloatsFor(size) = FloatsOf(d, e) /\ Width <= d - 1 + e
         /\ d + e <= Digits64 + Exponents64
  <2>1. CASE size = "wide"
    <3>1. FloatsFor(size) = FloatsOf(Digits64, Exponents64)
      BY <2>1 DEF FloatsFor, Floats64
    <3> QED BY <3>1, ScanValuesAssumption
  <2>2. CASE size # "wide"
    <3>1. FloatsFor(size) = FloatsOf(Digits32, Exponents32)
      BY <2>2 DEF FloatsFor, Floats32
    <3> QED BY <3>1, ScanValuesAssumption
  <2> QED BY <2>1, <2>2
<1>2. PICK d \in Nat \ {0}, e \in Nat :
         /\ FloatsFor(size) = FloatsOf(d, e) /\ Width <= d - 1 + e
         /\ d + e <= Digits64 + Exponents64
  BY <1>1
<1> DEFINE F == FloatsOf(d, e)
           L == (2^d - 1) * 2^e
<1>3. /\ F \subseteq Int /\ L \in Nat /\ L \in F /\ -L \in F /\ 0 \in F
      /\ \A g \in F : -L <= g /\ g <= L
      /\ 2^(d - 1 + e) \in Nat /\ 2^(d + e) \in Nat /\ 2^(d - 1 + e) <= L /\ L < 2^(d + e)
  BY FloatsAre, ZenonT(40)
<1>4. 2^Width \in Nat /\ 2^Width <= 2^(d - 1 + e)
  BY <1>2, ScanValuesAssumption, PowersGrow
<1>5. 2^(d + e) <= Infinity /\ Infinity \in Nat
  BY <1>2, ScanValuesAssumption, PowersGrow DEF Infinity
<1> HIDE DEF F, L
<1>6. Encloses(F, L)
  BY <1>3, <1>5 DEF Encloses
<1>7. 2^Width <= L
  BY <1>3, <1>4
<1>8. FloatsFor(size) = F
  BY <1>2 DEF F
<1> QED BY <1>4, <1>6, <1>7, <1>8

LEMMA PowersOfWidth ==
  ASSUME NEW size
  PROVE  /\ 2^Width \in FloatsFor(size) /\ -(2^Width) \in FloatsFor(size)
         /\ 2^(Width + 1) \in Floats64
<1>0. Digits64 \in Nat \ {0} /\ Digits32 \in Nat \ {0} /\ Exponents64 \in Nat /\ Exponents32 \in Nat /\ Width \in Nat
      /\ Width + 1 \in Nat
      /\ Width < Digits32 + Exponents32 /\ Width < Digits64 + Exponents64 /\ Width + 1 < Digits64 + Exponents64
  BY ScanValuesAssumption
<1>1. 2^Width \in Floats64 /\ -(2^Width) \in Floats64
  BY <1>0, PowersAreFloats DEF Floats64
<1>2. 2^Width \in Floats32 /\ -(2^Width) \in Floats32
  BY <1>0, PowersAreFloats DEF Floats32
<1>3. 2^(Width + 1) \in Floats64
  BY <1>0, PowersAreFloats DEF Floats64
<1> QED BY <1>1, <1>2, <1>3 DEF FloatsFor

LEMMA NearestOfIntegers ==
  ASSUME NEW size, NEW n \in Int, -(2^Width) <= n, n <= 2^Width
  PROVE  /\ Nearest(n, FloatsFor(size)) \in Int
         /\ -(2^Width) <= Nearest(n, FloatsFor(size)) /\ Nearest(n, FloatsFor(size)) <= 2^Width
         /\ Nearest(n, FloatsFor(size)) \in FloatsFor(size)
<1>1. PICK L : Encloses(FloatsFor(size), L) /\ 2^Width <= L /\ 2^Width \in Nat
  BY FloatsAreEnclosed
<1>2. 2^Width \in FloatsFor(size) /\ -(2^Width) \in FloatsFor(size)
  BY PowersOfWidth
<1> DEFINE F == FloatsFor(size)
           w == 2^Width
<1>3. Encloses(F, L) /\ w <= L /\ w \in Nat /\ w \in F /\ -w \in F /\ -w <= n /\ n <= w
  BY <1>1, <1>2
<1> HIDE DEF F, w
<1>4. /\ F \in SUBSET Int /\ L \in Nat /\ L \in F /\ -L \in F /\ (\A g \in F : -L <= g /\ g <= L)
      /\ Infinity \in Int /\ L < Infinity
  BY <1>3, InfinityIs DEF Encloses
<1>5. Abs(n) <= L
  BY <1>3, <1>4 DEF Abs
<1>6. /\ Nearest(n, F) \in F
      /\ \A g \in F : n <= g => Nearest(n, F) <= g
      /\ \A g \in F : g <= n => g <= Nearest(n, F)
  BY <1>4, <1>5, NearestIsClose
<1>7. Nearest(n, F) \in Int /\ -w <= Nearest(n, F) /\ Nearest(n, F) <= w
  BY <1>3, <1>4, <1>6
<1> QED BY <1>6, <1>7 DEF F, w

-------------------------------------------------------------------------------
(* The widths of the integers.                                              *)
LEMMA WidthsAre ==
  ASSUME NEW size
  PROVE  /\ Bits(size) \in Nat \ {0} /\ Bits(size) <= Width
         /\ 2^(Bits(size) - 1) \in Nat /\ 2^Bits(size) = 2 * 2^(Bits(size) - 1) /\ 1 <= 2^(Bits(size) - 1)
         /\ 2^(Width - 1) \in Nat /\ 2^Width = 2 * 2^(Width - 1) /\ 2^(Width + 1) = 2 * 2^Width
         /\ 2^(Bits(size) - 1) <= 2^(Width - 1)
         /\ size # "wide" => 2 * 2^(Bits(size) - 1) <= 2^(Width - 1)
<1> DEFINE b == Bits(size) - 1
           c == Width - 1
<1>1. /\ b \in Nat /\ c \in Nat /\ Bits(size) = b + 1 /\ Width = c + 1 /\ b <= c /\ (size # "wide" => b < c)
      /\ Width \in Nat /\ Bits(size) \in Nat
  BY ScanValuesAssumption DEF Bits
<1> HIDE DEF b, c
<1>2. 2^b \in Nat /\ 2^(b + 1) = 2 * 2^b /\ 2^c \in Nat /\ 2^(c + 1) = 2 * 2^c /\ 2^(Width + 1) = 2 * 2^Width
  BY <1>1, PowerOfNext
<1>3. 1 <= 2^b /\ 2^b <= 2^c /\ (b < c => 2 * 2^b <= 2^c)
  BY <1>1, PowersGrow
<1>4. Bits(size) - 1 = b /\ Width - 1 = c /\ Bits(size) \in Nat \ {0} /\ Bits(size) <= Width
  BY <1>1 DEF b, c
<1> QED BY <1>1, <1>2, <1>3, <1>4

LEMMA SignedIs ==
  ASSUME NEW size, NEW i \in Int
  PROVE  Signed(i, Bits(size)) = i <=> MinOf(Bits(size)) <= i /\ i <= MaxOf(Bits(size))
<1> DEFINE h == 2^(Bits(size) - 1)
           p == 2^Bits(size)
<1>1. h \in Nat /\ p = 2 * h /\ 1 <= h
  BY WidthsAre
<1>2. /\ Signed(i, Bits(size)) = ((i + h) % p) - h
      /\ MinOf(Bits(size)) = -h /\ MaxOf(Bits(size)) = h - 1
  BY DEF Signed, MinOf, MaxOf
<1> HIDE DEF h, p
<1>3. /\ (i + h) % p \in 0..p - 1
      /\ 0 <= i + h /\ i + h < p => (i + h) % p = i + h
  BY <1>1, ModIs
<1> QED BY <1>1, <1>2, <1>3

LEMMA UnsignedIs ==
  ASSUME NEW size, NEW i \in Int
  PROVE  Unsigned(i, Bits(size)) = i <=> 0 <= i /\ i < 2^Bits(size)
<1> DEFINE p == 2^Bits(size)
<1>1. p \in Nat /\ p > 0
  BY WidthsAre
<1>2. Unsigned(i, Bits(size)) = i % p
  BY DEF Unsigned
<1> HIDE DEF p
<1>3. /\ i % p \in 0..p - 1
      /\ 0 <= i /\ i < p => i % p = i
  BY <1>1, ModIs
<1>4. Unsigned(i, Bits(size)) = i <=> 0 <= i /\ i < p
  BY <1>1, <1>2, <1>3
<1> QED BY <1>4 DEF p

(* What the values of a driver are, by their kinds.                         *)
DriverValue(v) ==
  /\ v.n \in Int
  /\ v.kind \in {"int64", "float64", "bool", "string", "bytes", "time", "nil"}
  /\ v.kind = "int64" => v.n % 2 = 0 /\ MinOf(Width) <= v.n \div 2 /\ v.n \div 2 <= MaxOf(Width)
  /\ v.kind = "float64" => v.n \in Floats64 \/ Abs(v.n) = Infinity
  /\ v.kind = "bool" => v.n \in {0, 2}
  /\ v.kind = "nil" => v.n = 0
  /\ v.kind \in {"string", "bytes"} /\ v.form = "integer" => v.n % 2 = 0

LEMMA IntegersAre ==
  ASSUME NEW n \in Integers64
  PROVE  n \in Int /\ n % 2 = 0 /\ MinOf(Width) <= n \div 2 /\ n \div 2 <= MaxOf(Width)
<1>1. 2^(Width - 1) \in Nat
  BY WidthsAre
<1> DEFINE lo == MinOf(Width)
           hi == MaxOf(Width)
<1>2. lo \in Int /\ hi \in Int
  BY <1>1 DEF MinOf, MaxOf
<1>3. n \in {2 * i : i \in lo..hi}
  BY DEF Integers64
<1> HIDE DEF lo, hi
<1>4. PICK i \in lo..hi : n = 2 * i
  BY <1>3
<1>5. n \in Int /\ n % 2 = 0 /\ lo <= n \div 2 /\ n \div 2 <= hi
  BY <1>2, <1>4
<1> QED BY <1>5 DEF lo, hi

LEMMA TextsAre ==
  ASSUME NEW v \in Texts64
  PROVE  v.n \in Int /\ v.kind \in {"string", "bytes"} /\ (v.form = "integer" => v.n % 2 = 0)
<1> DEFINE span == -(2^Width)..2^Width
           evens == {2 * i : i \in span}
           odds == {2 * i + 1 : i \in span}
<1>1. 2^Width \in Nat
  BY WidthsAre
<1>2. \A i \in span : i \in Int
  BY <1>1
<1> HIDE DEF span
<1>3. /\ \A n \in evens : n \in Int /\ n % 2 = 0
      /\ \A n \in odds : n \in Int
  BY <1>2
<1>4. Texts64 = {Value(kind, form, n) : kind \in {"string", "bytes"}, form \in {"integer", "exponent"}, n \in evens}
                \cup {Value("string", "decimal", n) : n \in odds}
                \cup {Value("string", "bool", n) : n \in {0, 2}} \cup {Value("bytes", "words", 1)}
  BY DEF Texts64, span
<1> HIDE DEF evens, odds
<1>5. CASE v \in {Value(kind, form, n) : kind \in {"string", "bytes"}, form \in {"integer", "exponent"}, n \in evens}
  BY <1>5, <1>3 DEF Value
<1>6. CASE v \in {Value("string", "decimal", n) : n \in odds}
  BY <1>6, <1>3 DEF Value
<1>7. CASE v \in {Value("string", "bool", n) : n \in {0, 2}} \cup {Value("bytes", "words", 1)}
  BY <1>7 DEF Value
<1> QED BY <1>4, <1>5, <1>6, <1>7

LEMMA ValuesAre ==
  ASSUME NEW v \in Values64
  PROVE  DriverValue(v)
<1>1. CASE v \in {Value("int64", "none", n) : n \in Integers64}
  <2>1. PICK n \in Integers64 : v = Value("int64", "none", n)
    BY <1>1
  <2>2. v.kind = "int64" /\ v.n = n
    BY <2>1 DEF Value
  <2> QED BY <2>2, IntegersAre DEF DriverValue
<1>2. CASE v \in {Value("float64", "none", n) : n \in Floats64 \cup {Infinity, -Infinity}}
  <2>1. PICK n \in Floats64 \cup {Infinity, -Infinity} : v = Value("float64", "none", n)
    BY <1>2
  <2>2. v.kind = "float64" /\ v.n = n
    BY <2>1 DEF Value
  <2>3. Floats64 \subseteq Int
    BY FloatsAreEnclosed DEF FloatsFor, Encloses
  <2>4. n \in Int /\ (n \in Floats64 \/ Abs(n) = Infinity)
    <3>1. CASE n \in Floats64
      BY <3>1, <2>3
    <3>2. CASE n \in {Infinity, -Infinity}
      BY <3>2, InfinityIs DEF Abs
    <3> QED BY <3>1, <3>2
  <2> QED BY <2>2, <2>4 DEF DriverValue
<1>3. CASE v \in {Value("bool", "none", n) : n \in {0, 2}} \cup {Value("time", "words", 1), Value("nil", "none", 0)}
  BY <1>3 DEF Value, DriverValue
<1>4. CASE v \in Texts64
  BY <1>4, TextsAre DEF DriverValue
<1> QED BY <1>1, <1>2, <1>3, <1>4 DEF Values64

LEMMA DestsAre ==
  ASSUME NEW d \in Dests
  PROVE  /\ d.kind \in {"int", "uint", "float", "string", "bytes", "bool", "time", "any"}
         /\ d.size \in {"wide", "narrow"} /\ d.pointer \in BOOLEAN
BY DEF Dests

-------------------------------------------------------------------------------
(* What is kept, by what is stored.                                         *)
LEMMA KeptAs ==
  ASSUME NEW path, NEW as, NEW n, scanned[path] = Stored(as, n)
  PROVE  /\ as = "error" /\ ~((value.kind = "int64" /\ dest.kind \in {"int", "uint"} /\ ~dest.pointer) /\ InRange)
              => KeptBy(path)
         /\ as \in {"int", "uint"} /\ n = value.n /\ InRange => KeptBy(path)
         /\ as = "float" /\ n \in Rounded(value.n) /\ (Abs(n) = Infinity => n = value.n \/ path = "column") => KeptBy(path)
         /\ as = "bool" /\ path # "column" /\ n = value.n => KeptBy(path)
         /\ as = "bool" /\ path = "column" /\ (n = 2 <=> value.n # 0) => KeptBy(path)
         /\ as = "nil" /\ value.kind = "nil" => KeptBy(path)
         /\ as \in {"int64", "float64", "string", "bytes", "time", "text"} /\ n = value.n => KeptBy(path)
<1>1. scanned[path].as = as /\ scanned[path].n = n
  BY DEF Stored
<1> QED BY <1>1 DEF KeptBy

LEMMA KeptError ==
  ASSUME NEW path, scanned[path] = Error,
         ~((value.kind = "int64" /\ dest.kind \in {"int", "uint"} /\ ~dest.pointer) /\ InRange)
  PROVE  KeptBy(path)
BY KeptAs DEF Error

(* An integer in the range of the destination.                              *)
LEMMA RangeOf ==
  ASSUME value.n \in Int, value.n % 2 = 0, dest.kind \in {"int", "uint"},
         NEW i \in Int, i = value.n \div 2
  PROVE  /\ value.n = 2 * i
         /\ dest.kind = "int" => (InRange <=> Signed(i, Bits(dest.size)) = i)
         /\ dest.kind = "int" => (InRange <=> MinOf(Bits(dest.size)) <= i /\ i <= MaxOf(Bits(dest.size)))
         /\ dest.kind = "uint" => (InRange <=> 0 <= i /\ i < 2^Bits(dest.size))
         /\ dest.kind = "uint" => (InRange <=> Unsigned(i, Bits(dest.size)) = i)
<1>1. value.n = 2 * i /\ (0 <= value.n <=> 0 <= i)
  OBVIOUS
<1>2. dest.kind = "int" => (InRange <=> MinOf(Bits(dest.size)) <= i /\ i <= MaxOf(Bits(dest.size)))
  BY DEF InRange
<1>3. dest.kind = "uint" => (InRange <=> 0 <= i /\ i < 2^Bits(dest.size))
  BY <1>1 DEF InRange
<1> QED BY <1>1, <1>2, <1>3, SignedIs, UnsignedIs

(* A parsed text is a number of the destination.                            *)
LEMMA ParsedIsKept ==
  ASSUME NEW path, NEW form, path # "column", value.n \in Int,
         dest \in Dests, value.kind # "int64" \/ form = "integer",
         form = "integer" => value.n % 2 = 0,
         scanned[path] = ScanStringInto(dest, form, value.n)
  PROVE  KeptBy(path)
<1>0. dest.kind \in {"int", "uint", "float", "string", "bytes", "bool", "time", "any"}
  BY DestsAre
<1>1. CASE dest.kind = "int"
  <2>1. scanned[path] = ParseInt(form, value.n, Bits(dest.size))
    BY <1>1 DEF ScanStringInto
  <2>2. CASE form = "integer" /\ MinOf(Bits(dest.size)) <= value.n \div 2 /\ value.n \div 2 <= MaxOf(Bits(dest.size))
    <3>1. scanned[path] = Stored("int", value.n) /\ InRange
      BY <2>1, <2>2, <1>1 DEF ParseInt, InRange
    <3> QED BY <3>1, KeptAs
  <2>3. CASE ~(form = "integer" /\ MinOf(Bits(dest.size)) <= value.n \div 2 /\ value.n \div 2 <= MaxOf(Bits(dest.size)))
    <3>1. scanned[path] = Error
      BY <2>1, <2>3 DEF ParseInt
    <3>2. value.kind = "int64" => ~InRange
      BY <2>3, <1>1 DEF InRange
    <3> QED BY <3>1, <3>2, KeptError
  <2> QED BY <2>2, <2>3
<1>2. CASE dest.kind = "uint"
  <2>1. scanned[path] = ParseUint(form, value.n, Bits(dest.size))
    BY <1>2 DEF ScanStringInto
  <2>2. CASE form = "integer" /\ 0 <= value.n /\ value.n \div 2 < 2^Bits(dest.size)
    <3>1. scanned[path] = Stored("uint", value.n) /\ InRange
      BY <2>1, <2>2, <1>2 DEF ParseUint, InRange
    <3> QED BY <3>1, KeptAs
  <2>3. CASE ~(form = "integer" /\ 0 <= value.n /\ value.n \div 2 < 2^Bits(dest.size))
    <3>1. scanned[path] = Error
      BY <2>1, <2>3 DEF ParseUint
    <3>2. value.kind = "int64" => ~InRange
      BY <2>3, <1>2 DEF InRange
    <3> QED BY <3>1, <3>2, KeptError
  <2> QED BY <2>2, <2>3
<1>3. CASE dest.kind = "float"
  <2> DEFINE f == Nearest(value.n, FloatsFor(dest.size))
             ok == form \in {"integer", "decimal", "exponent"} /\ (Abs(f) = Infinity => value.n = f)
  <2>1. scanned[path] = IF ok THEN Stored("float", f) ELSE Error
    BY <1>3 DEF ScanStringInto, ParseFloat
  <2>2. f \in Rounded(value.n)
    BY DEF Rounded
  <2>3. ok => (Abs(f) = Infinity => f = value.n)
    OBVIOUS
  <2> HIDE DEF f, ok
  <2>4. CASE ok
    <3>1. scanned[path] = Stored("float", f)
      BY <2>1, <2>4
    <3> QED BY <3>1, <2>2, <2>3, <2>4, KeptAs
  <2>5. CASE ~ok
    BY <2>1, <2>5, <1>3, KeptError
  <2> QED BY <2>4, <2>5
<1>4. CASE dest.kind = "bool"
  <2>1. scanned[path] = ParseBool(form, value.n)
    BY <1>4 DEF ScanStringInto
  <2>2. scanned[path] = Stored("bool", value.n) \/ scanned[path] = Error
    BY <2>1 DEF ParseBool
  <2> QED BY <2>2, <1>4, KeptAs, KeptError
<1>5. CASE dest.kind \in {"string", "bytes", "time", "any"}
  <2>1. scanned[path] = Error
    BY <1>5 DEF ScanStringInto
  <2> QED BY <2>1, <1>5, KeptError
<1> QED BY <1>0, <1>1, <1>2, <1>3, <1>4, <1>5

(* ScanInt64.                                                               *)
LEMMA ScannedIntegersAreKept ==
  ASSUME DriverValue(value), value.kind = "int64", dest \in Dests,
         scanned["scan"] = ScanInt64(dest, value)
  PROVE  KeptBy("scan")
<1> DEFINE i == value.n \div 2
<1>0. dest.kind \in {"int", "uint", "float", "string", "bytes", "bool", "time", "any"}
  BY DestsAre
<1>1. value.n \in Int /\ value.n % 2 = 0 /\ i \in Int /\ MinOf(Width) <= i /\ i <= MaxOf(Width) /\ value.n = 2 * i
  BY DEF DriverValue
<1>2. CASE dest.kind = "int"
  <2>1. scanned["scan"] = IF Signed(i, Bits(dest.size)) # i THEN Error ELSE Stored("int", 2 * Signed(i, Bits(dest.size)))
    BY <1>2 DEF ScanInt64
  <2>2. InRange <=> Signed(i, Bits(dest.size)) = i
    BY <1>1, <1>2, RangeOf
  <2>3. CASE Signed(i, Bits(dest.size)) # i
    BY <2>1, <2>2, <2>3, KeptError
  <2>4. CASE Signed(i, Bits(dest.size)) = i
    <3>1. scanned["scan"] = Stored("int", value.n)
      BY <2>1, <2>4, <1>1
    <3> QED BY <3>1, <2>2, <2>4, KeptAs
  <2> QED BY <2>3, <2>4
<1>3. CASE dest.kind = "uint"
  <2>1. scanned["scan"] = IF i < 0 \/ Unsigned(Unsigned(i, Width), Bits(dest.size)) # Unsigned(i, Width) THEN Error
                          ELSE Stored("uint", 2 * Unsigned(i, Width))
    BY <1>3 DEF ScanInt64
  <2>2. InRange <=> Unsigned(i, Bits(dest.size)) = i
    BY <1>1, <1>3, RangeOf
  <2>3. InRange <=> 0 <= i /\ i < 2^Bits(dest.size)
    BY <1>1, <1>3, RangeOf
  <2>4. CASE i < 0
    <3>1. scanned["scan"] = Error
      BY <2>1, <2>4
    <3> QED BY <3>1, <2>3, <2>4, <1>1, KeptError
  <2>5. CASE 0 <= i
    <3>1. Unsigned(i, Width) = i
      <4>1. i < 2^Width
        <5>1. 2^(Width - 1) \in Nat /\ 2^Width = 2 * 2^(Width - 1) /\ 1 <= 2^(Width - 1)
          <6>1. Bits("wide") = Width
            BY DEF Bits
          <6> QED BY <6>1, WidthsAre
        <5>2. MaxOf(Width) = 2^(Width - 1) - 1
          BY DEF MaxOf
        <5> QED BY <5>1, <5>2, <1>1
      <4>2. Bits("wide") = Width
        BY DEF Bits
      <4> QED BY <4>1, <4>2, <1>1, <2>5, UnsignedIs
    <3>2. scanned["scan"] = IF Unsigned(i, Bits(dest.size)) # i THEN Error ELSE Stored("uint", value.n)
      BY <2>1, <2>5, <3>1, <1>1
    <3>3. CASE Unsigned(i, Bits(dest.size)) # i
      BY <3>2, <3>3, <2>2, KeptError
    <3>4. CASE Unsigned(i, Bits(dest.size)) = i
      BY <3>2, <3>4, <2>2, KeptAs
    <3> QED BY <3>3, <3>4
  <2> QED BY <2>4, <2>5, <1>1
<1>4. CASE dest.kind = "float"
  <2> DEFINE g == Nearest(value.n, Floats64)
             f == Nearest(g, FloatsFor(dest.size))
  <2>1. scanned["scan"] = Stored("float", f)
    BY <1>4 DEF ScanInt64
  <2>2. f \in Rounded(value.n)
    BY DEF Rounded
  <2>3. -(2^Width) <= value.n /\ value.n <= 2^Width
    <3>1. Bits("wide") = Width
      BY DEF Bits
    <3>2. 2^(Width - 1) \in Nat /\ 2^Width = 2 * 2^(Width - 1)
      BY <3>1, WidthsAre
    <3>3. MaxOf(Width) = 2^(Width - 1) - 1 /\ MinOf(Width) = -(2^(Width - 1))
      BY DEF MaxOf, MinOf
    <3> QED BY <3>2, <3>3, <1>1
  <2>4. g \in Int /\ -(2^Width) <= g /\ g <= 2^Width
    <3>1. FloatsFor("wide") = Floats64
      BY DEF FloatsFor
    <3> QED BY <3>1, <2>3, <1>1, NearestOfIntegers
  <2>5. f \in Int /\ -(2^Width) <= f /\ f <= 2^Width
    <3> HIDE DEF g
    <3> QED BY <2>4, NearestOfIntegers
  <2>6. Abs(f) # Infinity
    <3>1. PICK L : Encloses(FloatsFor(dest.size), L) /\ 2^Width <= L /\ 2^Width \in Nat
      BY FloatsAreEnclosed
    <3>2. L \in Int /\ L < Infinity /\ Infinity \in Int
      BY <3>1, InfinityIs DEF Encloses
    <3> HIDE DEF f
    <3> QED BY <3>1, <3>2, <2>5 DEF Abs
  <2> HIDE DEF f
  <2> QED BY <2>1, <2>2, <2>6, KeptAs
<1>5. CASE dest.kind = "bool"
  <2>1. scanned["scan"] = Stored("bool", value.n) \/ scanned["scan"] = Error
    BY <1>5 DEF ScanInt64, ZeroOrOne
  <2> QED BY <2>1, <1>5, KeptAs, KeptError
<1>6. CASE dest.kind \in {"string", "bytes"}
  <2>1. scanned["scan"] = Stored("text", value.n)
    BY <1>6 DEF ScanInt64, Text
  <2> QED BY <2>1, KeptAs
<1>7. CASE dest.kind \in {"time", "any"}
  <2>1. scanned["scan"] = Error
    BY <1>7 DEF ScanInt64
  <2> QED BY <2>1, <1>7, KeptError
<1> QED BY <1>0, <1>2, <1>3, <1>4, <1>5, <1>6, <1>7

(* An integer that a float is compared with, when it is equal.              *)
LEMMA ComparedIntegers ==
  ASSUME NEW n \in Floats64 \cup {Infinity, -Infinity}, NEW i \in Int,
         i = (IF n < 0 THEN -((-n) \div 2) ELSE n \div 2), Nearest(2 * i, Floats64) = n
  PROVE  n = 2 * i
<1>1. PICK L : Encloses(Floats64, L) /\ 2^Width <= L
  BY FloatsAreEnclosed DEF FloatsFor
<1>2. n \in Int /\ Infinity \in Nat /\ Infinity % 2 = 0
  <2>1. Infinity \in Nat /\ Infinity % 2 = 0
    BY InfinityIs
  <2>2. \A f \in Floats64 : f \in Int
    BY <1>1 DEF Encloses
  <2> QED BY <2>1, <2>2
<1>3. CASE n % 2 = 0
  BY <1>2, <1>3
<1>4. CASE n % 2 # 0
  <2>1. n % 2 = 1 /\ n \in Floats64
    BY <1>2, <1>4
  <2>2. Digits64 \in Nat \ {0} /\ Exponents64 \in Nat
    BY ScanValuesAssumption
  <2>3. -(2^Digits64) < n /\ n < 2^Digits64
    BY <2>1, <2>2, SmallAreFloats DEF Floats64
  <2>4. 2^Digits64 \in Nat
    BY <2>2, PowersGrow
  <2>5. 2 * i \in Int /\ -(2^Digits64) < 2 * i /\ 2 * i < 2^Digits64
    BY <1>2, <2>1, <2>3, <2>4
  <2>6. 2 * i \in Floats64
    BY <2>2, <2>5, SmallAreFloats DEF Floats64
  <2>7. Nearest(2 * i, Floats64) = 2 * i
    BY <2>6 DEF Nearest
  <2> QED BY <2>7
<1> QED BY <1>3, <1>4

(* ScanFloat64 into a signed integer.                                       *)
LEMMA FloatsBecomeInts ==
  ASSUME DriverValue(value), value.kind = "float64", dest \in Dests, dest.kind = "int",
         scanned["scan"] \in ScanFloat64(dest, value)
  PROVE  KeptBy("scan") \/ Saturated("scan")
<1> DEFINE n == value.n
           half == IF n < 0 THEN -((-n) \div 2) ELSE n \div 2
           w == 2^Width
           h == 2^(Width - 1)
<1>1. PICK i \in ToInt(n) :
        scanned["scan"] = IF Nearest(2 * i, Floats64) # n \/ Signed(i, Bits(dest.size)) # i
                          THEN Error ELSE Stored("int", 2 * i)
  BY DEF ScanFloat64
<1>2. Bits("wide") = Width /\ FloatsFor("wide") = Floats64
  BY DEF Bits, FloatsFor
<1>3. h \in Nat /\ w = 2 * h /\ 1 <= h
  BY <1>2, WidthsAre
<1>4. MinOf(Width) = -h /\ MaxOf(Width) = h - 1
  BY DEF MinOf, MaxOf
<1>5. n \in Int /\ n \in Floats64 \cup {Infinity, -Infinity}
  BY InfinityIs DEF DriverValue, Abs
<1>6. CASE Nearest(2 * i, Floats64) # n \/ Signed(i, Bits(dest.size)) # i
  <2>1. scanned["scan"] = Error
    BY <1>1, <1>6
  <2> QED BY <2>1, KeptError
<1>7. CASE Nearest(2 * i, Floats64) = n /\ Signed(i, Bits(dest.size)) = i
  <2>1. scanned["scan"] = Stored("int", 2 * i)
    BY <1>1, <1>7
  <2>2. CASE MinOf(Width) <= half /\ half <= MaxOf(Width)
    <3>1. i = half /\ i \in Int
      BY <2>2, <1>5 DEF ToInt
    <3>2. n = 2 * i
      BY <3>1, <1>5, <1>7, ComparedIntegers
    <3>3. n % 2 = 0 /\ i = n \div 2
      BY <3>1, <3>2
    <3>4. InRange
      BY <1>5, <1>7, <3>1, <3>3, RangeOf
    <3> QED BY <2>1, <3>2, <3>4, KeptAs
  <2>3. CASE ~(MinOf(Width) <= half /\ half <= MaxOf(Width))
    <3>1. i \in {MinOf(Width), IF n < 0 THEN MinOf(Width) ELSE MaxOf(Width)}
      BY <2>3 DEF ToInt
    <3>2. CASE i = MinOf(Width)
      <4>1. -w \in Floats64
        BY <1>2, PowersOfWidth
      <4>2. 2 * i = -w
        BY <3>2, <1>3, <1>4
      <4>3. Nearest(2 * i, Floats64) = -w
        BY <4>1, <4>2 DEF Nearest
      <4>4. n = -w
        BY <4>3, <1>7
      <4> HIDE DEF w, h
      <4> QED BY <4>4, <2>3, <1>3, <1>4, <1>5
    <3>3. CASE i = MaxOf(Width) /\ n >= 0
      <4>1. w \in Floats64
        BY <1>2, PowersOfWidth
      <4>2. i \in Int /\ 2 * i = w - 2
        BY <3>3, <1>3, <1>4
      <4>3. n <= w
        <5>1. -w <= 2 * i /\ 2 * i <= w /\ 2 * i \in Int
          BY <4>2, <1>3
        <5> HIDE DEF n
        <5>2. Nearest(2 * i, Floats64) <= w
          BY <5>1, <1>2, NearestOfIntegers
        <5> QED BY <5>2, <1>7
      <4>4. n = w
        <5> HIDE DEF w, h
        <5> QED BY <4>3, <2>3, <3>3, <1>3, <1>4, <1>5
      <4>5. CASE dest.size = "wide"
        <5>1. value.n = 2 * 2^(Width - 1)
          BY <4>4, <1>3
        <5>2. scanned["scan"] = Stored("int", 2 * MaxOf(Width))
          BY <2>1, <3>3
        <5> QED BY <4>5, <5>1, <5>2 DEF Saturated
      <4>6. CASE dest.size # "wide"
        <5>1. 2^(Bits(dest.size) - 1) \in Nat /\ 2 * 2^(Bits(dest.size) - 1) <= h /\ 1 <= 2^(Bits(dest.size) - 1)
          BY <4>6, WidthsAre
        <5>2. i <= MaxOf(Bits(dest.size))
          BY <4>2, <1>7, SignedIs
        <5>3. MaxOf(Bits(dest.size)) = 2^(Bits(dest.size) - 1) - 1
          BY DEF MaxOf
        <5>4. i = h - 1
          BY <3>3, <1>4
        <5> HIDE DEF h
        <5> QED BY <5>1, <5>2, <5>3, <5>4, <1>3
      <4> QED BY <4>5, <4>6
    <3> QED BY <3>1, <3>2, <3>3, <1>5
  <2> QED BY <2>2, <2>3
<1> QED BY <1>6, <1>7

(* ScanFloat64 into an unsigned integer.                                    *)
LEMMA FloatsBecomeUints ==
  ASSUME DriverValue(value), value.kind = "float64", dest \in Dests, dest.kind = "uint",
         scanned["scan"] \in ScanFloat64(dest, value)
  PROVE  KeptBy("scan") \/ Saturated("scan")
<1> DEFINE n == value.n
           w == 2^Width
           top == 2^(Width + 1)
<1>1. Bits("wide") = Width /\ FloatsFor("wide") = Floats64
  BY DEF Bits, FloatsFor
<1>2. w \in Nat /\ top = 2 * w /\ 1 <= w
  <2>1. 2^(Width - 1) \in Nat /\ 2^Width = 2 * 2^(Width - 1) /\ 1 <= 2^(Width - 1) /\ 2^(Width + 1) = 2 * 2^Width
    BY <1>1, WidthsAre
  <2> QED BY <2>1
<1>3. n \in Int /\ n \in Floats64 \cup {Infinity, -Infinity}
  BY InfinityIs DEF DriverValue, Abs
<1>4. CASE n < 0
  <2>1. scanned["scan"] = Error
    BY <1>4 DEF ScanFloat64
  <2> QED BY <2>1, KeptError
<1>5. CASE ~(n < 0)
  <2>1. PICK u \in ToUint(n) :
          scanned["scan"] = IF Nearest(2 * u, Floats64) # n \/ Unsigned(u, Bits(dest.size)) # u
                            THEN Error ELSE Stored("uint", 2 * u)
    BY <1>5 DEF ScanFloat64
  <2>2. CASE Nearest(2 * u, Floats64) # n \/ Unsigned(u, Bits(dest.size)) # u
    <3>1. scanned["scan"] = Error
      BY <2>1, <2>2
    <3> QED BY <3>1, KeptError
  <2>3. CASE Nearest(2 * u, Floats64) = n /\ Unsigned(u, Bits(dest.size)) = u
    <3>1. scanned["scan"] = Stored("uint", 2 * u)
      BY <2>1, <2>3
    <3>2. CASE n \div 2 < 2^Width
      <4>1. u = n \div 2 /\ u \in Int
        BY <3>2, <1>3 DEF ToUint
      <4>2. n = 2 * u
        BY <4>1, <1>3, <1>5, <2>3, ComparedIntegers
      <4>3. n % 2 = 0
        BY <4>1, <4>2
      <4>4. InRange
        BY <1>3, <2>3, <4>1, <4>3, RangeOf
      <4> QED BY <3>1, <4>2, <4>4, KeptAs
    <3>3. CASE ~(n \div 2 < 2^Width)
      <4>1. u \in {0, 2^Width - 1}
        BY <3>3 DEF ToUint
      <4>2. CASE u = 0
        <5>1. 0 \in Floats64
          <6>1. Digits64 \in Nat \ {0} /\ Exponents64 \in Nat
            BY ScanValuesAssumption
          <6> QED BY <6>1, FloatsAre DEF Floats64
        <5>2. 2 * u = 0
          BY <4>2
        <5>3. Nearest(2 * u, Floats64) = 0
          BY <5>1, <5>2 DEF Nearest
        <5>4. n = 0
          BY <5>3, <2>3
        <5> HIDE DEF w
        <5> QED BY <5>4, <3>3, <1>2 DEF w
      <4>3. CASE u = 2^Width - 1
        <5>1. u \in Int /\ 2 * u = top - 2
          BY <4>3, <1>2
        <5>2. top \in Floats64
          BY PowersOfWidth
        <5>3. Nearest(2 * u, Floats64) <= top
          <6>1. PICK L : Encloses(Floats64, L)
            BY <1>1, FloatsAreEnclosed
          <6>2. /\ Floats64 \in SUBSET Int /\ L \in Nat /\ L \in Floats64 /\ -L \in Floats64
                /\ (\A g \in Floats64 : -L <= g /\ g <= L) /\ Infinity \in Int /\ L < Infinity
            BY <6>1, InfinityIs DEF Encloses
          <6>3. top <= L /\ top \in Int
            BY <6>2, <5>2, <1>2
          <6> HIDE DEF top
          <6>4. 2 * u \in Int /\ 2 * u <= top /\ 0 <= 2 * u
            BY <5>1, <4>3, <1>2
          <6>5. Abs(2 * u) <= L
            BY <6>2, <6>3, <6>4 DEF Abs
          <6> QED BY <6>2, <6>4, <6>5, <5>2, NearestIsClose
        <5>4. n = top
          <6>1. n <= top
            BY <5>3, <2>3
          <6> HIDE DEF top
          <6> QED BY <6>1, <3>3, <1>2, <1>3
        <5>5. CASE dest.size = "wide"
          <6>1. value.n = 2 * 2^Width
            BY <5>4, <1>2
          <6>2. scanned["scan"] = Stored("uint", 2 * (2^Width - 1))
            BY <3>1, <4>3
          <6> QED BY <5>5, <6>1, <6>2 DEF Saturated
        <5>6. CASE dest.size # "wide"
          <6>1. 2^(Bits(dest.size) - 1) \in Nat /\ 2 * 2^(Bits(dest.size) - 1) <= 2^(Width - 1) /\ 1 <= 2^(Bits(dest.size) - 1)
                /\ 2^Bits(dest.size) = 2 * 2^(Bits(dest.size) - 1) /\ 2^Width = 2 * 2^(Width - 1) /\ 2^(Width - 1) \in Nat
            BY <5>6, WidthsAre
          <6>2. u < 2^Bits(dest.size)
            BY <5>1, <2>3, UnsignedIs
          <6> QED BY <6>1, <6>2, <4>3
        <5> QED BY <5>5, <5>6
      <4> QED BY <4>1, <4>2, <4>3
    <3> QED BY <3>2, <3>3
  <2> QED BY <2>2, <2>3
<1> QED BY <1>4, <1>5

(* The other ways of ScanFloat64.                                           *)
LEMMA ScannedFloatsAreKept ==
  ASSUME DriverValue(value), value.kind = "float64", dest \in Dests,
         scanned["scan"] \in ScanFloat64(dest, value)
  PROVE  KeptBy("scan") \/ Saturated("scan")
<1>0. dest.kind \in {"int", "uint", "float", "string", "bytes", "bool", "time", "any"}
  BY DestsAre
<1>1. CASE dest.kind \in {"int", "uint"}
  BY <1>1, FloatsBecomeInts, FloatsBecomeUints
<1>2. CASE dest.kind = "float"
  <2> DEFINE F == FloatsFor(dest.size)
             n == value.n
             f == Nearest(n, F)
  <2>1. scanned["scan"] = IF Largest(F) < Abs(n) /\ Abs(n) < Infinity THEN Error ELSE Stored("float", f)
    BY <1>2 DEF ScanFloat64
  <2>2. f \in Rounded(n)
    BY DEF Rounded
  <2>3. PICK L : Encloses(F, L)
    BY FloatsAreEnclosed
  <2>4. PICK M : Encloses(Floats64, M)
    BY FloatsAreEnclosed DEF FloatsFor
  <2>5. n \in Int /\ (n \in Floats64 \/ Abs(n) = Infinity)
    BY DEF DriverValue
  <2>6. Largest(F) = L
    BY <2>3, LargestIs
  <2> HIDE DEF F, n
  <2>7. CASE L < Abs(n) /\ Abs(n) < Infinity
    <3>1. scanned["scan"] = Error
      BY <2>1, <2>6, <2>7
    <3> QED BY <3>1, <1>2, KeptError
  <2>8. CASE ~(L < Abs(n) /\ Abs(n) < Infinity)
    <3>1. scanned["scan"] = Stored("float", f)
      BY <2>1, <2>6, <2>8
    <3>2. Abs(f) = Infinity => f = n
      <4>1. CASE Abs(n) = Infinity
        BY <4>1 DEF Nearest
      <4>2. CASE Abs(n) # Infinity
        <5>1. n \in Floats64 /\ -M <= n /\ n <= M /\ M < Infinity /\ M \in Int /\ Infinity \in Int
          BY <4>2, <2>4, <2>5, InfinityIs DEF Encloses
        <5>2. Abs(n) \in Int /\ Abs(n) < Infinity
          BY <5>1, <2>5 DEF Abs
        <5>3. F \in SUBSET Int /\ L \in Nat /\ L \in F /\ -L \in F /\ (\A g \in F : -L <= g /\ g <= L) /\ L < Infinity
          BY <2>3 DEF Encloses
        <5>4. Abs(n) <= L
          BY <5>2, <5>3, <2>8
        <5>5. f \in F
          BY <5>1, <5>3, <5>4, <2>5, NearestIsClose
        <5> HIDE DEF f
        <5>6. f \in Int /\ -L <= f /\ f <= L
          BY <5>3, <5>5
        <5>7. Abs(f) # Infinity
          BY <5>1, <5>3, <5>6 DEF Abs
        <5> QED BY <5>7
      <4> QED BY <4>1, <4>2
    <3> HIDE DEF f
    <3> QED BY <3>1, <3>2, <2>2, KeptAs DEF n
  <2> QED BY <2>7, <2>8
<1>3. CASE dest.kind = "bool"
  <2>1. scanned["scan"] = Stored("bool", value.n) \/ scanned["scan"] = Error
    BY <1>3 DEF ScanFloat64, ZeroOrOne
  <2> QED BY <2>1, KeptAs, KeptError
<1>4. CASE dest.kind \in {"string", "bytes"}
  <2>1. scanned["scan"] = Stored("text", value.n)
    BY <1>4 DEF ScanFloat64, Text
  <2> QED BY <2>1, KeptAs
<1>5. CASE dest.kind \in {"time", "any"}
  <2>1. scanned["scan"] = Error
    BY <1>5 DEF ScanFloat64
  <2> QED BY <2>1, KeptError
<1> QED BY <1>0, <1>1, <1>2, <1>3, <1>4, <1>5

(* ScanDriverValue.                                                         *)
LEMMA ScannedIsKept ==
  ASSUME DriverValue(value), dest \in Dests, scanned["scan"] \in ScanDriverValue(dest, value)
  PROVE  KeptBy("scan") \/ Saturated("scan")
<1>0. value.kind \in {"int64", "float64", "bool", "string", "bytes", "time", "nil"}
  BY DEF DriverValue
<1>1. CASE dest.kind = "any"
  <2>1. CASE value.kind = "nil"
    <3>1. scanned["scan"] = Stored("nil", 0)
      BY <1>1, <2>1 DEF ScanDriverValue
    <3> QED BY <3>1, <2>1, KeptAs
  <2>2. CASE value.kind = "bool"
    <3>1. scanned["scan"] = Stored("bool", value.n)
      BY <1>1, <2>2 DEF ScanDriverValue
    <3> QED BY <3>1, KeptAs
  <2>3. CASE value.kind \notin {"nil", "bool"}
    <3>1. scanned["scan"] = Stored(value.kind, value.n)
      BY <1>1, <2>3 DEF ScanDriverValue
    <3>2. value.kind \in {"int64", "float64", "string", "bytes", "time", "text"}
      BY <2>3, <1>0
    <3> QED BY <3>1, <3>2, KeptAs
  <2> QED BY <2>1, <2>2, <2>3
<1>2. CASE dest.kind # "any" /\ dest.pointer /\ value.kind = "nil"
  <2>1. scanned["scan"] = Stored("nil", 0)
    BY <1>2 DEF ScanDriverValue
  <2> QED BY <2>1, <1>2, KeptAs
<1>3. CASE dest.kind # "any" /\ ~(dest.pointer /\ value.kind = "nil")
  <2> USE <1>3 DEF ScanDriverValue
  <2>1. CASE value.kind = "int64"
    <3>1. scanned["scan"] = ScanInt64(dest, value)
      BY <2>1
    <3> QED BY <3>1, <2>1, ScannedIntegersAreKept
  <2>2. CASE value.kind = "float64"
    <3>1. scanned["scan"] \in ScanFloat64(dest, value)
      BY <2>2
    <3> QED BY <3>1, <2>2, ScannedFloatsAreKept
  <2>3. CASE value.kind = "bool"
    <3>1. scanned["scan"] \in {Stored("bool", value.n), Stored("text", value.n), Error}
      BY <2>3 DEF ScanBool, Text
    <3> QED BY <3>1, <2>3, KeptAs, KeptError
  <2>4. CASE value.kind \in {"string", "bytes"}
    <3>1. scanned["scan"] = ScanText(dest, value)
      BY <2>4
    <3>2. CASE dest.kind \in {"string", "bytes"}
      <4>1. scanned["scan"] = Stored("text", value.n)
        BY <3>1, <3>2 DEF ScanText, Text
      <4> QED BY <4>1, KeptAs
    <3>3. CASE dest.kind \notin {"string", "bytes"}
      <4>1. scanned["scan"] = ScanStringInto(dest, value.form, value.n)
        BY <3>1, <3>3 DEF ScanText
      <4>2. value.n \in Int /\ value.kind # "int64" /\ (value.form = "integer" => value.n % 2 = 0)
        BY <2>4 DEF DriverValue
      <4> QED BY <4>1, <4>2, ParsedIsKept
    <3> QED BY <3>2, <3>3
  <2>5. CASE value.kind = "time"
    <3>1. scanned["scan"] \in {Stored("time", value.n), Stored("text", value.n), Error}
      BY <2>5 DEF ScanTime, Text
    <3> QED BY <3>1, <2>5, KeptAs, KeptError
  <2>6. CASE value.kind = "nil"
    <3>1. scanned["scan"] \in {Stored("nil", 0), Error}
      BY <2>6 DEF ScanNil
    <3> QED BY <3>1, <2>6, KeptAs, KeptError
  <2> QED BY <1>0, <2>1, <2>2, <2>3, <2>4, <2>5, <2>6
<1> QED BY <1>1, <1>2, <1>3

-------------------------------------------------------------------------------
(* ConvertAssign.                                                           *)
LEMMA AssignedIsKept ==
  ASSUME DriverValue(value), dest \in Dests, scanned["assign"] = ConvertAssign(dest, value)
  PROVE  KeptBy("assign")
<1>0. /\ value.kind \in {"int64", "float64", "bool", "string", "bytes", "time", "nil"}
      /\ dest.kind \in {"int", "uint", "float", "string", "bytes", "bool", "time", "any"}
  BY DestsAre DEF DriverValue
<1>1. CASE dest.kind = "any" \/ value.kind = "nil"
  <2>1. scanned["assign"] = Stored(value.kind, value.n) \/ scanned["assign"] = Error
    BY <1>1 DEF ConvertAssign
  <2>2. CASE scanned["assign"] = Stored(value.kind, value.n)
    <3>1. CASE value.kind = "nil"
      BY <2>2, <3>1, KeptAs
    <3>2. CASE value.kind = "bool"
      BY <2>2, <3>2, KeptAs
    <3>3. CASE value.kind \in {"int64", "float64", "string", "bytes", "time"}
      BY <2>2, <3>3, KeptAs
    <3> QED BY <1>0, <3>1, <3>2, <3>3
  <2>3. CASE scanned["assign"] = Error
    BY <2>3, <1>1, KeptError
  <2> QED BY <2>1, <2>2, <2>3
<1>2. CASE ~(dest.kind = "any" \/ value.kind = "nil")
  <2>1. CASE AssignCommon(dest, value) \/ dest.kind \in {"string", "bytes"}
    <3>1. scanned["assign"] \in {Stored("time", value.n), Stored("text", value.n)}
      BY <1>2, <2>1 DEF ConvertAssign, Text
    <3> QED BY <3>1, KeptAs
  <2>2. CASE ~(AssignCommon(dest, value) \/ dest.kind \in {"string", "bytes"}) /\ dest.kind = "bool"
    <3>1. scanned["assign"] = ConvertBool(value)
      BY <1>2, <2>2 DEF ConvertAssign
    <3>2. scanned["assign"] \in {Stored("bool", value.n), Error}
      BY <3>1 DEF ConvertBool, ParseBool
    <3> QED BY <3>2, <2>2, KeptAs, KeptError
  <2>3. CASE ~(AssignCommon(dest, value) \/ dest.kind \in {"string", "bytes", "bool"}) /\ SameType(dest, value)
    <3>1. scanned["assign"] = Stored(dest.kind, value.n)
      BY <1>2, <2>3 DEF ConvertAssign
    <3>2. dest.size = "wide" /\ Bits(dest.size) = Width /\ FloatsFor(dest.size) = Floats64
      BY <2>3 DEF SameType, Bits, FloatsFor
    <3>3. CASE value.kind = "int64" /\ dest.kind = "int"
      <4>1. InRange
        BY <3>2, <3>3 DEF InRange, DriverValue
      <4> QED BY <3>1, <3>3, <4>1, KeptAs
    <3>4. CASE value.kind = "float64" /\ dest.kind = "float"
      <4>1. Nearest(value.n, Floats64) = value.n
        BY <3>4 DEF DriverValue, Nearest
      <4>2. value.n \in Rounded(value.n)
        BY <3>2, <4>1 DEF Rounded
      <4> QED BY <3>1, <3>4, <4>2, KeptAs
    <3> QED BY <2>3, <3>3, <3>4 DEF SameType
  <2>4. CASE ~(AssignCommon(dest, value) \/ dest.kind \in {"string", "bytes", "bool"}) /\ ~SameType(dest, value)
    <3> DEFINE form == AsString(value).form
    <3>1. scanned["assign"] = ScanStringInto(dest, form, value.n)
      BY <1>2, <2>4 DEF ConvertAssign, ConvertNumber
    <3>2. form = IF value.kind = "time" THEN "words" ELSE FormOf(value)
      BY DEF AsString, Value
    <3>3. /\ value.kind = "int64" => form = "integer" /\ value.n % 2 = 0
          /\ form = "integer" => value.n % 2 = 0
      <4>1. value.n \in Int
        BY DEF DriverValue
      <4>2. CASE value.kind = "int64"
        BY <4>2 DEF DriverValue, FormOf, AsString, Value
      <4>3. CASE value.kind = "float64"
        BY <3>2, <4>3 DEF FormOf
      <4>4. CASE value.kind = "bool"
        BY <3>2, <4>4 DEF FormOf
      <4>5. CASE value.kind = "time"
        BY <3>2, <4>5
      <4>6. CASE value.kind \in {"string", "bytes"}
        <5>1. FormOf(value) = value.form
          BY <4>6 DEF FormOf
        <5> QED BY <3>2, <4>6, <5>1 DEF DriverValue
      <4> QED BY <1>0, <1>2, <4>2, <4>3, <4>4, <4>5, <4>6
    <3>4. value.n \in Int
      BY DEF DriverValue
    <3> HIDE DEF form
    <3> QED BY <3>1, <3>3, <3>4, ParsedIsKept
  <2> QED BY <2>1, <2>2, <2>3, <2>4
<1> QED BY <1>1, <1>2

-------------------------------------------------------------------------------
(* ScanColumn.                                                              *)
LEMMA ColumnIsKept ==
  ASSUME DriverValue(value), dest \in Dests, value.kind \notin {"bool", "time"},
         scanned["column"] = ScanColumn(dest, value)
  PROVE  KeptBy("column")
<1>0. /\ value.kind \in {"int64", "float64", "string", "bytes", "nil"} /\ value.n \in Int
      /\ dest.kind \in {"int", "uint", "float", "string", "bytes", "bool", "time", "any"}
      /\ dest.size \in {"wide", "narrow"} /\ dest.pointer \in BOOLEAN
  BY DestsAre DEF DriverValue
<1>1. CASE value.kind = "nil"
  <2>1. scanned["column"] \in {Stored("nil", 0), Error}
    BY <1>1 DEF ScanColumn, ScanNull
  <2> QED BY <2>1, <1>1, KeptAs, KeptError
<1>2. CASE value.kind = "int64"
  <2> DEFINE i == value.n \div 2
  <2>1. i \in Int /\ value.n % 2 = 0 /\ value.n = 2 * i /\ MinOf(Width) <= i /\ i <= MaxOf(Width)
    BY <1>0, <1>2 DEF DriverValue
  <2>2. scanned["column"] = ScanInteger(dest, value)
    BY <1>2 DEF ScanColumn
  <2>3. CASE dest.pointer
    <3>1. scanned["column"] = Error
      BY <2>2, <2>3 DEF ScanInteger
    <3> QED BY <3>1, <2>3, KeptError
  <2>4. CASE ~dest.pointer /\ dest.kind = "int"
    <3>1. scanned["column"] = IF MinOf(Bits(dest.size)) <= i /\ i <= MaxOf(Bits(dest.size)) THEN Stored("int", value.n) ELSE Error
      BY <2>2, <2>4 DEF ScanInteger
    <3>2. InRange <=> MinOf(Bits(dest.size)) <= i /\ i <= MaxOf(Bits(dest.size))
      BY <1>0, <2>1, <2>4, RangeOf
    <3>3. CASE InRange
      BY <3>1, <3>2, <3>3, KeptAs
    <3>4. CASE ~InRange
      BY <3>1, <3>2, <3>4, KeptError
    <3> QED BY <3>3, <3>4
  <2>5. CASE ~dest.pointer /\ dest.kind = "uint"
    <3>1. scanned["column"] = IF i < 0 \/ (dest.size = "narrow" /\ i > 2^Narrow - 1) THEN Error ELSE Stored("uint", value.n)
      BY <2>2, <2>5 DEF ScanInteger
    <3>2. InRange <=> 0 <= i /\ i < 2^Bits(dest.size)
      BY <1>0, <2>1, <2>5, RangeOf
    <3>3. InRange <=> ~(i < 0 \/ (dest.size = "narrow" /\ i > 2^Narrow - 1))
      <4>1. CASE dest.size = "narrow"
        <5>1. Bits(dest.size) = Narrow
          BY <4>1 DEF Bits
        <5>2. 2^Narrow \in Nat
          BY ScanValuesAssumption, PowersGrow
        <5> QED BY <4>1, <5>1, <5>2, <3>2, <2>1
      <4>2. CASE dest.size = "wide"
        <5>1. Bits(dest.size) = Width
          BY <4>2 DEF Bits
        <5>2. 2^(Width - 1) \in Nat /\ 2^Width = 2 * 2^(Width - 1) /\ 1 <= 2^(Width - 1)
          BY <5>1, WidthsAre
        <5>3. MaxOf(Width) = 2^(Width - 1) - 1
          BY DEF MaxOf
        <5>4. i < 2^Width
          BY <5>2, <5>3, <2>1
        <5> QED BY <4>2, <5>1, <5>4, <3>2, <2>1
      <4> QED BY <1>0, <4>1, <4>2
    <3>4. CASE InRange
      BY <3>1, <3>3, <3>4, KeptAs
    <3>5. CASE ~InRange
      BY <3>1, <3>3, <3>5, KeptError
    <3> QED BY <3>4, <3>5
  <2>6. CASE ~dest.pointer /\ dest.kind = "bool"
    <3>1. scanned["column"] = Stored("bool", IF i # 0 THEN 2 ELSE 0)
      BY <2>2, <2>6 DEF ScanInteger
    <3>2. (IF i # 0 THEN 2 ELSE 0) = 2 <=> value.n # 0
      BY <2>1
    <3> QED BY <3>1, <3>2, KeptAs
  <2>7. CASE ~dest.pointer /\ dest.kind \in {"float", "string", "bytes", "time", "any"}
    <3>1. scanned["column"] \in {Stored("int64", value.n), Error}
      BY <2>2, <2>7 DEF ScanInteger
    <3> QED BY <3>1, <2>7, KeptAs, KeptError
  <2> QED BY <1>0, <2>3, <2>4, <2>5, <2>6, <2>7
<1>3. CASE value.kind = "float64"
  <2>1. scanned["column"] = ScanReal(dest, value)
    BY <1>3 DEF ScanColumn
  <2>2. scanned["column"] \in {Stored("float", Nearest(value.n, FloatsFor(dest.size))), Stored("float64", value.n), Error}
    BY <2>1 DEF ScanReal
  <2>3. Nearest(value.n, FloatsFor(dest.size)) \in Rounded(value.n)
    BY DEF Rounded
  <2> QED BY <2>2, <2>3, <1>3, KeptAs, KeptError
<1>4. CASE value.kind \in {"string", "bytes"}
  <2>1. scanned["column"] \in {Stored("text", value.n), Error}
    BY <1>4 DEF ScanColumn, Text
  <2> QED BY <2>1, <1>4, KeptAs, KeptError
<1> QED BY <1>0, <1>1, <1>2, <1>3, <1>4

-------------------------------------------------------------------------------
(* The inductive invariant: what is stored is what the three paths store.   *)
StoredBy(outcome, v, d) ==
  [path \in Paths(v) |-> CASE path = "scan" -> outcome [] path = "assign" -> ConvertAssign(d, v)
                           [] path = "column" -> ScanColumn(d, v)]

ScannedInv ==
  \/ value = NoValue
  \/ /\ value \in Values64 /\ dest \in Dests
     /\ scanned \in {StoredBy(outcome, value, dest) : outcome \in ScanDriverValue(dest, value)}

(* Of any driver's value, by any of the three paths and for integers and    *)
(* floats of any width: what is stored as an integer fits and is the        *)
(* driver's number, but for the two floats that Saturated names; what is    *)
(* stored as a float is the nearest one, so that a large integer is         *)
(* rounded, which scan.go:117 denies; no integer that fits is refused.      *)
THEOREM ScannedAreKeptOrRounded == ScanSpec => []KeptOrRounded
<1>1. ScanInit => ScannedInv
  BY DEF ScanInit, ScannedInv
<1>2. ScannedInv /\ [ScanNext]_scanVars => ScannedInv'
  <2> SUFFICES ASSUME ScannedInv, [ScanNext]_scanVars PROVE ScannedInv'
    OBVIOUS
  <2>1. ASSUME NEW v \in Values64, NEW d \in Dests, Scan(v, d) PROVE ScannedInv'
    <3>1. PICK outcome \in ScanDriverValue(d, v) : scanned' = StoredBy(outcome, v, d)
      BY <2>1 DEF Scan, StoredBy
    <3>2. value' = v /\ dest' = d
      BY <2>1 DEF Scan
    <3> QED BY <2>1, <3>1, <3>2 DEF ScannedInv
  <2>2. CASE NextValue
    BY <2>2 DEF NextValue, ScannedInv
  <2>3. CASE UNCHANGED scanVars
    <3>1. value' = value /\ dest' = dest /\ scanned' = scanned
      BY <2>3 DEF scanVars
    <3> QED BY <3>1 DEF ScannedInv
  <2> QED BY <2>1, <2>2, <2>3 DEF ScanNext
<1>3. ScannedInv => KeptOrRounded
  <2> SUFFICES ASSUME ScannedInv, value # NoValue, NEW path \in Paths(value) PROVE KeptBy(path) \/ Saturated(path)
    BY DEF KeptOrRounded
  <2>1. value \in Values64 /\ dest \in Dests
    BY DEF ScannedInv
  <2>2. PICK outcome \in ScanDriverValue(dest, value) : scanned = StoredBy(outcome, value, dest)
    BY DEF ScannedInv
  <2>3. DriverValue(value)
    BY <2>1, ValuesAre
  <2>4. CASE path = "scan"
    <3>1. scanned["scan"] = outcome
      BY <2>2, <2>4 DEF StoredBy
    <3> QED BY <3>1, <2>1, <2>3, <2>4, ScannedIsKept
  <2>5. CASE path = "assign"
    <3>1. scanned["assign"] = ConvertAssign(dest, value)
      BY <2>2, <2>5 DEF StoredBy
    <3> QED BY <3>1, <2>1, <2>3, <2>5, AssignedIsKept
  <2>6. CASE path = "column"
    <3>1. scanned["column"] = ScanColumn(dest, value) /\ value.kind \notin {"bool", "time"}
      BY <2>2, <2>6 DEF Paths, StoredBy
    <3> QED BY <3>1, <2>1, <2>3, <2>6, ColumnIsKept
  <2> QED BY <2>4, <2>5, <2>6 DEF Paths
<1> QED BY <1>1, <1>2, <1>3, PTL DEF ScanSpec

-------------------------------------------------------------------------------
(* Dialects.  A builder makes a statement of one of two shapes: an INSERT   *)
(* of one or two rows with some clause for conflicts, or a statement with   *)
(* placeholders in SET and WHERE whose numbers continue from one to the     *)
(* other.  For each shape: the arguments that Run binds are the values of   *)
(* the columns, in every dialect.                                           *)
Fields == {"kind", "cols", "vals", "set", "where", "on", "conflict"}

Place(s, c) == CHOOSE j \in DOMAIN s.cols : s.cols[j] = c

(* The placeholders get the arguments.                                      *)
LEMMA BindKeeps ==
  ASSUME NEW s, DOMAIN s = Fields, NEW args
  PROVE  LET b == Bind(s, args)
         IN b.kind = s.kind /\ b.cols = s.cols /\ b.on = s.on /\ b.conflict = s.conflict
BY DEF Bind, Fields

LEMMA BindVals ==
  ASSUME NEW s, DOMAIN s = Fields, NEW args
  PROVE  Bind(s, args).vals = [i \in DOMAIN s.vals |-> args[IF ByPlace THEN i ELSE s.vals[i]]]
BY DEF Bind, Fields

LEMMA BindSet ==
  ASSUME NEW s, DOMAIN s = Fields, NEW args
  PROVE  Bind(s, args).set
         = [i \in DOMAIN s.set |->
              <<s.set[i][1],
                IF s.set[i][2] = Proposed
                THEN args[IF ByPlace THEN Place(s, s.set[i][1]) ELSE s.vals[Place(s, s.set[i][1])]]
                ELSE args[IF ByPlace THEN Len(s.vals) + i ELSE s.set[i][2]]>>]
BY DEF Bind, Fields, Place

LEMMA BindWhere ==
  ASSUME NEW s, DOMAIN s = Fields, NEW args
  PROVE  Bind(s, args).where
         = [i \in DOMAIN s.where |->
              <<s.where[i][1],
                args[IF ByPlace THEN Len(s.vals) + Len(Numbered(s.set)) + i ELSE s.where[i][2]]>>]
BY DEF Bind, Fields

(* The largest number of placeholders that are numbered from 1. *)
LEMMA MaxIs == \A n \in Nat : Max(0..n) = n
<1> SUFFICES ASSUME NEW n \in Nat PROVE Max(0..n) = n
  OBVIOUS
<1>1. n \in 0..n /\ \A y \in 0..n : n >= y
  OBVIOUS
<1>2. \A x \in 0..n : (\A y \in 0..n : x >= y) => x = n
  OBVIOUS
<1> QED BY <1>1, <1>2 DEF Max

(* A statement with as many arguments as placeholders runs.                 *)
LEMMA RunIs ==
  ASSUME NEW s, DOMAIN s = Fields, NEW args, NEW n \in Nat, Len(args) = n,
         NEW p \in Seq(Nat), p = Placeholders(s), ByPlace => Len(p) = n,
         ~ByPlace => Range(p) \cup {0} = 0..n
  PROVE  /\ s.kind = "insert" => Run(s, args) = RunInsert(Bind(s, args))
         /\ s.kind = "update" => Run(s, args) = Updated(Where(Bind(s, args).where), Bind(s, args).set)
         /\ s.kind = "delete" => Run(s, args) = Done(table \ Where(Bind(s, args).where), Where(Bind(s, args).where))
         /\ s.kind = "select" => Run(s, args) = Done(table, Where(Bind(s, args).where))
<1>1. (IF ByPlace THEN Len(Placeholders(s)) ELSE Max(Range(Placeholders(s)) \cup {0})) = Len(args)
  <2>1. CASE ByPlace
    BY <2>1
  <2>2. CASE ~ByPlace
    <3>1. Range(p) \cup {0} = 0..n
      BY <2>2
    <3>2. Max(Range(Placeholders(s)) \cup {0}) = n
      BY <3>1, MaxIs
    <3> QED BY <2>2, <3>2
  <2> QED BY <2>1, <2>2
<1>2. Bind(s, args).kind = s.kind
  BY DEF Bind, Fields
<1> QED BY <1>1, <1>2 DEF Run

LEMMA AssignedIs ==
  ASSUME NEW r, NEW s, NEW values,
         \A i \in DOMAIN s : s[i][1] \in DOMAIN values /\ s[i][2] = values[s[i][1]],
         \A c \in DOMAIN r : c \in DOMAIN values => (\E i \in DOMAIN s : s[i][1] = c) \/ r[c] = values[c]
  PROVE  Assigned(r, s) = AssignedTo(r, values)
<1>1. \A e \in Range(s) : e[1] \in DOMAIN values /\ e[2] = values[e[1]]
  BY DEF Range
<1>2. ASSUME NEW c \in DOMAIN r
      PROVE  (IF \E e \in Range(s) : e[1] = c THEN (CHOOSE e \in Range(s) : e[1] = c)[2] ELSE r[c])
             = IF c \in DOMAIN values THEN values[c] ELSE r[c]
  <2>1. CASE \E e \in Range(s) : e[1] = c
    <3> DEFINE e == CHOOSE e \in Range(s) : e[1] = c
    <3>1. e \in Range(s) /\ e[1] = c
      BY <2>1
    <3> HIDE DEF e
    <3>2. c \in DOMAIN values /\ e[2] = values[c]
      BY <1>1, <3>1
    <3> QED BY <2>1, <3>2 DEF e
  <2>2. CASE ~\E e \in Range(s) : e[1] = c
    <3>1. ~\E i \in DOMAIN s : s[i][1] = c
      BY <2>2 DEF Range
    <3> QED BY <2>2, <3>1
  <2> QED BY <2>1, <2>2
<1> QED BY <1>2 DEF Assigned, AssignedTo

LEMMA WhereIs ==
  ASSUME NEW w, NEW values,
         \A i \in DOMAIN w : w[i][1] \in DOMAIN values /\ w[i][2] = values[w[i][1]],
         \A c \in DOMAIN values : \E i \in DOMAIN w : w[i][1] = c
  PROVE  Where(w) = Matching(values)
<1>1. ASSUME NEW r
      PROVE  (\A e \in Range(w) : r[e[1]] = e[2] /\ e[2] # Null) <=> (\A c \in DOMAIN values : r[c] = values[c] /\ r[c] # Null)
  <2>1. (\A e \in Range(w) : r[e[1]] = e[2] /\ e[2] # Null) <=> (\A i \in DOMAIN w : r[w[i][1]] = w[i][2] /\ w[i][2] # Null)
    BY DEF Range
  <2> QED BY <2>1
<1> QED BY <1>1 DEF Where, Matching

LEMMA UpdatedIs ==
  ASSUME NEW old, NEW s, NEW values,
         \A i \in DOMAIN s : s[i][1] \in DOMAIN values /\ s[i][2] = values[s[i][1]],
         \A r \in old : \A c \in DOMAIN r :
           c \in DOMAIN values => (\E i \in DOMAIN s : s[i][1] = c) \/ r[c] = values[c]
  PROVE  Updated(old, s) = Changed(old, values)
<1>1. \A r \in old : Assigned(r, s) = AssignedTo(r, values)
  BY AssignedIs
<1>2. {Assigned(r, s) : r \in old} = {AssignedTo(r, values) : r \in old}
  BY <1>1
<1> QED BY <1>2 DEF Updated, Changed

LEMMA DivisionByItself == \A n \in Nat \ {0} : (1 * n) \div n = 1 /\ (2 * n) \div n = 2
OBVIOUS

(* The shape of an INSERT of k rows, its clause for conflicts aside, and of *)
(* what such a clause sets: each column to its own value.                   *)
Inserts(s, cols, k) ==
  /\ DOMAIN s = Fields /\ s.kind = "insert" /\ s.cols = cols /\ s.where = <<>>
  /\ s.vals = [i \in 1..k * Len(cols) |-> i]

SetsOwn(s, A, cols) ==
  /\ s.set \in Seq(A \X {Proposed}) \/ (~ByPlace /\ s.set \in Seq(A \X (1..Len(cols))))
  /\ \A i \in DOMAIN s.set : /\ s.set[i][1] \in Range(cols)
                             /\ s.set[i][2] # Proposed => cols[s.set[i][2]] = s.set[i][1]

(* Insert: the values of one row or two, and of the columns an upsert sets. *)
LEMMA InsertRuns ==
  ASSUME NEW A, NEW cols \in Seq(A), cols # <<>>, NEW k \in {1, 2},
         NEW args, DOMAIN args = 1..k * Len(cols), Len(args) = k * Len(cols),
         NEW s, Inserts(s, cols, k), SetsOwn(s, A, cols)
  PROVE  Run(s, args) = RunInsert(Bind(s, args))
<1> /\ DOMAIN s = Fields /\ s.kind = "insert" /\ s.cols = cols /\ s.where = <<>>
    /\ s.vals = [i \in 1..k * Len(cols) |-> i]
  BY DEF Inserts
<1> s.set \in Seq(A \X {Proposed}) \/ (~ByPlace /\ s.set \in Seq(A \X (1..Len(cols))))
  BY DEF SetsOwn
<1> DEFINE n == k * Len(cols)
           second(pairs) == [i \in DOMAIN pairs |-> pairs[i][2]]
           q == second(Numbered(s.set))
           p == Placeholders(s)
<1>1. Len(cols) \in Nat /\ n \in Nat /\ Len(cols) <= n
  <2>1. Len(cols) \in Nat
    OBVIOUS
  <2> DEFINE len == Len(cols)
  <2>2. len \in Nat
    BY <2>1
  <2> HIDE DEF len
  <2>3. k * len \in Nat /\ len <= k * len
    BY <2>2
  <2> QED BY <2>2, <2>3 DEF len
<1>2. q \in Seq(1..n) /\ (ByPlace => q = <<>>)
  <2>1. CASE s.set \in Seq(A \X {Proposed})
    <3>1. Numbered(s.set) = <<>>
      <4>1. \A i \in 1..Len(s.set) : s.set[i] \notin {e \in Range(s.set) : e[2] # Proposed}
        BY <2>1
      <4> QED BY <2>1, <4>1, NoneSelected DEF Numbered
    <3>2. q = <<>>
      BY <3>1
    <3> HIDE DEF q
    <3> QED BY <3>2
  <2>2. CASE ~ByPlace /\ s.set \in Seq(A \X (1..Len(cols)))
    <3>1. Numbered(s.set) \in Seq((A \X (1..Len(cols))) \cap {e \in Range(s.set) : e[2] # Proposed})
      BY <2>2, SelectedIsASequence DEF Numbered
    <3> DEFINE u == Numbered(s.set)
    <3>2. u \in Seq(A \X (1..Len(cols)))
      <4>1. (A \X (1..Len(cols))) \cap {e \in Range(s.set) : e[2] # Proposed} \subseteq A \X (1..Len(cols))
        OBVIOUS
      <4> QED BY <3>1, <4>1
    <3>3. q = [i \in DOMAIN u |-> u[i][2]]
      OBVIOUS
    <3> HIDE DEF u, q, n
    <3>4. \A i \in 1..Len(u) : u[i][2] \in 1..n
      BY <3>2, <1>1
    <3>5. DOMAIN u = 1..Len(u) /\ Len(u) \in Nat
      BY <3>2
    <3> QED BY <2>2, <3>3, <3>4, <3>5
  <2> QED BY <2>1, <2>2
<1>3. p = s.vals \o q \o <<>>
  <2>1. second(s.where) = <<>>
    <3> DEFINE e == s.where
    <3>1. e = <<>>
      OBVIOUS
    <3> HIDE DEF e
    <3>2. [i \in DOMAIN e |-> e[i][2]] = <<>>
      BY <3>1
    <3> QED BY <3>2 DEF e
  <2>2. p = s.vals \o q \o second(s.where)
    BY DEF Placeholders
  <2> QED BY <2>1, <2>2
<1>4. s.vals \in Seq(1..n) /\ Len(s.vals) = n
  BY <1>1
<1>5. p = s.vals \o q
  <2> HIDE DEF q, n, p
  <2>1. s.vals \o q \in Seq(1..n)
    BY <1>2, <1>4, ConcatProperties
  <2> QED BY <1>3, <2>1, ConcatEmptySeq
<1>6. p \in Seq(Nat) /\ (ByPlace => Len(p) = n) /\ (Range(p) \cup {0} = 0..n)
  <2> DEFINE vals == s.vals
  <2>1. /\ q \in Seq(1..n) /\ (ByPlace => q = <<>>) /\ p = vals \o q /\ vals \in Seq(1..n) /\ Len(vals) = n
        /\ \A i \in 1..n : vals[i] = i
    <3>1. \A i \in 1..n : vals[i] = i
      OBVIOUS
    <3> HIDE DEF q, p, vals, n
    <3> QED BY <1>2, <1>4, <1>5, <3>1 DEF vals
  <2> HIDE DEF vals, q, p, n
  <2>2. p \in Seq(1..n) /\ \A i \in 1..n : p[i] = i
    <3>1. p \in Seq(1..n)
      BY <2>1, ConcatProperties
    <3>2. ASSUME NEW i \in 1..n PROVE p[i] = i
      <4>1. i \in 1..Len(vals) + Len(q) /\ i <= Len(vals)
        BY <2>1, <1>1
      <4>2. p[i] = vals[i]
        BY <2>1, <4>1, ConcatProperties
      <4> QED BY <2>1, <4>2
    <3> QED BY <3>1, <3>2
  <2>3. Len(p) \in Nat /\ DOMAIN p = 1..Len(p) /\ n <= Len(p)
    BY <2>1, <2>2, <1>1
  <2>4. Range(p) \cup {0} = 0..n
    <3>1. ASSUME NEW x \in Range(p) PROVE x \in 1..n
      <4>1. PICK j \in DOMAIN p : x = p[j]
        BY <3>1 DEF Range
      <4>2. p \in [1..Len(p) -> 1..n]
        BY <2>2, LenProperties
      <4> QED BY <4>1, <4>2
    <3>2. \A x \in 1..n : x \in Range(p)
      <4> SUFFICES ASSUME NEW x \in 1..n PROVE x \in Range(p)
        OBVIOUS
      <4>1. p[x] = x /\ x \in DOMAIN p
        BY <2>2, <2>3, <1>1
      <4> QED BY <4>1 DEF Range
    <3> QED BY <3>1, <3>2, <1>1
  <2>5. ByPlace => Len(p) = n
    BY <2>1, <1>1
  <2>6. p \in Seq(Nat)
    BY <2>2, <1>1
  <2> QED BY <2>4, <2>5, <2>6
<1> HIDE DEF p, n, q
<1>7. Len(args) = n /\ p = Placeholders(s)
  BY DEF n, p
<1> QED BY <1>1, <1>6, <1>7, RunIs, ZenonT(40)

LEMMA NewRowIs ==
  ASSUME NEW A, NEW cols \in Seq(A), NEW values, DOMAIN values = Range(cols),
         NEW pairs, DOMAIN pairs = 1..Len(cols),
         \A i \in 1..Len(cols) : pairs[i] = <<cols[i], values[cols[i]]>>
  PROVE  NewRow(pairs) = RowOf(values)
<1>1. \A i \in DOMAIN pairs : pairs[i][1] \in DOMAIN values /\ pairs[i][2] = values[pairs[i][1]]
  <2>1. \A i \in 1..Len(cols) : cols[i] \in Range(cols)
    BY DEF Range
  <2> QED BY <2>1
<1>2. ASSUME NEW c \in DOMAIN values PROVE \E i \in DOMAIN pairs : pairs[i][1] = c
  <2>1. PICK i \in DOMAIN cols : c = cols[i]
    BY <1>2 DEF Range
  <2> QED BY <2>1
<1> DEFINE r == [c \in Range(Columns) |-> Null]
<1>3. \A c \in DOMAIN r : c \in DOMAIN values => (\E i \in DOMAIN pairs : pairs[i][1] = c) \/ r[c] = values[c]
  BY <1>2
<1> HIDE DEF r
<1>4. Assigned(r, pairs) = AssignedTo(r, values)
  BY <1>1, <1>3, AssignedIs
<1> QED BY <1>4 DEF r, NewRow, RowOf

(* The rows of an INSERT, one or two.                                       *)
HasRow(b, cols, values) ==
  /\ DOMAIN values = Range(cols) /\ b.cols = cols /\ Len(b.vals) = 1 * Len(cols)
  /\ \A i \in 1..Len(cols) : b.vals[i] = values[cols[i]]

HasRows(b, cols, first, second) ==
  /\ DOMAIN first = Range(cols) /\ DOMAIN second = Range(cols)
  /\ b.cols = cols /\ Len(b.vals) = 2 * Len(cols)
  /\ \A i \in 1..Len(cols) : b.vals[i] = first[cols[i]] /\ b.vals[Len(cols) + i] = second[cols[i]]

LEMMA NewRowsOfOne ==
  ASSUME NEW A, NEW cols \in Seq(A), cols # <<>>, NEW values, NEW b, HasRow(b, cols, values)
  PROVE  NewRows(b) = {RowOf(values)} /\ Len(b.vals) \div Len(b.cols) = 1
<1> /\ DOMAIN values = Range(cols) /\ b.cols = cols /\ Len(b.vals) = 1 * Len(cols)
    /\ \A i \in 1..Len(cols) : b.vals[i] = values[cols[i]]
  BY DEF HasRow
<1> DEFINE n == Len(cols)
           rowOf(row) == NewRow([i \in 1..n |-> <<b.cols[i], b.vals[n * row + i]>>])
<1>1. n \in Nat \ {0}
  BY EmptySeq
<1>2. Len(b.vals) \div n = 1 /\ Len(b.cols) = n
  <2>1. Len(b.vals) \div n = (1 * n) \div n
    OBVIOUS
  <2> QED BY <2>1, <1>1, DivisionByItself
<1>3. NewRows(b) = {rowOf(row) : row \in 0..Len(b.vals) \div n - 1}
  BY DEF NewRows
<1>4. NewRows(b) = {rowOf(0)}
  <2> HIDE DEF rowOf
  <2>1. 0..1 - 1 = {0}
    OBVIOUS
  <2>2. 0..Len(b.vals) \div n - 1 = {0}
    BY <1>2, <2>1
  <2> HIDE DEF n
  <2> QED BY <1>3, <2>2
<1> DEFINE pairs == [i \in 1..n |-> <<b.cols[i], b.vals[n * 0 + i]>>]
<1>5. rowOf(0) = NewRow(pairs)
  OBVIOUS
<1>6. DOMAIN pairs = 1..Len(cols) /\ \A i \in 1..Len(cols) : pairs[i] = <<cols[i], values[cols[i]]>>
  <2>1. \A i \in 1..n : n * 0 + i = i
    BY <1>1
  <2> QED BY <2>1
<1> HIDE DEF rowOf, pairs, n
<1>7. NewRow(pairs) = RowOf(values)
  BY <1>6, NewRowIs
<1> QED BY <1>2, <1>4, <1>5, <1>7

LEMMA NewRowsOfTwo ==
  ASSUME NEW A, NEW cols \in Seq(A), cols # <<>>, NEW first, NEW second, NEW b,
         HasRows(b, cols, first, second)
  PROVE  NewRows(b) = {RowOf(first), RowOf(second)} /\ Len(b.vals) \div Len(b.cols) = 2
<1> /\ DOMAIN first = Range(cols) /\ DOMAIN second = Range(cols)
    /\ b.cols = cols /\ Len(b.vals) = 2 * Len(cols)
    /\ \A i \in 1..Len(cols) : b.vals[i] = first[cols[i]] /\ b.vals[Len(cols) + i] = second[cols[i]]
  BY DEF HasRows
<1> DEFINE n == Len(cols)
           rowOf(row) == NewRow([i \in 1..n |-> <<b.cols[i], b.vals[n * row + i]>>])
<1>1. n \in Nat \ {0}
  BY EmptySeq
<1>2. Len(b.vals) \div n = 2 /\ Len(b.cols) = n
  <2>1. Len(b.vals) \div n = (2 * n) \div n
    OBVIOUS
  <2> QED BY <2>1, <1>1, DivisionByItself
<1>3. NewRows(b) = {rowOf(row) : row \in 0..Len(b.vals) \div n - 1}
  BY DEF NewRows
<1>4. NewRows(b) = {rowOf(0), rowOf(1)}
  <2> HIDE DEF rowOf
  <2>1. 0..2 - 1 = {0, 1}
    OBVIOUS
  <2>2. 0..Len(b.vals) \div n - 1 = {0, 1}
    BY <1>2, <2>1
  <2> HIDE DEF n
  <2> QED BY <1>3, <2>2
<1> DEFINE pairs == [i \in 1..n |-> <<b.cols[i], b.vals[n * 0 + i]>>]
           others == [i \in 1..n |-> <<b.cols[i], b.vals[n * 1 + i]>>]
<1>5. rowOf(0) = NewRow(pairs) /\ rowOf(1) = NewRow(others)
  OBVIOUS
<1>6. DOMAIN pairs = 1..Len(cols) /\ \A i \in 1..Len(cols) : pairs[i] = <<cols[i], first[cols[i]]>>
  <2>1. \A i \in 1..n : n * 0 + i = i
    BY <1>1
  <2> QED BY <2>1
<1>7. DOMAIN others = 1..Len(cols) /\ \A i \in 1..Len(cols) : others[i] = <<cols[i], second[cols[i]]>>
  <2>1. \A i \in 1..n : n * 1 + i = n + i
    BY <1>1
  <2> QED BY <2>1
<1> HIDE DEF rowOf, pairs, others, n
<1>8. NewRow(pairs) = RowOf(first)
  BY <1>6, NewRowIs
<1>9. NewRow(others) = RowOf(second)
  BY <1>7, NewRowIs
<1> QED BY <1>2, <1>4, <1>5, <1>8, <1>9

-------------------------------------------------------------------------------
(* The columns of calls.                                                    *)
LEMMA ColumnsAre == Columns \in Seq(Range(Columns)) /\ IsFiniteSet(Range(Columns))
<1>1. Columns \in Seq(Range(Columns))
  BY DialectsAssumption
<1>2. IsFiniteSet(1..Len(Columns))
  BY <1>1, FS_Interval
<1>3. Columns \in Surjection(1..Len(Columns), Range(Columns))
  <2>1. Columns \in [1..Len(Columns) -> Range(Columns)]
    BY <1>1
  <2> QED BY <2>1 DEF Surjection, Range
<1>4. IsFiniteSet(Range(Columns))
  BY <1>2, <1>3, FS_Surjection
<1> QED BY <1>1, <1>4

LEMMA SetToSeqsAre ==
  ASSUME NEW S, IsFiniteSet(S), NEW s \in SetToSeqs(S)
  PROVE  s \in Seq(S) /\ Range(s) = S
<1> DEFINE m == Cardinality(S)
<1>1. m \in Nat
  BY FS_CardinalityType
<1>2. s \in [1..m -> S] /\ \A i, j \in 1..m : i # j => s[i] # s[j]
  BY DEF SetToSeqs
<1> HIDE DEF m
<1>3. s \in Seq(S)
  BY <1>1, <1>2
<1>4. Range(s) \subseteq S /\ DOMAIN s = 1..m
  BY <1>2 DEF Range
<1>5. IsFiniteSet(1..m) /\ Cardinality(1..m) = m
  BY <1>1, FS_Interval
<1>6. s \in Surjection(1..m, Range(s)) /\ s \in Injection(1..m, Range(s))
  <2>1. s \in [1..m -> Range(s)]
    BY <1>2, <1>4 DEF Range
  <2>2. \A y \in Range(s) : \E x \in 1..m : s[x] = y
    BY <1>4 DEF Range
  <2>3. \A a, b \in 1..m : s[a] = s[b] => a = b
    BY <1>2
  <2> QED BY <2>1, <2>2, <2>3 DEF Injection, Surjection, IsInjective
<1>7. Cardinality(Range(s)) = m
  BY <1>5, <1>6, FS_Surjection
<1>8. Range(s) = S
  BY <1>4, <1>7, FS_Subset DEF m
<1> QED BY <1>3, <1>8

LEMMA OrdersAre ==
  ASSUME NEW cols \in Orders
  PROVE  cols \in Seq(Range(Columns)) /\ Range(cols) = Range(Columns)
<1>1. CASE cols = Columns
  BY <1>1, ColumnsAre
<1>2. CASE cols = Reverse(Columns)
  <2>1. Len(Columns) \in Nat /\ DOMAIN Columns = 1..Len(Columns) /\ \A i \in 1..Len(Columns) : Columns[i] \in Range(Columns)
    BY ColumnsAre
  <2>2. cols = [i \in 1..Len(Columns) |-> Columns[(Len(Columns) - i) + 1]]
    BY <1>2 DEF Reverse
  <2>3. \A i \in 1..Len(Columns) : (Len(Columns) - i) + 1 \in 1..Len(Columns) /\ (Len(Columns) - ((Len(Columns) - i) + 1)) + 1 = i
    BY <2>1
  <2>4. cols \in Seq(Range(Columns))
    BY <2>1, <2>2, <2>3
  <2>5. Range(cols) = Range(Columns)
    <3>1. \A i \in 1..Len(Columns) : Columns[i] = cols[(Len(Columns) - i) + 1]
      BY <2>2, <2>3
    <3>2. \A i \in 1..Len(Columns) : cols[i] = Columns[(Len(Columns) - i) + 1]
      BY <2>2
    <3>3. DOMAIN cols = 1..Len(Columns)
      BY <2>2
    <3>4. Range(cols) \subseteq Range(Columns)
      BY <2>1, <2>3, <3>2, <3>3 DEF Range
    <3>5. ASSUME NEW x \in Range(Columns) PROVE x \in Range(cols)
      <4>1. PICK i \in 1..Len(Columns) : x = Columns[i]
        BY <2>1 DEF Range
      <4>2. (Len(Columns) - i) + 1 \in DOMAIN cols
        BY <2>3, <3>3
      <4> QED BY <4>1, <4>2, <3>1 DEF Range
    <3> QED BY <3>4, <3>5
  <2> QED BY <2>4, <2>5
<1> QED BY <1>1, <1>2 DEF Orders

LEMMA KeysAre ==
  ASSUME keys \in Keys
  PROVE  /\ keys.pk \subseteq Range(Columns) /\ keys.pk # {} /\ keys.other \subseteq Range(Columns)
         /\ IsFiniteSet(keys.pk) /\ IsFiniteSet(keys.other)
BY DialectsAssumption, ColumnsAre, FS_Subset

LEMMA KeyOrdersAre ==
  ASSUME keys \in Keys, NEW cols \in KeyOrders
  PROVE  cols \in Seq(Range(Columns)) /\ (Range(cols) = Range(Columns) \/ Range(cols) = keys.pk)
<1>1. CASE cols \in Orders
  BY <1>1, OrdersAre
<1>2. CASE cols \in SetToSeqs(keys.pk)
  <2>1. cols \in Seq(keys.pk) /\ Range(cols) = keys.pk
    BY <1>2, KeysAre, SetToSeqsAre
  <2>2. cols \in Seq(Range(Columns))
    BY <2>1, KeysAre
  <2> QED BY <2>1, <2>2
<1> QED BY <1>1, <1>2 DEF KeyOrders

LEMMA InsertBound ==
  ASSUME NEW cols, NEW k \in Nat, Len(cols) \in Nat, NEW args, NEW s, Inserts(s, cols, k)
  PROVE  LET b == Bind(s, args)
         IN /\ b.cols = cols /\ b.on = s.on /\ b.conflict = s.conflict
            /\ b.vals = [i \in 1..k * Len(cols) |-> args[i]]
<1> DEFINE b == Bind(s, args)
           n == k * Len(cols)
<1>1. DOMAIN s = Fields
  BY DEF Inserts
<1>2. b.cols = s.cols /\ b.on = s.on /\ b.conflict = s.conflict
  BY <1>1, BindKeeps
<1>7. b.vals = [i \in DOMAIN s.vals |-> args[IF ByPlace THEN i ELSE s.vals[i]]]
  BY <1>1, BindVals
<1>3. s.cols = cols /\ s.vals = [i \in 1..n |-> i]
  BY DEF Inserts
<1> HIDE DEF b, n
<1>4. DOMAIN s.vals = 1..n /\ \A i \in 1..n : s.vals[i] = i
  BY <1>3
<1>5. \A i \in 1..n : args[IF ByPlace THEN i ELSE s.vals[i]] = args[i]
  BY <1>4
<1>6. b.vals = [i \in 1..n |-> args[i]]
  BY <1>4, <1>5, <1>7
<1> QED BY <1>2, <1>3, <1>6 DEF b, n

LEMMA SetBound ==
  ASSUME NEW A, NEW cols \in Seq(A), NEW args, NEW values,
         \A i \in 1..Len(cols) : args[i] = values[cols[i]],
         NEW s, Inserts(s, cols, 1), SetsOwn(s, A, cols)
  PROVE  LET set == Bind(s, args).set
         IN /\ DOMAIN set = DOMAIN s.set
            /\ \A i \in DOMAIN set : set[i] = <<s.set[i][1], values[s.set[i][1]]>>
<1> DEFINE set == Bind(s, args).set
           v == Len(s.vals)
<1>1. DOMAIN s = Fields
  BY DEF Inserts
<1>2. set = [i \in DOMAIN s.set |->
               <<s.set[i][1],
                 IF s.set[i][2] = Proposed
                 THEN args[IF ByPlace THEN Place(s, s.set[i][1]) ELSE s.vals[Place(s, s.set[i][1])]]
                 ELSE args[IF ByPlace THEN v + i ELSE s.set[i][2]]>>]
  BY <1>1, BindSet
<1>3. /\ Len(cols) \in Nat /\ DOMAIN cols = 1..Len(cols) /\ s.cols = cols
      /\ \A i \in 1..Len(cols) : s.vals[i] = i
  <2>1. Len(cols) \in Nat /\ 1 * Len(cols) = Len(cols)
    OBVIOUS
  <2> QED BY <2>1 DEF Inserts
<1> HIDE DEF set, v
<1>4. DOMAIN set = DOMAIN s.set
  BY <1>2
<1>5. ASSUME NEW i \in DOMAIN set PROVE set[i] = <<s.set[i][1], values[s.set[i][1]]>>
  <2> DEFINE c == s.set[i][1]
             j == Place(s, c)
  <2>1. i \in DOMAIN s.set /\ c \in Range(cols)
    BY <1>4 DEF SetsOwn
  <2>2. CASE s.set[i][2] = Proposed
    <3>1. \E k \in DOMAIN s.cols : s.cols[k] = c
      BY <1>3, <2>1 DEF Range
    <3>2. j \in 1..Len(cols) /\ cols[j] = c
      BY <1>3, <3>1 DEF Place
    <3>3. set[i] = <<c, args[IF ByPlace THEN j ELSE s.vals[j]]>>
      BY <1>2, <2>1, <2>2
    <3> HIDE DEF j, c
    <3>4. args[IF ByPlace THEN j ELSE s.vals[j]] = values[c]
      BY <1>3, <3>2
    <3> QED BY <3>3, <3>4 DEF c
  <2>3. CASE s.set[i][2] # Proposed
    <3> DEFINE m == s.set[i][2]
    <3>1. ~ByPlace /\ m \in 1..Len(cols)
      <4>1. CASE s.set \in Seq(A \X {Proposed})
        <5>1. s.set[i] \in A \X {Proposed}
          BY <2>1, <4>1
        <5> QED BY <2>3, <5>1
      <4>2. CASE ~ByPlace /\ s.set \in Seq(A \X (1..Len(cols)))
        <5>1. s.set[i] \in A \X (1..Len(cols))
          BY <2>1, <4>2
        <5> QED BY <4>2, <5>1
      <4> QED BY <4>1, <4>2 DEF SetsOwn
    <3>2. set[i] = <<c, args[m]>>
      BY <1>2, <2>1, <2>3, <3>1
    <3>3. cols[m] = c
      BY <2>1, <2>3 DEF SetsOwn
    <3> HIDE DEF m, c
    <3>4. args[m] = values[c]
      BY <3>1, <3>3
    <3> QED BY <3>2, <3>4 DEF c
  <2> QED BY <2>2, <2>3
<1> QED BY <1>4, <1>5 DEF set

(* An INSERT of one row, whatever its clause for conflicts.                 *)
LEMMA InsertOne ==
  ASSUME NEW A, NEW cols \in Seq(A), cols # <<>>, NEW values, DOMAIN values = Range(cols),
         NEW s, Inserts(s, cols, 1), SetsOwn(s, A, cols)
  PROVE  \E set : /\ DOMAIN set = DOMAIN s.set
                  /\ \A i \in DOMAIN set : set[i] = <<s.set[i][1], values[s.set[i][1]]>>
                  /\ Run(s, ValuesOf(cols, values))
                     = LET found == Found(s, RowOf(values))
                       IN IF s.conflict = "error" \/ found = {} \/ ~HasKey(RowOf(values))
                          THEN Replaced({}, {RowOf(values)}, 1)
                          ELSE IF s.conflict = "nothing" THEN Done(table, {}) ELSE Updated(found, set)
<1> DEFINE args == ValuesOf(cols, values)
           b == Bind(s, args)
           r == RowOf(values)
           set == b.set
<1>1. Len(cols) \in Nat /\ DOMAIN cols = 1..Len(cols) /\ 1 * Len(cols) = Len(cols)
  OBVIOUS
<1>2. DOMAIN args = 1..1 * Len(cols) /\ Len(args) = 1 * Len(cols) /\ \A i \in 1..Len(cols) : args[i] = values[cols[i]]
  <2>1. args = [i \in 1..Len(cols) |-> values[cols[i]]]
    BY <1>1 DEF ValuesOf
  <2> HIDE DEF args
  <2>2. DOMAIN args = 1..Len(cols) /\ \A i \in 1..Len(cols) : args[i] = values[cols[i]]
    BY <2>1
  <2>3. Len(args) = Len(cols)
    <3> DEFINE n == Len(cols)
    <3>1. n \in Nat /\ DOMAIN args = 1..n /\ args = [i \in 1..n |-> values[cols[i]]]
      BY <1>1, <2>1
    <3> HIDE DEF n
    <3>2. Len(args) = n
      BY <3>1
    <3> QED BY <3>2 DEF n
  <2> QED BY <1>1, <2>2, <2>3
<1> HIDE DEF args
<1>3. Run(s, args) = RunInsert(b)
  BY <1>2, InsertRuns
<1>4. b.cols = cols /\ b.on = s.on /\ b.conflict = s.conflict /\ b.vals = [i \in 1..1 * Len(cols) |-> args[i]]
  BY <1>1, InsertBound
<1>5. DOMAIN set = DOMAIN s.set /\ \A i \in DOMAIN set : set[i] = <<s.set[i][1], values[s.set[i][1]]>>
  BY <1>2, SetBound
<1> HIDE DEF b
<1>6. Len(b.vals) = 1 * Len(cols) /\ \A i \in 1..Len(cols) : b.vals[i] = values[cols[i]]
  BY <1>1, <1>2, <1>4
<1>7. NewRows(b) = {r} /\ Len(b.vals) \div Len(b.cols) = 1
  <2>1. b.cols = cols
    BY <1>4
  <2>2. Len(b.vals) = 1 * Len(cols)
    BY <1>6
  <2>3. \A i \in 1..Len(cols) : b.vals[i] = values[cols[i]]
    BY <1>6
  <2> HIDE DEF r, args, set
  <2>4. HasRow(b, cols, values)
    BY <2>1, <2>2, <2>3 DEF HasRow
  <2>5. NewRows(b) = {RowOf(values)} /\ Len(b.vals) \div Len(b.cols) = 1
    BY <2>4, NewRowsOfOne
  <2> QED BY <2>5 DEF r
<1>8. Found(b, r) = Found(s, r)
  BY <1>4 DEF Found
<1>9. (CHOOSE x \in NewRows(b) : TRUE) = r /\ ((\E x \in NewRows(b) : ~HasKey(x)) <=> ~HasKey(r))
  BY <1>7
<1> HIDE DEF r, set
<1>10. RunInsert(b) = IF s.conflict = "error" \/ Found(s, r) = {} \/ ~HasKey(r)
                      THEN Replaced({}, {r}, 1)
                      ELSE IF s.conflict = "nothing" THEN Done(table, {}) ELSE Updated(Found(s, r), b.set)
  BY <1>4, <1>7, <1>8, <1>9 DEF RunInsert
<1>11. Run(s, args) = IF s.conflict = "error" \/ Found(s, r) = {} \/ ~HasKey(r)
                      THEN Replaced({}, {r}, 1)
                      ELSE IF s.conflict = "nothing" THEN Done(table, {}) ELSE Updated(Found(s, r), set)
  BY <1>3, <1>10 DEF set
<1> QED BY <1>5, <1>11 DEF r, args

(* The shape of a statement with placeholders in SET and WHERE, whose       *)
(* numbers continue from one to the other.                                  *)
Numbers(s, set, where, m, o) ==
  /\ DOMAIN s = Fields /\ s.vals = <<>>
  /\ s.set = [i \in DOMAIN set |-> <<set[i], m + i>>]
  /\ s.where = [i \in DOMAIN where |-> <<where[i], o + i>>]

Continue(set, where, m, o) == (m = 0 /\ o = Len(set)) \/ (m = Len(where) /\ o = 0)

Gets(cols, args, place, number) ==
  [i \in DOMAIN cols |-> <<cols[i], args[IF ByPlace THEN place + i ELSE number + i]>>]

LEMMA FromZero ==
  ASSUME NEW n \in Nat, NEW R, \A x \in R : x \in 0..n, \A x \in 1..n : x \in R
  PROVE  R \cup {0} = 0..n
OBVIOUS

CountsOn(p, k, l, m, o) ==
  /\ (m = 0 /\ o = k) \/ (m = l /\ o = 0)
  /\ p = (<<>> \o [i \in 1..k |-> m + i]) \o [i \in 1..l |-> o + i]

LEMMA NumbersFromOne ==
  ASSUME NEW k \in Nat, NEW l \in Nat, NEW m \in Nat, NEW o \in Nat,
         NEW p, CountsOn(p, k, l, m, o)
  PROVE  p \in Seq(Nat) /\ Len(p) = k + l /\ Range(p) \cup {0} = 0..k + l
<1> DEFINE first == [i \in 1..k |-> m + i]
           rest == [i \in 1..l |-> o + i]
<1> (m = 0 /\ o = k) \/ (m = l /\ o = 0)
  BY DEF CountsOn
<1> p = (<<>> \o first) \o rest
  BY DEF CountsOn
<1> DEFINE n == k + l
<1>1. first \in Seq(Nat) /\ rest \in Seq(Nat) /\ Len(first) = k /\ Len(rest) = l
  OBVIOUS
<1>2. p = first \o rest
  BY <1>1, ConcatEmptySeq
<1>3. p \in Seq(Nat) /\ Len(p) = n /\ DOMAIN p = 1..n
  BY <1>1, <1>2
<1>4. \A i \in 1..n : p[i] = IF i <= k THEN m + i ELSE o + (i - k)
  BY <1>1, <1>2
<1>5. n \in Nat /\ n = k + l
  OBVIOUS
<1> HIDE DEF n
<1>6. \A x \in Range(p) : x \in 0..n
  <2>1. \A i \in 1..n : p[i] \in 0..n
    BY <1>4, <1>5, SMTT(30)
  <2> QED BY <1>3, <2>1 DEF Range
<1>7. ASSUME NEW x \in 1..n PROVE x \in Range(p)
  <2>1. \E i \in 1..n : p[i] = x
    <3>1. CASE m = 0 /\ o = k
      <4>1. p[x] = x
        BY <1>4, <1>5, <3>1
      <4> QED BY <4>1
    <3>2. CASE m = l /\ o = 0
      <4>1. CASE x <= l
        <5>1. k + x \in 1..n /\ p[k + x] = x
          <6>1. k + x \in 1..n /\ ~(k + x <= k) /\ 0 + ((k + x) - k) = x
            BY <1>5, <4>1
          <6> QED BY <1>4, <3>2, <6>1
        <5> QED BY <5>1
      <4>2. CASE x > l
        <5>1. x - l \in 1..n /\ p[x - l] = x
          <6>1. x - l \in 1..n /\ x - l <= k /\ l + (x - l) = x
            BY <1>5, <4>2
          <6> QED BY <1>4, <3>2, <6>1
        <5> QED BY <5>1
      <4>3. x <= l \/ x > l
        BY <1>5
      <4> QED BY <4>1, <4>2, <4>3, Zenon
    <3> QED BY <3>1, <3>2
  <2> QED BY <1>3, <2>1 DEF Range
<1>8. Range(p) \cup {0} = 0..n
  BY <1>5, <1>6, <1>7, FromZero
<1> QED BY <1>3, <1>8 DEF n

LEMMA NumberedSet ==
  ASSUME NEW A, NEW set \in Seq(A), NEW m \in Nat, NEW pairs, pairs = [i \in DOMAIN set |-> <<set[i], m + i>>]
  PROVE  Numbered(pairs) = pairs
<1>1. Len(set) \in Nat /\ DOMAIN set = 1..Len(set)
  OBVIOUS
<1>2. DOMAIN pairs = 1..Len(set) /\ \A i \in 1..Len(set) : pairs[i] = <<set[i], m + i>> /\ m + i \in Nat \ {0} /\ set[i] \in A
  BY <1>1
<1>3. pairs \in Seq(A \X Nat) /\ Len(pairs) = Len(set)
  BY <1>1, <1>2
<1>4. \A i \in 1..Len(pairs) : pairs[i][2] # Proposed /\ pairs[i] \in Range(pairs)
  BY <1>2, <1>3 DEF Range, Proposed
<1>5. Selected(pairs, {e \in Range(pairs) : e[2] # Proposed}) = pairs
  BY <1>3, <1>4, AllSelected
<1> QED BY <1>5 DEF Numbered

Called(s, args, A, set, where, m, o) ==
  /\ set \in Seq(A) /\ where \in Seq(A) /\ m \in Nat /\ o \in Nat
  /\ Continue(set, where, m, o) /\ Numbers(s, set, where, m, o)
  /\ Len(args) = Len(set) + Len(where)

Does(s, args, sets, tests) ==
  /\ s.kind = "update" => Run(s, args) = Updated(Where(tests), sets)
  /\ s.kind = "delete" => Run(s, args) = Done(table \ Where(tests), Where(tests))
  /\ s.kind = "select" => Run(s, args) = Done(table, Where(tests))

LEMMA NumberedRuns ==
  ASSUME NEW A, NEW set, NEW where, NEW m, NEW o, NEW s, NEW args, Called(s, args, A, set, where, m, o)
  PROVE  Does(s, args, Gets(set, args, 0, m), Gets(where, args, Len(set), o))
<1> /\ set \in Seq(A) /\ where \in Seq(A) /\ m \in Nat /\ o \in Nat
    /\ Continue(set, where, m, o) /\ Numbers(s, set, where, m, o)
    /\ Len(args) = Len(set) + Len(where)
  BY DEF Called
<1> DEFINE k == Len(set)
           l == Len(where)
           second(pairs) == [i \in DOMAIN pairs |-> pairs[i][2]]
           first == second(s.set)
           rest == second(s.where)
           p == Placeholders(s)
           sets == Gets(set, args, 0, m)
           tests == Gets(where, args, k, o)
<1>1. k \in Nat /\ l \in Nat /\ DOMAIN set = 1..k /\ DOMAIN where = 1..l
  OBVIOUS
<1>2. /\ DOMAIN s = Fields /\ s.vals = <<>>
      /\ s.set = [i \in DOMAIN set |-> <<set[i], m + i>>]
      /\ s.where = [i \in DOMAIN where |-> <<where[i], o + i>>]
  BY DEF Numbers
<1>3. Numbered(s.set) = s.set
  BY <1>2, NumberedSet
<1>4. p = (<<>> \o first) \o rest
  BY <1>2, <1>3 DEF Placeholders
<1>5. (m = 0 /\ o = k) \/ (m = l /\ o = 0)
  BY DEF Continue
<1> HIDE DEF k, l
<1>6. /\ DOMAIN s.set = 1..k /\ \A i \in 1..k : s.set[i][1] = set[i] /\ s.set[i][2] = m + i
      /\ DOMAIN s.where = 1..l /\ \A i \in 1..l : s.where[i][1] = where[i] /\ s.where[i][2] = o + i
  BY <1>1, <1>2
<1>7. CountsOn(p, k, l, m, o)
  <2>1. first = [i \in 1..k |-> m + i] /\ rest = [i \in 1..l |-> o + i]
    BY <1>6
  <2> HIDE DEF first, rest, p
  <2> QED BY <1>4, <1>5, <2>1 DEF CountsOn
<1>fields. DOMAIN s = Fields
  BY <1>2
<1> HIDE DEF first, rest, second, p
<1>8. p \in Seq(Nat) /\ Len(p) = k + l /\ Range(p) \cup {0} = 0..k + l
  BY <1>1, <1>7, NumbersFromOne
<1>9. Bind(s, args).set = sets
  <2> DEFINE bound == Bind(s, args).set
  <2>1. bound = [i \in DOMAIN s.set |->
              <<s.set[i][1],
                IF s.set[i][2] = Proposed
                THEN args[IF ByPlace THEN Place(s, s.set[i][1]) ELSE s.vals[Place(s, s.set[i][1])]]
                ELSE args[IF ByPlace THEN Len(s.vals) + i ELSE s.set[i][2]]>>]
    BY <1>fields, BindSet
  <2>2. Len(s.vals) = 0 /\ \A i \in 1..k : m + i # Proposed
    BY <1>1, <1>2 DEF Proposed
  <2> HIDE DEF bound
  <2>3. DOMAIN bound = 1..k
    BY <1>6, <2>1
  <2>4. ASSUME NEW i \in 1..k PROVE bound[i] = <<set[i], args[IF ByPlace THEN 0 + i ELSE m + i]>>
    <3>1. s.set[i][1] = set[i] /\ s.set[i][2] = m + i /\ m + i # Proposed /\ i \in DOMAIN s.set
      BY <1>6, <2>2
    <3> QED BY <2>1, <2>2, <3>1
  <2>5. sets = [i \in 1..k |-> <<set[i], args[IF ByPlace THEN 0 + i ELSE m + i]>>]
    BY <1>1 DEF Gets
  <2>6. bound = [i \in DOMAIN bound |-> bound[i]]
    BY <2>1
  <2> HIDE DEF sets
  <2>7. bound = [i \in 1..k |-> <<set[i], args[IF ByPlace THEN 0 + i ELSE m + i]>>]
    BY <2>3, <2>4, <2>6
  <2> QED BY <2>5, <2>7 DEF bound
<1>10. Bind(s, args).where = tests
  <2> DEFINE bound == Bind(s, args).where
             w == Len(s.vals) + Len(Numbered(s.set))
  <2>1. bound = [i \in DOMAIN s.where |-> <<s.where[i][1], args[IF ByPlace THEN w + i ELSE s.where[i][2]]>>]
    BY <1>fields, BindWhere
  <2>2. w = k
    <3>1. Len(s.set) = k
      <4> DEFINE pairs == s.set
      <4>1. pairs = [i \in 1..k |-> <<set[i], m + i>>]
        BY <1>1, <1>2
      <4> HIDE DEF pairs
      <4> QED BY <1>1, <4>1 DEF pairs
    <3>2. Len(s.vals) = 0
      BY <1>2
    <3> QED BY <1>1, <1>3, <3>1, <3>2
  <2> HIDE DEF bound, w
  <2>3. tests = [i \in 1..l |-> <<where[i], args[IF ByPlace THEN k + i ELSE o + i]>>]
    BY <1>1 DEF Gets
  <2> HIDE DEF tests
  <2>4. bound = [i \in 1..l |-> <<where[i], args[IF ByPlace THEN k + i ELSE o + i]>>]
    BY <1>6, <2>1, <2>2
  <2> QED BY <2>3, <2>4 DEF bound
<1>11. Len(args) = k + l /\ k + l \in Nat
  BY <1>1 DEF k, l
<1> HIDE DEF sets, tests
<1>12. /\ s.kind = "update" => Run(s, args) = Updated(Where(tests), sets)
       /\ s.kind = "delete" => Run(s, args) = Done(table \ Where(tests), Where(tests))
       /\ s.kind = "select" => Run(s, args) = Done(table, Where(tests))
  BY <1>2, <1>8, <1>9, <1>10, <1>11, RunIs DEF p
<1> QED BY <1>12 DEF sets, tests, k, Does

(* What the builders build.                                                 *)
LEMMA SortedColumnsAre ==
  ASSUME NEW values, DOMAIN values \subseteq Range(Columns), DOMAIN values # {}
  PROVE  LET cols == SortedColumns(values)
         IN cols \in Seq(Range(Columns)) /\ cols # <<>> /\ Range(cols) = DOMAIN values
<1> DEFINE cols == SortedColumns(values)
<1>1. cols \in Seq(Range(Columns) \cap DOMAIN values)
  BY ColumnsAre, SelectedIsASequence DEF SortedColumns
<1>2. \A x : x \in Range(cols) <=> x \in Range(Columns) /\ x \in DOMAIN values
  BY ColumnsAre, SelectedHas DEF SortedColumns
<1> HIDE DEF cols
<1>3. Range(cols) = DOMAIN values
  BY <1>2
<1>4. cols # <<>>
  <2>1. DOMAIN <<>> = {}
    OBVIOUS
  <2> SUFFICES ASSUME cols = <<>> PROVE FALSE
    OBVIOUS
  <2>2. DOMAIN cols = {}
    BY <2>1
  <2>3. Range(cols) = {}
    BY <2>2 DEF Range
  <2> QED BY <1>3, <2>3
<1>5. cols \in Seq(Range(Columns))
  BY <1>1
<1> QED BY <1>3, <1>4, <1>5 DEF cols

LEMMA InsertIs ==
  ASSUME NEW A, NEW cols \in Seq(A)
  PROVE  LET s == Insert(cols)
         IN Inserts(s, cols, 1) /\ s.set = <<>> /\ s.on = {} /\ s.conflict = "error"
<1> DEFINE s == Insert(cols)
<1>1. /\ DOMAIN s = Fields /\ s.kind = "insert" /\ s.cols = cols /\ s.where = <<>>
      /\ s.vals = [i \in DOMAIN cols |-> i] /\ s.set = <<>> /\ s.on = {} /\ s.conflict = "error"
  BY DEF Insert, Statement, Fields
<1>2. DOMAIN cols = 1..1 * Len(cols)
  OBVIOUS
<1> HIDE DEF s
<1>3. s.vals = [i \in 1..1 * Len(cols) |-> i]
  BY <1>1, <1>2
<1>4. Inserts(s, cols, 1)
  BY <1>1, <1>3 DEF Inserts
<1> QED BY <1>1, <1>4 DEF s

LEMMA InsertRowsIs ==
  ASSUME NEW A, NEW cols \in Seq(A)
  PROVE  LET s == InsertRows(cols, 2)
         IN Inserts(s, cols, 2) /\ s.set = <<>> /\ s.conflict = "error"
BY DEF InsertRows, Insert, Statement, Fields, Inserts

Clause(s, cols, on, conflict, set) ==
  Inserts(s, cols, 1) /\ s.set = set /\ s.on = on /\ s.conflict = conflict

LEMMA ClausesAre ==
  ASSUME NEW A, NEW cols \in Seq(A), NEW target, NEW key
  PROVE  /\ Clause(OnConflictNothing(cols, target), cols, Range(target), "nothing", <<>>)
         /\ Clause(PostgresUpsert(cols), cols, keys.pk, "update", ToPlaceholders(cols))
         /\ Clause(SqliteUpsert(cols), cols, keys.pk, "update", ToProposed(cols))
         /\ Clause(OnDuplicateNothing(cols), cols, {}, "nothing", <<>>)
         /\ Clause(MysqlUpsert(cols), cols, {}, "update", ToProposed(cols))
         /\ Clause(MssqlMerge(cols, key, TRUE), cols, key, "update", ToProposed(cols))
         /\ Clause(MssqlMerge(cols, key, FALSE), cols, key, "nothing", <<>>)
<1> DEFINE t == Insert(cols)
<1>1. /\ DOMAIN t = Fields /\ t.kind = "insert" /\ t.cols = cols /\ t.where = <<>>
      /\ t.vals = [i \in 1..1 * Len(cols) |-> i] /\ t.set = <<>> /\ t.on = {}
  BY InsertIs DEF Inserts
<1> HIDE DEF t
<1>2. Clause([t EXCEPT !.on = Range(target), !.conflict = "nothing"], cols, Range(target), "nothing", <<>>)
  BY <1>1 DEF Clause, Inserts, Fields
<1>3. Clause([t EXCEPT !.conflict = "nothing"], cols, {}, "nothing", <<>>)
  BY <1>1 DEF Clause, Inserts, Fields
<1>4. ASSUME NEW set PROVE Clause([t EXCEPT !.conflict = "update", !.set = set], cols, {}, "update", set)
  BY <1>1 DEF Clause, Inserts, Fields
<1>5. ASSUME NEW set, NEW on
      PROVE  /\ Clause([t EXCEPT !.on = on, !.conflict = "update", !.set = set], cols, on, "update", set)
             /\ Clause([t EXCEPT !.on = on, !.conflict = "nothing", !.set = set], cols, on, "nothing", set)
  BY <1>1 DEF Clause, Inserts, Fields
<1>6. MssqlMerge(cols, key, TRUE) = [t EXCEPT !.on = key, !.conflict = "update", !.set = ToProposed(cols)]
  BY DEF MssqlMerge, t
<1>7. MssqlMerge(cols, key, FALSE) = [t EXCEPT !.on = key, !.conflict = "nothing", !.set = <<>>]
  BY DEF MssqlMerge, t
<1>8. Clause(OnConflictNothing(cols, target), cols, Range(target), "nothing", <<>>)
  BY <1>2 DEF OnConflictNothing, t
<1>9. Clause(OnDuplicateNothing(cols), cols, {}, "nothing", <<>>)
  BY <1>3 DEF OnDuplicateNothing, t
<1>10. Clause(MysqlUpsert(cols), cols, {}, "update", ToProposed(cols))
  BY <1>4 DEF MysqlUpsert, t
<1>11. Clause(PostgresUpsert(cols), cols, keys.pk, "update", ToPlaceholders(cols))
  BY <1>5 DEF PostgresUpsert, t
<1>12. Clause(SqliteUpsert(cols), cols, keys.pk, "update", ToProposed(cols))
  BY <1>5 DEF SqliteUpsert, t
<1>13. Clause(MssqlMerge(cols, key, TRUE), cols, key, "update", ToProposed(cols))
  BY <1>5, <1>6, ZenonT(40)
<1>14. Clause(MssqlMerge(cols, key, FALSE), cols, key, "nothing", <<>>)
  BY <1>5, <1>7
<1> QED BY <1>8, <1>9, <1>10, <1>11, <1>12, <1>13, <1>14

LEMMA ToProposedIs ==
  ASSUME NEW A, NEW cols \in Seq(A)
  PROVE  LET set == ToProposed(cols)
         IN /\ set \in Seq(A \X {Proposed})
            /\ \A i \in DOMAIN set : set[i][1] \in Range(cols) /\ set[i][2] = Proposed
            /\ \A c \in Range(cols) \cap OtherColumns : \E i \in DOMAIN set : set[i][1] = c
<1> DEFINE set == ToProposed(cols)
<1> DEFINE others == Selected(cols, OtherColumns)
<1>1. others \in Seq(A \cap OtherColumns) /\ \A x : x \in Range(others) <=> x \in Range(cols) /\ x \in OtherColumns
  BY SelectedIsASequence, SelectedHas
<1>2. set = [i \in DOMAIN others |-> <<others[i], Proposed>>]
  BY DEF ToProposed
<1> HIDE DEF others, set
<1>3. DOMAIN others = 1..Len(others) /\ Len(others) \in Nat /\ \A i \in 1..Len(others) : others[i] \in A /\ others[i] \in Range(others)
  BY <1>1 DEF Range
<1>4. DOMAIN set = 1..Len(others) /\ \A i \in 1..Len(others) : set[i] = <<others[i], Proposed>>
  BY <1>2, <1>3
<1>5. set \in Seq(A \X {Proposed})
  BY <1>2, <1>3
<1>6. \A i \in DOMAIN set : set[i][1] \in Range(cols) /\ set[i][2] = Proposed
  BY <1>1, <1>3, <1>4
<1>7. ASSUME NEW c \in Range(cols) \cap OtherColumns PROVE \E i \in DOMAIN set : set[i][1] = c
  <2>1. c \in Range(others)
    BY <1>1
  <2>2. PICK i \in DOMAIN others : others[i] = c
    BY <2>1 DEF Range
  <2> QED BY <2>2, <1>3, <1>4
<1> QED BY <1>5, <1>6, <1>7 DEF set

LEMMA ToPlaceholdersIs ==
  ASSUME NEW A, NEW cols \in Seq(A)
  PROVE  LET set == ToPlaceholders(cols)
         IN /\ set \in Seq(A \X (1..Len(cols)))
            /\ \A i \in DOMAIN set : set[i][1] \in Range(cols) /\ cols[set[i][2]] = set[i][1]
            /\ \A c \in Range(cols) \cap OtherColumns : \E i \in DOMAIN set : set[i][1] = c
<1> DEFINE set == ToPlaceholders(cols)
<1> DEFINE others == Selected(cols, OtherColumns)
           place(c) == CHOOSE n \in DOMAIN cols : cols[n] = c
<1>1. others \in Seq(A \cap OtherColumns) /\ \A x : x \in Range(others) <=> x \in Range(cols) /\ x \in OtherColumns
  BY SelectedIsASequence, SelectedHas
<1>2. set = [i \in DOMAIN others |-> <<others[i], place(others[i])>>]
  BY DEF ToPlaceholders
<1> HIDE DEF others, set
<1>3. DOMAIN others = 1..Len(others) /\ Len(others) \in Nat /\ \A i \in 1..Len(others) : others[i] \in A /\ others[i] \in Range(others)
  BY <1>1 DEF Range
<1>4. ASSUME NEW c \in Range(cols) PROVE place(c) \in 1..Len(cols) /\ cols[place(c)] = c
  <2>1. \E n \in DOMAIN cols : cols[n] = c
    BY DEF Range
  <2>2. DOMAIN cols = 1..Len(cols)
    OBVIOUS
  <2> QED BY <2>1, <2>2
<1> HIDE DEF place
<1>5. DOMAIN set = 1..Len(others) /\ \A i \in 1..Len(others) : set[i] = <<others[i], place(others[i])>>
  BY <1>2, <1>3
<1>6. \A i \in 1..Len(others) : others[i] \in Range(cols)
  BY <1>1, <1>3
<1>7. set \in Seq(A \X (1..Len(cols)))
  <2>1. ASSUME NEW i \in 1..Len(others) PROVE set[i] \in A \X (1..Len(cols))
    <3>1. others[i] \in A /\ place(others[i]) \in 1..Len(cols)
      BY <1>3, <1>4, <1>6
    <3> DEFINE c == others[i]
               n == place(c)
    <3>2. set[i] = <<c, n>> /\ c \in A /\ n \in 1..Len(cols)
      BY <1>5, <3>1
    <3> HIDE DEF c, n
    <3> QED BY <3>2
  <2>2. set = [i \in 1..Len(others) |-> set[i]]
    BY <1>2, <1>3
  <2> QED BY <1>3, <2>1, <2>2
<1>8. \A i \in DOMAIN set : set[i][1] \in Range(cols) /\ cols[set[i][2]] = set[i][1]
  BY <1>4, <1>5, <1>6
<1>9. ASSUME NEW c \in Range(cols) \cap OtherColumns PROVE \E i \in DOMAIN set : set[i][1] = c
  <2>1. c \in Range(others)
    BY <1>1
  <2>2. PICK i \in DOMAIN others : others[i] = c
    BY <2>1 DEF Range
  <2> QED BY <2>2, <1>3, <1>5
<1> QED BY <1>7, <1>8, <1>9 DEF set

LEMMA UniqueIs ==
  ASSUME dialect \in Dialect, NEW A, NEW cols \in Seq(A), NEW target
  PROVE  \E on : /\ Clause(InsertUnique(cols, target), cols, on, "nothing", <<>>)
                 /\ dialect # "mysql" => on = Range(target)
<1> DEFINE s == InsertUnique(cols, target)
<1>1. CASE dialect \in {"pq", "sqlite"}
  <2>1. s = OnConflictNothing(cols, target)
    BY <1>1 DEF InsertUnique
  <2> QED BY <2>1, ClausesAre
<1>2. CASE dialect = "mysql"
  <2>1. s = OnDuplicateNothing(cols)
    BY <1>2 DEF InsertUnique
  <2> QED BY <1>2, <2>1, ClausesAre
<1>3. CASE dialect \in {"mssql", "oracle"}
  <2>1. s = MssqlMerge(cols, Range(target), FALSE)
    BY <1>3 DEF InsertUnique, OracleMerge
  <2> QED BY <2>1, ClausesAre
<1> QED BY <1>1, <1>2, <1>3 DEF Dialect

LEMMA UpsertIs ==
  ASSUME dialect \in Dialect, NEW A, NEW cols \in Seq(A), ~(Range(cols) \subseteq keys.pk)
  PROVE  \E on, set :
           /\ Clause(Upsert(cols), cols, on, "update", set) /\ (dialect # "mysql" => on = keys.pk)
           /\ set = ToProposed(cols) \/ (set = ToPlaceholders(cols) /\ ~ByPlace)
<1> DEFINE s == Upsert(cols)
<1>1. CASE dialect = "pq"
  <2>1. s = PostgresUpsert(cols)
    BY <1>1 DEF Upsert
  <2>2. ~ByPlace
    BY <1>1 DEF ByPlace
  <2> QED BY <2>1, <2>2, ClausesAre
<1>2. CASE dialect = "sqlite"
  <2>1. s = SqliteUpsert(cols)
    BY <1>2 DEF Upsert
  <2> QED BY <2>1, ClausesAre
<1>3. CASE dialect = "mysql"
  <2>1. s = MysqlUpsert(cols)
    BY <1>3 DEF Upsert
  <2> QED BY <1>3, <2>1, ClausesAre
<1>4. CASE dialect \in {"mssql", "oracle"}
  <2>1. s = MssqlMerge(cols, keys.pk, TRUE)
    BY <1>4 DEF Upsert, OracleMerge
  <2> QED BY <2>1, ClausesAre
<1> QED BY <1>1, <1>2, <1>3, <1>4 DEF Dialect

(* What an INSERT with a clause does.                                       *)
LEMMA RangeOfNone == Range(<<>>) = {}
<1>1. DOMAIN <<>> = {}
  OBVIOUS
<1> QED BY <1>1 DEF Range

LEMMA EmptySetIsOwn ==
  ASSUME NEW A, NEW cols, NEW s, s.set = <<>>
  PROVE  SetsOwn(s, A, cols)
<1> DEFINE set == s.set
<1>1. set \in Seq(A \X {Proposed}) /\ DOMAIN set = {}
  OBVIOUS
<1> QED BY <1>1 DEF SetsOwn

LEMMA InsertDoes ==
  ASSUME NEW values, DOMAIN values \subseteq Range(Columns), DOMAIN values # {}
  PROVE  Run(Insert(SortedColumns(values)), ValuesOf(SortedColumns(values), values))
         = Replaced({}, {RowOf(values)}, 1)
<1> DEFINE cols == SortedColumns(values)
           s == Insert(cols)
<1>1. cols \in Seq(Range(Columns)) /\ cols # <<>> /\ Range(cols) = DOMAIN values
  BY SortedColumnsAre
<1> HIDE DEF cols
<1>2. Inserts(s, cols, 1) /\ s.set = <<>> /\ s.conflict = "error"
  BY <1>1, InsertIs
<1> HIDE DEF s
<1>3. SetsOwn(s, Range(Columns), cols)
  BY <1>2, EmptySetIsOwn
<1>4. Run(s, ValuesOf(cols, values))
      = LET found == Found(s, RowOf(values))
        IN IF s.conflict = "error" \/ found = {} \/ ~HasKey(RowOf(values))
           THEN Replaced({}, {RowOf(values)}, 1)
           ELSE IF s.conflict = "nothing" THEN Done(table, {}) ELSE Updated(found, <<>>)
  BY <1>1, <1>2, <1>3, InsertOne
<1> QED BY <1>2, <1>4 DEF s, cols

LEMMA InsertUniqueDoes ==
  ASSUME dialect \in Dialect, keys \in Keys,
         NEW values, DOMAIN values \subseteq Range(Columns), DOMAIN values # {},
         NEW key \in {keys.pk, keys.other}, NEW target, Range(target) = key,
         ~OnOtherKey(RowOf(values), key)
  PROVE  Run(InsertUnique(SortedColumns(values), target), ValuesOf(SortedColumns(values), values))
         = IF HasKey(RowOf(values)) /\ \E x \in table : Agree(x, RowOf(values), key)
           THEN Done(table, {}) ELSE Replaced({}, {RowOf(values)}, 1)
<1> DEFINE cols == SortedColumns(values)
           s == InsertUnique(cols, target)
           r == RowOf(values)
<1>1. cols \in Seq(Range(Columns)) /\ cols # <<>> /\ Range(cols) = DOMAIN values
  BY SortedColumnsAre
<1> HIDE DEF cols
<1>2. PICK on : Clause(s, cols, on, "nothing", <<>>) /\ (dialect # "mysql" => on = key)
  BY <1>1, UniqueIs
<1> HIDE DEF s, r
<1>3. Inserts(s, cols, 1) /\ s.set = <<>> /\ s.conflict = "nothing" /\ s.on = on
  BY <1>2 DEF Clause
<1>4. SetsOwn(s, Range(Columns), cols)
  BY <1>3, EmptySetIsOwn
<1>5. \E set : Run(s, ValuesOf(cols, values))
               = IF s.conflict = "error" \/ Found(s, r) = {} \/ ~HasKey(r)
                 THEN Replaced({}, {r}, 1)
                 ELSE IF s.conflict = "nothing" THEN Done(table, {}) ELSE Updated(Found(s, r), set)
  BY <1>1, <1>3, <1>4, InsertOne DEF r
<1>6. Found(s, r) # {} <=> \E x \in table : Agree(x, r, key)
  <2>1. CASE dialect # "mysql"
    BY <1>2, <1>3, <2>1 DEF Found
  <2>2. CASE dialect = "mysql"
    <3>1. \A x \in table : Agree(x, r, key) \/ (~Agree(x, r, keys.pk) /\ ~Agree(x, r, keys.other))
      BY <2>2 DEF OnOtherKey, r
    <3>2. Found(s, r) # {} <=> \E x \in table : Agree(x, r, keys.pk) \/ Agree(x, r, keys.other)
      BY <2>2 DEF Found
    <3> QED BY <3>1, <3>2
  <2> QED BY <2>1, <2>2
<1>7. Run(s, ValuesOf(cols, values)) = IF Found(s, r) = {} \/ ~HasKey(r) THEN Replaced({}, {r}, 1) ELSE Done(table, {})
  BY <1>3, <1>5
<1> QED BY <1>6, <1>7 DEF s, r, cols

(* The row of an upsert has its key, and matches those with this key.       *)
LEMMA RowOfIs ==
  ASSUME NEW values, NEW c \in Range(Columns)
  PROVE  RowOf(values)[c] = IF c \in DOMAIN values THEN values[c] ELSE Null
BY DEF RowOf, AssignedTo

LEMMA AgreeingRows ==
  ASSUME keys \in Keys, NEW values, keys.pk \subseteq DOMAIN values, \A c \in keys.pk : values[c] # Null
  PROVE  /\ HasKey(RowOf(values))
         /\ \A x : Agree(x, RowOf(values), keys.pk) <=> \A c \in keys.pk : x[c] = values[c] /\ x[c] # Null
<1>1. \A c \in keys.pk : RowOf(values)[c] = values[c]
  BY KeysAre, RowOfIs
<1> QED BY <1>1 DEF HasKey, Agree

LEMMA MatchingIs ==
  ASSUME NEW values, NEW key
  PROVE  Matching(Restricted(values, key)) = {x \in table : \A c \in key : x[c] = values[c] /\ x[c] # Null}
BY DEF Matching, Restricted

LEMMA UpsertSets ==
  ASSUME NEW A, NEW cols \in Seq(A), NEW s,
         s.set = ToProposed(cols) \/ (s.set = ToPlaceholders(cols) /\ ~ByPlace)
  PROVE  /\ SetsOwn(s, A, cols)
         /\ \A i \in DOMAIN s.set : s.set[i][1] \in Range(cols)
         /\ \A c \in Range(cols) \cap OtherColumns : \E i \in DOMAIN s.set : s.set[i][1] = c
<1>1. CASE s.set = ToProposed(cols)
  <2> DEFINE set == ToProposed(cols)
  <2>1. /\ set \in Seq(A \X {Proposed})
        /\ \A i \in DOMAIN set : set[i][1] \in Range(cols) /\ set[i][2] = Proposed
        /\ \A c \in Range(cols) \cap OtherColumns : \E i \in DOMAIN set : set[i][1] = c
    BY ToProposedIs
  <2> HIDE DEF set
  <2>2. s.set = set
    BY <1>1 DEF set
  <2> QED BY <2>1, <2>2 DEF SetsOwn
<1>2. CASE s.set = ToPlaceholders(cols) /\ ~ByPlace
  <2> DEFINE set == ToPlaceholders(cols)
  <2>1. /\ set \in Seq(A \X (1..Len(cols)))
        /\ \A i \in DOMAIN set : set[i][1] \in Range(cols) /\ cols[set[i][2]] = set[i][1]
        /\ \A c \in Range(cols) \cap OtherColumns : \E i \in DOMAIN set : set[i][1] = c
    BY ToPlaceholdersIs
  <2> HIDE DEF set
  <2>2. s.set = set
    BY <1>2 DEF set
  <2> QED BY <1>2, <2>1, <2>2 DEF SetsOwn
<1> QED BY <1>1, <1>2

LEMMA UpsertDoes ==
  ASSUME dialect \in Dialect, keys \in Keys, NEW cols \in KeyOrders, ~(Range(cols) \subseteq keys.pk),
         NEW values, DOMAIN values = Range(cols), \A c \in keys.pk : values[c] # Null,
         ~OnOtherKey(RowOf(values), keys.pk)
  PROVE  Run(Upsert(cols), ValuesOf(cols, values))
         = LET found == Matching(Restricted(values, keys.pk))
           IN IF found = {} THEN Replaced({}, {RowOf(values)}, 1) ELSE Changed(found, values)
<1> DEFINE s == Upsert(cols)
           r == RowOf(values)
           found == Matching(Restricted(values, keys.pk))
<1>1. /\ cols \in Seq(Range(Columns)) /\ Range(cols) = Range(Columns) /\ cols # <<>>
      /\ keys.pk \subseteq Range(Columns) /\ keys.pk # {}
  <2>1. cols \in Seq(Range(Columns)) /\ Range(cols) = Range(Columns)
    BY KeyOrdersAre
  <2>2. keys.pk \subseteq Range(Columns) /\ keys.pk # {}
    BY KeysAre
  <2>3. cols # <<>>
    BY <2>1, <2>2, RangeOfNone
  <2> QED BY <2>1, <2>2, <2>3
<1>2. PICK on, set : /\ Clause(s, cols, on, "update", set) /\ (dialect # "mysql" => on = keys.pk)
                     /\ set = ToProposed(cols) \/ (set = ToPlaceholders(cols) /\ ~ByPlace)
  BY <1>1, UpsertIs
<1> HIDE DEF s, r, found
<1>3. Inserts(s, cols, 1) /\ s.set = set /\ s.conflict = "update" /\ s.on = on
  BY <1>2 DEF Clause
<1>4. /\ SetsOwn(s, Range(Columns), cols)
      /\ \A i \in DOMAIN s.set : s.set[i][1] \in Range(cols)
      /\ \A c \in Range(cols) \cap OtherColumns : \E i \in DOMAIN s.set : s.set[i][1] = c
  BY <1>1, <1>2, <1>3, UpsertSets
<1>5. PICK sets : /\ DOMAIN sets = DOMAIN s.set
                  /\ \A i \in DOMAIN sets : sets[i] = <<s.set[i][1], values[s.set[i][1]]>>
                  /\ Run(s, ValuesOf(cols, values))
                     = IF s.conflict = "error" \/ Found(s, r) = {} \/ ~HasKey(r)
                       THEN Replaced({}, {r}, 1)
                       ELSE IF s.conflict = "nothing" THEN Done(table, {}) ELSE Updated(Found(s, r), sets)
  BY <1>1, <1>3, <1>4, InsertOne DEF r
<1>6. HasKey(r) /\ found = {x \in table : Agree(x, r, keys.pk)}
  <2>1. /\ HasKey(r)
        /\ \A x : Agree(x, r, keys.pk) <=> \A c \in keys.pk : x[c] = values[c] /\ x[c] # Null
    BY <1>1, AgreeingRows DEF r
  <2>2. found = {x \in table : \A c \in keys.pk : x[c] = values[c] /\ x[c] # Null}
    BY MatchingIs DEF found
  <2> QED BY <2>1, <2>2
<1>7. Found(s, r) = found
  <2>1. CASE dialect # "mysql"
    BY <1>2, <1>3, <1>6, <2>1 DEF Found
  <2>2. CASE dialect = "mysql"
    <3>1. \A x \in table : Agree(x, r, keys.pk) \/ (~Agree(x, r, keys.pk) /\ ~Agree(x, r, keys.other))
      BY <2>2 DEF OnOtherKey, r
    <3>2. CASE found # {}
      BY <1>6, <2>2, <3>2 DEF Found
    <3>3. CASE found = {}
      <4>1. \A x \in table : ~Agree(x, r, keys.pk) /\ ~Agree(x, r, keys.other)
        BY <1>6, <3>1, <3>3
      <4> QED BY <1>6, <2>2, <3>3, <4>1 DEF Found
    <3> QED BY <3>2, <3>3
  <2> QED BY <2>1, <2>2
<1>8. Updated(found, sets) = Changed(found, values)
  <2>1. \A i \in DOMAIN sets : sets[i][1] \in DOMAIN values /\ sets[i][2] = values[sets[i][1]]
    BY <1>4, <1>5
  <2>2. ASSUME NEW x \in found, NEW c \in DOMAIN x, c \in DOMAIN values
        PROVE  (\E i \in DOMAIN sets : sets[i][1] = c) \/ x[c] = values[c]
    <3>1. CASE c \in keys.pk
      <4>1. x \in {y \in table : \A d \in keys.pk : y[d] = values[d] /\ y[d] # Null}
        BY <2>2, MatchingIs DEF found
      <4> QED BY <3>1, <4>1
    <3>2. CASE c \notin keys.pk
      <4>1. c \in Range(cols) \cap OtherColumns
        BY <1>1, <2>2, <3>2 DEF OtherColumns
      <4>2. PICK i \in DOMAIN s.set : s.set[i][1] = c
        BY <1>4, <4>1
      <4> QED BY <1>5, <4>2
    <3> QED BY <3>1, <3>2
  <2> QED BY <2>1, <2>2, UpdatedIs
<1>9. Run(s, ValuesOf(cols, values)) = IF found = {} THEN Replaced({}, {r}, 1) ELSE Changed(found, values)
  BY <1>3, <1>5, <1>6, <1>7, <1>8
<1> QED BY <1>9 DEF s, r, found

(* The arguments of a call: a value for each column, after those of others. *)
LEMMA ValuesOfIs ==
  ASSUME NEW A, NEW cols \in Seq(A), NEW values
  PROVE  LET args == ValuesOf(cols, values)
         IN /\ \E V : args \in Seq(V)
            /\ DOMAIN args = 1..Len(cols) /\ Len(args) = Len(cols)
            /\ \A i \in 1..Len(cols) : args[i] = values[cols[i]]
<1> DEFINE n == Len(cols)
           args == ValuesOf(cols, values)
           V == {values[cols[i]] : i \in 1..n}
<1>1. n \in Nat /\ DOMAIN cols = 1..n
  OBVIOUS
<1>2. args = [i \in 1..n |-> values[cols[i]]]
  BY <1>1 DEF ValuesOf
<1>3. \A i \in 1..n : values[cols[i]] \in V
  OBVIOUS
<1> HIDE DEF n, args, V
<1>4. DOMAIN args = 1..n /\ Len(args) = n /\ \A i \in 1..n : args[i] = values[cols[i]]
  BY <1>1, <1>2
<1>5. args \in Seq(V)
  BY <1>1, <1>2, <1>3
<1> QED BY <1>4, <1>5 DEF n, args

(* Two rows.                                                                *)
LEMMA InsertRowsDoes ==
  ASSUME keys \in Keys, NEW cols \in Orders, NEW first, DOMAIN first = Range(Columns),
         NEW second, DOMAIN second = Range(Columns)
  PROVE  Run(InsertRows(cols, 2), ValuesOf(cols, first) \o ValuesOf(cols, second))
         = Replaced({}, {RowOf(first), RowOf(second)}, 2)
<1> DEFINE n == Len(cols)
           args == ValuesOf(cols, first) \o ValuesOf(cols, second)
           s == InsertRows(cols, 2)
           b == Bind(s, args)
<1>1. cols \in Seq(Range(Columns)) /\ cols # <<>> /\ Range(cols) = Range(Columns)
  BY OrdersAre, KeysAre, RangeOfNone
<1>2. n \in Nat /\ DOMAIN cols = 1..n /\ 2 * n \in Nat /\ 2 * n = n + n
  <2>1. Len(cols) \in Nat /\ DOMAIN cols = 1..Len(cols)
    BY <1>1
  <2> HIDE DEF n
  <2>2. n \in Nat /\ DOMAIN cols = 1..n
    BY <2>1 DEF n
  <2> QED BY <2>2
<1>3. /\ DOMAIN args = 1..2 * n /\ Len(args) = 2 * n
      /\ \A i \in 1..n : args[i] = first[cols[i]] /\ args[n + i] = second[cols[i]]
  <2> DEFINE one == ValuesOf(cols, first)
             two == ValuesOf(cols, second)
  <2>1. /\ \E V : one \in Seq(V)
        /\ Len(one) = n /\ \A i \in 1..n : one[i] = first[cols[i]]
    BY <1>1, ValuesOfIs
  <2>2. /\ \E V : two \in Seq(V)
        /\ Len(two) = n /\ \A i \in 1..n : two[i] = second[cols[i]]
    BY <1>1, ValuesOfIs
  <2> HIDE DEF one, two, n
  <2>3. /\ DOMAIN (one \o two) = 1..n + n /\ Len(one \o two) = n + n
        /\ \A i \in 1..n : (one \o two)[i] = one[i]
        /\ \A i \in 1..n : (one \o two)[n + i] = two[i]
    BY <2>1, <2>2, JoinedIs
  <2>4. args = one \o two
    BY DEF one, two
  <2> HIDE DEF args
  <2> QED BY <1>2, <2>1, <2>2, <2>3, <2>4
<1> HIDE DEF args, s
<1>4. Inserts(s, cols, 2) /\ s.set = <<>> /\ s.conflict = "error"
  BY <1>1, InsertRowsIs DEF s
<1>5. SetsOwn(s, Range(Columns), cols)
  BY <1>4, EmptySetIsOwn
<1>6. Run(s, args) = RunInsert(b)
  BY <1>1, <1>3, <1>4, <1>5, InsertRuns
<1>7. b.cols = cols /\ b.conflict = s.conflict /\ b.vals = [i \in 1..2 * n |-> args[i]]
  BY <1>2, <1>4, InsertBound
<1> HIDE DEF b
<1>8. HasRows(b, cols, first, second)
  <2>1. Len(b.vals) = 2 * n
    BY <1>2, <1>7
  <2>2. \A i \in 1..n : i \in 1..2 * n /\ n + i \in 1..2 * n
    BY <1>2
  <2>3. \A i \in 1..n : b.vals[i] = first[cols[i]] /\ b.vals[n + i] = second[cols[i]]
    BY <1>3, <1>7, <2>2
  <2> QED BY <1>1, <1>7, <2>1, <2>3 DEF HasRows
<1>9. NewRows(b) = {RowOf(first), RowOf(second)} /\ Len(b.vals) \div Len(b.cols) = 2
  BY <1>1, <1>8, NewRowsOfTwo
<1> QED BY <1>4, <1>6, <1>7, <1>9 DEF RunInsert, s, args

-------------------------------------------------------------------------------
(* What UPDATE, DELETE and SELECT do.                                       *)
Pairs(pairs, cols, values) ==
  DOMAIN pairs = 1..Len(cols) /\ \A i \in 1..Len(cols) : pairs[i] = <<cols[i], values[cols[i]]>>

LEMMA GetsPairs ==
  ASSUME NEW A, NEW cols \in Seq(A), NEW args, NEW values, NEW place, NEW number,
         \A i \in 1..Len(cols) : args[IF ByPlace THEN place + i ELSE number + i] = values[cols[i]]
  PROVE  Pairs(Gets(cols, args, place, number), cols, values)
<1>1. DOMAIN cols = 1..Len(cols)
  OBVIOUS
<1> QED BY <1>1 DEF Pairs, Gets

LEMMA WherePairs ==
  ASSUME NEW A, NEW cols \in Seq(A), NEW values, Range(cols) = DOMAIN values,
         NEW pairs, Pairs(pairs, cols, values)
  PROVE  Where(pairs) = Matching(values)
<1>1. DOMAIN pairs = 1..Len(cols) /\ \A i \in 1..Len(cols) : pairs[i] = <<cols[i], values[cols[i]]>>
  BY DEF Pairs
<1>2. DOMAIN cols = 1..Len(cols)
  OBVIOUS
<1>3. \A i \in DOMAIN pairs : pairs[i][1] \in DOMAIN values /\ pairs[i][2] = values[pairs[i][1]]
  <2>1. \A i \in 1..Len(cols) : cols[i] \in Range(cols)
    BY <1>2 DEF Range
  <2> QED BY <1>1, <2>1
<1>4. \A c \in DOMAIN values : \E i \in DOMAIN pairs : pairs[i][1] = c
  BY <1>1, <1>2 DEF Range
<1> QED BY <1>3, <1>4, WhereIs

LEMMA UpdatedPairs ==
  ASSUME NEW A, NEW cols \in Seq(A), NEW values, Range(cols) \subseteq DOMAIN values,
         NEW pairs, Pairs(pairs, cols, values), NEW old,
         \A r \in old : \A c \in DOMAIN values : c \in Range(cols) \/ r[c] = values[c]
  PROVE  Updated(old, pairs) = Changed(old, values)
<1>1. DOMAIN pairs = 1..Len(cols) /\ \A i \in 1..Len(cols) : pairs[i] = <<cols[i], values[cols[i]]>>
  BY DEF Pairs
<1>2. DOMAIN cols = 1..Len(cols)
  OBVIOUS
<1>3. \A i \in DOMAIN pairs : pairs[i][1] \in DOMAIN values /\ pairs[i][2] = values[pairs[i][1]]
  <2>1. \A i \in 1..Len(cols) : cols[i] \in Range(cols)
    BY <1>2 DEF Range
  <2> QED BY <1>1, <2>1
<1>4. \A c \in Range(cols) : \E i \in DOMAIN pairs : pairs[i][1] = c
  BY <1>1, <1>2 DEF Range
<1>5. \A r \in old : \A c \in DOMAIN r :
        c \in DOMAIN values => (\E i \in DOMAIN pairs : pairs[i][1] = c) \/ r[c] = values[c]
  BY <1>4
<1> QED BY <1>3, <1>5, UpdatedIs

(* UpdateColumns, Update, Delete and QueryRowWithPK have the promised effect. *)
LEMMA UpdateDoes ==
  ASSUME NEW values, DOMAIN values \subseteq Range(Columns), DOMAIN values # {},
         NEW where \in Wheres, NEW tests, DOMAIN tests = Range(where)
  PROVE  Run(Update(SortedColumns(values), where),
             UpdateArgs(ValuesOf(SortedColumns(values), values), ValuesOf(where, tests)))
         = Changed(Matching(tests), values)
<1> DEFINE cols == SortedColumns(values)
           one == ValuesOf(cols, values)
           two == ValuesOf(where, tests)
           args == UpdateArgs(one, two)
           s == Update(cols, where)
           sets == Gets(cols, args, 0, Len(where))
           found == Gets(where, args, Len(cols), 0)
<1>1. cols \in Seq(Range(Columns)) /\ Range(cols) = DOMAIN values /\ where \in Seq(Range(Columns))
  BY SortedColumnsAre, DialectsAssumption
<1> HIDE DEF cols
<1>2. Len(cols) \in Nat /\ Len(where) \in Nat
  BY <1>1
<1>3. /\ \E V : one \in Seq(V)
      /\ Len(one) = Len(cols) /\ \A i \in 1..Len(cols) : one[i] = values[cols[i]]
  BY <1>1, ValuesOfIs
<1>4. /\ \E V : two \in Seq(V)
      /\ Len(two) = Len(where) /\ \A i \in 1..Len(where) : two[i] = tests[where[i]]
  BY <1>1, ValuesOfIs
<1> HIDE DEF one, two
<1>5. /\ Len(args) = Len(cols) + Len(where)
      /\ \A i \in 1..Len(cols) : args[IF ByPlace THEN 0 + i ELSE Len(where) + i] = values[cols[i]]
      /\ \A i \in 1..Len(where) : args[IF ByPlace THEN Len(cols) + i ELSE 0 + i] = tests[where[i]]
  <2> DEFINE k == Len(cols)
             l == Len(where)
  <2>1. k \in Nat /\ l \in Nat /\ k + l = l + k /\ \A i \in Nat : 0 + i = i
    BY <1>2
  <2>2. Len(one) = k /\ Len(two) = l
    BY <1>3, <1>4
  <2> HIDE DEF k, l
  <2>3. CASE ByPlace
    <3>1. args = one \o two
      BY <2>3 DEF UpdateArgs
    <3>2. /\ Len(one \o two) = k + l
          /\ \A i \in 1..k : (one \o two)[i] = one[i]
          /\ \A i \in 1..l : (one \o two)[k + i] = two[i]
      BY <1>3, <1>4, <2>2, JoinedIs, SMTT(30)
    <3> HIDE DEF args
    <3> QED BY <1>3, <1>4, <2>1, <2>3, <3>1, <3>2 DEF k, l
  <2>4. CASE ~ByPlace
    <3>1. args = two \o one
      BY <2>4 DEF UpdateArgs
    <3>2. /\ Len(two \o one) = l + k
          /\ \A i \in 1..l : (two \o one)[i] = two[i]
          /\ \A i \in 1..k : (two \o one)[l + i] = one[i]
      BY <1>3, <1>4, <2>2, JoinedIs, SMTT(30)
    <3> HIDE DEF args
    <3> QED BY <1>3, <1>4, <2>1, <2>4, <3>1, <3>2 DEF k, l
  <2> QED BY <2>3, <2>4
<1>6. Numbers(s, cols, where, Len(where), 0) /\ s.kind = "update"
  <2>1. /\ DOMAIN s = Fields /\ s.vals = <<>> /\ s.kind = "update"
        /\ s.set = [i \in DOMAIN cols |-> <<cols[i], Len(where) + i>>]
        /\ s.where = [i \in DOMAIN where |-> <<where[i], i>>]
    BY DEF Update, Statement, Fields
  <2>2. [i \in DOMAIN where |-> <<where[i], i>>] = [i \in DOMAIN where |-> <<where[i], 0 + i>>]
    <3>1. DOMAIN where = 1..Len(where)
      BY <1>1
    <3> QED BY <3>1
  <2> QED BY <2>1, <2>2 DEF Numbers
<1>7. Continue(cols, where, Len(where), 0)
  BY DEF Continue
<1> HIDE DEF args, s
<1>8. Run(s, args) = Updated(Where(found), sets)
  <2>1. Called(s, args, Range(Columns), cols, where, Len(where), 0)
    BY <1>1, <1>2, <1>5, <1>6, <1>7 DEF Called
  <2>2. Does(s, args, sets, found)
    BY <2>1, NumberedRuns
  <2> QED BY <1>6, <2>2 DEF Does
<1>9. Pairs(sets, cols, values)
  BY <1>1, <1>5, GetsPairs
<1>10. Pairs(found, where, tests)
  BY <1>1, <1>5, GetsPairs
<1> HIDE DEF sets, found
<1>11. Where(found) = Matching(tests)
  BY <1>1, <1>10, WherePairs
<1>12. Updated(Matching(tests), sets) = Changed(Matching(tests), values)
  BY <1>1, <1>9, UpdatedPairs
<1> QED BY <1>8, <1>11, <1>12 DEF s, args, one, two, cols

LEMMA KeyColumnsAre ==
  ASSUME keys \in Keys, NEW cols \in KeyOrders
  PROVE  /\ cols \in Seq(Range(Columns)) /\ keys.pk \subseteq Range(cols)
         /\ Selected(cols, PKColumns) \in Seq(Range(Columns))
         /\ Range(Selected(cols, PKColumns)) = keys.pk
         /\ Selected(cols, OtherColumns) \in Seq(Range(Columns))
         /\ Range(Selected(cols, OtherColumns)) = Range(cols) \ keys.pk
         /\ Selected(cols, OtherColumns) = <<>> <=> Range(cols) \subseteq keys.pk
<1> DEFINE pk == Selected(cols, PKColumns)
           others == Selected(cols, OtherColumns)
<1>1. cols \in Seq(Range(Columns)) /\ keys.pk \subseteq Range(Columns) /\ (Range(cols) = Range(Columns) \/ Range(cols) = keys.pk)
  BY KeyOrdersAre, KeysAre
<1>2. \A x : x \in Range(pk) <=> x \in Range(cols) /\ x \in PKColumns
  BY <1>1, SelectedHas
<1>3. \A x : x \in Range(others) <=> x \in Range(cols) /\ x \in OtherColumns
  BY <1>1, SelectedHas
<1>4. pk \in Seq(Range(Columns) \cap PKColumns) /\ others \in Seq(Range(Columns) \cap OtherColumns)
  BY <1>1, SelectedIsASequence
<1> HIDE DEF pk, others
<1>5. pk \in Seq(Range(Columns)) /\ others \in Seq(Range(Columns))
  BY <1>4
<1>6. Range(pk) = keys.pk /\ Range(others) = Range(cols) \ keys.pk
  BY <1>1, <1>2, <1>3 DEF PKColumns, OtherColumns
<1>7. ASSUME Range(others) = {} PROVE others = <<>>
  <2>1. \A i \in 1..Len(others) : others[i] \in Range(others)
    BY <1>5 DEF Range
  <2> QED BY <1>5, <1>7, <2>1
<1>8. others = <<>> <=> Range(cols) \subseteq keys.pk
  BY <1>6, <1>7, RangeOfNone
<1> QED BY <1>1, <1>5, <1>6, <1>8 DEF pk, others

LEMMA KeyRowsAre ==
  ASSUME NEW values, NEW cols \in Seq(Range(Columns)), Range(cols) = keys.pk,
         NEW pairs, Pairs(pairs, cols, values)
  PROVE  Where(pairs) = Matching(Restricted(values, keys.pk))
<1>1. DOMAIN Restricted(values, keys.pk) = keys.pk /\ \A c \in keys.pk : Restricted(values, keys.pk)[c] = values[c]
  BY DEF Restricted
<1>2. \A i \in 1..Len(cols) : cols[i] \in keys.pk
  BY DEF Range
<1>3. Pairs(pairs, cols, Restricted(values, keys.pk))
  BY <1>1, <1>2 DEF Pairs
<1> QED BY <1>1, <1>3, WherePairs

LEMMA UpdateRowDoes ==
  ASSUME keys \in Keys, NEW cols \in KeyOrders, NEW values, DOMAIN values = Range(cols)
  PROVE  Run(UpdateColumns(cols), ValuesOf(Selected(cols, OtherColumns) \o Selected(cols, PKColumns), values))
         = IF Range(cols) \subseteq keys.pk THEN Failed("build")
           ELSE Changed(Matching(Restricted(values, keys.pk)), values)
<1> DEFINE set == Selected(cols, OtherColumns)
           where == Selected(cols, PKColumns)
           args == ValuesOf(set \o where, values)
           s == UpdateColumns(cols)
           sets == Gets(set, args, 0, 0)
           tests == Gets(where, args, Len(set), Len(set))
           found == Matching(Restricted(values, keys.pk))
<1>1. /\ cols \in Seq(Range(Columns)) /\ keys.pk \subseteq Range(cols)
      /\ where \in Seq(Range(Columns)) /\ Range(where) = keys.pk
      /\ set \in Seq(Range(Columns)) /\ Range(set) = Range(cols) \ keys.pk
      /\ set = <<>> <=> Range(cols) \subseteq keys.pk
  BY KeyColumnsAre
<1>2. s = IF set = <<>> THEN NoStatement
          ELSE [Statement EXCEPT !.kind = "update",
                 !.set = [i \in DOMAIN set |-> <<set[i], i>>],
                 !.where = [i \in DOMAIN where |-> <<where[i], Len(set) + i>>]]
  BY DEF UpdateColumns
<1> HIDE DEF set, where, s
<1>3. CASE set = <<>>
  <2>1. s.kind = "none"
    BY <1>2, <1>3 DEF NoStatement, Statement
  <2> QED BY <1>1, <1>3, <2>1 DEF Run, s, set, where
<1>4. CASE set # <<>>
  <2>1. Numbers(s, set, where, 0, Len(set)) /\ s.kind = "update"
    <3>1. /\ DOMAIN s = Fields /\ s.vals = <<>> /\ s.kind = "update"
          /\ s.set = [i \in DOMAIN set |-> <<set[i], i>>]
          /\ s.where = [i \in DOMAIN where |-> <<where[i], Len(set) + i>>]
      BY <1>2, <1>4 DEF Statement, Fields
    <3>2. [i \in DOMAIN set |-> <<set[i], i>>] = [i \in DOMAIN set |-> <<set[i], 0 + i>>]
      <4>1. DOMAIN set = 1..Len(set)
        BY <1>1
      <4> QED BY <4>1
    <3> QED BY <3>1, <3>2 DEF Numbers
  <2>2. Continue(set, where, 0, Len(set))
    BY DEF Continue
  <2>3. Len(set) \in Nat /\ Len(where) \in Nat
    BY <1>1
  <2>4. /\ Len(args) = Len(set) + Len(where)
        /\ \A i \in 1..Len(set) : args[i] = values[set[i]]
        /\ \A i \in 1..Len(where) : args[Len(set) + i] = values[where[i]]
    <3> DEFINE k == Len(set)
               l == Len(where)
               both == set \o where
    <3>1. both \in Seq(Range(Columns))
      BY <1>1, ConcatProperties
    <3>2. /\ Len(both) = k + l
          /\ \A i \in 1..k : both[i] = set[i]
          /\ \A i \in 1..l : both[k + i] = where[i]
      BY <1>1, JoinedIs
    <3>3. Len(args) = Len(both) /\ \A i \in 1..Len(both) : args[i] = values[both[i]]
      BY <3>1, ValuesOfIs
    <3>4. k \in Nat /\ l \in Nat
      BY <2>3
    <3> HIDE DEF k, l, both, args
    <3>5. (\A i \in 1..k : i \in 1..k + l) /\ (\A i \in 1..l : k + i \in 1..k + l)
      BY <3>4
    <3> QED BY <3>2, <3>3, <3>5 DEF k, l
  <2> HIDE DEF args
  <2>5. Run(s, args) = Updated(Where(tests), sets)
    <3>1. Len(set) \in Nat /\ 0 \in Nat
      BY <2>3
    <3>2. Called(s, args, Range(Columns), set, where, 0, Len(set))
      BY <1>1, <2>1, <2>2, <2>4, <3>1 DEF Called
    <3>3. Does(s, args, sets, tests)
      BY <3>2, NumberedRuns
    <3> QED BY <2>1, <3>3 DEF Does
  <2>6. Pairs(sets, set, values)
    <3>1. \A i \in 1..Len(set) : args[IF ByPlace THEN 0 + i ELSE 0 + i] = values[set[i]]
      <4>1. \A i \in 1..Len(set) : 0 + i = i
        BY <2>3
      <4> QED BY <2>4, <4>1
    <3> QED BY <1>1, <3>1, GetsPairs
  <2>7. Pairs(tests, where, values)
    <3>1. \A i \in 1..Len(where) : args[IF ByPlace THEN Len(set) + i ELSE Len(set) + i] = values[where[i]]
      BY <2>4
    <3> QED BY <1>1, <3>1, GetsPairs
  <2> HIDE DEF sets, tests
  <2>8. Where(tests) = found
    BY <1>1, <2>7, KeyRowsAre
  <2>9. Updated(found, sets) = Changed(found, values)
    <3>1. Range(set) \subseteq DOMAIN values
      BY <1>1
    <3>2. \A r \in found : \A c \in DOMAIN values : c \in Range(set) \/ r[c] = values[c]
      BY <1>1, MatchingIs
    <3> HIDE DEF found
    <3> QED BY <1>1, <2>6, <3>1, <3>2, UpdatedPairs
  <2> QED BY <1>1, <1>4, <2>5, <2>8, <2>9 DEF s, args, set, where
<1> QED BY <1>3, <1>4

LEMMA KeyQueryDoes ==
  ASSUME keys \in Keys, NEW cols \in KeyOrders, NEW values,
         NEW s, Numbers(s, <<>>, Selected(cols, PKColumns), 0, 0)
  PROVE  LET args == ValuesOf(Selected(cols, PKColumns), values)
             found == Matching(Restricted(values, keys.pk))
         IN /\ s.kind = "delete" => Run(s, args) = Done(table \ found, found)
            /\ s.kind = "select" => Run(s, args) = Done(table, found)
<1> DEFINE pk == Selected(cols, PKColumns)
           args == ValuesOf(pk, values)
           none == <<>>
           tests == Gets(pk, args, Len(none), 0)
           found == Matching(Restricted(values, keys.pk))
<1>1. pk \in Seq(Range(Columns)) /\ Range(pk) = keys.pk /\ Numbers(s, none, pk, 0, 0)
  BY KeyColumnsAre
<1> HIDE DEF pk
<1>2. Len(args) = Len(pk) /\ \A i \in 1..Len(pk) : args[i] = values[pk[i]]
  BY <1>1, ValuesOfIs
<1>3. none \in Seq(Range(Columns)) /\ Len(none) = 0 /\ Len(pk) \in Nat /\ 0 + Len(pk) = Len(pk)
  BY <1>1
<1> HIDE DEF args, none, found
<1>4. Continue(none, pk, 0, 0) /\ Len(args) = Len(none) + Len(pk)
  BY <1>2, <1>3 DEF Continue
<1>5. /\ s.kind = "delete" => Run(s, args) = Done(table \ Where(tests), Where(tests))
      /\ s.kind = "select" => Run(s, args) = Done(table, Where(tests))
  <2>1. Called(s, args, Range(Columns), none, pk, 0, 0)
    BY <1>1, <1>3, <1>4 DEF Called
  <2>2. Does(s, args, Gets(none, args, 0, 0), tests)
    BY <2>1, NumberedRuns
  <2> QED BY <2>2 DEF Does
<1>6. Pairs(tests, pk, values)
  <2>1. \A i \in 1..Len(pk) : args[IF ByPlace THEN Len(none) + i ELSE 0 + i] = values[pk[i]]
    <3>1. \A i \in 1..Len(pk) : Len(none) + i = i /\ 0 + i = i
      BY <1>3
    <3> QED BY <1>2, <3>1
  <2> QED BY <1>1, <2>1, GetsPairs
<1> HIDE DEF tests
<1>7. Where(tests) = found
  BY <1>1, <1>6, KeyRowsAre DEF found
<1> QED BY <1>5, <1>7 DEF args, pk, found

LEMMA KeyQueriesAre ==
  ASSUME keys \in Keys, NEW cols \in KeyOrders
  PROVE  LET pk == Selected(cols, PKColumns)
         IN /\ Numbers(Delete(pk), <<>>, pk, 0, 0) /\ Delete(pk).kind = "delete"
            /\ Numbers(QueryRowWithPK(pk), <<>>, pk, 0, 0) /\ QueryRowWithPK(pk).kind = "select"
<1> DEFINE pk == Selected(cols, PKColumns)
           none == <<>>
<1>1. pk \in Seq(Range(Columns))
  BY KeyColumnsAre
<1> HIDE DEF pk
<1>2. [i \in DOMAIN pk |-> <<pk[i], i>>] = [i \in DOMAIN pk |-> <<pk[i], 0 + i>>]
  <2>1. DOMAIN pk = 1..Len(pk)
    BY <1>1
  <2> QED BY <2>1
<1>3. <<>> = [i \in DOMAIN <<>> |-> <<(<<>>)[i], 0 + i>>]
  OBVIOUS
<1>4. /\ DOMAIN Delete(pk) = Fields /\ Delete(pk).vals = <<>> /\ Delete(pk).set = <<>>
      /\ Delete(pk).where = [i \in DOMAIN pk |-> <<pk[i], i>>] /\ Delete(pk).kind = "delete"
  BY DEF Delete, Statement, Fields
<1>5. /\ DOMAIN QueryRowWithPK(pk) = Fields /\ QueryRowWithPK(pk).vals = <<>> /\ QueryRowWithPK(pk).set = <<>>
      /\ QueryRowWithPK(pk).where = [i \in DOMAIN pk |-> <<pk[i], i>>] /\ QueryRowWithPK(pk).kind = "select"
  BY DEF QueryRowWithPK, Statement, Fields
<1>6. Numbers(Delete(pk), <<>>, pk, 0, 0)
  BY <1>2, <1>3, <1>4 DEF Numbers
<1>7. Numbers(QueryRowWithPK(pk), <<>>, pk, 0, 0)
  BY <1>2, <1>3, <1>5 DEF Numbers
<1> QED BY <1>4, <1>5, <1>6, <1>7 DEF pk

-------------------------------------------------------------------------------
(* The inductive invariant, and that each call keeps it.                    *)
DialectsInv == dialect \in Dialect /\ keys \in Keys /\ SameInEveryDialect

(* A call whose statement has the effect it promises keeps the invariant.   *)
Kept(statement, args, want, differs) == ~differs => Run(statement, args) = want

LEMMA ExecuteKeeps ==
  ASSUME DialectsInv, NEW statement, NEW args, NEW want, NEW differs,
         Kept(statement, args, want, differs), Execute(statement, args, want, differs)
  PROVE  DialectsInv'
<1>1. dialect' = dialect /\ keys' = keys
  BY DEF Execute
<1>2. last'.want = want /\ last'.got = Run(statement, args) /\ last'.differs = differs
  BY DEF Execute
<1>3. SameInEveryDialect'
  BY <1>2 DEF SameInEveryDialect, Kept
<1> QED BY <1>1, <1>3 DEF DialectsInv

LEMMA NoStatementFails == \A args : Run(NoStatement, args) = Failed("build")
BY DEF Run, NoStatement, Statement

LEMMA CallValuesAre ==
  /\ \A values \in Partial : DOMAIN values \subseteq Range(Columns) /\ DOMAIN values # {}
  /\ \A values \in Full : DOMAIN values = Range(Columns) /\ \A c \in Range(Columns) : values[c] # Null
<1>1. ASSUME NEW values \in Partial PROVE DOMAIN values \subseteq Range(Columns) /\ DOMAIN values # {}
  <2>1. PICK cols \in (SUBSET Range(Columns)) \ {{}} : values \in [cols -> Data]
    BY DEF Partial
  <2>2. DOMAIN values = cols
    BY <2>1
  <2>3. cols \subseteq Range(Columns)
    OBVIOUS
  <2>4. cols # {}
    <3>1. {} \in {{}}
      OBVIOUS
    <3>2. cols \notin {{}}
      BY <2>1
    <3> QED BY <3>1, <3>2, Zenon
  <2> QED BY <2>2, <2>3, <2>4
<1>2. ASSUME NEW values \in Full PROVE DOMAIN values = Range(Columns) /\ \A c \in Range(Columns) : values[c] # Null
  BY DialectsAssumption DEF Full
<1> QED BY <1>1, <1>2

LEMMA InsertKeeps ==
  ASSUME DialectsInv, NEW values \in Partial, CallInsert(values)
  PROVE  DialectsInv'
<1> DEFINE cols == SortedColumns(values)
<1>1. Kept(Insert(cols), ValuesOf(cols, values), Replaced({}, {RowOf(values)}, 1), FALSE)
  BY CallValuesAre, InsertDoes DEF Kept
<1>2. Execute(Insert(cols), ValuesOf(cols, values), Replaced({}, {RowOf(values)}, 1), FALSE)
  BY DEF CallInsert
<1> QED BY <1>1, <1>2, ExecuteKeeps

LEMMA InsertRowsKeeps ==
  ASSUME DialectsInv, NEW cols \in Orders, NEW first \in Full, NEW second \in Full, CallInsertRows(cols, first, second)
  PROVE  DialectsInv'
<1> DEFINE statement == InsertRows(cols, 2)
           args == ValuesOf(cols, first) \o ValuesOf(cols, second)
           want == Replaced({}, {RowOf(first), RowOf(second)}, 2)
<1>1. Run(statement, args) = want
  BY CallValuesAre, InsertRowsDoes DEF DialectsInv
<1>2. Execute(statement, args, want, FALSE)
  BY DEF CallInsertRows
<1> HIDE DEF statement, args, want
<1>3. Kept(statement, args, want, FALSE)
  BY <1>1 DEF Kept
<1> QED BY <1>2, <1>3, ExecuteKeeps

LEMMA InsertUniqueKeeps ==
  ASSUME DialectsInv, NEW values \in Partial, NEW key \in {keys.pk, keys.other}, NEW target \in SetToSeqs(key),
         CallInsertUnique(values, target)
  PROVE  DialectsInv'
<1> DEFINE cols == SortedColumns(values)
           r == RowOf(values)
           statement == InsertUnique(cols, target)
           args == ValuesOf(cols, values)
           want == IF HasKey(r) /\ \E x \in table : Agree(x, r, key) THEN Done(table, {}) ELSE Replaced({}, {r}, 1)
           differs == OnOtherKey(r, key)
<1>1. Range(target) = key
  <2>1. IsFiniteSet(key)
    BY KeysAre DEF DialectsInv
  <2> QED BY <2>1, SetToSeqsAre
<1>2. ~differs => Run(statement, args) = want
  BY <1>1, CallValuesAre, InsertUniqueDoes DEF DialectsInv
<1>3. Execute(statement, args, want, differs)
  BY <1>1 DEF CallInsertUnique
<1> HIDE DEF statement, args, want, differs
<1>4. Kept(statement, args, want, differs)
  BY <1>2 DEF Kept
<1> QED BY <1>3, <1>4, ExecuteKeeps

LEMMA UpsertKeeps ==
  ASSUME DialectsInv, NEW full \in Full, NEW cols \in KeyOrders, NEW values, values = Restricted(full, Range(cols)),
         CallUpsert(cols, values)
  PROVE  DialectsInv'
<1> DEFINE r == RowOf(values)
           found == Matching(Restricted(values, keys.pk))
           statement == Upsert(cols)
           args == ValuesOf(cols, values)
           does == IF found = {} THEN Replaced({}, {r}, 1) ELSE Changed(found, values)
           want == IF Range(cols) \subseteq keys.pk THEN Failed("build") ELSE does
           differs == OnOtherKey(r, keys.pk)
<1>1. DOMAIN values = Range(cols) /\ \A c \in keys.pk : values[c] # Null
  <2>1. keys.pk \subseteq Range(cols) /\ keys.pk \subseteq Range(Columns)
    BY KeyColumnsAre, KeysAre DEF DialectsInv
  <2> QED BY <2>1, CallValuesAre DEF Restricted
<1>2. ~differs => Run(statement, args) = want
  <2>1. CASE Range(cols) \subseteq keys.pk
    <3>1. statement = NoStatement
      BY <2>1 DEF Upsert
    <3> QED BY <2>1, <3>1, NoStatementFails
  <2>2. CASE ~(Range(cols) \subseteq keys.pk)
    <3>1. ~differs => Run(statement, args) = does
      BY <1>1, <2>2, UpsertDoes DEF DialectsInv
    <3> HIDE DEF does, statement, args, differs
    <3> QED BY <2>2, <3>1
  <2> QED BY <2>1, <2>2
<1>3. Execute(statement, args, want, differs)
  BY DEF CallUpsert
<1> HIDE DEF statement, args, want, differs
<1>4. Kept(statement, args, want, differs)
  BY <1>2 DEF Kept
<1> QED BY <1>3, <1>4, ExecuteKeeps

LEMMA UpdateKeeps ==
  ASSUME DialectsInv, NEW values \in Partial, NEW where \in Wheres, NEW tests \in [Range(where) -> Data],
         CallUpdate(values, where, tests)
  PROVE  DialectsInv'
<1> DEFINE cols == SortedColumns(values)
           statement == Update(cols, where)
           args == UpdateArgs(ValuesOf(cols, values), ValuesOf(where, tests))
           want == Changed(Matching(tests), values)
<1>1. Run(statement, args) = want
  BY CallValuesAre, UpdateDoes
<1>2. Execute(statement, args, want, FALSE)
  BY DEF CallUpdate
<1> HIDE DEF statement, args, want
<1>3. Kept(statement, args, want, FALSE)
  BY <1>1 DEF Kept
<1> QED BY <1>2, <1>3, ExecuteKeeps

LEMMA UpdateRowKeeps ==
  ASSUME DialectsInv, NEW full \in Full, NEW cols \in KeyOrders, NEW values, values = Restricted(full, Range(cols)),
         CallUpdateRow(cols, values)
  PROVE  DialectsInv'
<1> DEFINE statement == UpdateColumns(cols)
           args == ValuesOf(Selected(cols, OtherColumns) \o Selected(cols, PKColumns), values)
           want == IF Range(cols) \subseteq keys.pk THEN Failed("build")
                   ELSE Changed(Matching(Restricted(values, keys.pk)), values)
<1>1. DOMAIN values = Range(cols)
  BY DEF Restricted
<1>2. Run(statement, args) = want
  BY <1>1, UpdateRowDoes DEF DialectsInv
<1>3. Execute(statement, args, want, FALSE)
  BY DEF CallUpdateRow
<1> HIDE DEF statement, args, want
<1>4. Kept(statement, args, want, FALSE)
  BY <1>2 DEF Kept
<1> QED BY <1>3, <1>4, ExecuteKeeps

LEMMA KeyQueriesKeep ==
  ASSUME DialectsInv, NEW values \in Full, NEW cols \in KeyOrders,
         CallDeleteRow(cols, values) \/ CallQueryRow(cols, values)
  PROVE  DialectsInv'
<1> DEFINE pk == Selected(cols, PKColumns)
           args == ValuesOf(pk, values)
           found == Matching(Restricted(values, keys.pk))
           deleted == Done(table \ found, found)
           selected == Done(table, found)
           delete == Delete(pk)
           select == QueryRowWithPK(pk)
<1>1. Numbers(delete, <<>>, pk, 0, 0) /\ delete.kind = "delete" /\ Numbers(select, <<>>, pk, 0, 0) /\ select.kind = "select"
  BY KeyQueriesAre DEF DialectsInv
<1>2. keys \in Keys
  BY DEF DialectsInv
<1>3. Run(delete, args) = deleted
  <2> HIDE DEF delete
  <2>1. delete.kind = "delete" => Run(delete, args) = deleted
    BY <1>1, <1>2, KeyQueryDoes
  <2> QED BY <1>1, <2>1
<1>4. Run(select, args) = selected
  <2> HIDE DEF select
  <2>1. select.kind = "select" => Run(select, args) = selected
    BY <1>1, <1>2, KeyQueryDoes
  <2> QED BY <1>1, <2>1
<1>5. Execute(delete, args, deleted, FALSE) \/ Execute(select, args, selected, FALSE)
  BY DEF CallDeleteRow, CallQueryRow
<1> HIDE DEF delete, select, args, deleted, selected
<1>6. Kept(delete, args, deleted, FALSE) /\ Kept(select, args, selected, FALSE)
  BY <1>3, <1>4 DEF Kept
<1> QED BY <1>5, <1>6, ExecuteKeeps

LEMMA DialectsInvHolds == DialectsSpec => []DialectsInv
<1>1. DialectsInit => DialectsInv
  BY DEF DialectsInit, DialectsInv, SameInEveryDialect, NoCallYet
<1>2. DialectsInv /\ [DialectsNext]_dialectVars => DialectsInv'
  <2> SUFFICES ASSUME DialectsInv, [DialectsNext]_dialectVars PROVE DialectsInv'
    OBVIOUS
  <2>1. ASSUME NEW values \in Partial, CallInsert(values) PROVE DialectsInv'
    BY <2>1, InsertKeeps
  <2>2. ASSUME NEW values \in Partial, NEW key \in {keys.pk, keys.other}, NEW target \in SetToSeqs(key),
               CallInsertUnique(values, target)
        PROVE  DialectsInv'
    BY <2>2, InsertUniqueKeeps
  <2>3. ASSUME NEW values \in Partial, NEW where \in Wheres, NEW args \in [Range(where) -> Data],
               CallUpdate(values, where, args)
        PROVE  DialectsInv'
    BY <2>3, UpdateKeeps
  <2>4. ASSUME NEW values \in Full, NEW cols \in KeyOrders, CallUpsert(cols, Restricted(values, Range(cols)))
        PROVE  DialectsInv'
    BY <2>4, UpsertKeeps
  <2>5. ASSUME NEW values \in Full, NEW cols \in KeyOrders, CallUpdateRow(cols, Restricted(values, Range(cols)))
        PROVE  DialectsInv'
    BY <2>5, UpdateRowKeeps
  <2>6. ASSUME NEW values \in Full, NEW cols \in KeyOrders, CallDeleteRow(cols, values) \/ CallQueryRow(cols, values)
        PROVE  DialectsInv'
    BY <2>6, KeyQueriesKeep
  <2>7. ASSUME NEW first \in Full, NEW second \in Full, NEW cols \in Orders, CallInsertRows(cols, first, second)
        PROVE  DialectsInv'
    BY <2>7, InsertRowsKeeps
  <2>8. CASE CallReturned
    <3>1. dialect' = dialect /\ keys' = keys /\ last' = NoCallYet
      BY <2>8 DEF CallReturned
    <3> QED BY <3>1 DEF DialectsInv, SameInEveryDialect, NoCallYet
  <2>9. CASE UNCHANGED dialectVars
    BY <2>9 DEF dialectVars, DialectsInv, SameInEveryDialect
  <2> QED BY <2>1, <2>2, <2>3, <2>4, <2>5, <2>6, <2>7, <2>8, <2>9 DEF DialectsNext
<1> QED BY <1>1, <1>2, PTL DEF DialectsSpec

(* querybuilder.go and the builders of the drivers: for any columns, keys and *)
(* values, every call has the effect it promises and reports the same rows or *)
(* the same error in every dialect, but for the conflicts on other keys that  *)
(* MySQL does not tell apart.                                                 *)
THEOREM DialectsAgree == DialectsSpec => []SameInEveryDialect
<1>1. DialectsInv => SameInEveryDialect
  BY DEF DialectsInv
<1> QED BY <1>1, DialectsInvHolds, PTL

===============================================================================
