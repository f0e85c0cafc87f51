------------------------- MODULE TrendIngest_proofs -------------------------
(***************************************************************************)
(* Proofs about TrendIngest, for any number of processes and boards and    *)
(* any time limits.                                                        *)
(***************************************************************************)
EXTENDS TrendIngest, TLAPS

-----------------------------------------------------------------------------
(* Boards *)

\* Time leaves a row a row, and changes nothing but the age of its items.
LEMMA OlderRowType ==
  ASSUME NEW row \in BoardRow
  PROVE  /\ OlderRow(row) \in BoardRow
         /\ OlderRow(row).status = row.status
         /\ HasItems(row) => OlderRow(row).age = Older(row.age, FreshFor + 1)
BY TimeAssumption DEF OlderRow, Older, HasItems, BoardRow, RowAge

\* The row a run writes for a board is a row; its items are dated by the run's
\* clock when they were fetched, and as before when they were not.
LEMMA NextBoardType ==
  ASSUME NEW prev \in BoardRow, NEW now \in 0..RunLimit,
         NEW outcome \in {"fetched", "failed", "keyless"}
  PROVE  /\ NextBoard(prev, outcome, now) \in BoardRow
         /\ HasItems(NextBoard(prev, outcome, now)) =>
              \/ outcome = "fetched" /\ NextBoard(prev, outcome, now).age = now
              \/ /\ outcome # "fetched" /\ HasItems(prev)
                 /\ NextBoard(prev, outcome, now).age = prev.age
<1>1. CASE outcome = "fetched"
  <2>1. NextBoard(prev, outcome, now) = [status |-> "live", age |-> now]
    BY <1>1 DEF NextBoard
  <2>2. now \in RowAge
    BY TimeAssumption DEF RowAge
  <2> QED BY <1>1, <2>1, <2>2 DEF BoardRow
<1>2. CASE outcome = "failed"
  BY <1>2, TimeAssumption DEF NextBoard, UnfetchedBoard, BoardRow, RowAge, HasItems
<1>3. CASE outcome = "keyless"
  BY <1>3, TimeAssumption DEF NextBoard, UnfetchedBoard, BoardRow, RowAge, HasItems
<1> QED BY <1>1, <1>2, <1>3

-----------------------------------------------------------------------------
(* Types *)

LEMMA TypeInit == Init => TypeOK
BY TimeAssumption DEF Init, TypeOK, LockFile, BoardRow, RowAge, NoLock, NoBoard

LEMMA TypeStep == TypeOK /\ [Next]_vars => TypeOK'
<1> SUFFICES ASSUME TypeOK, [Next]_vars PROVE TypeOK'
  OBVIOUS
<1> USE TimeAssumption DEF TypeOK
<1>1. CASE Tick
  <2>1. lock' \in LockFile
    BY <1>1 DEF Tick, Older, LockFile, NoLock
  <2>2. age' \in [Run -> 0..RunLimit]
    BY <1>1 DEF Tick
  <2>3. latest' \in [Board -> BoardRow] /\ snapshot' \in [Run -> [Board -> BoardRow]]
    BY <1>1, OlderRowType DEF Tick
  <2>4. lastFetch' \in [Board -> RowAge]
    BY <1>1 DEF Tick, Older, RowAge
  <2> QED BY <1>1, <2>1, <2>2, <2>3, <2>4 DEF Tick
<1>2. ASSUME NEW p \in Run, StatLock(p) PROVE TypeOK'
  BY <1>2 DEF StatLock
<1>3. ASSUME NEW p \in Run, Unlink(p) PROVE TypeOK'
  BY <1>3 DEF Unlink, LockFile, NoLock
<1>4. ASSUME NEW p \in Run, CreateLock(p) PROVE TypeOK'
  BY <1>4 DEF CreateLock, LockFile, Working
<1>5. ASSUME NEW p \in Run, ReadPrevious(p) PROVE TypeOK'
  BY <1>5 DEF ReadPrevious, Working
<1>6. ASSUME NEW p \in Run, Collect(p) PROVE TypeOK'
  <2> PICK outcome \in [Board -> {"fetched", "failed", "keyless"}] :
        /\ snapshot' = [snapshot EXCEPT ![p] =
             [b \in Board |-> NextBoard(snapshot[p][b], outcome[b], age[p])]]
        /\ lastFetch' = [b \in Board |-> IF outcome[b] = "fetched" THEN 0 ELSE lastFetch[b]]
    BY <1>6 DEF Collect
  <2>1. \A b \in Board : NextBoard(snapshot[p][b], outcome[b], age[p]) \in BoardRow
    <3> TAKE b \in Board
    <3> snapshot[p][b] \in BoardRow /\ outcome[b] \in {"fetched", "failed", "keyless"}
          /\ age[p] \in 0..RunLimit
      OBVIOUS
    <3> HIDE DEF TypeOK
    <3> QED BY NextBoardType
  <2>2. snapshot' \in [Run -> [Board -> BoardRow]]
    BY <2>1
  <2>3. lastFetch' \in [Board -> RowAge]
    <3>1. 0 \in RowAge
      BY DEF RowAge
    <3> QED BY <3>1
  <2> QED BY <1>6, <2>2, <2>3 DEF Collect, Working
<1>7. ASSUME NEW p \in Run, Publish(p) PROVE TypeOK'
  BY <1>7 DEF Publish, Working
<1>8. ASSUME NEW p \in Run, WriteFails(p) PROVE TypeOK'
  BY <1>8 DEF WriteFails, Working
<1>9. ASSUME NEW p \in Run, Release(p) PROVE TypeOK'
  BY <1>9 DEF Release, LockFile, NoLock
<1>10. ASSUME NEW p \in Run, Crash(p) PROVE TypeOK'
  BY <1>10 DEF Crash
<1>11. CASE UNCHANGED vars
  BY <1>11 DEF vars
<1> QED
  BY <1>1, <1>2, <1>3, <1>4, <1>5, <1>6, <1>7, <1>8, <1>9, <1>10, <1>11 DEF Next, Continue

\* The variables keep their types, whatever the limits and however many
\* processes run and die.
THEOREM TypeCorrect == Spec => []TypeOK
BY TypeInit, TypeStep, PTL DEF Spec

-----------------------------------------------------------------------------
(* Dates *)

\* Items in a file or in a process's memory are never dated later than the last
\* fetch that succeeded.
HonestRow(since, row) == HasItems(row) => since <= row.age

HonestDates ==
  \A b \in Board : /\ HonestRow(lastFetch[b], latest[b])
                   /\ \A p \in Run : HonestRow(lastFetch[b], snapshot[p][b])

LEMMA DatesInit == Init => HonestDates
BY DEF Init, HonestDates, HonestRow, HasItems, NoBoard

LEMMA DatesStep == TypeOK /\ HonestDates /\ [Next]_vars => HonestDates'
<1> SUFFICES ASSUME TypeOK, HonestDates, [Next]_vars PROVE HonestDates'
  OBVIOUS
<1>1. CASE Tick
  <2>1. ASSUME NEW since \in RowAge, NEW row \in BoardRow, HonestRow(since, row)
        PROVE  HonestRow(Older(since, FreshFor + 1), OlderRow(row))
    BY <2>1, OlderRowType, TimeAssumption DEF HonestRow, HasItems, Older, BoardRow, RowAge
  <2>2. ASSUME NEW b \in Board PROVE HonestRow(lastFetch'[b], latest'[b])
    BY <1>1, <2>1 DEF Tick, TypeOK, HonestDates
  <2>3. ASSUME NEW b \in Board, NEW p \in Run PROVE HonestRow(lastFetch'[b], snapshot'[p][b])
    BY <1>1, <2>1 DEF Tick, TypeOK, HonestDates
  <2> QED BY <2>2, <2>3 DEF HonestDates
<1>2. ASSUME NEW p \in Run, Collect(p) PROVE HonestDates'
  <2> PICK outcome \in [Board -> {"fetched", "failed", "keyless"}] :
        /\ snapshot' = [snapshot EXCEPT ![p] =
             [b \in Board |-> NextBoard(snapshot[p][b], outcome[b], age[p])]]
        /\ lastFetch' = [b \in Board |-> IF outcome[b] = "fetched" THEN 0 ELSE lastFetch[b]]
        /\ UNCHANGED latest
    BY <1>2 DEF Collect
  <2>1. ASSUME NEW b \in Board
        PROVE  lastFetch'[b] \in RowAge /\ lastFetch'[b] <= lastFetch[b]
    BY TimeAssumption DEF TypeOK, RowAge
  <2>2. ASSUME NEW b \in Board, NEW row \in BoardRow, HonestRow(lastFetch[b], row)
        PROVE  HonestRow(lastFetch'[b], row)
    BY <2>1, <2>2, TimeAssumption DEF HonestRow, BoardRow, RowAge, TypeOK
  <2>3. ASSUME NEW b \in Board
        PROVE  HonestRow(lastFetch'[b], NextBoard(snapshot[p][b], outcome[b], age[p]))
    <3> DEFINE next == NextBoard(snapshot[p][b], outcome[b], age[p])
    <3>1. snapshot[p][b] \in BoardRow /\ age[p] \in 0..RunLimit
      BY DEF TypeOK
    <3>2. HonestRow(lastFetch[b], snapshot[p][b])
      BY DEF HonestDates
    <3>3. outcome[b] = "fetched" => lastFetch'[b] = 0
      OBVIOUS
    <3>4. outcome[b] # "fetched" => lastFetch'[b] = lastFetch[b]
      OBVIOUS
    <3>5. HasItems(next) =>
            \/ outcome[b] = "fetched" /\ next.age = age[p]
            \/ outcome[b] # "fetched" /\ HasItems(snapshot[p][b]) /\ next.age = snapshot[p][b].age
      BY <3>1, NextBoardType
    <3> HIDE DEF next
    <3>6. HonestRow(lastFetch'[b], next)
      BY <3>1, <3>2, <3>3, <3>4, <3>5, TimeAssumption DEF HonestRow
    <3> QED BY <3>6 DEF next
  <2>4. ASSUME NEW b \in Board, NEW q \in Run PROVE HonestRow(lastFetch'[b], snapshot'[q][b])
    <3>1. CASE q = p
      BY <3>1, <2>3 DEF TypeOK
    <3>2. CASE q # p
      BY <3>2, <2>2 DEF TypeOK, HonestDates
    <3> QED BY <3>1, <3>2
  <2>5. ASSUME NEW b \in Board PROVE HonestRow(lastFetch'[b], latest'[b])
    BY <2>2 DEF TypeOK, HonestDates
  <2> QED BY <2>4, <2>5 DEF HonestDates
<1>3. ASSUME NEW p \in Run, ReadPrevious(p) PROVE HonestDates'
  BY <1>3 DEF ReadPrevious, HonestDates, HonestRow, TypeOK
<1>4. ASSUME NEW p \in Run, Publish(p) PROVE HonestDates'
  BY <1>4 DEF Publish, HonestDates, HonestRow
<1>5. CASE UNCHANGED <<snapshot, latest, lastFetch>>
  BY <1>5 DEF HonestDates, HonestRow
<1> QED
  BY <1>1, <1>2, <1>3, <1>4, <1>5
  DEF Next, Continue, StatLock, Unlink, CreateLock, WriteFails, Release, Crash, vars

\* A page never calls a board live without a recent fetch: for any number of
\* overlapping, failing and dying runs.
THEOREM LiveIsRecent == Spec => []LiveMeansRecent
<1>1. TypeOK /\ HonestDates => LiveMeansRecent
  BY TimeAssumption
  DEF TypeOK, HonestDates, HonestRow, LiveMeansRecent, EffectiveStatus, HasItems, BoardRow, RowAge
<1> QED BY <1>1, TypeInit, TypeStep, DatesInit, DatesStep, PTL DEF Spec

-----------------------------------------------------------------------------
(* The lock *)

\* The writer of the lock file is at work, the file is no older than its run, and
\* so no process ever finds it stale.
LockIsHeld ==
  /\ \A p \in Run : pc[p] \in Working => lock.owner = p
  /\ \A p \in Run : lock.owner = p =>
       /\ pc[p] \in Working
       /\ lock.age <= IF pc[p] = "read" THEN age[p] ELSE RunLimit + age[p]
  /\ \A p \in Run : pc[p] # "unlink"

\* ... as long as no process has been killed.
LockInv == crashes = 0 => LockIsHeld

LEMMA LockInit == Init => LockInv
BY ProcessAssumption DEF Init, LockInv, LockIsHeld, NoLock, Working

\* Nothing brings a killed process back.
LEMMA CrashesStep == TypeOK /\ [Next]_vars /\ crashes' = 0 => crashes = 0
BY TimeAssumption
DEF TypeOK, Next, Continue, Tick, StatLock, Unlink, CreateLock, ReadPrevious, Collect,
    Publish, WriteFails, Release, Crash, vars

LEMMA LockStep == TypeOK /\ LockInv /\ [Next]_vars => LockInv'
<1> SUFFICES ASSUME TypeOK, LockIsHeld, [Next]_vars, crashes = 0, crashes' = 0
             PROVE  LockIsHeld'
  BY CrashesStep DEF LockInv
<1> USE ProcessAssumption, TimeAssumption DEF TypeOK, LockIsHeld, LockFile
<1>1. CASE Tick
  BY <1>1 DEF Tick, NoLock, Older, Working
<1>2. ASSUME NEW p \in Run, StatLock(p) PROVE LockIsHeld'
  <2>1. ~LockIsStale
    BY DEF LockIsStale
  <2> QED BY <1>2, <2>1 DEF StatLock, Working
<1>3. ASSUME NEW p \in Run, Unlink(p) PROVE LockIsHeld'
  BY <1>3 DEF Unlink
<1>4. ASSUME NEW p \in Run, CreateLock(p) PROVE LockIsHeld'
  BY <1>4 DEF CreateLock, NoLock, Working
<1>5. ASSUME NEW p \in Run, ReadPrevious(p) PROVE LockIsHeld'
  BY <1>5 DEF ReadPrevious, Working
<1>6. ASSUME NEW p \in Run, Collect(p) PROVE LockIsHeld'
  BY <1>6 DEF Collect, Working
<1>7. ASSUME NEW p \in Run, Publish(p) PROVE LockIsHeld'
  BY <1>7 DEF Publish, Working
<1>8. ASSUME NEW p \in Run, WriteFails(p) PROVE LockIsHeld'
  BY <1>8 DEF WriteFails, Working
<1>9. ASSUME NEW p \in Run, Release(p) PROVE LockIsHeld'
  BY <1>9 DEF Release, NoLock, Working
<1>10. ASSUME NEW p \in Run, Crash(p) PROVE LockIsHeld'
  BY <1>10 DEF Crash
<1>11. CASE UNCHANGED vars
  BY <1>11 DEF vars
<1> QED
  BY <1>1, <1>2, <1>3, <1>4, <1>5, <1>6, <1>7, <1>8, <1>9, <1>10, <1>11 DEF Next, Continue

\* As long as no process has been killed, the lock file keeps any
\* number of runs apart.
THEOREM RunsDoNotOverlap == Spec => []NoOverlap
<1>1. LockInv => NoOverlap
  BY DEF LockInv, LockIsHeld, NoOverlap
<1> QED BY <1>1, TypeInit, TypeStep, LockInit, LockStep, PTL DEF Spec

\* What a run holds in memory continues the file it is about to replace: while it
\* fetches, nobody else writes, and its clock is no older than any date in the file.
Continues(p) ==
  /\ pc[p] = "collect" =>
       /\ snapshot[p] = latest
       /\ \A b \in Board : HasItems(latest[b]) => age[p] <= latest[b].age
  /\ pc[p] = "write" =>
       \A b \in Board : HasItems(latest[b]) =>
         HasItems(snapshot[p][b]) /\ snapshot[p][b].age <= latest[b].age

EachContinues == \A p \in Run : Continues(p)
ContinuesLatest == crashes = 0 => EachContinues

LEMMA ContinuesInit == Init => ContinuesLatest
BY DEF Init, ContinuesLatest, EachContinues, Continues

LEMMA ContinuesStep == TypeOK /\ LockInv /\ ContinuesLatest /\ [Next]_vars => ContinuesLatest'
<1> SUFFICES ASSUME TypeOK, LockIsHeld, EachContinues, [Next]_vars, crashes = 0, crashes' = 0
             PROVE  EachContinues'
  BY CrashesStep DEF LockInv, ContinuesLatest
<1>1. CASE Tick
  <2> SUFFICES ASSUME NEW p \in Run PROVE Continues(p)'
    BY DEF EachContinues
  <2>1. \A b \in Board : /\ latest[b] \in BoardRow /\ snapshot[p][b] \in BoardRow
                          /\ latest'[b] = OlderRow(latest[b])
                          /\ snapshot'[p][b] = OlderRow(snapshot[p][b])
    BY <1>1 DEF Tick, TypeOK
  <2>2. ASSUME pc[p] = "collect", NEW b \in Board, HasItems(latest'[b])
        PROVE  age'[p] <= latest'[b].age
    <3>1. HasItems(latest[b]) /\ latest'[b].age = Older(latest[b].age, FreshFor + 1)
      BY <2>1, <2>2, OlderRowType DEF HasItems
    <3>2. age[p] <= latest[b].age /\ age[p] < RunLimit /\ age'[p] = age[p] + 1
      BY <1>1, <2>2, <3>1 DEF Tick, EachContinues, Continues
    <3> QED BY <2>1, <3>1, <3>2, TimeAssumption DEF Older, TypeOK, BoardRow, RowAge
  <2>3. ASSUME pc[p] = "write", NEW b \in Board, HasItems(latest'[b])
        PROVE  HasItems(snapshot'[p][b]) /\ snapshot'[p][b].age <= latest'[b].age
    <3>1. HasItems(latest[b]) /\ latest'[b].age = Older(latest[b].age, FreshFor + 1)
      BY <2>1, <2>3, OlderRowType DEF HasItems
    <3>2. HasItems(snapshot[p][b]) /\ snapshot[p][b].age <= latest[b].age
      BY <2>3, <3>1 DEF EachContinues, Continues
    <3>3. /\ HasItems(snapshot'[p][b])
          /\ snapshot'[p][b].age = Older(snapshot[p][b].age, FreshFor + 1)
      BY <2>1, <3>2, OlderRowType DEF HasItems
    <3> QED BY <2>1, <3>1, <3>2, <3>3, TimeAssumption DEF Older, BoardRow, RowAge
  <2>4. pc[p] = "collect" => snapshot'[p] = latest'
    BY <1>1 DEF Tick, TypeOK, EachContinues, Continues
  <2> QED BY <1>1, <2>2, <2>3, <2>4 DEF Tick, Continues
<1>2. ASSUME NEW p \in Run, ReadPrevious(p) PROVE EachContinues'
  BY <1>2, TimeAssumption
  DEF ReadPrevious, EachContinues, Continues, LockIsHeld, Working, TypeOK, BoardRow, RowAge
<1>3. ASSUME NEW p \in Run, Collect(p) PROVE EachContinues'
  <2> PICK outcome \in [Board -> {"fetched", "failed", "keyless"}] :
        snapshot' = [snapshot EXCEPT ![p] =
             [b \in Board |-> NextBoard(snapshot[p][b], outcome[b], age[p])]]
    BY <1>3 DEF Collect
  <2>1. ASSUME NEW b \in Board, HasItems(latest[b])
        PROVE  HasItems(snapshot'[p][b]) /\ snapshot'[p][b].age <= latest[b].age
    <3> DEFINE next == NextBoard(snapshot[p][b], outcome[b], age[p])
    <3>1. /\ snapshot[p][b] = latest[b] /\ latest[b] \in BoardRow
          /\ age[p] <= latest[b].age /\ age[p] \in 0..RunLimit
      BY <1>3, <2>1 DEF Collect, EachContinues, Continues, TypeOK
    <3>2. snapshot'[p][b] = next
      BY DEF TypeOK
    <3>3. HasItems(next)
      BY <2>1, <3>1 DEF NextBoard, UnfetchedBoard, HasItems, BoardRow
    <3>4. next.age = age[p] \/ next.age = latest[b].age
      BY <3>1, <3>3, NextBoardType
    <3> HIDE DEF next
    <3> QED BY <3>1, <3>2, <3>3, <3>4, TimeAssumption DEF BoardRow, RowAge
  <2>2. \A q \in Run \ {p} : pc[q] \notin {"collect", "write"}
    BY <1>3 DEF Collect, LockIsHeld, Working
  <2> QED BY <1>3, <2>1, <2>2 DEF Collect, EachContinues, Continues, TypeOK
<1>4. ASSUME NEW p \in Run, Publish(p) PROVE EachContinues'
  BY <1>4 DEF Publish, EachContinues, Continues, LockIsHeld, Working, TypeOK
<1>5. ASSUME NEW p \in Run, StatLock(p) PROVE EachContinues'
  BY <1>5 DEF StatLock, EachContinues, Continues, TypeOK
<1>6. ASSUME NEW p \in Run, Unlink(p) \/ CreateLock(p) \/ WriteFails(p) \/ Release(p) \/ Crash(p)
      PROVE  EachContinues'
  BY <1>6 DEF Unlink, CreateLock, WriteFails, Release, Crash, EachContinues, Continues, TypeOK
<1>7. CASE UNCHANGED vars
  BY <1>7 DEF vars, EachContinues, Continues
<1> QED
  BY <1>1, <1>2, <1>3, <1>4, <1>5, <1>6, <1>7 DEF Next, Continue

\* As long as no process has been killed, no write of the snapshot
\* loses the items of a board or replaces them by older ones.
THEOREM WritesNeverRegress == Spec => BoardsNeverRegress
<1> DEFINE Kept == crashes = 0 => \A p \in Run, b \in Board :
                     pc[p] = "write" /\ pc'[p] = "release" /\ HasItems(latest[b]) =>
                       HasItems(latest'[b]) /\ latest'[b].age <= latest[b].age
<1>1. TypeOK /\ ContinuesLatest /\ [Next]_vars => [Kept]_vars
  <2> SUFFICES ASSUME TypeOK, ContinuesLatest, Next, crashes = 0,
                      NEW p \in Run, NEW b \in Board,
                      pc[p] = "write", pc'[p] = "release", HasItems(latest[b])
               PROVE  HasItems(latest'[b]) /\ latest'[b].age <= latest[b].age
    OBVIOUS
  <2>1. Publish(p) \/ WriteFails(p)
    BY DEF TypeOK, Next, Continue, Tick, StatLock, Unlink, CreateLock, ReadPrevious, Collect,
           Publish, WriteFails, Release, Crash
  <2>2. CASE Publish(p)
    BY <2>2 DEF Publish, ContinuesLatest, EachContinues, Continues
  <2>3. CASE WriteFails(p)
    BY <2>3, TimeAssumption DEF WriteFails, TypeOK, BoardRow, RowAge
  <2> QED BY <2>1, <2>2, <2>3
<1>2. Spec => [][Kept]_vars
  BY <1>1, TypeInit, TypeStep, LockInit, LockStep, ContinuesInit, ContinuesStep, PTL DEF Spec
<1> QED BY <1>2 DEF BoardsNeverRegress
=============================================================================
