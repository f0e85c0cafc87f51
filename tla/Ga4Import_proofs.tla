-------------------------- MODULE Ga4Import_proofs --------------------------
(***************************************************************************)
(* What Ga4Import.tla promises, for a window and chunks of any length and  *)
(* any number of overlapping backfills and requests.                       *)
(*                                                                         *)
(* A backfill leaves no gap because every process, fast or slow, has the   *)
(* days before its own cursor in the table (CursorsAreGapless): whichever  *)
(* of them writes the checkpoint last, it writes a day up to which all has *)
(* been imported.  The lock of the source is kept, although requests read  *)
(* it before they write, because all that have read one unlocked policy    *)
(* ask for the same source (RequestsAgree).                                *)
(***************************************************************************)
EXTENDS Ga4Import, TLAPS

\* The cursor of a report in hand is a day of the window, and the report ends
\* at or after it: the days processed can be counted (MoveCheckpoint).
ReportsAreOrdered ==
  \A i \in Importer : importer[i].phase = "store" =>
    importer[i].cursor <= importer[i].last

CursorsAreGapless ==
  \A i \in Importer :
    /\ importer[i].phase = "fetch" => 1..(importer[i].cursor - 1) \subseteq imported
    /\ importer[i].phase = "store" => 1..importer[i].last \subseteq imported
    /\ importer[i].phase = "end" => 1..Days \subseteq imported

RequestsAgree ==
  LockDays > 0 =>
    \A r \in Request : request[r] \in
      {"none", IF policy.locked > 0 THEN policy.source ELSE Other(policy.source)}

Inv == TypeOK /\ ReportsAreOrdered /\ CursorsAreGapless /\ BackfillIsGapless /\ RequestsAgree

-----------------------------------------------------------------------------
(* Lemmas about the report's bounds *)

\* A report ends on a day of the window, not before it starts (runGa4Backfill).
LEMMA ReportEnds ==
  ASSUME NEW day \in 1..Days
  PROVE  LastOf(day) \in day..Days /\ day - 1 <= LastOf(day)
BY WindowAssumption DEF LastOf

\* The days processed never exceed the window.
LEMMA LowerBounds ==
  ASSUME NEW a \in Nat, NEW b \in Nat
  PROVE  Lower(a, b) \in 0..a
BY DEF Lower

\* What FetchReport stores completes the days up to the report's last one.
LEMMA PrefixExtends ==
  ASSUME NEW day \in 1..Days, NEW last \in day..Days,
         NEW S, 1..(day - 1) \subseteq S
  PROVE  1..last \subseteq S \cup day..last
BY WindowAssumption

-----------------------------------------------------------------------------
(* Types *)

\* Rows, importers and requests keep their types for any window, chunk and lock: in
\* particular checkpoint and processedDays stay within the window (runGa4Backfill).
LEMMA TypeStep ==
  ASSUME TypeOK, ReportsAreOrdered, Next
  PROVE  TypeOK' /\ ReportsAreOrdered'
<1> USE WindowAssumption, LockAssumption
<1>0. conn \in Connection /\ job \in Job /\ policy \in Policy
  BY DEF TypeOK
<1>a. ASSUME NEW s \in ConnectionState
      PROVE  [conn EXCEPT !.state = s] \in Connection
  BY <1>0 DEF Connection
<1>b. ASSUME NEW s \in ConnectionState, NEW e \in BOOLEAN
      PROVE  [state |-> s, eligible |-> e] \in Connection
  BY DEF Connection
<1>c. ASSUME NEW s \in JobStatus
      PROVE  [job EXCEPT !.status = s] \in Job
  BY <1>0 DEF Job
<1>d. ErrorState => conn' \in Connection
  <2>1. conn.eligible \in BOOLEAN
    BY <1>0 DEF Connection
  <2> QED BY <2>1, <1>b DEF ErrorState, ConnectionState
<1>1. CASE StartOAuth \/ CompleteOAuth
  <2>1. conn' \in Connection
    BY <1>1, <1>a DEF StartOAuth, CompleteOAuth, SetState, ConnectionState
  <2> QED
    BY <1>1, <2>1 DEF TypeOK, ReportsAreOrdered, StartOAuth, CompleteOAuth, Operation,
                      history, source
<1>2. CASE SaveCredential
  <2>1. conn' \in Connection
    BY <1>2, <1>0, <1>b DEF SaveCredential, ConnectionState
  <2> QED
    BY <1>2, <2>1 DEF TypeOK, ReportsAreOrdered, SaveCredential, history, source
<1>3. CASE PersistSelection
  <2>1. job' \in Job
    BY <1>3, <1>0, <1>c DEF PersistSelection, JobStatus
  <2>2. conn' \in Connection
    BY <1>3, <1>b DEF PersistSelection, ConnectionState
  <2> QED
    BY <1>3, <2>1, <2>2 DEF TypeOK, ReportsAreOrdered, PersistSelection, source
<1>4. CASE StoreSync
  <2>1. conn' \in Connection
    BY <1>4, <1>a DEF StoreSync, SetState, ConnectionState
  <2> QED
    BY <1>4, <2>1 DEF TypeOK, ReportsAreOrdered, StoreSync, source
<1>5. CASE SyncFails
  BY <1>5, <1>d DEF TypeOK, ReportsAreOrdered, SyncFails, history, source
<1>6. CASE StartBackfill
  <2>1. job' \in Job
    BY <1>6, <1>c DEF StartBackfill, JobStatus
  <2>2. conn' \in Connection
    BY <1>6, <1>a DEF StartBackfill, SetState, ConnectionState
  <2> QED
    BY <1>6, <2>1, <2>2 DEF TypeOK, ReportsAreOrdered, StartBackfill, source
<1>11. ASSUME NEW op \in Operation, Fetch(op) \/ OperationDies(op)
       PROVE  TypeOK' /\ ReportsAreOrdered'
  BY <1>11 DEF TypeOK, ReportsAreOrdered, Fetch, OperationDies, history, source
<1>12. ASSUME NEW revoke \in BOOLEAN, Disconnect(revoke)
       PROVE  TypeOK' /\ ReportsAreOrdered'
  <2>1. conn' \in Connection
    BY <1>12, <1>b DEF Disconnect, ConnectionState
  <2> QED
    BY <1>12, <2>1 DEF TypeOK, ReportsAreOrdered, Disconnect, history, source
<1>7. ASSUME NEW i \in Importer,
             BeginImport(i) \/ FetchReport(i) \/ MoveCheckpoint(i)
               \/ EndImport(i) \/ ImportFails(i) \/ ImporterDies(i)
      PROVE  TypeOK' /\ ReportsAreOrdered'
  <2> DEFINE Frame == /\ underway' \subseteq Operation /\ credential' \in BOOLEAN
                      /\ oauth' \in BOOLEAN /\ policy' \in Policy
                      /\ request' \in [Request -> Source \cup {"none"}]
  <2>0. Frame
    BY <1>7 DEF TypeOK, BeginImport, FetchReport, MoveCheckpoint, EndImport, ImportFails,
                ImporterDies, connection, source
  <2>a. importer[i] \in Importing /\ job \in Job
    BY DEF TypeOK
  <2>b. /\ importer[i].phase \in {"idle", "fetch", "store", "end"}
        /\ importer[i].cursor \in 1..Days + 1 /\ importer[i].last \in 0..Days
        /\ importer[i].processed \in 0..Days
        /\ job.checkpoint \in 0..Days /\ job.processed \in 0..Days /\ job.status \in JobStatus
    BY <2>a DEF Importing, Job
  <2>c. importer[i].cursor <= Days /\ StorePart(i) => imported' \subseteq 1..Days
    <3> SUFFICES ASSUME importer[i].cursor <= Days,
                        NEW last \in importer[i].cursor - 1..LastOf(importer[i].cursor),
                        StoreDays(i, last)
                 PROVE  imported' \subseteq 1..Days
      BY DEF StorePart
    <3>1. LastOf(importer[i].cursor) \in importer[i].cursor..Days
      BY <2>b, ReportEnds
    <3>2. importer[i].cursor..last \subseteq 1..Days
      BY <2>b, <3>1
    <3> QED BY <3>2 DEF StoreDays, TypeOK
  <2>1. CASE BeginImport(i)
    <3>1. job' \in Job
      BY <2>1, <2>a DEF BeginImport, Job, JobStatus
    <3>2. [phase |-> "fetch", cursor |-> FirstDay, last |-> 0, processed |-> job.processed]
            \in Importing
      BY <2>b DEF Importing, FirstDay
    <3>3. importer' \in [Importer -> Importing]
      BY <2>1, <3>2 DEF BeginImport, TypeOK
    <3> QED
      BY <2>1, <2>0, <3>1, <3>3 DEF BeginImport, TypeOK, ReportsAreOrdered, connection
  <2>2. CASE FetchReport(i)
    <3>1. PICK last \in importer[i].cursor..Days : last = LastOf(importer[i].cursor)
      <4>1. importer[i].cursor \in 1..Days
        BY <2>2, <2>b DEF FetchReport
      <4> QED BY <4>1, ReportEnds
    <3>2. [importer[i] EXCEPT !.phase = "store", !.last = last] \in Importing
      <4>1. last \in 0..Days
        BY <3>1, <2>b
      <4> QED BY <2>a, <4>1 DEF Importing
    <3>3. importer' = [importer EXCEPT ![i] =
             [importer[i] EXCEPT !.phase = "store", !.last = last]]
      BY <2>2, <3>1 DEF FetchReport, TypeOK
    <3>4. importer' \in [Importer -> Importing]
      BY <3>2, <3>3 DEF TypeOK
    <3>5. imported' \subseteq 1..Days
      <4>1. imported' = imported \cup importer[i].cursor..last
        BY <2>2, <3>1 DEF FetchReport, StoreDays
      <4>2. importer[i].cursor..last \subseteq 1..Days
        BY <2>b, <3>1
      <4> QED BY <4>1, <4>2 DEF TypeOK
    <3>6. ReportsAreOrdered'
      BY <3>1, <3>3, <2>a, <2>b DEF ReportsAreOrdered, TypeOK, Importing
    <3> QED
      BY <2>2, <2>0, <3>4, <3>5, <3>6 DEF FetchReport, TypeOK, connection
  <2>3. CASE MoveCheckpoint(i)
    <3>1. PICK p : p = Lower(Days, importer[i].processed
                               + (importer[i].last - importer[i].cursor) + 1)
      OBVIOUS
    <3>2. p \in 0..Days
      <4>1. importer[i].cursor <= importer[i].last
        BY <2>3 DEF MoveCheckpoint, ReportsAreOrdered
      <4>2. importer[i].processed + (importer[i].last - importer[i].cursor) + 1 \in Nat
        BY <2>b, <4>1
      <4> QED BY <3>1, <4>2, LowerBounds
    <3>3. job' = [status |-> IF importer[i].last = Days THEN "complete" ELSE "partially_complete",
                  checkpoint |-> importer[i].last, processed |-> p]
      BY <2>3, <3>1 DEF MoveCheckpoint
    <3>4. job' \in Job
      BY <3>2, <3>3, <2>b DEF Job, JobStatus
    <3>5. importer' = [importer EXCEPT ![i] =
             [phase |-> IF importer[i].last + 1 <= Days THEN "fetch" ELSE "end",
              cursor |-> importer[i].last + 1, last |-> importer[i].last, processed |-> p]]
      BY <2>3, <3>1 DEF MoveCheckpoint, NextCursor
    <3>6. [phase |-> IF importer[i].last + 1 <= Days THEN "fetch" ELSE "end",
           cursor |-> importer[i].last + 1, last |-> importer[i].last, processed |-> p]
            \in Importing
      BY <3>2, <2>b DEF Importing
    <3>7. importer' \in [Importer -> Importing]
      BY <3>5, <3>6 DEF TypeOK
    <3>8. ReportsAreOrdered'
      BY <3>5 DEF ReportsAreOrdered, TypeOK
    <3> QED
      BY <2>3, <2>0, <3>4, <3>7, <3>8 DEF MoveCheckpoint, TypeOK, connection
  <2>4. CASE EndImport(i)
    <3>1. job' \in Job
      <4>1. ASSUME NEW j \in Job
            PROVE  [j EXCEPT !.processed = Days] \in Job
        BY DEF Job
      <4>2. [job EXCEPT !.status = "complete"] \in Job
        BY <1>c DEF JobStatus
      <4>3. job' = [[job EXCEPT !.status = "complete"] EXCEPT !.processed = Days]
        BY <2>4 DEF EndImport
      <4> QED BY <4>1, <4>2, <4>3
    <3>2. conn' \in Connection
      BY <2>4, <1>a DEF EndImport, SetState, ConnectionState
    <3>3. NotImporting \in Importing
      BY DEF NotImporting, Importing
    <3>4. importer' \in [Importer -> Importing]
      BY <2>4, <3>3 DEF EndImport, TypeOK
    <3> QED
      BY <2>4, <2>0, <3>1, <3>2, <3>4 DEF EndImport, TypeOK, ReportsAreOrdered, NotImporting
  <2>5. CASE ImportFails(i)
    <3>1. job' \in Job
      BY <2>5, <2>a, <2>b DEF ImportFails, Job, JobStatus
    <3>2. conn' \in Connection
      BY <2>5, <1>d DEF ImportFails
    <3>3. NotImporting \in Importing
      BY DEF NotImporting, Importing
    <3>4. importer' \in [Importer -> Importing]
      BY <2>5, <3>3 DEF ImportFails, TypeOK
    <3>5. imported' \subseteq 1..Days
      BY <2>5, <2>b, <2>c DEF ImportFails, TypeOK
    <3>6. ReportsAreOrdered'
      BY <2>5 DEF ImportFails, TypeOK, ReportsAreOrdered, NotImporting
    <3> QED BY <2>0, <3>1, <3>2, <3>4, <3>5, <3>6 DEF TypeOK
  <2>6. CASE ImporterDies(i)
    <3>3. NotImporting \in Importing
      BY DEF NotImporting, Importing
    <3>4. importer' \in [Importer -> Importing]
      BY <2>6, <3>3 DEF ImporterDies, TypeOK
    <3>5. imported' \subseteq 1..Days
      BY <2>6, <2>b, <2>c DEF ImporterDies, TypeOK
    <3>6. ReportsAreOrdered'
      BY <2>6 DEF ImporterDies, TypeOK, ReportsAreOrdered, NotImporting
    <3>7. conn' \in Connection /\ job' \in Job
      BY <2>6, <1>0 DEF ImporterDies, connection
    <3> QED BY <2>0, <3>4, <3>5, <3>6, <3>7 DEF TypeOK
  <2> QED
    BY <1>7, <2>1, <2>2, <2>3, <2>4, <2>5, <2>6
<1>8. ASSUME NEW r \in Request, ReadPolicy(r) \/ Switch(r)
      PROVE  TypeOK' /\ ReportsAreOrdered'
  <2>1. CASE ReadPolicy(r)
    <3>1. request' \in [Request -> Source \cup {"none"}]
      BY <2>1 DEF ReadPolicy, TypeOK, Other, Source
    <3> QED BY <2>1, <3>1 DEF ReadPolicy, TypeOK, ReportsAreOrdered, connection, history
  <2>2. CASE Switch(r)
    <3>1. request' \in [Request -> Source \cup {"none"}]
      BY <2>2 DEF Switch, TypeOK
    <3>2. policy' \in Policy
      BY <2>2 DEF Switch, TypeOK, Policy
    <3> QED BY <2>2, <3>1, <3>2 DEF Switch, TypeOK, ReportsAreOrdered, connection, history
  <2> QED BY <1>8, <2>1, <2>2
<1>9. CASE NextDay
  <2>1. policy' \in Policy
    BY <1>9 DEF NextDay, TypeOK, Policy
  <2> QED
    BY <1>9, <2>1 DEF TypeOK, ReportsAreOrdered, NextDay, connection, history
<1> QED
  BY <1>1, <1>2, <1>3, <1>4, <1>5, <1>6, <1>7, <1>8, <1>9, <1>11, <1>12 DEF Next

-----------------------------------------------------------------------------
(* The backfill leaves no gap *)

\* Nothing removes a day, and a step that is not the backfill's moves neither a
\* cursor nor the checkpoint, nor does it complete the job.
LEMMA OthersKeepBackfill ==
  ASSUME TypeOK, TypeOK', CursorsAreGapless, BackfillIsGapless,
         importer' = importer, imported \subseteq imported',
         job'.checkpoint = job.checkpoint, job'.status = "complete" => job.status = "complete"
  PROVE  CursorsAreGapless' /\ BackfillIsGapless'
BY DEF CursorsAreGapless, BackfillIsGapless, TypeOK

\* A process that stops leaves the others, the days and the checkpoint as they are.
LEMMA StoppedKeepsBackfill ==
  ASSUME TypeOK, TypeOK', CursorsAreGapless, BackfillIsGapless, NEW i \in Importer,
         importer' = [importer EXCEPT ![i] = NotImporting], imported \subseteq imported',
         job'.checkpoint = job.checkpoint,
         job'.status = "complete" => job.status = "complete" \/ 1..Days \subseteq imported
  PROVE  CursorsAreGapless' /\ BackfillIsGapless'
<1>1. CursorsAreGapless'
  <2> SUFFICES ASSUME NEW k \in Importer
               PROVE  /\ importer'[k].phase = "fetch" => 1..(importer'[k].cursor - 1) \subseteq imported'
                      /\ importer'[k].phase = "store" => 1..importer'[k].last \subseteq imported'
                      /\ importer'[k].phase = "end" => 1..Days \subseteq imported'
    BY DEF CursorsAreGapless
  <2>1. CASE k = i
    BY <2>1 DEF TypeOK, NotImporting
  <2>2. CASE k # i
    <3>1. importer'[k] = importer[k]
      BY <2>2 DEF TypeOK
    <3> QED BY <3>1 DEF CursorsAreGapless
  <2> QED BY <2>1, <2>2
<1>2. BackfillIsGapless'
  BY DEF BackfillIsGapless, TypeOK
<1> QED BY <1>1, <1>2

LEMMA GaplessStep ==
  ASSUME TypeOK, TypeOK', ReportsAreOrdered, CursorsAreGapless, BackfillIsGapless, Next
  PROVE  CursorsAreGapless' /\ BackfillIsGapless'
<1> USE WindowAssumption
<1>0. job \in Job /\ imported \subseteq 1..Days
  BY DEF TypeOK
<1>1. CASE \/ StartOAuth \/ CompleteOAuth \/ SaveCredential \/ SyncFails \/ NextDay
           \/ \E op \in Operation : Fetch(op) \/ OperationDies(op)
           \/ \E revoke \in BOOLEAN : Disconnect(revoke)
           \/ \E r \in Request : ReadPolicy(r) \/ Switch(r)
  <2>1. UNCHANGED <<job, imported, importer>>
    BY <1>1 DEF StartOAuth, CompleteOAuth, SaveCredential, SyncFails, NextDay, Fetch,
                OperationDies, Disconnect, ReadPolicy, Switch, history
  <2> QED BY <2>1, OthersKeepBackfill
<1>2. CASE StoreSync
  BY <1>2, OthersKeepBackfill DEF StoreSync
<1>3. CASE PersistSelection \/ StartBackfill
  <2>1. importer' = importer /\ imported' = imported
    BY <1>3 DEF PersistSelection, StartBackfill
  <2>2. job'.checkpoint = job.checkpoint /\ (job'.status = "complete" => job.status = "complete")
    BY <1>0, <1>3 DEF PersistSelection, StartBackfill, Job
  <2> QED BY <2>1, <2>2, OthersKeepBackfill
<1>4. ASSUME NEW i \in Importer, BeginImport(i)
      PROVE  CursorsAreGapless' /\ BackfillIsGapless'
  <2>1. imported' = imported /\ job'.checkpoint = job.checkpoint /\ job'.status = "running"
    BY <1>4, <1>0 DEF BeginImport, Job
  <2>2. BackfillIsGapless'
    BY <2>1 DEF BackfillIsGapless
  <2>3. ASSUME NEW k \in Importer, k # i
        PROVE  importer'[k] = importer[k]
    BY <1>4, <2>3 DEF BeginImport, TypeOK
  <2>4. importer'[i].phase = "fetch" /\ importer'[i].cursor = job.checkpoint + 1
    BY <1>4 DEF BeginImport, TypeOK, FirstDay
  <2>5. 1..(importer'[i].cursor - 1) \subseteq imported
    <3>1. job.checkpoint \in 0..Days
      BY <1>0 DEF Job
    <3> QED BY <2>4, <3>1 DEF BackfillIsGapless
  <2>6. CursorsAreGapless'
    BY <2>1, <2>3, <2>4, <2>5 DEF CursorsAreGapless
  <2> QED BY <2>2, <2>6
<1>5. ASSUME NEW i \in Importer, FetchReport(i)
      PROVE  CursorsAreGapless' /\ BackfillIsGapless'
  <2>0. importer[i].cursor \in 1..Days
    BY <1>5 DEF FetchReport, TypeOK, Importing
  <2>1. PICK last \in importer[i].cursor..Days : last = LastOf(importer[i].cursor)
    BY <2>0, ReportEnds
  <2>2. imported' = imported \cup importer[i].cursor..last /\ job' = job
    BY <1>5, <2>1 DEF FetchReport, StoreDays
  <2>3. ASSUME NEW k \in Importer, k # i
        PROVE  importer'[k] = importer[k]
    BY <1>5, <2>3 DEF FetchReport, TypeOK
  <2>4. importer'[i].phase = "store" /\ importer'[i].last = last
    BY <1>5, <2>1 DEF FetchReport, TypeOK, Importing
  <2>5. 1..last \subseteq imported'
    <3>1. 1..(importer[i].cursor - 1) \subseteq imported
      BY <1>5 DEF FetchReport, CursorsAreGapless
    <3> QED BY <3>1, <2>0, <2>1, <2>2, PrefixExtends
  <2>6. CursorsAreGapless'
    BY <2>2, <2>3, <2>4, <2>5 DEF CursorsAreGapless
  <2>7. BackfillIsGapless'
    BY <2>2 DEF BackfillIsGapless, TypeOK
  <2> QED BY <2>6, <2>7
<1>6. ASSUME NEW i \in Importer, MoveCheckpoint(i)
      PROVE  CursorsAreGapless' /\ BackfillIsGapless'
  <2>0. importer[i].last \in 0..Days /\ 1..importer[i].last \subseteq imported
    BY <1>6 DEF MoveCheckpoint, CursorsAreGapless, TypeOK, Importing
  <2>1. imported' = imported
    BY <1>6 DEF MoveCheckpoint
  <2>2. /\ job'.checkpoint = importer[i].last
        /\ job'.status = "complete" => importer[i].last = Days
    BY <1>6 DEF MoveCheckpoint
  <2>3. BackfillIsGapless'
    <3>1. job'.status = "complete" => 1..Days \subseteq imported
      BY <2>0, <2>2
    <3> QED BY <3>1, <2>0, <2>1, <2>2, <1>0 DEF BackfillIsGapless
  <2>4. ASSUME NEW k \in Importer, k # i
        PROVE  importer'[k] = importer[k]
    BY <1>6, <2>4 DEF MoveCheckpoint, TypeOK
  <2>5. /\ importer'[i].cursor = importer[i].last + 1
        /\ importer'[i].phase = IF importer[i].last + 1 <= Days THEN "fetch" ELSE "end"
    BY <1>6 DEF MoveCheckpoint, TypeOK, NextCursor
  <2>6. importer'[i].phase = "end" => importer[i].last = Days
    BY <2>0, <2>5
  <2>7. importer'[i].cursor - 1 = importer[i].last
    BY <2>0, <2>5
  <2>8. importer'[i].phase \in {"fetch", "end"}
    BY <2>5
  <2>9. CursorsAreGapless'
    BY <2>0, <2>1, <2>4, <2>6, <2>7, <2>8 DEF CursorsAreGapless
  <2> QED BY <2>3, <2>9
<1>7. ASSUME NEW i \in Importer, EndImport(i)
      PROVE  CursorsAreGapless' /\ BackfillIsGapless'
  <2>1. 1..Days \subseteq imported
    <3>1. CASE importer[i].phase = "end"
      BY <3>1 DEF CursorsAreGapless
    <3>2. CASE importer[i].phase = "fetch" /\ importer[i].cursor > Days
      <4>1. importer[i].cursor \in 1..Days + 1
        BY DEF TypeOK, Importing
      <4>2. importer[i].cursor - 1 = Days
        BY <3>2, <4>1
      <4> QED BY <3>2, <4>2 DEF CursorsAreGapless
    <3> QED BY <1>7, <3>1, <3>2 DEF EndImport
  <2>2. imported' = imported /\ importer' = [importer EXCEPT ![i] = NotImporting]
    BY <1>7 DEF EndImport
  <2>3. job'.checkpoint = job.checkpoint
    BY <1>7, <1>0 DEF EndImport, Job
  <2> QED BY <2>1, <2>2, <2>3, StoppedKeepsBackfill
<1>8. ASSUME NEW i \in Importer, ImportFails(i) \/ ImporterDies(i)
      PROVE  CursorsAreGapless' /\ BackfillIsGapless'
  <2>1. importer' = [importer EXCEPT ![i] = NotImporting]
    BY <1>8 DEF ImportFails, ImporterDies
  <2>2. imported \subseteq imported'
    BY <1>8 DEF ImportFails, ImporterDies, StorePart, StoreDays
  <2>3. job'.checkpoint = job.checkpoint
    BY <1>8, <1>0 DEF ImportFails, ImporterDies, Job
  <2>4. job'.status = "complete" => job.status = "complete"
    <3>1. CASE ImportFails(i)
      <4>1. job'.status \in {"partially_complete", "failed"}
        BY <3>1, <1>0 DEF ImportFails, Job
      <4> QED BY <4>1
    <3>2. CASE ImporterDies(i)
      BY <3>2 DEF ImporterDies
    <3> QED BY <1>8, <3>1, <3>2
  <2> QED BY <2>1, <2>2, <2>3, <2>4, StoppedKeepsBackfill
<1> QED
  BY <1>1, <1>2, <1>3, <1>4, <1>5, <1>6, <1>7, <1>8 DEF Next

-----------------------------------------------------------------------------
(* The lock of the source *)

LEMMA AgreeStep ==
  ASSUME TypeOK, TypeOK', RequestsAgree, Next
  PROVE  RequestsAgree' /\ (policy.locked > 0 => policy'.source = policy.source)
<1> USE LockAssumption
<1>0. policy.source \in Source /\ policy.locked \in 0..LockDays
  BY DEF TypeOK, Policy
<1>1. CASE UNCHANGED <<policy, request>>
  BY <1>1 DEF RequestsAgree
<1>2. ASSUME NEW r \in Request, ReadPolicy(r)
      PROVE  RequestsAgree' /\ policy' = policy
  <2>1. policy.locked = 0 /\ policy' = policy
    BY <1>2 DEF ReadPolicy, Unlocked
  <2>2. ASSUME NEW q \in Request
        PROVE  request'[q] = IF q = r THEN Other(policy.source) ELSE request[q]
    BY <1>2, <2>2 DEF ReadPolicy, TypeOK
  <2> QED BY <2>1, <2>2 DEF RequestsAgree
<1>3. ASSUME NEW r \in Request, Switch(r)
      PROVE  RequestsAgree' /\ (policy.locked > 0 => policy'.source = policy.source)
  <2>1. /\ request[r] # "none"
        /\ policy'.source = request[r] /\ policy'.locked = LockDays
    BY <1>3 DEF Switch
  <2>2. ASSUME NEW q \in Request
        PROVE  request'[q] = IF q = r THEN "none" ELSE request[q]
    BY <1>3, <2>2 DEF Switch, TypeOK
  <2>3. LockDays > 0 =>
          request[r] = IF policy.locked > 0 THEN policy.source ELSE Other(policy.source)
    BY <2>1 DEF RequestsAgree
  <2>4. RequestsAgree'
    BY <2>1, <2>2, <2>3 DEF RequestsAgree
  <2>5. policy.locked > 0 => LockDays > 0
    BY <1>0
  <2> QED BY <2>1, <2>3, <2>4, <2>5
<1>4. CASE NextDay
  <2>1. (\A r \in Request : request[r] = "none") /\ request' = request
    BY <1>4 DEF NextDay
  <2>2. policy'.source = policy.source
    BY <1>4, <1>0 DEF NextDay, TypeOK, Policy
  <2> QED BY <2>1, <2>2 DEF RequestsAgree
<1>5. \/ UNCHANGED <<policy, request>> \/ NextDay
      \/ \E r \in Request : ReadPolicy(r) \/ Switch(r)
  BY DEF Next, StartOAuth, CompleteOAuth, SaveCredential, PersistSelection, StoreSync, SyncFails,
         Fetch, OperationDies, Disconnect, StartBackfill, BeginImport, FetchReport,
         MoveCheckpoint, EndImport, ImportFails, ImporterDies, source
<1> QED BY <1>1, <1>2, <1>3, <1>4, <1>5

-----------------------------------------------------------------------------
(* The theorems *)

LEMMA InvInit == Init => Inv
<1> SUFFICES ASSUME Init PROVE Inv
  OBVIOUS
<1> USE WindowAssumption, LockAssumption
<1>1. NotImporting \in Importing
  BY DEF NotImporting, Importing
<1>2. TypeOK
  <2>1. importer \in [Importer -> Importing]
    BY <1>1 DEF Init
  <2>2. conn \in Connection
    BY DEF Init, Connection, ConnectionState
  <2>3. job \in Job
    BY DEF Init, Job, JobStatus
  <2>4. policy \in Policy
    BY DEF Init, Policy, Source
  <2> QED BY <2>1, <2>2, <2>3, <2>4 DEF Init, TypeOK
<1>3. ReportsAreOrdered /\ CursorsAreGapless
  BY DEF Init, NotImporting, ReportsAreOrdered, CursorsAreGapless
<1>4. BackfillIsGapless /\ RequestsAgree
  BY DEF Init, BackfillIsGapless, RequestsAgree
<1> QED BY <1>2, <1>3, <1>4 DEF Inv

LEMMA InvStep == Inv /\ [Next]_vars => Inv'
<1> SUFFICES ASSUME Inv, [Next]_vars PROVE Inv'
  OBVIOUS
<1>1. CASE Next
  <2>1. TypeOK' /\ ReportsAreOrdered'
    BY <1>1, TypeStep DEF Inv
  <2>2. CursorsAreGapless' /\ BackfillIsGapless'
    BY <1>1, <2>1, GaplessStep DEF Inv
  <2>3. RequestsAgree'
    BY <1>1, <2>1, AgreeStep DEF Inv
  <2> QED BY <2>1, <2>2, <2>3 DEF Inv
<1>2. CASE UNCHANGED vars
  BY <1>2 DEF vars, Inv, TypeOK, ReportsAreOrdered, CursorsAreGapless, BackfillIsGapless,
              RequestsAgree
<1> QED BY <1>1, <1>2

\* Every reachable state satisfies the inductive invariant.
THEOREM Invariance == Spec => []Inv
BY InvInit, InvStep, PTL DEF Spec

\* Rows, operations under way and importers keep their types: checkpoint and processedDays
\* stay within the window whatever its length (runGa4Backfill).
THEOREM TypeCorrect == Spec => []TypeOK
<1>1. Inv => TypeOK
  BY DEF Inv
<1> QED BY <1>1, Invariance, PTL

\* Any number of overlapping, failing and killed backfills leave no gap before the
\* checkpoint, and none at all when the job is complete (runGa4Backfill).
THEOREM BackfillsLeaveNoGap == Spec => []BackfillIsGapless
<1>1. Inv => BackfillIsGapless
  BY DEF Inv
<1> QED BY <1>1, Invariance, PTL

\* No number of concurrent requests changes a locked source (switchPrimaryGa4Source).
THEOREM SourceStaysLocked == Spec => LockIsKept
<1>1. Inv /\ Inv' /\ [Next]_vars => [policy.locked > 0 => policy'.source = policy.source]_vars
  BY AgreeStep DEF Inv
<1> QED BY <1>1, Invariance, PTL DEF Spec, LockIsKept

=============================================================================
