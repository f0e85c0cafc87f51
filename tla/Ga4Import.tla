----------------------------- MODULE Ga4Import -----------------------------
(***************************************************************************)
(* A site's Google Analytics connection: its states, the import of its     *)
(* history and the choice of the source that ranks the site.               *)
(*                                                                         *)
(* The owner authorizes the connection, selects a property, queues a       *)
(* backfill, disconnects and switches the primary source; jobs refresh the *)
(* recent days and import the backfill in chunks with a checkpoint.  Every *)
(* one of them waits for Google between what it reads and what it writes,  *)
(* and writes by the row's id without reading it again.                    *)
(*                                                                         *)
(* One backfill window is modelled, and days are only imported or not: the *)
(* values, the property they come from and realtime snapshots are left     *)
(* out, as are the token exchange and refresh.                             *)
(***************************************************************************)
EXTENDS Naturals, FiniteSets

CONSTANTS Days,      \* totalDays of the backfill window, endDate being today
          Chunk,     \* the days of one report
          Recent,    \* the days of the window that a core sync reads
          Importer,  \* processes running the backfill at once
          Request,   \* requests to switch the source under way at once
          LockDays   \* GA4_SOURCE_SWITCH_LOCK_DAYS

ASSUME WindowAssumption ==
  Days \in Nat \ {0} /\ Chunk \in Nat \ {0} /\ Recent \subseteq 1..Days
ASSUME LockAssumption == LockDays \in Nat

VARIABLES conn,       \* row of ga_connection: its state and rankingEligible
          credential, \* row of ga_credential holds a refresh token
          oauth,      \* a row of ga_oauth_transaction is open
          underway,   \* operations between Google's answer and their last write
          job,        \* row of ga_backfill_job
          imported,   \* days with rows of ga_metric_aggregate
          importer,   \* importer[i]: the loop of runGa4Backfill
          policy,     \* row of site_metric_source_policy
          request     \* request[r]: what switchPrimaryGa4Source has read

vars == <<conn, credential, oauth, underway, job, imported, importer, policy, request>>
connection == <<conn, credential, oauth, underway>>
history == <<job, imported, importer>>
source == <<policy, request>>

-----------------------------------------------------------------------------
(* Rows *)

ConnectionState == {"absent", "authorizing", "selecting_property", "connected", "backfilling",
                    "degraded", "reauthorization_required", "disconnected", "revoked"}
Connection == [state : ConnectionState, eligible : BOOLEAN]

Operation == {"callback", "select", "sync"}

\* checkpoint: the last day imported, 0 before the first.
JobStatus == {"absent", "queued", "running", "partially_complete", "complete", "failed"}
Job == [status : JobStatus, checkpoint : 0..Days, processed : 0..Days]

\* cursor: the first day of the next report; last: its last day.
Importing == [phase : {"idle", "fetch", "store", "end"}, cursor : 1..Days + 1, last : 0..Days,
              processed : 0..Days]
NotImporting == [phase |-> "idle", cursor |-> 1, last |-> 0, processed |-> 0]

Source == {"tracker", "ga4"}

\* locked: the days until rankingSourceLockedUntil.
Policy == [source : Source, locked : 0..LockDays]

Init ==
  /\ conn = [state |-> "absent", eligible |-> FALSE]
  /\ credential = FALSE
  /\ oauth = FALSE
  /\ underway = {}
  /\ job = [status |-> "absent", checkpoint |-> 0, processed |-> 0]
  /\ imported = {}
  /\ importer = [i \in Importer |-> NotImporting]
  /\ policy = [source |-> "tracker", locked |-> 0]
  /\ request = [r \in Request |-> "none"]

Connected == conn.state # "absent"
SetState(s) == conn' = [conn EXCEPT !.state = s]

-----------------------------------------------------------------------------
(* The connection *)

\* startGa4OAuth
StartOAuth ==
  /\ oauth' = TRUE
  /\ SetState("authorizing")
  /\ UNCHANGED <<credential, underway, history, source>>

\* The callback's transaction, after Google has exchanged the code ...
CompleteOAuth ==
  /\ oauth
  /\ oauth' = FALSE
  /\ SetState("selecting_property")
  /\ underway' = underway \cup {"callback"}
  /\ UNCHANGED <<credential, history, source>>

\* ... and what follows it: the credential is saved, if Google has returned a refresh
\* token, and without any the owner must authorize again.
SaveCredential ==
  /\ "callback" \in underway
  /\ underway' = underway \ {"callback"}
  /\ \/ credential' = TRUE /\ UNCHANGED conn
     \/ credential /\ UNCHANGED <<conn, credential>>
     \/ /\ ~credential
        /\ conn' = [state |-> "reauthorization_required", eligible |-> FALSE]
        /\ UNCHANGED credential
  /\ UNCHANGED <<oauth, history, source>>

\* selectGa4Property and runGa4CoreSync have their report.
Fetch(op) ==
  /\ op \in {"select", "sync"}
  /\ Connected /\ credential
  /\ underway' = underway \cup {op}
  /\ UNCHANGED <<conn, credential, oauth, history, source>>

\* persistSelection: the backfill is queued unless the window has a row.
PersistSelection ==
  /\ "select" \in underway
  /\ underway' = underway \ {"select"}
  /\ conn' = [state |-> "connected", eligible |-> TRUE]
  /\ job' = IF job.status = "absent" THEN [job EXCEPT !.status = "queued"] ELSE job
  /\ UNCHANGED <<credential, oauth, imported, importer, source>>

StoreSync ==
  /\ "sync" \in underway
  /\ underway' = underway \ {"sync"}
  /\ SetState("connected")
  /\ imported' = imported \cup Recent
  /\ UNCHANGED <<credential, oauth, job, importer, source>>

\* Google refuses the grant, which also ends the eligibility, or anything else fails.
ErrorState ==
  \E s \in {"degraded", "reauthorization_required"}, e \in {conn.eligible, FALSE} :
    conn' = [state |-> s, eligible |-> e]

SyncFails ==
  /\ Connected
  /\ ErrorState
  /\ UNCHANGED <<credential, oauth, underway, history, source>>

\* disconnectGa4; the jobs of ga_sync_job that it cancels are read by nothing.
Disconnect(revoke) ==
  /\ Connected
  /\ conn' = [state |-> IF revoke THEN "revoked" ELSE "disconnected", eligible |-> FALSE]
  /\ credential' = FALSE
  /\ UNCHANGED <<oauth, underway, history, source>>

OperationDies(op) ==
  /\ op \in underway
  /\ underway' = underway \ {op}
  /\ UNCHANGED <<conn, credential, oauth, history, source>>

-----------------------------------------------------------------------------
(* The backfill *)

\* startGa4Backfill: a row that exists is queued again from its checkpoint.
StartBackfill ==
  /\ Connected
  /\ job' = [job EXCEPT !.status = "queued"]
  /\ SetState("backfilling")
  /\ UNCHANGED <<credential, oauth, underway, imported, importer, source>>

FirstDay == job.checkpoint + 1

\* runGa4Backfill reads the job and marks it running.
BeginImport(i) ==
  /\ importer[i].phase = "idle"
  /\ Connected
  /\ job.status \in {"queued", "running", "partially_complete"}
  /\ job' = [job EXCEPT !.status = "running"]
  /\ importer' = [importer EXCEPT ![i] =
       [phase |-> "fetch", cursor |-> FirstDay, last |-> 0, processed |-> job.processed]]
  /\ UNCHANGED <<connection, imported, source>>

\* The last day of the report that starts with a day.
LastOf(day) == IF day + Chunk - 1 <= Days THEN day + Chunk - 1 ELSE Days

\* A report is fetched and its days are upserted, one after the other ...
StoreDays(i, last) == imported' = imported \cup importer[i].cursor..last

FetchReport(i) ==
  /\ importer[i].phase = "fetch"
  /\ importer[i].cursor <= Days
  /\ credential
  /\ LET last == LastOf(importer[i].cursor)
     IN  /\ importer' = [importer EXCEPT ![i].phase = "store", ![i].last = last]
         /\ StoreDays(i, last)
  /\ UNCHANGED <<connection, job, source>>

Lower(a, b) == IF a <= b THEN a ELSE b

\* Mutant: the next report starts at the chunk after the next.
SkippingCursor(last) == IF last + Chunk <= Days THEN last + Chunk ELSE Days + 1
NextCursor(last) == last + 1

\* ... and then the checkpoint is moved, whatever it has become meanwhile.
MoveCheckpoint(i) ==
  /\ importer[i].phase = "store"
  /\ LET at == importer[i]
         processed == Lower(Days, at.processed + (at.last - at.cursor) + 1)
     IN  /\ job' = [status |-> IF at.last = Days THEN "complete" ELSE "partially_complete",
                    checkpoint |-> at.last, processed |-> processed]
         /\ importer' = [importer EXCEPT ![i] =
              [phase |-> IF NextCursor(at.last) <= Days THEN "fetch" ELSE "end",
               cursor |-> NextCursor(at.last), last |-> at.last, processed |-> processed]]
  /\ UNCHANGED <<connection, imported, source>>

\* The loop is over: it ran to the end, or the checkpoint was there already.
EndImport(i) ==
  /\ \/ importer[i].phase = "end"
     \/ importer[i].phase = "fetch" /\ importer[i].cursor > Days
  /\ job' = [job EXCEPT !.status = "complete", !.processed = Days]
  /\ SetState("connected")
  /\ importer' = [importer EXCEPT ![i] = NotImporting]
  /\ UNCHANGED <<credential, oauth, underway, imported, source>>

StorePart(i) ==
  \E last \in importer[i].cursor - 1..LastOf(importer[i].cursor) : StoreDays(i, last)

\* A report fails, perhaps with some of its days upserted.
ImportFails(i) ==
  /\ importer[i].phase = "fetch"
  /\ importer[i].cursor <= Days
  /\ StorePart(i)
  /\ job' = [job EXCEPT !.status = IF importer[i].processed > 0 THEN "partially_complete" ELSE "failed",
                        !.processed = importer[i].processed]
  /\ ErrorState
  /\ importer' = [importer EXCEPT ![i] = NotImporting]
  /\ UNCHANGED <<credential, oauth, underway, source>>

ImporterDies(i) ==
  /\ importer[i].phase # "idle"
  /\ IF importer[i].phase = "fetch" /\ importer[i].cursor <= Days
     THEN StorePart(i) ELSE UNCHANGED imported
  /\ importer' = [importer EXCEPT ![i] = NotImporting]
  /\ UNCHANGED <<connection, job, source>>

-----------------------------------------------------------------------------
(* The ranking source *)

Available == conn.eligible /\ conn.state = "connected"
Other(s) == IF s = "tracker" THEN "ga4" ELSE "tracker"

\* Mutant: only a switch to Google Analytics respects the lock.
UnlockedForGa4 == policy.locked = 0 \/ policy.source = "ga4"
Unlocked == policy.locked = 0

\* switchPrimaryGa4Source reads the policy and the connection ...
ReadPolicy(r) ==
  /\ request[r] = "none"
  /\ Unlocked
  /\ Other(policy.source) = "ga4" => Available
  /\ request' = [request EXCEPT ![r] = Other(policy.source)]
  /\ UNCHANGED <<connection, history, policy>>

\* ... and replaces the policy without looking again.
Switch(r) ==
  /\ request[r] # "none"
  /\ policy' = [source |-> request[r], locked |-> LockDays]
  /\ request' = [request EXCEPT ![r] = "none"]
  /\ UNCHANGED <<connection, history>>

\* A request does not outlast a day.
NextDay ==
  /\ \A r \in Request : request[r] = "none"
  /\ policy' = [policy EXCEPT !.locked = IF @ = 0 THEN 0 ELSE @ - 1]
  /\ UNCHANGED <<connection, history, request>>

-----------------------------------------------------------------------------

Next ==
  \/ StartOAuth \/ CompleteOAuth \/ SaveCredential
  \/ PersistSelection \/ StoreSync \/ SyncFails
  \/ \E op \in Operation : Fetch(op) \/ OperationDies(op)
  \/ \E revoke \in BOOLEAN : Disconnect(revoke)
  \/ StartBackfill
  \/ \E i \in Importer : \/ BeginImport(i) \/ FetchReport(i) \/ MoveCheckpoint(i)
                         \/ EndImport(i) \/ ImportFails(i) \/ ImporterDies(i)
  \/ \E r \in Request : ReadPolicy(r) \/ Switch(r)
  \/ NextDay

Spec == Init /\ [][Next]_vars

-----------------------------------------------------------------------------
(* Properties *)

TypeOK ==
  /\ conn \in Connection
  /\ credential \in BOOLEAN
  /\ oauth \in BOOLEAN
  /\ underway \subseteq Operation
  /\ job \in Job
  /\ imported \subseteq 1..Days
  /\ importer \in [Importer -> Importing]
  /\ policy \in Policy
  /\ request \in [Request -> Source \cup {"none"}]

\* However many backfills overlap, fail or are killed, and although a slower one moves the
\* checkpoint back, every day up to the checkpoint has been imported, and all of them when
\* the job is complete: a resumed backfill leaves no gap (GA4_SYNC_ARCHITECTURE.md).
BackfillIsGapless ==
  /\ 1..job.checkpoint \subseteq imported
  /\ job.status = "complete" => imported = 1..Days

\* The ranking source never changes while it is locked, although concurrent requests read
\* the lock outside the transaction that replaces it (switchPrimaryGa4Source).
LockIsKept == [][policy.locked > 0 => policy'.source = policy.source]_vars
=============================================================================
