---------------------------- MODULE TrendIngest ----------------------------
(***************************************************************************)
(* The hourly Top 10 ingest: apps/web/lib/trends/ingest.ts.  Processes     *)
(* that share nothing but a directory take a lock file, read the last      *)
(* snapshot, fetch every board and replace the snapshot by a rename.       *)
(*                                                                         *)
(* Time is a set of ages that Tick advances together; an age stops growing *)
(* once no comparison can tell it from a larger one.                       *)
(***************************************************************************)
EXTENDS Naturals, FiniteSets

CONSTANTS Run,         \* ingest processes that may be alive at once
          Scheduled,   \* those that cron starts again every hour
          NoRun,
          Board,       \* boards with a fetcher
          KeyedBoard,  \* those whose fetcher needs an API key in the environment
          LockStale,   \* LOCK_STALE_MS, in ticks
          FreshFor,    \* FRESHNESS_LIMIT_MS, in ticks
          RunLimit,    \* a process waits at most this long before the read and after it
          MaxCrashes   \* bound: processes killed without reaching "finally"

ASSUME ProcessAssumption == NoRun \notin Run /\ Scheduled \subseteq Run
ASSUME BoardAssumption == KeyedBoard \subseteq Board
ASSUME TimeAssumption ==
         /\ LockStale \in Nat /\ FreshFor \in Nat /\ RunLimit \in Nat /\ MaxCrashes \in Nat
         /\ RunLimit + RunLimit < LockStale
         /\ RunLimit <= FreshFor

VARIABLES lock,      \* .ingest.lock: its writer and the age of its mtime
          pc,        \* pc[p]: the file operation process p does next
          age,       \* age[p]: time since p started, and since its "now" once it has read it
          snapshot,  \* snapshot[p]: boards in p's memory, first the previous, then the new
          latest,    \* latest.json
          lastFetch, \* lastFetch[b]: history, time since a fetch of b last succeeded
          crashes

vars == <<lock, pc, age, snapshot, latest, lastFetch, crashes>>

RowAge   == 0..(FreshFor + 1)
BoardRow == [status : {"none", "live", "stale", "unavailable", "soon"}, age : RowAge]
LockFile == [owner : Run \cup {NoRun}, age : 0..LockStale]

NoLock  == [owner |-> NoRun, age |-> 0]
NoBoard == [status |-> "none", age |-> 0]

\* The part of a run that the lock is meant to keep apart from other runs.
Working == {"read", "collect", "write", "release"}

Init ==
  /\ lock = NoLock
  /\ pc = [p \in Run |-> "idle"]
  /\ age = [p \in Run |-> 0]
  /\ latest = [b \in Board |-> NoBoard]
  /\ snapshot = [p \in Run |-> [b \in Board |-> NoBoard]]
  /\ lastFetch = [b \in Board |-> FreshFor + 1]
  /\ crashes = 0

-----------------------------------------------------------------------------
(* Boards *)

HasItems(row) == row.status \in {"live", "stale"}

\* What a page shows: after FreshFor a live board is no longer called live.
EffectiveStatus(row) ==
  IF row.status = "live" /\ row.age > FreshFor THEN "stale" ELSE row.status

\* Mutant: carrying items over dates them like a fetch.
RedatedBoard(prev, blank) ==
  IF HasItems(prev) THEN [status |-> "live", age |-> 0] ELSE [status |-> blank, age |-> 0]

\* A board that was not fetched keeps the items and the date of the last good
\* snapshot, or is blank when there are none.
UnfetchedBoard(prev, blank) ==
  IF HasItems(prev) THEN [prev EXCEPT !.status = "stale"] ELSE [status |-> blank, age |-> 0]

\* Mutant: a board whose key is missing goes back to "Coming soon".
BlankWithoutKey(prev, outcome, now) ==
  CASE outcome = "fetched" -> [status |-> "live", age |-> now]
    [] outcome = "failed"  -> UnfetchedBoard(prev, "unavailable")
    [] outcome = "keyless"  -> [status |-> "soon", age |-> 0]

\* The new row of a board from the previous one; now is the age of the run's clock.
NextBoard(prev, outcome, now) ==
  CASE outcome = "fetched" -> [status |-> "live", age |-> now]
    [] outcome = "failed"  -> UnfetchedBoard(prev, "unavailable")
    [] outcome = "keyless"  -> UnfetchedBoard(prev, "soon")

Outcome(b) == IF b \in KeyedBoard THEN {"fetched", "failed", "keyless"} ELSE {"fetched", "failed"}

-----------------------------------------------------------------------------
(* acquireLock *)

\* Mutant: a lock is held until its writer removes it.
NeverStale == FALSE

LockIsStale == lock.owner # NoRun /\ lock.age >= LockStale

\* stat: a fresh lock ends the run on the spot, which changes nothing.
StatLock(p) ==
  /\ pc[p] = "idle"
  /\ \/ lock = NoLock /\ pc' = [pc EXCEPT ![p] = "create"]
     \/ LockIsStale /\ pc' = [pc EXCEPT ![p] = "unlink"]
  /\ age' = [age EXCEPT ![p] = 0]
  /\ UNCHANGED <<lock, snapshot, latest, lastFetch, crashes>>

\* unlink removes whatever lock is there by now, and tolerates none (ENOENT).
Unlink(p) ==
  /\ pc[p] = "unlink"
  /\ lock' = NoLock
  /\ pc' = [pc EXCEPT ![p] = "create"]
  /\ UNCHANGED <<age, snapshot, latest, lastFetch, crashes>>

\* Mutant: writeFile without the flag wx.
OverwriteLock(p) ==
  /\ pc[p] = "create"
  /\ lock' = [owner |-> p, age |-> 0]
  /\ pc' = [pc EXCEPT ![p] = "read"]
  /\ UNCHANGED <<age, snapshot, latest, lastFetch, crashes>>

\* writeFile with flag wx: a lock that is there again ends the run (EEXIST).
CreateLock(p) ==
  /\ pc[p] = "create"
  /\ IF lock = NoLock
       THEN lock' = [owner |-> p, age |-> 0] /\ pc' = [pc EXCEPT ![p] = "read"]
       ELSE pc' = [pc EXCEPT ![p] = "idle"] /\ UNCHANGED lock
  /\ UNCHANGED <<age, snapshot, latest, lastFetch, crashes>>

-----------------------------------------------------------------------------
(* runIngest *)

\* now = Date.now(), then the previous snapshot.
ReadPrevious(p) ==
  /\ pc[p] = "read"
  /\ pc' = [pc EXCEPT ![p] = "collect"]
  /\ age' = [age EXCEPT ![p] = 0]
  /\ snapshot' = [snapshot EXCEPT ![p] = latest]
  /\ UNCHANGED <<lock, latest, lastFetch, crashes>>

\* The loop over boardSpecs, which only fills an array in memory.
Collect(p) ==
  /\ pc[p] = "collect"
  /\ \E outcome \in [Board -> {"fetched", "failed", "keyless"}] :
       /\ \A b \in Board : outcome[b] \in Outcome(b)
       /\ snapshot' = [snapshot EXCEPT ![p] =
            [b \in Board |-> NextBoard(snapshot[p][b], outcome[b], age[p])]]
       /\ lastFetch' = [b \in Board |-> IF outcome[b] = "fetched" THEN 0 ELSE lastFetch[b]]
  /\ pc' = [pc EXCEPT ![p] = "write"]
  /\ UNCHANGED <<lock, age, latest, crashes>>

\* writeJsonAtomic renames a finished file over latest.json.
Publish(p) ==
  /\ pc[p] = "write"
  /\ latest' = snapshot[p]
  /\ pc' = [pc EXCEPT ![p] = "release"]
  /\ UNCHANGED <<lock, age, snapshot, lastFetch, crashes>>

\* The disk refuses a write: "finally" is all that is left to do.
WriteFails(p) ==
  /\ pc[p] = "write"
  /\ pc' = [pc EXCEPT ![p] = "release"]
  /\ UNCHANGED <<lock, age, snapshot, latest, lastFetch, crashes>>

\* finally: rm -f removes the lock file, whoever wrote it.
Release(p) ==
  /\ pc[p] = "release"
  /\ lock' = NoLock
  /\ pc' = [pc EXCEPT ![p] = "idle"]
  /\ UNCHANGED <<age, snapshot, latest, lastFetch, crashes>>

-----------------------------------------------------------------------------
(* Environment *)

\* A kill, by "timeout 300" or a reboot; a lock the process created stays behind.
Crash(p) ==
  /\ pc[p] # "idle"
  /\ crashes < MaxCrashes
  /\ crashes' = crashes + 1
  /\ pc' = [pc EXCEPT ![p] = "idle"]
  /\ UNCHANGED <<lock, age, snapshot, latest, lastFetch>>

Older(a, limit) == IF a < limit THEN a + 1 ELSE a
OlderRow(row) ==
  IF HasItems(row) THEN [row EXCEPT !.age = Older(@, FreshFor + 1)] ELSE row

\* Time passes.  No process outlives RunLimit, because its requests time out.
Tick ==
  /\ \A p \in Run : pc[p] # "idle" => age[p] < RunLimit
  /\ lock' = IF lock = NoLock THEN lock ELSE [lock EXCEPT !.age = Older(@, LockStale)]
  /\ age' = [p \in Run |-> IF pc[p] = "idle" THEN age[p] ELSE age[p] + 1]
  /\ snapshot' = [p \in Run |-> [b \in Board |-> OlderRow(snapshot[p][b])]]
  /\ latest' = [b \in Board |-> OlderRow(latest[b])]
  /\ lastFetch' = [b \in Board |-> Older(lastFetch[b], FreshFor + 1)]
  /\ UNCHANGED <<pc, crashes>>

Continue(p) ==
  \/ Unlink(p) \/ CreateLock(p) \/ ReadPrevious(p)
  \/ Collect(p) \/ Publish(p) \/ WriteFails(p) \/ Release(p)

Next == Tick \/ \E p \in Run : StatLock(p) \/ Continue(p) \/ Crash(p)

\* A live process goes on, time passes, and cron starts its process every hour.
Fairness ==
  /\ WF_vars(Tick)
  /\ \A p \in Run : WF_vars(Continue(p))
  /\ \A p \in Scheduled : WF_vars(StatLock(p))

Spec == Init /\ [][Next]_vars /\ Fairness

-----------------------------------------------------------------------------
(* Correctness *)

\* Every variable keeps its type; in particular no clock of a run passes RunLimit.
TypeOK ==
  /\ lock \in LockFile
  /\ pc \in [Run -> {"idle", "unlink", "create"} \cup Working]
  /\ age \in [Run -> 0..RunLimit]
  /\ snapshot \in [Run -> [Board -> BoardRow]]
  /\ latest \in [Board -> BoardRow]
  /\ lastFetch \in [Board -> RowAge]
  /\ crashes \in 0..MaxCrashes

\* As long as no process has been killed, the lock file keeps runs from overlapping:
\* of two processes started at any time, at most one is between reading the snapshot
\* and removing its lock.
NoOverlap ==
  crashes = 0 => \A p, q \in Run : pc[p] \in Working /\ pc[q] \in Working => p = q

\* A page calls a board live only when a fetch of that board really succeeded
\* within the last FreshFor, however many runs failed, died or were skipped.
LiveMeansRecent ==
  \A b \in Board : EffectiveStatus(latest[b]) = "live" => lastFetch[b] <= FreshFor

\* As long as no process has been killed, a write of latest.json never loses a board
\* that has items, and never replaces its items by older ones: neither a failed source
\* nor a missing key nor a run that started from an older snapshot takes anything away.
BoardsNeverRegress ==
  [][crashes = 0 => \A p \in Run, b \in Board :
       pc[p] = "write" /\ pc'[p] = "release" /\ HasItems(latest[b]) =>
         HasItems(latest'[b]) /\ latest'[b].age <= latest[b].age]_vars

\* A lock left behind by a process that died does not stop the ingest for good:
\* once it is stale the next hourly run unlinks it.
DeadLockIsFreed ==
  \A p \in Run : lock.owner = p /\ pc[p] = "idle" ~> lock = NoLock
=============================================================================
