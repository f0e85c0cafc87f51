---------------------------- MODULE RankingJob ----------------------------
(***************************************************************************)
(* The published leaderboards and the job that replaces them.              *)
(*                                                                         *)
(* The scoring and breakout jobs keep one row of metrics per site.  Every  *)
(* quarter of an hour, and whenever an administrator asks, a run of the    *)
(* ranking job reads those rows, sorts the sites of every scope and, in    *)
(* one transaction, deletes the leaderboards it sees and inserts its own.  *)
(* Transactions read what is committed, so two runs that overlap do not    *)
(* see each other's rows; only the unique index on site and scope stands   *)
(* between them, and when they rank no site in common both publications    *)
(* stay until the next run.  A row of scoring_job_run per slot keeps a     *)
(* slot from being run twice.                                              *)
(*                                                                         *)
(* The clock is relative: a run belongs to the current slot or to an       *)
(* earlier one, so the model needs no bound on time.  Scores are abstract; *)
(* the rank history and the movement are left out.                         *)
(***************************************************************************)
EXTENDS Naturals, FiniteSets

\* A row of site_metric_current; "fraud_review" stands for the states that are on no general
\* leaderboard.
Metric == [state : {"eligible", "fraud_review"}, breakout : BOOLEAN, score : Nat]

CONSTANTS Site,      \* sites, numbered in the order of their domains
          Metrics,   \* contents that site_metric_current may have
          Process,   \* processes that run the job
          Timer,     \* those the scheduler starts, once or repeatedly in a slot
          Forced     \* those of an administrator's recompute, which force the job

ASSUME SiteAssumption == Site \subseteq Nat /\ IsFiniteSet(Site)
ASSUME MetricAssumption == Metrics \subseteq [Site -> Metric]
ASSUME ProcessAssumption == Timer \subseteq Process /\ Forced \subseteq Process

VARIABLES metric,   \* metric[s]: row of site_metric_current
          ranking,  \* the rows of current_ranking
          job,      \* status of the row of scoring_job_run for the current slot
          run       \* run[p]: the run of process p

vars == <<metric, ranking, job, run>>

-----------------------------------------------------------------------------
(* Leaderboards *)

\* "global" stands for the leaderboards of a league or category too.
Scope == {"global", "breakout"}

\* candidateBelongsToScope
Belongs(m, scope) ==
  CASE scope = "global"   -> m.state = "eligible"
    [] scope = "breakout" -> m.state = "eligible" /\ m.breakout

\* compareRankingCandidates: the better score, then the first domain.
Precedes(m, s, t) ==
  \/ m[s].score > m[t].score
  \/ m[s].score = m[t].score /\ s < t

Ranked(m, scope) == {s \in Site : Belongs(m[s], scope)}

Rank(m, scope, s) == Cardinality({t \in Ranked(m, scope) : Precedes(m, t, s)}) + 1

Place == [site : Site, scope : Scope, rank : 1..Cardinality(Site)]

\* rankCandidates in every scope.
Leaderboards(m) ==
  UNION {{[site |-> s, scope |-> c, rank |-> Rank(m, c, s)] : s \in Ranked(m, c)} : c \in Scope}

\* by: the process whose last publication the row belongs to.
Row == [place : Place, by : Process]
Published == {row.place : row \in ranking}
PublishedBy(p) == {row.place : row \in {r \in ranking : r.by = p}}

-----------------------------------------------------------------------------
(* Runs *)

\* current: the run's slot has not passed; ranked: the leaderboards it has computed;
\* deleted: whose rows its transaction deletes, those already gone left out; outcome:
\* what finishJob will record.
Run == [phase : {"idle", "restart", "collect", "delete", "publish", "finish"}, current : BOOLEAN,
        ranked : SUBSET Place, deleted : SUBSET Process, outcome : {"completed", "failed"}]
Idle == [phase |-> "idle", current |-> FALSE, ranked |-> {}, deleted |-> {},
         outcome |-> "completed"]

JobStatus == {"absent", "running", "completed", "failed"}

Init ==
  /\ metric \in Metrics
  /\ ranking = {}
  /\ job = "absent"
  /\ run = [p \in Process |-> Idle]

MayRestart(p) == job = "failed" \/ (job = "completed" /\ p \in Forced)

\* beginJob inserts the slot's row.  What it reads before that decides nothing that the
\* insert and the reading after it do not decide again.
Begin(p) ==
  /\ run[p].phase = "idle"
  /\ job = "absent"
  /\ job' = "running"
  /\ run' = [run EXCEPT ![p] = [Idle EXCEPT !.phase = "collect", !.current = TRUE]]
  /\ UNCHANGED <<metric, ranking>>

\* The row exists and beginJob reads that it may be run again ...
Find(p) ==
  /\ run[p].phase = "idle"
  /\ MayRestart(p)
  /\ run' = [run EXCEPT ![p] = [Idle EXCEPT !.phase = "restart", !.current = TRUE]]
  /\ UNCHANGED <<metric, ranking, job>>

\* ... and takes it by its id, whatever has become of it meanwhile.
Restart(p) ==
  /\ run[p].phase = "restart"
  /\ job' = IF run[p].current THEN "running" ELSE job
  /\ run' = [run EXCEPT ![p].phase = "collect"]
  /\ UNCHANGED <<metric, ranking>>

\* The candidates are read, and sorted, outside the transaction.
Collect(p) ==
  /\ run[p].phase = "collect"
  /\ run' = [run EXCEPT ![p].phase = "delete", ![p].ranked = Leaderboards(metric)]
  /\ UNCHANGED <<metric, ranking, job>>

\* Mutant: the old rows are kept when there is nothing new for the breakout leaderboard.
DeletedUnlessQuiet(p) ==
  IF \E place \in run[p].ranked : place.scope = "breakout"
  THEN {row.by : row \in ranking} ELSE {}
Deleted(p) == {row.by : row \in ranking}

\* Mutant: the DELETE is not part of the transaction.
DeleteAlone(p) ==
  /\ run[p].phase = "delete"
  /\ run' = [run EXCEPT ![p].phase = "publish", ![p].deleted = Deleted(p)]
  /\ ranking' = {}
  /\ UNCHANGED <<metric, job>>

\* The transaction's DELETE: it reaches the rows committed by now.
Delete(p) ==
  /\ run[p].phase = "delete"
  /\ run' = [run EXCEPT ![p].phase = "publish", ![p].deleted = Deleted(p)]
  /\ UNCHANGED <<metric, ranking, job>>

Remaining(p) == {row \in ranking : row.by \notin run[p].deleted}

\* Mutant: the unique index includes the rank.
SamePlace(r, t) == r = t
SameKey(r, t) == r.site = t.site /\ r.scope = t.scope

\* An inserted row has the site and scope of a row that another run has committed.
Clashes(p) == \E place \in run[p].ranked, row \in Remaining(p) : SameKey(place, row.place)

\* The run of p is over but for finishJob.
Over(p, outcome) ==
  [Idle EXCEPT !.phase = "finish", !.current = run[p].current, !.outcome = outcome]

Finished(p, outcome) == run' = [run EXCEPT ![p] = Over(p, outcome)]

\* The transaction inserts the new rows and commits.  A transaction that waits to delete
\* the same rows finds them gone, and does not reach the new ones.
Publish(p) ==
  /\ run[p].phase = "publish"
  /\ ~Clashes(p)
  /\ ranking' = Remaining(p) \cup [place : run[p].ranked, by : {p}]
  /\ run' = [q \in Process |->
       IF q = p THEN Over(p, "completed")
       ELSE [run[q] EXCEPT !.deleted = @ \ (run[p].deleted \cup {p})]]
  /\ UNCHANGED <<metric, job>>

\* An insert violates the unique index: everything is rolled back.
Clash(p) ==
  /\ run[p].phase = "publish"
  /\ Clashes(p)
  /\ Finished(p, "failed")
  /\ UNCHANGED <<metric, ranking, job>>

\* The database fails.
Fail(p) ==
  /\ run[p].phase \in {"collect", "delete", "publish"}
  /\ Finished(p, "failed")
  /\ UNCHANGED <<metric, ranking, job>>

StatusAfter(p) == IF run[p].current THEN run[p].outcome ELSE job

\* finishJob
Finish(p) ==
  /\ run[p].phase = "finish"
  /\ job' = StatusAfter(p)
  /\ run' = [run EXCEPT ![p] = Idle]
  /\ UNCHANGED <<metric, ranking>>

\* The process is killed: its transaction is rolled back, its row stays running.
Die(p) ==
  /\ run[p].phase # "idle"
  /\ run' = [run EXCEPT ![p] = Idle]
  /\ UNCHANGED <<metric, ranking, job>>

-----------------------------------------------------------------------------
(* The other jobs, and time *)

\* runScoreJob and runBreakoutJob overwrite the metrics of any number of sites.
Rescore(m) ==
  /\ metric' = m
  /\ UNCHANGED <<ranking, job, run>>

\* Another slot, another key.
NextSlot ==
  /\ job' = "absent"
  /\ run' = [p \in Process |-> [run[p] EXCEPT !.current = FALSE]]
  /\ UNCHANGED <<metric, ranking>>

Step(p) == \/ Begin(p) \/ Find(p) \/ Restart(p) \/ Collect(p) \/ Delete(p)
           \/ Publish(p) \/ Clash(p) \/ Fail(p) \/ Finish(p) \/ Die(p)

Next ==
  \/ \E p \in Process : Step(p)
  \/ \E m \in Metrics : Rescore(m)
  \/ NextSlot

\* The scheduler starts a run in infinitely many slots, and infinitely many of its runs
\* get past each of their steps; of an administrator's runs nothing is assumed.
Fairness ==
  /\ WF_vars(NextSlot)
  /\ \A p \in Timer : /\ WF_vars(Finish(p))
                      /\ SF_vars(Begin(p) \/ Restart(p)) /\ SF_vars(Collect(p))
                      /\ SF_vars(Delete(p)) /\ SF_vars(Publish(p) \/ Clash(p))

Spec == Init /\ [][Next]_vars /\ Fairness

-----------------------------------------------------------------------------
(* Properties *)

TypeOK ==
  /\ metric \in Metrics
  /\ ranking \subseteq Row
  /\ job \in JobStatus
  /\ run \in [Process -> Run]

On(places, scope) == {place \in places : place.scope = scope}

\* No rank is missing or taken twice, and the breakout leaderboard lists sites of the
\* global one in the same order.
Whole(places) ==
  /\ \A scope \in Scope :
       {place.rank : place \in On(places, scope)} = 1..Cardinality(On(places, scope))
  /\ \A b, c \in On(places, "breakout") : \E g, h \in On(places, "global") :
       g.site = b.site /\ h.site = c.site /\ (b.rank < c.rank => g.rank < h.rank)

\* However many runs overlap, are killed or repeat a slot, a publication is shown whole or
\* not at all, and publications shown side by side never list a site twice on one
\* leaderboard (runRankingJob, and the unique index of current_ranking).
PublicationsAreWhole ==
  /\ \A p \in Process : Whole(PublishedBy(p))
  /\ \A r, q \in ranking :
       r.by # q.by /\ r.place.site = q.place.site => r.place.scope # q.place.scope

CompleteSets == {Leaderboards(m) : m \in Metrics}

Board == INSTANCE RankingPublication WITH
  Complete <- CompleteSets,
  shown    <- [p \in Process |-> PublishedBy(p)],
  seen     <- [p \in Process |-> run[p].deleted]

\* Readers, who take no lock, never find a publication half replaced or gone without its
\* successor, whatever fails or dies between DELETE and commit, and what a publication
\* leaves was put there while it was under way: the job implements RankingPublication
\* (runRankingJob: "Publish the complete set atomically").
ReplacedAsAWhole == Board!Spec

\* Once the metrics stop changing, the leaderboards settle on them, although runs that
\* read older metrics may still publish, and clash with those that read the last ones.
LeaderboardsCatchUp == <>[][UNCHANGED metric]_metric => <>[](Published = Leaderboards(metric))
=============================================================================
