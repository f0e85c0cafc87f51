------------------------- MODULE BreakoutDetection -------------------------
(***************************************************************************)
(* The breakouts of one site.                                              *)
(*                                                                         *)
(* Every five minutes the breakout job compares the site's traffic with    *)
(* its baseline, evaluates the rule against the latest row of              *)
(* breakout_event and, in one transaction, inserts or updates that row,    *)
(* announces the change and copies the state to site_metric_current, the   *)
(* badge that the pages and the "breakout" leaderboard read.               *)
(*                                                                         *)
(* Times are ages in slots of the job, held at the longest span that the   *)
(* rule compares them with, so that the model needs no bound on time.  A   *)
(* slot has no evaluation when its run fails, is killed or is never        *)
(* started, and several when an administrator forces them.  Runs do not    *)
(* overlap.                                                                *)
(*                                                                         *)
(* The names of the specification differ from RankingJob's, so that one    *)
(* module of theorems can extend both jobs of ranking-engine.ts.           *)
(***************************************************************************)
EXTENDS Naturals

CONSTANTS Persistence,  \* persistenceMinutes, in slots
          Resolution,   \* resolutionMinutes
          Cooldown,     \* cooldownMinutes
          Never         \* the age of a time that is null

ASSUME NeverAssumption == Never \notin Nat
ASSUME SpanAssumption ==
  Persistence \in Nat \ {0} /\ Resolution \in Nat \ {0} /\ Cooldown \in Nat \ {0}

VARIABLES signal,  \* what the counters of site_metric_current and the baseline amount to
          event,   \* the latest row of breakout_event
          badge,   \* breakoutState of site_metric_current
          met      \* history: for how many slots every evaluation met the threshold, or Never

breakoutVars == <<signal, event, badge, met>>

\* unsafe: stale, suspicious or unverified; low: below the exit threshold; mid: below
\* the entry threshold; high and exceptional meet it.
Signal == {"unsafe", "low", "mid", "high", "exceptional"}
BreakoutState == {"none", "watch", "breaking_out", "surging", "cooling", "resolved", "invalidated"}
Public == {"breaking_out", "surging"}
Closed == {"resolved", "invalidated"}

Longest == Persistence + Resolution
Age == (0..Longest) \cup {Never}

\* present: whether any row exists; since, evaluated: the ages of activeSince and
\* lastEvaluatedAt; cooldown: the slots left until cooldownUntil.
EventRow == [present : BOOLEAN, state : BreakoutState, since : Age, evaluated : 0..Longest,
             cooldown : 0..Cooldown]

BreakoutInit ==
  /\ signal \in Signal
  /\ event = [present |-> FALSE, state |-> "none", since |-> Never, evaluated |-> 0, cooldown |-> 0]
  /\ badge = "none"
  /\ met = Never

-----------------------------------------------------------------------------
(* The rule: evaluateBreakout *)

ThresholdMet == signal \in {"high", "exceptional"}

\* An evaluation that changes nothing but the state: the fields it leaves null.
To(s) == [state |-> s, since |-> Never, cooldown |-> 0]

InCooldown == event.state = "resolved" /\ event.cooldown > 0

\* The prior states that cool down when the threshold is no longer met.
\* Mutant: a breakout that is cooling goes on cooling.
PublicOrCooling == Public \cup {"cooling"}
MayCool == Public

Falling ==
  IF event.state \notin MayCool
  THEN To("none")
  ELSE IF signal = "low" /\ event.evaluated >= Resolution
       THEN [To("resolved") EXCEPT !.since = event.since, !.cooldown = Cooldown]
       ELSE [To("cooling") EXCEPT !.since = event.since]

Rising ==
  LET since == IF event.since = Never THEN 0 ELSE event.since
  IN  [To(IF since < Persistence THEN "watch"
          ELSE IF signal = "exceptional" THEN "surging" ELSE "breaking_out")
       EXCEPT !.since = since]

Evaluation ==
  CASE signal = "unsafe" -> To(IF event.state \in Public THEN "invalidated" ELSE "none")
    [] signal # "unsafe" /\ InCooldown -> [To("resolved") EXCEPT !.cooldown = event.cooldown]
    [] signal # "unsafe" /\ ~InCooldown /\ ThresholdMet -> Rising
    [] OTHER -> Falling

-----------------------------------------------------------------------------
(* The job: runBreakoutJob *)

History == met' = IF ThresholdMet THEN (IF met = Never THEN 0 ELSE met) ELSE Never

\* Nothing to record: only the badge is written.
NothingYet ==
  /\ ~event.present
  /\ Evaluation.state = "none"
  /\ badge' = "none"
  /\ History
  /\ UNCHANGED <<signal, event>>

\* The row remains as it is while it is cooling down; the badge is not written.
StillInCooldown ==
  /\ event.present
  /\ signal # "unsafe" /\ InCooldown
  /\ event' = [event EXCEPT !.evaluated = 0]
  /\ History
  /\ UNCHANGED <<signal, badge>>

StartsNewRow == ~event.present \/ event.state \in Closed

\* A new row holds what the evaluation says; an old one keeps what it leaves null.
RowOf(ev) ==
  IF StartsNewRow
  THEN [present |-> TRUE, state |-> ev.state, since |-> ev.since, evaluated |-> 0,
        cooldown |-> ev.cooldown]
  ELSE [event EXCEPT !.state = ev.state, !.evaluated = 0,
                     !.since = IF ev.since = Never THEN @ ELSE ev.since,
                     !.cooldown = IF ev.state = "resolved" THEN ev.cooldown ELSE @]

\* Mutant: the badge is written only with a public activity.
BadgeOfAnnounced(ev) == IF ev.state \in Public \cup {"cooling", "resolved"} THEN ev.state ELSE badge
BadgeOf(ev) == ev.state

Record ==
  /\ event.present \/ Evaluation.state # "none"
  /\ ~(event.present /\ signal # "unsafe" /\ InCooldown)
  /\ event' = RowOf(Evaluation)
  /\ badge' = BadgeOf(Evaluation)
  /\ History
  /\ UNCHANGED signal

Evaluate == NothingYet \/ StillInCooldown \/ Record

-----------------------------------------------------------------------------
(* Traffic and time *)

Traffic ==
  /\ signal' \in Signal
  /\ UNCHANGED <<event, badge, met>>

Older(age) == IF age = Never \/ age = Longest THEN age ELSE age + 1

NextWindow ==
  /\ event' = [event EXCEPT !.since = Older(@), !.evaluated = Older(@),
                            !.cooldown = IF @ = 0 THEN 0 ELSE @ - 1]
  /\ met' = Older(met)
  /\ UNCHANGED <<signal, badge>>

BreakoutNext == Evaluate \/ Traffic \/ NextWindow

\* Time passes, and runs go on being started and now and then one completes.
BreakoutFairness == WF_breakoutVars(NextWindow) /\ WF_breakoutVars(Evaluate)

BreakoutSpec == BreakoutInit /\ [][BreakoutNext]_breakoutVars /\ BreakoutFairness

-----------------------------------------------------------------------------
(* Properties *)

BreakoutTypeOK ==
  /\ signal \in Signal
  /\ event \in EventRow
  /\ badge \in BreakoutState
  /\ met \in Age

\* The badge on the site is always the state of its latest breakout row, although three
\* branches of the job write only one of the two (site_metric_current.breakoutState
\* against breakout_event.state).
BadgeIsLatestState == badge = event.state

\* A breakout never outlives its traffic: whatever row it is recorded in and whatever
\* runs are missed, once the traffic stays below the entry threshold the public state
\* and the cooling that follows it end (the exits of evaluateBreakout).
SpikesFade == <>[](~ThresholdMet) => <>[](badge \notin Public \cup {"cooling"})

\* A breakout becomes public only when every evaluation of the persistence window has
\* met the threshold (persistenceMinutes of evaluateBreakout).
EntryNeedsPersistence ==
  [][badge \notin Public /\ badge' \in Public => met # Never /\ met >= Persistence]_breakoutVars
=============================================================================
