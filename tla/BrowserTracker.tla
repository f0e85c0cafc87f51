--------------------------- MODULE BrowserTracker ---------------------------
(***************************************************************************)
(* The tracker script of one site in the tabs of one browser:              *)
(* tracker/src/tracker.ts.  Each open page runs a tracker of its own, with *)
(* timers for heartbeats, for engagement and for events to be sent again;  *)
(* the tabs share the consent and the opt-out in localStorage, which a     *)
(* tracker looks up whenever it acts and is not told about.                *)
(*                                                                         *)
(* A timer fires at any time once it is due.  The delays of the retries    *)
(* are left out, and so is retryGeneration, which repeats what clearing    *)
(* the timers does.  Storage works, and a page that is left is not kept    *)
(* for the back button.                                                    *)
(*                                                                         *)
(* An event fails when config.send says so.  The script's own send never   *)
(* does; one that is given to createTracker may.                           *)
(*                                                                         *)
(* The names of the specification differ from TrafficPipeline's, so that   *)
(* one module of theorems can extend both ends of an event.                *)
(***************************************************************************)
EXTENDS Naturals, FiniteSets

CONSTANTS
    Tab,
    ConsentRequired, \* data-consent-required
    EngagedAfter,    \* engagedAfterMs, in ticks
    MaxTries,        \* the length of RETRY_DELAYS
    MaxPending,      \* failed events of all pages at a time (a bound of the model)
    Null             \* no timer, no time

ASSUME TrackerAssumption ==
    /\ ConsentRequired \in BOOLEAN
    /\ {EngagedAfter, MaxTries, MaxPending} \subseteq Nat
    /\ Null \notin Nat
    /\ IsFiniteSet(Tab)

VARIABLES
    optOut,   \* si_opt_out in localStorage
    consent,  \* si_consent in localStorage
    page,     \* page[t]: the page open in a tab, and its tracker
    view,     \* view[t]: history, what is known of the page view recorded last
    missed    \* missed[t]: history, what a tracker skipped for another tab's opt-out

trackerVars == <<optOut, consent, page, view, missed>>

Time == 0..EngagedAfter

\* An event that could not be sent: in retryQueue, or with a timer of its own.
Failed == [id : 1..MaxPending, tries : 0..MaxTries, timed : BOOLEAN]

\* clock: heartbeatTimer; due: engagementTimer; since and seen: visibleSince and
\* visibleAccumulatedMs; retry: retryTimer.
Page == [open : BOOLEAN, visible : BOOLEAN, started : BOOLEAN, active : BOOLEAN,
         waiting : BOOLEAN, clock : BOOLEAN, due : Time \cup {Null},
         since : Time \cup {Null}, seen : Time, engaged : BOOLEAN,
         failed : SUBSET Failed, retry : BOOLEAN]

\* The variables of createTracker.
Blank == [open |-> FALSE, visible |-> FALSE, started |-> FALSE, active |-> FALSE,
          waiting |-> FALSE, clock |-> FALSE, due |-> Null, since |-> Null,
          seen |-> 0, engaged |-> FALSE, failed |-> {}, retry |-> FALSE]

\* A page view: how long it has really been visible, and its engaged events.
NewView == [visible |-> 0, engaged |-> 0]

TrackerInit ==
    /\ optOut \in BOOLEAN
    /\ consent \in BOOLEAN
    /\ page = [t \in Tab |-> Blank]
    /\ view = [t \in Tab |-> NewView]
    /\ missed = [t \in Tab |-> {}]

CanSend(p) == p.active /\ ~p.waiting /\ ~optOut

Sooner(a, b) == IF a < b THEN a ELSE b
Plus(a, b) == Sooner(a + b, EngagedAfter)

----------------------------------------------------------------------------
(* Sending *)

\* retryQueue.push and scheduleRetry.
Queued(p) ==
    [p EXCEPT !.retry = TRUE,
              !.failed = @ \cup {[id |-> CHOOSE i \in 1..MaxPending : \A f \in @ : f.id # i,
                                  tries |-> 0, timed |-> FALSE]}]

FailedElsewhere(t) == UNION {page[u].failed \X {u} : u \in Tab \ {t}}

\* How many more events may fail in this model.
Room(t, p) == MaxPending - Cardinality(p.failed) - Cardinality(FailedElsewhere(t))

\* A page that has sent an event, or has failed to.
Emit(t, p) == {p} \cup (IF Room(t, p) > 0 THEN {Queued(p)} ELSE {})

\* session_start, then pageview. A tracker that begins queues the second without
\* trying when the first has failed, which is one of the outcomes of sending both.
Greet(t, p) == UNION {Emit(t, q) : q \in Emit(t, p)}

----------------------------------------------------------------------------
(* Timers of visibility *)

\* armEngagement, by a tracker that may send
Arm(p) ==
    IF ~p.engaged /\ p.visible
    THEN [p EXCEPT !.due = EngagedAfter - p.seen, !.since = 0]
    ELSE [p EXCEPT !.due = Null]

\* pauseVisibility
Paused(p) ==
    [p EXCEPT !.seen = IF p.since = Null THEN @ ELSE Plus(@, p.since),
              !.since = Null, !.due = Null, !.clock = FALSE]

\* Mutant: only the engagement goes on when a page is shown again.
ResumedWithoutClock(p) == Arm(p)

\* resumeVisibility
Resumed(p) == Arm([p EXCEPT !.clock = TRUE])

\* Mutant: a new page view keeps the time of the one before.
ArmedAsBefore(p) == Arm([p EXCEPT !.engaged = FALSE])

\* The engagement of a new page view.
Restarted(p) == Arm([p EXCEPT !.engaged = FALSE, !.seen = 0])

----------------------------------------------------------------------------
(* The tracker's interface *)

\* begin, or a page whose tracker has begun before and may go on.
Begin(t, p) ==
    /\ \E q \in Greet(t, [p EXCEPT !.started = TRUE, !.active = TRUE, !.waiting = FALSE]) :
        page' = [page EXCEPT ![t] = [Restarted([q EXCEPT !.since = Null]) EXCEPT !.clock = TRUE]]
    /\ view' = [view EXCEPT ![t] = NewView]

\* A page is loaded, in the foreground or not: createTracker and start.
Load(t) ==
    /\ ~page[t].open
    /\ \E visible \in BOOLEAN :
        LET waiting == ConsentRequired /\ ~consent
            p == [Blank EXCEPT !.open = TRUE, !.visible = visible, !.waiting = waiting]
        IN  IF waiting \/ optOut
            THEN page' = [page EXCEPT ![t] = p] /\ UNCHANGED view
            ELSE Begin(t, p)
    /\ UNCHANGED <<optOut, consent, missed>>

\* grantConsent
GrantConsent(t) ==
    /\ page[t].open
    /\ optOut' = FALSE
    /\ consent' = TRUE
    /\ Begin(t, page[t])
    /\ missed' = [missed EXCEPT ![t] = @ \ {"show"}]

\* optOut
OptOut(t) ==
    /\ page[t].open
    /\ optOut' = TRUE
    /\ page' = [page EXCEPT ![t] =
        [Blank EXCEPT !.open = TRUE, !.visible = page[t].visible,
                      !.started = page[t].started, !.waiting = page[t].waiting]]
    /\ missed' = [missed EXCEPT ![t] = {}]
    /\ UNCHANGED <<consent, view>>

\* pagehide sends session_end with a beacon; the page and its timers are gone.
Leave(t) ==
    /\ page[t].open
    /\ page' = [page EXCEPT ![t] = Blank]
    /\ view' = [view EXCEPT ![t] = NewView]
    /\ missed' = [missed EXCEPT ![t] = {}]
    /\ UNCHANGED <<optOut, consent>>

\* visibilitychange
Hide(t) ==
    /\ page[t].open /\ page[t].visible
    /\ LET p == [page[t] EXCEPT !.visible = FALSE]
       IN  page' = [page EXCEPT ![t] = IF p.started THEN Paused(p) ELSE p]
    /\ UNCHANGED <<optOut, consent, view, missed>>

Show(t) ==
    /\ page[t].open /\ ~page[t].visible
    /\ LET p == [page[t] EXCEPT !.visible = TRUE]
       IN  page' = [page EXCEPT ![t] = IF p.started /\ CanSend(p) THEN Resumed(p) ELSE p]
    /\ missed' = [missed EXCEPT ![t] =
                    IF page[t].active /\ optOut THEN @ \cup {"show"} ELSE @ \ {"show"}]
    /\ UNCHANGED <<optOut, consent, view>>

\* pushState, replaceState or popstate: trackNavigation
Navigate(t) ==
    /\ page[t].started /\ CanSend(page[t])
    /\ \E p \in Emit(t, page[t]) : page' = [page EXCEPT ![t] = Restarted(p)]
    /\ view' = [view EXCEPT ![t] = NewView]
    /\ UNCHANGED <<optOut, consent, missed>>

----------------------------------------------------------------------------
(* Timers *)

\* A heartbeat that is sent changes nothing.
Heartbeat(t) ==
    /\ page[t].clock /\ page[t].visible /\ CanSend(page[t])
    /\ \E p \in Emit(t, page[t]) : page' = [page EXCEPT ![t] = p]
    /\ UNCHANGED <<optOut, consent, view, missed>>

EngagementTimer(t) ==
    /\ page[t].due = 0
    /\ LET p == [page[t] EXCEPT !.due = Null]
       IN  IF ~p.visible \/ p.engaged \/ optOut
           THEN page' = [page EXCEPT ![t] = p] /\ UNCHANGED view
           ELSE /\ \E q \in Emit(t, [p EXCEPT !.engaged = TRUE, !.seen = Plus(@, p.since)]) :
                    page' = [page EXCEPT ![t] = q]
                /\ view' = [view EXCEPT ![t].engaged = @ + 1]
    /\ UNCHANGED <<optOut, consent, missed>>

\* The timer of the queue gives every event in it a timer of its own.
RetryTimer(t) ==
    /\ page[t].retry
    /\ page' = [page EXCEPT ![t].retry = FALSE,
                            ![t].failed = IF CanSend(page[t])
                                          THEN {[f EXCEPT !.timed = TRUE] : f \in @} ELSE @]
    /\ missed' = [missed EXCEPT ![t] =
                    IF CanSend(page[t]) THEN @ \ {"retry"} ELSE @ \cup {"retry"}]
    /\ UNCHANGED <<optOut, consent, view>>

\* Mutant: an event is tried again for ever.
RetriedForever(p, f) ==
    [p EXCEPT !.failed = (@ \ {f}) \cup {[f EXCEPT !.timed = FALSE]}, !.retry = TRUE]

\* Mutant: one try more than there are delays.
RequeuedOnceMore(p, f) ==
    IF f.tries <= MaxTries
    THEN [p EXCEPT !.failed = (@ \ {f}) \cup {[f EXCEPT !.tries = @ + 1, !.timed = FALSE]},
                   !.retry = TRUE]
    ELSE [p EXCEPT !.failed = @ \ {f}]

\* An event that failed once more goes back to the queue, unless it is out of tries.
Requeued(p, f) ==
    IF f.tries < MaxTries
    THEN [p EXCEPT !.failed = (@ \ {f}) \cup {[f EXCEPT !.tries = @ + 1, !.timed = FALSE]},
                   !.retry = TRUE]
    ELSE [p EXCEPT !.failed = @ \ {f}]

\* The timer of one event: sent, failed again, or dropped when sending is not allowed.
SendAgain(t, i) ==
    /\ \E f \in page[t].failed :
        /\ f.id = i /\ f.timed
        /\ \/ page' = [page EXCEPT ![t].failed = @ \ {f}]
           \/ CanSend(page[t]) /\ page' = [page EXCEPT ![t] = Requeued(page[t], f)]
    /\ UNCHANGED <<optOut, consent, view, missed>>

\* Time passes; a timer may be late.
TimePasses ==
    /\ page' = [t \in Tab |->
        [page[t] EXCEPT !.due = IF @ \in {Null, 0} THEN @ ELSE @ - 1,
                        !.since = IF @ = Null THEN Null ELSE Plus(@, 1)]]
    /\ view' = [t \in Tab |->
        [view[t] EXCEPT !.visible = IF page[t].visible THEN Plus(@, 1) ELSE @]]
    /\ UNCHANGED <<optOut, consent, missed>>

Step(t) ==
    \/ Load(t) \/ GrantConsent(t) \/ OptOut(t) \/ Leave(t)
    \/ Hide(t) \/ Show(t) \/ Navigate(t)
    \/ Heartbeat(t) \/ EngagementTimer(t) \/ RetryTimer(t)
    \/ \E i \in 1..MaxPending : SendAgain(t, i)

TrackerNext == TimePasses \/ \E t \in Tab : Step(t)

\* The browser runs the timers of the retries.
TrackerFairness ==
    \A t \in Tab : /\ WF_trackerVars(RetryTimer(t))
                   /\ \A i \in 1..MaxPending : WF_trackerVars(SendAgain(t, i))

TrackerSpec == TrackerInit /\ [][TrackerNext]_trackerVars /\ TrackerFairness

----------------------------------------------------------------------------
(* Correctness *)

\* Every variable keeps its type.
TrackerTypeOK ==
    /\ optOut \in BOOLEAN
    /\ consent \in BOOLEAN
    /\ page \in [Tab -> Page]
    /\ view \in [Tab -> [visible : Time, engaged : Nat]]
    /\ missed \in [Tab -> SUBSET {"show", "retry"}]

\* A page that is visible and may send has its heartbeat timer, in whatever order
\* it was hidden, shown, opted out and granted, by itself or by other tabs; all but
\* a page that was shown while another tab's opt-out was in force.
VisiblePagesBeat ==
    \A t \in Tab :
        page[t].visible /\ page[t].started /\ CanSend(page[t]) /\ "show" \notin missed[t]
            => page[t].clock

\* A page view is reported as engaged at most once, and only after it has really
\* been visible for EngagedAfter: neither hidden time nor the time of an earlier
\* page view counts, however often the page is hidden, left by pushState or opted out.
EngagementIsEarned ==
    \A t \in Tab :
        /\ view[t].engaged <= 1
        /\ view[t].engaged = 1 => view[t].visible = EngagedAfter

\* An event that could not be sent is sent, given up or forgotten in the end; all but
\* one whose retry came while another tab's opt-out was in force, which no timer
\* takes up again.
FailedIsSettled ==
    \A t \in Tab, i \in 1..MaxPending :
        (\E f \in page[t].failed : f.id = i)
            ~> (\A f \in page[t].failed : f.id # i) \/ "retry" \in missed[t]
=============================================================================
