--------------------------- MODULE BoostCampaign ---------------------------
(***************************************************************************)
(* One Boost campaign: its state machine and the delivery it is paid for.  *)
(*                                                                         *)
(* Owners, administrators and two scheduled scripts move the campaign      *)
(* through its states, each in a transaction that reads the state and      *)
(* then overwrites it.  Browsers report impressions of the opportunities   *)
(* they were served; a transaction classifies each report and counts the   *)
(* qualified ones, and a third script rebuilds the counter from the rows.  *)
(* Reservation and payment cannot be reached: the table has no transition  *)
(* from inventory_check to inventory_reserved.                             *)
(***************************************************************************)
EXTENDS Naturals, FiniteSets

CONSTANTS Visitor,      \* anonymous visitors of the pages
          Opportunity,  \* rows of boost_impression_opportunity, one token each
          Event,        \* event ids that browsers invent
          Request,      \* requests of owners and administrators under way at once
          Target,       \* targetImpressions
          Cap,          \* frequencyCapPerVisitorPerDay of the placement, when serving too
          MaxDay,       \* bound: the days that pass
          MaxReports,   \* bound: impression reports under way at once
          MaxWork       \* bound: transitions under way at once

ASSUME IdAssumption ==
  /\ IsFiniteSet(Event)
  /\ "boost-complete" \notin Request /\ "boost-underdelivery" \notin Request
ASSUME NumberAssumption ==
  Target \in Nat /\ Cap \in Nat /\ MaxDay \in Nat /\ MaxReports \in Nat /\ MaxWork \in Nat

VARIABLES day,        \* the time, in days
          state,      \* state of row boost_campaign
          startDay, endDay, \* startAt and endAt
          delivered,  \* validImpressions, and deliveredImpressions with it
          opportunity, \* opportunity[o]: row of boost_impression_opportunity
          event,      \* event[e]: row of boost_impression_event
          exposure,   \* exposure[h][d]: exposureCount of the row of boost_frequency_cap
                      \* for the hash h and the window that starts on day d
          reports,    \* the impression reports that have passed the unlocked checks
          work,       \* work[w]: what an owner, administrator or script is doing
          rebuilt     \* the count that the running boost-aggregate has read

vars == <<day, state, startDay, endDay, delivered, opportunity, event, exposure, reports, work, rebuilt>>
campaign == <<state, startDay, endDay>>
delivery == <<delivered, opportunity, event, exposure, reports>>

Day == 0..MaxDay
Completer == "boost-complete"
Reconciler == "boost-underdelivery"
Worker == Request \cup {Completer, Reconciler}

-----------------------------------------------------------------------------
(* The transition table *)

\* Only states that some code writes or the migration of older rows produces, and
\* the targets they may move to.
State == {"absent", "draft", "pending_payment", "scheduled", "active", "paused",
          "delivery_complete", "completed", "underdelivered", "cancel_requested",
          "cancelled", "suspended"}

Stops == {"paused", "cancel_requested", "suspended"}

Allowed ==
  [s \in State |->
    CASE s = "draft"             -> {"cancelled"}
      [] s = "pending_payment"   -> {"cancelled"}
      [] s = "scheduled"         -> {"active", "delivery_complete"} \cup Stops
      [] s = "active"            -> {"delivery_complete"} \cup Stops
      [] s = "paused"            -> {"scheduled", "active", "cancel_requested", "suspended"}
      [] s = "delivery_complete" -> {"completed", "underdelivered"}
      [] s = "underdelivered"    -> {"scheduled", "active", "completed"}
      [] s = "cancel_requested"  -> {"cancelled"}
      [] s = "suspended"         -> {"paused", "cancel_requested"}
      [] OTHER                   -> {}]

-----------------------------------------------------------------------------
(* Rows *)

\* A transition in progress: what to do next, the state that was read, and the
\* second transition of boost-complete.
Work == [phase : {"idle", "begun", "read"}, next : State, after : State]
Idle == [phase |-> "idle", next |-> "absent", after |-> "absent"]

\* anonymousVisitorHash: the date goes into the hash, so a visitor has another one
\* every day.
Hash == [visitor : Visitor, day : Day]
TodaysHash(v) == [visitor |-> v, day |-> day]

OpportunityRow == [hash : Hash, issued : BOOLEAN, used : BOOLEAN]
\* hash and day: what a qualified event was counted for; the rest of the row is left out.
EventRow == [class : {"none", "qualified", "rejected"}, hash : Hash, day : Day]
Report == [opportunity : Opportunity, event : Event]

\* boost-aggregate is not under way.
Nothing == Cardinality(Event) + 1

\* No campaign yet, or one from before the state column.
Init ==
  /\ day = 0
  /\ state \in {"absent", "pending_payment", "scheduled", "active", "paused"}
  /\ startDay \in Day /\ endDay \in Day /\ startDay < endDay
  /\ delivered = 0
  /\ \E h \in {TodaysHash(v) : v \in Visitor} :
       /\ opportunity = [o \in Opportunity |-> [hash |-> h, issued |-> FALSE, used |-> FALSE]]
       /\ event = [e \in Event |-> [class |-> "none", hash |-> h, day |-> 0]]
  /\ exposure = [h \in Hash |-> [d \in Day |-> 0]]
  /\ reports = {}
  /\ work = [w \in Worker |-> Idle]
  /\ rebuilt = Nothing

-----------------------------------------------------------------------------
(* Moving the campaign: transitionCampaignTx and its callers *)

\* createBoostCampaign
Create(from, until) ==
  /\ state = "absent"
  /\ day <= from /\ from < until
  /\ state' = "draft"
  /\ startDay' = from
  /\ endDay' = until
  /\ UNCHANGED <<day, delivery, work, rebuilt>>

Free(w) == work[w] = Idle /\ Cardinality({x \in Worker : work[x] # Idle}) < MaxWork

\* The target depends on what was read before transitionCampaignTx.
Begin(w, next, after) ==
  /\ Free(w)
  /\ work' = [work EXCEPT ![w] = [phase |-> "begun", next |-> next, after |-> after]]
  /\ UNCHANGED <<day, campaign, delivery, rebuilt>>

\* The target is fixed: the request begins as transitionCampaignTx reads the state
\* and finds that the table allows the move.
BeginRead(w, next) ==
  /\ Free(w)
  /\ next \in Allowed[state]
  /\ work' = [work EXCEPT ![w] = [phase |-> "read", next |-> next, after |-> "absent"]]
  /\ UNCHANGED <<day, campaign, delivery, rebuilt>>

Pause(r) == BeginRead(r, "paused")

\* The route chooses the target from the start date; only a start that is still to
\* come may have passed by the time the state is read.
Resume(r) ==
  \/ startDay <= day /\ BeginRead(r, "active")
  \/ startDay > day /\ state # "absent" /\ Begin(r, "scheduled", "absent")

\* The route chooses the target from the state it reads; no reservation to release.
Cancel(r) ==
  /\ state # "absent"
  /\ Begin(r, IF state \in {"scheduled", "active", "paused"} THEN "cancel_requested" ELSE "cancelled",
           "absent")

Suspend(r) == BeginRead(r, "suspended")

\* The route of an administrator, whatever the state.
Extend(until) ==
  /\ state # "absent"
  /\ endDay < until
  /\ endDay' = until
  /\ UNCHANGED <<day, state, startDay, delivery, work, rebuilt>>

\* Mutant: a campaign that lacks one impression counts as delivered.
AlmostMet(n) == n + 1 >= Target

TargetMet(n) == n >= Target

\* boost-complete selects the campaign and decides its outcome from what it has read.
SelectEnded ==
  /\ state \in {"active", "scheduled"}
  /\ endDay < day
  /\ Begin(Completer, "delivery_complete",
           IF TargetMet(delivered) THEN "completed" ELSE "underdelivered")

\* boost-underdelivery
SelectShortfall ==
  /\ state = "delivery_complete"
  /\ ~TargetMet(delivered)
  /\ Begin(Reconciler, "underdelivered", "absent")

\* What is left to do after one transition.
Following(w) ==
  IF work[w].after = "absent" THEN Idle
  ELSE [phase |-> "begun", next |-> work[w].after, after |-> "absent"]

\* transitionCampaignTx reads the state without a lock: no step when it is there
\* already, an error that ends the request or the script when the table forbids it.
ReadState(w) ==
  /\ work[w].phase = "begun"
  /\ work' = [work EXCEPT ![w] =
       IF state = work[w].next THEN Following(w)
       ELSE IF work[w].next \in Allowed[state] THEN [work[w] EXCEPT !.phase = "read"]
       ELSE Idle]
  /\ UNCHANGED <<day, campaign, delivery, rebuilt>>

\* ... and then writes the new one, whatever the state is by now.
WriteState(w) ==
  /\ work[w].phase = "read"
  /\ state' = work[w].next
  /\ work' = [work EXCEPT ![w] = Following(w)]
  /\ UNCHANGED <<day, startDay, endDay, delivery, rebuilt>>

\* The request or the script dies between two of its statements.
WorkerDies(w) ==
  /\ work[w].phase # "idle"
  /\ work' = [work EXCEPT ![w] = Idle]
  /\ UNCHANGED <<day, campaign, delivery, rebuilt>>

-----------------------------------------------------------------------------
(* Delivery *)

\* The id of the next row; ids are as good as one another.
NextRow == CHOOSE o \in Opportunity : ~opportunity[o].issued

\* servedBoost and createImpressionOpportunity: the cap is read, the row inserted.
Serve(o, v) ==
  /\ state = "active" /\ startDay <= day /\ day <= endDay
  /\ ~TargetMet(delivered)
  /\ exposure[TodaysHash(v)][day] < Cap
  /\ ~opportunity[o].issued /\ o = NextRow
  /\ opportunity' = [opportunity EXCEPT ![o] =
       [hash |-> TodaysHash(v), issued |-> TRUE, used |-> FALSE]]
  /\ UNCHANGED <<day, campaign, delivered, event, exposure, reports, work, rebuilt>>

\* insertEvent: an event id that is taken inserts nothing.
InsertEvent(o, e, class, d) ==
  event' = IF event[e].class # "none" THEN event
           ELSE IF class = "rejected" THEN [event EXCEPT ![e].class = class]
           ELSE [event EXCEPT ![e] = [class |-> class, hash |-> opportunity[o].hash, day |-> d]]

\* A token that was signed for the hash its visitor has today.  The route turns others
\* away without a trace, and those whose five minutes are over: they do no step.
Presentable(o) == opportunity[o].issued /\ opportunity[o].hash.day = day

Running == state = "active" /\ startDay <= day /\ day < endDay

\* qualifyBoostImpression refuses before the lock: the token has been used, the
\* campaign does not run, or the owner looks at it or the view was too short.
Refuse(o, e) ==
  /\ Presentable(o)
  /\ InsertEvent(o, e, "rejected", day)
  /\ UNCHANGED <<day, campaign, delivered, opportunity, exposure, reports, work, rebuilt>>

\* Mutant: a token that has been used is not looked for.
AnyToken(o) == TRUE

\* usedAt, as read before the lock.
Unused(o) == ~opportunity[o].used

\* ... or goes on to wait for the lock of campaign, hash and window.
Admit(o, e) ==
  /\ Cardinality(reports) < MaxReports
  /\ Presentable(o)
  /\ Unused(o)
  /\ Running
  /\ reports' = reports \cup {[opportunity |-> o, event |-> e]}
  /\ UNCHANGED <<day, campaign, delivered, opportunity, event, exposure, work, rebuilt>>

\* Mutant: one exposure too many.
AtOrUnderCap(n) == n <= Cap

UnderCap(n) == n < Cap

\* The window of a report is taken after its checks and just before the lock: it may
\* start on a later day than the one in the hash.
WindowOf(r, d) == opportunity[r.opportunity].hash.day <= d /\ d <= day

\* Under the lock, the row of this hash and window decides.
Qualify(r, d) ==
  /\ WindowOf(r, d)
  /\ event[r.event].class = "none"
  /\ LET h == opportunity[r.opportunity].hash
     IN /\ UnderCap(exposure[h][d])
        /\ exposure' = [exposure EXCEPT ![h][d] = @ + 1]
  /\ InsertEvent(r.opportunity, r.event, "qualified", d)
  /\ opportunity' = [opportunity EXCEPT ![r.opportunity].used = TRUE]
  /\ delivered' = delivered + 1
  /\ reports' = reports \ {r}
  /\ UNCHANGED <<day, campaign, work, rebuilt>>

\* The cap is reached: the report is kept as such.
Capped(r, d) ==
  /\ WindowOf(r, d)
  /\ ~UnderCap(exposure[opportunity[r.opportunity].hash][d])
  /\ InsertEvent(r.opportunity, r.event, "rejected", d)
  /\ reports' = reports \ {r}
  /\ UNCHANGED <<day, campaign, delivered, opportunity, exposure, work, rebuilt>>

\* The event id is taken, the transaction fails or its process dies: rolled back.
ReportFails(r) ==
  /\ reports' = reports \ {r}
  /\ UNCHANGED <<day, campaign, delivered, opportunity, event, exposure, work, rebuilt>>

-----------------------------------------------------------------------------
(* boost-aggregate *)

Qualified == {e \in Event : event[e].class = "qualified"}

\* Mutant: counts the opportunities that were used.
CountUsed == Cardinality({o \in Opportunity : opportunity[o].used})

CountQualified == Cardinality(Qualified)

Recount ==
  /\ rebuilt = Nothing
  /\ rebuilt' = CountQualified
  /\ UNCHANGED <<day, campaign, delivery, work>>

StoreCount ==
  /\ rebuilt # Nothing
  /\ delivered' = rebuilt
  /\ rebuilt' = Nothing
  /\ UNCHANGED <<day, campaign, opportunity, event, exposure, reports, work>>

AggregateDies ==
  /\ rebuilt # Nothing
  /\ rebuilt' = Nothing
  /\ UNCHANGED <<day, campaign, delivery, work>>

Tick ==
  /\ day < MaxDay
  /\ day' = day + 1
  /\ UNCHANGED <<campaign, delivery, work, rebuilt>>

-----------------------------------------------------------------------------
Next ==
  \/ \E from, until \in Day : Create(from, until)
  \/ \E r \in Request : Pause(r) \/ Resume(r) \/ Cancel(r) \/ Suspend(r)
  \/ \E until \in Day : Extend(until)
  \/ SelectEnded \/ SelectShortfall
  \/ \E w \in Worker : ReadState(w) \/ WriteState(w) \/ WorkerDies(w)
  \/ \E o \in Opportunity, v \in Visitor : Serve(o, v)
  \/ \E o \in Opportunity, e \in Event : Refuse(o, e) \/ Admit(o, e)
  \/ \E r \in reports : ReportFails(r) \/ \E d \in Day : Qualify(r, d) \/ Capped(r, d)
  \/ Recount \/ StoreCount \/ AggregateDies
  \/ Tick

\* boost-aggregate is started again and again and is not killed every time.
Fairness == WF_vars(Recount) /\ SF_vars(StoreCount)

Spec == Init /\ [][Next]_vars /\ Fairness

-----------------------------------------------------------------------------
(* Correctness *)

\* Every variable keeps its type.
TypeOK ==
  /\ day \in Day /\ startDay \in Day /\ endDay \in Day
  /\ state \in State
  /\ delivered \in Nat
  /\ opportunity \in [Opportunity -> OpportunityRow]
  /\ event \in [Event -> EventRow]
  /\ exposure \in [Hash -> [Day -> Nat]]
  /\ reports \subseteq Report
  /\ work \in [Worker -> Work]
  /\ rebuilt \in Nat

\* The impressions counted for the hash h in the window of day d.
CountedOn(h, d) == {e \in Qualified : event[e].hash = h /\ event[e].day = d}

\* BOOST_IMPRESSION_MEASUREMENT.md, "Frequency caps use an anonymous first-party
\* context hash": no hash is counted more often than the cap in one window, however
\* many of its reports pass the unlocked checks at once.  It is not a cap on people:
\* a report that waits for the lock over midnight counts, in the window of the new
\* day, for the hash of the old one, beside those of the new hash.
FrequencyCapHolds ==
  \A h \in Hash, d \in Day : Cardinality(CountedOn(h, d)) <= Cap

\* A campaign is completed only when the ledger of impressions holds what was paid
\* for, although the script decides from a counter that another script overwrites
\* with older counts.
CompletedMeansDelivered == state = "completed" => Cardinality(Qualified) >= Target

\* The row of boost_frequency_cap that an impression counts against.
CountedFor(e) == IF event[e].class = "qualified" THEN <<event[e].hash, event[e].day>> ELSE <<>>

Ledger == INSTANCE ImpressionLedger WITH
  Token   <- Opportunity,
  counted <- [e \in Event |-> CountedFor(e)],
  spent   <- {o \in Opportunity : opportunity[o].used},
  waiting <- {<<r.opportunity, r.event>> : r \in reports}

\* What is charged implements ImpressionLedger (qualifyBoostImpression, insertEvent):
\* an impression counts for good and only for a report that was admitted while its
\* token was unused; a repeated, refused or capped report counts nothing and takes
\* nothing back, and once a token is used no other report of it gets to the lock.
LedgerIsKept == Ledger!Spec

\* Once reports stop, the counter agrees with the ledger for good: updates that the
\* rebuild has overwritten are found by a later rebuild.
CountersCatchUp == <>[](delivered = Cardinality(Qualified))
=============================================================================
