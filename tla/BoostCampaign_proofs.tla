------------------------ MODULE BoostCampaign_proofs ------------------------
(***************************************************************************)
(* Theorems about BoostCampaign, for any numbers of visitors, tokens,      *)
(* events, reports, requests and days, and any target and cap.             *)
(***************************************************************************)
EXTENDS BoostCampaign, FiniteSetTheorems, TLAPS

-----------------------------------------------------------------------------
(* Types *)

LEMMA NothingType == Nothing \in Nat
  BY IdAssumption, FS_CardinalityType DEF Nothing

LEMMA QualifiedFinite ==
  ASSUME NEW S \in SUBSET Event
  PROVE  IsFiniteSet(S) /\ Cardinality(S) \in Nat
  BY IdAssumption, FS_Subset, FS_CardinalityType

LEMMA BeginType ==
  ASSUME TypeOK, NEW w \in Worker, NEW next \in State, NEW after \in State, Begin(w, next, after)
  PROVE  TypeOK'
  <1>1. work' \in [Worker -> Work]
    BY DEF Begin, TypeOK, Work
  <1> QED BY <1>1 DEF Begin, TypeOK, campaign, delivery

LEMMA BeginReadType ==
  ASSUME TypeOK, NEW w \in Worker, NEW next \in State, BeginRead(w, next)
  PROVE  TypeOK'
  <1>1. work' \in [Worker -> Work]
    BY DEF BeginRead, TypeOK, Work, State
  <1> QED BY <1>1 DEF BeginRead, TypeOK, campaign, delivery

LEMMA TodaysHashType ==
  ASSUME day \in Day, NEW v \in Visitor
  PROVE  TodaysHash(v) \in Hash
  BY DEF TodaysHash, Hash

LEMMA FollowingType ==
  ASSUME TypeOK, NEW w \in Worker
  PROVE  Following(w) \in Work
  BY DEF Following, TypeOK, Work, Idle, State

LEMMA InsertEventType ==
  ASSUME TypeOK, NEW o \in Opportunity, NEW e \in Event, NEW d \in Day,
         NEW class \in {"qualified", "rejected"}, InsertEvent(o, e, class, d)
  PROVE  event' \in [Event -> EventRow]
  <1>1. opportunity[o].hash \in Hash
    BY DEF TypeOK, OpportunityRow
  <1>2. [class |-> class, hash |-> opportunity[o].hash, day |-> d] \in EventRow
    BY <1>1 DEF EventRow
  <1>3. [event[e] EXCEPT !.class = class] \in EventRow
    BY DEF TypeOK, EventRow
  <1> QED BY <1>2, <1>3 DEF InsertEvent, TypeOK

LEMMA InitType == Init => TypeOK
  <1> SUFFICES ASSUME Init PROVE TypeOK
    OBVIOUS
  <1>1. 0 \in Day
    BY NumberAssumption DEF Day
  <1>2. PICK h \in Hash :
          /\ opportunity = [o \in Opportunity |-> [hash |-> h, issued |-> FALSE, used |-> FALSE]]
          /\ event = [e \in Event |-> [class |-> "none", hash |-> h, day |-> 0]]
    BY <1>1, TodaysHashType DEF Init
  <1>3. opportunity \in [Opportunity -> OpportunityRow]
    BY <1>2 DEF OpportunityRow
  <1>4. event \in [Event -> EventRow]
    BY <1>1, <1>2 DEF EventRow
  <1>5. work \in [Worker -> Work]
    BY DEF Init, Idle, Work, State
  <1>6. exposure \in [Hash -> [Day -> Nat]]
    BY DEF Init
  <1>7. reports \subseteq Report /\ state \in State
    BY DEF Init, State
  <1> QED BY <1>1, <1>3, <1>4, <1>5, <1>6, <1>7, NothingType DEF Init, TypeOK

LEMMA TypeStep == TypeOK /\ [Next]_vars => TypeOK'
  <1> SUFFICES ASSUME TypeOK, [Next]_vars PROVE TypeOK'
    OBVIOUS
  <1> USE NumberAssumption
  <1>0. Request \subseteq Worker /\ Completer \in Worker /\ Reconciler \in Worker
    BY DEF Worker
  <1>1. ASSUME NEW from \in Day, NEW until \in Day, Create(from, until) PROVE TypeOK'
    BY <1>1 DEF Create, TypeOK, State, delivery
  <1>2. ASSUME NEW r \in Request, Pause(r) \/ Resume(r) \/ Cancel(r) \/ Suspend(r) PROVE TypeOK'
    <2>1. CASE Pause(r)
      BY <1>0, <2>1, BeginReadType DEF Pause, State
    <2>2. CASE Resume(r)
      BY <1>0, <2>2, BeginType, BeginReadType DEF Resume, State
    <2>3. CASE Cancel(r)
      <3>1. /\ (IF state \in {"scheduled", "active", "paused"} THEN "cancel_requested"
                ELSE "cancelled") \in State
            /\ "absent" \in State
        BY DEF State
      <3> QED BY <1>0, <2>3, <3>1, BeginType DEF Cancel
    <2>4. CASE Suspend(r)
      BY <1>0, <2>4, BeginReadType DEF Suspend, State
    <2> QED BY <1>2, <2>1, <2>2, <2>3, <2>4
  <1>3. ASSUME NEW until \in Day, Extend(until) PROVE TypeOK'
    BY <1>3 DEF Extend, TypeOK, delivery
  <1>4. CASE SelectEnded
    <2>1. /\ (IF TargetMet(delivered) THEN "completed" ELSE "underdelivered") \in State
          /\ "delivery_complete" \in State
      BY DEF State
    <2> QED BY <1>0, <1>4, <2>1, BeginType DEF SelectEnded
  <1>5. CASE SelectShortfall
    BY <1>0, <1>5, BeginType DEF SelectShortfall, State
  <1>6. ASSUME NEW w \in Worker, ReadState(w) PROVE TypeOK'
    <2>1. [work[w] EXCEPT !.phase = "read"] \in Work /\ Idle \in Work
      BY DEF TypeOK, Work, Idle, State
    <2>2. work' \in [Worker -> Work]
      BY <1>6, <2>1, FollowingType DEF ReadState, TypeOK
    <2> QED BY <1>6, <2>2 DEF ReadState, TypeOK, campaign, delivery
  <1>7. ASSUME NEW w \in Worker, WriteState(w) PROVE TypeOK'
    <2>1. work' \in [Worker -> Work]
      BY <1>7, FollowingType DEF WriteState, TypeOK
    <2>2. state' \in State
      BY <1>7 DEF WriteState, TypeOK, Work
    <2> QED BY <1>7, <2>1, <2>2 DEF WriteState, TypeOK, delivery
  <1>8. ASSUME NEW w \in Worker, WorkerDies(w) PROVE TypeOK'
    <2>1. work' \in [Worker -> Work]
      BY <1>8 DEF WorkerDies, TypeOK, Idle, Work, State
    <2> QED BY <1>8, <2>1 DEF WorkerDies, TypeOK, campaign, delivery
  <1>9. ASSUME NEW o \in Opportunity, NEW v \in Visitor, Serve(o, v) PROVE TypeOK'
    <2>1. TodaysHash(v) \in Hash
      BY TodaysHashType DEF TypeOK
    <2>2. opportunity' \in [Opportunity -> OpportunityRow]
      BY <1>9, <2>1 DEF Serve, TypeOK, OpportunityRow
    <2> QED BY <1>9, <2>2 DEF Serve, TypeOK, campaign
  <1>10. ASSUME NEW o \in Opportunity, NEW e \in Event, Refuse(o, e) PROVE TypeOK'
    <2>1. event' \in [Event -> EventRow]
      BY <1>10, InsertEventType DEF Refuse, TypeOK
    <2> QED BY <1>10, <2>1 DEF Refuse, TypeOK, campaign
  <1>11. ASSUME NEW o \in Opportunity, NEW e \in Event, Admit(o, e) PROVE TypeOK'
    <2>1. reports' \subseteq Report
      BY <1>11 DEF Admit, TypeOK, Report
    <2> QED BY <1>11, <2>1 DEF Admit, TypeOK, campaign
  <1>12. ASSUME NEW r \in reports, NEW d \in Day, Qualify(r, d) PROVE TypeOK'
    <2>1. r.opportunity \in Opportunity /\ r.event \in Event
      BY DEF TypeOK, Report
    <2>2. event' \in [Event -> EventRow]
      BY <1>12, <2>1, InsertEventType DEF Qualify
    <2>3. opportunity[r.opportunity].hash \in Hash
      BY <2>1 DEF TypeOK, OpportunityRow
    <2>4. exposure' \in [Hash -> [Day -> Nat]]
      BY <1>12, <2>3 DEF Qualify, TypeOK
    <2>5. opportunity' \in [Opportunity -> OpportunityRow]
      BY <1>12, <2>1 DEF Qualify, TypeOK, OpportunityRow
    <2>6. delivered' \in Nat /\ reports' \subseteq Report
      BY <1>12 DEF Qualify, TypeOK
    <2> QED BY <1>12, <2>2, <2>4, <2>5, <2>6 DEF Qualify, TypeOK, campaign
  <1>13. ASSUME NEW r \in reports, NEW d \in Day, Capped(r, d) PROVE TypeOK'
    <2>1. r.opportunity \in Opportunity /\ r.event \in Event
      BY DEF TypeOK, Report
    <2>2. event' \in [Event -> EventRow]
      BY <1>13, <2>1, InsertEventType DEF Capped
    <2> QED BY <1>13, <2>2 DEF Capped, TypeOK, campaign
  <1>14. ASSUME NEW r \in reports, ReportFails(r) PROVE TypeOK'
    BY <1>14 DEF ReportFails, TypeOK, campaign
  <1>15. CASE Recount
    <2>1. CountQualified \in Nat
      BY QualifiedFinite DEF CountQualified, Qualified
    <2> QED BY <1>15, <2>1 DEF Recount, TypeOK, campaign, delivery
  <1>16. CASE StoreCount
    BY <1>16, NothingType DEF StoreCount, TypeOK, campaign
  <1>17. CASE AggregateDies
    BY <1>17, NothingType DEF AggregateDies, TypeOK, campaign, delivery
  <1>18. CASE Tick
    BY <1>18 DEF Tick, TypeOK, Day, campaign, delivery
  <1>19. CASE UNCHANGED vars
    BY <1>19 DEF vars, TypeOK
  <1> QED BY <1>1, <1>2, <1>3, <1>4, <1>5, <1>6, <1>7, <1>8, <1>9, <1>10, <1>11, <1>12,
             <1>13, <1>14, <1>15, <1>16, <1>17, <1>18, <1>19 DEF Next

\* The rows of a campaign and of its delivery keep their types.
THEOREM TypeCorrect == Spec => []TypeOK
  <1>1. Init => TypeOK
    BY InitType
  <1>2. TypeOK /\ [Next]_vars => TypeOK'
    BY TypeStep
  <1> QED BY <1>1, <1>2, PTL DEF Spec

-----------------------------------------------------------------------------
(* The ledger only grows *)

\* What a report that is not counted does to the ledger.
LEMMA RejectionKeepsLedger ==
  ASSUME TypeOK, NEW o \in Opportunity, NEW e \in Event, NEW d \in Day,
         InsertEvent(o, e, "rejected", d)
  PROVE  /\ Qualified' = Qualified
         /\ \A w \in Hash, c \in Day : CountedOn(w, c)' = CountedOn(w, c)
  <1>1. \A f \in Event : f # e => event'[f] = event[f]
    BY DEF InsertEvent, TypeOK
  <1>2. event'[e] = event[e] \/ (event[e].class = "none" /\ event'[e].class = "rejected")
    BY DEF InsertEvent, TypeOK
  <1>3. Qualified' = Qualified
    BY <1>1, <1>2 DEF Qualified
  <1>4. \A f \in Qualified : event'[f] = event[f]
    BY <1>1, <1>2 DEF Qualified
  <1> QED BY <1>3, <1>4 DEF CountedOn

\* What a qualified report adds to it: one event, of its hash and window.
LEMMA QualifiedAddsOne ==
  ASSUME TypeOK, NEW r \in reports, NEW d \in Day, Qualify(r, d),
         NEW h \in Hash, h = opportunity[r.opportunity].hash
  PROVE  /\ r.event \in Event \ Qualified
         /\ Qualified' = Qualified \cup {r.event}
         /\ CountedOn(h, d)' = CountedOn(h, d) \cup {r.event}
         /\ \A w \in Hash, c \in Day :
              w # h \/ c # d => CountedOn(w, c)' = CountedOn(w, c)
  <1>1. PICK e \in Event : e = r.event
    BY DEF TypeOK, Report
  <1>2. r.opportunity \in Opportunity
    BY DEF TypeOK, Report
  <1>3. event[e].class = "none"
    BY <1>1 DEF Qualify
  <1>4. event' = [event EXCEPT ![e] = [class |-> "qualified", hash |-> h, day |-> d]]
    BY <1>1, <1>3 DEF Qualify, InsertEvent
  <1>5. \A f \in Event : f # e => event'[f] = event[f]
    BY <1>1, <1>4 DEF TypeOK
  <1>6. event'[e].class = "qualified" /\ event'[e].hash = h /\ event'[e].day = d
    BY <1>1, <1>4 DEF TypeOK
  <1>7. e \in Event \ Qualified
    BY <1>1, <1>3 DEF Qualified
  <1>8. Qualified' = Qualified \cup {e}
    BY <1>1, <1>5, <1>6 DEF Qualified
  <1>9. \A f \in Qualified : event'[f] = event[f]
    BY <1>5, <1>7 DEF Qualified
  <1>10. CountedOn(h, d)' = CountedOn(h, d) \cup {e}
    BY <1>6, <1>8, <1>9 DEF CountedOn
  <1>11. ASSUME NEW w \in Hash, NEW c \in Day, w # h \/ c # d
         PROVE  CountedOn(w, c)' = CountedOn(w, c)
    BY <1>6, <1>8, <1>9, <1>11 DEF CountedOn
  <1> QED BY <1>1, <1>7, <1>8, <1>10, <1>11

\* No other step touches the ledger.
LEMMA LedgerStep ==
  ASSUME TypeOK, [Next]_vars
  PROVE  \/ event' = event /\ exposure' = exposure
         \/ /\ exposure' = exposure /\ delivered' = delivered /\ work' = work
            /\ rebuilt' = rebuilt /\ state' = state
            /\ \E o \in Opportunity, e \in Event, d \in Day : InsertEvent(o, e, "rejected", d)
         \/ \E r \in reports, d \in Day : Qualify(r, d)
  <1>1. ASSUME NEW o \in Opportunity, NEW e \in Event, Refuse(o, e)
        PROVE  /\ exposure' = exposure /\ delivered' = delivered /\ work' = work
               /\ rebuilt' = rebuilt /\ state' = state
               /\ \E p \in Opportunity, f \in Event, d \in Day : InsertEvent(p, f, "rejected", d)
    BY <1>1 DEF Refuse, TypeOK, campaign
  <1>2. ASSUME NEW r \in reports, NEW d \in Day, Capped(r, d)
        PROVE  /\ exposure' = exposure /\ delivered' = delivered /\ work' = work
               /\ rebuilt' = rebuilt /\ state' = state
               /\ \E p \in Opportunity, f \in Event, c \in Day : InsertEvent(p, f, "rejected", c)
    <2>1. r.opportunity \in Opportunity /\ r.event \in Event
      BY DEF TypeOK, Report
    <2> QED BY <1>2, <2>1 DEF Capped, campaign
  <1>3. ASSUME ~(\E o \in Opportunity, e \in Event : Refuse(o, e)),
               ~(\E r \in reports, d \in Day : Qualify(r, d) \/ Capped(r, d))
        PROVE  event' = event /\ exposure' = exposure
    BY <1>3 DEF Next, vars, Create, Pause, Resume, Cancel, Suspend, Begin, BeginRead, Extend, SelectEnded,
       SelectShortfall, ReadState, WriteState, WorkerDies, Serve, Admit, ReportFails,
       Recount, StoreCount, AggregateDies, Tick, delivery
  <1> QED BY <1>1, <1>2, <1>3

-----------------------------------------------------------------------------
(* The frequency cap *)

\* The exposure row counts the events of its hash and window, under the cap.
ExposureInv ==
  \A h \in Hash, d \in Day :
    Cardinality(CountedOn(h, d)) = exposure[h][d] /\ exposure[h][d] <= Cap

LEMMA InitExposure == Init => ExposureInv
  <1> SUFFICES ASSUME Init, NEW h \in Hash, NEW d \in Day
               PROVE  Cardinality(CountedOn(h, d)) = exposure[h][d] /\ exposure[h][d] <= Cap
    BY DEF ExposureInv
  <1>1. \A e \in Event : event[e].class = "none"
    BY DEF Init
  <1>2. CountedOn(h, d) = {}
    BY <1>1 DEF CountedOn, Qualified
  <1> QED BY <1>2, FS_EmptySet, NumberAssumption DEF Init

LEMMA ExposureStep == TypeOK /\ ExposureInv /\ [Next]_vars => ExposureInv'
  <1> SUFFICES ASSUME TypeOK, ExposureInv, [Next]_vars PROVE ExposureInv'
    OBVIOUS
  <1>1. CASE event' = event /\ exposure' = exposure
    BY <1>1 DEF ExposureInv, CountedOn, Qualified
  <1>2. CASE /\ exposure' = exposure
             /\ \E o \in Opportunity, e \in Event, d \in Day : InsertEvent(o, e, "rejected", d)
    <2>1. \A w \in Hash, c \in Day : CountedOn(w, c)' = CountedOn(w, c)
      BY <1>2, RejectionKeepsLedger
    <2> QED BY <1>2, <2>1 DEF ExposureInv
  <1>3. ASSUME NEW r \in reports, NEW d \in Day, Qualify(r, d) PROVE ExposureInv'
    <2>1. r.opportunity \in Opportunity
      BY DEF TypeOK, Report
    <2>2. PICK h \in Hash : h = opportunity[r.opportunity].hash
      BY <2>1 DEF TypeOK, OpportunityRow
    <2>3. /\ r.event \in Event \ Qualified
          /\ CountedOn(h, d)' = CountedOn(h, d) \cup {r.event}
          /\ \A w \in Hash, c \in Day :
               w # h \/ c # d => CountedOn(w, c)' = CountedOn(w, c)
      BY <1>3, <2>2, QualifiedAddsOne
    <2>4. exposure[h][d] < Cap /\ exposure' = [exposure EXCEPT ![h][d] = @ + 1]
      BY <1>3, <2>2 DEF Qualify, UnderCap
    <2>5. Cardinality(CountedOn(h, d) \cup {r.event}) = Cardinality(CountedOn(h, d)) + 1
      <3>1. CountedOn(h, d) \in SUBSET Event /\ r.event \notin CountedOn(h, d)
        BY <2>3 DEF CountedOn, Qualified
      <3> QED BY <3>1, QualifiedFinite, FS_AddElement
    <2>6. exposure[h][d] \in Nat /\ exposure'[h][d] = exposure[h][d] + 1
      BY <2>4 DEF TypeOK
    <2>7. \A w \in Hash, c \in Day : w # h \/ c # d => exposure'[w][c] = exposure[w][c]
      BY <2>4 DEF TypeOK
    <2>8. Cardinality(CountedOn(h, d)') = exposure'[h][d] /\ exposure'[h][d] <= Cap
      BY <2>3, <2>4, <2>5, <2>6, NumberAssumption DEF ExposureInv
    <2>9. ASSUME NEW w \in Hash, NEW c \in Day, w # h \/ c # d
          PROVE  Cardinality(CountedOn(w, c)') = exposure'[w][c] /\ exposure'[w][c] <= Cap
      <3>1. CountedOn(w, c)' = CountedOn(w, c) /\ exposure'[w][c] = exposure[w][c]
        BY <2>3, <2>7, <2>9
      <3> QED BY <3>1 DEF ExposureInv
    <2> QED BY <2>8, <2>9 DEF ExposureInv
  <1> QED BY <1>1, <1>2, <1>3, LedgerStep

\* Whatever reports pass the unlocked checks together, no visitor hash is counted more often
\* than the cap in one window (qualifyBoostImpression, under its advisory lock).
THEOREM CapHolds == Spec => []FrequencyCapHolds
  <1>1. Init => TypeOK /\ ExposureInv
    BY InitType, InitExposure
  <1>2. (TypeOK /\ ExposureInv) /\ [Next]_vars => (TypeOK /\ ExposureInv)'
    BY TypeStep, ExposureStep
  <1>3. TypeOK /\ ExposureInv => FrequencyCapHolds
    <2> SUFFICES ASSUME TypeOK, ExposureInv, NEW h \in Hash, NEW d \in Day
                 PROVE  Cardinality(CountedOn(h, d)) <= Cap
      BY DEF FrequencyCapHolds
    <2> QED BY DEF ExposureInv
  <1> QED BY <1>1, <1>2, <1>3, PTL DEF Spec

-----------------------------------------------------------------------------
(* The refinement of ImpressionLedger *)

\* The abstract ledger counts like this module: the definitions of FiniteSets are the same.
LEMMA SameCardinality ==
  ASSUME NEW S
  PROVE  Ledger!Cardinality(S) = Cardinality(S)
  BY DEF Ledger!Cardinality, Cardinality

\* The variables of the ledger.
Counted == [e \in Event |-> CountedFor(e)]
Spent == {o \in Opportunity : opportunity[o].used}
Waiting == {<<r.opportunity, r.event>> : r \in reports}

\* Only a qualified event counts against a row.
LEMMA CountedForMeaning ==
  ASSUME NEW e \in Event, NEW h, NEW d
  PROVE  /\ CountedFor(e) = <<>> <=> event[e].class # "qualified"
         /\ CountedFor(e) = <<h, d>> <=> e \in CountedOn(h, d)
  <1>1. <<event[e].hash, event[e].day>> # <<>> /\ <<h, d>> # <<>>
    OBVIOUS
  <1>2. <<event[e].hash, event[e].day>> = <<h, d>> <=> event[e].hash = h /\ event[e].day = d
    OBVIOUS
  <1> QED BY <1>1, <1>2 DEF CountedFor, CountedOn, Qualified

\* Only rows that were inserted are reported and used.
IssuedInv ==
  /\ \A o \in Opportunity : opportunity[o].used => opportunity[o].issued
  /\ \A r \in reports : opportunity[r.opportunity].issued

LEMMA InitIssued == Init => IssuedInv
  BY DEF Init, IssuedInv

\* What the steps do to opportunities and reports.
LEMMA IssuedStep == TypeOK /\ IssuedInv /\ [Next]_vars => IssuedInv'
  <1> SUFFICES ASSUME TypeOK, IssuedInv, [Next]_vars PROVE IssuedInv'
    OBVIOUS
  <1>0. \A r \in reports : r.opportunity \in Opportunity /\ r.event \in Event
    BY DEF TypeOK, Report
  <1>1. CASE opportunity' = opportunity /\ reports' \subseteq reports
    BY <1>1 DEF IssuedInv
  <1>2. ASSUME NEW o \in Opportunity, NEW v \in Visitor, Serve(o, v) PROVE IssuedInv'
    <2>1. /\ reports' = reports
          /\ opportunity'[o].issued /\ ~opportunity'[o].used
          /\ \A p \in Opportunity : p # o => opportunity'[p] = opportunity[p]
      BY <1>2 DEF Serve, TypeOK
    <2> QED BY <1>0, <2>1 DEF IssuedInv
  <1>3. ASSUME NEW o \in Opportunity, NEW e \in Event, Admit(o, e) PROVE IssuedInv'
    <2>1. /\ opportunity' = opportunity /\ opportunity[o].issued
          /\ reports' = reports \cup {[opportunity |-> o, event |-> e]}
      BY <1>3 DEF Admit, Presentable
    <2> QED BY <2>1 DEF IssuedInv
  <1>4. ASSUME NEW r \in reports, NEW d \in Day, Qualify(r, d) PROVE IssuedInv'
    <2>1. /\ reports' \subseteq reports
          /\ \A p \in Opportunity : p # r.opportunity => opportunity'[p] = opportunity[p]
          /\ opportunity'[r.opportunity].issued = opportunity[r.opportunity].issued
      BY <1>0, <1>4 DEF Qualify, TypeOK, OpportunityRow
    <2> QED BY <1>0, <2>1 DEF IssuedInv
  <1>5. ASSUME ~(opportunity' = opportunity /\ reports' \subseteq reports) PROVE IssuedInv'
    BY <1>2, <1>3, <1>4, <1>5
       DEF Next, vars, Create, Pause, Resume, Cancel, Suspend, Begin, BeginRead, Extend,
           SelectEnded, SelectShortfall, ReadState, WriteState, WorkerDies, Refuse, Capped,
           ReportFails, Recount, StoreCount, AggregateDies, Tick, delivery
  <1> QED BY <1>1, <1>5

\* A report that is decided on no longer waits, and no other is gone.
LEMMA DecidedReport ==
  ASSUME TypeOK, NEW r \in reports, reports' = reports \ {r}
  PROVE  Waiting' = Waiting \ {<<r.opportunity, r.event>>}
  <1>1. ASSUME NEW q \in reports
        PROVE  <<q.opportunity, q.event>> = <<r.opportunity, r.event>> <=> q = r
    <2>1. q \in Report /\ r \in Report
      BY DEF TypeOK
    <2>2. q = [opportunity |-> q.opportunity, event |-> q.event]
      BY <2>1 DEF Report
    <2>3. r = [opportunity |-> r.opportunity, event |-> r.event]
      BY <2>1 DEF Report
    <2> QED BY <2>2, <2>3
  <1>2. \A x : x \in Waiting' <=> \E q \in reports : q # r /\ x = <<q.opportunity, q.event>>
    BY DEF Waiting
  <1>3. \A x : x \in Waiting <=> \E q \in reports : x = <<q.opportunity, q.event>>
    BY DEF Waiting
  <1>4. \A x : x \in Waiting' <=> x \in Waiting /\ x # <<r.opportunity, r.event>>
    BY <1>1, <1>2, <1>3
  <1> QED BY <1>4

\* A report that is refused or capped leaves what is counted.
LEMMA RejectionKeepsCounted ==
  ASSUME TypeOK, NEW o \in Opportunity, NEW f \in Event, NEW d \in Day,
         InsertEvent(o, f, "rejected", d)
  PROVE  Counted' = Counted
  <1>1. \A e \in Event : e # f => event'[e] = event[e]
    BY DEF InsertEvent, TypeOK
  <1>2. event'[f] = event[f] \/ (event[f].class = "none" /\ event'[f].class = "rejected")
    BY DEF InsertEvent, TypeOK, EventRow
  <1>3. \A e \in Event : CountedFor(e)' = CountedFor(e)
    BY <1>1, <1>2 DEF CountedFor
  <1> QED BY <1>3 DEF Counted

\* A report that qualifies: its event is new to the ledger, its row below the cap, and its
\* token spent from now on.
LEMMA QualifyCounts ==
  ASSUME TypeOK, ExposureInv, NEW r \in reports, NEW d \in Day, Qualify(r, d)
  PROVE  \E t \in Opportunity, e \in Event : Ledger!Count(t, e)
  <1>1. PICK t \in Opportunity : t = r.opportunity
    BY DEF TypeOK, Report
  <1>2. PICK h \in Hash : h = opportunity[t].hash
    BY DEF TypeOK, OpportunityRow
  <1>3. PICK e \in Event : e = r.event
    BY DEF TypeOK, Report
  <1>4. /\ event[e].class = "none"
        /\ event' = [event EXCEPT ![e] = [class |-> "qualified", hash |-> h, day |-> d]]
    BY <1>1, <1>2, <1>3 DEF Qualify, InsertEvent
  <1>5. Counted[e] = <<>>
    BY <1>4, CountedForMeaning DEF Counted
  <1>6. Counted'[e] = <<h, d>>
    <2>1. event'[e].class = "qualified" /\ event'[e].hash = h /\ event'[e].day = d
      BY <1>4 DEF TypeOK
    <2> QED BY <2>1 DEF CountedFor, Counted
  <1>7. Counted' = [Counted EXCEPT ![e] = Counted'[e]]
    <2>1. ASSUME NEW f \in Event, f # e
          PROVE  CountedFor(f)' = CountedFor(f)
      BY <1>4, <2>1 DEF TypeOK, CountedFor
    <2> QED BY <2>1 DEF Counted
  <1>8. Cardinality({f \in Event : Counted[f] = Counted'[e]}) < Cap
    <2>1. {f \in Event : Counted[f] = Counted'[e]} = CountedOn(h, d)
      <3>1. CountedOn(h, d) \subseteq Event
        BY DEF CountedOn, Qualified
      <3> QED BY <1>6, <3>1, CountedForMeaning DEF Counted
    <2>2. exposure[h][d] < Cap
      BY <1>1, <1>2 DEF Qualify, UnderCap
    <2> QED BY <2>1, <2>2 DEF ExposureInv
  <1>9. Counted'[e] \in Hash \X Day
    BY <1>6
  <1>10. Spent' = Spent \cup {t}
    <2>1. \A o \in Opportunity : o # t => opportunity'[o] = opportunity[o]
      BY <1>1 DEF Qualify, TypeOK
    <2>2. opportunity'[t].used
      BY <1>1 DEF Qualify, TypeOK, OpportunityRow
    <2> QED BY <2>1, <2>2 DEF Spent
  <1>11. <<t, e>> \in Waiting /\ Waiting' = Waiting \ {<<t, e>>}
    <2>1. reports' = reports \ {r}
      BY DEF Qualify
    <2> QED BY <1>1, <1>3, <2>1, DecidedReport DEF Waiting
  <1>12. Ledger!Count(t, e)
    BY <1>5, <1>7, <1>8, <1>9, <1>10, <1>11, SameCardinality
       DEF Ledger!Count, Ledger!NotCounted, Counted, Spent, Waiting
  <1> QED BY <1>12

\* Every other step admits a report, drops one or leaves the ledger alone.
LEMMA OtherStepsKeepCounted ==
  ASSUME TypeOK, IssuedInv, [Next]_vars, ~(\E r \in reports, d \in Day : Qualify(r, d))
  PROVE  \/ \E t \in Opportunity, e \in Event : Ledger!Admit(t, e) \/ Ledger!Drop(t, e)
         \/ UNCHANGED Ledger!ledger
  <1>0. \A r \in reports : r.opportunity \in Opportunity /\ r.event \in Event
    BY DEF TypeOK, Report
  <1>1. CASE event' = event /\ opportunity' = opportunity /\ reports' = reports
    BY <1>1 DEF Ledger!ledger, CountedFor
  <1>2. ASSUME NEW o \in Opportunity, NEW v \in Visitor, Serve(o, v) PROVE UNCHANGED Ledger!ledger
    <2>1. /\ ~opportunity[o].used /\ ~opportunity'[o].used
          /\ \A p \in Opportunity : p # o => opportunity'[p] = opportunity[p]
      BY <1>2 DEF Serve, TypeOK, OpportunityRow, IssuedInv
    <2>2. Spent' = Spent
      BY <2>1 DEF Spent
    <2>3. event' = event /\ reports' = reports
      BY <1>2 DEF Serve
    <2> QED BY <2>2, <2>3 DEF Ledger!ledger, CountedFor, Spent
  <1>3. ASSUME NEW o \in Opportunity, NEW e \in Event, Admit(o, e) PROVE Ledger!Admit(o, e)
    <2>1. /\ o \notin Spent /\ Spent' = Spent /\ Counted' = Counted
          /\ reports' = reports \cup {[opportunity |-> o, event |-> e]}
      BY <1>3 DEF Admit, Unused, Spent, Counted, CountedFor
    <2>2. Waiting' = Waiting \cup {<<o, e>>}
      <3> DEFINE new == [opportunity |-> o, event |-> e]
      <3>1. new.opportunity = o /\ new.event = e
        OBVIOUS
      <3>2. \A x : x \in Waiting <=> \E q \in reports : x = <<q.opportunity, q.event>>
        BY DEF Waiting
      <3>3. \A x : x \in Waiting' <=> \E q \in reports' : x = <<q.opportunity, q.event>>
        BY DEF Waiting
      <3>4. reports' = reports \cup {new}
        BY <2>1
      <3> HIDE DEF new
      <3>5. \A x : x \in Waiting' <=> x \in Waiting \/ x = <<o, e>>
        BY <3>1, <3>2, <3>3, <3>4
      <3> QED BY <3>5
    <2> QED BY <2>1, <2>2 DEF Ledger!Admit, Counted, Spent, Waiting
  <1>4. ASSUME NEW r \in reports, reports' = reports \ {r}, opportunity' = opportunity, Counted' = Counted
        PROVE  Ledger!Drop(r.opportunity, r.event)
    <2>1. Waiting' = Waiting \ {<<r.opportunity, r.event>>}
      BY <1>4, DecidedReport
    <2> QED BY <1>4, <2>1 DEF Ledger!Drop, Counted, Spent, Waiting
  <1>5. ASSUME NEW r \in reports, NEW d \in Day, Capped(r, d) PROVE Ledger!Drop(r.opportunity, r.event)
    BY <1>0, <1>4, <1>5, RejectionKeepsCounted DEF Capped
  <1>6. ASSUME NEW r \in reports, ReportFails(r) PROVE Ledger!Drop(r.opportunity, r.event)
    <2>1. Counted' = Counted
      BY <1>6 DEF ReportFails, Counted, CountedFor
    <2> QED BY <1>4, <1>6, <2>1 DEF ReportFails
  <1>7. ASSUME NEW o \in Opportunity, NEW e \in Event, Refuse(o, e) PROVE UNCHANGED Ledger!ledger
    <2>1. Counted' = Counted
      BY <1>7, RejectionKeepsCounted DEF Refuse, TypeOK
    <2> QED BY <1>7, <2>1 DEF Refuse, Ledger!ledger, Counted
  <1>8. ASSUME ~(event' = event /\ opportunity' = opportunity /\ reports' = reports)
        PROVE  \/ \E o \in Opportunity, v \in Visitor : Serve(o, v)
               \/ \E o \in Opportunity, e \in Event : Refuse(o, e) \/ Admit(o, e)
               \/ \E r \in reports : ReportFails(r) \/ \E d \in Day : Capped(r, d)
    BY <1>8
       DEF Next, vars, Create, Pause, Resume, Cancel, Suspend, Begin, BeginRead, Extend,
           SelectEnded, SelectShortfall, ReadState, WriteState, WorkerDies,
           Recount, StoreCount, AggregateDies, Tick, delivery
  <1> QED BY <1>0, <1>1, <1>2, <1>3, <1>5, <1>6, <1>7, <1>8

\* An impression counts for good, and only for a report admitted while its token was unused:
\* opportunities, reports and event rows implement ImpressionLedger.
THEOREM ImplementsImpressionLedger == Spec => LedgerIsKept
  <1>1. Init => Ledger!Init
    BY DEF Init, Ledger!Init, Ledger!NotCounted, CountedFor
  <1>2. TypeOK /\ ExposureInv /\ IssuedInv /\ [Next]_vars => [Ledger!Next]_(Ledger!ledger)
    BY QualifyCounts, OtherStepsKeepCounted DEF Ledger!Next
  <1>3. Init => TypeOK /\ ExposureInv /\ IssuedInv
    BY InitType, InitExposure, InitIssued
  <1>4. (TypeOK /\ ExposureInv /\ IssuedInv) /\ [Next]_vars => (TypeOK /\ ExposureInv /\ IssuedInv)'
    BY TypeStep, ExposureStep, IssuedStep
  <1> QED BY <1>1, <1>2, <1>3, <1>4, PTL DEF Spec, LedgerIsKept, Ledger!Spec

-----------------------------------------------------------------------------
(* Completion *)

\* Both copies of the count are at most the ledger, and whoever has decided to
\* complete the campaign has seen enough.
CountInv ==
  /\ delivered <= Cardinality(Qualified)
  /\ rebuilt # Nothing => rebuilt <= Cardinality(Qualified)
  /\ state = "completed" => Cardinality(Qualified) >= Target
  /\ \A w \in Worker : work[w].next = "completed" \/ work[w].after = "completed" =>
                         Cardinality(Qualified) >= Target

LEMMA InitCount == Init => CountInv
  <1> SUFFICES ASSUME Init PROVE CountInv
    OBVIOUS
  <1>1. Qualified = {}
    BY DEF Init, Qualified
  <1> QED BY <1>1, FS_EmptySet DEF Init, CountInv, Idle

LEMMA CountWhenLedgerKept ==
  ASSUME TypeOK, CountInv, [Next]_vars, event' = event
  PROVE  CountInv'
  <1>0. Cardinality(Qualified) \in Nat /\ Qualified' = Qualified /\ delivered \in Nat
    BY QualifiedFinite DEF Qualified, TypeOK
  <1>1. CASE UNCHANGED <<delivered, rebuilt, state, work>>
    BY <1>0, <1>1 DEF CountInv
  <1>2. ASSUME NEW w \in Worker, NEW next, NEW after, Begin(w, next, after),
               next = "completed" \/ after = "completed" => Cardinality(Qualified) >= Target
        PROVE  CountInv'
    BY <1>0, <1>2 DEF Begin, CountInv, TypeOK, campaign, delivery
  <1>3. ASSUME NEW r \in Request, Pause(r) \/ Resume(r) \/ Cancel(r) \/ Suspend(r) PROVE CountInv'
    <2>1. ASSUME NEW next \in {"paused", "active", "suspended"}, BeginRead(r, next) PROVE CountInv'
      BY <1>0, <2>1 DEF BeginRead, CountInv, TypeOK, campaign, delivery
    <2> QED BY <1>2, <1>3, <2>1 DEF Pause, Resume, Cancel, Suspend, Worker
  <1>4. CASE SelectEnded
    <2>1. TargetMet(delivered) => Cardinality(Qualified) >= Target
      BY <1>0, NumberAssumption DEF TargetMet, CountInv
    <2> QED BY <1>2, <1>4, <2>1 DEF SelectEnded, Worker
  <1>5. CASE SelectShortfall
    BY <1>2, <1>5 DEF SelectShortfall, Worker
  <1>6. ASSUME NEW w \in Worker, ReadState(w) \/ WorkerDies(w) PROVE CountInv'
    <2>1. \A z \in Worker : z # w => work'[z] = work[z]
      BY <1>6 DEF ReadState, WorkerDies, TypeOK
    <2>2. work'[w] \in {Idle, Following(w), [work[w] EXCEPT !.phase = "read"]}
      BY <1>6 DEF ReadState, WorkerDies, TypeOK
    <2>3. work'[w].next = "completed" \/ work'[w].after = "completed" =>
            work[w].next = "completed" \/ work[w].after = "completed"
      BY <2>2 DEF Idle, Following, TypeOK, Work
    <2> QED BY <1>0, <1>6, <2>1, <2>3 DEF ReadState, WorkerDies, CountInv, campaign, delivery
  <1>7. ASSUME NEW w \in Worker, WriteState(w) PROVE CountInv'
    <2>1. \A z \in Worker : z # w => work'[z] = work[z]
      BY <1>7 DEF WriteState, TypeOK
    <2>2. work'[w].next = "completed" \/ work'[w].after = "completed" =>
            work[w].next = "completed" \/ work[w].after = "completed"
      BY <1>7 DEF WriteState, Idle, Following, TypeOK, Work
    <2>3. state' = "completed" => work[w].next = "completed"
      BY <1>7 DEF WriteState
    <2> QED BY <1>0, <1>7, <2>1, <2>2, <2>3 DEF WriteState, CountInv, delivery
  <1>8. CASE Recount
    BY <1>0, <1>8 DEF Recount, CountInv, CountQualified, campaign, delivery
  <1>9. CASE StoreCount
    BY <1>0, <1>9 DEF StoreCount, CountInv, campaign
  <1>10. CASE AggregateDies
    BY <1>0, <1>10 DEF AggregateDies, CountInv, campaign, delivery
  <1>11. ASSUME NEW from \in Day, NEW until \in Day, Create(from, until) PROVE CountInv'
    BY <1>0, <1>11 DEF Create, CountInv, delivery
  <1>12. ASSUME NEW r \in reports, NEW d \in Day, Qualify(r, d) PROVE FALSE
    <2>1. r.event \in Event /\ event[r.event].class = "none" /\ event'[r.event].class = "qualified"
      BY <1>12 DEF Qualify, InsertEvent, TypeOK, Report
    <2> QED BY <2>1
  <1>13. ASSUME ~UNCHANGED <<delivered, rebuilt, state, work>> PROVE CountInv'
    BY <1>3, <1>4, <1>5, <1>6, <1>7, <1>8, <1>9, <1>10, <1>11, <1>12, <1>13
       DEF Next, vars, Extend, Serve, Refuse, Admit, Capped, ReportFails, Tick,
           campaign, delivery
  <1> QED BY <1>1, <1>13

LEMMA CountStep == TypeOK /\ CountInv /\ [Next]_vars => CountInv'
  <1> SUFFICES ASSUME TypeOK, CountInv, [Next]_vars PROVE CountInv'
    OBVIOUS
  <1>1. CASE event' = event
    BY <1>1, CountWhenLedgerKept
  <1>2. CASE /\ delivered' = delivered /\ work' = work /\ rebuilt' = rebuilt /\ state' = state
             /\ \E o \in Opportunity, e \in Event, d \in Day : InsertEvent(o, e, "rejected", d)
    <2>1. Qualified' = Qualified
      BY <1>2, RejectionKeepsLedger
    <2> QED BY <1>2, <2>1 DEF CountInv, Nothing
  <1>3. ASSUME NEW r \in reports, NEW d \in Day, Qualify(r, d) PROVE CountInv'
    <2>1. r.opportunity \in Opportunity
      BY DEF TypeOK, Report
    <2>2. PICK h \in Hash : h = opportunity[r.opportunity].hash
      BY <2>1 DEF TypeOK, OpportunityRow
    <2>3. r.event \notin Qualified /\ Qualified' = Qualified \cup {r.event}
      BY <1>3, <2>2, QualifiedAddsOne
    <2>4. Qualified \in SUBSET Event
      BY DEF Qualified
    <2>5. Cardinality(Qualified) \in Nat /\ Cardinality(Qualified') = Cardinality(Qualified) + 1
      BY <2>3, <2>4, QualifiedFinite, FS_AddElement
    <2>6. /\ delivered' = delivered + 1 /\ work' = work /\ rebuilt' = rebuilt /\ state' = state
          /\ delivered \in Nat /\ rebuilt \in Nat
      BY <1>3 DEF Qualify, TypeOK, campaign
    <2> QED BY <2>5, <2>6, NumberAssumption DEF CountInv, Nothing
  <1> QED BY <1>1, <1>2, <1>3, LedgerStep

\* A campaign becomes completed only when the ledger holds its target, although the
\* decision is taken from a counter that older counts overwrite, and written later.
THEOREM CompletionIsEarned == Spec => []CompletedMeansDelivered
  <1>1. Init => TypeOK /\ CountInv
    BY InitType, InitCount
  <1>2. (TypeOK /\ CountInv) /\ [Next]_vars => (TypeOK /\ CountInv)'
    BY TypeStep, CountStep
  <1>3. CountInv => CompletedMeansDelivered
    BY DEF CountInv, CompletedMeansDelivered
  <1> QED BY <1>1, <1>2, <1>3, PTL DEF Spec
=============================================================================
