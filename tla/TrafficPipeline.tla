-------------------------- MODULE TrafficPipeline --------------------------
(***************************************************************************)
(* The way of one site's visitor events through the Cloudflare providers:  *)
(* the collector Worker (workers/collector) judges a request and puts its  *)
(* events on a queue; the consumer Worker (workers/queue-consumer), of     *)
(* which several instances run, forwards a batch to the event store and    *)
(* acknowledges it; the store (PostgresEventStoreProvider) inserts the     *)
(* rows and keeps the visitors who are online; the aggregation of every    *)
(* five minutes (traffic-aggregation.ts) sweeps sessions that went silent. *)
(*                                                                         *)
(* The queue delivers at least once and in any order. A Worker may die at  *)
(* any step, the store may refuse or answer too late, and the two ledgers  *)
(* of event ids in KV are written after the work they record.              *)
(***************************************************************************)
EXTENDS Naturals, FiniteSets

CONSTANTS
    Event,      \* event ids made by the tracker
    Session,    \* browser tabs
    SessionOf,  \* the tab of an event
    KindOf,     \* what an event says of its tab, a member of Kind
    Rejected,   \* events that the anti-fraud rules refuse
    Worker,     \* instances of the consumer
    MaxSends,   \* how often the tracker sends an event (a bound of the model)
    MaxRetries, \* max_retries of the queue's configuration
    MaxBatch,   \* messages in one batch
    Ttl         \* ACTIVE_SESSION_TTL_SECONDS, in ticks

\* session_start, pageview and visible heartbeats open a tab's session.
Kind == {"opens", "hides", "ends"}

ASSUME TrafficAssumption ==
    /\ SessionOf \in [Event -> Session]
    /\ KindOf \in [Event -> Kind]
    /\ Rejected \subseteq Event
    /\ {MaxSends, MaxRetries, MaxBatch, Ttl} \subseteq Nat
    /\ MaxBatch > 0
    /\ IsFiniteSet(Session)

VARIABLES
    sends,      \* how often an event has been sent
    eventIds,   \* the collector's KV ledger EVENT_IDS
    queue,      \* messages not acknowledged, with their attempts
    dead,       \* the dead letter queue
    consumer,   \* what each consumer instance is doing
    processed,  \* the consumer's KV ledger PROCESSED_EVENT_IDS
    stored,     \* table tracker_event: the decision each id was stored with
    active,     \* table active_session of this site
    activeNow   \* site_metric_current.active_sessions

vars == <<sends, eventIds, queue, dead, consumer, processed, stored,
          active, activeNow>>

\* A queued event. "copy" tells the messages of one event apart.
Message == [event : Event, decision : {"valid", "invalid"}, copy : Nat,
            attempts : Nat]

\* An active_session row: the time since its last heartbeat, and hidden.
Row == [age : Nat, hidden : BOOLEAN]
NoRow == [age |-> Ttl + 1, hidden |-> TRUE]

\* A consumer: its batch, the events it forwards and how far it is. "seen" is
\* a count of sessions its transaction has read and not yet written.
Idle == [step |-> "idle", batch |-> {}, chosen |-> {}, seen |-> 0]

Init ==
    /\ sends = 0
    /\ eventIds = {}
    /\ queue = {}
    /\ dead = {}
    /\ consumer = [w \in Worker |-> Idle]
    /\ processed = {}
    /\ stored = [e \in Event |-> "none"]
    /\ active = [s \in Session |-> NoRow]
    /\ activeNow = 0

----------------------------------------------------------------------------
(* The collector *)

\* An event arrives, perhaps again. It is queued whatever the verdict: invalid
\* if a rule rejects it or the ledger already has its id.
Collect(e) ==
    /\ sends < MaxSends
    /\ sends' = sends + 1
    /\ LET copies == {m.copy : m \in {n \in queue : n.event = e}}
       IN  queue' = queue \cup
            {[event |-> e, attempts |-> 0,
              copy |-> CHOOSE c \in 1..MaxSends : c \notin copies,
              decision |-> IF e \in eventIds \cup Rejected THEN "invalid" ELSE "valid"]}
    /\ UNCHANGED <<eventIds, dead, consumer, processed, stored, active, activeNow>>

\* ctx.waitUntil writes the ledger after the response, if it gets to it: the
\* message may be consumed long before that.
MarkSeen(e) ==
    /\ e \in UNION {{m.event : m \in queue}, dead, {d \in Event : stored[d] # "none"}}
    /\ e \notin eventIds
    /\ eventIds' = eventIds \cup {e}
    /\ UNCHANGED <<sends, queue, dead, consumer, processed, stored, active, activeNow>>

----------------------------------------------------------------------------
(* The consumer *)

Held == UNION {consumer[w].batch : w \in Worker}

\* One body for each id: the map keeps whichever came last in the batch. An id
\* in the ledger is left out.
Choices(batch) ==
    {c \in SUBSET batch :
        /\ \A m, n \in c : m.event = n.event => m = n
        /\ {m.event : m \in c} = {m.event : m \in batch} \ processed}

\* A batch of which everything has been processed is acknowledged at once.
TakeBatch(w) ==
    /\ consumer[w].step = "idle"
    /\ \E batch \in SUBSET (queue \ Held) :
        /\ Cardinality(batch) \in 1..MaxBatch
        /\ \E chosen \in Choices(batch) :
            IF chosen = {}
            THEN /\ queue' = queue \ batch
                 /\ UNCHANGED consumer
            ELSE /\ consumer' = [consumer EXCEPT ![w] =
                        [step |-> "forwarding", batch |-> batch,
                         chosen |-> chosen, seen |-> 0]]
                 /\ UNCHANGED queue
    /\ UNCHANGED <<sends, eventIds, dead, processed, stored, active, activeNow>>

\* Mutant: one retry more than the queue's configuration allows.
SpentLater(m) == m.attempts > MaxRetries

Spent(m) == m.attempts >= MaxRetries

\* The batch goes back to the queue; a message out of retries is a dead letter.
GiveBack(w) ==
    LET spent == {m \in consumer[w].batch : Spent(m)}
        again == consumer[w].batch \ spent
    IN  /\ queue' = (queue \ consumer[w].batch)
                        \cup {[m EXCEPT !.attempts = @ + 1] : m \in again}
        /\ dead' = dead \cup {m.event : m \in spent}
        /\ consumer' = [consumer EXCEPT ![w] = Idle]
        /\ UNCHANGED <<sends, eventIds, processed, stored, active, activeNow>>

\* Mutant: the status of the store's answer is not looked at.
RefusedUnchecked(w) ==
    /\ consumer[w].step \in {"forwarding", "counted"}
    /\ consumer' = [consumer EXCEPT ![w].step = "stored"]
    /\ UNCHANGED <<sends, eventIds, queue, dead, processed, stored,
                   active, activeNow>>

\* The store rolls back or cannot be reached: every message is retried.
Refused(w) ==
    /\ consumer[w].step \in {"forwarding", "counted"}
    /\ GiveBack(w)

\* The answer of a committed batch is lost, a ledger write fails, or the
\* instance dies: the queue delivers the messages once more.
ConsumerDies(w) ==
    /\ consumer[w].step # "idle"
    /\ GiveBack(w)

\* Mutant: the ids are written to the ledger before the store has answered.
MarkBeforeStore(w) ==
    /\ consumer[w].step = "forwarding"
    /\ processed' = processed \cup {m.event : m \in consumer[w].chosen}
    /\ UNCHANGED <<sends, eventIds, queue, dead, consumer, stored, active, activeNow>>

\* The ids are written to the ledger once the store has answered.
MarkProcessed(w) ==
    /\ consumer[w].step = "stored"
    /\ processed' = processed \cup {m.event : m \in consumer[w].chosen}
    /\ consumer' = [consumer EXCEPT ![w].step = "marked"]
    /\ UNCHANGED <<sends, eventIds, queue, dead, stored, active, activeNow>>

Acknowledge(w) ==
    /\ consumer[w].step = "marked"
    /\ queue' = queue \ consumer[w].batch
    /\ consumer' = [consumer EXCEPT ![w] = Idle]
    /\ UNCHANGED <<sends, eventIds, dead, processed, stored, active, activeNow>>

----------------------------------------------------------------------------
(* The event store *)

Live(rows) == {s \in Session : ~ rows[s].hidden /\ rows[s].age <= Ttl}

\* The messages of a batch whose insert does not meet an existing id.
Fresh(w) == {m \in consumer[w].chosen : stored[m.event] = "none"}
FreshValid(w) == {m \in Fresh(w) : m.decision = "valid"}

\* An end deletes the row; everything else writes it with the time the browser
\* claims, be it older than what the row had.
RowAfter(e, age) ==
    IF KindOf[e] = "ends" THEN NoRow
    ELSE [age |-> age, hidden |-> KindOf[e] = "hides"]

\* An insert waits for a transaction under way that has inserted the same id.
NotWaiting(w) ==
    \A v \in Worker \ {w} : consumer[v].step = "counted" =>
        {m.event : m \in Fresh(v)} \cap {m.event : m \in Fresh(w)} = {}

\* A transaction without a valid event takes no lock on the site: it may read
\* the count now and write it after others have committed.
CountEarly(w) ==
    /\ consumer[w].step = "forwarding"
    /\ Fresh(w) # {}
    /\ FreshValid(w) = {}
    /\ NotWaiting(w)
    /\ consumer' = [consumer EXCEPT ![w].step = "counted",
                                    ![w].seen = Cardinality(Live(active))]
    /\ UNCHANGED <<sends, eventIds, queue, dead, processed, stored,
                   active, activeNow>>

\* The transaction: new ids are inserted, valid ones move their sessions in
\* the order of the batch (any one may come last), and the site is recounted.
Store(w) ==
    /\ consumer[w].step \in {"forwarding", "counted"}
    /\ NotWaiting(w)
    /\ stored' = [e \in Event |->
            IF \E m \in Fresh(w) : m.event = e
            THEN (CHOOSE m \in Fresh(w) : m.event = e).decision
            ELSE stored[e]]
    /\ \E last \in [Session -> Event], age \in [Session -> 0..(Ttl + 1)] :
        /\ \A s \in Session :
            (\E m \in FreshValid(w) : SessionOf[m.event] = s)
                => \E m \in FreshValid(w) : m.event = last[s] /\ SessionOf[m.event] = s
        /\ active' = [s \in Session |->
                IF \E m \in FreshValid(w) : SessionOf[m.event] = s
                THEN RowAfter(last[s], age[s]) ELSE active[s]]
    /\ activeNow' = CASE Fresh(w) = {} -> activeNow
                      [] consumer[w].step = "counted" -> consumer[w].seen
                      [] OTHER -> Cardinality(Live(active'))
    /\ consumer' = [consumer EXCEPT ![w].step = "stored", ![w].seen = 0]
    /\ UNCHANGED <<sends, eventIds, queue, dead, processed>>

----------------------------------------------------------------------------
(* The aggregation of every five minutes *)

Sweep ==
    /\ active' = [s \in Session |-> IF s \in Live(active) THEN active[s] ELSE NoRow]
    /\ active' # active
    /\ UNCHANGED <<sends, eventIds, queue, dead, consumer, processed,
                   stored, activeNow>>

\* Mutant: only sites that have a live session are updated.
RecountLiveSites == IF Live(active) = {} THEN activeNow ELSE Cardinality(Live(active))

\* Every site is recounted; one without a live session gets zero.
Recount == Cardinality(Live(active))

Refresh ==
    /\ activeNow' = Recount
    /\ UNCHANGED <<sends, eventIds, queue, dead, consumer, processed,
                   stored, active>>

\* Time passes, up to the age at which a row no longer counts.
Tick ==
    /\ Live(active) # {}
    /\ active' = [s \in Session |->
            IF active[s].age <= Ttl THEN [active[s] EXCEPT !.age = @ + 1] ELSE active[s]]
    /\ UNCHANGED <<sends, eventIds, queue, dead, consumer, processed,
                   stored, activeNow>>

----------------------------------------------------------------------------
Consume(w) == TakeBatch(w) \/ Store(w) \/ MarkProcessed(w) \/ Acknowledge(w)

Next ==
    \/ \E e \in Event : Collect(e) \/ MarkSeen(e)
    \/ \E w \in Worker : TakeBatch(w) \/ CountEarly(w) \/ Store(w) \/ Refused(w)
                            \/ ConsumerDies(w) \/ MarkProcessed(w) \/ Acknowledge(w)
    \/ Sweep \/ Refresh \/ Tick

\* The platform delivers queued messages and runs its instances, the cron runs
\* the aggregation, time passes. No event need arrive and no one need die.
Fairness ==
    /\ \A w \in Worker : WF_vars(Consume(w))
    /\ WF_vars(Refresh)
    /\ WF_vars(Tick)

Spec == Init /\ [][Next]_vars /\ Fairness

----------------------------------------------------------------------------
(* Correctness *)

\* Every variable keeps its type; a message is delivered at most MaxRetries + 1
\* times, and the batches under way are queued messages that no two consumers share.
TypeOK ==
    /\ sends \in 0..MaxSends
    /\ {eventIds, dead, processed} \subseteq SUBSET Event
    /\ queue \subseteq Message
    /\ \A m \in queue : m.attempts <= MaxRetries
    /\ \A w \in Worker :
        /\ consumer[w].step \in {"idle", "forwarding", "counted", "stored", "marked"}
        /\ consumer[w].chosen \subseteq consumer[w].batch
        /\ consumer[w].batch \subseteq queue
        /\ \A v \in Worker \ {w} : consumer[v].batch \cap consumer[w].batch = {}
        /\ consumer[w].seen \in 0..Cardinality(Session)
    /\ stored \in [Event -> {"none", "valid", "invalid"}]
    /\ active \in [Session -> Row]
    /\ activeNow \in 0..Cardinality(Session)

Waiting(e) == \E m \in queue : m.event = e

\* Queue admission is a promise: whatever instances die, answers get lost and
\* ledgers say, an event that was queued is stored in the end or lies in the
\* dead letter queue for an operator. It is never acknowledged and forgotten.
AdmittedIsSettled ==
    \A e \in Event :
        Waiting(e) ~> (stored[e] # "none" \/ e \in dead)

\* What has become of an event. One that is stored may have copies in the queue
\* still, and a dead letter may have been sent again.
Status(e) ==
    IF stored[e] # "none" THEN stored[e]
    ELSE IF Waiting(e) THEN "queued"
    ELSE IF e \in dead THEN "dead" ELSE "unseen"

\* Whatever instances die and in whatever order ledgers and answers are written,
\* every step of the pipeline is a step, or no step, of EventDelivery.
Delivery == INSTANCE EventDelivery WITH status <- [e \in Event |-> Status(e)]
EventsAreDelivered == Delivery!Spec

\* A visitor who closes the browser without a session_end, or whose events are
\* stored in the wrong order, is not online for ever: once the traffic is over
\* the public count falls to zero and stays there.
VisitorsFade ==
    <>[](queue = {}) => <>[](activeNow = 0)

============================================================================
