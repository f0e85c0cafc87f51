------------------------ MODULE VisitorEvents_proofs ------------------------
(***************************************************************************)
(* Theorems about the two ends of a visitor's event, for any finite sets   *)
(* of visits and tabs, any number of workers and any limits.               *)
(*                                                                         *)
(* The pipeline (TrafficPipeline): an event is settled once, and stays so. *)
(* The ledger of processed ids is never ahead of the table of events, a    *)
(* worker that has had an answer from the store holds only messages whose  *)
(* events are stored, and no two messages are the same copy; so whatever a *)
(* worker acknowledges, gives back or loses, the event is queued, stored   *)
(* or on the dead letter queue, as EventDelivery says.                     *)
(*                                                                         *)
(* The tracker (BrowserTracker): a page that may send beats while it is    *)
(* visible, and reports engagement once for a page view, no earlier than   *)
(* the visitor has seen it.  The timer, the time counted before and the    *)
(* time of this spell add up to no less than what engagement takes; what   *)
(* was counted is no more than the time the page was visible.              *)
(***************************************************************************)
EXTENDS TrafficPipeline, BrowserTracker, FiniteSetTheorems, TLAPS

-----------------------------------------------------------------------------
(* Counting *)

\* The values of a function on a finite set are no more than its arguments.
LEMMA FiniteImage ==
  ASSUME NEW S, IsFiniteSet(S), NEW T, NEW f \in [S -> T]
  PROVE  /\ IsFiniteSet({f[x] : x \in S})
         /\ Cardinality({f[x] : x \in S}) <= Cardinality(S)
<1> DEFINE Image == {f[x] : x \in S}
<1>1. f \in Surjection(S, Image)
  BY DEF Surjection
<1> QED BY <1>1, FS_Surjection

\* Fewer elements than numbers leave a number free.
LEMMA FreeNumber ==
  ASSUME NEW n \in Nat, NEW S, IsFiniteSet(S), Cardinality(S) < n
  PROVE  \E i \in 1..n : i \notin S
<1> SUFFICES ASSUME (1..n) \subseteq S PROVE FALSE
  OBVIOUS
<1>1. Cardinality(1..n) = n
  <2>1. CASE n = 0
    BY <2>1, FS_EmptySet, FS_Interval
  <2>2. CASE n > 0
    BY <2>2, FS_Interval
  <2> QED BY <2>1, <2>2
<1>2. Cardinality(1..n) <= Cardinality(S) /\ Cardinality(S) \in Nat
  BY FS_Subset, FS_CardinalityType
<1> QED BY <1>1, <1>2

-----------------------------------------------------------------------------
(* The invariant of the pipeline's types *)

ConsumerStep == {"idle", "forwarding", "counted", "stored", "marked"}

ConsumerState == [step : ConsumerStep, batch : SUBSET Message, chosen : SUBSET Message,
                  seen : 0..Cardinality(Session)]

\* There are no more messages than have been sent (sendBatch), so there is a copy
\* number for one more.
QueueIsCounted == IsFiniteSet(queue) /\ Cardinality(queue) <= sends

PipelineInv ==
  /\ TypeOK
  /\ consumer \in [Worker -> ConsumerState]
  /\ QueueIsCounted

\* The sites' count is a number between zero and its sessions (runTrafficAggregation).
LEMMA LiveCount ==
  ASSUME NEW rows
  PROVE  Cardinality(Live(rows)) \in 0..Cardinality(Session)
<1>1. Live(rows) \in SUBSET Session
  BY DEF Live
<1> QED BY <1>1, FS_Subset, FS_CardinalityType, TrafficAssumption

LEMMA InitTyped == Init => PipelineInv
<1> SUFFICES ASSUME Init PROVE PipelineInv
  OBVIOUS
<1>1. Cardinality(Session) \in Nat
  BY FS_CardinalityType, TrafficAssumption
<1>2. Idle \in ConsumerState
  BY <1>1 DEF Idle, ConsumerState, ConsumerStep
<1>3. consumer \in [Worker -> ConsumerState]
  BY <1>2 DEF Init
<1>4. QueueIsCounted
  BY FS_EmptySet DEF Init, QueueIsCounted
<1>5. active \in [Session -> Row]
  BY TrafficAssumption DEF Init, NoRow, Row
<1> QED BY <1>1, <1>3, <1>4, <1>5, TrafficAssumption DEF Init, PipelineInv, TypeOK, Idle

\* One message more, with a copy number that no other has.
LEMMA CollectTyped ==
  ASSUME PipelineInv, NEW e \in Event, Collect(e)
  PROVE  PipelineInv'
<1> DEFINE copies == {m.copy : m \in {n \in queue : n.event = e}}
           copy == CHOOSE c \in 1..MaxSends : c \notin copies
           message == [event |-> e, attempts |-> 0, copy |-> copy,
              decision |-> IF e \in eventIds \cup Rejected THEN "invalid" ELSE "valid"]
<1>0. queue' = queue \cup {message} /\ sends' = sends + 1 /\ sends < MaxSends
  BY DEF Collect
<1>1. /\ IsFiniteSet(queue) /\ Cardinality(queue) <= sends
      /\ sends \in Nat /\ MaxSends \in Nat /\ queue \subseteq Message
  BY TrafficAssumption DEF PipelineInv, QueueIsCounted, TypeOK
<1>2. copy \in 1..MaxSends
  <2> DEFINE mine == {n \in queue : n.event = e}
             f == [m \in mine |-> m.copy]
  <2>1. IsFiniteSet(mine) /\ Cardinality(mine) <= Cardinality(queue)
    BY <1>1, FS_Subset
  <2>2. f \in [mine -> Nat] /\ copies = {f[m] : m \in mine}
    BY <1>1 DEF Message
  <2> HIDE DEF f, mine, copies, copy
  <2>3. IsFiniteSet(copies) /\ Cardinality(copies) <= Cardinality(mine)
    BY <2>1, <2>2, FiniteImage
  <2>4. Cardinality(copies) < MaxSends
    BY <2>1, <2>3, <1>0, <1>1, FS_CardinalityType
  <2>5. \E c \in 1..MaxSends : c \notin copies
    BY <2>3, <2>4, <1>1, FreeNumber
  <2> QED BY <2>5 DEF copy
<1>3. message \in Message /\ message.attempts = 0
  <2> HIDE DEF copy
  <2> QED BY <1>2 DEF Message
<1>4. IsFiniteSet(queue') /\ Cardinality(queue') <= sends'
  <2> HIDE DEF message
  <2>1. /\ IsFiniteSet(queue \cup {message})
        /\ Cardinality(queue \cup {message}) <= Cardinality(queue) + 1
    <3>1. Cardinality(queue) \in Nat
      BY <1>1, FS_CardinalityType
    <3> QED BY <1>1, <3>1, FS_AddElement
  <2>2. Cardinality(queue \cup {message}) \in Nat /\ Cardinality(queue) \in Nat
    BY <2>1, <1>1, FS_CardinalityType
  <2> QED BY <2>1, <2>2, <1>0, <1>1
<1>5. sends' \in 0..MaxSends
  BY <1>0, <1>1
<1> HIDE DEF message
<1>6. queue' \subseteq Message /\ \A m \in queue' : m.attempts <= MaxRetries
  BY <1>0, <1>3, TrafficAssumption DEF PipelineInv, TypeOK
<1>7. queue \subseteq queue'
  BY <1>0
<1> QED BY <1>4, <1>5, <1>6, <1>7 DEF PipelineInv, TypeOK, QueueIsCounted, Collect

LEMMA GiveBackTyped ==
  ASSUME PipelineInv, NEW w \in Worker, GiveBack(w)
  PROVE  PipelineInv'
<1> DEFINE spent == {m \in consumer[w].batch : Spent(m)}
           again == consumer[w].batch \ spent
           f == [m \in again |-> [m EXCEPT !.attempts = @ + 1]]
<1>1. /\ queue' = (queue \ consumer[w].batch) \cup {f[m] : m \in again}
      /\ dead' = dead \cup {m.event : m \in spent}
      /\ consumer' = [consumer EXCEPT ![w] = Idle]
  BY DEF GiveBack
<1>2. /\ consumer[w].batch \subseteq queue /\ queue \subseteq Message
      /\ IsFiniteSet(queue) /\ Cardinality(queue) <= sends /\ sends \in Nat
      /\ \A m \in queue : m.attempts <= MaxRetries
      /\ consumer \in [Worker -> ConsumerState]
      /\ dead \subseteq Event
  BY DEF PipelineInv, QueueIsCounted, TypeOK
<1>3. \A m \in again : f[m] \in Message /\ f[m].attempts <= MaxRetries
  <2> SUFFICES ASSUME NEW m \in again
               PROVE  f[m] \in Message /\ f[m].attempts <= MaxRetries
    OBVIOUS
  <2>1. m \in Message /\ m.attempts \in Nat /\ ~(m.attempts >= MaxRetries)
    BY <1>2 DEF Message, Spent
  <2>2. f[m] = [m EXCEPT !.attempts = m.attempts + 1]
    OBVIOUS
  <2> QED BY <2>1, <2>2, TrafficAssumption DEF Message
<1>4. IsFiniteSet(queue') /\ Cardinality(queue') <= sends
  <2> DEFINE back == {f[m] : m \in again}
             batch == consumer[w].batch
  <2>1. f \in [again -> Message]
    BY <1>3
  <2>2. IsFiniteSet(batch) /\ IsFiniteSet(again) /\ Cardinality(again) <= Cardinality(batch)
    <3>1. IsFiniteSet(batch)
      BY <1>2, FS_Subset
    <3>2. again \in SUBSET batch
      OBVIOUS
    <3> HIDE DEF again, batch
    <3> QED BY <3>1, <3>2, FS_Subset
  <2> HIDE DEF f, again
  <2>3. IsFiniteSet(back) /\ Cardinality(back) <= Cardinality(again)
    BY <2>1, <2>2, FiniteImage
  <2>4. /\ IsFiniteSet(queue \ batch)
        /\ Cardinality(queue \ batch) = Cardinality(queue) - Cardinality(batch)
    <3>1. queue \cap batch = batch
      BY <1>2
    <3> QED BY <3>1, <1>2, FS_Difference
  <2>5. /\ IsFiniteSet((queue \ batch) \cup back)
        /\ Cardinality((queue \ batch) \cup back)
             <= Cardinality(queue \ batch) + Cardinality(back)
    <3> HIDE DEF back, batch
    <3>1. IsFiniteSet((queue \ batch) \cap back)
      BY <2>4, FS_Intersection
    <3>2. /\ Cardinality((queue \ batch) \cup back) = Cardinality(queue \ batch)
                + Cardinality(back) - Cardinality((queue \ batch) \cap back)
          /\ IsFiniteSet((queue \ batch) \cup back)
      BY <2>3, <2>4, FS_Union
    <3>3. /\ Cardinality((queue \ batch) \cap back) \in Nat
          /\ Cardinality(queue \ batch) \in Nat /\ Cardinality(back) \in Nat
      BY <3>1, <2>3, <2>4, FS_CardinalityType
    <3> QED BY <3>2, <3>3
  <2> QED BY <1>1, <1>2, <2>2, <2>3, <2>4, <2>5, FS_CardinalityType
<1>5. queue' \subseteq Message /\ \A m \in queue' : m.attempts <= MaxRetries
  <2> HIDE DEF f, again
  <2> QED BY <1>1, <1>2, <1>3
<1>6. dead' \subseteq Event
  BY <1>1, <1>2 DEF Message
<1>7. Idle \in ConsumerState
  BY FS_CardinalityType, TrafficAssumption DEF Idle, ConsumerState, ConsumerStep
<1>8. \A v \in Worker : consumer'[v] = IF v = w THEN Idle ELSE consumer[v]
  BY <1>1, <1>2
<1>9. consumer' \in [Worker -> ConsumerState]
  BY <1>1, <1>2, <1>7
<1>10. \A v \in Worker \ {w} : consumer[v].batch \subseteq queue'
  <2>1. \A v \in Worker \ {w} : consumer[v].batch \subseteq queue \ consumer[w].batch
    BY DEF PipelineInv, TypeOK
  <2> QED BY <2>1, <1>1
<1> QED BY <1>4, <1>5, <1>6, <1>7, <1>8, <1>9, <1>10
        DEF PipelineInv, TypeOK, QueueIsCounted, GiveBack, Idle, ConsumerState, ConsumerStep

\* Batches that are taken are free messages of the queue.
LEMMA TakeBatchTyped ==
  ASSUME PipelineInv, NEW w \in Worker, TakeBatch(w)
  PROVE  PipelineInv'
<1>1. PICK batch \in SUBSET (queue \ Held) :
         \E chosen \in Choices(batch) :
            IF chosen = {}
            THEN /\ queue' = queue \ batch
                 /\ UNCHANGED consumer
            ELSE /\ consumer' = [consumer EXCEPT ![w] =
                        [step |-> "forwarding", batch |-> batch,
                         chosen |-> chosen, seen |-> 0]]
                 /\ UNCHANGED queue
  BY DEF TakeBatch
<1>2. PICK chosen \in Choices(batch) :
            IF chosen = {}
            THEN /\ queue' = queue \ batch
                 /\ UNCHANGED consumer
            ELSE /\ consumer' = [consumer EXCEPT ![w] =
                        [step |-> "forwarding", batch |-> batch,
                         chosen |-> chosen, seen |-> 0]]
                 /\ UNCHANGED queue
  BY <1>1
<1>3. \A v \in Worker : consumer[v].batch \cap batch = {}
  BY DEF Held
<1>4. chosen \subseteq batch
  BY DEF Choices
<1>5. consumer \in [Worker -> ConsumerState] /\ queue \subseteq Message
  BY DEF PipelineInv, TypeOK
<1>6. CASE chosen = {}
  <2>1. queue' = queue \ batch /\ consumer' = consumer
    BY <1>2, <1>6
  <2>2. IsFiniteSet(queue') /\ Cardinality(queue') <= Cardinality(queue)
    BY <2>1, FS_Subset DEF PipelineInv, QueueIsCounted
  <2>3. Cardinality(queue') \in Nat /\ Cardinality(queue) \in Nat
    BY <2>2, FS_CardinalityType DEF PipelineInv, QueueIsCounted
  <2>4. \A v \in Worker : consumer[v].batch \subseteq queue'
    BY <2>1, <1>3 DEF PipelineInv, TypeOK
  <2> QED BY <2>1, <2>2, <2>3, <2>4 DEF PipelineInv, TypeOK, QueueIsCounted, TakeBatch
<1>7. CASE chosen # {}
  <2> DEFINE taken == [step |-> "forwarding", batch |-> batch, chosen |-> chosen, seen |-> 0]
  <2>1. queue' = queue /\ consumer' = [consumer EXCEPT ![w] = taken]
    BY <1>2, <1>7
  <2>2. taken \in ConsumerState
    BY <1>4, <1>5, FS_CardinalityType, TrafficAssumption DEF ConsumerState, ConsumerStep
  <2>3. \A v \in Worker : consumer'[v] = IF v = w THEN taken ELSE consumer[v]
    BY <2>1, <1>5
  <2>4. consumer' \in [Worker -> ConsumerState]
    BY <2>1, <2>2, <1>5
  <2>5. \A v \in Worker : consumer'[v].batch \subseteq queue
    BY <2>3 DEF PipelineInv, TypeOK
  <2>6. \A u \in Worker : \A v \in Worker \ {u} : consumer'[v].batch \cap consumer'[u].batch = {}
    BY <2>3, <1>3 DEF PipelineInv, TypeOK
  <2>7. \A v \in Worker : consumer'[v].chosen \subseteq consumer'[v].batch
    BY <2>3, <1>4 DEF PipelineInv, TypeOK
  <2>8. \A v \in Worker : consumer'[v].step \in ConsumerStep /\ consumer'[v].seen \in 0..Cardinality(Session)
    BY <2>4 DEF ConsumerState
  <2> QED BY <2>1, <2>4, <2>5, <2>6, <2>7, <2>8
          DEF PipelineInv, TypeOK, QueueIsCounted, TakeBatch, ConsumerStep
<1> QED BY <1>6, <1>7

\* A consumer goes on with the batch it has.
Advance(w, step, seen) == consumer' = [consumer EXCEPT ![w].step = step, ![w].seen = seen]

\* A step of a consumer that keeps its batch keeps the types of all consumers.
LEMMA AdvanceTyped ==
  ASSUME PipelineInv, NEW w \in Worker, NEW step \in ConsumerStep,
         NEW seen \in 0..Cardinality(Session), Advance(w, step, seen)
  PROVE  /\ consumer' \in [Worker -> ConsumerState]
         /\ \A v \in Worker :
              /\ consumer'[v].step \in ConsumerStep
              /\ consumer'[v].step = IF v = w THEN step ELSE consumer[v].step
              /\ consumer'[v].chosen = consumer[v].chosen
              /\ consumer'[v].batch = consumer[v].batch
              /\ consumer'[v].seen \in 0..Cardinality(Session)
<1>1. consumer \in [Worker -> ConsumerState]
  BY DEF PipelineInv
<1>2. \A v \in Worker :
        consumer'[v] = IF v = w THEN [consumer[w] EXCEPT !.step = step, !.seen = seen]
                                ELSE consumer[v]
  BY <1>1 DEF Advance
<1>3. consumer' = [v \in Worker |-> consumer'[v]]
  BY <1>1 DEF Advance
<1> DEFINE r == [consumer[w] EXCEPT !.step = step, !.seen = seen]
<1>4. consumer[w] \in ConsumerState
  BY <1>1
<1>5. /\ r \in ConsumerState
      /\ r.step = step /\ r.seen = seen
      /\ r.chosen = consumer[w].chosen /\ r.batch = consumer[w].batch
  BY <1>4 DEF ConsumerState
<1>6. \A v \in Worker : consumer'[v] \in ConsumerState
  BY <1>1, <1>2, <1>5
<1>7. \A v \in Worker : consumer'[v].step \in ConsumerStep /\ consumer'[v].seen \in 0..Cardinality(Session)
  BY <1>6 DEF ConsumerState
<1>8. \A v \in Worker : /\ consumer'[v].chosen = consumer[v].chosen
                        /\ consumer'[v].batch = consumer[v].batch
                        /\ consumer'[v].step = IF v = w THEN step ELSE consumer[v].step
  <2> TAKE v \in Worker
  <2>1. CASE v = w
    BY <2>1, <1>2, <1>5
  <2>2. CASE v # w
    BY <2>2, <1>2
  <2> QED BY <2>1, <2>2
<1> HIDE DEF r
<1> QED BY <1>3, <1>6, <1>7, <1>8

LEMMA AdvancePreserves ==
  ASSUME PipelineInv, NEW w \in Worker, NEW step \in ConsumerStep,
         NEW seen \in 0..Cardinality(Session), UNCHANGED <<sends, queue, dead>>,
         Advance(w, step, seen),
         {eventIds', processed'} \subseteq SUBSET Event,
         stored' \in [Event -> {"none", "valid", "invalid"}],
         active' \in [Session -> Row], activeNow' \in 0..Cardinality(Session)
  PROVE  PipelineInv'
<1>1. /\ consumer' \in [Worker -> ConsumerState]
      /\ \A v \in Worker :
           /\ consumer'[v].step \in ConsumerStep
           /\ consumer'[v].chosen = consumer[v].chosen
           /\ consumer'[v].batch = consumer[v].batch
           /\ consumer'[v].seen \in 0..Cardinality(Session)
  BY AdvanceTyped
<1> QED BY <1>1 DEF PipelineInv, TypeOK, QueueIsCounted, ConsumerStep

LEMMA CountEarlyTyped ==
  ASSUME PipelineInv, NEW w \in Worker, CountEarly(w)
  PROVE  PipelineInv'
<1>1. Cardinality(Live(active)) \in 0..Cardinality(Session)
  BY LiveCount
<1>2. "counted" \in ConsumerStep
  BY DEF ConsumerStep
<1>3. /\ UNCHANGED <<sends, queue, dead>>
      /\ Advance(w, "counted", Cardinality(Live(active)))
  BY DEF CountEarly, Advance
<1>4. /\ {eventIds', processed'} \subseteq SUBSET Event
      /\ stored' \in [Event -> {"none", "valid", "invalid"}]
      /\ active' \in [Session -> Row] /\ activeNow' \in 0..Cardinality(Session)
  BY DEF CountEarly, PipelineInv, TypeOK
<1> QED BY <1>1, <1>2, <1>3, <1>4, AdvancePreserves

LEMMA MarkProcessedTyped ==
  ASSUME PipelineInv, NEW w \in Worker, MarkProcessed(w)
  PROVE  PipelineInv'
<1>1. consumer \in [Worker -> ConsumerState]
  BY DEF PipelineInv
<1>2. consumer[w].seen \in 0..Cardinality(Session) /\ consumer[w].chosen \subseteq Message
  BY <1>1 DEF ConsumerState
<1>3. Advance(w, "marked", consumer[w].seen)
  BY <1>1 DEF MarkProcessed, ConsumerState, Advance
<1>4. /\ {eventIds', processed'} \subseteq SUBSET Event
      /\ stored' \in [Event -> {"none", "valid", "invalid"}]
      /\ active' \in [Session -> Row] /\ activeNow' \in 0..Cardinality(Session)
  <2>1. {m.event : m \in consumer[w].chosen} \subseteq Event
    BY <1>2 DEF Message
  <2> QED BY <2>1 DEF MarkProcessed, PipelineInv, TypeOK
<1>5. "marked" \in ConsumerStep /\ UNCHANGED <<sends, queue, dead>>
  BY DEF ConsumerStep, MarkProcessed
<1> QED BY <1>2, <1>3, <1>4, <1>5, AdvancePreserves

\* A transaction stores decisions, rows and a count (ingest).
LEMMA StoreTyped ==
  ASSUME PipelineInv, NEW w \in Worker, Store(w)
  PROVE  PipelineInv'
<1>1. consumer \in [Worker -> ConsumerState]
  BY DEF PipelineInv
<1>2. stored' \in [Event -> {"none", "valid", "invalid"}]
  <2>1. Fresh(w) \subseteq Message
    BY <1>1 DEF Fresh, ConsumerState
  <2>2. ASSUME NEW e \in Event, \E m \in Fresh(w) : m.event = e
        PROVE  (CHOOSE m \in Fresh(w) : m.event = e).decision \in {"none", "valid", "invalid"}
    <3> DEFINE m == CHOOSE m \in Fresh(w) : m.event = e
    <3>1. m \in Fresh(w)
      BY <2>2
    <3> HIDE DEF m
    <3>2. m.decision \in {"valid", "invalid"}
      BY <3>1, <2>1 DEF Message
    <3> QED BY <3>2 DEF m
  <2> QED BY <2>2 DEF Store, PipelineInv, TypeOK
<1>3. active' \in [Session -> Row]
  <2>1. PICK last \in [Session -> Event], age \in [Session -> 0..(Ttl + 1)] :
          active' = [s \in Session |->
            IF \E m \in FreshValid(w) : SessionOf[m.event] = s
            THEN RowAfter(last[s], age[s]) ELSE active[s]]
    BY DEF Store
  <2>2. \A s \in Session : RowAfter(last[s], age[s]) \in Row
    BY TrafficAssumption DEF RowAfter, NoRow, Row
  <2> QED BY <2>1, <2>2 DEF PipelineInv, TypeOK
<1>4. activeNow' \in 0..Cardinality(Session)
  BY <1>1, LiveCount DEF Store, PipelineInv, TypeOK
<1>5. "stored" \in ConsumerStep /\ 0 \in 0..Cardinality(Session)
  BY FS_CardinalityType, TrafficAssumption DEF ConsumerStep
<1>6. /\ UNCHANGED <<sends, queue, dead>> /\ {eventIds', processed'} \subseteq SUBSET Event
      /\ Advance(w, "stored", 0)
  BY DEF Store, Advance, PipelineInv, TypeOK
<1> QED BY <1>2, <1>3, <1>4, <1>5, <1>6, AdvancePreserves

LEMMA AcknowledgeTyped ==
  ASSUME PipelineInv, NEW w \in Worker, Acknowledge(w)
  PROVE  PipelineInv'
<1>1. consumer \in [Worker -> ConsumerState]
  BY DEF PipelineInv
<1>2. queue' = queue \ consumer[w].batch /\ consumer' = [consumer EXCEPT ![w] = Idle]
  BY DEF Acknowledge
<1>3. \A v \in Worker : consumer'[v] = IF v = w THEN Idle ELSE consumer[v]
  BY <1>1, <1>2
<1>4. Idle \in ConsumerState
  BY FS_CardinalityType, TrafficAssumption DEF Idle, ConsumerState, ConsumerStep
<1>5. consumer' \in [Worker -> ConsumerState]
  BY <1>1, <1>2, <1>4
<1>6. \A v \in Worker \ {w} : consumer[v].batch \subseteq queue'
  BY <1>2 DEF PipelineInv, TypeOK
<1>7. QueueIsCounted'
  <2>1. IsFiniteSet(queue') /\ Cardinality(queue') <= Cardinality(queue)
    BY <1>2, FS_Subset DEF PipelineInv, QueueIsCounted
  <2>2. Cardinality(queue') \in Nat /\ Cardinality(queue) \in Nat
    BY <2>1, FS_CardinalityType DEF PipelineInv, QueueIsCounted
  <2> QED BY <2>1, <2>2 DEF PipelineInv, QueueIsCounted, TypeOK, Acknowledge
<1> QED BY <1>2, <1>3, <1>4, <1>5, <1>6, <1>7
        DEF PipelineInv, TypeOK, Acknowledge, Idle, ConsumerState, ConsumerStep

\* The steps of the aggregation and of time leave the queue and the consumers alone.
LEMMA AggregationTyped ==
  ASSUME PipelineInv, Sweep \/ Refresh \/ Tick
  PROVE  PipelineInv'
<1>1. Recount \in 0..Cardinality(Session)
  BY LiveCount DEF Recount
<1>2. NoRow \in Row
  BY TrafficAssumption DEF NoRow, Row
<1>3. active' \in [Session -> Row]
  BY <1>2 DEF Sweep, Refresh, Tick, PipelineInv, TypeOK, Row
<1>4. activeNow' \in 0..Cardinality(Session)
  BY <1>1 DEF Sweep, Refresh, Tick, PipelineInv, TypeOK
<1>5. UNCHANGED <<sends, eventIds, queue, dead, consumer, processed, stored>>
  BY DEF Sweep, Refresh, Tick
<1> QED BY <1>3, <1>4, <1>5 DEF PipelineInv, TypeOK, QueueIsCounted

LEMMA NextTyped == PipelineInv /\ [Next]_vars => PipelineInv'
<1> SUFFICES ASSUME PipelineInv, [Next]_vars PROVE PipelineInv'
  OBVIOUS
<1>1. CASE UNCHANGED vars
  BY <1>1 DEF vars, PipelineInv, TypeOK, QueueIsCounted
<1>2. ASSUME NEW e \in Event, Collect(e) PROVE PipelineInv'
  BY <1>2, CollectTyped
<1>3. ASSUME NEW e \in Event, MarkSeen(e) PROVE PipelineInv'
  BY <1>3 DEF MarkSeen, PipelineInv, TypeOK, QueueIsCounted
<1>4. ASSUME NEW w \in Worker, TakeBatch(w) PROVE PipelineInv'
  BY <1>4, TakeBatchTyped
<1>5. ASSUME NEW w \in Worker, CountEarly(w) PROVE PipelineInv'
  BY <1>5, CountEarlyTyped
<1>6. ASSUME NEW w \in Worker, Store(w) PROVE PipelineInv'
  BY <1>6, StoreTyped
<1>7. ASSUME NEW w \in Worker, Refused(w) \/ ConsumerDies(w) PROVE PipelineInv'
  BY <1>7, GiveBackTyped DEF Refused, ConsumerDies
<1>8. ASSUME NEW w \in Worker, MarkProcessed(w) PROVE PipelineInv'
  BY <1>8, MarkProcessedTyped
<1>9. ASSUME NEW w \in Worker, Acknowledge(w) PROVE PipelineInv'
  BY <1>9, AcknowledgeTyped
<1>10. CASE Sweep \/ Refresh \/ Tick
  BY <1>10, AggregationTyped
<1> QED BY <1>1, <1>2, <1>3, <1>4, <1>5, <1>6, <1>7, <1>8, <1>9, <1>10 DEF Next

\* For any events, tabs, consumers and bounds: every variable keeps its type, a message is
\* delivered at most MaxRetries + 1 times, and no two consumers share a message.
THEOREM PipelineTyped == Spec => []TypeOK
<1>1. PipelineInv => TypeOK
  BY DEF PipelineInv
<1> QED BY <1>1, InitTyped, NextTyped, PTL DEF Spec

-----------------------------------------------------------------------------
(* Refinement of EventDelivery *)

Settled(e) == stored[e] # "none"

\* The ledger of processed ids names stored events only (MarkProcessed comes after the answer).
LedgerIsBehind == \A e \in processed : Settled(e)

\* A consumer that has its answer forwarded events that are stored by now.
AnswerMeansStored ==
  \A w \in Worker : consumer[w].step \in {"stored", "marked"} =>
    \A m \in consumer[w].chosen : Settled(m.event)

\* A message that is not forwarded has the id of one that is, or of a processed one.
BatchIsCovered ==
  \A w \in Worker : \A m \in consumer[w].batch :
    m.event \in processed \/ \E n \in consumer[w].chosen : n.event = m.event

DeliveryInv == LedgerIsBehind /\ AnswerMeansStored /\ BatchIsCovered

LEMMA InitDelivery == Init => DeliveryInv
BY DEF Init, DeliveryInv, LedgerIsBehind, AnswerMeansStored, BatchIsCovered, Idle

\* A stored event keeps its decision (the insert does nothing on conflict).
LEMMA StoredForGood ==
  ASSUME PipelineInv, [Next]_vars, NEW e \in Event, Settled(e)
  PROVE  stored'[e] = stored[e]
<1>1. ASSUME NEW w \in Worker, Store(w) PROVE stored'[e] = stored[e]
  <2>1. ~\E m \in Fresh(w) : m.event = e
    BY DEF Fresh, Settled
  <2> QED BY <1>1, <2>1 DEF Store
<1>2. CASE stored' = stored
  BY <1>2
<1>3. (\A w \in Worker : ~Store(w)) => stored' = stored
  BY DEF Next, vars, Collect, MarkSeen, TakeBatch, CountEarly, Refused, ConsumerDies,
         GiveBack, MarkProcessed, Acknowledge, Sweep, Refresh, Tick
<1> QED BY <1>1, <1>2, <1>3

LEMMA GiveBackDelivery ==
  ASSUME PipelineInv, DeliveryInv, NEW w \in Worker, GiveBack(w)
  PROVE  DeliveryInv'
<1>1. consumer \in [Worker -> ConsumerState]
  BY DEF PipelineInv
<1>2. \A v \in Worker : consumer'[v] = IF v = w THEN Idle ELSE consumer[v]
  BY <1>1 DEF GiveBack
<1>3. processed' = processed /\ stored' = stored
  BY DEF GiveBack
<1> QED BY <1>2, <1>3
        DEF DeliveryInv, LedgerIsBehind, AnswerMeansStored, BatchIsCovered, Idle, Settled

LEMMA TakeBatchDelivery ==
  ASSUME PipelineInv, DeliveryInv, NEW w \in Worker, TakeBatch(w)
  PROVE  DeliveryInv'
<1>1. processed' = processed /\ stored' = stored
  BY DEF TakeBatch
<1>2. CASE UNCHANGED consumer
  BY <1>1, <1>2 DEF DeliveryInv, LedgerIsBehind, AnswerMeansStored, BatchIsCovered, Settled
<1>3. CASE ~UNCHANGED consumer
  <2>0. PICK batch \in SUBSET (queue \ Held) : \E chosen \in Choices(batch) :
          consumer' = [consumer EXCEPT ![w] =
            [step |-> "forwarding", batch |-> batch, chosen |-> chosen, seen |-> 0]]
    BY <1>3 DEF TakeBatch
  <2>1. PICK chosen \in Choices(batch) :
          consumer' = [consumer EXCEPT ![w] =
            [step |-> "forwarding", batch |-> batch, chosen |-> chosen, seen |-> 0]]
    BY <2>0
  <2>2. \A m \in batch : m.event \in processed \/ \E n \in chosen : n.event = m.event
    <3>1. {m.event : m \in chosen} = {m.event : m \in batch} \ processed
      BY DEF Choices
    <3>2. ASSUME NEW m \in batch, m.event \notin processed
          PROVE  \E n \in chosen : n.event = m.event
      <4>1. m.event \in {n.event : n \in chosen}
        BY <3>1, <3>2
      <4> QED BY <4>1
    <3> QED BY <3>2
  <2>3. \A v \in Worker : consumer'[v] = IF v = w
          THEN [step |-> "forwarding", batch |-> batch, chosen |-> chosen, seen |-> 0]
          ELSE consumer[v]
    BY <2>1 DEF PipelineInv
  <2> QED BY <1>1, <2>2, <2>3
          DEF DeliveryInv, LedgerIsBehind, AnswerMeansStored, BatchIsCovered, Settled
<1> QED BY <1>2, <1>3

LEMMA StoreDelivery ==
  ASSUME PipelineInv, DeliveryInv, NEW w \in Worker, Store(w)
  PROVE  DeliveryInv'
<1>1. consumer \in [Worker -> ConsumerState] /\ processed \subseteq Event
  BY DEF PipelineInv, TypeOK
<1>2. \A v \in Worker : \A m \in consumer[v].chosen : m.event \in Event /\ m \in Message
  BY <1>1 DEF ConsumerState, Message
<1>3. \A e \in Event : Settled(e) => Settled(e)'
  BY StoredForGood DEF Settled, Next
<1>4. \A m \in consumer[w].chosen : Settled(m.event)'
  <2> SUFFICES ASSUME NEW m \in consumer[w].chosen, ~Settled(m.event)
               PROVE  Settled(m.event)'
    BY <1>2, <1>3
  <2> DEFINE e == m.event
             n == CHOOSE n \in Fresh(w) : n.event = e
  <2>1. m \in Fresh(w) /\ e \in Event
    BY <1>2 DEF Fresh, Settled
  <2>2. n \in Fresh(w)
    BY <2>1
  <2>3. stored'[e] = n.decision
    BY <2>1 DEF Store
  <2> HIDE DEF n
  <2>4. n.decision \in {"valid", "invalid"}
    BY <2>2, <1>2 DEF Fresh, Message
  <2> QED BY <2>3, <2>4 DEF Settled
<1>5. Advance(w, "stored", 0)
  BY DEF Store, Advance
<1>10. processed' = processed
  BY DEF Store
<1>6. \A v \in Worker :
        /\ consumer'[v].chosen = consumer[v].chosen
        /\ consumer'[v].batch = consumer[v].batch
        /\ consumer'[v].step = IF v = w THEN "stored" ELSE consumer[v].step
  <2>1. "stored" \in ConsumerStep /\ 0 \in 0..Cardinality(Session)
    BY FS_CardinalityType, TrafficAssumption DEF ConsumerStep
  <2> QED BY <2>1, <1>5, AdvanceTyped
<1>7. LedgerIsBehind'
  BY <1>1, <1>3, <1>10 DEF DeliveryInv, LedgerIsBehind
<1>8. AnswerMeansStored'
  BY <1>2, <1>3, <1>4, <1>6 DEF DeliveryInv, AnswerMeansStored
<1>9. BatchIsCovered'
  BY <1>6, <1>10 DEF DeliveryInv, BatchIsCovered
<1> QED BY <1>7, <1>8, <1>9 DEF DeliveryInv

LEMMA NextDelivery == PipelineInv /\ DeliveryInv /\ [Next]_vars => DeliveryInv'
<1> SUFFICES ASSUME PipelineInv, DeliveryInv, [Next]_vars PROVE DeliveryInv'
  OBVIOUS
<1>0. consumer \in [Worker -> ConsumerState]
  BY DEF PipelineInv
<1>1. CASE UNCHANGED <<consumer, processed, stored>>
  BY <1>1 DEF DeliveryInv, LedgerIsBehind, AnswerMeansStored, BatchIsCovered, Settled
<1>2. ASSUME NEW w \in Worker, Refused(w) \/ ConsumerDies(w) PROVE DeliveryInv'
  BY <1>2, GiveBackDelivery DEF Refused, ConsumerDies
<1>3. ASSUME NEW w \in Worker, CountEarly(w) PROVE DeliveryInv'
  <2>1. \A v \in Worker :
          /\ consumer'[v].chosen = consumer[v].chosen
          /\ consumer'[v].batch = consumer[v].batch
          /\ consumer'[v].step = IF v = w THEN "counted" ELSE consumer[v].step
    <3>1. Advance(w, "counted", Cardinality(Live(active)))
      BY <1>3 DEF CountEarly, Advance
    <3>2. "counted" \in ConsumerStep
      BY DEF ConsumerStep
    <3> QED BY <3>1, <3>2, LiveCount, AdvanceTyped
  <2>2. processed' = processed /\ stored' = stored
    BY <1>3 DEF CountEarly
  <2> QED BY <2>1, <2>2
        DEF DeliveryInv, LedgerIsBehind, AnswerMeansStored, BatchIsCovered, Settled
<1>4. ASSUME NEW w \in Worker, MarkProcessed(w) PROVE DeliveryInv'
  <2>1. \A v \in Worker :
          /\ consumer'[v].chosen = consumer[v].chosen
          /\ consumer'[v].batch = consumer[v].batch
          /\ v # w => consumer'[v].step = consumer[v].step
    <3>1. \A v \in Worker :
            consumer'[v] = IF v = w THEN [consumer[w] EXCEPT !.step = "marked"] ELSE consumer[v]
      BY <1>0, <1>4 DEF MarkProcessed
    <3>2. consumer[w] \in ConsumerState
      BY <1>0
    <3> QED BY <3>1, <3>2 DEF ConsumerState
  <2>2. \A m \in consumer[w].chosen : Settled(m.event)
    BY <1>4 DEF MarkProcessed, DeliveryInv, AnswerMeansStored
  <2>3. stored' = stored /\ processed' = processed \cup {m.event : m \in consumer[w].chosen}
    BY <1>4 DEF MarkProcessed
  <2>4. LedgerIsBehind'
    BY <2>2, <2>3 DEF DeliveryInv, LedgerIsBehind, Settled
  <2>5. AnswerMeansStored'
    BY <2>1, <2>2, <2>3 DEF DeliveryInv, AnswerMeansStored, Settled
  <2>6. BatchIsCovered'
    BY <2>1, <2>3 DEF DeliveryInv, BatchIsCovered
  <2> QED BY <2>4, <2>5, <2>6 DEF DeliveryInv
<1>5. ASSUME NEW w \in Worker, Acknowledge(w) PROVE DeliveryInv'
  <2>1. \A v \in Worker : consumer'[v] = IF v = w THEN Idle ELSE consumer[v]
    BY <1>0, <1>5 DEF Acknowledge
  <2> QED BY <2>1, <1>5
        DEF Acknowledge, DeliveryInv, LedgerIsBehind, AnswerMeansStored, BatchIsCovered, Idle, Settled
<1>6. ASSUME NEW w \in Worker, TakeBatch(w) PROVE DeliveryInv'
  BY <1>6, TakeBatchDelivery
<1>7. ASSUME NEW w \in Worker, Store(w) PROVE DeliveryInv'
  BY <1>7, StoreDelivery
<1>8. ASSUME NEW e \in Event, Collect(e) \/ MarkSeen(e) PROVE DeliveryInv'
  BY <1>8, <1>1 DEF Collect, MarkSeen
<1>9. CASE Sweep \/ Refresh \/ Tick
  BY <1>9, <1>1 DEF Sweep, Refresh, Tick
<1> QED BY <1>1, <1>2, <1>3, <1>4, <1>5, <1>6, <1>7, <1>8, <1>9 DEF Next, vars

\* Where an event can be, and what keeps it there.
LEMMA StatusMeans ==
  ASSUME PipelineInv, NEW e \in Event
  PROVE  /\ Status(e) \in {"valid", "invalid"} <=> Settled(e)
         /\ Settled(e) => Status(e) = stored[e]
         /\ Status(e) = "queued" <=> ~Settled(e) /\ Waiting(e)
         /\ Status(e) = "dead" <=> ~Settled(e) /\ ~Waiting(e) /\ e \in dead
         /\ Status(e) = "unseen" <=> ~Settled(e) /\ ~Waiting(e) /\ e \notin dead
<1>1. stored[e] \in {"none", "valid", "invalid"}
  BY DEF PipelineInv, TypeOK
<1> QED BY <1>1 DEF Status, Settled

\* Copies in the queue and earlier deaths of a stored event do not count, nor earlier
\* deaths of a queued one.
LEMMA StatusKept ==
  ASSUME PipelineInv, PipelineInv', NEW e \in Event, stored'[e] = stored[e],
         ~Settled(e) => Waiting(e)' = Waiting(e),
         ~Settled(e) /\ ~Waiting(e) => (e \in dead' <=> e \in dead)
  PROVE  Status(e)' = Status(e)
<1>1. CASE Settled(e)
  BY <1>1 DEF Status, Settled
<1>2. CASE ~Settled(e) /\ Waiting(e)
  BY <1>2 DEF Status, Settled
<1>3. CASE ~Settled(e) /\ ~Waiting(e)
  BY <1>3 DEF Status, Settled
<1> QED BY <1>1, <1>2, <1>3

LEMMA CollectMaps ==
  ASSUME PipelineInv, PipelineInv', NEW e \in Event, Collect(e)
  PROVE  Delivery!Admit(e) \/ \A d \in Event : Status(d)' = Status(d)
<1>1. \A d \in Event : Waiting(d)' = (Waiting(d) \/ d = e)
  <2>1. PICK message : queue' = queue \cup {message} /\ message.event = e
    <3> DEFINE copies == {m.copy : m \in {n \in queue : n.event = e}}
               message == [event |-> e, attempts |-> 0,
                 copy |-> CHOOSE c \in 1..MaxSends : c \notin copies,
                 decision |-> IF e \in eventIds \cup Rejected THEN "invalid" ELSE "valid"]
    <3>1. queue' = queue \cup {message}
      BY DEF Collect
    <3>2. message.event = e
      OBVIOUS
    <3> HIDE DEF message
    <3> QED BY <3>1, <3>2
  <2> QED BY <2>1 DEF Waiting
<1>2. stored' = stored /\ dead' = dead
  BY DEF Collect
<1>3. \A d \in Event \ {e} : Status(d)' = Status(d)
  BY <1>1, <1>2 DEF Status
<1>4. CASE Status(e) \in {"unseen", "dead"}
  <2>1. Status(e)' = "queued"
    BY <1>1, <1>2, <1>4, StatusMeans DEF Status, Settled
  <2>2. [d \in Event |-> Status(d)]' = [[d \in Event |-> Status(d)] EXCEPT ![e] = "queued"]
    BY <2>1, <1>3
  <2> QED BY <1>4, <2>2 DEF Delivery!Admit
<1>5. CASE Status(e) \notin {"unseen", "dead"}
  <2>1. Settled(e) \/ Waiting(e)
    BY <1>5, StatusMeans
  <2>2. Status(e)' = Status(e)
    BY <2>1, <1>1, <1>2 DEF Status, Settled
  <2> QED BY <1>3, <2>2
<1> QED BY <1>4, <1>5

\* What leaves the queue with an acknowledgement has been stored.
LEMMA AcknowledgeMaps ==
  ASSUME PipelineInv, PipelineInv', DeliveryInv, UNCHANGED <<stored, dead>>,
         NEW batch, queue' = queue \ batch, \A m \in batch : Settled(m.event)
  PROVE  \A e \in Event : Status(e)' = Status(e)
<1> TAKE e \in Event
<1>1. ~Settled(e) => Waiting(e)' = Waiting(e)
  BY DEF Waiting
<1> QED BY <1>1, StatusKept

LEMMA GiveBackMaps ==
  ASSUME PipelineInv, PipelineInv', NEW w \in Worker, GiveBack(w)
  PROVE  \E es \in SUBSET Event : Delivery!Bury(es)
<1> DEFINE spent == {m \in consumer[w].batch : Spent(m)}
           again == consumer[w].batch \ spent
           es == {e \in Event : Status(e) = "queued" /\ ~Waiting(e)'}
<1>1. /\ queue' = (queue \ consumer[w].batch)
                      \cup {[m EXCEPT !.attempts = @ + 1] : m \in again}
      /\ dead' = dead \cup {m.event : m \in spent}
      /\ stored' = stored
  BY DEF GiveBack
<1>2. consumer[w].batch \subseteq queue /\ queue \subseteq Message
  BY DEF PipelineInv, TypeOK
<1> HIDE DEF spent
<1>3. \A e \in Event : Waiting(e)' => Waiting(e)
  <2> SUFFICES ASSUME NEW e \in Event, NEW m \in queue', m.event = e
               PROVE  Waiting(e)
    BY DEF Waiting
  <2>1. CASE m \in queue
    BY <2>1 DEF Waiting
  <2>2. CASE m \notin queue
    <3>1. PICK n \in again : m = [n EXCEPT !.attempts = @ + 1]
      BY <2>2, <1>1
    <3>2. n \in queue /\ n.event = m.event
      BY <3>1, <1>2 DEF Message
    <3> QED BY <3>2 DEF Waiting
  <2> QED BY <2>1, <2>2
<1>4. \A e \in Event : Waiting(e) /\ ~Waiting(e)' => e \in dead'
  <2> SUFFICES ASSUME NEW e \in Event, NEW m \in queue, m.event = e, ~Waiting(e)'
               PROVE  m \in spent
    BY <1>1 DEF Waiting
  <2>1. m \in consumer[w].batch
    BY <1>1 DEF Waiting
  <2>2. m \notin again
    <3> SUFFICES ASSUME m \in again PROVE FALSE
      OBVIOUS
    <3>1. [m EXCEPT !.attempts = @ + 1] \in queue'
      BY <1>1
    <3>2. [m EXCEPT !.attempts = @ + 1].event = e
      BY <1>2 DEF Message
    <3> QED BY <3>1, <3>2 DEF Waiting
  <2> QED BY <2>1, <2>2
<1>5. \A e \in Event : e \in dead' /\ e \notin dead => Waiting(e)
  BY <1>1, <1>2 DEF Waiting, spent
<1>6. \A e \in Event : Status(e)' = IF e \in es THEN "dead" ELSE Status(e)
  <2> TAKE e \in Event
  <2>1. CASE e \in es
    <3>1. ~Settled(e) /\ Waiting(e)
      BY <2>1, StatusMeans
    <3> QED BY <3>1, <2>1, <1>1, <1>4 DEF Status, Settled
  <2>2. CASE e \notin es
    <3>1. ~Settled(e) => Waiting(e)' = Waiting(e)
      <4>1. Waiting(e) \in BOOLEAN /\ Waiting(e)' \in BOOLEAN
        BY DEF Waiting
      <4> QED BY <4>1, <2>2, <1>3, StatusMeans
    <3>2. ~Settled(e) /\ ~Waiting(e) => (e \in dead' <=> e \in dead)
      BY <1>1, <1>5
    <3> QED BY <3>1, <3>2, <1>1, <2>2, StatusKept
  <2> QED BY <2>1, <2>2
<1> HIDE DEF es
<1>7. es \in SUBSET Event /\ \A e \in es : Status(e) = "queued"
  BY DEF es
<1>8. [e \in Event |-> Status(e)]'
        = [e \in Event |-> IF e \in es THEN "dead" ELSE [d \in Event |-> Status(d)][e]]
  BY <1>6
<1>9. Delivery!Bury(es)
  BY <1>7, <1>8 DEF Delivery!Bury
<1> QED BY <1>7, <1>9

LEMMA StoreMaps ==
  ASSUME PipelineInv, PipelineInv', NEW w \in Worker, Store(w)
  PROVE  \E es \in SUBSET Event : Delivery!Deliver(es)
<1> DEFINE es == {e \in Event : \E m \in Fresh(w) : m.event = e}
           decision == [e \in es |-> stored'[e]]
<1>1. queue' = queue /\ dead' = dead
  BY DEF Store
<1>2. consumer[w].chosen \subseteq queue /\ queue \subseteq Message
  BY DEF PipelineInv, TypeOK
<1>3. \A e \in es : ~Settled(e) /\ Waiting(e)
  BY <1>2 DEF Fresh, Settled, Waiting
<1>4. \A e \in es : stored'[e] \in {"valid", "invalid"}
  <2> TAKE e \in es
  <2> DEFINE n == CHOOSE n \in Fresh(w) : n.event = e
  <2>1. n \in Fresh(w)
    OBVIOUS
  <2>2. stored'[e] = n.decision
    BY DEF Store
  <2> HIDE DEF n
  <2>3. n.decision \in {"valid", "invalid"}
    BY <2>1, <1>2 DEF Fresh, Message
  <2> QED BY <2>2, <2>3
<1>5. \A e \in Event \ es : stored'[e] = stored[e]
  BY DEF Store
<1>6. \A e \in Event : Status(e)' = IF e \in es THEN decision[e] ELSE Status(e)
  <2> TAKE e \in Event
  <2>1. CASE e \in es
    BY <2>1, <1>4 DEF Status
  <2>2. CASE e \notin es
    BY <2>2, <1>1, <1>5 DEF Status, Waiting
  <2> QED BY <2>1, <2>2
<1>7. decision \in [es -> Delivery!Decision]
  BY <1>4 DEF Delivery!Decision
<1> HIDE DEF es, decision
<1>8. es \in SUBSET Event
  BY DEF es
<1>9. [e \in Event |-> Status(e)]'
        = [e \in Event |-> IF e \in es THEN decision[e] ELSE [d \in Event |-> Status(d)][e]]
  BY <1>6
<1>10. \A e \in es : [d \in Event |-> Status(d)][e] = "queued"
  BY <1>3, <1>8, StatusMeans
<1> QED BY <1>7, <1>8, <1>9, <1>10 DEF Delivery!Deliver

LEMMA NextMaps ==
  ASSUME PipelineInv, PipelineInv', DeliveryInv, [Next]_vars
  PROVE  [Delivery!Next]_([e \in Event |-> Status(e)])
<1> DEFINE Kept == \A e \in Event : Status(e)' = Status(e)
<1>1. Kept => UNCHANGED [e \in Event |-> Status(e)]
  OBVIOUS
<1>2. UNCHANGED <<queue, dead, stored>> => Kept
  BY DEF Status, Waiting
<1>3. ASSUME NEW e \in Event, Collect(e) PROVE Delivery!Admit(e) \/ Kept
  BY <1>3, CollectMaps
<1>4. ASSUME NEW e \in Event, MarkSeen(e) PROVE Kept
  BY <1>4, <1>2 DEF MarkSeen
<1>5. ASSUME NEW w \in Worker, TakeBatch(w) PROVE Kept
  <2>1. CASE UNCHANGED queue
    BY <2>1, <1>5, <1>2 DEF TakeBatch
  <2>2. CASE ~UNCHANGED queue
    <3>1. PICK batch \in SUBSET (queue \ Held) : {} \in Choices(batch) /\ queue' = queue \ batch
      BY <2>2, <1>5 DEF TakeBatch
    <3>2. {m.event : m \in {}} = {m.event : m \in batch} \ processed
      BY <3>1 DEF Choices
    <3>3. \A m \in batch : m.event \in processed
      BY <3>2
    <3>4. \A m \in batch : Settled(m.event)
      BY <3>3 DEF DeliveryInv, LedgerIsBehind
    <3> QED BY <3>1, <3>4, <1>5, AcknowledgeMaps DEF TakeBatch
  <2> QED BY <2>1, <2>2
<1>6. ASSUME NEW w \in Worker, CountEarly(w) PROVE Kept
  BY <1>6, <1>2 DEF CountEarly
<1>7. ASSUME NEW w \in Worker, Store(w)
      PROVE  \E es \in SUBSET Event : Delivery!Deliver(es)
  BY <1>7, StoreMaps
<1>8. ASSUME NEW w \in Worker, Refused(w) \/ ConsumerDies(w)
      PROVE  \E es \in SUBSET Event : Delivery!Bury(es)
  BY <1>8, GiveBackMaps DEF Refused, ConsumerDies
<1>9. ASSUME NEW w \in Worker, MarkProcessed(w) PROVE Kept
  BY <1>9, <1>2 DEF MarkProcessed
<1>10. ASSUME NEW w \in Worker, Acknowledge(w) PROVE Kept
  <2>1. \A m \in consumer[w].batch : Settled(m.event)
    <3>1. \A m \in consumer[w].chosen : Settled(m.event)
      BY <1>10 DEF Acknowledge, DeliveryInv, AnswerMeansStored
    <3>2. \A e \in processed : Settled(e)
      BY DEF DeliveryInv, LedgerIsBehind
    <3>3. \A m \in consumer[w].batch :
            m.event \in processed \/ \E n \in consumer[w].chosen : n.event = m.event
      BY DEF DeliveryInv, BatchIsCovered
    <3> QED BY <3>1, <3>2, <3>3
  <2> QED BY <2>1, <1>10, AcknowledgeMaps DEF Acknowledge
<1>11. CASE Sweep \/ Refresh \/ Tick
  BY <1>11, <1>2 DEF Sweep, Refresh, Tick
<1>12. CASE UNCHANGED vars
  BY <1>12, <1>2 DEF vars
<1> HIDE DEF Kept
<1> QED BY <1>1, <1>3, <1>4, <1>5, <1>6, <1>7, <1>8, <1>9, <1>10, <1>11, <1>12
        DEF Next, Delivery!Next

\* The pipeline keeps the promise of EventDelivery: no event that was queued is forgotten, and
\* none is stored twice or with another decision.
THEOREM ImplementsEventDelivery == Spec => EventsAreDelivered
<1>1. Init => Delivery!Init
  BY DEF Init, Delivery!Init, Status, Waiting
<1>2. PipelineInv /\ PipelineInv' /\ DeliveryInv /\ [Next]_vars
        => [Delivery!Next]_([e \in Event |-> Status(e)])
  BY NextMaps
<1> QED BY <1>1, <1>2, InitTyped, NextTyped, InitDelivery, NextDelivery, PTL
        DEF Spec, EventsAreDelivered, Delivery!Spec

-----------------------------------------------------------------------------
(* The tracker in the browser: BrowserTracker *)

LEMMA LimitsAreNumbers ==
  /\ EngagedAfter \in Nat /\ MaxTries \in Nat /\ MaxPending \in Nat /\ Null \notin Nat
  /\ IsFiniteSet(Tab)
BY TrackerAssumption

View == [visible : Time, engaged : Nat]

\* How long a page has been visible since its engagement was armed.
Spell(p) == IF p.since = Null THEN 0 ELSE p.since

\* Only a tracker that may report has the engagement timer, and the timer never comes too early
\* (armEngagement).
TimersFit(p) ==
  /\ p.active => p.open /\ p.started /\ ~p.waiting
  /\ p.since # Null => p.visible /\ p.active
  /\ p.due # Null => /\ p.active /\ ~p.engaged /\ p.since # Null
                     /\ p.seen + p.since + p.due >= EngagedAfter

\* The tracker never counts more time than the page view has been visible.
TimeIsReal(p, v) ==
  /\ v.engaged <= 1
  /\ v.engaged = 1 => v.visible = EngagedAfter
  /\ p.active /\ ~p.engaged => v.engaged = 0 /\ Plus(p.seen, Spell(p)) <= v.visible

\* The heartbeat timer of a visible page.
Beats(p, m) == p.visible /\ p.active /\ "show" \notin m => p.clock

\* What holds of one tab.
Good(p, v, m) ==
  /\ p \in Page /\ IsFiniteSet(p.failed)
  /\ v \in View
  /\ m \in SUBSET {"show", "retry"}
  /\ TimersFit(p) /\ TimeIsReal(p, v) /\ Beats(p, m)

BrowserInv ==
  /\ optOut \in BOOLEAN
  /\ consent \in BOOLEAN
  /\ page \in [Tab -> Page]
  /\ view \in [Tab -> View]
  /\ missed \in [Tab -> SUBSET {"show", "retry"}]
  /\ \A t \in Tab : Good(page[t], view[t], missed[t])

\* What neither the timers of visibility nor the engagement touch.
SamePage(p, q) ==
  /\ q.open = p.open /\ q.visible = p.visible /\ q.started = p.started
  /\ q.active = p.active /\ q.waiting = p.waiting
  /\ q.failed = p.failed /\ q.retry = p.retry

\* What an event that is sent or fails does not touch.
SameTimers(p, q) ==
  /\ q.open = p.open /\ q.visible = p.visible /\ q.started = p.started
  /\ q.active = p.active /\ q.waiting = p.waiting
  /\ q.clock = p.clock /\ q.due = p.due /\ q.since = p.since
  /\ q.seen = p.seen /\ q.engaged = p.engaged

LEMMA PlusType ==
  ASSUME NEW a \in Time, NEW b \in Time
  PROVE  /\ Plus(a, b) \in Time
         /\ a + b < EngagedAfter => Plus(a, b) = a + b
         /\ a + b >= EngagedAfter => Plus(a, b) = EngagedAfter
<1>1. EngagedAfter \in Nat /\ a \in Nat /\ b \in Nat
  BY LimitsAreNumbers DEF Time
<1>2. Plus(a, b) = IF a + b < EngagedAfter THEN a + b ELSE EngagedAfter
  BY DEF Plus, Sooner
<1>3. CASE a + b < EngagedAfter
  BY <1>1, <1>2, <1>3 DEF Time
<1>4. CASE a + b >= EngagedAfter
  BY <1>1, <1>2, <1>4 DEF Time
<1> QED BY <1>1, <1>3, <1>4

\* armEngagement
LEMMA Armed ==
  ASSUME NEW p \in Page, NEW q, q = Arm(p)
  PROVE  /\ q \in Page
         /\ SamePage(p, q)
         /\ q.clock = p.clock /\ q.seen = p.seen /\ q.engaged = p.engaged
         /\ ~p.engaged /\ p.visible => q.due = EngagedAfter - p.seen /\ q.since = 0
         /\ p.engaged \/ ~p.visible => q.due = Null /\ q.since = p.since
<1>1. CASE ~p.engaged /\ p.visible
  <2>1. q = [p EXCEPT !.due = EngagedAfter - p.seen, !.since = 0]
    BY <1>1 DEF Arm
  <2>2. EngagedAfter - p.seen \in Time /\ 0 \in Time
    BY LimitsAreNumbers DEF Time, Page
  <2> QED BY <1>1, <2>1, <2>2 DEF Page, SamePage
<1>2. CASE ~(~p.engaged /\ p.visible)
  <2>1. q = [p EXCEPT !.due = Null]
    BY <1>2 DEF Arm
  <2>2. p.engaged \in BOOLEAN /\ p.visible \in BOOLEAN
    BY DEF Page
  <2> QED BY <1>2, <2>1, <2>2 DEF Page, SamePage
<1> QED BY <1>1, <1>2

\* A new page view (trackNavigation, begin).
LEMMA RestartedPage ==
  ASSUME NEW p \in Page, NEW q, q = Restarted(p)
  PROVE  /\ q \in Page
         /\ SamePage(p, q)
         /\ q.clock = p.clock /\ q.seen = 0 /\ ~q.engaged
         /\ p.visible => q.due = EngagedAfter /\ q.since = 0
         /\ ~p.visible => q.due = Null /\ q.since = p.since
<1> DEFINE r == [p EXCEPT !.engaged = FALSE, !.seen = 0]
<1>0. 0 \in Time
  BY LimitsAreNumbers DEF Time
<1>1. /\ r \in Page /\ SamePage(p, r)
      /\ r.clock = p.clock /\ r.seen = 0 /\ r.engaged = FALSE /\ r.since = p.since
  BY <1>0 DEF Page, SamePage
<1>2. q = Arm(r)
  BY DEF Restarted
<1>3. EngagedAfter - 0 = EngagedAfter
  BY LimitsAreNumbers
<1> HIDE DEF r
<1> QED BY <1>1, <1>2, <1>3, Armed DEF SamePage

\* resumeVisibility
LEMMA ResumedPage ==
  ASSUME NEW p \in Page, NEW q, q = Resumed(p)
  PROVE  /\ q \in Page
         /\ SamePage(p, q)
         /\ q.clock /\ q.seen = p.seen /\ q.engaged = p.engaged
         /\ ~p.engaged /\ p.visible => q.due = EngagedAfter - p.seen /\ q.since = 0
         /\ p.engaged \/ ~p.visible => q.due = Null /\ q.since = p.since
<1> DEFINE r == [p EXCEPT !.clock = TRUE]
<1>1. r \in Page /\ SamePage(p, r) /\ r.clock /\ r.seen = p.seen /\ r.engaged = p.engaged
      /\ r.since = p.since
  BY DEF Page, SamePage
<1>2. q = Arm(r)
  BY DEF Resumed
<1> HIDE DEF r
<1> QED BY <1>1, <1>2, Armed DEF SamePage

\* pauseVisibility
LEMMA PausedPage ==
  ASSUME NEW p \in Page, NEW q, q = Paused(p)
  PROVE  /\ q \in Page
         /\ SamePage(p, q)
         /\ ~q.clock /\ q.due = Null /\ q.since = Null /\ q.engaged = p.engaged
         /\ q.seen = Plus(p.seen, Spell(p))
<1> DEFINE seen == IF p.since = Null THEN p.seen ELSE Plus(p.seen, p.since)
<1>0. p.seen \in Time /\ p.since \in Time \cup {Null}
  BY DEF Page
<1>1. seen \in Time
  BY <1>0, PlusType
<1>2. seen = Plus(p.seen, Spell(p))
  BY <1>0, LimitsAreNumbers DEF Spell, Plus, Sooner, Time
<1>3. q = [p EXCEPT !.seen = seen, !.since = Null, !.due = Null, !.clock = FALSE]
  BY DEF Paused
<1> HIDE DEF seen
<1>4. /\ q \in Page /\ SamePage(p, q)
      /\ q.clock = FALSE /\ q.due = Null /\ q.since = Null /\ q.engaged = p.engaged
      /\ q.seen = seen
  BY <1>1, <1>3 DEF Page, SamePage
<1> QED BY <1>2, <1>4

-----------------------------------------------------------------------------
(* Sending *)

\* There are finitely many failed events, so an id is free while there is room.
LEMMA ElsewhereIsFinite ==
  ASSUME BrowserInv, NEW t \in Tab
  PROVE  IsFiniteSet(FailedElsewhere(t))
<1> DEFINE S == Tab \ {t}
           f == [u \in S |-> page[u].failed \X {u}]
           T == {f[u] : u \in S}
<1>1. IsFiniteSet(S)
  BY LimitsAreNumbers, FS_RemoveElement
<1>2. \A u \in S : IsFiniteSet(page[u].failed \X {u})
  <2> TAKE u \in S
  <2>1. IsFiniteSet(page[u].failed)
    BY DEF BrowserInv, Good
  <2> QED BY <2>1, FS_Singleton, FS_Product
<1>3. f \in [S -> T]
  OBVIOUS
<1>4. \A X \in T : IsFiniteSet(X)
  BY <1>2
<1>5. FailedElsewhere(t) = UNION T
  BY DEF FailedElsewhere
<1> HIDE DEF f, S, T
<1>6. IsFiniteSet({f[u] : u \in S})
  BY <1>1, <1>3, FiniteImage
<1>7. IsFiniteSet(T)
  BY <1>6 DEF T
<1> QED BY <1>4, <1>5, <1>7, FS_UNION

\* retryQueue.push with an id that no other failed event of the page has
LEMMA QueuedPage ==
  ASSUME BrowserInv, NEW t \in Tab, NEW p \in Page, IsFiniteSet(p.failed),
         Room(t, p) > 0, NEW q, q = Queued(p)
  PROVE  q \in Page /\ IsFiniteSet(q.failed) /\ SameTimers(p, q)
<1> DEFINE id == CHOOSE i \in 1..MaxPending : \A f \in p.failed : f.id # i
           new == [id |-> id, tries |-> 0, timed |-> FALSE]
           g == [f \in p.failed |-> f.id]
           ids == {g[f] : f \in p.failed}
<1>1. /\ Cardinality(FailedElsewhere(t)) \in Nat /\ Cardinality(p.failed) \in Nat
      /\ MaxPending \in Nat
  BY ElsewhereIsFinite, FS_CardinalityType, LimitsAreNumbers
<1>2. Cardinality(p.failed) < MaxPending
  BY <1>1 DEF Room
<1>3. \E i \in 1..MaxPending : \A f \in p.failed : f.id # i
  <2>1. g \in [p.failed -> ids]
    OBVIOUS
  <2>2. \A f \in p.failed : f.id \in ids
    OBVIOUS
  <2> HIDE DEF g
  <2>3. IsFiniteSet(ids) /\ Cardinality(ids) <= Cardinality(p.failed)
    BY <2>1, FiniteImage
  <2> HIDE DEF ids
  <2>4. Cardinality(ids) < MaxPending
    BY <2>3, <1>1, <1>2, FS_CardinalityType
  <2>5. \E i \in 1..MaxPending : i \notin ids
    BY <2>3, <2>4, <1>1, FreeNumber
  <2> QED BY <2>2, <2>5
<1>4. id \in 1..MaxPending
  BY <1>3
<1> DEFINE failed == p.failed \cup {new}
<1>5. q = [p EXCEPT !.retry = TRUE, !.failed = failed]
  BY DEF Queued
<1> HIDE DEF id
<1>6. new \in Failed
  BY <1>4, LimitsAreNumbers DEF Failed
<1> HIDE DEF new
<1>7. IsFiniteSet(failed)
  BY FS_AddElement
<1>8. failed \in SUBSET Failed
  BY <1>6 DEF Page
<1> HIDE DEF failed
<1>9. q \in Page /\ SameTimers(p, q) /\ q.failed = failed
  BY <1>5, <1>8 DEF Page, SameTimers
<1> QED BY <1>7, <1>9

LEMMA EmittedPage ==
  ASSUME BrowserInv, NEW t \in Tab, NEW p \in Page, IsFiniteSet(p.failed),
         NEW q \in Emit(t, p)
  PROVE  q \in Page /\ IsFiniteSet(q.failed) /\ SameTimers(p, q)
<1>1. CASE q = p
  BY <1>1 DEF SameTimers
<1>2. CASE q # p
  <2>1. Room(t, p) > 0 /\ q = Queued(p)
    BY <1>2 DEF Emit
  <2> QED BY <2>1, QueuedPage
<1> QED BY <1>1, <1>2

LEMMA GreetedPage ==
  ASSUME BrowserInv, NEW t \in Tab, NEW p \in Page, IsFiniteSet(p.failed),
         NEW q \in Greet(t, p)
  PROVE  q \in Page /\ IsFiniteSet(q.failed) /\ SameTimers(p, q)
<1>1. PICK r \in Emit(t, p) : q \in Emit(t, r)
  BY DEF Greet
<1>2. r \in Page /\ IsFiniteSet(r.failed) /\ SameTimers(p, r)
  BY EmittedPage
<1>3. q \in Page /\ IsFiniteSet(q.failed) /\ SameTimers(r, q)
  BY <1>1, <1>2, EmittedPage
<1> QED BY <1>2, <1>3 DEF SameTimers

\* The invariant does not depend on what waits to be sent again.
LEMMA GoodAfterSending ==
  ASSUME NEW p, NEW v, NEW m, Good(p, v, m),
         NEW q \in Page, IsFiniteSet(q.failed), SameTimers(p, q)
  PROVE  Good(q, v, m)
<1>1. Spell(q) = Spell(p)
  BY DEF SameTimers, Spell
<1>2. TimersFit(q) /\ TimeIsReal(q, v) /\ Beats(q, m)
  BY <1>1 DEF Good, SameTimers, TimersFit, TimeIsReal, Beats
<1> QED BY <1>2 DEF Good

\* The other tabs are left alone.
LEMMA OneTab ==
  ASSUME BrowserInv, NEW t \in Tab, NEW q, NEW v, NEW m, Good(q, v, m),
         optOut' \in BOOLEAN, consent' \in BOOLEAN,
         page' = [page EXCEPT ![t] = q], view' = [view EXCEPT ![t] = v],
         missed' = [missed EXCEPT ![t] = m]
  PROVE  BrowserInv'
<1>1. page' \in [Tab -> Page] /\ view' \in [Tab -> View]
      /\ missed' \in [Tab -> SUBSET {"show", "retry"}]
  BY DEF BrowserInv, Good
<1>2. ASSUME NEW u \in Tab PROVE Good(page[u], view[u], missed[u])'
  <2>1. CASE u = t
    <3>1. page'[u] = q /\ view'[u] = v /\ missed'[u] = m
      BY <2>1 DEF BrowserInv
    <3>2. Good(page'[u], view'[u], missed'[u])
      BY <3>1
    <3> QED BY <3>2 DEF Good, TimersFit, TimeIsReal, Beats, Spell
  <2>2. CASE u # t
    <3>1. page'[u] = page[u] /\ view'[u] = view[u] /\ missed'[u] = missed[u]
      BY <2>2 DEF BrowserInv
    <3>2. Good(page'[u], view'[u], missed'[u])
      BY <3>1 DEF BrowserInv
    <3> QED BY <3>2 DEF Good, TimersFit, TimeIsReal, Beats, Spell
  <2> QED BY <2>1, <2>2
<1> QED BY <1>1, <1>2 DEF BrowserInv

LEMMA BeginGood ==
  ASSUME BrowserInv, NEW t \in Tab, NEW p \in Page, IsFiniteSet(p.failed), p.open,
         NEW m \in SUBSET {"show", "retry"}, Begin(t, p)
  PROVE  \E q : /\ Good(q, NewView, m)
                /\ page' = [page EXCEPT ![t] = q]
                /\ view' = [view EXCEPT ![t] = NewView]
<1> DEFINE p0 == [p EXCEPT !.started = TRUE, !.active = TRUE, !.waiting = FALSE]
<1>1. /\ p0 \in Page /\ p0.failed = p.failed /\ p0.open /\ p0.visible = p.visible
      /\ p0.started /\ p0.active /\ ~p0.waiting
  BY DEF Page
<1>2. PICK q0 \in Greet(t, p0) :
        page' = [page EXCEPT ![t] = [Restarted([q0 EXCEPT !.since = Null]) EXCEPT !.clock = TRUE]]
  BY DEF Begin
<1> DEFINE q1 == [q0 EXCEPT !.since = Null]
           q2 == Restarted(q1)
           q3 == [q2 EXCEPT !.clock = TRUE]
<1> HIDE DEF p0
<1>3. q0 \in Page /\ IsFiniteSet(q0.failed) /\ SameTimers(p0, q0)
  BY <1>1, GreetedPage
<1>4. q1 \in Page /\ SamePage(q0, q1) /\ q1.since = Null
  BY <1>3 DEF Page, SamePage
<1>5. page' = [page EXCEPT ![t] = q3]
  BY <1>2
<1> HIDE DEF q1
<1>6. /\ q2 \in Page /\ SamePage(q1, q2) /\ q2.seen = 0 /\ ~q2.engaged
      /\ q1.visible => q2.due = EngagedAfter /\ q2.since = 0
      /\ ~q1.visible => q2.due = Null /\ q2.since = q1.since
  BY <1>4, RestartedPage
<1> HIDE DEF q2
<1>7. /\ q3 \in Page /\ SamePage(q2, q3) /\ q3.clock /\ q3.seen = q2.seen
      /\ q3.engaged = q2.engaged /\ q3.due = q2.due /\ q3.since = q2.since
  BY <1>6 DEF Page, SamePage
<1> HIDE DEF q3
<1>8. /\ q3.open /\ q3.started /\ q3.active /\ ~q3.waiting
      /\ q3.seen = 0 /\ ~q3.engaged /\ IsFiniteSet(q3.failed)
      /\ q3.visible => q3.due = EngagedAfter /\ q3.since = 0
      /\ ~q3.visible => q3.due = Null /\ q3.since = Null
  BY <1>1, <1>3, <1>4, <1>6, <1>7 DEF SamePage, SameTimers
<1>9. TimersFit(q3)
  BY <1>8, LimitsAreNumbers DEF TimersFit
<1>10. TimeIsReal(q3, NewView)
  <2>1. Spell(q3) = 0
    BY <1>7, <1>8 DEF Spell, Page
  <2>2. Plus(0, 0) = 0
    BY LimitsAreNumbers DEF Plus, Sooner
  <2> QED BY <2>1, <2>2, <1>8 DEF TimeIsReal, NewView
<1>11. NewView \in View
  BY LimitsAreNumbers DEF NewView, View, Time
<1>12. Good(q3, NewView, m)
  BY <1>7, <1>8, <1>9, <1>10, <1>11 DEF Good, Beats
<1> QED BY <1>5, <1>12 DEF Begin

-----------------------------------------------------------------------------
(* The steps of a tab *)

\* A page that does not run has nothing to get wrong (createTracker, optOut).
LEMMA IdleGood ==
  ASSUME NEW p \in Page, IsFiniteSet(p.failed), ~p.active, p.since = Null, p.due = Null,
         NEW v \in View, v.engaged <= 1, v.engaged = 1 => v.visible = EngagedAfter,
         NEW m \in SUBSET {"show", "retry"}
  PROVE  Good(p, v, m)
BY DEF Good, TimersFit, TimeIsReal, Beats

LEMMA BlankPage ==
  /\ Blank \in Page /\ IsFiniteSet(Blank.failed)
  /\ ~Blank.active /\ Blank.since = Null /\ Blank.due = Null
<1>1. 0 \in Time
  BY LimitsAreNumbers DEF Time
<1> QED BY <1>1, FS_EmptySet DEF Blank, Page

LEMMA NewViewType ==
  NewView \in View /\ NewView.engaged = 0
BY LimitsAreNumbers DEF NewView, View, Time

LEMMA LoadGood ==
  ASSUME BrowserInv, NEW t \in Tab, Load(t)
  PROVE  BrowserInv'
<1>0. Good(page[t], view[t], missed[t]) /\ optOut' \in BOOLEAN /\ consent' \in BOOLEAN
  BY DEF BrowserInv, Load
<1>1. missed' = [missed EXCEPT ![t] = missed[t]]
  BY DEF Load, BrowserInv
<1>2. PICK visible \in BOOLEAN :
        LET waiting == ConsentRequired /\ ~consent
            p == [Blank EXCEPT !.open = TRUE, !.visible = visible, !.waiting = waiting]
        IN  IF waiting \/ optOut
            THEN page' = [page EXCEPT ![t] = p] /\ UNCHANGED view
            ELSE Begin(t, p)
  BY DEF Load
<1> DEFINE waiting == ConsentRequired /\ ~consent
           p == [Blank EXCEPT !.open = TRUE, !.visible = visible, !.waiting = waiting]
<1>3. waiting \in BOOLEAN
  OBVIOUS
<1>4. /\ p \in Page /\ IsFiniteSet(p.failed) /\ p.open
      /\ ~p.active /\ p.since = Null /\ p.due = Null
  <2> HIDE DEF waiting
  <2> QED BY <1>3, BlankPage DEF Page
<1> HIDE DEF waiting, p
<1>5. CASE waiting \/ optOut
  <2>1. page' = [page EXCEPT ![t] = p] /\ view' = view
    BY <1>2, <1>5 DEF waiting, p
  <2>2. view' = [view EXCEPT ![t] = view[t]]
    BY <2>1 DEF BrowserInv
  <2>3. Good(p, view[t], missed[t])
    BY <1>0, <1>4, IdleGood DEF Good, TimeIsReal
  <2> QED BY <2>1, <2>2, <2>3, <1>0, <1>1, OneTab
<1>6. CASE ~(waiting \/ optOut)
  <2>1. Begin(t, p)
    BY <1>2, <1>6 DEF waiting, p
  <2>2. missed[t] \in SUBSET {"show", "retry"}
    BY <1>0 DEF Good
  <2>3. PICK q : /\ Good(q, NewView, missed[t])
                 /\ page' = [page EXCEPT ![t] = q]
                 /\ view' = [view EXCEPT ![t] = NewView]
    BY <2>1, <2>2, <1>4, BeginGood
  <2> QED BY <2>3, <1>0, <1>1, OneTab
<1> QED BY <1>5, <1>6

LEMMA GrantConsentGood ==
  ASSUME BrowserInv, NEW t \in Tab, GrantConsent(t)
  PROVE  BrowserInv'
<1>1. page[t] \in Page /\ IsFiniteSet(page[t].failed) /\ missed[t] \ {"show"} \in SUBSET {"show", "retry"}
  BY DEF BrowserInv, Good
<1>2. /\ page[t].open /\ Begin(t, page[t])
      /\ missed' = [missed EXCEPT ![t] = missed[t] \ {"show"}]
      /\ optOut' \in BOOLEAN /\ consent' \in BOOLEAN
  BY DEF GrantConsent
<1>3. PICK q : /\ Good(q, NewView, missed[t] \ {"show"})
               /\ page' = [page EXCEPT ![t] = q]
               /\ view' = [view EXCEPT ![t] = NewView]
  BY <1>1, <1>2, BeginGood
<1> QED BY <1>2, <1>3, OneTab

LEMMA OptOutGood ==
  ASSUME BrowserInv, NEW t \in Tab, OptOut(t)
  PROVE  BrowserInv'
<1> DEFINE p == [Blank EXCEPT !.open = TRUE, !.visible = page[t].visible,
                      !.started = page[t].started, !.waiting = page[t].waiting]
<1>1. /\ page' = [page EXCEPT ![t] = p] /\ missed' = [missed EXCEPT ![t] = {}]
      /\ view' = [view EXCEPT ![t] = view[t]]
      /\ optOut' \in BOOLEAN /\ consent' \in BOOLEAN
  BY DEF OptOut, BrowserInv
<1>2. page[t] \in Page /\ Good(page[t], view[t], missed[t])
  BY DEF BrowserInv
<1>3. /\ p \in Page /\ IsFiniteSet(p.failed)
      /\ ~p.active /\ p.since = Null /\ p.due = Null
  BY <1>2, BlankPage DEF Page
<1> HIDE DEF p
<1>4. Good(p, view[t], {})
  BY <1>2, <1>3, IdleGood DEF Good, TimeIsReal
<1> QED BY <1>1, <1>4, OneTab

LEMMA LeaveGood ==
  ASSUME BrowserInv, NEW t \in Tab, Leave(t)
  PROVE  BrowserInv'
<1>1. /\ page' = [page EXCEPT ![t] = Blank] /\ missed' = [missed EXCEPT ![t] = {}]
      /\ view' = [view EXCEPT ![t] = NewView]
      /\ optOut' \in BOOLEAN /\ consent' \in BOOLEAN
  BY DEF Leave, BrowserInv
<1>2. Good(Blank, NewView, {})
  BY BlankPage, NewViewType, IdleGood
<1> QED BY <1>1, <1>2, OneTab

\* What happens to the engagement when a page is hidden: its time is kept.
LEMMA HideGood ==
  ASSUME BrowserInv, NEW t \in Tab, Hide(t)
  PROVE  BrowserInv'
<1> DEFINE p == [page[t] EXCEPT !.visible = FALSE]
           q == IF p.started THEN Paused(p) ELSE p
<1>1. /\ page' = [page EXCEPT ![t] = q] /\ missed' = [missed EXCEPT ![t] = missed[t]]
      /\ view' = [view EXCEPT ![t] = view[t]]
      /\ optOut' \in BOOLEAN /\ consent' \in BOOLEAN
  BY DEF Hide, BrowserInv
<1>2. Good(page[t], view[t], missed[t]) /\ page[t] \in Page
  BY DEF BrowserInv
<1>3. /\ p \in Page /\ p.visible = FALSE /\ p.open = page[t].open
      /\ p.started = page[t].started
      /\ p.active = page[t].active /\ p.waiting = page[t].waiting
      /\ p.clock = page[t].clock /\ p.due = page[t].due /\ p.since = page[t].since
      /\ p.seen = page[t].seen /\ p.engaged = page[t].engaged /\ p.failed = page[t].failed
  BY <1>2 DEF Page
<1> HIDE DEF p
<1>4. CASE p.started
  <2>1. q = Paused(p)
    BY <1>4
  <2> HIDE DEF q
  <2>2. /\ q \in Page /\ SamePage(p, q)
        /\ ~q.clock /\ q.due = Null /\ q.since = Null /\ q.engaged = p.engaged
        /\ q.seen = Plus(p.seen, Spell(p))
    BY <2>1, <1>3, PausedPage
  <2>3. TimersFit(q)
    BY <2>2, <1>2, <1>3 DEF TimersFit, Good, SamePage
  <2>4. q.active /\ ~q.engaged => Plus(q.seen, Spell(q)) <= view[t].visible
    <3> SUFFICES ASSUME q.active, ~q.engaged PROVE Plus(q.seen, Spell(q)) <= view[t].visible
      OBVIOUS
    <3>1. Spell(q) = 0 /\ Spell(p) = Spell(page[t])
      BY <2>2, <1>3 DEF Spell
    <3>2. q.seen <= view[t].visible
      BY <2>2, <3>1, <1>2, <1>3 DEF Good, TimeIsReal, SamePage
    <3>3. q.seen \in Time /\ 0 \in Time /\ EngagedAfter \in Nat
      BY <2>2, LimitsAreNumbers DEF Page, Time
    <3>4. Plus(q.seen, 0) = q.seen
      BY <3>3 DEF Plus, Sooner, Time
    <3> QED BY <3>1, <3>2, <3>4
  <2>5. TimeIsReal(q, view[t])
    BY <2>2, <2>4, <1>2, <1>3 DEF Good, TimeIsReal, SamePage
  <2>6. Good(q, view[t], missed[t])
    BY <2>2, <2>3, <2>5, <1>2, <1>3 DEF Good, Beats, SamePage
  <2> QED BY <2>6, <1>1, OneTab
<1>5. CASE ~p.started
  <2>1. q = p
    BY <1>5
  <2> HIDE DEF q
  <2>2. ~p.active
    BY <1>2, <1>3, <1>5 DEF Good, TimersFit
  <2>3. Good(p, view[t], missed[t])
    BY <2>2, <1>2, <1>3 DEF Good, TimersFit, TimeIsReal, Beats
  <2> QED BY <2>1, <2>3, <1>1, OneTab
<1> QED BY <1>4, <1>5

\* A page that is shown goes on counting from the time it has.
LEMMA ShowGood ==
  ASSUME BrowserInv, NEW t \in Tab, Show(t)
  PROVE  BrowserInv'
<1> DEFINE p == [page[t] EXCEPT !.visible = TRUE]
           q == IF p.started /\ CanSend(p) THEN Resumed(p) ELSE p
           m == IF page[t].active /\ optOut THEN missed[t] \cup {"show"} ELSE missed[t] \ {"show"}
<1>1. /\ page' = [page EXCEPT ![t] = q] /\ missed' = [missed EXCEPT ![t] = m]
      /\ view' = [view EXCEPT ![t] = view[t]]
      /\ optOut' \in BOOLEAN /\ consent' \in BOOLEAN
      /\ ~page[t].visible
  BY DEF Show, BrowserInv
<1>2. Good(page[t], view[t], missed[t]) /\ page[t] \in Page /\ optOut \in BOOLEAN
  BY DEF BrowserInv
<1>3. /\ p \in Page /\ p.visible = TRUE /\ p.open = page[t].open
      /\ p.started = page[t].started
      /\ p.active = page[t].active /\ p.waiting = page[t].waiting
      /\ p.clock = page[t].clock /\ p.due = page[t].due /\ p.since = page[t].since
      /\ p.seen = page[t].seen /\ p.engaged = page[t].engaged /\ p.failed = page[t].failed
  BY <1>2 DEF Page
<1>4. p.since = Null /\ p.due = Null
  BY <1>1, <1>2, <1>3 DEF Good, TimersFit
<1>5. m \in SUBSET {"show", "retry"}
  BY <1>2 DEF Good
<1>6. CASE p.started /\ CanSend(p)
  <2>1. q = Resumed(p)
    BY <1>6
  <2>0. "show" \notin m
    BY <1>3, <1>6 DEF CanSend
  <2> HIDE DEF q, p, m
  <2>2. /\ q \in Page /\ SamePage(p, q)
        /\ q.clock /\ q.seen = p.seen /\ q.engaged = p.engaged
        /\ ~p.engaged => q.due = EngagedAfter - p.seen /\ q.since = 0
        /\ p.engaged => q.due = Null /\ q.since = Null
    BY <2>1, <1>3, <1>4, ResumedPage
  <2>3. q.active /\ q.visible /\ q.open /\ q.started /\ ~q.waiting
    BY <2>2, <1>2, <1>3, <1>6 DEF SamePage, CanSend, Good, TimersFit
  <2>4. Spell(q) = 0 /\ Spell(page[t]) = 0
    BY <2>2, <1>3, <1>4 DEF Spell, Page
  <2>5. TimersFit(q)
    <3>1. p.seen \in Nat /\ EngagedAfter \in Nat
      BY <1>3, LimitsAreNumbers DEF Page, Time
    <3> QED BY <3>1, <2>2, <2>3, <1>3, LimitsAreNumbers DEF TimersFit
  <2>6. TimeIsReal(q, view[t])
    BY <2>2, <2>3, <2>4, <1>2, <1>3, <1>6 DEF Good, TimeIsReal, CanSend
  <2>7. Good(q, view[t], m)
    BY <2>2, <2>3, <2>5, <2>6, <1>2, <1>3, <1>5 DEF Good, Beats, SamePage
  <2> QED BY <2>7, <1>1, OneTab
<1>7. CASE ~(p.started /\ CanSend(p))
  <2>1. q = p
    BY <1>7
  <2>2. p.active => "show" \in m
    BY <1>2, <1>3, <1>7 DEF CanSend, Good, TimersFit
  <2> HIDE DEF q, p, m
  <2>3. Spell(p) = Spell(page[t])
    BY <1>3 DEF Spell
  <2>4. Good(p, view[t], m)
    BY <2>2, <2>3, <1>2, <1>3, <1>4, <1>5 DEF Good, TimersFit, TimeIsReal, Beats
  <2> QED BY <2>1, <2>4, <1>1, OneTab
<1> QED BY <1>6, <1>7

LEMMA NavigateGood ==
  ASSUME BrowserInv, NEW t \in Tab, Navigate(t)
  PROVE  BrowserInv'
<1>1. Good(page[t], view[t], missed[t]) /\ page[t] \in Page /\ IsFiniteSet(page[t].failed)
  BY DEF BrowserInv, Good
<1>2. PICK p \in Emit(t, page[t]) : page' = [page EXCEPT ![t] = Restarted(p)]
  BY DEF Navigate
<1>3. p \in Page /\ IsFiniteSet(p.failed) /\ SameTimers(page[t], p)
  BY <1>1, EmittedPage
<1> DEFINE q == Restarted(p)
<1>4. /\ q \in Page /\ SamePage(p, q)
      /\ q.clock = p.clock /\ q.seen = 0 /\ ~q.engaged
      /\ p.visible => q.due = EngagedAfter /\ q.since = 0
      /\ ~p.visible => q.due = Null /\ q.since = p.since
  BY <1>3, RestartedPage
<1>5. Good(p, view[t], missed[t])
  BY <1>1, <1>3, GoodAfterSending
<1>6. /\ page' = [page EXCEPT ![t] = q] /\ missed' = [missed EXCEPT ![t] = missed[t]]
      /\ view' = [view EXCEPT ![t] = NewView]
      /\ optOut' \in BOOLEAN /\ consent' \in BOOLEAN
      /\ page[t].active
  BY <1>2 DEF Navigate, CanSend, BrowserInv
<1> HIDE DEF q
<1>7. q.active
  BY <1>3, <1>4, <1>6 DEF SamePage, SameTimers
<1>8. TimersFit(q)
  BY <1>4, <1>5, <1>7, LimitsAreNumbers DEF TimersFit, Good, SamePage
<1>9. TimeIsReal(q, NewView)
  <2>1. Spell(q) = 0
    BY <1>4, <1>5 DEF Spell, Good, TimersFit
  <2>2. Plus(0, 0) = 0
    BY LimitsAreNumbers DEF Plus, Sooner
  <2> QED BY <2>1, <2>2, <1>4 DEF TimeIsReal, NewView
<1>10. Good(q, NewView, missed[t])
  BY <1>3, <1>4, <1>5, <1>8, <1>9, NewViewType DEF Good, Beats, SamePage
<1> QED BY <1>6, <1>10, OneTab

LEMMA HeartbeatGood ==
  ASSUME BrowserInv, NEW t \in Tab, Heartbeat(t)
  PROVE  BrowserInv'
<1>1. Good(page[t], view[t], missed[t]) /\ page[t] \in Page /\ IsFiniteSet(page[t].failed)
  BY DEF BrowserInv, Good
<1>2. PICK p \in Emit(t, page[t]) : page' = [page EXCEPT ![t] = p]
  BY DEF Heartbeat
<1>3. Good(p, view[t], missed[t])
  BY <1>1, EmittedPage, GoodAfterSending
<1>4. /\ missed' = [missed EXCEPT ![t] = missed[t]] /\ view' = [view EXCEPT ![t] = view[t]]
      /\ optOut' \in BOOLEAN /\ consent' \in BOOLEAN
  BY DEF Heartbeat, BrowserInv
<1> QED BY <1>2, <1>3, <1>4, OneTab

\* The timer is due, so the page has been visible for EngagedAfter.
LEMMA EngagementTimerGood ==
  ASSUME BrowserInv, NEW t \in Tab, EngagementTimer(t)
  PROVE  BrowserInv'
<1> DEFINE p == [page[t] EXCEPT !.due = Null]
<1>1. /\ missed' = [missed EXCEPT ![t] = missed[t]]
      /\ optOut' \in BOOLEAN /\ consent' \in BOOLEAN /\ page[t].due = 0
  BY DEF EngagementTimer, BrowserInv
<1>2. Good(page[t], view[t], missed[t]) /\ page[t] \in Page
  BY DEF BrowserInv
<1>3. /\ p \in Page /\ p.due = Null /\ p.visible = page[t].visible /\ p.open = page[t].open
      /\ p.started = page[t].started
      /\ p.active = page[t].active /\ p.waiting = page[t].waiting
      /\ p.clock = page[t].clock /\ p.since = page[t].since
      /\ p.seen = page[t].seen /\ p.engaged = page[t].engaged /\ p.failed = page[t].failed
  BY <1>2 DEF Page
<1>4. Spell(p) = Spell(page[t])
  BY <1>3 DEF Spell
<1>5. /\ p.active /\ ~p.engaged /\ p.visible /\ p.since # Null
      /\ p.seen + p.since >= EngagedAfter
  <2>1. page[t].due # Null
    BY <1>1, LimitsAreNumbers
  <2>2. p.seen \in Nat /\ p.since \in Nat
    BY <2>1, <1>2, <1>3 DEF Good, TimersFit, Page, Time
  <2> QED BY <2>1, <2>2, <1>1, <1>2, <1>3 DEF Good, TimersFit
<1>6. CASE ~p.visible \/ p.engaged \/ optOut
  <2>1. page' = [page EXCEPT ![t] = p] /\ view' = view
    BY <1>6 DEF EngagementTimer
  <2>2. view' = [view EXCEPT ![t] = view[t]]
    BY <2>1 DEF BrowserInv
  <2> HIDE DEF p
  <2>3. Good(p, view[t], missed[t])
    BY <1>2, <1>3, <1>4 DEF Good, TimersFit, TimeIsReal, Beats
  <2> QED BY <2>1, <2>2, <2>3, <1>1, OneTab
<1>7. CASE ~(~p.visible \/ p.engaged \/ optOut)
  <2> DEFINE r == [p EXCEPT !.engaged = TRUE, !.seen = Plus(p.seen, p.since)]
             v == [view[t] EXCEPT !.engaged = view[t].engaged + 1]
  <2>1. PICK q \in Emit(t, r) : page' = [page EXCEPT ![t] = q]
    BY <1>7 DEF EngagementTimer
  <2>2. view' = [view EXCEPT ![t] = v]
    BY <1>7 DEF EngagementTimer, BrowserInv
  <2> HIDE DEF p
  <2>3. Plus(p.seen, p.since) = EngagedAfter /\ Plus(p.seen, p.since) \in Time
    <3>1. p.seen \in Time /\ p.since \in Time
      BY <1>3, <1>5 DEF Page
    <3> QED BY <3>1, <1>5, PlusType
  <2>4. /\ r \in Page /\ r.engaged = TRUE /\ r.visible = p.visible /\ r.open = p.open
        /\ r.started = p.started /\ r.active = p.active /\ r.waiting = p.waiting
        /\ r.clock = p.clock /\ r.since = p.since /\ r.due = p.due /\ r.failed = p.failed
    BY <2>3, <1>3 DEF Page
  <2>5. view[t] \in View /\ view[t].engaged = 0 /\ view[t].visible >= EngagedAfter
    <3>1. Spell(page[t]) = p.since
      BY <1>3, <1>5 DEF Spell
    <3> QED BY <3>1, <2>3, <1>2, <1>3, <1>5 DEF Good, TimeIsReal
  <2>6. v \in View /\ v.engaged = 1 /\ v.visible = EngagedAfter
    BY <2>5, LimitsAreNumbers DEF View, Time
  <2> HIDE DEF r, v
  <2>7. Good(r, v, missed[t])
    BY <2>4, <2>6, <1>2, <1>3, <1>5 DEF Good, TimersFit, TimeIsReal, Beats
  <2>8. Good(q, v, missed[t])
    BY <2>4, <2>7, EmittedPage, GoodAfterSending DEF Good
  <2> QED BY <2>1, <2>2, <2>8, <1>1, OneTab
<1> QED BY <1>6, <1>7

\* What is to be sent again is of no concern to the timers.
LEMMA RetryTimerGood ==
  ASSUME BrowserInv, NEW t \in Tab, RetryTimer(t)
  PROVE  BrowserInv'
<1> DEFINE f == [e \in page[t].failed |-> [e EXCEPT !.timed = TRUE]]
           failed == IF CanSend(page[t]) THEN {f[e] : e \in page[t].failed} ELSE page[t].failed
           q == [page[t] EXCEPT !.retry = FALSE, !.failed = failed]
           m == IF CanSend(page[t]) THEN missed[t] \ {"retry"} ELSE missed[t] \cup {"retry"}
<1>1. Good(page[t], view[t], missed[t]) /\ page[t] \in Page /\ IsFiniteSet(page[t].failed)
  BY DEF BrowserInv, Good
<1>2. /\ page' = [page EXCEPT ![t] = q] /\ missed' = [missed EXCEPT ![t] = m]
      /\ view' = [view EXCEPT ![t] = view[t]]
      /\ optOut' \in BOOLEAN /\ consent' \in BOOLEAN
  <2>1. {f[e] : e \in page[t].failed} = {[e EXCEPT !.timed = TRUE] : e \in page[t].failed}
    OBVIOUS
  <2> HIDE DEF f
  <2> QED BY <2>1, <1>1 DEF RetryTimer, BrowserInv
<1>3. f \in [page[t].failed -> Failed]
  <2> SUFFICES ASSUME NEW e \in page[t].failed
               PROVE  [e EXCEPT !.timed = TRUE] \in Failed
    OBVIOUS
  <2>1. e \in Failed
    BY <1>1 DEF Page
  <2> QED BY <2>1 DEF Failed
<1> HIDE DEF f
<1>4. failed \in SUBSET Failed /\ IsFiniteSet(failed)
  <2>1. IsFiniteSet({f[e] : e \in page[t].failed})
    BY <1>1, <1>3, FiniteImage
  <2> QED BY <2>1, <1>1, <1>3 DEF Page
<1> HIDE DEF failed
<1>5. q \in Page /\ IsFiniteSet(q.failed) /\ SameTimers(page[t], q)
  BY <1>1, <1>4 DEF Page, SameTimers
<1>6. m \in SUBSET {"show", "retry"} /\ ("show" \in m <=> "show" \in missed[t])
  BY <1>1 DEF Good
<1> HIDE DEF q, m
<1>7. Good(page[t], view[t], m)
  BY <1>1, <1>6 DEF Good, Beats
<1> QED BY <1>2, <1>5, <1>7, GoodAfterSending, OneTab

LEMMA SendAgainGood ==
  ASSUME BrowserInv, NEW t \in Tab, NEW i, SendAgain(t, i)
  PROVE  BrowserInv'
<1>1. Good(page[t], view[t], missed[t]) /\ page[t] \in Page /\ IsFiniteSet(page[t].failed)
  BY DEF BrowserInv, Good
<1>0. \A g : [page EXCEPT ![t].failed = page[t].failed \ {g}]
               = [page EXCEPT ![t] = [page[t] EXCEPT !.failed = page[t].failed \ {g}]]
  BY DEF BrowserInv
<1>2. PICK f \in page[t].failed :
        \/ page' = [page EXCEPT ![t] = [page[t] EXCEPT !.failed = page[t].failed \ {f}]]
        \/ page' = [page EXCEPT ![t] = Requeued(page[t], f)]
  BY <1>0 DEF SendAgain
<1>3. /\ missed' = [missed EXCEPT ![t] = missed[t]] /\ view' = [view EXCEPT ![t] = view[t]]
      /\ optOut' \in BOOLEAN /\ consent' \in BOOLEAN
  BY DEF SendAgain, BrowserInv
<1> DEFINE kept == page[t].failed \ {f}
           back == [f EXCEPT !.tries = f.tries + 1, !.timed = FALSE]
<1>4. kept \in SUBSET Failed /\ IsFiniteSet(kept)
  BY <1>1, FS_RemoveElement DEF Page
<1>5. ASSUME f.tries < MaxTries
      PROVE  kept \cup {back} \in SUBSET Failed /\ IsFiniteSet(kept \cup {back})
  <2>1. f \in Failed
    BY <1>1 DEF Page
  <2>2. f.tries + 1 \in 0..MaxTries
    BY <2>1, <1>5, LimitsAreNumbers DEF Failed
  <2>3. back \in Failed
    BY <2>1, <2>2 DEF Failed
  <2> HIDE DEF kept, back
  <2> QED BY <2>3, <1>4, FS_AddElement
<1> HIDE DEF kept, back
<1>6. \A s \in SUBSET Failed : IsFiniteSet(s) =>
        /\ Good([page[t] EXCEPT !.failed = s], view[t], missed[t])
        /\ Good([page[t] EXCEPT !.failed = s, !.retry = TRUE], view[t], missed[t])
  <2> SUFFICES ASSUME NEW s \in SUBSET Failed, IsFiniteSet(s)
               PROVE  /\ Good([page[t] EXCEPT !.failed = s], view[t], missed[t])
                      /\ Good([page[t] EXCEPT !.failed = s, !.retry = TRUE], view[t], missed[t])
    OBVIOUS
  <2> DEFINE q == [page[t] EXCEPT !.failed = s]
             r == [page[t] EXCEPT !.failed = s, !.retry = TRUE]
  <2>1. q \in Page /\ IsFiniteSet(q.failed) /\ SameTimers(page[t], q)
    BY <1>1 DEF Page, SameTimers
  <2>2. r \in Page /\ IsFiniteSet(r.failed) /\ SameTimers(page[t], r)
    BY <1>1 DEF Page, SameTimers
  <2> HIDE DEF q, r
  <2>3. Good(q, view[t], missed[t]) /\ Good(r, view[t], missed[t])
    BY <2>1, <2>2, <1>1, GoodAfterSending
  <2> QED BY <2>3 DEF q, r
<1>7. PICK q : page' = [page EXCEPT ![t] = q] /\ Good(q, view[t], missed[t])
  <2>1. CASE page' = [page EXCEPT ![t] = [page[t] EXCEPT !.failed = page[t].failed \ {f}]]
    BY <2>1, <1>4, <1>6 DEF kept
  <2>2. CASE page' = [page EXCEPT ![t] = Requeued(page[t], f)]
    <3>1. CASE f.tries < MaxTries
      <4>1. Requeued(page[t], f) = [page[t] EXCEPT !.failed = kept \cup {back}, !.retry = TRUE]
        BY <3>1 DEF Requeued, kept, back
      <4> QED BY <4>1, <2>2, <3>1, <1>5, <1>6
    <3>2. CASE ~(f.tries < MaxTries)
      <4>1. Requeued(page[t], f) = [page[t] EXCEPT !.failed = kept]
        BY <3>2 DEF Requeued, kept
      <4> QED BY <4>1, <2>2, <1>4, <1>6
    <3> QED BY <3>1, <3>2
  <2> QED BY <1>2, <2>1, <2>2
<1> QED BY <1>3, <1>7, OneTab

\* While time passes, what is counted and what is true grow together, and the timer does not
\* overtake them.
LEMMA TickGood ==
  ASSUME BrowserInv, TimePasses
  PROVE  BrowserInv'
<1> DEFINE P(t) == [page[t] EXCEPT
             !.due = IF page[t].due \in {Null, 0} THEN page[t].due ELSE page[t].due - 1,
             !.since = IF page[t].since = Null THEN Null ELSE Plus(page[t].since, 1)]
           V(t) == [view[t] EXCEPT
             !.visible = IF page[t].visible THEN Plus(view[t].visible, 1) ELSE view[t].visible]
<1>1. /\ page' = [t \in Tab |-> P(t)] /\ view' = [t \in Tab |-> V(t)]
      /\ missed' = missed /\ optOut' = optOut /\ consent' = consent
  BY DEF TimePasses
<1>2. ASSUME NEW t \in Tab
      PROVE  Good(P(t), V(t), missed[t])
  <2> DEFINE p == page[t]
             q == P(t)
             v == view[t]
             u == V(t)
             due == IF p.due \in {Null, 0} THEN p.due ELSE p.due - 1
             since == IF p.since = Null THEN Null ELSE Plus(p.since, 1)
             visible == IF p.visible THEN Plus(v.visible, 1) ELSE v.visible
  <2>1. Good(p, v, missed[t]) /\ p \in Page /\ v \in View
    BY DEF BrowserInv
  <2>2. /\ p.seen \in Nat /\ p.seen <= EngagedAfter /\ EngagedAfter \in Nat /\ Null \notin Nat
        /\ p.due # Null => p.due \in Nat /\ p.due <= EngagedAfter
        /\ p.since # Null => p.since \in Nat /\ p.since <= EngagedAfter
        /\ v.visible \in Nat /\ v.visible <= EngagedAfter /\ v.engaged \in Nat
    BY <2>1, LimitsAreNumbers DEF Page, Time, View
  <2>3. /\ p.due = Null => due = Null
        /\ p.due # Null => due \in Nat /\ due <= EngagedAfter /\ p.due <= due + 1
    BY <2>2
  <2>4. /\ p.since = Null => since = Null
        /\ p.since # Null => /\ since \in Nat /\ since <= EngagedAfter
                             /\ since = EngagedAfter \/ since = p.since + 1
                             /\ since <= p.since + 1
    BY <2>2 DEF Plus, Sooner
  <2>5. /\ visible \in Nat /\ visible <= EngagedAfter
        /\ ~p.visible => visible = v.visible
        /\ p.visible => visible = EngagedAfter \/ visible = v.visible + 1
    BY <2>2 DEF Plus, Sooner
  <2>6. /\ q = [p EXCEPT !.due = due, !.since = since]
        /\ u = [v EXCEPT !.visible = visible]
    OBVIOUS
  <2> HIDE DEF due, since, visible, q, u, p, v
  <2>7. due \in Time \cup {Null} /\ since \in Time \cup {Null} /\ visible \in Time
    BY <2>2, <2>3, <2>4, <2>5 DEF Time
  <2>8. /\ q \in Page /\ q.due = due /\ q.since = since /\ q.visible = p.visible
        /\ q.open = p.open /\ q.started = p.started /\ q.active = p.active
        /\ q.waiting = p.waiting /\ q.clock = p.clock /\ q.seen = p.seen
        /\ q.engaged = p.engaged /\ q.failed = p.failed
    BY <2>1, <2>6, <2>7 DEF Page
  <2>9. u \in View /\ u.engaged = v.engaged /\ u.visible = visible
    BY <2>1, <2>6, <2>7 DEF View
  <2>10. TimersFit(q)
    <3>1. q.active => q.open /\ q.started /\ ~q.waiting
      BY <2>1, <2>8 DEF Good, TimersFit
    <3>2. q.since # Null => q.visible /\ q.active
      BY <2>1, <2>4, <2>8 DEF Good, TimersFit
    <3>3. q.due # Null => /\ q.active /\ ~q.engaged /\ q.since # Null
                          /\ q.seen + q.since + q.due >= EngagedAfter
      <4> SUFFICES ASSUME q.due # Null
                   PROVE  /\ q.active /\ ~q.engaged /\ q.since # Null
                          /\ q.seen + q.since + q.due >= EngagedAfter
        OBVIOUS
      <4>1. p.due # Null
        BY <2>3, <2>8
      <4>2. p.active /\ ~p.engaged /\ p.since # Null /\ p.seen + p.since + p.due >= EngagedAfter
        BY <2>1, <4>1 DEF Good, TimersFit
      <4>3. since # Null /\ p.seen + since + due >= EngagedAfter
        BY <2>2, <2>3, <2>4, <4>1, <4>2
      <4> QED BY <2>8, <4>2, <4>3
    <3> QED BY <3>1, <3>2, <3>3 DEF TimersFit
  <2>11. TimeIsReal(q, u)
    <3>1. v.engaged <= 1 /\ (v.engaged = 1 => v.visible = EngagedAfter)
      BY <2>1 DEF Good, TimeIsReal
    <3>2. v.visible = EngagedAfter => visible = EngagedAfter
      BY <2>2, <2>5
    <3>3. ASSUME q.active, ~q.engaged
          PROVE  u.engaged = 0 /\ Plus(q.seen, Spell(q)) <= u.visible
      <4>1. v.engaged = 0 /\ Plus(p.seen, Spell(p)) <= v.visible
        BY <2>1, <2>8, <3>3 DEF Good, TimeIsReal
      <4>2. CASE p.since = Null
        <5>1. Spell(p) = 0 /\ Spell(q) = 0
          BY <4>2, <2>4, <2>8 DEF Spell
        <5>2. v.visible <= visible
          BY <2>2, <2>5
        <5>3. Plus(p.seen, 0) \in Nat
          BY <2>2 DEF Plus, Sooner
        <5>4. Plus(p.seen, 0) <= v.visible
          BY <4>1, <5>1
        <5>5. Plus(p.seen, 0) <= visible
          BY <5>2, <5>3, <5>4, <2>2, <2>5
        <5> QED BY <4>1, <5>1, <5>5, <2>8, <2>9
      <4>3. CASE p.since # Null
        <5>1. p.visible
          BY <4>3, <2>1 DEF Good, TimersFit
        <5>2. Spell(p) = p.since /\ Spell(q) = since
          BY <4>3, <2>4, <2>8, <2>2 DEF Spell
        <5>3. /\ Plus(p.seen, p.since)
                   = IF p.seen + p.since < EngagedAfter THEN p.seen + p.since ELSE EngagedAfter
              /\ Plus(p.seen, since)
                   = IF p.seen + since < EngagedAfter THEN p.seen + since ELSE EngagedAfter
          BY DEF Plus, Sooner
        <5>4. Plus(p.seen, since) <= visible
          BY <4>1, <4>3, <5>1, <5>2, <5>3, <2>2, <2>4, <2>5
        <5> QED BY <4>1, <5>2, <5>4, <2>8, <2>9
      <4> QED BY <4>2, <4>3
    <3> QED BY <3>1, <3>2, <3>3, <2>9 DEF TimeIsReal
  <2>12. Good(q, u, missed[t])
    BY <2>1, <2>8, <2>9, <2>10, <2>11 DEF Good, Beats
  <2> QED BY <2>12 DEF q, u
<1>3. \A t \in Tab : P(t) \in Page /\ V(t) \in View
  BY <1>2 DEF Good
<1> HIDE DEF P, V
<1>4. page' \in [Tab -> Page] /\ view' \in [Tab -> View]
  BY <1>1, <1>3
<1>5. ASSUME NEW t \in Tab PROVE Good(page[t], view[t], missed[t])'
  <2>1. Good(page'[t], view'[t], missed'[t])
    BY <1>1, <1>2
  <2> QED BY <2>1 DEF Good, TimersFit, TimeIsReal, Beats, Spell
<1> QED BY <1>1, <1>4, <1>5 DEF BrowserInv

-----------------------------------------------------------------------------
(* The theorems about the tracker *)

LEMMA BrowserInit ==
  ASSUME TrackerInit
  PROVE  BrowserInv
<1>1. Good(Blank, NewView, {})
  BY BlankPage, NewViewType, IdleGood
<1> QED BY <1>1, BlankPage, NewViewType DEF TrackerInit, BrowserInv

LEMMA BrowserNext ==
  ASSUME BrowserInv, [TrackerNext]_trackerVars
  PROVE  BrowserInv'
<1>1. CASE UNCHANGED trackerVars
  BY <1>1 DEF trackerVars, BrowserInv, Good, TimersFit, TimeIsReal, Beats, Spell
<1>2. CASE TimePasses
  BY <1>2, TickGood
<1>3. ASSUME NEW t \in Tab, Step(t)
      PROVE  BrowserInv'
  BY <1>3, LoadGood, GrantConsentGood, OptOutGood, LeaveGood, HideGood, ShowGood, NavigateGood,
     HeartbeatGood, EngagementTimerGood, RetryTimerGood, SendAgainGood DEF Step
<1> QED BY <1>1, <1>2, <1>3 DEF TrackerNext

\* The variables of every page keep their types, in any number of tabs.
THEOREM BrowserTyped == TrackerSpec => []TrackerTypeOK
<1>1. BrowserInv => TrackerTypeOK
  BY DEF BrowserInv, TrackerTypeOK, View
<1>2. TrackerInit => BrowserInv
  BY BrowserInit
<1>3. BrowserInv /\ [TrackerNext]_trackerVars => BrowserInv'
  BY BrowserNext
<1> QED BY <1>1, <1>2, <1>3, PTL DEF TrackerSpec

\* A visible page that may send has its heartbeat timer.
THEOREM HeartbeatsGoOn == TrackerSpec => []VisiblePagesBeat
<1>1. BrowserInv => VisiblePagesBeat
  BY DEF BrowserInv, Good, Beats, VisiblePagesBeat, CanSend
<1>2. TrackerInit => BrowserInv
  BY BrowserInit
<1>3. BrowserInv /\ [TrackerNext]_trackerVars => BrowserInv'
  BY BrowserNext
<1> QED BY <1>1, <1>2, <1>3, PTL DEF TrackerSpec

\* Engagement is reported once for a page view, and only after it was visible long enough.
THEOREM EngagedPagesWereSeen == TrackerSpec => []EngagementIsEarned
<1>1. BrowserInv => EngagementIsEarned
  BY DEF BrowserInv, Good, TimeIsReal, EngagementIsEarned
<1>2. TrackerInit => BrowserInv
  BY BrowserInit
<1>3. BrowserInv /\ [TrackerNext]_trackerVars => BrowserInv'
  BY BrowserNext
<1> QED BY <1>1, <1>2, <1>3, PTL DEF TrackerSpec
=============================================================================
