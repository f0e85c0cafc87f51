--------------------------- MODULE EventDelivery ---------------------------
(***************************************************************************)
(* What the traffic pipeline promises about each visitor event,            *)
(* independently of copies, batches, consumers, attempts and ledgers: an   *)
(* event that has been queued stays queued until it is stored or put aside *)
(* as a dead letter; a dead letter can only be queued again; and an event  *)
(* is stored once and keeps the decision it was stored with.               *)
(***************************************************************************)
CONSTANT Event

VARIABLE status  \* status[e]: where the event e is

Decision == {"valid", "invalid"}

Init == status = [e \in Event |-> "unseen"]

\* The tracker has sent the event, and the collector queued it.
Admit(e) ==
    /\ status[e] \in {"unseen", "dead"}
    /\ status' = [status EXCEPT ![e] = "queued"]

\* Queued events are stored together, each with a decision of its own.
Deliver(es) ==
    /\ \A e \in es : status[e] = "queued"
    /\ \E decision \in [es -> Decision] :
        status' = [e \in Event |-> IF e \in es THEN decision[e] ELSE status[e]]

\* Queued events run out of retries together.
Bury(es) ==
    /\ \A e \in es : status[e] = "queued"
    /\ status' = [e \in Event |-> IF e \in es THEN "dead" ELSE status[e]]

Next ==
    \/ \E e \in Event : Admit(e)
    \/ \E es \in SUBSET Event : Deliver(es) \/ Bury(es)

Spec == Init /\ [][Next]_status

============================================================================
