------------------------- MODULE ImpressionLedger -------------------------
(***************************************************************************)
(* What Boost promises about the impressions a campaign is charged for,    *)
(* independently of locks, states and counters.  A browser reports an      *)
(* impression under an event id, with a token.  An event id is counted     *)
(* once, and stays counted as it was; a token that has been counted admits *)
(* no further report, so only what was waiting by then may count with it;  *)
(* and of one visitor hash no more than the cap count on one day.          *)
(***************************************************************************)
EXTENDS Naturals, FiniteSets

CONSTANTS Hash, Day,
          Token,
          Event,  \* the ids of the impressions that browsers report
          Cap     \* the impressions of one hash that count on one day

VARIABLES counted,  \* counted[e]: the hash and the day that e is counted for, if it is
          spent,    \* the tokens that some impression was counted with
          waiting   \* the reports admitted and not yet decided on: token and event id

ledger == <<counted, spent, waiting>>

NotCounted == <<>>

Init ==
    /\ counted = [e \in Event |-> NotCounted]
    /\ spent = {}
    /\ waiting = {}

Admit(t, e) ==
    /\ t \notin spent
    /\ waiting' = waiting \cup {<<t, e>>}
    /\ UNCHANGED <<counted, spent>>

Count(t, e) ==
    /\ <<t, e>> \in waiting
    /\ counted[e] = NotCounted
    /\ counted'[e] \in Hash \X Day
    /\ Cardinality({f \in Event : counted[f] = counted'[e]}) < Cap
    /\ counted' = [counted EXCEPT ![e] = counted'[e]]
    /\ spent' = spent \cup {t}
    /\ waiting' = waiting \ {<<t, e>>}

Drop(t, e) ==
    /\ waiting' = waiting \ {<<t, e>>}
    /\ UNCHANGED <<counted, spent>>

Next == \E t \in Token, e \in Event : Admit(t, e) \/ Count(t, e) \/ Drop(t, e)

Spec == Init /\ [][Next]_ledger
============================================================================
