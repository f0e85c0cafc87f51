------------------------ MODULE ModeratedPublication ------------------------
(***************************************************************************)
(* What the Fanward creator pages promise their readers, independently of  *)
(* drafts, editor tabs, concurrency tokens and tables: a text becomes      *)
(* public only by passing through review, one text at a time, and a        *)
(* suspended profile keeps the text it was suspended with until an         *)
(* administrator restores it.                                              *)
(***************************************************************************)
CONSTANTS Owner,      \* accounts that may own one creator profile each
          Content,    \* profile texts (name, headline, bio and category)
          NoContent   \* no text

VARIABLES live,       \* live[u]: the approved text of u's profile
          review,     \* review[u]: the text of u waiting for a moderator
          hidden      \* hidden[u]: u's profile is suspended

vars == <<live, review, hidden>>

Init == /\ live = [u \in Owner |-> NoContent]
        /\ review = [u \in Owner |-> NoContent]
        /\ hidden = [u \in Owner |-> FALSE]

Submit(u) ==
  /\ review[u] = NoContent
  /\ ~hidden[u]
  /\ \E c \in Content : review' = [review EXCEPT ![u] = c]
  /\ UNCHANGED <<live, hidden>>

\* Approval never lifts a suspension.
Approve(u) ==
  /\ review[u] # NoContent
  /\ ~hidden[u]
  /\ live' = [live EXCEPT ![u] = review[u]]
  /\ review' = [review EXCEPT ![u] = NoContent]
  /\ UNCHANGED hidden

Reject(u) ==
  /\ review[u] # NoContent
  /\ review' = [review EXCEPT ![u] = NoContent]
  /\ UNCHANGED <<live, hidden>>

Suspend(u) ==
  /\ live[u] # NoContent
  /\ ~hidden[u]
  /\ hidden' = [hidden EXCEPT ![u] = TRUE]
  /\ UNCHANGED <<live, review>>

Restore(u) ==
  /\ live[u] # NoContent
  /\ hidden[u]
  /\ hidden' = [hidden EXCEPT ![u] = FALSE]
  /\ UNCHANGED <<live, review>>

Next == \E u \in Owner : Submit(u) \/ Approve(u) \/ Reject(u) \/ Suspend(u) \/ Restore(u)

Spec == Init /\ [][Next]_vars
=============================================================================
