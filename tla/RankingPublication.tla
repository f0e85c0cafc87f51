------------------------ MODULE RankingPublication ------------------------
(***************************************************************************)
(* What the ranking job promises to the readers of the leaderboards,       *)
(* independently of runs, rows, slots and failures: a publication puts one *)
(* complete set of leaderboards in the place of everything that was shown  *)
(* when it began, in one step, or it changes nothing.  What others put     *)
(* there meanwhile stays beside it, and must list none of its sites on the *)
(* same leaderboard.                                                       *)
(***************************************************************************)
CONSTANTS Complete,  \* the complete sets of leaderboards, one for each state of the metrics
          Process

VARIABLES shown,  \* shown[p]: what a reader finds of the last publication of p
          seen    \* seen[p]: those whose publications p is about to replace

board == <<shown, seen>>

Init == shown = [p \in Process |-> {}] /\ seen = [p \in Process |-> {}]

Open(p) ==
    /\ seen' = [seen EXCEPT ![p] = {q \in Process : shown[q] # {}}]
    /\ UNCHANGED shown

Commit(p) ==
    /\ shown'[p] \in Complete
    /\ shown' = [q \in Process |-> IF q = p THEN shown'[p]
                                   ELSE IF q \in seen[p] THEN {} ELSE shown[q]]
    /\ \A q \in Process \ {p} : \A a \in shown'[q], b \in shown'[p] :
         a.site = b.site => a.scope # b.scope
    /\ seen' = [q \in Process |-> IF q = p THEN {} ELSE seen[q] \ (seen[p] \cup {p})]

GiveUp(p) ==
    /\ seen' = [seen EXCEPT ![p] = {}]
    /\ UNCHANGED shown

Next == \E p \in Process : Open(p) \/ Commit(p) \/ GiveUp(p)

Spec == Init /\ [][Next]_board
============================================================================
