---------------------------- MODULE SiteListing ----------------------------
(***************************************************************************)
(* What the rest of the system relies on about a listed site: moderators   *)
(* may give it any status at any time, and it gets one owner, once, while  *)
(* it is active.  FanwardProfile takes these two steps for granted.        *)
(***************************************************************************)
CONSTANTS Site, User, NoUser

VARIABLES status, owner

vars == <<status, owner>>

Init == /\ status = [s \in Site |-> "pending"]
        /\ owner = [s \in Site |-> NoUser]

Moderate(s) ==
  /\ \E st \in {"active", "rejected", "suspended"} : status' = [status EXCEPT ![s] = st]
  /\ UNCHANGED owner

Grant(s, u) ==
  /\ status[s] = "active"
  /\ owner[s] = NoUser
  /\ owner' = [owner EXCEPT ![s] = u]
  /\ UNCHANGED status

Next == \E s \in Site : Moderate(s) \/ \E u \in User : Grant(s, u)

Spec == Init /\ [][Next]_vars
=============================================================================
