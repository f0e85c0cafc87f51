-------------------------- MODULE MCFanwardProfile --------------------------
(***************************************************************************)
(* FanwardProfile for TLC.  One owner: profiles of different owners share  *)
(* nothing but the clock, since a site has a single owner.                 *)
(***************************************************************************)
EXTENDS FanwardProfile, TLC
CONSTANTS u1, t1, t2, a1, a2, r1, r2, r3, c1, c2

MCTabOwner == [t \in Tab |-> u1]

\* Tabs, administrators, revision ids and texts are interchangeable.
Symmetry == Permutations(Tab) \cup Permutations(Admin)
            \cup Permutations(Revision) \cup Permutations(Content)
=============================================================================
