---------------------------- MODULE MCTrackerKey ----------------------------
(* TrackerKey for TLC: keys, pages and requests are interchangeable. *)
EXTENDS TrackerKey, TLC
CONSTANTS k1, k2, k3, t1, t2, q1, q2, a1, a2, l1, l2

Symmetry == Permutations(Key) \cup Permutations(Tab) \cup Permutations(Request)
            \cup Permutations(Alias) \cup Permutations(Listing)
=============================================================================
