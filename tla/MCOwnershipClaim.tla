-------------------------- MODULE MCOwnershipClaim --------------------------
(* OwnershipClaim for TLC: claims and requests are interchangeable. *)
EXTENDS OwnershipClaim, TLC
CONSTANTS u1, u2, c1, c2, q1, q2, s1

Symmetry == Permutations(User) \cup Permutations(Claim) \cup Permutations(Request)
=============================================================================
