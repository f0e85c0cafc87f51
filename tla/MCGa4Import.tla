---------------------------- MODULE MCGa4Import ----------------------------
(***************************************************************************)
(* Ga4Import for TLC: the chunks of seven days and the window of ninety    *)
(* are scaled down to two days and three.                                  *)
(***************************************************************************)
EXTENDS Ga4Import, TLC

CONSTANTS cron, manual, first, second

Symmetry == Permutations({cron, manual}) \cup Permutations({first, second})
=============================================================================
