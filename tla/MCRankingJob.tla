---------------------------- MODULE MCRankingJob ----------------------------
(***************************************************************************)
(* RankingJob for TLC: the scheduler's process and an administrator's.     *)
(* Leaderboards with no site in common, with one, with the same sites in   *)
(* either order, and none at all follow each other in any order.           *)
(***************************************************************************)
EXTENDS RankingJob

CONSTANTS scheduler, administrator

Out    == [state |-> "fraud_review", breakout |-> FALSE, score |-> 0]
Ahead  == [state |-> "eligible", breakout |-> FALSE, score |-> 1]
Rising(score) == [state |-> "eligible", breakout |-> TRUE, score |-> score]

MCMetrics == {<<Out, Out>>, <<Out, Rising(0)>>, <<Rising(0), Out>>, <<Rising(0), Ahead>>,
              <<Rising(0), Rising(0)>>, <<Rising(0), Rising(1)>>}
=============================================================================
