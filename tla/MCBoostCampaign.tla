-------------------------- MODULE MCBoostCampaign --------------------------
(***************************************************************************)
(* BoostCampaign for TLC: one visitor, two opportunities and two reports,  *)
(* which is enough to meet a cap and a target of one, to report one token  *)
(* twice, and to count two hashes of the visitor in one window.            *)
(***************************************************************************)
EXTENDS BoostCampaign
CONSTANTS v1, o1, o2, e1, e2, r1
=============================================================================
