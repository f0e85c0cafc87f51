------------------------ MODULE MCBreakoutDetection ------------------------
(***************************************************************************)
(* BreakoutDetection for TLC with the spans of breakout-v1: a slot is five *)
(* minutes, so 15, 30 and 60 minutes are 3, 6 and 12 slots.                *)
(***************************************************************************)
EXTENDS BreakoutDetection
=============================================================================
