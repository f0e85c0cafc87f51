------------------------- MODULE MCTrafficPipeline -------------------------
(* A small instance of TrafficPipeline for TLC: one tab that opens and one   *)
(* event that ends it, sent three times in all, through two consumers.       *)
EXTENDS TrafficPipeline, TLC

CONSTANTS open, end, tab, w1, w2

MCSessionOf == (open :> tab) @@ (end :> tab)
MCKindOf == (open :> "opens") @@ (end :> "ends")

============================================================================
