-------------------------- MODULE MCBrowserTracker --------------------------
(***************************************************************************)
(* BrowserTracker for TLC: two tabs of one browser on a site that asks for *)
(* consent, one tick of visibility and two failed events at a time.        *)
(***************************************************************************)
EXTENDS BrowserTracker
CONSTANTS t1, t2
=============================================================================
