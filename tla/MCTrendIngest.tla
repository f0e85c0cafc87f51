--------------------------- MODULE MCTrendIngest ---------------------------
(***************************************************************************)
(* TrendIngest for TLC.  A tick is five minutes: "timeout 300" is one tick *)
(* and the lock goes stale after three; the three hours of the freshness   *)
(* limit are scaled down.                                                  *)
(***************************************************************************)
EXTENDS TrendIngest

CONSTANTS cron,    \* the hourly process, one at a time because of flock
          manual,  \* pnpm trends:ingest, which an operator starts by hand
          reddit, youtube
=============================================================================
