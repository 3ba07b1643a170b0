--------------------------- MODULE MCTieredCache ---------------------------
(* A question about a period that closes at time 0.  A second is two       *)
(* ticks, so that an expiry can be truncated.                              *)
EXTENDS TieredCache, TLC

CONSTANTS settled, m1, m2, r1, r2

ClosesEarly == settled :> 0
=============================================================================
