--------------------------- MODULE MCRateLimiter ----------------------------
(* Three requests on one bucket of two tokens.                             *)
EXTENDS RateLimiter, TLC

CONSTANTS k1, r1, r2, r3

TwoTokens == k1 :> 2
=============================================================================
