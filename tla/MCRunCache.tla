----------------------------- MODULE MCRunCache -----------------------------
(* RunCache with room for two of the three keys whose endpoints are cached;*)
(* k4's TTL is negative, which Put answers by storing nothing.             *)
EXTENDS RunCache

CONSTANTS k1, k2, k3, k4

MCTTL == k1 :> 1 @@ k2 :> 2 @@ k3 :> 2 @@ k4 :> 0 - 1
=============================================================================
