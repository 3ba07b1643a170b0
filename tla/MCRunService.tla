----------------------------- MODULE MCRunService ----------------------------
(* Two calls of one goroutine each.                                        *)
EXTENDS RunService

CONSTANTS c1, c2, g1, g2, q1, q2

TwoCalls == g1 :> c1 @@ g2 :> c2
OneTick == [k \in Keys |-> 1]
=============================================================================
