---------------------------- MODULE MCMonidClient ---------------------------
(* One tool call whose two goroutines share its only run slot, so that     *)
(* each waits for what the other holds; they ask the same question, two    *)
(* questions, or one that is not in the allowlist.                         *)
EXTENDS MonidClient, TLC

CONSTANTS c1, g1, g2

OneCall == g1 :> c1 @@ g2 :> c1
=============================================================================
