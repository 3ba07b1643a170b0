---------------------------- MODULE RunContract -----------------------------
(***************************************************************************)
(* What monid/client.go promises its caller, the abstraction that          *)
(* MonidClient implements and RunService builds on: a Run buys at most one *)
(* run, and only for a permitted question; what it returns without an      *)
(* error is that run, as Monid completed it; what it returns with an error *)
(* names no run, or the one it bought, and never as completed.             *)
(***************************************************************************)
EXTENDS Monid

CONSTANTS Goroutines, Permitted

VARIABLES
    phase,           \* goroutine -> "idle", "asking" or "returned"
    asks,            \* goroutine -> the question it asks
    bought,          \* goroutine -> the run Monid told it of, 0 for none
    result           \* goroutine -> what Run returned

runVars == <<phase, asks, bought, result, monid>>

Result == [ok : BOOLEAN, run : RunRecord \cup {NoRun}]
NoResult == [ok |-> TRUE, run |-> NoRun]

Init ==
    /\ phase = [g \in Goroutines |-> "idle"]
    /\ asks = [g \in Goroutines |-> CHOOSE k \in Keys : TRUE]
    /\ bought = [g \in Goroutines |-> 0]
    /\ result = [g \in Goroutines |-> NoResult]
    /\ monid = <<>>

Return(g, ok, run) ==
    /\ phase' = [phase EXCEPT ![g] = "returned"]
    /\ result' = [result EXCEPT ![g] = [ok |-> ok, run |-> run]]

Ask(g, k) ==
    /\ phase[g] # "asking"
    /\ asks' = [asks EXCEPT ![g] = k]
    /\ bought' = [bought EXCEPT ![g] = 0]
    /\ IF k \in Permitted
       THEN /\ phase' = [phase EXCEPT ![g] = "asking"]
            /\ result' = [result EXCEPT ![g] = NoResult]
       ELSE Return(g, FALSE, NoRun)
    /\ UNCHANGED monid

(* The run may start and go on, fail at once, or start unheard of.         *)
Buy(g) ==
    /\ phase[g] = "asking"
    /\ bought[g] = 0
    /\ Start(asks[g])
    /\ LET id == Len(monid')
       IN  \/ bought' = [bought EXCEPT ![g] = id] /\ UNCHANGED <<phase, result>>
           \/ /\ monid'[id].status \in Failing
              /\ bought' = [bought EXCEPT ![g] = id]
              /\ Return(g, FALSE, Report(id, monid'))
           \/ Return(g, FALSE, NoRun) /\ UNCHANGED bought
    /\ UNCHANGED asks

Succeed(g) ==
    /\ phase[g] = "asking"
    /\ bought[g] # 0
    /\ monid[bought[g]].status = "COMPLETED"
    /\ Return(g, TRUE, Report(bought[g], monid))
    /\ UNCHANGED <<asks, bought, monid>>

(* A failure names no run, the failed run, or one last seen running, whose *)
(* cost may have changed since.                                            *)
GiveUp(g) ==
    /\ phase[g] = "asking"
    /\ \/ Return(g, FALSE, NoRun)
       \/ /\ bought[g] # 0
          /\ \/ monid[bought[g]].status \in Failing /\ Return(g, FALSE, Report(bought[g], monid))
             \/ \E c \in Costs : Return(g, FALSE, [id |-> bought[g], status |-> "RUNNING", cost |-> c])
    /\ UNCHANGED <<asks, bought, monid>>

RunStep(g) == Buy(g) \/ Succeed(g) \/ GiveUp(g)

Environment == (\E id \in 1 .. MaxRuns : Settle(id)) /\ UNCHANGED <<phase, asks, bought, result>>

Next ==
    \/ \E g \in Goroutines : (\E k \in Keys : Ask(g, k)) \/ RunStep(g)
    \/ Environment

Spec == Init /\ [][Next]_runVars

ContractTypeOK ==
    /\ phase \in [Goroutines -> {"idle", "asking", "returned"}]
    /\ asks \in [Goroutines -> Keys]
    /\ bought \in [Goroutines -> 0 .. MaxRuns]
    /\ result \in [Goroutines -> Result]
    /\ MonidTypeOK
=============================================================================
