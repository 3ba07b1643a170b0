------------------------------- MODULE Monid --------------------------------
(***************************************************************************)
(* The external service, as monid/client.go, poll.go and parse.go use it:  *)
(* it starts a run for a POST it accepts and settles it later or never,    *)
(* and it reports the run's status and its cost so far to whoever asks.    *)
(* A run COMPLETED whose provider answered with an HTTP status of 400 or   *)
(* more is REFUSED here.                                                   *)
(***************************************************************************)
EXTENDS Naturals, Sequences

CONSTANTS
    Keys,            \* questions: provider, endpoint and input
    Costs,           \* measured costs, in some unit of money
    MaxRuns,         \* bound: runs Monid ever starts
    NoRun

ASSUME CostsAssumption == Costs \subseteq Nat
ASSUME RunsAssumption == Keys # {} /\ MaxRuns \in Nat

VARIABLE monid       \* Monid's runs, by run id: [key, status, cost]

Failing == {"REFUSED", "FAILED", "BLOCKED"}
Settled == Failing \cup {"COMPLETED"}
Status == Settled \cup {"RUNNING"}
RunRecord == [id : 1 .. MaxRuns, status : Status, cost : Costs]

ASSUME NoRunAssumption == NoRun \notin RunRecord

(* A run as Monid reports it.                                              *)
Report(id, runs) == [id |-> id, status |-> runs[id].status, cost |-> runs[id].cost]

RunId(run) == IF run = NoRun THEN 0 ELSE run.id

Start(k) ==
    /\ Len(monid) < MaxRuns
    /\ \E s \in Status, c \in Costs :
          monid' = Append(monid, [key |-> k, status |-> s, cost |-> c])

(* Monid finishes a run, at a cost it may not have reported yet.           *)
Settle(id) ==
    /\ id \in DOMAIN monid
    /\ monid[id].status = "RUNNING"
    /\ \E s \in Settled, c \in Costs :
          monid' = [monid EXCEPT ![id].status = s, ![id].cost = c]

MonidTypeOK ==
    /\ monid \in Seq([key : Keys, status : Status, cost : Costs])
    /\ Len(monid) <= MaxRuns
=============================================================================
