----------------------------- MODULE RunService -----------------------------
(***************************************************************************)
(* service/service.go, trace.go and fd/receipts.go: callCtx.run, the one   *)
(* place where a tool asks Monid anything.  It composes the run cache, the *)
(* call's client (by its RunContract), the call's trace and the ledger     *)
(* file, for several calls at once, each with one or more goroutines.      *)
(*                                                                         *)
(* The cache and the ledger belong to the process and each has a mutex     *)
(* that is held for one method only, so between a lookup that misses and   *)
(* the store of the run it led to every other goroutine may take any step. *)
(***************************************************************************)
EXTENDS Integers, FiniteSets, Sequences, SequencesExt

CONSTANTS
    Calls, Goroutines, CallOf, Keys, Permitted, Costs, NoRun,
    MaxEntries, TTL,
    MaxRuns,         \* bound: runs Monid ever starts
    MaxNow,          \* bound: the cache's clock
    MaxAttempts,     \* bound: questions one goroutine asks
    MaxRestarts      \* bound: restarts of the process

VARIABLES
    phase, asks, bought, result, monid,                     \* RunContract
    entries, order, hits, misses, answer, recency, now,     \* RunCache
    stage,           \* goroutine -> where it is in callCtx.run
    attempts,        \* goroutine -> how often it has entered callCtx.run
    trace,           \* call -> the steps its recorder holds, oldest first
    answered,        \* calls that have returned
    restarts,        \* how often the process has begun again
    file,            \* the rows of the ledger file, oldest first
    spent,           \* ReceiptsLedger.spentUSD
    boot,            \* history: the length of the file when the process began
    unwritten        \* history: the rows whose write failed since then

Client == INSTANCE RunContract
Cache == INSTANCE RunCache WITH Runs <- Client!RunRecord, MaxReads <- 0

ASSUME CallsAssumption == CallOf \in [Goroutines -> Calls]
ASSUME MonidAssumption ==
    Costs \subseteq Nat /\ Keys # {} /\ MaxRuns \in Nat /\ NoRun \notin Client!RunRecord
ASSUME CacheAssumption == MaxEntries \in Nat \ {0} /\ TTL \in [Keys -> Int]
ASSUME BoundsAssumption == MaxAttempts \in Nat /\ MaxRestarts \in Nat

clientVars == <<phase, asks, bought, result, monid>>
cacheVars == <<entries, order, hits, misses, answer, recency>>
ledgerVars == <<file, spent, boot, unwritten>>
serviceVars == <<stage, attempts, trace, answered, restarts>>
vars == <<clientVars, cacheVars, now, serviceVars, ledgerVars>>

Stages == {"free", "running", "record", "store"}

NoCost == 0 - 1
Step == [run : 0 .. MaxRuns, cost : Costs \cup {NoCost}, cached : BOOLEAN]
Row == [call : Calls, run : 0 .. MaxRuns, cost : Costs \cup {NoCost}, failed : BOOLEAN]

Init ==
    /\ Client!Init
    /\ Cache!Init
    /\ stage = [g \in Goroutines |-> "free"]
    /\ attempts = [g \in Goroutines |-> 0]
    /\ trace = [c \in Calls |-> <<>>]
    /\ answered = {} /\ restarts = 0
    /\ file = <<>> /\ spent = 0 /\ boot = 0 /\ unwritten = <<>>

-----------------------------------------------------------------------------
(* Slips, here and before the definitions they are slips of: wrong forms   *)
(* that the properties must tell from the code.  No action uses them.      *)
NilCostAsNumber(cost) == cost
-----------------------------------------------------------------------------
Price(cost) == IF cost = NoCost THEN 0 ELSE cost

(* The sum of numbers, and of what each element of a sequence counts for.  *)
Total(w) ==
    LET upTo[i \in 0 .. Len(w)] == IF i = 0 THEN 0 ELSE upTo[i - 1] + w[i]
    IN  upTo[Len(w)]
SumOf(s, weight) == Total([i \in DOMAIN s |-> weight[s[i]]])

(* TotalCostUSD of a trace, and what rows of the ledger cost.              *)
TotalCost(steps) == SumOf(steps, [step \in Step |-> Price(step.cost)])
RowsCost(rows) == SumOf(rows, [row \in Row |-> Price(row.cost)])

Failed(g) == ~result[g].ok
CostOf(run) == IF run = NoRun THEN NoCost ELSE run.cost

(* traceRecorder.add.                                                      *)
AddStep(g, run, cost, cached) ==
    trace' = [trace EXCEPT ![CallOf[g]] =
                  Append(@, [run |-> run, cost |-> cost, cached |-> cached])]

(* Slips of Receipt and AppendRow.                                         *)
AnonymousReceipt(g) ==
    [call |-> CallOf[g], run |-> 0, cost |-> CostOf(result[g].run), failed |-> Failed(g)]

SpendBeforeWrite(row) ==
    /\ spent' = spent + Price(row.cost)
    /\ \/ file' = Append(file, row) /\ UNCHANGED unwritten
       \/ unwritten' = Append(unwritten, row) /\ UNCHANGED file

(* The run and the cost of a receipt are those of the run the result       *)
(* carries, which a failure may or may not.                                *)
Receipt(g) ==
    [call |-> CallOf[g], run |-> Client!RunId(result[g].run),
     cost |-> CostOf(result[g].run), failed |-> Failed(g)]

(* ReceiptsLedger.append: the row and the sum, or neither; its error is    *)
(* dropped by run.                                                         *)
AppendRow(row) ==
    \/ /\ file' = Append(file, row)
       /\ spent' = spent + Price(row.cost)
       /\ UNCHANGED unwritten
    \/ /\ unwritten' = Append(unwritten, row)
       /\ UNCHANGED <<file, spent>>
-----------------------------------------------------------------------------
Begin(g, k) ==
    /\ stage[g] = "free"
    /\ CallOf[g] \notin answered
    /\ attempts[g] < MaxAttempts
    /\ attempts' = [attempts EXCEPT ![g] = @ + 1]
    /\ Cache!Get(k)

(* A slip of Hit.                                                         *)
HitCosts(g, k) ==
    /\ Begin(g, k)
    /\ Cache!Live(k)
    /\ AddStep(g, entries[k].run.id, entries[k].run.cost, TRUE)
    /\ UNCHANGED <<clientVars, now, stage, answered, restarts, ledgerVars>>

(* A hit is the answer: a step of the trace that cost nothing, no run and  *)
(* no row.                                                                 *)
Hit(g, k) ==
    /\ Begin(g, k)
    /\ Cache!Live(k)
    /\ AddStep(g, entries[k].run.id, NoCost, TRUE)
    /\ UNCHANGED <<clientVars, now, stage, answered, restarts, ledgerVars>>

NextStage(g) == IF phase'[g] = "returned" THEN "record" ELSE "running"

Miss(g, k) ==
    /\ Begin(g, k)
    /\ ~Cache!Live(k)
    /\ Client!Ask(g, k)
    /\ stage' = [stage EXCEPT ![g] = NextStage(g)]
    /\ UNCHANGED <<now, trace, answered, restarts, ledgerVars>>

Run(g) ==
    /\ stage[g] = "running"
    /\ Client!RunStep(g)
    /\ stage' = [stage EXCEPT ![g] = NextStage(g)]
    /\ UNCHANGED <<cacheVars, now, attempts, trace, answered, restarts, ledgerVars>>

(* A slip of AfterRecord.                                                  *)
FailuresAreCached(g) == IF result[g].run = NoRun THEN "free" ELSE "store"

(* A failed run is not stored.                                             *)
AfterRecord(g) == IF Failed(g) THEN "free" ELSE "store"

(* The trace gets its step, without a cost if the run failed, and the      *)
(* ledger its row.  Nobody reads the trace before the call returns, so     *)
(* that no step of another goroutine comes between the two is no loss.     *)
Record(g) ==
    /\ stage[g] = "record"
    /\ LET row == Receipt(g)
       IN  /\ IF Failed(g) THEN AddStep(g, 0, NoCost, FALSE)
              ELSE AddStep(g, row.run, row.cost, FALSE)
           /\ AppendRow(row)
    /\ stage' = [stage EXCEPT ![g] = AfterRecord(g)]
    /\ UNCHANGED <<clientVars, cacheVars, now, attempts, answered, restarts, boot>>

Store(g) ==
    /\ stage[g] = "store"
    /\ Cache!Put(asks[g], result[g].run)
    /\ stage' = [stage EXCEPT ![g] = "free"]
    /\ UNCHANGED <<clientVars, now, attempts, trace, answered, restarts, ledgerVars>>

(* The tool has what it asked for: Call takes the trace's snapshot.        *)
Answer(c) ==
    /\ c \notin answered
    /\ \A g \in Goroutines : CallOf[g] = c => stage[g] = "free"
    /\ answered' = answered \cup {c}
    /\ UNCHANGED <<clientVars, cacheVars, now, stage, attempts, trace, restarts, ledgerVars>>

(* The process ends, by a crash or because a shutdown's 20 seconds ran out *)
(* before a run did, and begins again.  The ledger's file and Monid's runs *)
(* are what remains.                                                       *)
Restart ==
    /\ restarts < MaxRestarts
    /\ restarts' = restarts + 1
    /\ phase' = [g \in Goroutines |-> "idle"]
    /\ bought' = [g \in Goroutines |-> 0]
    /\ result' = [g \in Goroutines |-> Client!NoResult]
    /\ entries' = [k \in {} |-> NoRun] /\ order' = <<>> /\ recency' = <<>>
    /\ hits' = 0 /\ misses' = 0 /\ answer' = NoRun
    /\ stage' = [g \in Goroutines |-> "free"]
    /\ trace' = [c \in Calls |-> <<>>]
    /\ answered' = {}
    /\ spent' = 0 /\ boot' = Len(file) /\ unwritten' = <<>>
    /\ UNCHANGED <<asks, monid, now, attempts, file>>

Environment ==
    /\ Client!Environment
    /\ UNCHANGED <<cacheVars, now, stage, attempts, trace, answered, restarts, ledgerVars>>

Tick ==
    /\ Cache!Tick
    /\ UNCHANGED <<clientVars, stage, attempts, trace, answered, restarts, ledgerVars>>

Ask(g) == \E k \in Keys : Hit(g, k) \/ Miss(g, k)

Next ==
    \/ \E g \in Goroutines : Ask(g) \/ Run(g) \/ Record(g) \/ Store(g)
    \/ \E c \in Calls : Answer(c)
    \/ Environment
    \/ Tick
    \/ Restart

Spec == Init /\ [][Next]_vars
-----------------------------------------------------------------------------
TypeOK ==
    /\ Client!ContractTypeOK
    /\ Cache!TypeOK
    /\ stage \in [Goroutines -> Stages]
    /\ attempts \in [Goroutines -> 0 .. MaxAttempts]
    /\ trace \in [Calls -> Seq(Step)]
    /\ answered \subseteq Calls
    /\ file \in Seq(Row) /\ unwritten \in Seq(Row)
    /\ spent \in Nat /\ boot \in 0 .. Len(file) /\ restarts \in 0 .. MaxRestarts

WrittenSinceBoot == SubSeq(file, boot + 1, Len(file))

(* spentUSD is the measured cost of the rows this process has written: a   *)
(* failed write adds to neither, and a failed run's cost counts when its   *)
(* row carries one (receipts.go, append).                                  *)
SpentIsWhatWasWritten == spent = RowsCost(WrittenSinceBoot)

Receipted == WrittenSinceBoot \o unwritten

(* Every run the cache can answer with was receipted before it got there,  *)
(* unless the write of its receipt failed: a hit, which writes no row,     *)
(* always leads back to the row of the call that paid for it.              *)
CachedRunsAreReceipted ==
    \A k \in DOMAIN entries :
        \E row \in Range(Receipted) : row.run = entries[k].run.id /\ ~row.failed

(* What the cache can answer a question with is a run of that question     *)
(* that Monid completed, at the cost Monid settled on.                     *)
CachedRunsAreTrue ==
    \A k \in DOMAIN entries :
        LET run == entries[k].run
        IN  /\ monid[run.id].key = k
            /\ run = Client!Report(run.id, monid)
            /\ run.status = "COMPLETED"

(* What a row counts for call c: one row, and its cost if it was bought;   *)
(* and a step, one question to Monid if it was no hit.                     *)
RowOf(c) == [row \in Row |-> IF row.call = c THEN 1 ELSE 0]
BoughtBy(c) == [row \in Row |-> IF row.call = c /\ ~row.failed THEN Price(row.cost) ELSE 0]
Uncached == [step \in Step |-> IF step.cached THEN 0 ELSE 1]

Receipts(weight) == SumOf(WrittenSinceBoot, weight) + SumOf(unwritten, weight)

(* A call's trace and the ledger tell one story: a row for every step that *)
(* is not a hit, the same runs, and a total that is the cost of the runs   *)
(* the call bought, for which hits and failures add nothing (service.go,   *)
(* run; trace.go, TotalCostUSD).                                           *)
TraceMatchesLedger ==
    \A c \in Calls :
        LET ran == {step \in Range(trace[c]) : ~step.cached}
            paid == {row \in Range(Receipted) : row.call = c /\ ~row.failed}
        IN  /\ SumOf(trace[c], Uncached) = Receipts(RowOf(c))
            /\ {step.run : step \in ran} \ {0} = {row.run : row \in paid}
            /\ TotalCost(trace[c]) = Receipts(BoughtBy(c))
=============================================================================
