---------------------------- MODULE MonidClient -----------------------------
(***************************************************************************)
(* monid/client.go, poll.go and the control of artifact.go: the clients of *)
(* the tool calls in progress.  NewClient gives every call a client and a  *)
(* channel of run slots of its own; the goroutines a tool fans out to      *)
(* share them.  Run takes one goroutine through the allowlist, a slot, the *)
(* POST, the polling of an unfinished run, the judgement of its status and *)
(* the download of its artifacts, and gives the slot back on every path    *)
(* out, which is what its defer does.  It implements RunContract.          *)
(***************************************************************************)
EXTENDS Monid, FiniteSets

CONSTANTS
    Calls,           \* tool calls in progress, one client each
    Goroutines,
    CallOf,          \* the call a goroutine works for
    Permitted,       \* the questions whose endpoint is in the allowlist
    MaxConcurrent    \* the capacity of a client's slots

ASSUME SlotsAssumption == MaxConcurrent \in Nat \ {0}
ASSUME CallOfAssumption == CallOf \in [Goroutines -> Calls]

VARIABLES
    cancelled,       \* calls whose context is done: the caller went away
    slots,           \* call -> the goroutines holding one of its run slots
    pc,              \* goroutine -> where it is in Run
    asks,            \* goroutine -> the question it runs
    seen,            \* goroutine -> the run as it last read it, or NoRun
    result           \* goroutine -> what Run returned

clientVars == <<cancelled, slots, pc, asks, seen, result, monid>>

Errors == {"NotAllowed", "Timeout", "Schema", "Unauthorized", "Blocked",
           "RateLimited", "ProviderHTTP"}
Result == [error : Errors \cup {"none"}, run : RunRecord \cup {NoRun}]

InRun == {"acquire", "post", "poll", "hydrate"}
Holding == {"post", "poll", "hydrate"}

NoResult == [error |-> "none", run |-> NoRun]

Init ==
    /\ cancelled = {}
    /\ slots = [c \in Calls |-> {}]
    /\ pc = [g \in Goroutines |-> "idle"]
    /\ asks = [g \in Goroutines |-> CHOOSE k \in Keys : TRUE]
    /\ seen = [g \in Goroutines |-> NoRun]
    /\ result = [g \in Goroutines |-> NoResult]
    /\ monid = <<>>

ContextDone(g) == CallOf[g] \in cancelled

-----------------------------------------------------------------------------
(* Slips: wrong forms of the steps below that the properties must tell     *)
(* from the code.  No action uses them.                                    *)
KeepSlotOnError(g, err, run) ==
    /\ pc' = [pc EXCEPT ![g] = "returned"]
    /\ result' = [result EXCEPT ![g] = [error |-> err, run |-> run]]
    /\ slots' = IF err = "none" THEN [slots EXCEPT ![CallOf[g]] = @ \ {g}] ELSE slots

FailUnlabelled(g, err) ==
    /\ pc' = [pc EXCEPT ![g] = "returned"]
    /\ result' = [result EXCEPT ![g] = [error |-> "", run |-> NoRun]]
    /\ slots' = [slots EXCEPT ![CallOf[g]] = @ \ {g}]
    /\ UNCHANGED <<cancelled, asks, seen, monid>>

AnyEndIsGood(g, run) ==
    /\ seen' = [seen EXCEPT ![g] = run]
    /\ pc' = [pc EXCEPT ![g] = IF run.status = "RUNNING" THEN "poll" ELSE "hydrate"]
    /\ UNCHANGED <<slots, result>>

RetryThePost(g) ==
    /\ pc[g] = "post"
    /\ Start(asks[g])
    /\ UNCHANGED <<cancelled, slots, pc, asks, seen, result>>
-----------------------------------------------------------------------------
(* Run returns: a run or an error, the error with the run it was about     *)
(* where the code attaches one.  The defer gives the slot back.            *)
Leave(g, err, run) ==
    /\ pc' = [pc EXCEPT ![g] = "returned"]
    /\ result' = [result EXCEPT ![g] = [error |-> err, run |-> run]]
    /\ slots' = [slots EXCEPT ![CallOf[g]] = @ \ {g}]

Fail(g, err) ==
    /\ Leave(g, err, NoRun)
    /\ UNCHANGED <<cancelled, asks, seen, monid>>

Enter(g, k) ==
    /\ pc[g] \in {"idle", "returned"}
    /\ asks' = [asks EXCEPT ![g] = k]
    /\ seen' = [seen EXCEPT ![g] = NoRun]
    /\ IF k \in Permitted
       THEN /\ pc' = [pc EXCEPT ![g] = "acquire"]
            /\ result' = [result EXCEPT ![g] = NoResult]
            /\ UNCHANGED slots
       ELSE Leave(g, "NotAllowed", NoRun)
    /\ UNCHANGED <<cancelled, monid>>

Acquire(g) ==
    /\ pc[g] = "acquire"
    /\ Cardinality(slots[CallOf[g]]) < MaxConcurrent
    /\ slots' = [slots EXCEPT ![CallOf[g]] = @ \cup {g}]
    /\ pc' = [pc EXCEPT ![g] = "post"]
    /\ UNCHANGED <<cancelled, asks, seen, result, monid>>

(* A select with both channels ready may take either: a cancelled caller   *)
(* may still get a slot, and then fails at the POST.                       *)
AcquireCancelled(g) ==
    /\ pc[g] = "acquire"
    /\ ContextDone(g)
    /\ Fail(g, "Timeout")

(* What the client does with a run it has just read: keep polling it, fail *)
(* with it attached, or go on to its artifacts.                            *)
Judge(g, run) ==
    /\ seen' = [seen EXCEPT ![g] = run]
    /\ CASE run.status = "RUNNING" ->
              pc' = [pc EXCEPT ![g] = "poll"] /\ UNCHANGED <<slots, result>>
         [] run.status = "COMPLETED" ->
              pc' = [pc EXCEPT ![g] = "hydrate"] /\ UNCHANGED <<slots, result>>
         [] run.status = "BLOCKED" -> Leave(g, "Blocked", run)
         [] OTHER -> Leave(g, "ProviderHTTP", run)

(* Monid accepts the POST, and its answer arrives and parses.              *)
PostAnswered(g) ==
    /\ pc[g] = "post"
    /\ ~ContextDone(g)
    /\ Start(asks[g])
    /\ Judge(g, Report(Len(monid'), monid'))
    /\ UNCHANGED <<cancelled, asks>>

(* Monid accepts the POST and runs it, and the client never learns: the    *)
(* HTTP client's own timeout, a broken connection, the gateway's 504, an   *)
(* answer that does not parse, or the caller leaving meanwhile.            *)
PostLost(g) ==
    /\ pc[g] = "post"
    /\ Start(asks[g])
    /\ \E err \in IF ContextDone(g) THEN {"Schema"}
              ELSE {"Timeout", "Schema", "ProviderHTTP"} :
          Leave(g, err, NoRun)
    /\ UNCHANGED <<cancelled, asks, seen>>

(* Monid never starts a run: 401 and 403, 402, 429, 504, 5xx, or a         *)
(* connection that fails before the POST gets there.                       *)
PostRefused(g) ==
    /\ pc[g] = "post"
    /\ \E err \in IF ContextDone(g) THEN {"Schema"} ELSE Errors \ {"NotAllowed"} :
          Fail(g, err)

(* One turn of awaitRun's loop: the delay passes and the run is read.      *)
Poll(g) ==
    /\ pc[g] = "poll"
    /\ ~ContextDone(g)
    /\ Judge(g, Report(seen[g].id, monid))
    /\ UNCHANGED <<cancelled, asks, monid>>

(* The lookup fails: 401 and 403, another status of 400 or more, or a      *)
(* reply that cannot be had or read.  None of these errors names the run.  *)
PollFails(g) ==
    /\ pc[g] = "poll"
    /\ \E err \in IF ContextDone(g) THEN {"Timeout"}
                  ELSE {"Unauthorized", "ProviderHTTP", "Schema"} :
          Fail(g, err)

(* The caller leaves during the delay: this error does name the run.       *)
PollCancelled(g) ==
    /\ pc[g] = "poll"
    /\ ContextDone(g)
    /\ Leave(g, "Timeout", seen[g])
    /\ UNCHANGED <<cancelled, asks, seen, monid>>

(* The output is inline, or its artifacts are downloaded.                  *)
Hydrate(g) ==
    /\ pc[g] = "hydrate"
    /\ Leave(g, "none", seen[g])
    /\ UNCHANGED <<cancelled, asks, seen, monid>>

(* An artifact too deep, of another type or host, unreadable, or late.     *)
HydrateFails(g) ==
    /\ pc[g] = "hydrate"
    /\ \E err \in {"Schema", "Timeout"} : Fail(g, err)

Cancel(c) ==
    /\ c \notin cancelled
    /\ cancelled' = cancelled \cup {c}
    /\ UNCHANGED <<slots, pc, asks, seen, result, monid>>

Reply(g) == PostAnswered(g) \/ PostLost(g) \/ PostRefused(g)
Lookup(g) == Poll(g) \/ PollFails(g) \/ PollCancelled(g)
Download(g) == Hydrate(g) \/ HydrateFails(g)
RunStep(g) == Acquire(g) \/ AcquireCancelled(g) \/ Reply(g) \/ Lookup(g) \/ Download(g)

MonidSettles(id) == Settle(id) /\ UNCHANGED <<cancelled, slots, pc, asks, seen, result>>

Environment ==
    \/ \E c \in Calls : Cancel(c)
    \/ \E id \in 1 .. MaxRuns : MonidSettles(id)

Next ==
    \/ \E g \in Goroutines : (\E k \in Keys : Enter(g, k)) \/ RunStep(g)
    \/ Environment

Spec == Init /\ [][Next]_clientVars
-----------------------------------------------------------------------------
TypeOK ==
    /\ cancelled \subseteq Calls
    /\ slots \in [Calls -> SUBSET Goroutines]
    /\ pc \in [Goroutines -> InRun \cup {"idle", "returned"}]
    /\ asks \in [Goroutines -> Keys]
    /\ seen \in [Goroutines -> RunRecord \cup {NoRun}]
    /\ result \in [Goroutines -> Result]
    /\ MonidTypeOK

(* A run slot is held by exactly the goroutines between their acquire and  *)
(* their return, whichever of Run's many returns it was, and never by more *)
(* of them than the client's capacity (client.go, slots).                  *)
SlotsAreHeldInRun ==
    \A c \in Calls :
        /\ slots[c] = {g \in Goroutines : CallOf[g] = c /\ pc[g] \in Holding}
        /\ Cardinality(slots[c]) <= MaxConcurrent

(* What Run returns is about its own question, and what it returns without *)
(* an error is a run that Monid has completed, at the cost Monid settled   *)
(* on: never one still running, refused or blocked, however it was polled. *)
ResultsAreTrue ==
    \A g \in Goroutines :
        pc[g] = "returned" /\ result[g].run # NoRun =>
            LET run == result[g].run
            IN  /\ monid[run.id].key = asks[g]
                /\ result[g].error = "none" =>
                      /\ run = Report(run.id, monid)
                      /\ run.status = "COMPLETED"

(* A Run keeps RunContract: it buys at most one run, never for a question  *)
(* that is not permitted, and reports it as Monid did (client.go, Run).    *)
Contract == INSTANCE RunContract WITH
    phase <- [g \in Goroutines |-> IF pc[g] \in InRun THEN "asking" ELSE pc[g]],
    bought <- [g \in Goroutines |-> RunId(seen[g])],
    result <- [g \in Goroutines |-> [ok |-> result[g].error = "none", run |-> result[g].run]]
KeepsContract == Contract!Spec

(* The steps of Run that must happen once they can: each HTTP exchange is  *)
(* bounded by the client's timeout, a blocked send on a channel is served  *)
(* in arrival order, a timer fires, a done context is noticed.  That a     *)
(* lookup fails, or that the caller leaves, is never promised.             *)
CodeFairness ==
    \A g \in Goroutines :
        /\ SF_clientVars(Acquire(g))
        /\ WF_clientVars(Reply(g))
        /\ WF_clientVars(Poll(g))
        /\ WF_clientVars(PollCancelled(g))
        /\ WF_clientVars(Download(g))

MonidFairness == \A id \in 1 .. MaxRuns : WF_clientVars(MonidSettles(id))

FairSpec == Spec /\ CodeFairness
SettlingSpec == FairSpec /\ MonidFairness

(* Every Run returns.                                                      *)
EveryRunReturns == \A g \in Goroutines : pc[g] = "acquire" ~> pc[g] = "returned"
=============================================================================
