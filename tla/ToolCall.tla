------------------------------ MODULE ToolCall ------------------------------
(***************************************************************************)
(* One call of a tool: service/service.go (Service.Call, capability and    *)
(* callCtx.run as a handler sees it) around any handler at all.            *)
(*                                                                         *)
(* A handler is a plan.  Given what its runs have come back with so far it *)
(* either needs more of them, all of which may be under way at once        *)
(* (concurrent2 and the sync.WaitGroup fan-outs), or gives its answer.     *)
(* RunService models what a single run does to the cache, the ledger and   *)
(* the trace; here a run is one step, and what matters is which runs a     *)
(* handler makes, in which order, and what it answers when one of them     *)
(* fails or brings a payload nobody can read.                              *)
(***************************************************************************)
EXTENDS Plans

CONSTANTS
    Tools,
    Args(_),         \* Args(tool): the arguments the tool is called with
    Plan(_, _, _),   \* Plan(tool, args, got): Ask(uses) or Answer(kind, uses)
    World(_),        \* World(key): the outcomes a run for the key may have
    MaxLapses,       \* how many cached runs expire
    NoTool

ASSUME LapsesAssumption == MaxLapses \in Nat

VARIABLES
    tool, args,      \* the call being served
    got,             \* use -> outcome: what the handler has in hand
    bought,          \* the uses a run was made for in this call
    kept,            \* key -> outcome: the run cache
    lapses,
    reply,           \* the answer, or Pending
    first            \* how the same call ended when it was made the first time

vars == <<tool, args, got, bought, kept, lapses, reply, first>>

With(f, x, y) == [z \in DOMAIN f \cup {x} |-> IF z = x THEN y ELSE f[z]]
NoCall == [reply |-> Pending, got |-> <<>>]

-----------------------------------------------------------------------------
Init ==
    /\ tool = NoTool /\ args = <<>> /\ got = <<>> /\ bought = {}
    /\ kept = <<>> /\ lapses = 0
    /\ reply = Pending /\ first = NoCall

Call(t, a) ==
    /\ tool = NoTool
    /\ tool' = t /\ args' = a
    /\ UNCHANGED <<got, bought, kept, lapses, reply, first>>

Serving == tool # NoTool /\ reply = Pending
Step == Plan(tool, args, got)
Asked == LET step == Step
         IN IF Serving /\ step.kind = "asks" THEN step.of \ DOMAIN got ELSE {}

(* A cached run answers for nothing, whatever its payload is worth.        *)
Hit(use) ==
    /\ Key(use) \in DOMAIN kept
    /\ got' = With(got, use, kept[Key(use)])
    /\ UNCHANGED <<tool, args, bought, kept, lapses, reply, first>>

(* Otherwise a run is made.  It is cached before anyone looks at its       *)
(* payload; one that fails is not.                                         *)
Make(use, outcome, stored) ==
    /\ Key(use) \notin DOMAIN kept
    /\ got' = With(got, use, outcome)
    /\ bought' = bought \cup {use}
    /\ kept' = IF stored THEN With(kept, Key(use), outcome) ELSE kept
    /\ UNCHANGED <<tool, args, lapses, reply, first>>

BuyAndKeep(use) == \E outcome \in World(Key(use)) : Make(use, outcome, TRUE)
BuyOnceParsed(use) == \E outcome \in World(Key(use)) :
    Make(use, outcome, outcome.read = "ok")
Buy(use) == \E outcome \in World(Key(use)) :
    Make(use, outcome, outcome.read # "failed")

Run == \E use \in Asked : Hit(use) \/ Buy(use)

Reply ==
    /\ Serving
    /\ reply' = Step /\ reply'.kind # "asks"
    /\ UNCHANGED <<tool, args, got, bought, kept, lapses, first>>

(* The caller asks for the same thing once more.                           *)
Again ==
    /\ reply # Pending /\ first = NoCall
    /\ first' = [reply |-> reply, got |-> got]
    /\ got' = <<>> /\ bought' = {} /\ reply' = Pending
    /\ UNCHANGED <<tool, args, kept, lapses>>

Expire(key) ==
    /\ key \in DOMAIN kept /\ lapses < MaxLapses
    /\ kept' = [k \in DOMAIN kept \ {key} |-> kept[k]]
    /\ lapses' = lapses + 1
    /\ UNCHANGED <<tool, args, got, bought, reply, first>>

Work == Reply \/ Run

Next ==
    \/ \E t \in Tools : \E a \in Args(t) : Call(t, a)
    \/ Work
    \/ Again
    \/ \E key \in DOMAIN kept : Expire(key)

(* A handler runs until it has answered: a run is bounded by the client's  *)
(* deadlines (MonidClient), and nothing else makes a handler wait.         *)
Spec == Init /\ [][Next]_vars /\ WF_vars(Work)

-----------------------------------------------------------------------------
(* What a handler holds is what a run for that very key came back with,    *)
(* the cache holds nothing that failed, and no run was made that the       *)
(* handler has not received.                                               *)
TypeOK ==
    /\ \A use \in DOMAIN got : got[use] \in World(Key(use))
    /\ \A key \in DOMAIN kept : kept[key] \in World(key) /\ kept[key].read # "failed"
    /\ bought \subseteq DOMAIN got
    /\ lapses \in 0 .. MaxLapses

(* A handler that comes back to a run for another purpose (the issuer's    *)
(* CIK and the rows of the same filings) does not pay for it again, unless *)
(* the first attempt failed or the run has expired meanwhile.              *)
OneRunPerKey == lapses = 0 =>
    \A u, v \in bought : u[1] = v[1] /\ u[2] = v[2] =>
        u = v \/ got[u].read = "failed" \/ got[v].read = "failed"

(* Asked again within the time to live a call runs nothing and answers the *)
(* same, also when the answer was that the provider's payload cannot be    *)
(* read; only what failed is tried once more.                              *)
RepeatsAreFree ==
    first # NoCall /\ lapses = 0 /\ (\A u \in DOMAIN first.got : first.got[u].read # "failed")
        => bought = {} /\ reply \in {Pending, first.reply}

(* Every call is answered, whatever its runs come back with.               *)
EveryCallReplies == Serving ~> reply # Pending
=============================================================================
