---------------------------- MODULE TieredCache ----------------------------
(***************************************************************************)
(* httpapi/cache.go and httpapi/cacheshared.go: the answers of several     *)
(* machines to GET requests, cached by each machine in its own memory and  *)
(* by all of them in one shared backend (Upstash or Redis) that may be     *)
(* unreachable at any moment.                                              *)
(*                                                                         *)
(* A request is one goroutine of one machine.  Its steps are separated     *)
(* where withCache and tieredStore let another goroutine in: between       *)
(* reading the clock and locking the local cache, around each round trip   *)
(* to the backend, around the handler, and between the local and the       *)
(* shared store.                                                           *)
(***************************************************************************)
EXTENDS FifoCache

CONSTANTS
    Machines,
    Questions,    \* path and query parameters
    Callers,      \* API keys
    Everyone,     \* the empty identity, under which callers share entries
    PerCaller,    \* withCache's perCaller
    Requests,
    Second,       \* ticks in a second, to which expiries are truncated
    TTL,          \* ttlForPath of the questions
    SettledTTL,   \* ttlSettled
    ClosesAt,     \* when the period a question names has closed
    Nothing,
    MaxNow,       \* bound: the clock stops here
    MaxRestarts   \* bound: deploys of a machine

ASSUME PerCallerAssumption == PerCaller \in BOOLEAN
ASSUME TimesAssumption ==
    /\ Second \in Nat \ {0}
    /\ TTL \in Nat \ {0} /\ SettledTTL \in Nat \ {0}
    /\ ClosesAt \in [Questions -> Nat]
ASSUME EveryoneAssumption == Everyone \notin Callers

VARIABLES
    now,
    local,        \* each machine's responseCache
    shared,       \* the backend: cache key -> [entry, until]
    figures,      \* how often a filing changed the answer to each question
    req,          \* the requests
    restarts

vars == <<now, local, shared, figures, req, restarts>>

CacheKeys == (Callers \cup {Everyone}) \X Questions

(* A response, the cache entry made of it, and its history: limit is when  *)
(* the entry's time to live ends, counted from the store that made it.     *)
Answer == [ok : BOOLEAN, figures : Nat, by : Callers, traced : BOOLEAN]
Entry  == [answer : Answer, settled : BOOLEAN, expiresAt : Nat, limit : Nat]

Steps == {"local", "shared", "fill", "handler", "store", "send", "set", "hit"}
Ended(pc) == [pc |-> pc]
Idle == {Ended("new"), Ended("done"), Ended("lost")}

WithoutIdentity(identity, q) == q
cacheKey(identity, q) == <<identity, q>>
KeyOf(r) == cacheKey(IF PerCaller THEN req[r].caller ELSE Everyone, req[r].question)

(* namesSettledPeriod: every period the request may ask about has closed.  *)
namesSettledPeriod(q, t) == ClosesAt[q] < t
ttlForRequest(q, t) == IF namesSettledPeriod(q, t) THEN SettledTTL ELSE TTL

(* encodeEntry keeps whole Unix seconds; secondsUntil is the backend's own *)
(* expiry, which it counts from when it stores the entry.                  *)
encodeEntry(e) == [e EXCEPT !.expiresAt = (@ \div Second) * Second]
secondsUntil(expiresAt, t) == IF expiresAt < t THEN 0 ELSE (expiresAt - t) \div Second

Held(k) == k \in DOMAIN shared /\ now < shared[k].until

Init ==
    /\ now = 0
    /\ local = [m \in Machines |-> newResponseCache]
    /\ shared = [k \in {} |-> Nothing]
    /\ figures = [q \in Questions |-> 0]
    /\ req = [r \in Requests |-> Ended("new")]
    /\ restarts = 0

(* r goes on to step pc with the entry it now has in hand.                 *)
Goes(r, pc) == req' = [req EXCEPT ![r].pc = pc]
GoesWith(r, pc, e) == req' = [req EXCEPT ![r].pc = pc, ![r].entry = e]
Done(r) == req' = [req EXCEPT ![r] = Ended("done")]
Lookup(r) == Hit(local[req[r].machine], KeyOf(r), req[r].at)
LocalEntry(r) == local[req[r].machine].entries[KeyOf(r)]
LocalPut(r, e) ==
    local' = [local EXCEPT ![req[r].machine] = AfterPut(@, KeyOf(r), e)]

-----------------------------------------------------------------------------
(* Slips: wrong forms of the definitions below that the properties must    *)
(* tell from the code.  No action uses them.                               *)
LookUpEveryRequest(r, m, c, q, traced) ==
    /\ req[r].pc = "new"
    /\ req' = [req EXCEPT ![r] =
                  [pc |-> "local", machine |-> m, caller |-> c, question |-> q,
                   traced |-> traced, at |-> now, ex |-> 0, entry |-> Nothing]]
    /\ UNCHANGED <<now, local, shared, figures, restarts>>

HeldIsEnough(r) == Held(KeyOf(r))

AwaitTheBackend(r) ==
    /\ req[r].pc = "shared"
    /\ Held(KeyOf(r))
    /\ GoesWith(r, "fill", shared[KeyOf(r)].entry)
    /\ UNCHANGED <<now, local, shared, figures, restarts>>
-----------------------------------------------------------------------------
(* withCache: a request for provenance goes straight to the handler, any   *)
(* other reads the clock and looks its key up.                             *)
Arrive(r, m, c, q, traced) ==
    /\ req[r].pc = "new"
    /\ req' = [req EXCEPT ![r] =
                  [pc |-> IF traced THEN "handler" ELSE "local", machine |-> m,
                   caller |-> c, question |-> q, traced |-> traced, at |-> now,
                   ex |-> 0, entry |-> Nothing]]
    /\ UNCHANGED <<now, local, shared, figures, restarts>>

(* The local half of tieredStore.get.                                      *)
GetLocal(r) ==
    /\ req[r].pc = "local"
    /\ local' = [local EXCEPT ![req[r].machine] = AfterGet(@, KeyOf(r), req[r].at)]
    /\ IF Lookup(r) THEN GoesWith(r, "hit", LocalEntry(r)) ELSE Goes(r, "shared")
    /\ UNCHANGED <<now, shared, figures, restarts>>

(* The shared half: the backend's reply, judged by the clock withCache     *)
(* read before the round trip.  No reply within the timeout, an entry past *)
(* its expiry and no entry at all are all a miss.                          *)
SharedHit(r) == Held(KeyOf(r)) /\ ~Expired(shared[KeyOf(r)].entry, req[r].at)

GetShared(r) ==
    /\ req[r].pc = "shared"
    /\ \/ SharedHit(r) /\ GoesWith(r, "fill", shared[KeyOf(r)].entry)
       \/ req' = [req EXCEPT ![r].pc = "handler", ![r].at = 0]
    /\ UNCHANGED <<now, local, shared, figures, restarts>>

(* What the backend answered is written back into memory as it came.       *)
Fill(r) ==
    /\ req[r].pc = "fill"
    /\ LocalPut(r, req[r].entry)
    /\ Goes(r, "hit")
    /\ UNCHANGED <<now, shared, figures, restarts>>

ServeHit(r) ==
    /\ req[r].pc = "hit"
    /\ Done(r)
    /\ UNCHANGED <<now, local, shared, figures, restarts>>

(* The handler answers from what is on file when it asks, or fails.  The   *)
(* response is already with the caller when it is stored.                  *)
Handler(r, ok) ==
    /\ req[r].pc = "handler"
    /\ LET answer == [ok |-> ok, figures |-> figures[req[r].question],
                      by |-> req[r].caller, traced |-> req[r].traced]
           entry == [answer |-> answer, settled |-> FALSE, expiresAt |-> 0, limit |-> 0]
       IN  IF ok /\ ~req[r].traced
           THEN GoesWith(r, "store", entry)
           ELSE Done(r)
    /\ UNCHANGED <<now, local, shared, figures, restarts>>

(* tieredStore.put, local half: the expiry counts from here.               *)
Stamped(r) ==
    LET q == req[r].question
    IN  [req[r].entry EXCEPT !.settled = namesSettledPeriod(q, now),
                             !.expiresAt = now + ttlForRequest(q, now),
                             !.limit = now + ttlForRequest(q, now)]

PutLocal(r) ==
    /\ req[r].pc = "store"
    /\ LocalPut(r, Stamped(r))
    /\ GoesWith(r, "send", Stamped(r))
    /\ UNCHANGED <<now, shared, figures, restarts>>

(* The shared half: nothing under a second is worth storing ...            *)
Send(r) ==
    /\ req[r].pc = "send"
    /\ LET seconds == secondsUntil(req[r].entry.expiresAt, now)
       IN  IF seconds < 1
           THEN Done(r)
           ELSE req' = [req EXCEPT ![r].pc = "set", ![r].ex = seconds]
    /\ UNCHANGED <<now, local, shared, figures, restarts>>

(* ... and what is sent counts its own expiry from when it arrives, if it  *)
(* arrives.                                                                *)
SharedSet(r) ==
    /\ req[r].pc = "set"
    /\ \/ shared' = Stored(shared, KeyOf(r),
                           [entry |-> encodeEntry(req[r].entry),
                            until |-> now + req[r].ex * Second])
       \/ UNCHANGED shared
    /\ Done(r)
    /\ UNCHANGED <<now, local, figures, restarts>>

(* A deploy: the machine's memory and the requests it was serving are gone.*)
Restart(m) ==
    /\ restarts < MaxRestarts
    /\ restarts' = restarts + 1
    /\ local' = [local EXCEPT ![m] = newResponseCache]
    /\ req' = [r \in Requests |->
                  IF req[r].pc \in Steps /\ req[r].machine = m
                  THEN Ended("lost") ELSE req[r]]
    /\ UNCHANGED <<now, shared, figures>>

(* The world outside: a company files the figures of a period some time    *)
(* after the period has closed.                                            *)
File(q) ==
    /\ ClosesAt[q] < now
    /\ figures[q] = 0
    /\ figures' = [figures EXCEPT ![q] = 1]
    /\ UNCHANGED <<now, local, shared, req, restarts>>

Tick ==
    /\ now < MaxNow
    /\ now' = now + 1
    /\ UNCHANGED <<local, shared, figures, req, restarts>>

Serve(r) ==
    \/ GetLocal(r) \/ GetShared(r) \/ Fill(r) \/ ServeHit(r)
    \/ \E ok \in BOOLEAN : Handler(r, ok)
    \/ PutLocal(r) \/ Send(r) \/ SharedSet(r)

Next ==
    \/ \E r \in Requests, m \in Machines, c \in Callers, q \in Questions :
          \E traced \in BOOLEAN : Arrive(r, m, c, q, traced)
    \/ \E r \in Requests : Serve(r)
    \/ \E m \in Machines : Restart(m)
    \/ \E q \in Questions : File(q)
    \/ Tick

Spec == Init /\ [][Next]_vars

(* A goroutine runs; both backend clients bound their round trips by       *)
(* sharedCacheTimeout; the handler is taken to return.                     *)
FairSpec == Spec /\ \A r \in Requests : WF_vars(Serve(r))
-----------------------------------------------------------------------------
Request ==
    [pc : Steps, machine : Machines, caller : Callers, question : Questions,
     traced : BOOLEAN, at : Nat, ex : Nat, entry : Entry \cup {Nothing}]

TypeOK ==
    /\ \A m \in Machines :
          /\ DOMAIN local[m].entries \subseteq CacheKeys
          /\ \A k \in DOMAIN local[m].entries : local[m].entries[k] \in Entry
          /\ local[m].order \in Seq(CacheKeys)
    /\ DOMAIN shared \subseteq CacheKeys
    /\ \A k \in DOMAIN shared : shared[k] \in [entry : Entry, until : Nat]
    /\ now \in Nat /\ restarts \in Nat
    /\ figures \in [Questions -> Nat]
    /\ \A r \in Requests : req[r] \in Request \cup Idle

(* However often an entry is copied between the machines' memories and the *)
(* backend, and whatever those copies overwrite, no caller is served one   *)
(* after the time to live counted from the store that first made it has    *)
(* ended (cache.go, ttlForRequest; cacheshared.go, tieredStore.get).       *)
HitsAreFresh ==
    \A r \in Requests : req[r].pc = "hit" => req[r].at <= req[r].entry.limit

(* A machine's map and list hold the same keys, each once, and no more     *)
(* than the cache may: an element an expiry or an overwrite left in the    *)
(* list would later evict a key that is live again (cache.go,              *)
(* removeLocked).                                                          *)
LocalsAreConsistent ==
    \A m \in Machines :
        /\ IsInjective(local[m].order)
        /\ Range(local[m].order) = DOMAIN local[m].entries
        /\ Len(local[m].order) <= MaxEntries

(* A response is served again only if it was a success, only if it carries *)
(* nobody's provenance, and only to the caller that paid for it where      *)
(* callers do not share (cacheKey: "Nothing caller-specific can be served  *)
(* to the wrong person"; withCache: perCaller).                            *)
HitsMayBeShared ==
    \A r \in Requests : req[r].pc = "hit" =>
        LET answer == req[r].entry.answer
        IN  /\ answer.ok
            /\ ~answer.traced /\ ~req[r].traced
            /\ PerCaller => answer.by = req[r].caller

(* A cache that cannot be reached costs a slower response and never none   *)
(* (cache.go, cacheStore): a request that looks the cache up is served,    *)
(* unless its machine restarts, even if the backend never answers again.   *)
LookupsAreServed ==
    \A r \in Requests :
        req[r].pc \in {"local", "shared", "fill"} ~> req[r].pc \in {"done", "lost"}
=============================================================================
