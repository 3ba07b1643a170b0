----------------------------- MODULE RateLimiter ----------------------------
(***************************************************************************)
(* httpapi/ratelimit.go: the token buckets, under requests that arrive at  *)
(* any time.  A request looks its bucket up under the limiter's mutex,     *)
(* reads the clock, and only then waits for the bucket's mutex: requests   *)
(* may be admitted in another order than that of their readings, and then  *)
(* the bucket's clock goes back and its refill is negative.                *)
(*                                                                         *)
(* A token is Minute units, and one tick refills RateOf[k] units, so that  *)
(* a full bucket of RateOf[k] tokens takes a minute to fill.  A bucket is  *)
(* always asked for at one rate.                                           *)
(***************************************************************************)
EXTENDS Integers, Functions, FiniteSetsExt

CONSTANTS
    Requests,        \* requests in progress
    Keys,            \* rate-limit identities
    RateOf,          \* key -> requests per minute
    Minute,          \* ticks in a minute
    MaxNow           \* bound: the clock

ASSUME RateAssumption == Keys # {} /\ RateOf \in [Keys -> Nat \ {0}]
ASSUME MinuteAssumption == Minute \in Nat \ {0}
ASSUME ClockAssumption == MaxNow \in Nat

VARIABLES
    now,
    buckets,         \* key -> [tokens, last], for the keys seen so far
    pc,              \* request -> where it is in allow
    key,             \* request -> the bucket it was given
    stamp,           \* request -> the clock as it read it
    allowed,         \* request -> the answer to its latest call
    latest,          \* history: key -> the latest reading its bucket has seen
    opened,          \* history: key -> latest when its window was opened
    granted          \* history: key -> tokens taken since then

vars == <<now, buckets, pc, key, stamp, allowed, latest, opened, granted>>
historyVars == <<latest, opened, granted>>

Bucket == [tokens : Int, last : 0 .. MaxNow]
Capacity(k) == RateOf[k] * Minute
Known == DOMAIN buckets

Init ==
    /\ now = 0
    /\ buckets = [k \in {} |-> [tokens |-> 0, last |-> 0]]
    /\ pc = [r \in Requests |-> "idle"]
    /\ key = [r \in Requests |-> CHOOSE k \in Keys : TRUE]
    /\ stamp = [r \in Requests |-> 0]
    /\ allowed = [r \in Requests |-> FALSE]
    /\ latest = [k \in Keys |-> 0]
    /\ opened = [k \in Keys |-> 0]
    /\ granted = [k \in Keys |-> 0]
-----------------------------------------------------------------------------
(* Slips: wrong forms of the steps below that the properties must tell     *)
(* from the code.  No action uses them.                                    *)
NoCap(k, tokens) == tokens

LastOnGrantOnly(k, t, tokens) ==
    [tokens |-> tokens, last |-> IF tokens >= Minute THEN t ELSE buckets[k].last]
-----------------------------------------------------------------------------
NewBucket(k) == [tokens |-> Capacity(k), last |-> now]

(* rateLimiter.allow up to its unlock: the bucket is found, or made full.  *)
Find(r, k) ==
    /\ pc[r] = "idle"
    /\ pc' = [pc EXCEPT ![r] = "found"]
    /\ key' = [key EXCEPT ![r] = k]
    /\ IF k \in Known
       THEN UNCHANGED <<buckets, historyVars>>
       ELSE /\ buckets' = [j \in Known \cup {k} |-> IF j = k THEN NewBucket(k) ELSE buckets[j]]
            /\ latest' = [latest EXCEPT ![k] = now]
            /\ opened' = [opened EXCEPT ![k] = now]
            /\ UNCHANGED granted
    /\ UNCHANGED <<now, stamp, allowed>>

ReadClock(r) ==
    /\ pc[r] = "found"
    /\ pc' = [pc EXCEPT ![r] = "timed"]
    /\ stamp' = [stamp EXCEPT ![r] = now]
    /\ UNCHANGED <<now, buckets, key, allowed, historyVars>>

Capped(k, tokens) == IF tokens > Capacity(k) THEN Capacity(k) ELSE tokens

(* What a bucket holds once a reading t has refilled it, or taken back     *)
(* what a later reading had given.                                         *)
Refilled(k, t) ==
    Capped(k, buckets[k].tokens + RateOf[k] * (t - buckets[k].last))

Enough(tokens) == tokens >= Minute

(* The bucket after a request that leaves it with that many units.         *)
Settled(k, t, tokens) == [tokens |-> tokens, last |-> t]

(* A slip: the token is taken before it is known to be there.              *)
TakeFirst(r) ==
    LET k == key[r]
        left == Refilled(k, stamp[r]) - Minute
    IN  /\ pc[r] = "timed"
        /\ pc' = [pc EXCEPT ![r] = "idle"]
        /\ allowed' = [allowed EXCEPT ![r] = left >= 0]
        /\ buckets' = [buckets EXCEPT ![k] = Settled(k, stamp[r], left)]
        /\ latest' = [latest EXCEPT ![k] = IF stamp[r] > @ THEN stamp[r] ELSE @]
        /\ granted' = [granted EXCEPT ![k] = IF left >= 0 THEN @ + 1 ELSE @]
        /\ UNCHANGED <<now, key, stamp, opened>>

(* bucket.allow, under the bucket's mutex.                                 *)
Allow(r) ==
    LET k == key[r]
        full == Enough(Refilled(k, stamp[r]))
    IN  /\ pc[r] = "timed"
        /\ pc' = [pc EXCEPT ![r] = "idle"]
        /\ allowed' = [allowed EXCEPT ![r] = full]
        /\ buckets' = [buckets EXCEPT ![k] =
              Settled(k, stamp[r], Refilled(k, stamp[r]) - (IF full THEN Minute ELSE 0))]
        /\ latest' = [latest EXCEPT ![k] = IF stamp[r] > @ THEN stamp[r] ELSE @]
        /\ granted' = [granted EXCEPT ![k] = IF full THEN @ + 1 ELSE @]
        /\ UNCHANGED <<now, key, stamp, opened>>

Tick ==
    /\ now < MaxNow
    /\ now' = now + 1
    /\ UNCHANGED <<buckets, pc, key, stamp, allowed, historyVars>>

(* History only: a window is opened, from which the grants are counted.    *)
Open(k) ==
    /\ k \in Known
    /\ opened' = [opened EXCEPT ![k] = latest[k]]
    /\ granted' = [granted EXCEPT ![k] = 0]
    /\ UNCHANGED <<now, buckets, pc, key, stamp, allowed, latest>>

Next ==
    \/ \E r \in Requests : (\E k \in Keys : Find(r, k)) \/ ReadClock(r) \/ Allow(r)
    \/ \E k \in Keys : Open(k)
    \/ Tick

Spec == Init /\ [][Next]_vars
-----------------------------------------------------------------------------
TypeOK ==
    /\ now \in 0 .. MaxNow
    /\ Known \subseteq Keys /\ buckets \in [Known -> Bucket]
    /\ pc \in [Requests -> {"idle", "found", "timed"}]
    /\ key \in [Requests -> Keys]
    /\ stamp \in [Requests -> 0 .. MaxNow]
    /\ allowed \in [Requests -> BOOLEAN]
    /\ latest \in [Keys -> 0 .. MaxNow]
    /\ opened \in [Keys -> 0 .. MaxNow]
    /\ granted \in [Keys -> Nat]

(* What a bucket holds, brought to the latest reading it has seen: what an *)
(* earlier reading took from it is still owed to it.                       *)
Credit(k) == buckets[k].tokens + RateOf[k] * (latest[k] - buckets[k].last)

(* However readings overtake each other, a bucket brought to its latest    *)
(* reading holds no less than nothing and no more than its capacity: the   *)
(* time that goes back is given back once, and never twice.                *)
CreditInBounds == \A k \in Known : 0 <= Credit(k) /\ Credit(k) <= Capacity(k)

(* In any window a key is granted no more than a full bucket and what the  *)
(* window's length refills (ratelimit.go, bucket.allow).                   *)
WindowBound ==
    \A k \in Known :
        granted[k] * Minute <= Capacity(k) + RateOf[k] * (now - opened[k])

(* A request that comes a token's time after every earlier reading of its  *)
(* bucket is allowed, whatever the requests before it were told.           *)
PacedRequestsPass ==
    [][\A r \in Requests :
          Allow(r) /\ RateOf[key[r]] * (stamp[r] - latest[key[r]]) >= Minute
              => allowed'[r]]_vars
=============================================================================
