------------------------- MODULE RateLimiterProofs --------------------------
(***************************************************************************)
(* Proofs about RateLimiter, for any number of requests and keys, any      *)
(* rates and any order in which requests reach a bucket.  The argument is  *)
(* about a bucket's credit, what it holds once brought to the latest       *)
(* reading it has seen: a reading that arrives late leaves it unchanged, a *)
(* new latest one adds its refill up to the capacity, and a grant takes a  *)
(* token from it.                                                          *)
(***************************************************************************)
EXTENDS RateLimiter, TLAPS

(* The invariant of one bucket.                                            *)
BucketInv(k) ==
    /\ opened[k] <= latest[k] /\ latest[k] <= now
    /\ 0 <= Credit(k) /\ Credit(k) <= Capacity(k)
    /\ granted[k] * Minute + Credit(k) <= Capacity(k) + RateOf[k] * (latest[k] - opened[k])

IInv ==
    /\ TypeOK
    /\ \A k \in Known : BucketInv(k)
    /\ \A k \in Keys \ Known : granted[k] = 0
    /\ \A r \in Requests :
          /\ pc[r] # "idle" => key[r] \in Known
          /\ pc[r] = "timed" => stamp[r] <= now
-----------------------------------------------------------------------------
LEMMA Products ==
    ASSUME NEW r \in Nat, NEW a \in Int, NEW b \in Int, NEW c \in Int
    PROVE  /\ r * (a - c) = r * (a - b) + r * (b - c)
           /\ r * (a - b) \in Int
           /\ a >= b => r * (a - b) >= 0
           /\ a <= b => r * (a - b) <= 0
<1>1. r * (a - c) = r * (a - b) + r * (b - c)
    OBVIOUS
<1>2. r * (a - b) \in Int
    OBVIOUS
<1>3. a >= b => r * (a - b) >= 0
    OBVIOUS
<1>4. a <= b => r * (a - b) <= 0
    OBVIOUS
<1> QED BY <1>1, <1>2, <1>3, <1>4

LEMMA Capacities == \A k \in Keys : Capacity(k) \in Nat /\ Capacity(k) >= Minute
<1> SUFFICES ASSUME NEW k \in Keys PROVE Capacity(k) \in Nat /\ Capacity(k) >= Minute
    OBVIOUS
<1>1. RateOf[k] \in Nat \ {0} /\ Minute \in Nat \ {0}
    BY RateAssumption, MinuteAssumption
<1>2. \A a \in Nat \ {0}, b \in Nat \ {0} : a * b \in Nat /\ a * b >= b
    OBVIOUS
<1> QED BY <1>1, <1>2 DEF Capacity

(* What an admission does to its bucket's credit.                          *)
LEMMA AllowMovesCredit ==
    ASSUME TypeOK, NEW k \in Known, NEW t \in 0 .. MaxNow, BucketInv(k)
    PROVE  LET top == IF t > latest[k] THEN t ELSE latest[k]
               c == Refilled(k, t) + RateOf[k] * (top - t)
           IN  /\ Refilled(k, t) \in Int
               /\ 0 <= c /\ c <= Capacity(k)
               /\ c <= Credit(k) + RateOf[k] * (top - latest[k])
               /\ RateOf[k] * (top - t) \in Int
               /\ RateOf[k] * (top - t) >= 0
               /\ t <= latest[k] => c = Credit(k)
               /\ RateOf[k] * (t - latest[k]) >= Minute => Refilled(k, t) >= Minute
<1> DEFINE R == RateOf[k]
           L == latest[k]
           last == buckets[k].last
           tok == buckets[k].tokens
           x == R * (t - last)
           y == R * (L - last)
           z == R * (t - L)
           cap == Capacity(k)
<1>1. /\ k \in Keys /\ R \in Nat /\ L \in Int /\ last \in Int /\ tok \in Int /\ t \in Int
      /\ cap \in Nat /\ cap >= Minute /\ Minute \in Nat \ {0}
    BY RateAssumption, MinuteAssumption, ClockAssumption, Capacities DEF TypeOK, Bucket
<1>2. /\ x = z + y /\ x \in Int /\ y \in Int /\ z \in Int
      /\ t >= L => z >= 0
      /\ t <= L => z <= 0
    BY <1>1, Products
<1>3. R * (L - t) = 0 - z /\ R * (t - t) = 0 /\ R * (L - L) = 0
    BY <1>1
<1>4. Credit(k) = tok + y /\ 0 <= tok + y /\ tok + y <= cap
    BY DEF BucketInv, Credit
<1>5. Refilled(k, t) = IF tok + x > cap THEN cap ELSE tok + x
    BY DEF Refilled, Capped
<1> HIDE DEF x, y, z, R, L, last, tok, cap
<1>6. CASE t > L
  <2>1. (IF t > L THEN t ELSE L) = t
      BY <1>6
  <2>2. z >= 0 /\ tok + x = (tok + y) + z
      BY <1>1, <1>2, <1>6
  <2>3. 0 <= Refilled(k, t) /\ Refilled(k, t) <= cap /\ Refilled(k, t) <= (tok + y) + z /\ Refilled(k, t) \in Int
      BY <1>1, <1>2, <1>4, <1>5, <2>2
  <2>4. z >= Minute => Refilled(k, t) >= Minute
      BY <1>1, <1>2, <1>4, <1>5, <2>2
  <2> QED BY <1>1, <1>3, <1>4, <1>6, <2>1, <2>3, <2>4 DEF R, L, z, cap
<1>7. CASE t <= L
  <2>1. (IF t > L THEN t ELSE L) = L
      BY <1>1, <1>7
  <2>2. z <= 0 /\ tok + x = (tok + y) + z
      BY <1>1, <1>2, <1>7
  <2>3. Refilled(k, t) = tok + x /\ Refilled(k, t) \in Int
      BY <1>1, <1>2, <1>4, <1>5, <2>2
  <2>4. Refilled(k, t) + (0 - z) = tok + y
      BY <1>1, <1>2, <2>2, <2>3
  <2>5. ~(z >= Minute)
      BY <1>1, <1>2, <2>2
  <2>6. 0 - z >= 0 /\ 0 - z \in Int
      BY <1>2, <2>2
  <2>7. tok + y <= (tok + y) + 0
      BY <1>1, <1>2
  <2> QED BY <1>1, <1>3, <1>4, <1>7, <2>1, <2>3, <2>4, <2>5, <2>6, <2>7 DEF R, L, z, cap
<1> QED BY <1>1, <1>6, <1>7

(* Nothing but an admission, a creation and a new window touches a bucket. *)
LEMMA BucketKept ==
    ASSUME NEW k \in Known, BucketInv(k), buckets'[k] = buckets[k],
           latest'[k] = latest[k], opened'[k] = opened[k], granted'[k] = granted[k],
           now \in Nat, now' \in Nat, now <= now', latest[k] \in Nat
    PROVE  BucketInv(k)'
BY DEF BucketInv, Credit, Capacity
-----------------------------------------------------------------------------
LEMMA InitEstablishes == Init => IInv
<1> SUFFICES ASSUME Init PROVE IInv
    OBVIOUS
<1>1. Known = {}
    BY DEF Init, Known
<1>2. buckets \in [Known -> Bucket]
    BY <1>1 DEF Init
<1>3. key \in [Requests -> Keys]
    BY RateAssumption DEF Init
<1>4. TypeOK
    BY <1>1, <1>2, <1>3, ClockAssumption DEF Init, TypeOK
<1> QED BY <1>1, <1>4 DEF Init, IInv

LEMMA NextKeeps == IInv /\ [Next]_vars => IInv'
<1> SUFFICES ASSUME IInv, [Next]_vars PROVE IInv'
    OBVIOUS
<1>0. /\ TypeOK /\ now \in Nat /\ Known \subseteq Keys /\ buckets \in [Known -> Bucket]
      /\ \A k \in Keys : latest[k] \in Nat /\ opened[k] \in Nat /\ granted[k] \in Nat
      /\ MaxNow \in Nat
    BY ClockAssumption DEF IInv, TypeOK
<1>1. ASSUME NEW r \in Requests, NEW k \in Keys, Find(r, k) PROVE IInv'
  <2>1. CASE k \in Known
    <3>1. UNCHANGED <<now, buckets, latest, opened, granted, stamp>>
        BY <1>1, <2>1 DEF Find, historyVars
    <3>2. TypeOK'
        BY <1>0, <1>1, <3>1 DEF Find, TypeOK, Known
    <3>3. \A j \in Known' : BucketInv(j)'
        BY <1>0, <3>1, BucketKept DEF IInv, Known
    <3>4. \A q \in Requests : (pc'[q] # "idle" => key'[q] \in Known') /\ (pc'[q] = "timed" => stamp'[q] <= now')
        BY <1>0, <1>1, <2>1, <3>1 DEF Find, IInv, TypeOK, Known
    <3> QED BY <3>1, <3>2, <3>3, <3>4 DEF IInv, Known
  <2>2. CASE k \notin Known
    <3>1. /\ buckets' = [j \in Known \cup {k} |-> IF j = k THEN NewBucket(k) ELSE buckets[j]]
          /\ latest' = [latest EXCEPT ![k] = now] /\ opened' = [opened EXCEPT ![k] = now]
          /\ UNCHANGED <<now, stamp, granted>>
        BY <1>1, <2>2 DEF Find
    <3>2. Known' = Known \cup {k}
        BY <3>1 DEF Known
    <3>3. NewBucket(k) \in Bucket /\ Capacity(k) \in Nat
        BY <1>0, Capacities DEF NewBucket, Bucket, TypeOK
    <3>4. TypeOK'
      <4>1. buckets' \in [Known' -> Bucket] /\ Known' \subseteq Keys
          BY <1>0, <3>1, <3>2, <3>3
      <4> QED BY <1>0, <1>1, <3>1, <4>1 DEF Find, TypeOK
    <3>5. BucketInv(k)'
      <4>1. /\ buckets'[k] = NewBucket(k) /\ latest'[k] = now /\ opened'[k] = now
            /\ granted'[k] = 0 /\ now' = now
          BY <1>0, <2>2, <3>1 DEF IInv, TypeOK
      <4>2. RateOf[k] * (now - now) = 0 /\ 0 * Minute = 0
          BY <1>0, RateAssumption, MinuteAssumption
      <4>3. Credit(k)' = Capacity(k)
          BY <3>3, <4>1, <4>2 DEF Credit, NewBucket
      <4> QED BY <1>0, <3>3, <4>1, <4>2, <4>3 DEF BucketInv, Capacity
    <3>6. \A j \in Known : BucketInv(j)'
      <4> SUFFICES ASSUME NEW j \in Known PROVE BucketInv(j)'
          OBVIOUS
      <4>1. j # k /\ j \in Keys /\ j \in Known'
          BY <1>0, <2>2, <3>2
      <4>2. buckets'[j] = buckets[j] /\ latest'[j] = latest[j] /\ opened'[j] = opened[j] /\ granted'[j] = granted[j]
          BY <1>0, <3>1, <4>1 DEF TypeOK
      <4> QED BY <1>0, <3>1, <4>1, <4>2, BucketKept DEF IInv
    <3>7. \A q \in Requests : (pc'[q] # "idle" => key'[q] \in Known') /\ (pc'[q] = "timed" => stamp'[q] <= now')
        BY <1>0, <1>1, <3>1, <3>2 DEF Find, IInv, TypeOK
    <3> QED BY <3>1, <3>2, <3>4, <3>5, <3>6, <3>7 DEF IInv
  <2> QED BY <2>1, <2>2
<1>2. ASSUME NEW r \in Requests, ReadClock(r) PROVE IInv'
  <2>1. UNCHANGED <<now, buckets, key, allowed, latest, opened, granted>>
      BY <1>2 DEF ReadClock, historyVars
  <2>2. TypeOK'
      BY <1>0, <1>2, <2>1 DEF ReadClock, TypeOK, Known
  <2>3. \A j \in Known' : BucketInv(j)'
      BY <1>0, <2>1, BucketKept DEF IInv, Known
  <2>4. \A q \in Requests : (pc'[q] # "idle" => key'[q] \in Known') /\ (pc'[q] = "timed" => stamp'[q] <= now')
      BY <1>0, <1>2, <2>1 DEF ReadClock, IInv, TypeOK, Known
  <2> QED BY <2>1, <2>2, <2>3, <2>4 DEF IInv, Known
<1>3. ASSUME NEW r \in Requests, Allow(r) PROVE IInv'
  <2>a. key[r] \in Keys /\ stamp[r] \in 0 .. MaxNow
      BY <1>0 DEF TypeOK
  <2>b. PICK k \in Keys : k = key[r]
      BY <2>a
  <2>c. PICK t \in 0 .. MaxNow : t = stamp[r]
      BY <2>a
  <2> DEFINE full == Enough(Refilled(k, t))
             left == Refilled(k, t) - (IF full THEN Minute ELSE 0)
             top == IF t > latest[k] THEN t ELSE latest[k]
             over == RateOf[k] * (top - t)
  <2>1. /\ k \in Known /\ k \in Keys /\ t \in 0 .. MaxNow /\ t <= now /\ BucketInv(k)
        /\ Minute \in Nat \ {0} /\ RateOf[k] \in Nat
      BY <1>0, <1>3, <2>b, <2>c, MinuteAssumption, RateAssumption DEF Allow, IInv, TypeOK
  <2>2. /\ buckets' = [buckets EXCEPT ![k] = Settled(k, t, left)]
        /\ latest' = [latest EXCEPT ![k] = top]
        /\ granted' = [granted EXCEPT ![k] = IF full THEN @ + 1 ELSE @]
        /\ UNCHANGED <<now, key, stamp, opened>>
        /\ pc' = [pc EXCEPT ![r] = "idle"] /\ allowed' = [allowed EXCEPT ![r] = full]
      BY <1>3, <2>b, <2>c DEF Allow
  <2>3. /\ Refilled(k, t) \in Int /\ over \in Int /\ over >= 0
        /\ 0 <= Refilled(k, t) + over /\ Refilled(k, t) + over <= Capacity(k)
        /\ Refilled(k, t) + over <= Credit(k) + RateOf[k] * (top - latest[k])
      BY <1>0, <2>1, AllowMovesCredit
  <2>4. left \in Int /\ full \in BOOLEAN /\ top \in 0 .. MaxNow
    <3>1. full \in BOOLEAN
        BY DEF Enough
    <3>2. left \in Int
        BY <2>1, <2>3
    <3>3. latest[k] \in 0 .. MaxNow
        BY <1>0, <2>1 DEF TypeOK
    <3> QED BY <2>1, <3>1, <3>2, <3>3
  <2>5. Known' = Known /\ buckets' \in [Known -> Bucket]
      BY <1>0, <2>1, <2>2, <2>4 DEF Known, Settled, Bucket
  <2>6. TypeOK'
      BY <1>0, <2>1, <2>2, <2>4, <2>5 DEF TypeOK
  <2>7. BucketInv(k)'
    <3>1. /\ buckets'[k] = Settled(k, t, left) /\ latest'[k] = top /\ opened'[k] = opened[k]
          /\ granted'[k] = granted[k] + (IF full THEN 1 ELSE 0) /\ now' = now
        BY <1>0, <2>1, <2>2 DEF TypeOK
    <3>2. Credit(k)' = left + over
        BY <3>1 DEF Credit, Settled
    <3>3. opened[k] <= latest[k] /\ latest[k] <= top /\ top <= now /\ latest[k] <= now /\ opened[k] <= top
        BY <1>0, <2>1, <2>4 DEF BucketInv
    <3>4. RateOf[k] * (top - opened[k]) = RateOf[k] * (top - latest[k]) + RateOf[k] * (latest[k] - opened[k])
        BY <1>0, <2>1, <2>4, Products
    <3>5. /\ Capacity(k) \in Nat /\ RateOf[k] * (top - latest[k]) \in Int
          /\ RateOf[k] * (latest[k] - opened[k]) \in Int
        BY <1>0, <2>1, <2>4, Capacities, Products
    <3>6. Credit(k) \in Int /\ granted[k] \in Nat
      <4>1. buckets[k].tokens \in Int /\ buckets[k].last \in Int
          BY <1>0, <2>1 DEF Bucket
      <4> QED BY <1>0, <2>1, <4>1, Products DEF Credit
    <3>7. CASE full
      <4>1. left + over >= 0
          BY <2>1, <2>3, <3>7 DEF Enough
      <4>2. (granted[k] + 1) * Minute = granted[k] * Minute + Minute /\ granted[k] * Minute \in Int
          BY <2>1, <3>6
      <4>3. granted'[k] = granted[k] + 1
          BY <3>1, <3>7
      <4>4. left = Refilled(k, t) - Minute
          BY <3>7
      <4>5. granted[k] * Minute + Credit(k) <= Capacity(k) + RateOf[k] * (latest[k] - opened[k])
          BY <2>1 DEF BucketInv
      <4> HIDE DEF left, over, top, full
      <4>6. granted'[k] * Minute + (left + over) <= Capacity(k) + RateOf[k] * (top - opened[k])
          BY <2>1, <2>3, <3>4, <3>5, <3>6, <4>2, <4>3, <4>4, <4>5
      <4>7. left + over <= Capacity(k)
          BY <2>1, <2>3, <3>5, <4>4
      <4> QED BY <3>1, <3>2, <3>3, <4>1, <4>6, <4>7 DEF BucketInv, Capacity
    <3>8. CASE ~full
      <4>1. left = Refilled(k, t) /\ granted'[k] = granted[k]
          BY <2>3, <3>1, <3>6, <3>8
      <4>2. granted[k] * Minute + Credit(k) <= Capacity(k) + RateOf[k] * (latest[k] - opened[k])
          BY <2>1 DEF BucketInv
      <4>3. granted[k] * Minute \in Int
          BY <2>1, <3>6
      <4> HIDE DEF left, over, top, full
      <4>4. granted'[k] * Minute + (left + over) <= Capacity(k) + RateOf[k] * (top - opened[k])
          BY <2>1, <2>3, <3>4, <3>5, <3>6, <4>1, <4>2, <4>3
      <4> QED BY <2>3, <3>1, <3>2, <3>3, <4>1, <4>4 DEF BucketInv, Capacity
    <3> QED BY <3>7, <3>8
  <2>8. \A j \in Known \ {k} : BucketInv(j)'
    <3> SUFFICES ASSUME NEW j \in Known, j # k PROVE BucketInv(j)'
        OBVIOUS
    <3>1. buckets'[j] = buckets[j] /\ latest'[j] = latest[j] /\ opened'[j] = opened[j] /\ granted'[j] = granted[j]
        BY <1>0, <2>2 DEF TypeOK
    <3> QED BY <1>0, <2>2, <3>1, BucketKept DEF IInv
  <2>9. \A j \in Keys \ Known' : granted'[j] = 0
      BY <1>0, <2>1, <2>2, <2>5 DEF IInv, TypeOK
  <2>10. \A q \in Requests : (pc'[q] # "idle" => key'[q] \in Known') /\ (pc'[q] = "timed" => stamp'[q] <= now')
      BY <1>0, <2>2, <2>5 DEF IInv, TypeOK
  <2> QED BY <2>5, <2>6, <2>7, <2>8, <2>9, <2>10 DEF IInv
<1>4. ASSUME NEW k \in Keys, Open(k) PROVE IInv'
  <2>1. /\ k \in Known /\ opened' = [opened EXCEPT ![k] = latest[k]] /\ granted' = [granted EXCEPT ![k] = 0]
        /\ UNCHANGED <<now, buckets, pc, key, stamp, allowed, latest>>
      BY <1>4 DEF Open
  <2>2. TypeOK'
      BY <1>0, <2>1 DEF TypeOK, Known
  <2>3. BucketInv(k)'
    <3>1. opened'[k] = latest[k] /\ granted'[k] = 0 /\ BucketInv(k)
        BY <1>0, <2>1 DEF IInv, TypeOK
    <3>2. RateOf[k] * (latest[k] - latest[k]) = 0 /\ 0 * Minute = 0 /\ Capacity(k) \in Nat
        BY <1>0, RateAssumption, MinuteAssumption, Capacities
    <3>3. Credit(k)' = Credit(k)
        BY <2>1 DEF Credit
    <3>4. Credit(k) \in Int
      <4>1. buckets[k].tokens \in Int /\ buckets[k].last \in Int
          BY <1>0, <2>1 DEF Bucket
      <4> QED BY <1>0, <4>1, RateAssumption, Products DEF Credit
    <3> QED BY <1>0, <2>1, <3>1, <3>2, <3>3, <3>4 DEF BucketInv, Capacity
  <2>4. \A j \in Known \ {k} : BucketInv(j)'
    <3> SUFFICES ASSUME NEW j \in Known, j # k PROVE BucketInv(j)'
        OBVIOUS
    <3>1. buckets'[j] = buckets[j] /\ latest'[j] = latest[j] /\ opened'[j] = opened[j] /\ granted'[j] = granted[j]
        BY <1>0, <2>1 DEF TypeOK
    <3> QED BY <1>0, <2>1, <3>1, BucketKept DEF IInv
  <2> QED BY <1>0, <2>1, <2>2, <2>3, <2>4 DEF IInv, Known, TypeOK
<1>5. ASSUME now' \in 0 .. MaxNow, now <= now',
             UNCHANGED <<buckets, pc, key, stamp, allowed, latest, opened, granted>>
      PROVE  IInv'
  <2>1. TypeOK'
      BY <1>0, <1>5 DEF TypeOK, Known
  <2>2. \A j \in Known' : BucketInv(j)'
      BY <1>0, <1>5, BucketKept DEF IInv, Known
  <2>3. \A q \in Requests : (pc'[q] # "idle" => key'[q] \in Known') /\ (pc'[q] = "timed" => stamp'[q] <= now')
      BY <1>0, <1>5 DEF IInv, TypeOK, Known
  <2> QED BY <1>5, <2>1, <2>2, <2>3 DEF IInv, Known
<1>6. CASE Tick
    BY <1>0, <1>5, <1>6 DEF Tick, TypeOK, historyVars
<1>7. CASE UNCHANGED vars
    BY <1>0, <1>5, <1>7 DEF vars, TypeOK
<1> QED BY <1>1, <1>2, <1>3, <1>4, <1>6, <1>7 DEF Next

(* However readings overtake each other, no bucket ever owes or holds more *)
(* than its capacity (ratelimit.go, bucket.allow).                         *)
THEOREM CreditStaysInBounds == Spec => []CreditInBounds
<1>1. IInv => CreditInBounds
    BY DEF IInv, BucketInv, CreditInBounds
<1> QED BY <1>1, InitEstablishes, NextKeeps, PTL DEF Spec

(* No window grants more than a full bucket and its own refill.            *)
THEOREM GrantsAreBounded == Spec => []WindowBound
<1>1. ASSUME IInv PROVE WindowBound
  <2> SUFFICES ASSUME NEW k \in Known
               PROVE  granted[k] * Minute <= Capacity(k) + RateOf[k] * (now - opened[k])
      BY DEF WindowBound
  <2>1. /\ k \in Keys /\ now \in Nat /\ latest[k] \in Nat /\ opened[k] \in Nat /\ granted[k] \in Nat
        /\ RateOf[k] \in Nat /\ Minute \in Nat /\ Capacity(k) \in Nat /\ BucketInv(k)
        /\ buckets[k].tokens \in Int /\ buckets[k].last \in Int
      BY <1>1, ClockAssumption, RateAssumption, MinuteAssumption, Capacities DEF IInv, TypeOK, Bucket
  <2>2. RateOf[k] * (now - opened[k]) = RateOf[k] * (now - latest[k]) + RateOf[k] * (latest[k] - opened[k])
      BY <2>1, Products
  <2>3. /\ RateOf[k] * (now - latest[k]) >= 0 /\ RateOf[k] * (now - latest[k]) \in Int
        /\ RateOf[k] * (latest[k] - opened[k]) \in Int /\ granted[k] * Minute \in Int /\ Credit(k) \in Int
      BY <2>1, Products DEF BucketInv, Credit
  <2> QED BY <2>1, <2>2, <2>3 DEF BucketInv
<1> QED BY <1>1, InitEstablishes, NextKeeps, PTL DEF Spec

(* Requests a token's time apart are all allowed.                          *)
THEOREM PacedRequestsAreNeverRefused == Spec => PacedRequestsPass
<1>1. ASSUME IInv, [Next]_vars
      PROVE  [\A r \in Requests :
                  Allow(r) /\ RateOf[key[r]] * (stamp[r] - latest[key[r]]) >= Minute
                      => allowed'[r]]_vars
  <2> SUFFICES ASSUME NEW r \in Requests, Allow(r),
                      RateOf[key[r]] * (stamp[r] - latest[key[r]]) >= Minute
               PROVE  allowed'[r]
      OBVIOUS
  <2>1. key[r] \in Known /\ stamp[r] \in 0 .. MaxNow /\ BucketInv(key[r]) /\ TypeOK
      BY <1>1 DEF Allow, IInv, TypeOK
  <2>2. Refilled(key[r], stamp[r]) >= Minute
      BY <2>1, AllowMovesCredit
  <2>3. allowed'[r] = Enough(Refilled(key[r], stamp[r]))
      BY <2>1 DEF Allow, TypeOK
  <2> QED BY <2>2, <2>3 DEF Enough
<1> QED BY <1>1, InitEstablishes, NextKeeps, PTL DEF Spec, PacedRequestsPass
=============================================================================
