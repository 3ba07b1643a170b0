------------------------- MODULE TieredCacheProofs -------------------------
(***************************************************************************)
(* The shared cache serves nothing late and nothing that is another        *)
(* caller's, for any number of machines, requests and callers, any times   *)
(* to live and any eviction.  The invariant follows an entry from the      *)
(* handler that made it through every copy: Good says what a cache may     *)
(* hold under a key, and RequestIsGood what a request has in hand at each  *)
(* of its steps.                                                           *)
(***************************************************************************)
EXTENDS TieredCache, TLAPS

Good(k, e) ==
    /\ e \in Entry
    /\ e.expiresAt <= e.limit
    /\ e.answer.ok
    /\ ~e.answer.traced
    /\ PerCaller => e.answer.by = k[1]

IsCache(c) == c = [entries |-> c.entries, order |-> c.order]

CacheIsGood(c) == IsCache(c) /\ \A k \in DOMAIN c.entries : Good(k, c.entries[k])
LocalsAreGood == local = [m \in Machines |-> local[m]]
                 /\ \A m \in Machines : CacheIsGood(local[m])
SharedIsGood == \A k \in DOMAIN shared :
    shared[k].until \in Nat /\ Good(k, shared[k].entry)

IdentityOf(q) == IF PerCaller THEN q.caller ELSE Everyone
KeyFor(q) == <<IdentityOf(q), q.question>>

(* q is a request that has arrived.                                        *)
RequestIsGood(q) ==
    /\ q \in Request
    /\ q.pc \in {"local", "shared", "fill", "hit", "store", "send", "set"} => ~q.traced
    /\ q.pc \in {"fill", "hit"} => Good(KeyFor(q), q.entry) /\ q.at <= q.entry.expiresAt
    /\ q.pc \in {"send", "set"} => Good(KeyFor(q), q.entry)
    /\ q.pc = "store" => /\ q.entry \in Entry
                         /\ q.entry.answer.ok /\ ~q.entry.answer.traced
                         /\ q.entry.answer.by = q.caller

RequestsAreGood ==
    /\ req = [r \in Requests |-> req[r]]
    /\ \A r \in Requests : req[r] \in Idle \/ RequestIsGood(req[r])

IInv ==
    /\ now \in Nat
    /\ figures \in [Questions -> Nat]
    /\ LocalsAreGood
    /\ SharedIsGood
    /\ RequestsAreGood

-----------------------------------------------------------------------------
(* A lookup leaves an entry as it is or takes it away.                     *)
LEMMA AfterGetIsGood ==
    ASSUME NEW c, NEW k, NEW t, CacheIsGood(c)
    PROVE  CacheIsGood(AfterGet(c, k, t))
BY DEF CacheIsGood, IsCache, AfterGet, removeLocked, Drop

(* A store of a good entry leaves every entry good, whatever it evicts.    *)
LEMMA AfterPutIsGood ==
    ASSUME NEW c, NEW k, NEW e, CacheIsGood(c), Good(k, e)
    PROVE  CacheIsGood(AfterPut(c, k, e))
<1> DEFINE S == Stored(c.entries, k, e)
<1>1. \A x \in DOMAIN S : Good(x, S[x])
  BY DEF CacheIsGood, Stored
<1>2. CASE k \in DOMAIN c.entries
  <2>1. AfterPut(c, k, e) = [entries |-> S, order |-> c.order]
    BY <1>2 DEF AfterPut, CacheIsGood, IsCache
  <2> QED BY <1>1, <2>1 DEF CacheIsGood, IsCache
<1>3. CASE k \notin DOMAIN c.entries
  <2>1. PICK K, o : AfterPut(c, k, e) = [entries |-> Drop(S, K), order |-> o]
    BY <1>3 DEF AfterPut, Trim
  <2> QED BY <1>1, <2>1 DEF CacheIsGood, IsCache, Drop
<1> QED BY <1>2, <1>3

(* What is encoded loses a fraction of a second of its life, and no more.  *)
LEMMA Truncates ==
    ASSUME NEW x \in Nat
    PROVE  (x \div Second) * Second \in Nat /\ (x \div Second) * Second <= x
<1>1. Second \in Nat /\ Second > 0
  BY TimesAssumption
<1>2. x \div Second \in Nat /\ x % Second \in 0 .. Second - 1
  BY <1>1
<1>3. x = (Second * (x \div Second)) + (x % Second)
  BY <1>1
<1> DEFINE d == x \div Second
           m == x % Second
           p == d * Second
<1>4. p \in Nat /\ x = p + m
  BY <1>1, <1>2, <1>3
<1>5. m \in Nat
  BY <1>1, <1>2
<1>6. p <= x
  <2> HIDE DEF p, m
  <2> QED BY <1>4, <1>5
<1> QED BY <1>4, <1>6

LEMMA EncodedIsGood ==
    ASSUME NEW k, NEW e, Good(k, e)
    PROVE  Good(k, encodeEntry(e))
<1>1. e \in Entry /\ e.expiresAt \in Nat /\ e.limit \in Nat /\ e.expiresAt <= e.limit
  BY DEF Good, Entry
<1> DEFINE x == (e.expiresAt \div Second) * Second
<1>2. x \in Nat /\ x <= e.expiresAt
  BY <1>1, Truncates
<1>3. encodeEntry(e) = [e EXCEPT !.expiresAt = x]
  BY DEF encodeEntry
<1> HIDE DEF x
<1>4. /\ encodeEntry(e) \in Entry
      /\ encodeEntry(e).expiresAt = x
      /\ encodeEntry(e).limit = e.limit
      /\ encodeEntry(e).answer = e.answer
  BY <1>1, <1>2, <1>3 DEF Entry
<1>5. x <= e.limit
  BY <1>1, <1>2
<1> QED BY <1>4, <1>5 DEF Good

-----------------------------------------------------------------------------
(* One request is replaced by a good one: the others stay as they are.     *)
LEMMA OneRequest ==
    ASSUME RequestsAreGood, NEW r \in Requests, NEW q,
           q \in Idle \/ RequestIsGood(q),
           req' = [req EXCEPT ![r] = q]
    PROVE  RequestsAreGood'
<1>1. req' = [s \in Requests |-> IF s = r THEN q ELSE req[s]]
  BY DEF RequestsAreGood
<1>2. \A s \in Requests : req'[s] \in Idle \/ RequestIsGood(req'[s])
  BY <1>1 DEF RequestsAreGood
<1>3. req' = [s \in Requests |-> req'[s]]
  BY <1>1
<1> QED BY <1>2, <1>3 DEF RequestsAreGood, RequestIsGood, Good, KeyFor, IdentityOf

(* A request at a step has arrived, and its record can be read.            *)
LEMMA InProgress ==
    ASSUME RequestsAreGood, NEW r \in Requests, req[r].pc \in Steps
    PROVE  /\ RequestIsGood(req[r])
           /\ KeyOf(r) = KeyFor(req[r])
<1>1. PICK p : p = req[r]
  OBVIOUS
<1>2. \A x \in Idle : x.pc \notin Steps
  BY DEF Idle, Ended, Steps
<1>3. p \notin Idle
  BY <1>1, <1>2
<1> QED BY <1>1, <1>3 DEF RequestsAreGood, KeyOf, cacheKey, KeyFor, IdentityOf

LEMMA ArriveIsGood ==
    ASSUME IInv, NEW r \in Requests, NEW m \in Machines, NEW c \in Callers,
           NEW q \in Questions, NEW traced \in BOOLEAN, Arrive(r, m, c, q, traced)
    PROVE  IInv'
<1>1. PICK t \in Nat : t = now
  BY DEF IInv
<1> DEFINE new == [pc |-> IF traced THEN "handler" ELSE "local", machine |-> m,
                   caller |-> c, question |-> q, traced |-> traced, at |-> t,
                   ex |-> 0, entry |-> Nothing]
<1>2. req' = [req EXCEPT ![r] = new]
  BY <1>1 DEF Arrive
<1>3. RequestIsGood(new)
  BY DEF RequestIsGood, Request, Steps
<1> HIDE DEF new
<1>4. RequestsAreGood'
  BY <1>2, <1>3, OneRequest DEF IInv
<1> QED BY <1>4 DEF Arrive, IInv, LocalsAreGood, SharedIsGood, CacheIsGood, IsCache

(* The local cache of one machine is replaced by a good one.               *)
LEMMA OneCache ==
    ASSUME LocalsAreGood, NEW m \in Machines, NEW c, CacheIsGood(c),
           local' = [local EXCEPT ![m] = c]
    PROVE  LocalsAreGood'
<1>1. local' = [n \in Machines |-> IF n = m THEN c ELSE local[n]]
  BY DEF LocalsAreGood
<1>2. \A n \in Machines : CacheIsGood(local'[n])
  BY <1>1 DEF LocalsAreGood
<1>3. local' = [n \in Machines |-> local'[n]]
  BY <1>1
<1> QED BY <1>2, <1>3 DEF LocalsAreGood, CacheIsGood, IsCache, Good

(* A request that goes on with nothing new in hand.                        *)
LEMMA GoesIsGood ==
    ASSUME RequestsAreGood, NEW r \in Requests, NEW pc \in Steps,
           req[r].pc \in Steps,
           \/ pc = "shared" /\ ~req[r].traced
           \/ pc = "hit" /\ req[r].pc = "fill",
           Goes(r, pc)
    PROVE  RequestsAreGood'
<1>1. PICK p : p = req[r]
  OBVIOUS
<1>2. RequestIsGood(p)
  BY <1>1, InProgress
<1> DEFINE q == [p EXCEPT !.pc = pc]
<1>3. req' = [req EXCEPT ![r] = q]
  BY <1>1 DEF Goes
<1>4. q \in Request /\ q.pc = pc /\ q.traced = p.traced /\ q.entry = p.entry
      /\ q.at = p.at /\ KeyFor(q) = KeyFor(p)
  BY <1>2 DEF RequestIsGood, Request, KeyFor, IdentityOf
<1> HIDE DEF q
<1>5. RequestIsGood(q)
  BY <1>1, <1>2, <1>4 DEF RequestIsGood
<1> QED BY <1>3, <1>5, OneRequest

(* A request that has ended has nothing left to serve.                     *)
LEMMA DoneIsGood ==
    ASSUME RequestsAreGood, NEW r \in Requests, Done(r)
    PROVE  RequestsAreGood'
<1>1. Ended("done") \in Idle
  BY DEF Idle
<1> QED BY <1>1, OneRequest DEF Done

LEMMA GetLocalIsGood ==
    ASSUME IInv, NEW r \in Requests, GetLocal(r)
    PROVE  IInv'
<1>1. PICK p : p = req[r]
  OBVIOUS
<1>2. p.pc = "local" /\ RequestIsGood(p) /\ KeyOf(r) = KeyFor(p)
  BY <1>1, InProgress DEF GetLocal, IInv, Steps
<1>3. p.machine \in Machines /\ ~p.traced /\ p.at \in Nat
  BY <1>2 DEF RequestIsGood, Request
<1>4. PICK c, k : c = local[p.machine] /\ k = KeyFor(p)
  OBVIOUS
<1>5. CacheIsGood(c)
  BY <1>3, <1>4 DEF IInv, LocalsAreGood
<1>6. LocalsAreGood'
  <2>1. CacheIsGood(AfterGet(c, k, p.at))
    BY <1>5, AfterGetIsGood
  <2>2. local' = [local EXCEPT ![p.machine] = AfterGet(c, k, p.at)]
    BY <1>1, <1>2, <1>4 DEF GetLocal
  <2> QED BY <1>3, <2>1, <2>2, OneCache DEF IInv
<1>7. RequestsAreGood'
  <2>1. CASE Lookup(r)
    <3>1. PICK e : e = c.entries[k]
      OBVIOUS
    <3> DEFINE q == [p EXCEPT !.pc = "hit", !.entry = e]
    <3>2. req' = [req EXCEPT ![r] = q]
      BY <1>1, <1>2, <1>4, <2>1, <3>1 DEF GetLocal, GoesWith, LocalEntry
    <3>3. Good(k, e) /\ ~(p.at > e.expiresAt) /\ e \in Entry /\ e.expiresAt \in Nat
      BY <1>1, <1>2, <1>4, <1>5, <2>1, <3>1
         DEF Lookup, Hit, Expired, CacheIsGood, Good, Entry
    <3>4. q \in Request /\ q.pc = "hit" /\ ~q.traced /\ q.entry = e
          /\ q.at = p.at /\ KeyFor(q) = k
      BY <1>2, <1>3, <1>4, <3>3 DEF RequestIsGood, Request, Steps, KeyFor, IdentityOf
    <3> HIDE DEF q
    <3>5. q.at <= q.entry.expiresAt
      BY <1>3, <3>3, <3>4
    <3>6. RequestIsGood(q)
      BY <3>3, <3>4, <3>5 DEF RequestIsGood
    <3> QED BY <3>2, <3>6, OneRequest DEF IInv
  <2>2. CASE ~Lookup(r)
    <3>1. Goes(r, "shared") /\ "shared" \in Steps /\ p.pc \in Steps
      BY <1>2, <2>2 DEF GetLocal, Steps
    <3> QED BY <1>1, <1>2, <1>3, <3>1, GoesIsGood DEF IInv
  <2> QED BY <2>1, <2>2
<1> QED BY <1>6, <1>7 DEF GetLocal, IInv, SharedIsGood, Good

LEMMA GetSharedIsGood ==
    ASSUME IInv, NEW r \in Requests, GetShared(r)
    PROVE  IInv'
<1>1. PICK p, k : p = req[r] /\ k = KeyOf(r)
  OBVIOUS
<1>2. p.pc = "shared" /\ RequestIsGood(p) /\ k = KeyFor(p)
  BY <1>1, InProgress DEF GetShared, IInv, Steps
<1>3. ~p.traced /\ p.at \in Nat
  BY <1>2 DEF RequestIsGood, Request
<1>4. RequestsAreGood'
  <2>1. CASE SharedHit(r) /\ GoesWith(r, "fill", shared[KeyOf(r)].entry)
    <3>1. PICK e : e = shared[k].entry
      OBVIOUS
    <3> DEFINE q == [p EXCEPT !.pc = "fill", !.entry = e]
    <3>2. req' = [req EXCEPT ![r] = q]
      BY <1>1, <2>1, <3>1 DEF GetShared, GoesWith
    <3>3. Good(k, e) /\ ~(p.at > e.expiresAt) /\ e \in Entry /\ e.expiresAt \in Nat
      BY <1>1, <2>1, <3>1
         DEF SharedHit, Held, Expired, IInv, SharedIsGood, Good, Entry
    <3>4. q \in Request /\ q.pc = "fill" /\ ~q.traced /\ q.entry = e
          /\ q.at = p.at /\ KeyFor(q) = k
      BY <1>2, <1>3, <3>3 DEF RequestIsGood, Request, Steps, KeyFor, IdentityOf
    <3> HIDE DEF q
    <3>5. q.at <= q.entry.expiresAt
      BY <1>3, <3>3, <3>4
    <3>6. RequestIsGood(q)
      BY <3>3, <3>4, <3>5 DEF RequestIsGood
    <3> QED BY <3>2, <3>6, OneRequest DEF IInv
  <2>2. CASE req' = [req EXCEPT ![r].pc = "handler", ![r].at = 0]
    <3> DEFINE q == [p EXCEPT !.pc = "handler", !.at = 0]
    <3>1. req' = [req EXCEPT ![r] = q]
      BY <1>1, <2>2
    <3>2. q \in Request /\ q.pc = "handler"
      BY <1>2 DEF RequestIsGood, Request, Steps
    <3> HIDE DEF q
    <3>3. RequestIsGood(q)
      BY <3>2 DEF RequestIsGood
    <3> QED BY <3>1, <3>3, OneRequest DEF IInv
  <2> QED BY <2>1, <2>2 DEF GetShared
<1> QED BY <1>4 DEF GetShared, IInv, LocalsAreGood, CacheIsGood, IsCache, SharedIsGood, Good

LEMMA FillIsGood ==
    ASSUME IInv, NEW r \in Requests, Fill(r)
    PROVE  IInv'
<1>1. PICK p, k : p = req[r] /\ k = KeyOf(r)
  OBVIOUS
<1>2. p.pc = "fill" /\ RequestIsGood(p) /\ k = KeyFor(p)
  BY <1>1, InProgress DEF Fill, IInv, Steps
<1>3. p.machine \in Machines /\ Good(k, p.entry)
  BY <1>2 DEF RequestIsGood, Request
<1>4. PICK c : c = local[p.machine]
  OBVIOUS
<1>5. CacheIsGood(AfterPut(c, k, p.entry))
  BY <1>3, <1>4, AfterPutIsGood DEF IInv, LocalsAreGood
<1>6. local' = [local EXCEPT ![p.machine] = AfterPut(c, k, p.entry)]
  BY <1>1, <1>4 DEF Fill, LocalPut
<1>7. LocalsAreGood'
  BY <1>3, <1>5, <1>6, OneCache DEF IInv
<1>8. RequestsAreGood'
  BY <1>1, <1>2, GoesIsGood DEF Fill, IInv, Steps
<1> QED BY <1>7, <1>8 DEF Fill, IInv, SharedIsGood, Good

(* What only one request changes leaves the caches good.                   *)
LEMMA CachesStayGood ==
    ASSUME IInv, RequestsAreGood', UNCHANGED <<now, local, shared, figures>>
    PROVE  IInv'
BY DEF IInv, LocalsAreGood, CacheIsGood, IsCache, SharedIsGood, Good

LEMMA ServeHitIsGood ==
    ASSUME IInv, NEW r \in Requests, ServeHit(r)
    PROVE  IInv'
<1>1. RequestsAreGood'
  BY DoneIsGood DEF ServeHit, IInv
<1> QED BY <1>1, CachesStayGood DEF ServeHit

LEMMA HandlerIsGood ==
    ASSUME IInv, NEW r \in Requests, NEW ok \in BOOLEAN, Handler(r, ok)
    PROVE  IInv'
<1>1. PICK p : p = req[r]
  OBVIOUS
<1>2. p.pc = "handler" /\ RequestIsGood(p)
  BY <1>1, InProgress DEF Handler, IInv, Steps
<1>3. PICK f \in Nat : f = figures[p.question]
  BY <1>2 DEF IInv, RequestIsGood, Request
<1> DEFINE a == [ok |-> ok, figures |-> f, by |-> p.caller, traced |-> p.traced]
           e == [answer |-> a, settled |-> FALSE, expiresAt |-> 0, limit |-> 0]
<1>4. p.caller \in Callers /\ p.traced \in BOOLEAN
  BY <1>2 DEF RequestIsGood, Request
<1>5. a \in Answer /\ e \in Entry
  BY <1>3, <1>4 DEF Answer, Entry
<1>6. /\ e.answer.ok = ok /\ e.answer.by = p.caller /\ e.answer.traced = p.traced
  OBVIOUS
<1>7. RequestsAreGood'
  <2>1. CASE ok /\ ~p.traced
    <3> DEFINE q == [p EXCEPT !.pc = "store", !.entry = e]
    <3>1. req' = [req EXCEPT ![r] = q]
      BY <1>1, <1>3, <2>1 DEF Handler, GoesWith
    <3> HIDE DEF e
    <3>2. q \in Request /\ q.pc = "store" /\ ~q.traced /\ q.entry = e /\ q.caller = p.caller
      BY <1>2, <1>5, <2>1 DEF RequestIsGood, Request, Steps
    <3> HIDE DEF q
    <3>3. RequestIsGood(q)
      BY <1>5, <1>6, <2>1, <3>2 DEF RequestIsGood
    <3> QED BY <3>1, <3>3, OneRequest DEF IInv
  <2>2. CASE ~(ok /\ ~p.traced)
    BY <1>1, <2>2, DoneIsGood DEF Handler, IInv
  <2> QED BY <2>1, <2>2
<1> QED BY <1>7, CachesStayGood DEF Handler

(* The entry a store makes may be cached under its own key.                *)
LEMMA StampedIsGood ==
    ASSUME IInv, NEW r \in Requests, req[r].pc = "store"
    PROVE  Good(KeyOf(r), Stamped(r))
<1>1. PICK p, k : p = req[r] /\ k = KeyOf(r)
  OBVIOUS
<1>2. RequestIsGood(p) /\ p.pc = "store" /\ k = KeyFor(p)
  BY <1>1, InProgress DEF IInv, Steps
<1>3. /\ p.entry \in Entry /\ p.question \in Questions
      /\ p.entry.answer.ok /\ ~p.entry.answer.traced
      /\ p.entry.answer.by = p.caller
  BY <1>2 DEF RequestIsGood, Request
<1>4. PICK n, b : n = now + ttlForRequest(p.question, now)
                  /\ b = namesSettledPeriod(p.question, now)
  OBVIOUS
<1>5. n \in Nat /\ b \in BOOLEAN
  BY <1>4, TimesAssumption DEF IInv, ttlForRequest, namesSettledPeriod
<1> DEFINE e == [p.entry EXCEPT !.settled = b, !.expiresAt = n, !.limit = n]
<1>6. Stamped(r) = e
  BY <1>1, <1>4 DEF Stamped
<1>7. e \in Entry /\ e.expiresAt = n /\ e.limit = n /\ e.answer = p.entry.answer
  BY <1>3, <1>5 DEF Entry
<1>8. PerCaller => k[1] = p.caller
  BY <1>2 DEF KeyFor, IdentityOf
<1> HIDE DEF e
<1>9. e.expiresAt <= e.limit
  BY <1>5, <1>7
<1>10. Good(k, e)
  BY <1>3, <1>7, <1>8, <1>9 DEF Good
<1> QED BY <1>1, <1>6, <1>10

LEMMA PutLocalIsGood ==
    ASSUME IInv, NEW r \in Requests, PutLocal(r)
    PROVE  IInv'
<1>1. PICK p, k, e : p = req[r] /\ k = KeyOf(r) /\ e = Stamped(r)
  OBVIOUS
<1>2. p.pc = "store" /\ RequestIsGood(p) /\ k = KeyFor(p)
  BY <1>1, InProgress DEF PutLocal, IInv, Steps
<1>3. Good(k, e) /\ e \in Entry
  BY <1>1, <1>2, StampedIsGood DEF Good
<1>4. p.machine \in Machines /\ ~p.traced
  BY <1>2 DEF RequestIsGood, Request
<1>5. PICK c : c = local[p.machine]
  OBVIOUS
<1>6. CacheIsGood(AfterPut(c, k, e))
  BY <1>3, <1>4, <1>5, AfterPutIsGood DEF IInv, LocalsAreGood
<1>7. local' = [local EXCEPT ![p.machine] = AfterPut(c, k, e)]
  BY <1>1, <1>5 DEF PutLocal, LocalPut
<1>8. LocalsAreGood'
  BY <1>4, <1>6, <1>7, OneCache DEF IInv
<1>9. RequestsAreGood'
  <2> DEFINE q == [p EXCEPT !.pc = "send", !.entry = e]
  <2>1. req' = [req EXCEPT ![r] = q]
    BY <1>1 DEF PutLocal, GoesWith
  <2>2. q \in Request /\ q.pc = "send" /\ ~q.traced /\ q.entry = e /\ KeyFor(q) = k
    BY <1>2, <1>3, <1>4 DEF RequestIsGood, Request, Steps, KeyFor, IdentityOf
  <2> HIDE DEF q
  <2>3. RequestIsGood(q)
    BY <1>3, <2>2 DEF RequestIsGood
  <2> QED BY <2>1, <2>3, OneRequest DEF IInv
<1> QED BY <1>8, <1>9 DEF PutLocal, IInv, SharedIsGood, Good

LEMMA SendIsGood ==
    ASSUME IInv, NEW r \in Requests, Send(r)
    PROVE  IInv'
<1>1. PICK p, n : p = req[r] /\ n = secondsUntil(p.entry.expiresAt, now)
  OBVIOUS
<1>2. p.pc = "send" /\ RequestIsGood(p)
  BY <1>1, InProgress DEF Send, IInv, Steps
<1>3. Good(KeyFor(p), p.entry) /\ ~p.traced /\ p.entry \in Entry /\ p.entry.expiresAt \in Nat
  BY <1>2 DEF RequestIsGood, Request, Good, Entry
<1>4. RequestsAreGood'
  <2>1. CASE n < 1
    BY <1>1, <1>2, <2>1, DoneIsGood DEF Send, IInv
  <2>2. CASE ~(n < 1)
    <3>1. n \in Nat
      <4>1. PICK x \in Nat, t \in Nat : x = p.entry.expiresAt /\ t = now
        BY <1>3 DEF IInv
      <4>2. CASE x < t
        BY <1>1, <4>1, <4>2 DEF secondsUntil
      <4>3. CASE ~(x < t)
        <5>1. x - t \in Nat
          BY <4>3
        <5>2. (x - t) \div Second \in Nat
          BY <5>1, TimesAssumption
        <5> QED BY <1>1, <4>1, <4>3, <5>2 DEF secondsUntil
      <4> QED BY <4>2, <4>3
    <3> DEFINE q == [p EXCEPT !.pc = "set", !.ex = n]
    <3>2. req' = [req EXCEPT ![r] = q]
      BY <1>1, <2>2 DEF Send
    <3>3. q \in Request /\ q.pc = "set" /\ ~q.traced /\ q.entry = p.entry
          /\ KeyFor(q) = KeyFor(p)
      BY <1>2, <1>3, <3>1 DEF RequestIsGood, Request, Steps, KeyFor, IdentityOf
    <3> HIDE DEF q
    <3>4. RequestIsGood(q)
      BY <1>3, <3>3 DEF RequestIsGood
    <3> QED BY <3>2, <3>4, OneRequest DEF IInv
  <2> QED BY <2>1, <2>2
<1> QED BY <1>4, CachesStayGood DEF Send

LEMMA SharedSetIsGood ==
    ASSUME IInv, NEW r \in Requests, SharedSet(r)
    PROVE  IInv'
<1>1. PICK p, k, e : p = req[r] /\ k = KeyOf(r) /\ e = encodeEntry(p.entry)
  OBVIOUS
<1>2. p.pc = "set" /\ RequestIsGood(p) /\ k = KeyFor(p)
  BY <1>1, InProgress DEF SharedSet, IInv, Steps
<1>3. Good(k, e) /\ p.ex \in Nat
  BY <1>1, <1>2, EncodedIsGood DEF RequestIsGood, Request
<1>4. PICK n : n = now + p.ex * Second
  OBVIOUS
<1>5. n \in Nat
  BY <1>3, <1>4, TimesAssumption DEF IInv
<1>6. SharedIsGood'
  <2>1. CASE shared' = Stored(shared, k, [entry |-> e, until |-> n])
    BY <1>3, <1>5, <2>1 DEF Stored, IInv, SharedIsGood, Good
  <2>2. CASE UNCHANGED shared
    BY <2>2 DEF IInv, SharedIsGood, Good
  <2> QED BY <1>1, <1>4, <2>1, <2>2 DEF SharedSet
<1>7. RequestsAreGood'
  BY <1>1, <1>2, DoneIsGood DEF SharedSet, IInv
<1> QED BY <1>6, <1>7 DEF SharedSet, IInv, LocalsAreGood, CacheIsGood, IsCache, Good

LEMMA RestartIsGood ==
    ASSUME IInv, NEW m \in Machines, Restart(m)
    PROVE  IInv'
<1>1. CacheIsGood(newResponseCache)
  BY DEF CacheIsGood, IsCache, newResponseCache
<1>2. LocalsAreGood'
  BY <1>1, OneCache DEF Restart, IInv
<1>3. /\ req' = [r \in Requests |-> req'[r]]
      /\ \A r \in Requests : req'[r] \in {req[r], Ended("lost")}
  BY DEF Restart
<1>4. RequestsAreGood'
  BY <1>3 DEF IInv, Idle, RequestsAreGood, RequestIsGood, Good, KeyFor, IdentityOf
<1> QED BY <1>2, <1>4 DEF Restart, IInv, SharedIsGood, Good

-----------------------------------------------------------------------------
LEMMA InitIsGood == Init => IInv
<1> SUFFICES ASSUME Init PROVE IInv
  OBVIOUS
<1>1. CacheIsGood(newResponseCache)
  BY DEF CacheIsGood, IsCache, newResponseCache
<1>2. LocalsAreGood
  BY <1>1 DEF Init, LocalsAreGood
<1>3. RequestsAreGood
  BY DEF Init, Idle, RequestsAreGood
<1> QED BY <1>2, <1>3 DEF Init, IInv, SharedIsGood

LEMMA StepIsGood == IInv /\ [Next]_vars => IInv'
<1> SUFFICES ASSUME IInv, [Next]_vars PROVE IInv'
  OBVIOUS
<1>1. ASSUME NEW r \in Requests, NEW m \in Machines, NEW c \in Callers,
             NEW q \in Questions, NEW traced \in BOOLEAN, Arrive(r, m, c, q, traced)
      PROVE  IInv'
  BY <1>1, ArriveIsGood
<1>2. ASSUME NEW r \in Requests, Serve(r) PROVE IInv'
  BY <1>2, GetLocalIsGood, GetSharedIsGood, FillIsGood, ServeHitIsGood, HandlerIsGood,
     PutLocalIsGood, SendIsGood, SharedSetIsGood DEF Serve
<1>3. ASSUME NEW m \in Machines, Restart(m) PROVE IInv'
  BY <1>3, RestartIsGood
<1>4. ASSUME UNCHANGED vars PROVE IInv'
  BY <1>4 DEF vars, IInv, LocalsAreGood, CacheIsGood, IsCache, SharedIsGood,
     Good, RequestsAreGood, RequestIsGood, KeyFor, IdentityOf
<1>5. ASSUME NEW q \in Questions, File(q) PROVE IInv'
  BY <1>5 DEF File, IInv, LocalsAreGood, CacheIsGood, IsCache, SharedIsGood,
     Good, RequestsAreGood, RequestIsGood, KeyFor, IdentityOf
<1>6. ASSUME Tick PROVE IInv'
  BY <1>6 DEF Tick, IInv, LocalsAreGood, CacheIsGood, IsCache, SharedIsGood,
     Good, RequestsAreGood, RequestIsGood, KeyFor, IdentityOf
<1> QED BY <1>1, <1>2, <1>3, <1>4, <1>5, <1>6 DEF Next

LEMMA GoodIsFreshAndShareable == IInv => HitsAreFresh /\ HitsMayBeShared
<1> SUFFICES ASSUME IInv, NEW r \in Requests, req[r].pc = "hit"
             PROVE  /\ req[r].at <= req[r].entry.limit
                    /\ req[r].entry.answer.ok
                    /\ ~req[r].entry.answer.traced /\ ~req[r].traced
                    /\ PerCaller => req[r].entry.answer.by = req[r].caller
  BY DEF HitsAreFresh, HitsMayBeShared
<1>1. PICK p : p = req[r]
  OBVIOUS
<1>2. RequestIsGood(p) /\ p.pc = "hit"
  BY <1>1, InProgress DEF IInv, Steps
<1>3. /\ Good(KeyFor(p), p.entry) /\ p.at <= p.entry.expiresAt /\ ~p.traced
      /\ p.at \in Nat
  BY <1>2 DEF RequestIsGood, Request
<1>4. p.entry.expiresAt \in Nat /\ p.entry.limit \in Nat /\ p.entry.expiresAt <= p.entry.limit
  BY <1>3 DEF Good, Entry
<1>5. p.at <= p.entry.limit
  BY <1>3, <1>4
<1>6. PerCaller => KeyFor(p)[1] = p.caller
  BY DEF KeyFor, IdentityOf
<1> QED BY <1>1, <1>3, <1>5, <1>6 DEF Good

-----------------------------------------------------------------------------
(* Each machine's map and list.  What removing an element does to a list   *)
(* without duplicates is proved with the run cache, whose parameters do    *)
(* not matter to it.                                                       *)
Lists == INSTANCE RunCacheProofs WITH
    Keys <- {}, Runs <- {}, TTL <- [k \in {} |-> 0], NoRun <- Nothing,
    MaxNow <- 0, MaxReads <- 0, entries <- [k \in {} |-> 0], order <- <<>>,
    hits <- 0, misses <- 0, answer <- 0, recency <- <<>>

InStep(c) ==
    /\ c.order \in Seq(CacheKeys)
    /\ IsInjective(c.order)
    /\ Range(c.order) = DOMAIN c.entries
    /\ Len(c.order) <= MaxEntries

LEMMA UnlinkProperties ==
    ASSUME NEW S, NEW s \in Seq(S), IsInjective(s), NEW k \in Range(s)
    PROVE  /\ Unlink(s, k) \in Seq(S) /\ IsInjective(Unlink(s, k))
           /\ Len(Unlink(s, k)) = Len(s) - 1 /\ Range(Unlink(s, k)) = Range(s) \ {k}
<1>1. /\ \A t : Lists!IsInjective(t) <=> IsInjective(t)
      /\ \A t : Lists!Range(t) = Range(t)
  BY DEF Lists!IsInjective, Lists!Range, IsInjective, Range
<1>2. Lists!Unlink(s, k) = Unlink(s, k)
  BY DEF Lists!Unlink, Lists!Position, Lists!RemoveAt, Unlink, Position, RemoveAt
<1>3. [x \in {} |-> 0] \in [{} -> Int]
  OBVIOUS
<1> QED BY <1>1, <1>2, <1>3, MaxEntriesAssumption, Lists!UnlinkProperties

(* What is left of a list when its first n elements are taken away.        *)
LEMMA TailProperties ==
    ASSUME NEW S, NEW s \in Seq(S), IsInjective(s), NEW n \in 0 .. Len(s)
    PROVE  LET t == SubSeq(s, n + 1, Len(s))
           IN  /\ t \in Seq(S) /\ IsInjective(t) /\ Len(t) = Len(s) - n
               /\ Range(t) = Range(s) \ {s[i] : i \in 1 .. n}
<1> DEFINE t == SubSeq(s, n + 1, Len(s))
<1>0. Len(s) \in Nat /\ n \in Nat /\ n <= Len(s)
  OBVIOUS
<1>1. Len(s) \in Nat /\ n \in Nat /\ n <= Len(s) /\ DOMAIN s = 1 .. Len(s)
  OBVIOUS
<1>2. /\ t \in Seq(S) /\ Len(t) = Len(s) - n
      /\ \A i \in 1 .. (Len(s) - n) : t[i] = s[n + i]
  BY <1>0
<1>3. DOMAIN t = 1 .. (Len(s) - n)
  BY <1>2
<1> HIDE DEF t
<1>4. \A i, j \in 1 .. Len(s) : s[i] = s[j] => i = j
  BY <1>1 DEF IsInjective
<1>5. IsInjective(t)
  <2> SUFFICES ASSUME NEW i \in 1 .. (Len(s) - n), NEW j \in 1 .. (Len(s) - n), t[i] = t[j]
               PROVE  i = j
    BY <1>3 DEF IsInjective
  <2>1. n + i \in 1 .. Len(s) /\ n + j \in 1 .. Len(s) /\ i \in Nat /\ j \in Nat
    BY <1>1
  <2>2. n + i = n + j
    BY <1>2, <1>4, <2>1
  <2> QED BY <1>1, <2>1, <2>2
<1>6. ASSUME NEW x \in Range(t) PROVE x \in Range(s) \ {s[i] : i \in 1 .. n}
  <2>1. PICK i \in 1 .. (Len(s) - n) : x = s[n + i]
    BY <1>2, <1>3 DEF Range
  <2>2. n + i \in 1 .. Len(s) /\ n + i \notin 1 .. n
    BY <1>1
  <2>3. \A j \in 1 .. n : s[j] # x
    <3>1. \A j \in 1 .. n : j \in 1 .. Len(s)
      BY <1>1
    <3> QED BY <1>4, <2>1, <2>2, <3>1
  <2> QED BY <1>1, <2>1, <2>2, <2>3 DEF Range
<1>7. ASSUME NEW x \in Range(s) \ {s[i] : i \in 1 .. n} PROVE x \in Range(t)
  <2>1. PICK j \in 1 .. Len(s) : x = s[j] /\ j \notin 1 .. n
    BY <1>1 DEF Range
  <2>2. j - n \in 1 .. (Len(s) - n) /\ n + (j - n) = j
    BY <1>1, <2>1
  <2>3. t[j - n] = x
    BY <1>2, <2>1, <2>2
  <2> QED BY <1>3, <2>2, <2>3 DEF Range
<1>8. Range(t) = Range(s) \ {s[i] : i \in 1 .. n}
  BY <1>6, <1>7
<1> QED BY <1>2, <1>5, <1>8 DEF t

LEMMA AppendNew ==
    ASSUME NEW S, NEW s \in Seq(S), IsInjective(s), NEW k \in S, k \notin Range(s)
    PROVE  /\ Append(s, k) \in Seq(S) /\ IsInjective(Append(s, k))
           /\ Len(Append(s, k)) = Len(s) + 1 /\ Range(Append(s, k)) = Range(s) \cup {k}
<1> DEFINE t == Append(s, k)
<1>1. /\ t \in Seq(S) /\ Len(t) = Len(s) + 1 /\ Len(s) \in Nat
      /\ DOMAIN s = 1 .. Len(s) /\ DOMAIN t = 1 .. Len(s) + 1
      /\ t[Len(s) + 1] = k /\ \A i \in 1 .. Len(s) : t[i] = s[i]
  OBVIOUS
<1>2. 1 .. Len(s) + 1 = 1 .. Len(s) \cup {Len(s) + 1}
  BY <1>1
<1> HIDE DEF t
<1>3. \A i \in 1 .. Len(s) : s[i] # k
  BY <1>1 DEF Range
<1>4. IsInjective(t)
  BY <1>1, <1>2, <1>3 DEF IsInjective
<1>5. Range(t) = Range(s) \cup {k}
  BY <1>1, <1>2 DEF Range
<1> QED BY <1>1, <1>4, <1>5 DEF t

LEMMA AfterGetInStep ==
    ASSUME NEW c, NEW k, NEW t, InStep(c)
    PROVE  InStep(AfterGet(c, k, t))
<1>1. CASE k \in DOMAIN c.entries /\ ~Hit(c, k, t)
  <2>1. PICK s \in Seq(CacheKeys) : s = c.order /\ IsInjective(s) /\ k \in Range(s)
                                     /\ Range(s) = DOMAIN c.entries /\ Len(s) <= MaxEntries
    BY <1>1 DEF InStep
  <2>2. AfterGet(c, k, t) = [entries |-> Drop(c.entries, {k}), order |-> Unlink(s, k)]
    BY <1>1, <2>1 DEF AfterGet, removeLocked
  <2>3. DOMAIN Drop(c.entries, {k}) = DOMAIN c.entries \ {k}
    BY DEF Drop
  <2>4. Len(s) \in Nat /\ MaxEntries \in Nat
    BY MaxEntriesAssumption
  <2>5. /\ Unlink(s, k) \in Seq(CacheKeys) /\ IsInjective(Unlink(s, k))
        /\ Len(Unlink(s, k)) = Len(s) - 1 /\ Range(Unlink(s, k)) = Range(s) \ {k}
    BY <2>1, UnlinkProperties
  <2>6. Len(Unlink(s, k)) <= MaxEntries
    BY <2>1, <2>4, <2>5
  <2>7. PICK d : d = AfterGet(c, k, t)
    OBVIOUS
  <2>8. d.order = Unlink(s, k) /\ DOMAIN d.entries = DOMAIN c.entries \ {k}
    BY <2>2, <2>3, <2>7
  <2> QED BY <2>1, <2>5, <2>6, <2>7, <2>8 DEF InStep
<1>2. CASE ~(k \in DOMAIN c.entries /\ ~Hit(c, k, t))
  BY <1>2 DEF AfterGet
<1> QED BY <1>1, <1>2

LEMMA AfterPutInStep ==
    ASSUME NEW c, NEW k \in CacheKeys, NEW e, IsCache(c), InStep(c)
    PROVE  InStep(AfterPut(c, k, e))
<1> DEFINE S == Stored(c.entries, k, e)
<1>1. DOMAIN S = DOMAIN c.entries \cup {k}
  BY DEF Stored
<1>2. CASE k \in DOMAIN c.entries
  <2>1. AfterPut(c, k, e) = [entries |-> S, order |-> c.order]
    BY <1>2 DEF AfterPut, IsCache
  <2>2. DOMAIN S = DOMAIN c.entries
    BY <1>1, <1>2
  <2> HIDE DEF S
  <2> QED BY <2>1, <2>2 DEF InStep
<1>3. CASE k \notin DOMAIN c.entries
  <2>1. PICK s \in Seq(CacheKeys) : s = c.order /\ IsInjective(s) /\ k \notin Range(s)
                                     /\ Range(s) = DOMAIN c.entries /\ Len(s) <= MaxEntries
    BY <1>3 DEF InStep
  <2> DEFINE a == Append(s, k)
             n == IF Len(a) > MaxEntries THEN Len(a) - MaxEntries ELSE 0
             gone == {a[i] : i \in 1 .. n}
             kept == SubSeq(a, n + 1, Len(a))
  <2>2. /\ a \in Seq(CacheKeys) /\ IsInjective(a) /\ Len(a) = Len(s) + 1
        /\ Range(a) = Range(s) \cup {k}
    BY <2>1, AppendNew
  <2>3. PICK d : d = AfterPut(c, k, e)
    OBVIOUS
  <2>4. d = [entries |-> Drop(S, gone), order |-> kept]
    BY <1>3, <2>1, <2>3 DEF AfterPut, Trim
  <2>5. DOMAIN Drop(S, gone) = DOMAIN S \ gone
    BY DEF Drop
  <2>6. d.order = kept /\ DOMAIN d.entries = DOMAIN S \ gone
    BY <2>4, <2>5
  <2> HIDE DEF S, a, gone
  <2>7. n \in 0 .. Len(a) /\ Len(a) - n <= MaxEntries
    BY <2>2, MaxEntriesAssumption
  <2> HIDE DEF n
  <2>8. /\ kept \in Seq(CacheKeys) /\ IsInjective(kept) /\ Len(kept) = Len(a) - n
        /\ Range(kept) = Range(a) \ gone
    BY <2>2, <2>7, TailProperties DEF gone
  <2> HIDE DEF kept
  <2>9. Range(kept) = DOMAIN S \ gone
    BY <1>1, <2>1, <2>2, <2>8
  <2> QED BY <2>3, <2>6, <2>7, <2>8, <2>9 DEF InStep
<1> QED BY <1>2, <1>3

(* What IInv leaves out: the lists, the backend's keys and the deploys.    *)
IsStored(v) == v = [entry |-> v.entry, until |-> v.until]
Rest ==
    /\ \A m \in Machines : InStep(local[m])
    /\ DOMAIN shared \subseteq CacheKeys
    /\ \A k \in DOMAIN shared : IsStored(shared[k])
    /\ restarts \in Nat

LEMMA InitRest == Init => Rest
<1> SUFFICES ASSUME Init PROVE Rest
  OBVIOUS
<1>1. InStep(newResponseCache)
  <2>1. /\ <<>> \in Seq(CacheKeys) /\ Len(<<>>) = 0 /\ DOMAIN <<>> = {}
    OBVIOUS
  <2>2. newResponseCache.order = <<>> /\ DOMAIN newResponseCache.entries = {}
    BY DEF newResponseCache
  <2> QED BY <2>1, <2>2, MaxEntriesAssumption DEF InStep, IsInjective, Range
<1> QED BY <1>1 DEF Init, Rest

(* One machine's cache is replaced by one in step.                         *)
LEMMA OneInStep ==
    ASSUME LocalsAreGood, Rest, NEW m \in Machines, NEW c, InStep(c),
           local' = [local EXCEPT ![m] = c]
    PROVE  \A n \in Machines : InStep(local[n])'
<1>1. local' = [n \in Machines |-> IF n = m THEN c ELSE local[n]]
  BY DEF LocalsAreGood
<1> QED BY <1>1 DEF Rest, InStep, IsInjective, Range

LEMMA RestStands ==
    ASSUME Rest, UNCHANGED <<local, shared, restarts>>
    PROVE  Rest'
BY DEF Rest, InStep, IsInjective, Range, IsStored

(* A request at a step has a machine and a key.                            *)
LEMMA RequestHasKey ==
    ASSUME IInv, NEW r \in Requests, req[r].pc \in Steps
    PROVE  req[r].machine \in Machines /\ KeyOf(r) \in CacheKeys
<1>1. PICK p : p = req[r]
  OBVIOUS
<1>2. RequestIsGood(p) /\ KeyOf(r) = KeyFor(p)
  BY <1>1, InProgress DEF IInv
<1> QED BY <1>1, <1>2 DEF RequestIsGood, Request, KeyFor, IdentityOf, CacheKeys

LEMMA PutKeepsRest ==
    ASSUME IInv, Rest, NEW r \in Requests, req[r].pc \in Steps, NEW e, LocalPut(r, e),
           UNCHANGED <<shared, restarts>>
    PROVE  Rest'
<1>1. PICK m \in Machines, k \in CacheKeys : m = req[r].machine /\ k = KeyOf(r)
  BY RequestHasKey
<1>2. local' = [local EXCEPT ![m] = AfterPut(local[m], k, e)]
  BY <1>1 DEF LocalPut
<1>3. InStep(AfterPut(local[m], k, e))
  BY AfterPutInStep DEF IInv, LocalsAreGood, CacheIsGood, Rest
<1>4. \A n \in Machines : InStep(local[n])'
  BY <1>2, <1>3, OneInStep DEF IInv
<1> QED BY <1>4 DEF Rest, IsStored

LEMMA StepKeepsRest == IInv /\ Rest /\ [Next]_vars => Rest'
<1> SUFFICES ASSUME IInv, Rest, [Next]_vars PROVE Rest'
  OBVIOUS
<1>1. ASSUME NEW r \in Requests, GetLocal(r) PROVE Rest'
  <2>1. req[r].pc \in Steps /\ UNCHANGED <<shared, restarts>>
    BY <1>1 DEF GetLocal, Steps
  <2>2. PICK m \in Machines : m = req[r].machine
    BY <2>1, RequestHasKey
  <2>3. PICK c : c = AfterGet(local[m], KeyOf(r), req[r].at)
    OBVIOUS
  <2>4. local' = [local EXCEPT ![m] = c]
    BY <1>1, <2>2, <2>3 DEF GetLocal
  <2>5. InStep(c)
    BY <2>3, AfterGetInStep DEF Rest
  <2>6. \A n \in Machines : InStep(local[n])'
    BY <2>4, <2>5, OneInStep DEF IInv
  <2> QED BY <2>1, <2>6 DEF Rest, IsStored
<1>2. ASSUME NEW r \in Requests, Fill(r) PROVE Rest'
  BY <1>2, PutKeepsRest DEF Fill, Steps
<1>3. ASSUME NEW r \in Requests, PutLocal(r) PROVE Rest'
  BY <1>3, PutKeepsRest DEF PutLocal, Steps
<1>4. ASSUME NEW r \in Requests, SharedSet(r) PROVE Rest'
  <2> DEFINE v == [entry |-> encodeEntry(req[r].entry), until |-> now + req[r].ex * Second]
  <2>1. /\ req[r].pc \in Steps /\ UNCHANGED <<local, restarts>>
        /\ shared' = Stored(shared, KeyOf(r), v) \/ shared' = shared
    BY <1>4 DEF SharedSet, Steps
  <2>2. IsStored(v)
    BY DEF IsStored
  <2> HIDE DEF v
  <2>3. DOMAIN shared' \subseteq DOMAIN shared \cup {KeyOf(r)}
    BY <2>1 DEF Stored
  <2>4. DOMAIN shared' \subseteq CacheKeys
    BY <2>1, <2>3, RequestHasKey DEF Rest
  <2>5. \A k \in DOMAIN shared' : shared'[k] = v \/ (k \in DOMAIN shared /\ shared'[k] = shared[k])
    BY <2>1 DEF Stored
  <2>6. \A k \in DOMAIN shared' : IsStored(shared'[k])
    BY <2>2, <2>5 DEF Rest, IsStored
  <2> QED BY <2>1, <2>4, <2>6 DEF Rest, InStep, IsInjective, Range, IsStored
<1>5. ASSUME NEW m \in Machines, Restart(m) PROVE Rest'
  <2>1. InStep(newResponseCache)
    <3>1. /\ <<>> \in Seq(CacheKeys) /\ Len(<<>>) = 0 /\ DOMAIN <<>> = {}
      OBVIOUS
    <3>2. newResponseCache.order = <<>> /\ DOMAIN newResponseCache.entries = {}
      BY DEF newResponseCache
    <3> QED BY <3>1, <3>2, MaxEntriesAssumption DEF InStep, IsInjective, Range
  <2>2. \A n \in Machines : InStep(local[n])'
    BY <1>5, <2>1, OneInStep DEF Restart, IInv
  <2>3. restarts' \in Nat /\ shared' = shared
    BY <1>5 DEF Restart, Rest
  <2> QED BY <2>2, <2>3 DEF Rest, IsStored
<1>6. ASSUME NEW r \in Requests,
             GetShared(r) \/ ServeHit(r) \/ (\E ok \in BOOLEAN : Handler(r, ok)) \/ Send(r)
      PROVE  Rest'
  BY <1>6, RestStands DEF GetShared, ServeHit, Handler, Send
<1>7. ASSUME \/ \E r \in Requests, m \in Machines, c \in Callers, q \in Questions :
                   \E traced \in BOOLEAN : Arrive(r, m, c, q, traced)
             \/ \E q \in Questions : File(q)
             \/ Tick
             \/ UNCHANGED vars
      PROVE  Rest'
  BY <1>7, RestStands DEF Arrive, File, Tick, vars
<1> QED BY <1>1, <1>2, <1>3, <1>4, <1>5, <1>6, <1>7 DEF Next, Serve

LEMMA TypedAndInStep == IInv /\ Rest => TypeOK /\ LocalsAreConsistent
<1> SUFFICES ASSUME IInv, Rest PROVE TypeOK /\ LocalsAreConsistent
  OBVIOUS
<1>1. \A m \in Machines : /\ DOMAIN local[m].entries \subseteq CacheKeys
                          /\ \A k \in DOMAIN local[m].entries : local[m].entries[k] \in Entry
                          /\ local[m].order \in Seq(CacheKeys)
  <2> SUFFICES ASSUME NEW m \in Machines
               PROVE  /\ DOMAIN local[m].entries \subseteq CacheKeys
                      /\ \A k \in DOMAIN local[m].entries : local[m].entries[k] \in Entry
                      /\ local[m].order \in Seq(CacheKeys)
    OBVIOUS
  <2>1. local[m].order \in Seq(CacheKeys) /\ Range(local[m].order) = DOMAIN local[m].entries
    BY DEF Rest, InStep
  <2>2. PICK s \in Seq(CacheKeys) : s = local[m].order
    BY <2>1
  <2>3. Range(s) \subseteq CacheKeys
    BY DEF Range
  <2>4. DOMAIN local[m].entries \subseteq CacheKeys
    BY <2>1, <2>2, <2>3
  <2>5. \A k \in DOMAIN local[m].entries : local[m].entries[k] \in Entry
    BY DEF IInv, LocalsAreGood, CacheIsGood, Good
  <2> QED BY <2>1, <2>4, <2>5
<1>2. \A k \in DOMAIN shared : shared[k] \in [entry : Entry, until : Nat]
  BY DEF IInv, SharedIsGood, Good, Rest, IsStored
<1>3. \A r \in Requests : req[r] \in Request \cup Idle
  BY DEF IInv, RequestsAreGood, RequestIsGood
<1>4. LocalsAreConsistent
  BY DEF Rest, InStep, LocalsAreConsistent
<1> QED BY <1>1, <1>2, <1>3, <1>4 DEF IInv, Rest, TypeOK

LEMMA AllHolds == Spec => [](IInv /\ Rest)
BY InitIsGood, InitRest, StepIsGood, StepKeepsRest, PTL DEF Spec

-----------------------------------------------------------------------------
(* No caller is served a cached answer after its time to live, however     *)
(* many machines copy it to and from the backend (tieredStore.get).        *)
THEOREM CachedAnswersAreFresh == Spec => []HitsAreFresh
<1>1. IInv => HitsAreFresh
  BY GoodIsFreshAndShareable
<1> QED BY <1>1, InitIsGood, StepIsGood, PTL DEF Spec

(* Nothing caller-specific is served to the wrong person: a cached answer  *)
(* carries no provenance, is no error, and is the caller's own where       *)
(* callers do not share (withCache, cacheKey).                             *)
THEOREM CachedAnswersMayBeShared == Spec => []HitsMayBeShared
<1>1. IInv => HitsMayBeShared
  BY GoodIsFreshAndShareable
<1> QED BY <1>1, InitIsGood, StepIsGood, PTL DEF Spec

(* TypeOK for any machines, requests, callers and times to live.           *)
THEOREM TieredTypes == Spec => []TypeOK
BY AllHolds, TypedAndInStep, PTL

(* LocalsAreConsistent for any capacity and any mixture of stores, fills,  *)
(* expiries and restarts: the list never holds a key the map has lost, so  *)
(* that no eviction takes a key that is live again (removeLocked).         *)
THEOREM LocalsStayConsistent == Spec => []LocalsAreConsistent
BY AllHolds, TypedAndInStep, PTL
=============================================================================
