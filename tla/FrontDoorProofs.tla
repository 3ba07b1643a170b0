-------------------------- MODULE FrontDoorProofs ---------------------------
(***************************************************************************)
(* Who pays at the front door, for any clients, requests, keys and rates,  *)
(* and any number of runs to a request.  The requests that a wallet pays   *)
(* for are not bounded by its bucket alone while some are on their way: the*)
(* invariant counts those that have a token and have not asked the service *)
(* yet, each of which may still buy runs.                                  *)
(*                                                                         *)
(* And what a client has read that turns the pages of a list, whatever its *)
(* order and length, the size of its pages and the copies they are cut     *)
(* from: downwards from the newest, or upwards from the oldest.            *)
(***************************************************************************)
EXTENDS FrontDoor, FiniteSetTheorems, TLAPS

IsQuery(q) == {"route", "key", "cursor"} \subseteq DOMAIN q /\ q.key \in Keys \cup {NoKey}
Wallets == Keys \cup {DemoKey}
Charge(w) == (IF w \in Keys THEN charged[w] ELSE 0) + (IF w = DemoKey THEN charged["demo"] ELSE 0)

(* The requests that may still buy runs for the wallet.                    *)
MayPay(x, w) == x.at \in {"cache", "handler"} /\ x.wallet = w /\ w # NoKey
Due(w) == {c \in party : MayPay(client[c], w)}

(* What is known of a client at each step of its request.                  *)
ClientIsGood(x) ==
    /\ x.at = "idle" => x.runs = 0 \/ x.late
    /\ x.at # "idle" => IsQuery(x.q)
    /\ x.at \in {"cache", "handler"} => {"at", "q", "wallet", "chained"} \subseteq DOMAIN x
    /\ x.at = "respond" => ~(x.q.route = "coverage" /\ x.q.cursor = Garbled)

(* A page that leads on, or is being led on from, has a request.           *)
LeadsOn(x, t) == t.next # NoCursor \/ (x.at # "idle" /\ x.chained)
TrailIsGood(x, t) == LeadsOn(x, t) => "q" \in DOMAIN t /\ IsQuery(t.q)

Counted(w) == paid[w] + Cardinality(Due(w)) <= Charge(w)

IInv ==
    /\ IsFiniteSet(party) /\ party \in Parties
    /\ DOMAIN client = party /\ DOMAIN trail = party
    /\ \A c \in party : ClientIsGood(client[c]) /\ TrailIsGood(client[c], trail[c])
    /\ paid \in [Wallets -> Nat] /\ charged \in [Buckets -> Nat]
    /\ \A w \in Wallets : Counted(w)

-----------------------------------------------------------------------------
(* The requests due are finitely many, and losing one of them counts.      *)
LEMMA DueIsFinite ==
    ASSUME IInv, NEW w
    PROVE  IsFiniteSet(Due(w)) /\ Cardinality(Due(w)) \in Nat
<1>1. IsFiniteSet(party) /\ Due(w) \subseteq party
    BY DEF IInv, Due
<1> QED
    BY <1>1, FS_Subset, FS_CardinalityType

LEMMA WithoutOne ==
    ASSUME NEW S, IsFiniteSet(S), NEW x
    PROVE  /\ Cardinality(S \ {x}) \in Nat /\ Cardinality(S) \in Nat
           /\ Cardinality(S \ {x}) <= Cardinality(S)
           /\ x \in S => Cardinality(S \ {x}) = Cardinality(S) - 1
<1>1. Cardinality(S) \in Nat
    BY FS_CardinalityType
<1>2. CASE x \in S
    <2>1. Cardinality(S \ {x}) = Cardinality(S) - 1 /\ IsFiniteSet(S \ {x})
        BY <1>2, FS_RemoveElement
    <2>2. Cardinality(S \ {x}) \in Nat
        BY <2>1, FS_CardinalityType
    <2> QED
        BY <1>1, <1>2, <2>1, <2>2
<1>3. CASE x \notin S
    <2>1. Cardinality(S \ {x}) = Cardinality(S)
        <3>1. S \ {x} = S
            BY <1>3
        <3> QED
            BY <3>1
    <2>2. PICK n \in Nat : n = Cardinality(S)
        BY <1>1
    <2> QED
        BY <1>3, <2>1, <2>2
<1> QED
    BY <1>2, <1>3

(* What a bucket's tokens allow is a number, and more tokens allow more.   *)
LEMMA ChargeIsNat ==
    ASSUME IInv, NEW w
    PROVE  Charge(w) \in Nat
BY DEF IInv, Charge, Buckets

(* A wallet comes with its own bucket, or is the operator's and comes with *)
(* the bucket of those who have no key.                                    *)
LEMMA WalletsHaveBuckets ==
    ASSUME NEW q, IsQuery(q), NEW id \in Authorized(q)
    PROVE  /\ id = [wallet |-> id.wallet, bucket |-> id.bucket]
           /\ id.bucket \in Buckets
           /\ \/ id.wallet = NoKey
              \/ id.wallet \in Keys /\ id.bucket = id.wallet
              \/ id.wallet = DemoKey /\ id.bucket = "demo"
<1>1. CASE q.route = "mcp"
    BY <1>1 DEF Authorized, IsQuery, Buckets
<1>2. CASE q.route = "compare"
    <2>1. q.route # "mcp"
        BY <1>2
    <2>2. Authorized(q) = {[wallet |-> NoKey, bucket |-> "compare"]}
        BY <1>2, <2>1 DEF Authorized
    <2>3. id = [wallet |-> NoKey, bucket |-> "compare"]
        BY <2>2
    <2> QED
        BY <2>3 DEF Buckets
<1>3. CASE q.route # "mcp" /\ q.route # "compare" /\ q.key # NoKey
    <2>1. Authorized(q) = {[wallet |-> k, bucket |-> k] :
              k \in {j \in {q.key} \cap WellFormed : AllowedKeys = {} \/ j \in AllowedKeys}}
        BY <1>3 DEF Authorized
    <2>2. id = [wallet |-> q.key, bucket |-> q.key]
        BY <2>1
    <2> QED
        BY <1>3, <2>2 DEF IsQuery, Buckets
<1>4. CASE q.route # "mcp" /\ q.route # "compare" /\ q.key = NoKey
    <2>1. Authorized(q) = IF q.method = "GET" /\ q.ticker = "AAPL" /\ DemoKey # NoKey
                          THEN {[wallet |-> DemoKey, bucket |-> "demo"]} ELSE {}
        BY <1>4 DEF Authorized
    <2>2. id = [wallet |-> DemoKey, bucket |-> "demo"]
        BY <2>1
    <2> QED
        BY <2>2 DEF Buckets
<1> QED
    BY <1>1, <1>2, <1>3, <1>4

-----------------------------------------------------------------------------
(* A client gets a new state; the others keep theirs.                      *)
LEMMA OneClient ==
    ASSUME IInv, NEW c \in party, NEW x, client' = [client EXCEPT ![c] = x], party' = party,
           DOMAIN trail' = party, \A d \in party : d # c => trail'[d] = trail[d],
           ClientIsGood(x), TrailIsGood(x, trail'[c])
    PROVE  /\ IsFiniteSet(party') /\ party' \in Parties
           /\ DOMAIN client' = party' /\ DOMAIN trail' = party'
           /\ \A d \in party' : ClientIsGood(client'[d]) /\ TrailIsGood(client'[d], trail'[d])
           /\ \A w : Due(w)' = IF MayPay(x, w) THEN Due(w) \cup {c} ELSE Due(w) \ {c}
<1>1. /\ DOMAIN client' = party /\ client'[c] = x
      /\ \A d \in party : d # c => client'[d] = client[d]
    BY DEF IInv
<1>2. \A d \in party : ClientIsGood(client'[d]) /\ TrailIsGood(client'[d], trail'[d])
    BY <1>1 DEF IInv
<1>3. ASSUME NEW w PROVE Due(w)' = IF MayPay(x, w) THEN Due(w) \cup {c} ELSE Due(w) \ {c}
    BY <1>1 DEF Due
<1> QED
    BY <1>1, <1>2, <1>3 DEF IInv

(* A request that ends, or has its list, owes nothing any more: it may     *)
(* have paid for its runs as it went.                                      *)
LEMMA LeavesGood ==
    ASSUME IInv, NEW c \in party, NEW x, client' = [client EXCEPT ![c] = x], party' = party,
           DOMAIN trail' = party, \A d \in party : d # c => trail'[d] = trail[d],
           ClientIsGood(x), TrailIsGood(x, trail'[c]), x.at \in {"idle", "respond"},
           charged' = charged,
           \/ paid' = paid
           \/ /\ client[c].at = "handler" /\ client[c].wallet # NoKey
              /\ paid' = [paid EXCEPT ![client[c].wallet] = @ + 1]
    PROVE  IInv'
<1>1. /\ IsFiniteSet(party') /\ party' \in Parties
      /\ DOMAIN client' = party' /\ DOMAIN trail' = party'
      /\ \A d \in party' : ClientIsGood(client'[d]) /\ TrailIsGood(client'[d], trail'[d])
      /\ \A w : Due(w)' = Due(w) \ {c}
    BY OneClient DEF MayPay
<1>2. paid \in [Wallets -> Nat] /\ paid' \in [Wallets -> Nat]
    BY DEF IInv
<1>3. charged' \in [Buckets -> Nat]
    BY DEF IInv
<1>4. ASSUME NEW w \in Wallets PROVE Counted(w)'
    <2>1. PICK due, n, m : due = Due(w) /\ n = Cardinality(due) /\ m = Cardinality(due \ {c})
        OBVIOUS
    <2>2. IsFiniteSet(due)
        BY <2>1, DueIsFinite
    <2>3. n \in Nat /\ m \in Nat /\ m <= n /\ (c \in due => m = n - 1)
        BY <2>1, <2>2, WithoutOne
    <2>4. PICK p, p2, t : p = paid[w] /\ p2 = paid'[w] /\ t = Charge(w)
        OBVIOUS
    <2>5. p \in Nat /\ t \in Nat /\ p + n <= t
        BY <2>1, <2>4, ChargeIsNat DEF IInv, Counted
    <2>6. p2 = p \/ (p2 = p + 1 /\ c \in due)
        BY <1>2, <2>1, <2>4 DEF Due, MayPay
    <2>7. p2 + m <= t
        BY <2>3, <2>5, <2>6
    <2>8. Charge(w)' = t
        BY <2>4 DEF Charge
    <2>9. Cardinality(Due(w)') = m
        BY <1>1, <2>1
    <2> QED
        BY <2>4, <2>7, <2>8, <2>9 DEF Counted
<1> QED
    BY <1>1, <1>2, <1>3, <1>4 DEF IInv

(* A token is taken for every request that may come to pay.                *)
LEMMA EntersGood ==
    ASSUME IInv, NEW c \in party, client[c].at = "idle", NEW q, IsQuery(q),
           NEW chained \in BOOLEAN, Enter(c, q, chained), party' = party,
           trail' = trail, paid' = paid,
           chained => "q" \in DOMAIN trail[c] /\ IsQuery(trail[c].q)
    PROVE  IInv'
<1>1. PICK id \in Authorized(q) :
          \/ client' = [client EXCEPT ![c] = Idle(q, 429, 0)] /\ UNCHANGED <<tokens, charged>>
          \/ /\ charged' = [charged EXCEPT ![id.bucket] = @ + 1]
             /\ client' = [client EXCEPT ![c] =
                    [at |-> "cache", q |-> q, wallet |-> id.wallet, chained |-> chained]]
    BY DEF Enter
<1>2. /\ id.bucket \in Buckets
      /\ \/ id.wallet = NoKey
         \/ id.wallet \in Keys /\ id.bucket = id.wallet
         \/ id.wallet = DemoKey /\ id.bucket = "demo"
    BY WalletsHaveBuckets
<1>3. trail[c].next # NoCursor => "q" \in DOMAIN trail[c] /\ IsQuery(trail[c].q)
    BY DEF IInv, TrailIsGood, LeadsOn
<1>4. CASE client' = [client EXCEPT ![c] = Idle(q, 429, 0)] /\ UNCHANGED charged
    <2>1. PICK x : x = Idle(q, 429, 0)
        OBVIOUS
    <2>2. x.at = "idle" /\ x.runs = 0
        BY <2>1 DEF Idle, Refusals
    <2>3. ClientIsGood(x) /\ TrailIsGood(x, trail'[c])
        BY <1>3, <2>2 DEF ClientIsGood, TrailIsGood, LeadsOn
    <2> QED
        BY <1>4, <2>1, <2>2, <2>3, LeavesGood DEF IInv
<1>5. CASE /\ charged' = [charged EXCEPT ![id.bucket] = @ + 1]
           /\ client' = [client EXCEPT ![c] =
                  [at |-> "cache", q |-> q, wallet |-> id.wallet, chained |-> chained]]
    <2> DEFINE y == [at |-> "cache", q |-> q, wallet |-> id.wallet, chained |-> chained]
    <2>1. ClientIsGood(y) /\ TrailIsGood(y, trail'[c])
        BY <1>3 DEF ClientIsGood, TrailIsGood, LeadsOn
    <2>2. y.wallet = id.wallet /\ y.at = "cache"
        OBVIOUS
    <2> HIDE DEF y
    <2>3. client' = [client EXCEPT ![c] = y]
        BY <1>5 DEF y
    <2>4. DOMAIN trail' = party
        BY DEF IInv
    <2>5. /\ IsFiniteSet(party') /\ party' \in Parties
          /\ DOMAIN client' = party' /\ DOMAIN trail' = party'
          /\ \A d \in party' : ClientIsGood(client'[d]) /\ TrailIsGood(client'[d], trail'[d])
          /\ \A w : Due(w)' = IF MayPay(y, w) THEN Due(w) \cup {c} ELSE Due(w) \ {c}
        BY <2>1, <2>3, <2>4, OneClient
    <2>6. charged \in [Buckets -> Nat] /\ charged' \in [Buckets -> Nat]
        BY <1>2, <1>5 DEF IInv
    <2>7. \A b \in Buckets : charged'[b] = IF b = id.bucket THEN charged[b] + 1 ELSE charged[b]
        BY <1>5, <2>6
    <2>8. ASSUME NEW w \in Wallets PROVE Counted(w)'
        <3>1. PICK due, n : due = Due(w) /\ n = Cardinality(due)
            OBVIOUS
        <3>2. c \notin due
            BY <3>1 DEF Due, MayPay
        <3>3. IsFiniteSet(due) /\ n \in Nat /\ Cardinality(due \cup {c}) = n + 1
            BY <3>1, <3>2, DueIsFinite, FS_AddElement
        <3>4. PICK m : m = Cardinality(Due(w)') /\ (m = n \/ (m = n + 1 /\ id.wallet = w /\ w # NoKey))
            <4>1. CASE MayPay(y, w)
                <5>1. Due(w)' = due \cup {c}
                    BY <2>5, <3>1, <4>1
                <5> QED
                    BY <2>2, <3>3, <4>1, <5>1 DEF MayPay
            <4>2. CASE ~MayPay(y, w)
                <5>1. Due(w)' = due
                    BY <2>5, <3>1, <3>2, <4>2
                <5> QED
                    BY <3>1, <5>1
            <4> QED
                BY <4>1, <4>2
        <3>5. PICK p, t, t2 : p = paid[w] /\ t = Charge(w) /\ t2 = Charge(w)'
            OBVIOUS
        <3>6. p \in Nat /\ t \in Nat /\ p + n <= t
            BY <3>1, <3>5, ChargeIsNat DEF IInv, Counted
        <3>7. t2 \in Nat /\ t2 >= t /\ (id.wallet = w /\ w # NoKey => t2 >= t + 1)
            <4> DEFINE own == IF w \in Keys THEN charged[w] ELSE 0
                       own2 == IF w \in Keys THEN charged'[w] ELSE 0
                       demo == IF w = DemoKey THEN charged["demo"] ELSE 0
                       demo2 == IF w = DemoKey THEN charged'["demo"] ELSE 0
            <4>1. own \in Nat /\ demo \in Nat
                BY <2>6 DEF Buckets
            <4>2. own2 \in Nat /\ own2 >= own
                BY <2>6, <2>7 DEF Buckets
            <4>3. demo2 \in Nat /\ demo2 >= demo
                BY <2>6, <2>7 DEF Buckets
            <4>4. id.wallet = w /\ w # NoKey => own2 = own + 1 \/ demo2 = demo + 1
                BY <1>2, <2>6, <2>7 DEF Buckets
            <4>5. t = own + demo /\ t2 = own2 + demo2
                BY <3>5 DEF Charge
            <4> HIDE DEF own, own2, demo, demo2
            <4> QED
                BY <4>1, <4>2, <4>3, <4>4, <4>5
        <3>8. p + m <= t2
            BY <3>3, <3>4, <3>6, <3>7
        <3> QED
            BY <3>4, <3>5, <3>8 DEF Counted
    <2> QED
        BY <2>5, <2>6, <2>8 DEF IInv
<1> QED
    BY <1>1, <1>4, <1>5

-----------------------------------------------------------------------------
(* The gates charge nothing, and what they turn away has bought nothing.   *)
LEMMA AskHolds ==
    ASSUME IInv, NEW c \in party, Ask(c), party' = party
    PROVE  IInv'
<1>1. client[c].at = "idle" /\ UNCHANGED <<trail, paid>>
    BY DEF Ask
<1>2. PICK q \in Requests(c) : TurnAway(c, q) \/ Enter(c, q, FALSE)
    BY DEF Ask
<1>3. IsQuery(q)
    BY RequestsAssumption DEF IInv, IsQuery
<1>4. CASE Enter(c, q, FALSE)
    BY <1>1, <1>3, <1>4, EntersGood
<1>5. CASE TurnAway(c, q)
    <2>1. PICK status \in {204, 404, 401} : client' = [client EXCEPT ![c] = Idle(q, status, 0)]
        BY <1>5 DEF TurnAway
    <2>2. PICK x : x = Idle(q, status, 0)
        OBVIOUS
    <2>3. x.at = "idle" /\ x.runs = 0
        BY <2>2 DEF Idle
    <2>4. ClientIsGood(x) /\ TrailIsGood(x, trail'[c])
        BY <1>1, <2>3 DEF ClientIsGood, IInv, TrailIsGood, LeadsOn
    <2>5. charged' = charged
        BY <1>5 DEF TurnAway
    <2> QED
        BY <1>1, <2>1, <2>2, <2>3, <2>4, <2>5, LeavesGood DEF IInv
<1> QED
    BY <1>2, <1>4, <1>5

LEMMA FollowHolds ==
    ASSUME IInv, NEW c \in party, Follow(c), party' = party
    PROVE  IInv'
<1>1. client[c].at = "idle" /\ UNCHANGED <<trail, paid>>
    BY DEF Follow
<1>2. "q" \in DOMAIN trail[c] /\ IsQuery(trail[c].q)
    BY DEF Follow, IInv, TrailIsGood, LeadsOn
<1>3. PICK q : q = [trail[c].q EXCEPT !.cursor = trail[c].next]
    OBVIOUS
<1>4. IsQuery(q)
    BY <1>2, <1>3 DEF IsQuery
<1>5. Enter(c, q, TRUE)
    BY <1>3 DEF Follow
<1> QED
    BY <1>1, <1>2, <1>4, <1>5, EntersGood

(* A page is added to what a client has read; its request stays known.     *)
LEMMA ReadKeepsTheRequest ==
    ASSUME IInv, NEW c \in party, client[c].at # "idle", NEW answer,
           NEW x, x.at = "idle"
    PROVE  TrailIsGood(x, Read(c, answer))
<1> DEFINE t == trail[c]
           q == client[c].q
<1>1. IsQuery(q)
    BY DEF IInv, ClientIsGood
<1>2. CASE client[c].chained
    <2>1. "q" \in DOMAIN t /\ IsQuery(t.q)
        BY <1>2 DEF IInv, TrailIsGood, LeadsOn
    <2>2. PICK pages, read, seen, inOrder :
              Read(c, answer) = [t EXCEPT !.pages = pages, !.next = answer.next,
                  !.last = answer.length, !.read = read, !.seen = seen, !.inOrder = inOrder]
        BY <1>2 DEF Read
    <2>3. "q" \in DOMAIN Read(c, answer) /\ Read(c, answer).q = t.q
        BY <2>1, <2>2
    <2> QED
        BY <2>1, <2>3 DEF TrailIsGood
<1>3. CASE ~client[c].chained /\ q.cursor = NoCursor
    <2>1. "q" \in DOMAIN Read(c, answer) /\ Read(c, answer).q = q
        BY <1>3 DEF Read
    <2> QED
        BY <1>1, <2>1 DEF TrailIsGood
<1>4. CASE ~client[c].chained /\ q.cursor # NoCursor
    <2>1. Read(c, answer) = t
        BY <1>4 DEF Read
    <2> QED
        BY <1>4, <2>1 DEF IInv, TrailIsGood, LeadsOn
<1> QED
    BY <1>2, <1>3, <1>4

(* An answer is no refusal, whatever it cost.                              *)
LEMMA AnswersGood ==
    ASSUME IInv, NEW c \in party, client[c].at # "idle", NEW answer, NEW runs,
           Answers(c, answer, runs), party' = party, charged' = charged, paid' = paid
    PROVE  IInv'
<1>1. PICK x : x = Idle(client[c].q, 200, runs)
    OBVIOUS
<1>2. x.at = "idle" /\ x.runs = 0
    BY <1>1 DEF Idle, Refusals
<1>3. DOMAIN trail' = party /\ trail'[c] = Read(c, answer)
      /\ \A d \in party : d # c => trail'[d] = trail[d]
    BY DEF Answers, IInv
<1>4. ClientIsGood(x) /\ TrailIsGood(x, trail'[c])
    BY <1>2, <1>3, ReadKeepsTheRequest DEF ClientIsGood
<1>5. client' = [client EXCEPT ![c] = x]
    BY <1>1 DEF Answers, Ends
<1> QED
    BY <1>2, <1>3, <1>4, <1>5, LeavesGood

(* What a request that ends leaves behind: no run, or one that is late.    *)
LEMMA EndsGood ==
    ASSUME IInv, NEW c \in party, client[c].at # "idle", NEW status, NEW runs,
           Ends(c, status, runs), party' = party, trail' = trail, charged' = charged,
           status \notin Refusals \/ runs = 0 \/ Idle(client[c].q, status, runs).late,
           \/ paid' = paid
           \/ /\ client[c].at = "handler" /\ client[c].wallet # NoKey
              /\ paid' = [paid EXCEPT ![client[c].wallet] = @ + 1]
    PROVE  IInv'
<1>1. PICK x : x = Idle(client[c].q, status, runs)
    OBVIOUS
<1>2. x.at = "idle" /\ (x.runs = 0 \/ x.late)
    BY <1>1 DEF Idle
<1>3. ClientIsGood(x) /\ TrailIsGood(x, trail'[c])
    BY <1>2 DEF ClientIsGood, IInv, TrailIsGood, LeadsOn
<1>4. client' = [client EXCEPT ![c] = x]
    BY <1>1 DEF Ends
<1> QED
    BY <1>2, <1>3, <1>4, LeavesGood DEF IInv

LEMMA LookUpHolds ==
    ASSUME IInv, NEW c \in party, LookUp(c), party' = party
    PROVE  IInv'
<1>1. client[c].at = "cache" /\ charged' = charged /\ paid' = paid
    BY DEF LookUp, history
<1>2. CASE \E answer : Answers(c, answer, 0)
    BY <1>1, <1>2, AnswersGood
<1>3. CASE client' = [client EXCEPT ![c].at = "handler"] /\ UNCHANGED trail
    <2>1. {"at", "q", "wallet", "chained"} \subseteq DOMAIN client[c] /\ IsQuery(client[c].q)
        BY <1>1 DEF IInv, ClientIsGood
    <2>2. PICK x : x = [client[c] EXCEPT !.at = "handler"]
        OBVIOUS
    <2>3. /\ x.at = "handler" /\ x.q = client[c].q /\ x.wallet = client[c].wallet
          /\ x.chained = client[c].chained /\ DOMAIN x = DOMAIN client[c]
        BY <2>1, <2>2
    <2>4. client' = [client EXCEPT ![c] = x]
        BY <1>3, <2>2 DEF IInv
    <2>5. ClientIsGood(x) /\ TrailIsGood(x, trail'[c])
        BY <1>1, <1>3, <2>1, <2>3 DEF ClientIsGood, IInv, TrailIsGood, LeadsOn
    <2>6. /\ IsFiniteSet(party') /\ party' \in Parties
          /\ DOMAIN client' = party' /\ DOMAIN trail' = party'
          /\ \A d \in party' : ClientIsGood(client'[d]) /\ TrailIsGood(client'[d], trail'[d])
          /\ \A w : Due(w)' = IF MayPay(x, w) THEN Due(w) \cup {c} ELSE Due(w) \ {c}
        BY <1>3, <2>4, <2>5, OneClient DEF IInv
    <2>7. ASSUME NEW w \in Wallets PROVE Counted(w)'
        <3>1. MayPay(x, w) <=> c \in Due(w)
            BY <1>1, <2>3 DEF MayPay, Due
        <3>2. Due(w)' = Due(w)
            BY <2>6, <3>1
        <3>3. Charge(w)' = Charge(w)
            BY <1>1 DEF Charge
        <3> QED
            BY <1>1, <3>2, <3>3 DEF IInv, Counted
    <2> QED
        BY <1>1, <2>6, <2>7 DEF IInv
<1> QED
    BY <1>2, <1>3 DEF LookUp

LEMMA RefuseHolds ==
    ASSUME IInv, NEW c \in party, Refuse(c), party' = party
    PROVE  IInv'
<1>1. /\ client[c].at = "handler" /\ UNCHANGED <<trail, charged, paid>>
      /\ \E status : Ends(c, status, 0)
    BY DEF Refuse, history
<1> QED
    BY <1>1, EndsGood

LEMMA CoverageLooksAtTheCursorFirst == restRoutes["coverage"].cursorFirst
BY DEF restRoutes, CoverageRoute, Unordered, Listing

(* Runs are bought by a request that is due, and after one comes no error  *)
(* that is a refusal, but for those of the calendar.                       *)
LEMMA CallHolds ==
    ASSUME IInv, NEW c \in party, Call(c), party' = party
    PROVE  IInv'
<1>1. /\ client[c].at = "handler" /\ UNCHANGED <<trail, charged>>
      /\ ~(Route(client[c].q).cursorFirst /\ client[c].q.cursor = Garbled)
    BY DEF Call
<1>2. ASSUME NEW list, NEW runs, Has(c, list, runs),
             \/ paid' = paid
             \/ /\ client[c].wallet # NoKey
                /\ paid' = [paid EXCEPT ![client[c].wallet] = @ + 1]
      PROVE  IInv'
    <2>1. PICK x : x = [at |-> "respond", q |-> client[c].q, chained |-> client[c].chained,
                        list |-> list, runs |-> runs]
        OBVIOUS
    <2>2. x.at = "respond" /\ x.q = client[c].q /\ x.chained = client[c].chained
        BY <2>1
    <2>3. ~(client[c].q.route = "coverage" /\ client[c].q.cursor = Garbled)
        BY <1>1, CoverageLooksAtTheCursorFirst DEF Route
    <2>4. ClientIsGood(x) /\ TrailIsGood(x, trail'[c])
        BY <1>1, <2>2, <2>3 DEF IInv, ClientIsGood, TrailIsGood, LeadsOn
    <2>5. client' = [client EXCEPT ![c] = x]
        BY <1>2, <2>1 DEF Has
    <2> QED
        BY <1>1, <1>2, <2>2, <2>4, <2>5, LeavesGood DEF IInv
<1>3. ASSUME NEW kind \in ErrorKinds, NEW n \in Nat,
             kind \in {"input", "unsupported"} /\ n > 0 => ReadsTheCalendar(client[c].q),
             Ends(c, StatusOf(client[c].q.route, kind), n),
             \/ paid' = paid
             \/ /\ client[c].wallet # NoKey
                /\ paid' = [paid EXCEPT ![client[c].wallet] = @ + 1]
      PROVE  IInv'
    <2>1. PICK status : status = StatusOf(client[c].q.route, kind)
        OBVIOUS
    <2>2. status \in Refusals => kind \in {"input", "unsupported"}
        BY <2>1 DEF StatusOf, classifyError, Refusals, ErrorKinds
    <2>3. ReadsTheCalendar(client[c].q) => Idle(client[c].q, status, n).late
        BY DEF Idle
    <2>4. n = 0 \/ n > 0
        OBVIOUS
    <2>5. status \notin Refusals \/ n = 0 \/ Idle(client[c].q, status, n).late
        BY <1>3, <2>2, <2>3, <2>4
    <2>6. Ends(c, status, n)
        BY <1>3, <2>1
    <2> QED
        BY <1>1, <1>3, <2>5, <2>6, EndsGood
<1>4. PICK n \in 0 .. MaxRuns :
          /\ n > 0 => client[c].wallet # NoKey
          /\ paid' = IF n = 0 THEN paid ELSE [paid EXCEPT ![client[c].wallet] = @ + 1]
          /\ \/ \E list : Has(c, list, n)
             \/ \E kind \in ErrorKinds :
                   /\ kind \in {"input", "unsupported"} /\ n > 0 => ReadsTheCalendar(client[c].q)
                   /\ Ends(c, StatusOf(client[c].q.route, kind), n)
    BY DEF Call
<1>5. n \in Nat
    BY <1>4, RunsAssumption
<1>6. \/ paid' = paid
      \/ /\ client[c].wallet # NoKey
         /\ paid' = [paid EXCEPT ![client[c].wallet] = @ + 1]
    BY <1>4, <1>5
<1> QED
    BY <1>2, <1>3, <1>4, <1>5, <1>6

LEMMA RespondHolds ==
    ASSUME IInv, NEW c \in party, Respond(c), party' = party
    PROVE  IInv'
<1>1. client[c].at = "respond" /\ charged' = charged /\ paid' = paid
    BY DEF Respond, history
<1>2. CASE client[c].q.cursor = Garbled /\ Ends(c, 400, client[c].runs) /\ trail' = trail
    <2>1. Idle(client[c].q, 400, client[c].runs).late
        BY <1>1, <1>2 DEF Idle, IInv, ClientIsGood
    <2> QED
        BY <1>1, <1>2, <2>1, EndsGood
<1>3. CASE \E answer : Answers(c, answer, client[c].runs)
    BY <1>1, <1>3, AnswersGood
<1> QED
    BY <1>2, <1>3 DEF Respond

(* Nothing else touches a client, a wallet or what was charged.            *)
LEMMA FrameHolds ==
    ASSUME IInv, UNCHANGED <<party, client, trail, charged, paid>>
    PROVE  IInv'
<1>1. \A w : Due(w)' = Due(w) /\ Charge(w)' = Charge(w)
    BY DEF Due, Charge
<1> QED
    BY <1>1 DEF IInv, Counted

LEMMA InitHolds == Init => IInv
<1> SUFFICES ASSUME Init PROVE IInv
    OBVIOUS
<1>1. IsFiniteSet(party) /\ party \in Parties
    BY RequestsAssumption DEF Init
<1>2. /\ DOMAIN client = party /\ DOMAIN trail = party
      /\ \A c \in party : ClientIsGood(client[c]) /\ TrailIsGood(client[c], trail[c])
    BY DEF Init, ClientIsGood, TrailIsGood, LeadsOn, NoTrail
<1>3. paid \in [Wallets -> Nat] /\ charged \in [Buckets -> Nat]
    BY DEF Init, Wallets
<1>4. ASSUME NEW w \in Wallets PROVE Counted(w)
    <2>1. Due(w) = {}
        BY DEF Init, Due, MayPay
    <2>2. Cardinality(Due(w)) = 0
        BY <2>1, FS_EmptySet
    <2>3. paid[w] = 0 /\ Charge(w) = 0
        BY DEF Init, Charge, Buckets, Wallets
    <2> QED
        BY <2>2, <2>3 DEF Counted
<1> QED
    BY <1>1, <1>2, <1>3, <1>4 DEF IInv

LEMMA NextHolds == IInv /\ [Next]_vars => IInv'
<1> SUFFICES ASSUME IInv, [Next]_vars PROVE IInv'
    OBVIOUS
<1>1. ASSUME Next PROVE IInv'
    <2>0. party' = party
        BY <1>1 DEF Next
    <2>1. ASSUME NEW c \in party, Ask(c) \/ Follow(c) PROVE IInv'
        BY <2>0, <2>1, AskHolds, FollowHolds
    <2>2. ASSUME NEW c \in party, LookUp(c) \/ Refuse(c) PROVE IInv'
        BY <2>0, <2>2, LookUpHolds, RefuseHolds
    <2>3. ASSUME NEW c \in party, Call(c) \/ Respond(c) PROVE IInv'
        BY <2>0, <2>3, CallHolds, RespondHolds
    <2>4. CASE Publish \/ Forget
        BY <2>0, <2>4, FrameHolds DEF Publish, Forget, history
    <2>5. ASSUME NEW b \in Buckets, Refill(b) PROVE IInv'
        BY <2>0, <2>5, FrameHolds DEF Refill
    <2> QED
        BY <1>1, <2>1, <2>2, <2>3, <2>4, <2>5 DEF Next
<1>2. ASSUME UNCHANGED vars PROVE IInv'
    BY <1>2, FrameHolds DEF vars, history
<1> QED
    BY <1>1, <1>2

(* RefusalsAreFree for any clients, requests, keys and rates, and however  *)
(* many runs a handler makes: a request that is refused for what it says   *)
(* has cost nothing, but for a late cursor or a ticker of the calendar, and*)
(* no wallet pays for more requests than its bucket, or the demo's, has let*)
(* in.                                                                     *)
THEOREM NothingUnpaidFor == Spec => []RefusalsAreFree
<1>1. IInv => RefusalsAreFree
    <2> SUFFICES ASSUME IInv PROVE RefusalsAreFree
        OBVIOUS
    <2>1. ASSUME NEW w \in DOMAIN paid PROVE paid[w] <= Charge(w)
        <3>1. w \in Wallets /\ paid[w] \in Nat
            BY DEF IInv
        <3>2. Cardinality(Due(w)) \in Nat /\ Charge(w) \in Nat
            BY DueIsFinite, ChargeIsNat
        <3>3. paid[w] + Cardinality(Due(w)) <= Charge(w)
            BY <3>1 DEF IInv, Counted
        <3>4. PICK p, n, t \in Nat : p = paid[w] /\ n = Cardinality(Due(w)) /\ t = Charge(w)
            BY <3>1, <3>2
        <3> QED
            BY <3>3, <3>4
    <2>2. \A c \in party : client[c].at = "idle" => client[c].runs = 0 \/ client[c].late
        BY DEF IInv, ClientIsGood
    <2> QED
        BY <2>1, <2>2 DEF RefusalsAreFree, Charge
<1> QED
    BY InitHolds, NextHolds, <1>1, PTL DEF Spec
-----------------------------------------------------------------------------
(* Page after page, from the newest down.  What a client has read has no   *)
(* gap above any record of it, nor above the place where its next page     *)
(* begins.                                                                 *)
NoGaps(t) ==
    /\ t.top <= t.last
    /\ \A r \in t.seen : r .. t.top \subseteq t.seen
    /\ t.next # NoCursor => (t.last - t.next + 1) .. t.top \subseteq t.seen
    /\ t.next = NoCursor /\ t.q.route # "coverage" =>
           \A r \in Records(t.q, t.last) : r <= t.top => r \in t.seen

(* While the list stays as it was, the next page begins below it all.      *)
NoRepeats(t) ==
    /\ t.read = Cardinality(t.seen)
    /\ t.next # NoCursor => \A r \in t.seen : r > t.last - t.next

(* And upwards, whatever the pages are cut from: the records before the    *)
(* next page have been read, each of them once.                            *)
GoesUp(t) ==
    /\ t.read = Cardinality(t.seen)
    /\ \A r \in t.seen : 1 .. r \subseteq t.seen
    /\ t.next # NoCursor => t.seen = 1 .. t.next
    /\ t.next = NoCursor /\ t.q.route # "coverage" => Records(t.q, t.last) \subseteq t.seen

NewestFirst(q) == Route(q).order = "newest"
TrailFields == {"pages", "next", "q", "top", "last", "read", "seen", "inOrder"}
JoinsUp(t) ==
    /\ TrailFields \subseteq DOMAIN t
    /\ t.last \in Nat /\ t.top \in Nat /\ t.read \in Nat
    /\ t.seen \subseteq Nat /\ IsFiniteSet(t.seen)
    /\ t.next # NoCursor => t.next \in Nat /\ Route(t.q).pages /\ t.q.route # "coverage"
    /\ IF NewestFirst(t.q) THEN t.inOrder => NoGaps(t) /\ (t.last = t.top => NoRepeats(t))
       ELSE GoesUp(t)

TrailJoinsUp(t) ==
    /\ t.pages \in Nat
    /\ IF t.pages = 0 THEN t.next = NoCursor ELSE JoinsUp(t)

(* A link that is being followed is the last page's.                       *)
FollowsOn(x, t) ==
    x.at # "idle" /\ x.chained => t.next # NoCursor /\ x.q = [t.q EXCEPT !.cursor = t.next]
Fetched(x) == x.at = "respond" => x.list \in Nat

(* A kept answer is what would be cut from a list of its length.           *)
Asked(k) == [route |-> k[1], cursor |-> k[4]]
KeptAnswer(k, a) == a.length \in Nat /\ a = Cut(Asked(k), a.length)

ReadersAreGood == \A c \in party :
    TrailJoinsUp(trail[c]) /\ FollowsOn(client[c], trail[c]) /\ Fetched(client[c])
ListsAreGood ==
    /\ length \in Nat /\ \A r \in DOMAIN held : held[r] \in Nat
    /\ \A k \in DOMAIN stored : KeptAnswer(k, stored[k])

PInv == ReadersAreGood /\ ListsAreGood

-----------------------------------------------------------------------------
(* The records of a list that shows the newest first are the newest of it, *)
(* and those of another the first of it.                                   *)
LEMMA RecordsAreTheNewest ==
    ASSUME NEW q, NewestFirst(q), NEW n \in Nat
    PROVE  \E low \in Nat : Records(q, n) = low .. n
<1>1. \A r \in 1 .. n : Place(q, n, r) = n - r
    BY DEF Place, NewestFirst
<1>2. Records(q, n) = {r \in 1 .. n : Limited(q) => n - r < Limit}
    BY <1>1 DEF Records
<1>3. CASE ~Limited(q) \/ n <= Limit
    <2>1. Records(q, n) = 1 .. n
        BY <1>2, <1>3, CursorAssumption
    <2> QED
        BY <2>1
<1>4. CASE Limited(q) /\ n > Limit
    <2>1. PICK low \in Nat : low = n - Limit + 1
        BY <1>4, CursorAssumption
    <2>2. Records(q, n) = low .. n
        BY <1>2, <1>4, <2>1, CursorAssumption
    <2> QED
        BY <2>2
<1> QED
    BY <1>3, <1>4, CursorAssumption

LEMMA RecordsAreTheFirst ==
    ASSUME NEW q, ~NewestFirst(q), NEW n \in Nat
    PROVE  \E high \in Nat : Records(q, n) = 1 .. high
<1>1. \A r \in 1 .. n : Place(q, n, r) = r - 1
    BY DEF Place, NewestFirst
<1>2. Records(q, n) = {r \in 1 .. n : Limited(q) => r - 1 < Limit}
    BY <1>1 DEF Records
<1>3. CASE ~Limited(q) \/ n <= Limit
    <2>1. Records(q, n) = 1 .. n
        BY <1>2, <1>3, CursorAssumption
    <2> QED
        BY <2>1
<1>4. CASE Limited(q) /\ n > Limit
    <2>1. Records(q, n) = 1 .. Limit
        BY <1>2, <1>4, CursorAssumption
    <2> QED
        BY <2>1, CursorAssumption
<1> QED
    BY <1>3, <1>4, CursorAssumption

(* Records are numbers, and finitely many.                                 *)
LEMMA RecordsAreNumbers ==
    ASSUME NEW q, NEW n \in Nat
    PROVE  Records(q, n) \subseteq 1 .. n /\ Records(q, n) \subseteq Nat
           /\ IsFiniteSet(Records(q, n))
<1>1. Records(q, n) \subseteq 1 .. n
    BY DEF Records
<1>2. IsFiniteSet(1 .. n)
    BY FS_Interval
<1> QED
    BY <1>1, <1>2, FS_Subset

LEMMA PageSizes == ASSUME NEW q PROVE PageSizeFor(Route(q).envelope) \in Nat \ {0}
BY PageSizeAssumption DEF PageSizeFor

(* A page is the records from its place down, and when there is no next    *)
(* one it goes down to the last of them.                                   *)
LEMMA PageProperties ==
    ASSUME NEW q, NewestFirst(q), NEW n \in Nat, NEW o \in Nat, NEW s \in Nat \ {0}
    PROVE  /\ Page(q, n, o, s) \subseteq Nat /\ IsFiniteSet(Page(q, n, o, s))
           /\ \A r \in Page(q, n, o, s) : r <= n - o /\ r .. (n - o) \subseteq Page(q, n, o, s)
           /\ NextCursor(q, n, o, s) # NoCursor =>
                  /\ NextCursor(q, n, o, s) = o + s
                  /\ (n - (o + s) + 1) .. (n - o) \subseteq Page(q, n, o, s)
                  /\ \A r \in Page(q, n, o, s) : r > n - (o + s)
           /\ NextCursor(q, n, o, s) = NoCursor =>
                  \A r \in Records(q, n) : r <= n - o => r \in Page(q, n, o, s)
<1>1. PICK low \in Nat : Records(q, n) = low .. n
    BY RecordsAreTheNewest
<1>0. \A r : Place(q, n, r) = n - r
    BY DEF Place, NewestFirst
<1>2. Page(q, n, o, s) = {r \in low .. n : n - r >= o /\ n - r <= o + s - 1}
    BY <1>0, <1>1 DEF Page
<1>3. Page(q, n, o + s, s) = {r \in low .. n : n - r >= o + s /\ n - r <= o + s + s - 1}
    BY <1>0, <1>1 DEF Page
<1>4. PICK P : P = Page(q, n, o, s)
    OBVIOUS
<1>5. \A r : r \in P <=> r \in Nat /\ low <= r /\ r <= n - o /\ r >= n - (o + s) + 1
    BY <1>2, <1>4
<1>6. P \subseteq low .. n
    BY <1>2, <1>4
<1>7. IsFiniteSet(P)
    <2>1. IsFiniteSet(low .. n)
        BY FS_Interval
    <2> QED
        BY <1>6, <2>1, FS_Subset
<1>8. CASE NextCursor(q, n, o, s) # NoCursor
    <2>1. NextCursor(q, n, o, s) = o + s /\ Page(q, n, o + s, s) # {}
        BY <1>8 DEF NextCursor
    <2>2. PICK k \in low .. n : n - k >= o + s
        BY <1>3, <2>1
    <2>3. low <= n - (o + s)
        BY <2>2
    <2>4. (n - (o + s) + 1) .. (n - o) \subseteq P
        BY <1>5, <2>3
    <2>5. \A r \in P : r <= n - o /\ r .. (n - o) \subseteq P /\ r > n - (o + s)
        BY <1>5
    <2>6. P \subseteq Nat
        BY <1>5
    <2> QED
        BY <1>4, <1>7, <1>8, <2>1, <2>4, <2>5, <2>6
<1>9. CASE NextCursor(q, n, o, s) = NoCursor
    <2>1. o + s # NoCursor
        BY CursorAssumption
    <2>2. Page(q, n, o + s, s) = {}
        BY <1>9, <2>1 DEF NextCursor
    <2>3. low > n - (o + s)
        <3> SUFFICES ASSUME low <= n - (o + s) PROVE FALSE
            OBVIOUS
        <3>1. n - (o + s) \in low .. n
            OBVIOUS
        <3>2. n - (n - (o + s)) >= o + s /\ n - (n - (o + s)) <= o + s + s - 1
            OBVIOUS
        <3> QED
            BY <1>3, <2>2, <3>1, <3>2
    <2>4. \A r \in low .. n : r <= n - o => r \in P
        BY <1>5, <2>3
    <2>5. \A r \in P : r <= n - o /\ r .. (n - o) \subseteq P
        BY <1>5
    <2>6. P \subseteq Nat
        BY <1>5
    <2> QED
        BY <1>1, <1>4, <1>7, <1>9, <2>4, <2>5, <2>6
<1> QED
    BY <1>8, <1>9

(* And upwards: it begins where the page before it ended, is whole when    *)
(* there is a next one, and otherwise goes up to the list's last record.   *)
LEMMA PagePropertiesUp ==
    ASSUME NEW q, ~NewestFirst(q), NEW n \in Nat, NEW o \in Nat, NEW s \in Nat \ {0}
    PROVE  /\ Page(q, n, o, s) \subseteq Nat /\ IsFiniteSet(Page(q, n, o, s))
           /\ \A r \in Page(q, n, o, s) : r > o /\ (o + 1) .. r \subseteq Page(q, n, o, s)
           /\ NextCursor(q, n, o, s) # NoCursor =>
                  /\ NextCursor(q, n, o, s) = o + s
                  /\ Page(q, n, o, s) = (o + 1) .. (o + s)
           /\ NextCursor(q, n, o, s) = NoCursor =>
                  \A r \in Records(q, n) : r > o => r \in Page(q, n, o, s)
<1>1. PICK high \in Nat : Records(q, n) = 1 .. high
    BY RecordsAreTheFirst
<1>2. \A r : Place(q, n, r) = r - 1
    BY DEF Place, NewestFirst
<1>3. Page(q, n, o, s) = {r \in 1 .. high : r - 1 >= o /\ r - 1 <= o + s - 1}
    BY <1>1, <1>2 DEF Page
<1>4. Page(q, n, o + s, s) = {r \in 1 .. high : r - 1 >= o + s /\ r - 1 <= o + s + s - 1}
    BY <1>1, <1>2 DEF Page
<1>5. PICK P, next, R : P = Page(q, n, o, s) /\ next = NextCursor(q, n, o, s) /\ R = Records(q, n)
    OBVIOUS
<1>6. \A r : r \in P <=> r \in Nat /\ r >= o + 1 /\ r <= high /\ r <= o + s
    BY <1>3, <1>5
<1>7. P \subseteq Nat /\ IsFiniteSet(P)
    <2>1. P \subseteq 1 .. high
        BY <1>3, <1>5
    <2>2. IsFiniteSet(1 .. high)
        BY FS_Interval
    <2>3. IsFiniteSet(P)
        BY <2>1, <2>2, FS_Subset
    <2> QED
        BY <1>6, <2>3
<1>8. \A r \in P : r > o /\ (o + 1) .. r \subseteq P
    BY <1>6
<1>9. ASSUME next # NoCursor PROVE next = o + s /\ P = (o + 1) .. (o + s)
    <2>1. next = o + s /\ Page(q, n, o + s, s) # {}
        BY <1>5, <1>9 DEF NextCursor
    <2>2. PICK k \in 1 .. high : k - 1 >= o + s
        BY <1>4, <2>1
    <2>3. high >= o + s
        BY <2>2
    <2>4. ASSUME NEW r PROVE r \in P <=> r \in (o + 1) .. (o + s)
        BY <1>6, <2>3
    <2> QED
        BY <2>1, <2>4
<1>10. ASSUME next = NoCursor, NEW r \in R, r > o PROVE r \in P
    <2>1. o + s # NoCursor
        BY CursorAssumption
    <2>2. Page(q, n, o + s, s) = {}
        BY <1>5, <1>10, <2>1 DEF NextCursor
    <2>3. high <= o + s
        <3> SUFFICES ASSUME high > o + s PROVE FALSE
            OBVIOUS
        <3>1. o + s + 1 \in 1 .. high
            OBVIOUS
        <3>2. (o + s + 1) - 1 >= o + s /\ (o + s + 1) - 1 <= o + s + s - 1
            OBVIOUS
        <3> QED
            BY <1>4, <2>2, <3>1, <3>2
    <2>4. r \in 1 .. high
        BY <1>1, <1>5, <1>10
    <2> QED
        BY <1>6, <1>10, <2>3, <2>4
<1> QED
    BY <1>5, <1>7, <1>8, <1>9, <1>10

(* A page's records are numbers, and finitely many.                        *)
LEMMA PagesAreNumbers ==
    ASSUME NEW q, NEW n \in Nat, NEW o \in Nat, NEW s \in Nat \ {0}
    PROVE  Page(q, n, o, s) \subseteq Nat /\ IsFiniteSet(Page(q, n, o, s))
<1>1. CASE NewestFirst(q)
    BY <1>1, PageProperties
<1>2. CASE ~NewestFirst(q)
    BY <1>2, PagePropertiesUp
<1> QED
    BY <1>1, <1>2

(* The parts of a request that say what is cut from the list for it.       *)
LEMMA CutsAlike ==
    ASSUME NEW p, NEW q, p.route = q.route, p.cursor = q.cursor, NEW n
    PROVE  Cut(p, n) = Cut(q, n)
<1>1. Route(p) = Route(q)
    BY DEF Route
<1>0. Limited(p) = Limited(q) /\ \A r : Place(p, n, r) = Place(q, n, r)
    BY <1>1 DEF Limited, Place
<1>2. Records(p, n) = Records(q, n)
    BY <1>0 DEF Records
<1>3. \A o, s : Page(p, n, o, s) = Page(q, n, o, s)
    BY <1>0, <1>2 DEF Page
<1>4. \A o, s : NextCursor(p, n, o, s) = NextCursor(q, n, o, s)
    BY <1>3 DEF NextCursor
<1> QED
    BY <1>1, <1>2, <1>3, <1>4 DEF Cut

LEMMA CutHasLength == ASSUME NEW q, NEW n PROVE Cut(q, n).length = n
BY DEF Cut
LEMMA RecordsAlike ==
    ASSUME NEW p, NEW q, p.route = q.route
    PROVE  NewestFirst(p) = NewestFirst(q) /\ \A n : Records(p, n) = Records(q, n)
<1>1. Route(p) = Route(q)
    BY DEF Route
<1>2. Limited(p) = Limited(q) /\ \A n, r : Place(p, n, r) = Place(q, n, r)
    BY <1>1 DEF Limited, Place
<1> QED
    BY <1>1, <1>2 DEF Records, NewestFirst

(* A page joins up with what was read before it, downwards.                *)
LEMMA PageJoinsBelow ==
    ASSUME NEW t, JoinsUp(t), t.next # NoCursor, NEW q, q.route = t.q.route, NewestFirst(q),
           NEW n \in Nat, NEW s \in Nat \ {0}, NEW u, TrailFields \subseteq DOMAIN u,
           u.q = t.q, u.top = t.top, u.last = n, u.next = NextCursor(q, n, t.next, s),
           u.seen = t.seen \cup Page(q, n, t.next, s),
           u.read = t.read + Cardinality(Page(q, n, t.next, s)),
           u.inOrder <=> t.inOrder /\ n >= t.last
    PROVE  u.inOrder => NoGaps(u) /\ (u.last = u.top => NoRepeats(u))
<1>1. PICK o \in Nat : o = t.next
    BY DEF JoinsUp
<1>2. PICK P : P = Page(q, n, o, s)
    OBVIOUS
<1>3. PICK next : next = NextCursor(q, n, o, s)
    OBVIOUS
<1>4. P \subseteq Nat /\ IsFiniteSet(P) /\ \A r \in P : r <= n - o /\ r .. (n - o) \subseteq P
    BY <1>2, PageProperties
<1>5. next # NoCursor =>
          /\ next = o + s
          /\ (n - next + 1) .. (n - o) \subseteq P
          /\ \A r \in P : r > n - next
    BY <1>2, <1>3, PageProperties
<1>6. next = NoCursor => \A r \in Records(q, n) : r <= n - o => r \in P
    BY <1>2, <1>3, PageProperties
<1>7. Cardinality(P) \in Nat
    BY <1>4, FS_CardinalityType
<1>8. /\ u.next = next /\ u.seen = t.seen \cup P /\ u.read = t.read + Cardinality(P)
    BY <1>1, <1>2, <1>3
<1>9. Records(u.q, n) = Records(q, n)
    BY RecordsAlike
<1>10. t.inOrder => NoGaps(t) /\ (t.last = t.top => NoRepeats(t))
    BY RecordsAlike DEF JoinsUp
<1>11. ASSUME u.inOrder PROVE NoGaps(u)
    <2>1. PICK top, last, low, seen : top = t.top /\ last = t.last /\ low = last - o + 1 /\ seen = t.seen
        OBVIOUS
    <2>2. /\ top \in Nat /\ last \in Nat /\ top <= last /\ n >= last /\ seen \subseteq Nat
          /\ low .. top \subseteq seen
          /\ \A r \in seen : r .. top \subseteq seen
        BY <1>1, <1>10, <1>11, <2>1 DEF JoinsUp, NoGaps
    <2>3. (n - o + 1) .. top \subseteq seen
        BY <2>1, <2>2
    <2>4. ASSUME NEW r \in P PROVE r .. top \subseteq seen \cup P
        <3> SUFFICES ASSUME NEW k \in r .. top PROVE k \in seen \cup P
            OBVIOUS
        <3>1. CASE k <= n - o
            BY <1>4, <3>1
        <3>2. CASE k > n - o
            BY <1>4, <2>2, <2>3, <3>2
        <3> QED
            BY <1>4, <2>2, <3>1, <3>2
    <2>5. \A r \in seen \cup P : r .. top \subseteq seen \cup P
        BY <2>2, <2>4
    <2>6. ASSUME next # NoCursor PROVE (n - next + 1) .. top \subseteq seen \cup P
        <3> SUFFICES ASSUME NEW k \in (n - next + 1) .. top PROVE k \in seen \cup P
            OBVIOUS
        <3>1. k \in Int /\ next \in Nat
            BY <1>5, <2>2, <2>6
        <3>2. CASE k <= n - o
            BY <1>5, <2>6, <3>1, <3>2
        <3>3. CASE k > n - o
            BY <2>2, <2>3, <3>1, <3>3
        <3> QED
            BY <3>1, <3>2, <3>3
    <2>7. ASSUME next = NoCursor, NEW r \in Records(q, n), r <= top PROVE r \in seen \cup P
        <3>1. r \in Nat
            BY <2>7, RecordsAreNumbers
        <3>2. CASE r <= n - o
            BY <1>6, <2>7, <3>2
        <3>3. CASE r > n - o
            BY <2>2, <2>3, <2>7, <3>1, <3>3
        <3> QED
            BY <3>1, <3>2, <3>3
    <2>8. u.seen = seen \cup P /\ u.top = top /\ u.last = n
        BY <1>8, <2>1
    <2>9. u.next = NoCursor /\ u.q.route # "coverage" =>
              \A r \in Records(u.q, u.last) : r <= u.top => r \in u.seen
        BY <1>8, <1>9, <2>7, <2>8
    <2>10. \A r \in u.seen : r .. u.top \subseteq u.seen
        BY <2>5, <2>8
    <2>11. u.next # NoCursor => (u.last - u.next + 1) .. u.top \subseteq u.seen
        BY <1>8, <2>6, <2>8
    <2>12. u.top <= u.last
        BY <2>2, <2>8
    <2> QED
        BY <2>9, <2>10, <2>11, <2>12 DEF NoGaps
<1>12. ASSUME u.inOrder, u.last = u.top PROVE NoRepeats(u)
    <2>1. PICK seen, last : seen = t.seen /\ last = t.last
        OBVIOUS
    <2>2. last \in Nat /\ last = n /\ last = t.top
        BY <1>10, <1>12, <2>1 DEF JoinsUp, NoGaps
    <2>3. /\ t.read = Cardinality(seen) /\ IsFiniteSet(seen) /\ seen \subseteq Nat
          /\ \A r \in seen : r > n - o
        BY <1>1, <1>10, <1>12, <2>1, <2>2 DEF JoinsUp, NoRepeats
    <2>4. seen \cap P = {}
        BY <1>4, <2>3
    <2>5. Cardinality(seen \cup P) = Cardinality(seen) + Cardinality(P)
        <3>1. Cardinality(seen \cup P) =
                  Cardinality(seen) + Cardinality(P) - Cardinality(seen \cap P)
            BY <1>4, <2>3, FS_Union
        <3>2. Cardinality(seen \cap P) = 0
            BY <2>4, FS_EmptySet
        <3>3. Cardinality(seen) \in Nat
            BY <2>3, FS_CardinalityType
        <3> QED
            BY <1>7, <3>1, <3>2, <3>3
    <2>6. u.read = Cardinality(u.seen)
        BY <1>8, <2>1, <2>3, <2>5
    <2>7. next # NoCursor => \A r \in seen \cup P : r > n - next
        BY <1>5, <2>3
    <2> QED
        BY <1>8, <2>1, <2>6, <2>7 DEF NoRepeats
<1> QED
    BY <1>11, <1>12

(* Or upwards, whatever list it is cut from.                               *)
LEMMA PageJoinsAbove ==
    ASSUME NEW t, JoinsUp(t), t.next # NoCursor, NEW q, q.route = t.q.route, ~NewestFirst(q),
           NEW n \in Nat, NEW s \in Nat \ {0}, NEW u,
           u.q = t.q, u.last = n, u.next = NextCursor(q, n, t.next, s),
           u.seen = t.seen \cup Page(q, n, t.next, s),
           u.read = t.read + Cardinality(Page(q, n, t.next, s))
    PROVE  GoesUp(u)
<1>1. PICK o \in Nat : o = t.next
    BY DEF JoinsUp
<1>2. PICK P, next, R : P = Page(q, n, o, s) /\ next = NextCursor(q, n, o, s) /\ R = Records(q, n)
    OBVIOUS
<1>3. P \subseteq Nat /\ IsFiniteSet(P) /\ \A r \in P : r > o /\ (o + 1) .. r \subseteq P
    BY <1>2, PagePropertiesUp
<1>4. next # NoCursor => next = o + s /\ P = (o + 1) .. (o + s)
    BY <1>2, PagePropertiesUp
<1>5. next = NoCursor => \A r \in R : r > o => r \in P
    BY <1>2, PagePropertiesUp
<1>6. GoesUp(t)
    BY RecordsAlike DEF JoinsUp
<1>7. PICK seen : seen = t.seen /\ seen = 1 .. o /\ t.read = Cardinality(seen)
    BY <1>1, <1>6 DEF GoesUp
<1>8. u.next = next /\ u.seen = seen \cup P /\ u.read = t.read + Cardinality(P)
    BY <1>1, <1>2, <1>7
<1>9. u.read = Cardinality(u.seen)
    <2>0. IsFiniteSet(1 .. o)
        BY FS_Interval
    <2>1. IsFiniteSet(seen)
        BY <1>7, <2>0
    <2>2. PICK a \in Nat : a = Cardinality(P)
        BY <1>3, FS_CardinalityType
    <2>6. PICK b \in Nat : b = Cardinality(seen)
        BY <2>1, FS_CardinalityType
    <2>3. seen \cap P = {}
        BY <1>3, <1>7
    <2>4. Cardinality(seen \cap P) = 0
        BY <2>3, FS_EmptySet
    <2>5. Cardinality(seen \cup P) = Cardinality(seen) + Cardinality(P) - Cardinality(seen \cap P)
        BY <1>3, <2>1, FS_Union
    <2> QED
        <3>1. Cardinality(seen \cup P) = b + a
            BY <2>2, <2>4, <2>5, <2>6
        <3>2. u.read = b + a
            BY <1>7, <1>8, <2>2, <2>6
        <3>3. u.seen = seen \cup P
            BY <1>8
        <3> QED
            BY <3>1, <3>2, <3>3
<1>10. ASSUME NEW r \in seen \cup P PROVE 1 .. r \subseteq seen \cup P
    <2> SUFFICES ASSUME NEW k \in 1 .. r PROVE k \in seen \cup P
        OBVIOUS
    <2>1. CASE k <= o
        BY <1>7, <2>1
    <2>2. CASE k > o
        <3>1. r \in P
            BY <1>7, <2>2
        <3> QED
            BY <1>3, <2>2, <3>1
    <2> QED
        BY <1>3, <1>7, <2>1, <2>2
<1>11. ASSUME next # NoCursor PROVE seen \cup P = 1 .. next
    <2>1. ASSUME NEW r PROVE r \in seen \cup P <=> r \in 1 .. next
        BY <1>4, <1>7, <1>11
    <2> QED
        BY <2>1
<1>12. ASSUME next = NoCursor PROVE R \subseteq seen \cup P
    <2>1. R \subseteq 1 .. n
        BY <1>2, RecordsAreNumbers
    <2> QED
        BY <1>5, <1>7, <1>12, <2>1
<1>13. Records(u.q, u.last) = R
    BY <1>2, RecordsAlike
<1> QED
    BY <1>8, <1>9, <1>10, <1>11, <1>12, <1>13 DEF GoesUp

LEMMA PageJoinsUp ==
    ASSUME NEW t, JoinsUp(t), t.next # NoCursor, NEW q, q.route = t.q.route,
           NEW n \in Nat, NEW s \in Nat \ {0}, NEW u, TrailFields \subseteq DOMAIN u,
           u.q = t.q, u.top = t.top, u.last = n, u.next = NextCursor(q, n, t.next, s),
           u.seen = t.seen \cup Page(q, n, t.next, s),
           u.read = t.read + Cardinality(Page(q, n, t.next, s)),
           u.inOrder <=> t.inOrder /\ n >= t.last
    PROVE  JoinsUp(u)
<1>1. PICK o \in Nat : o = t.next
    BY DEF JoinsUp
<1>2. PICK P, next : P = Page(q, n, o, s) /\ next = NextCursor(q, n, o, s)
    OBVIOUS
<1>3. Page(q, n, o, s) \subseteq Nat /\ IsFiniteSet(Page(q, n, o, s))
    BY PagesAreNumbers
<1>4. P \subseteq Nat /\ IsFiniteSet(P)
    BY <1>2, <1>3
<1>5. next # NoCursor => next = o + s
    BY <1>2 DEF NextCursor
<1>7. Cardinality(P) \in Nat
    BY <1>4, FS_CardinalityType
<1>8. /\ u.next = next /\ u.seen = t.seen \cup P /\ u.read = t.read + Cardinality(P)
    BY <1>1, <1>2
<1>10. /\ u.last \in Nat /\ u.top \in Nat /\ u.read \in Nat
       /\ u.seen \subseteq Nat /\ IsFiniteSet(u.seen)
       /\ u.next # NoCursor => u.next \in Nat /\ Route(u.q).pages /\ u.q.route # "coverage"
    <2>1. IsFiniteSet(u.seen)
        <3>1. PICK seen : seen = t.seen /\ IsFiniteSet(seen)
            BY DEF JoinsUp
        <3>2. IsFiniteSet(P)
            BY <1>4
        <3>3. IsFiniteSet(seen \cup P)
            BY <3>1, <3>2, FS_Union
        <3>4. u.seen = seen \cup P
            BY <1>8, <3>1
        <3> QED
            BY <3>3, <3>4
    <2>2. u.read \in Nat
        BY <1>7, <1>8 DEF JoinsUp
    <2>3. u.next # NoCursor => u.next \in Nat
        BY <1>5, <1>8
    <2>4. Route(u.q).pages /\ u.q.route # "coverage"
        BY DEF JoinsUp
    <2> QED
        BY <1>4, <1>8, <2>1, <2>2, <2>3, <2>4 DEF JoinsUp
<1>11. NewestFirst(u.q) = NewestFirst(q)
    BY RecordsAlike
<1>12. CASE NewestFirst(q)
    <2>1. u.inOrder => NoGaps(u) /\ (u.last = u.top => NoRepeats(u))
        BY <1>12, PageJoinsBelow
    <2> QED
        BY <1>10, <1>11, <1>12, <2>1 DEF JoinsUp
<1>13. CASE ~NewestFirst(q)
    <2>1. GoesUp(u)
        BY <1>13, PageJoinsAbove
    <2> QED
        BY <1>10, <1>11, <1>13, <2>1 DEF JoinsUp
<1> QED
    BY <1>12, <1>13

(* The first page, whose place is 0.                                       *)
LEMMA FirstPageProperties ==
    ASSUME NEW q, NewestFirst(q), NEW n \in Nat, NEW s \in Nat \ {0}
    PROVE  /\ Page(q, n, 0, s) \subseteq Nat /\ IsFiniteSet(Page(q, n, 0, s))
           /\ \A r \in Page(q, n, 0, s) : r .. n \subseteq Page(q, n, 0, s)
           /\ NextCursor(q, n, 0, s) # NoCursor =>
                  /\ NextCursor(q, n, 0, s) = s
                  /\ (n - s + 1) .. n \subseteq Page(q, n, 0, s)
                  /\ \A r \in Page(q, n, 0, s) : r > n - s
           /\ NextCursor(q, n, 0, s) = NoCursor => Records(q, n) \subseteq Page(q, n, 0, s)
<1>1. PICK o \in Nat : o = 0
    OBVIOUS
<1>2. /\ Page(q, n, o, s) \subseteq Nat /\ IsFiniteSet(Page(q, n, o, s))
      /\ \A r \in Page(q, n, o, s) : r <= n - o /\ r .. (n - o) \subseteq Page(q, n, o, s)
    BY PageProperties
<1>3. NextCursor(q, n, o, s) # NoCursor =>
          /\ NextCursor(q, n, o, s) = o + s
          /\ (n - (o + s) + 1) .. (n - o) \subseteq Page(q, n, o, s)
          /\ \A r \in Page(q, n, o, s) : r > n - (o + s)
    BY PageProperties
<1>4. NextCursor(q, n, o, s) = NoCursor =>
          \A r \in Records(q, n) : r <= n - o => r \in Page(q, n, o, s)
    BY PageProperties
<1>5. n - o = n /\ o + s = s /\ \A r \in Records(q, n) : r <= n
    <2>1. PICK low \in Nat : Records(q, n) = low .. n
        BY RecordsAreTheNewest
    <2> QED
        BY <1>1, <2>1
<1> QED
    BY <1>1, <1>2, <1>3, <1>4, <1>5

LEMMA FirstPagePropertiesUp ==
    ASSUME NEW q, ~NewestFirst(q), NEW n \in Nat, NEW s \in Nat \ {0}
    PROVE  /\ \A r \in Page(q, n, 0, s) : 1 .. r \subseteq Page(q, n, 0, s)
           /\ NextCursor(q, n, 0, s) # NoCursor =>
                  NextCursor(q, n, 0, s) = s /\ Page(q, n, 0, s) = 1 .. s
           /\ NextCursor(q, n, 0, s) = NoCursor => Records(q, n) \subseteq Page(q, n, 0, s)
<1>1. PICK o \in Nat : o = 0
    OBVIOUS
<1>2. \A r \in Page(q, n, o, s) : r > o /\ (o + 1) .. r \subseteq Page(q, n, o, s)
    BY PagePropertiesUp
<1>3. NextCursor(q, n, o, s) # NoCursor =>
          NextCursor(q, n, o, s) = o + s /\ Page(q, n, o, s) = (o + 1) .. (o + s)
    BY PagePropertiesUp
<1>4. NextCursor(q, n, o, s) = NoCursor =>
          \A r \in Records(q, n) : r > o => r \in Page(q, n, o, s)
    BY PagePropertiesUp
<1>5. o + s = s /\ o + 1 = 1
    BY <1>1
<1>6. Records(q, n) \subseteq 1 .. n
    BY RecordsAreNumbers
<1> QED
    BY <1>1, <1>2, <1>3, <1>4, <1>5, <1>6

(* A first page, or an answer that is given whole.                         *)
LEMMA FirstPageJoinsUp ==
    ASSUME NEW q, q.cursor = NoCursor, NEW n \in Nat, NEW answer, answer = Cut(q, n),
           NEW u, TrailFields \subseteq DOMAIN u,
           u.q = q, u.top = n, u.last = n, u.next = answer.next,
           u.seen = answer.page, u.read = Cardinality(answer.page), u.inOrder
    PROVE  JoinsUp(u)
<1>1. PICK s \in Nat \ {0} : s = PageSizeFor(Route(q).envelope)
    BY PageSizes
<1>2. CASE Route(q).pages
    <2>1. PICK P : P = Page(q, n, 0, s)
        OBVIOUS
    <2>2. PICK next : next = NextCursor(q, n, 0, s)
        OBVIOUS
    <2>3. answer = [page |-> P, length |-> n,
                    next |-> IF q.route = "coverage" THEN NoCursor ELSE next]
        BY <1>1, <1>2, <2>1, <2>2 DEF Cut
    <2>4. u.seen = P /\ u.read = Cardinality(P)
          /\ u.next = IF q.route = "coverage" THEN NoCursor ELSE next
        BY <2>3
    <2>5. P \subseteq Nat /\ IsFiniteSet(P)
        BY <2>1, PagesAreNumbers
    <2>6. next # NoCursor => next = s
        <3>1. 0 + s = s
            OBVIOUS
        <3> QED
            BY <2>2, <3>1 DEF NextCursor
    <2>8. Cardinality(P) \in Nat
        BY <2>5, FS_CardinalityType
    <2>9. ASSUME NewestFirst(q) PROVE NoGaps(u) /\ NoRepeats(u)
        <3>4. \A r \in P : r .. n \subseteq P
            BY <2>1, <2>9, FirstPageProperties
        <3>5. next # NoCursor => (n - next + 1) .. n \subseteq P /\ \A r \in P : r > n - next
            BY <2>1, <2>2, <2>6, <2>9, FirstPageProperties
        <3>6. next = NoCursor => Records(q, n) \subseteq P
            BY <2>1, <2>2, <2>9, FirstPageProperties
        <3>1. u.next # NoCursor => (u.last - u.next + 1) .. u.top \subseteq u.seen
            BY <2>4, <3>5
        <3>2. u.next = NoCursor /\ u.q.route # "coverage" =>
                  \A r \in Records(u.q, u.last) : r <= u.top => r \in u.seen
            BY <2>4, <3>6
        <3>3. \A r \in u.seen : r .. u.top \subseteq u.seen
            BY <2>4, <3>4
        <3>7. NoGaps(u)
            BY <3>1, <3>2, <3>3 DEF NoGaps
        <3>8. NoRepeats(u)
            BY <2>4, <3>5 DEF NoRepeats
        <3> QED
            BY <3>7, <3>8
    <2>10. ASSUME ~NewestFirst(q) PROVE GoesUp(u)
        <3>1. \A r \in P : 1 .. r \subseteq P
            BY <2>1, <2>10, FirstPagePropertiesUp
        <3>2. next # NoCursor => P = 1 .. next
            BY <2>1, <2>2, <2>6, <2>10, FirstPagePropertiesUp
        <3>3. next = NoCursor => Records(q, n) \subseteq P
            BY <2>1, <2>2, <2>10, FirstPagePropertiesUp
        <3>4. u.next # NoCursor => u.seen = 1 .. u.next
            BY <2>4, <3>2
        <3>5. u.next = NoCursor /\ u.q.route # "coverage" => Records(u.q, u.last) \subseteq u.seen
            BY <2>4, <3>3
        <3> QED
            BY <2>4, <3>1, <3>4, <3>5 DEF GoesUp
    <2>11. u.next # NoCursor => u.next \in Nat /\ Route(u.q).pages /\ u.q.route # "coverage"
        BY <1>2, <2>4, <2>6
    <2>12. u.seen \subseteq Nat /\ IsFiniteSet(u.seen) /\ u.read \in Nat
        BY <2>4, <2>5, <2>8
    <2> QED
        BY <2>9, <2>10, <2>11, <2>12 DEF JoinsUp
<1>3. CASE ~Route(q).pages
    <2>1. PICK R : R = Records(q, n)
        OBVIOUS
    <2>2. answer = [page |-> R, length |-> n, next |-> NoCursor]
        BY <1>3, <2>1 DEF Cut
    <2>3. u.seen = R /\ u.read = Cardinality(R) /\ u.next = NoCursor
        BY <2>2
    <2>5. R \subseteq Nat /\ IsFiniteSet(R)
        BY <2>1, RecordsAreNumbers
    <2>6. Cardinality(R) \in Nat
        BY <2>5, FS_CardinalityType
    <2>8. ASSUME NewestFirst(q) PROVE NoGaps(u) /\ NoRepeats(u)
        <3>1. PICK low \in Nat : R = low .. n
            BY <2>1, <2>8, RecordsAreTheNewest
        <3>2. \A r \in R : r .. n \subseteq R
            BY <3>1
        <3> QED
            BY <2>1, <2>3, <3>2 DEF NoGaps, NoRepeats
    <2>9. ASSUME ~NewestFirst(q) PROVE GoesUp(u)
        <3>1. PICK high \in Nat : R = 1 .. high
            BY <2>1, <2>9, RecordsAreTheFirst
        <3>2. \A r \in R : 1 .. r \subseteq R
            BY <3>1
        <3> QED
            BY <2>1, <2>3, <3>2 DEF GoesUp
    <2> QED
        BY <2>3, <2>5, <2>6, <2>8, <2>9 DEF JoinsUp
<1> QED
    BY <1>2, <1>3

(* Whatever an answer was cut from, what its reader has read joins up.     *)
LEMMA ReadJoinsUp ==
    ASSUME IInv, PInv, NEW c \in party, client[c].at # "idle",
           NEW n \in Nat, NEW answer, answer = Cut(client[c].q, n)
    PROVE  TrailJoinsUp(Read(c, answer))
<1>1. PICK t, q : t = trail[c] /\ q = client[c].q
    OBVIOUS
<1>2. TrailJoinsUp(t) /\ answer.length = n
    BY <1>1, CutHasLength DEF PInv, ReadersAreGood
<1>3. CASE client[c].chained
    <2>1. t.next # NoCursor /\ q = [t.q EXCEPT !.cursor = t.next] /\ IsQuery(t.q)
        BY <1>1, <1>3 DEF PInv, ReadersAreGood, FollowsOn, IInv, TrailIsGood, LeadsOn
    <2>2. q.route = t.q.route /\ q.cursor = t.next
        BY <2>1 DEF IsQuery
    <2>3. t.pages \in Nat /\ t.pages # 0 /\ JoinsUp(t)
        BY <1>2, <2>1 DEF TrailJoinsUp
    <2>4. t.next \in Nat /\ Route(q).pages /\ q.route # "coverage"
        <3>1. Route(q) = Route(t.q)
            BY <2>2 DEF Route
        <3> QED
            BY <2>1, <2>2, <2>3, <3>1 DEF JoinsUp
    <2>5. PICK s \in Nat \ {0} : s = PageSizeFor(Route(q).envelope)
        BY PageSizes
    <2>6. answer = [page |-> Page(q, n, t.next, s), length |-> n, next |-> NextCursor(q, n, t.next, s)]
        BY <1>1, <2>1, <2>2, <2>4, <2>5 DEF Cut
    <2>7. PICK u : u = Read(c, answer)
        OBVIOUS
    <2>8. u = [t EXCEPT !.pages = @ + 1, !.next = answer.next, !.last = answer.length,
                        !.read = @ + Cardinality(answer.page), !.seen = @ \cup answer.page,
                        !.inOrder = @ /\ answer.length >= t.last]
        BY <1>1, <1>3, <2>7 DEF Read
    <2>9. PICK P, next : P = Page(q, n, t.next, s) /\ next = NextCursor(q, n, t.next, s)
        OBVIOUS
    <2>10. answer.page = P /\ answer.next = next
        BY <2>6, <2>9
    <2>11. TrailFields \subseteq DOMAIN t
        BY <2>3 DEF JoinsUp
    <2>12. /\ TrailFields \subseteq DOMAIN u /\ u.pages = t.pages + 1
           /\ u.q = t.q /\ u.top = t.top /\ u.last = n /\ u.next = next
           /\ u.seen = t.seen \cup P /\ u.read = t.read + Cardinality(P)
           /\ u.inOrder <=> t.inOrder /\ n >= t.last
        BY <1>2, <2>8, <2>10, <2>11 DEF TrailFields
    <2>13. JoinsUp(u)
        BY <2>1, <2>2, <2>3, <2>9, <2>12, PageJoinsUp
    <2>14. u.pages \in Nat /\ u.pages # 0
        BY <2>3, <2>12
    <2> QED
        BY <2>7, <2>13, <2>14 DEF TrailJoinsUp
<1>4. CASE ~client[c].chained /\ q.cursor = NoCursor
    <2>1. PICK u : u = Read(c, answer)
        OBVIOUS
    <2>2. u = [pages |-> 1, next |-> answer.next, q |-> q, top |-> answer.length,
               last |-> answer.length, read |-> Cardinality(answer.page),
               seen |-> answer.page, inOrder |-> TRUE]
        BY <1>1, <1>4, <2>1 DEF Read
    <2>3. JoinsUp(u)
        BY <1>1, <1>2, <1>4, <2>2, FirstPageJoinsUp DEF TrailFields
    <2> QED
        BY <2>1, <2>2, <2>3 DEF TrailJoinsUp
<1>5. CASE ~client[c].chained /\ q.cursor # NoCursor
    BY <1>1, <1>2, <1>5 DEF Read
<1> QED
    BY <1>3, <1>4, <1>5

-----------------------------------------------------------------------------
(* A client gets a new state, and perhaps another page; the others keep    *)
(* what they have read.                                                    *)
LEMMA OneReader ==
    ASSUME IInv, PInv, NEW c \in party, party' = party, NEW x, client' = [client EXCEPT ![c] = x],
           \A d \in party : d # c => trail'[d] = trail[d],
           TrailJoinsUp(trail'[c]), FollowsOn(x, trail'[c]), Fetched(x)
    PROVE  ReadersAreGood'
<1>1. client'[c] = x /\ \A d \in party : d # c => client'[d] = client[d]
    BY DEF IInv
<1>2. ASSUME NEW d \in party
      PROVE  TrailJoinsUp(trail'[d]) /\ FollowsOn(client'[d], trail'[d]) /\ Fetched(client'[d])
    BY <1>1 DEF PInv, ReadersAreGood
<1> QED
    BY <1>2 DEF ReadersAreGood

LEMMA ListsStand ==
    ASSUME PInv, UNCHANGED <<length, held, stored>>
    PROVE  ListsAreGood'
BY DEF PInv, ListsAreGood

(* A request that ends leads nowhere.                                      *)
LEMMA EndsJoinsUp ==
    ASSUME IInv, PInv, NEW c \in party, party' = party, NEW q, NEW status, NEW runs,
           client' = [client EXCEPT ![c] = Idle(q, status, runs)],
           \A d \in party : d # c => trail'[d] = trail[d], TrailJoinsUp(trail'[c])
    PROVE  ReadersAreGood'
<1>1. PICK x : x = Idle(q, status, runs)
    OBVIOUS
<1>2. x.at = "idle"
    BY <1>1 DEF Idle
<1>3. FollowsOn(x, trail'[c]) /\ Fetched(x)
    BY <1>2 DEF FollowsOn, Fetched
<1> QED
    BY <1>1, <1>3, OneReader

LEMMA EnterJoinsUp ==
    ASSUME IInv, PInv, NEW c \in party, party' = party, trail' = trail, NEW q,
           NEW chained \in BOOLEAN, Enter(c, q, chained),
           chained => trail[c].next # NoCursor /\ q = [trail[c].q EXCEPT !.cursor = trail[c].next]
    PROVE  ReadersAreGood'
<1>1. TrailJoinsUp(trail'[c])
    BY DEF PInv, ReadersAreGood
<1>2. PICK id \in Authorized(q) :
          \/ client' = [client EXCEPT ![c] = Idle(q, 429, 0)]
          \/ client' = [client EXCEPT ![c] =
                 [at |-> "cache", q |-> q, wallet |-> id.wallet, chained |-> chained]]
    BY DEF Enter
<1>3. CASE client' = [client EXCEPT ![c] = Idle(q, 429, 0)]
    BY <1>1, <1>3, EndsJoinsUp
<1>4. CASE client' = [client EXCEPT ![c] =
               [at |-> "cache", q |-> q, wallet |-> id.wallet, chained |-> chained]]
    <2>1. PICK x : x = [at |-> "cache", q |-> q, wallet |-> id.wallet, chained |-> chained]
        OBVIOUS
    <2>2. x.at = "cache" /\ x.q = q /\ x.chained = chained
        BY <2>1
    <2>3. FollowsOn(x, trail'[c]) /\ Fetched(x)
        BY <2>2 DEF FollowsOn, Fetched
    <2> QED
        BY <1>1, <1>4, <2>1, <2>3, OneReader
<1> QED
    BY <1>2, <1>3, <1>4

(* A request goes on to its next step, its trail as it was.                *)
LEMMA GoesOnJoinsUp ==
    ASSUME IInv, PInv, NEW c \in party, party' = party, trail' = trail, client[c].at # "idle",
           NEW x, client' = [client EXCEPT ![c] = x],
           x.q = client[c].q, x.chained = client[c].chained, Fetched(x)
    PROVE  ReadersAreGood'
<1>1. TrailJoinsUp(trail'[c]) /\ FollowsOn(x, trail'[c])
    BY DEF PInv, ReadersAreGood, FollowsOn
<1> QED
    BY <1>1, OneReader

LEMMA AnswersJoinUp ==
    ASSUME IInv, PInv, NEW c \in party, party' = party, client[c].at # "idle",
           NEW n \in Nat, NEW answer, answer = Cut(client[c].q, n), NEW runs,
           Answers(c, answer, runs)
    PROVE  ReadersAreGood'
<1>1. /\ client' = [client EXCEPT ![c] = Idle(client[c].q, 200, runs)]
      /\ trail' = [trail EXCEPT ![c] = Read(c, answer)]
    BY DEF Answers, Ends
<1>2. trail'[c] = Read(c, answer) /\ \A d \in party : d # c => trail'[d] = trail[d]
    BY <1>1 DEF IInv
<1>3. TrailJoinsUp(trail'[c])
    BY <1>2, ReadJoinsUp
<1> QED
    BY <1>1, <1>2, <1>3, EndsJoinsUp
(* What is kept was cut from a list, and what is looked up is the same cut *)
(* for whoever asks.                                                       *)
LEMMA KeptForAll ==
    ASSUME PInv, NEW q, CacheKey(q) \in DOMAIN stored
    PROVE  \E n \in Nat : stored[CacheKey(q)] = Cut(q, n)
<1>1. PICK k : k = CacheKey(q)
    OBVIOUS
<1>2. KeptAnswer(k, stored[k])
    BY <1>1 DEF PInv, ListsAreGood
<1>3. Asked(k).route = q.route /\ Asked(k).cursor = q.cursor
    BY <1>1 DEF Asked, CacheKey
<1>4. PICK n \in Nat : stored[k] = Cut(Asked(k), n)
    BY <1>2 DEF KeptAnswer
<1>5. Cut(Asked(k), n) = Cut(q, n)
    BY <1>3, CutsAlike
<1> QED
    BY <1>1, <1>4, <1>5

LEMMA AnswerIsKept ==
    ASSUME PInv, NEW q, NEW n \in Nat, UNCHANGED <<length, held>>,
           stored' = With(stored, CacheKey(q), Cut(q, n)) \/ stored' = stored
    PROVE  ListsAreGood'
<1>1. CASE stored' = stored
    BY <1>1, ListsStand
<1>2. CASE stored' = With(stored, CacheKey(q), Cut(q, n))
    <2>1. PICK k, a : k = CacheKey(q) /\ a = Cut(q, n)
        OBVIOUS
    <2>2. a.length = n
        BY <2>1, CutHasLength
    <2>3. Asked(k).route = q.route /\ Asked(k).cursor = q.cursor
        BY <2>1 DEF Asked, CacheKey
    <2>4. KeptAnswer(k, a)
        BY <2>1, <2>2, <2>3, CutsAlike DEF KeptAnswer
    <2>5. \A j \in DOMAIN stored' : (j = k /\ stored'[j] = a) \/ (j \in DOMAIN stored /\ stored'[j] = stored[j])
        BY <1>2, <2>1 DEF With
    <2>6. \A j \in DOMAIN stored' : KeptAnswer(j, stored'[j])
        BY <2>4, <2>5 DEF PInv, ListsAreGood
    <2> QED
        BY <2>6 DEF PInv, ListsAreGood
<1> QED
    BY <1>1, <1>2

-----------------------------------------------------------------------------
LEMMA GatesJoinUp ==
    ASSUME IInv, PInv, NEW c \in party, party' = party, Ask(c) \/ Follow(c)
    PROVE  PInv'
<1>1. trail' = trail /\ ListsAreGood'
    BY ListsStand DEF Ask, Follow
<1>2. CASE Follow(c)
    BY <1>1, <1>2, EnterJoinsUp DEF Follow, PInv
<1>3. CASE Ask(c)
    <2>1. PICK q \in Requests(c) : TurnAway(c, q) \/ Enter(c, q, FALSE)
        BY <1>3 DEF Ask
    <2>2. CASE Enter(c, q, FALSE)
        BY <1>1, <2>2, EnterJoinsUp DEF PInv
    <2>3. CASE TurnAway(c, q)
        <3>1. PICK status : client' = [client EXCEPT ![c] = Idle(q, status, 0)]
            BY <2>3 DEF TurnAway
        <3>2. TrailJoinsUp(trail'[c])
            BY <1>1 DEF PInv, ReadersAreGood
        <3>3. ReadersAreGood'
            BY <1>1, <3>1, <3>2, EndsJoinsUp
        <3> QED
            BY <1>1, <3>3 DEF PInv
    <2> QED
        BY <2>1, <2>2, <2>3
<1> QED
    BY <1>2, <1>3

LEMMA LookUpJoinsUp ==
    ASSUME IInv, PInv, NEW c \in party, party' = party, LookUp(c)
    PROVE  PInv'
<1>1. client[c].at = "cache" /\ ListsAreGood'
    BY ListsStand DEF LookUp
<1>2. CASE CacheKey(client[c].q) \in DOMAIN stored /\ Answers(c, stored[CacheKey(client[c].q)], 0)
    <2>1. PICK n \in Nat : stored[CacheKey(client[c].q)] = Cut(client[c].q, n)
        BY <1>2, KeptForAll
    <2>2. ReadersAreGood'
        BY <1>1, <1>2, <2>1, AnswersJoinUp
    <2> QED
        BY <1>1, <2>2 DEF PInv
<1>3. CASE client' = [client EXCEPT ![c].at = "handler"] /\ UNCHANGED trail
    <2>1. PICK x : x = [client[c] EXCEPT !.at = "handler"]
        OBVIOUS
    <2>2. {"at", "q", "wallet", "chained"} \subseteq DOMAIN client[c]
        BY <1>1 DEF IInv, ClientIsGood
    <2>3. x.at = "handler" /\ x.q = client[c].q /\ x.chained = client[c].chained
        BY <2>1, <2>2
    <2>4. client' = [client EXCEPT ![c] = x]
        BY <1>3, <2>1 DEF IInv
    <2>5. ReadersAreGood'
        BY <1>1, <1>3, <2>3, <2>4, GoesOnJoinsUp DEF Fetched
    <2> QED
        BY <1>1, <2>5 DEF PInv
<1> QED
    BY <1>2, <1>3 DEF LookUp

(* A handler that refuses or fails ends the request; a list it has got is  *)
(* a length there has been.                                                *)
LEMMA FailureJoinsUp ==
    ASSUME IInv, PInv, NEW c \in party, party' = party, NEW status, NEW runs,
           Ends(c, status, runs), trail' = trail
    PROVE  ReadersAreGood'
<1>1. TrailJoinsUp(trail'[c])
    BY DEF PInv, ReadersAreGood
<1> QED
    BY <1>1, EndsJoinsUp DEF Ends

LEMMA RefuseJoinsUp ==
    ASSUME IInv, PInv, NEW c \in party, party' = party, Refuse(c)
    PROVE  PInv'
<1>1. ListsAreGood' /\ trail' = trail /\ \E status : Ends(c, status, 0)
    BY ListsStand DEF Refuse
<1>2. ReadersAreGood'
    BY <1>1, FailureJoinsUp
<1> QED
    BY <1>1, <1>2 DEF PInv

LEMMA CallJoinsUp ==
    ASSUME IInv, PInv, NEW c \in party, party' = party, Call(c)
    PROVE  PInv'
<1>1. /\ client[c].at = "handler" /\ UNCHANGED <<length, stored, trail>>
      /\ held' = held \/ held' = With(held, client[c].q.route, length)
    BY DEF Call
<1>2. \A r \in DOMAIN held' : held'[r] \in Nat
    BY <1>1 DEF With, PInv, ListsAreGood
<1>3. ListsAreGood'
    BY <1>1, <1>2 DEF PInv, ListsAreGood
<1>4. \/ \E n \in Nat : \E runs : Has(c, n, runs)
      \/ \E status, runs : Ends(c, status, runs)
    <2>1. PICK runs :
              \/ client[c].q.route \in DOMAIN held /\ Has(c, held[client[c].q.route], runs)
              \/ Has(c, length, runs)
              \/ \E status : Ends(c, status, runs)
        BY DEF Call
    <2>2. length \in Nat /\ \A r \in DOMAIN held : held[r] \in Nat
        BY DEF PInv, ListsAreGood
    <2> QED
        BY <2>1, <2>2
<1>5. CASE \E status, runs : Ends(c, status, runs)
    BY <1>1, <1>3, <1>5, FailureJoinsUp DEF PInv
<1>6. ASSUME NEW n \in Nat, NEW runs, Has(c, n, runs) PROVE ReadersAreGood'
    <2>1. PICK x : x = [at |-> "respond", q |-> client[c].q, chained |-> client[c].chained,
                        list |-> n, runs |-> runs]
        OBVIOUS
    <2>2. x.q = client[c].q /\ x.chained = client[c].chained /\ Fetched(x)
        BY <2>1 DEF Fetched
    <2> QED
        BY <1>1, <1>6, <2>1, <2>2, GoesOnJoinsUp DEF Has
<1> QED
    BY <1>3, <1>4, <1>5, <1>6 DEF PInv

LEMMA RespondJoinsUp ==
    ASSUME IInv, PInv, NEW c \in party, party' = party, Respond(c)
    PROVE  PInv'
<1>1. client[c].at = "respond" /\ UNCHANGED <<length, held>>
    BY DEF Respond
<1>2. PICK q : q = client[c].q
    OBVIOUS
<1>3. PICK n \in Nat : n = client[c].list
    BY <1>1 DEF PInv, ReadersAreGood, Fetched
<1>4. CASE Ends(c, 400, client[c].runs) /\ UNCHANGED <<stored, trail>>
    BY <1>1, <1>4, FailureJoinsUp, ListsStand DEF PInv
<1>5. CASE /\ Answers(c, Cut(q, n), client[c].runs)
           /\ stored' = IF Cacheable(q) THEN With(stored, CacheKey(q), Cut(q, n)) ELSE stored
    <2>1. ReadersAreGood'
        BY <1>1, <1>2, <1>5, <1>3, AnswersJoinUp
    <2>2. ListsAreGood'
        BY <1>1, <1>5, AnswerIsKept
    <2> QED
        BY <2>1, <2>2 DEF PInv
<1> QED
    BY <1>2, <1>4, <1>5, <1>3 DEF Respond

(* The list grows, or a cache loses what it held.                          *)
LEMMA WorldJoinsUp ==
    ASSUME PInv, party' = party, Publish \/ Forget \/ (\E b \in Buckets : Refill(b)) \/ UNCHANGED vars
    PROVE  PInv'
<1>1. client' = client /\ trail' = trail
    BY DEF Publish, Forget, Refill, vars
<1>2. ReadersAreGood'
    BY <1>1 DEF PInv, ReadersAreGood
<1>3. CASE Publish
    BY <1>2, <1>3 DEF Publish, PInv, ListsAreGood
<1>4. CASE Forget
    <2>1. length' = length
        BY <1>4 DEF Forget
    <2>2. \A r \in DOMAIN held' : r \in DOMAIN held /\ held'[r] = held[r]
        BY <1>4 DEF Forget, Without
    <2>3. \A k \in DOMAIN stored' : k \in DOMAIN stored /\ stored'[k] = stored[k]
        BY <1>4 DEF Forget, Without
    <2> QED
        BY <1>2, <2>1, <2>2, <2>3 DEF PInv, ListsAreGood
<1>5. CASE (\E b \in Buckets : Refill(b)) \/ UNCHANGED vars
    BY <1>2, <1>5, ListsStand DEF Refill, vars, PInv
<1> QED
    BY <1>3, <1>4, <1>5

LEMMA InitJoinsUp == Init => PInv
<1> SUFFICES ASSUME Init PROVE PInv
    OBVIOUS
<1>1. ReadersAreGood
    BY DEF Init, ReadersAreGood, TrailJoinsUp, NoTrail, FollowsOn, Fetched
<1>2. ListsAreGood
    BY DEF Init, ListsAreGood
<1> QED
    BY <1>1, <1>2 DEF PInv

LEMMA NextJoinsUp == IInv /\ PInv /\ [Next]_vars => PInv'
<1> SUFFICES ASSUME IInv, PInv, [Next]_vars PROVE PInv'
    OBVIOUS
<1>1. party' = party
    BY DEF Next, vars
<1>2. ASSUME NEW c \in party,
             Ask(c) \/ Follow(c) \/ LookUp(c) \/ Refuse(c) \/ Call(c) \/ Respond(c)
      PROVE  PInv'
    BY <1>1, <1>2, GatesJoinUp, LookUpJoinsUp, RefuseJoinsUp, CallJoinsUp, RespondJoinsUp
<1> QED
    BY <1>1, <1>2, WorldJoinsUp DEF Next

(* PagesJoinUp for any clients and requests, page sizes and limits, and    *)
(* any growth of the list and any losses of the caches between the pages:  *)
(* following next_page_url leaves nothing out, reads down to the last      *)
(* record or up to the newest, and reads a list that stays as it is once;  *)
(* upwards it reads nothing twice whatever the list does meanwhile.        *)
THEOREM NoPageIsMissed == Spec => []PagesJoinUp
<1>1. PInv => PagesJoinUp
    <2> SUFFICES ASSUME PInv, NEW c \in party, NEW t, t = trail[c], t.pages > 0
                 PROVE  LET atEnd == t.next = NoCursor /\ t.q.route # "coverage"
                            unchanged == t.inOrder /\ t.last = t.top
                            once == t.read = Cardinality(t.seen)
                            order == Route(t.q).order
                        IN /\ order = "newest" /\ t.inOrder =>
                                  /\ \A r \in t.seen : r .. t.top \subseteq t.seen
                                  /\ atEnd => Records(t.q, t.last) \cap 1 .. t.top \subseteq t.seen
                           /\ order = "oldest" =>
                                  /\ \A r \in t.seen : 1 .. r \subseteq t.seen
                                  /\ once /\ (atEnd => Records(t.q, t.last) \subseteq t.seen)
                           /\ unchanged => once /\ (atEnd => Records(t.q, t.last) \subseteq t.seen)
        BY DEF PagesJoinUp
    <2>1. t.pages # 0 /\ JoinsUp(t)
        BY DEF PInv, ReadersAreGood, TrailJoinsUp
    <2>2. CASE NewestFirst(t.q)
        <3>1. t.inOrder => NoGaps(t) /\ (t.last = t.top => NoRepeats(t))
            BY <2>1, <2>2 DEF JoinsUp
        <3>2. t.last \in Nat /\ t.top \in Nat
            BY <2>1 DEF JoinsUp
        <3>3. Records(t.q, t.last) \subseteq 1 .. t.last
            BY <3>2, RecordsAreNumbers
        <3>4. t.inOrder /\ t.next = NoCursor /\ t.q.route # "coverage" =>
                  Records(t.q, t.last) \cap 1 .. t.top \subseteq t.seen
            BY <3>1, <3>2 DEF NoGaps
        <3>5. t.inOrder => \A r \in t.seen : r .. t.top \subseteq t.seen
            BY <3>1 DEF NoGaps
        <3>6. t.inOrder /\ t.last = t.top => t.read = Cardinality(t.seen)
            BY <3>1 DEF NoRepeats
        <3> QED
            BY <2>2, <3>3, <3>4, <3>5, <3>6 DEF NewestFirst
    <2>3. CASE ~NewestFirst(t.q)
        <3>1. GoesUp(t)
            BY <2>1, <2>3 DEF JoinsUp
        <3> QED
            BY <2>3, <3>1 DEF GoesUp, NewestFirst
    <2> QED
        BY <2>2, <2>3
<1> QED
    BY InitHolds, NextHolds, InitJoinsUp, NextJoinsUp, <1>1, PTL DEF Spec
=============================================================================
