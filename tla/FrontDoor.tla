------------------------------ MODULE FrontDoor -----------------------------
(***************************************************************************)
(* A request on its way through the front door: httpapi/router.go          *)
(* (withCORS, withMethod, requireAuth, the limiter, withCache), the        *)
(* handler's own checks (Routes), the service, and the page that is cut    *)
(* from its answer (rest.go); and a client that follows next_page_url.     *)
(*                                                                         *)
(* The records of a route are numbered as they were published: a list that *)
(* shows the newest first grows at its front, and one that shows the oldest*)
(* first at its end, between two pages as at any other time.  A list is    *)
(* known by its length; of one in another order only its places are        *)
(* numbered, and two lengths of it need have nothing in common.  The run   *)
(* cache and the response cache stand here for RunCache and TieredCache:   *)
(* what is in them may be gone at any moment.                              *)
(***************************************************************************)
EXTENDS Routes, SequencesExt

CONSTANTS
    Parties,        \* the sets of clients that may be about at the same time
    Requests(_),    \* Requests(client): what it may ask
    WellFormed,     \* the keys that are
    AllowedKeys,    \* AuthConfig.AllowedKeys; {} is every key
    DemoKey,        \* AuthConfig.DemoMonidAPIKey
    NoKey,
    Keys,           \* every key but NoKey that is presented
    Rate, DemoRate, \* the tokens of a full bucket
    Limit,          \* the limit of a request that has one
    NoCursor, Garbled,
    MaxRuns,        \* bound: runs a handler makes for one request
    MaxLength,      \* bound: records published
    MaxRefills      \* bound: tokens that buckets regain

(* A request has a route, a key or none, and a cursor or none.             *)
ASSUME RequestsAssumption == \A p \in Parties :
    /\ IsFiniteSet(p)
    /\ \A c \in p : \A q \in Requests(c) :
           {"route", "key", "cursor"} \subseteq DOMAIN q /\ q.key \in Keys \cup {NoKey}
ASSUME KeysAssumption == NoKey \notin Keys
ASSUME CursorAssumption == NoCursor \notin Nat /\ Limit \in Nat
ASSUME RunsAssumption == MaxRuns \in Nat

VARIABLES
    party,
    length,    \* the records published so far, of every route
    held,      \* the run cache: route -> the length of the list it holds
    stored,    \* the response cache: request -> answer
    tokens,    \* bucket -> tokens
    client,    \* client -> its request
    trail,     \* client -> the pages it has read, one following the other
    charged,   \* history: bucket -> tokens taken
    paid,      \* history: wallet -> the requests that it has paid runs of
    refills

vars == <<party, length, held, stored, tokens, client, trail, charged, paid, refills>>
history == <<charged, paid, refills>>

Buckets == Keys \cup {"demo", "anonymous", "compare"}
RateOf(bucket) == IF bucket = "demo" THEN DemoRate ELSE Rate
Route(q) == restRoutes[q.route]
With(f, x, y) == [z \in DOMAIN f \cup {x} |-> IF z = x THEN y ELSE f[z]]
Without(f, x) == [z \in DOMAIN f \ {x} |-> f[z]]
NoTrail == [pages |-> 0, next |-> NoCursor]

(* The earnings of no company in particular are those of a calendar, whose *)
(* tickers are looked at as if the caller had sent them.                   *)
ReadsTheCalendar(q) == q.route = "earnings" /\ q.ticker = ""

(* Between two requests: the runs that the last one cost although it was   *)
(* refused for what it says, and whether its cursor comes last or it is    *)
(* told of the calendar's tickers.                                         *)
Refusals == {400, 404, 405}
Idle(q, status, runs) ==
    [at |-> "idle", runs |-> IF status \in Refusals THEN runs ELSE 0,
     late |-> (q.cursor = Garbled /\ q.route # "coverage") \/ ReadsTheCalendar(q)]

Init ==
    /\ party \in Parties
    /\ length = 1 /\ held = <<>> /\ stored = <<>>
    /\ tokens = [b \in Buckets |-> RateOf(b)]
    /\ client = [c \in party |-> [at |-> "idle", runs |-> 0, late |-> FALSE]]
    /\ trail = [c \in party |-> NoTrail]
    /\ charged = [b \in Buckets |-> 0]
    /\ paid = [w \in Keys \cup {DemoKey} |-> 0]
    /\ refills = 0

-----------------------------------------------------------------------------
(* authorize, or the address or key that mcp and the proxy are limited by. *)
Authorized(q) ==
    CASE q.route = "mcp" -> {[wallet |-> q.key,
                              bucket |-> IF q.key = NoKey THEN "anonymous" ELSE q.key]}
      [] q.route = "compare" -> {[wallet |-> NoKey, bucket |-> "compare"]}
      [] q.route \notin {"mcp", "compare"} /\ q.key # NoKey ->
             {[wallet |-> k, bucket |-> k] : k \in
                 {j \in {q.key} \cap WellFormed : AllowedKeys = {} \/ j \in AllowedKeys}}
      [] OTHER -> IF q.method = "GET" /\ q.ticker = "AAPL" /\ DemoKey # NoKey
                  THEN {[wallet |-> DemoKey, bucket |-> "demo"]} ELSE {}

Ends(c, status, runs) == client' = [client EXCEPT ![c] = Idle(client[c].q, status, runs)]

(* A request the gates turn away costs nothing, not even a token.          *)
TurnAway(c, q) ==
    /\ \/ q.method = "OPTIONS" /\ q.origin /\ client' = [client EXCEPT ![c] = Idle(q, 204, 0)]
       \/ ~(q.method = "OPTIONS" /\ q.origin)
          /\ Route(q).method \notin {"any", q.method}
          /\ client' = [client EXCEPT ![c] = Idle(q, 404, 0)]
       \/ Route(q).method \in {"any", q.method} /\ Authorized(q) = {}
          /\ client' = [client EXCEPT ![c] = Idle(q, 401, 0)]
    /\ UNCHANGED <<tokens, charged>>

(* chained says that the request is the link of the page before.           *)
Enter(c, q, chained) ==
    /\ Route(q).method \in {"any", q.method} /\ ~(q.method = "OPTIONS" /\ q.origin)
    /\ \E id \in Authorized(q) :
          IF tokens[id.bucket] = 0
          THEN client' = [client EXCEPT ![c] = Idle(q, 429, 0)] /\ UNCHANGED <<tokens, charged>>
          ELSE /\ tokens' = [tokens EXCEPT ![id.bucket] = @ - 1]
               /\ charged' = [charged EXCEPT ![id.bucket] = @ + 1]
               /\ client' = [client EXCEPT ![c] =
                      [at |-> "cache", q |-> q, wallet |-> id.wallet, chained |-> chained]]

Ask(c) ==
    /\ client[c].at = "idle"
    /\ \E q \in Requests(c) : TurnAway(c, q) \/ Enter(c, q, FALSE)
    /\ UNCHANGED <<length, held, stored, trail, paid, refills>>

(* nextPageURL carries every other parameter of the request forward.       *)
Follow(c) ==
    /\ client[c].at = "idle" /\ trail[c].next # NoCursor
    /\ Enter(c, [trail[c].q EXCEPT !.cursor = trail[c].next], TRUE)
    /\ UNCHANGED <<length, held, stored, trail, paid, refills>>

-----------------------------------------------------------------------------
(* What the client has read, page after page.  inOrder says that no page   *)
(* was cut from an older list than the page before it.                     *)
Read(c, answer) ==
    LET q == client[c].q
        t == trail[c]
    IN CASE client[c].chained ->
                [t EXCEPT !.pages = @ + 1, !.next = answer.next, !.last = answer.length,
                          !.read = @ + Cardinality(answer.page), !.seen = @ \cup answer.page,
                          !.inOrder = @ /\ answer.length >= t.last]
         [] ~client[c].chained /\ q.cursor = NoCursor ->
                [pages |-> 1, next |-> answer.next, q |-> q, top |-> answer.length,
                 last |-> answer.length, read |-> Cardinality(answer.page),
                 seen |-> answer.page, inOrder |-> TRUE]
         [] OTHER -> t

Answers(c, answer, runs) ==
    /\ Ends(c, 200, runs)
    /\ trail' = [trail EXCEPT ![c] = Read(c, answer)]

(* withCache: a request for provenance goes past it.  Entries are shared   *)
(* by all callers.                                                         *)
Cacheable(q) == q.method = "GET" /\ ~q.traced /\ q.route \notin {"mcp", "compare"}
CacheKey(q) == <<q.route, q.ticker, q.faults, q.cursor>>

LookUp(c) ==
    LET q == client[c].q
    IN /\ client[c].at = "cache"
       /\ IF Cacheable(q) /\ CacheKey(q) \in DOMAIN stored
          THEN Answers(c, stored[CacheKey(q)], 0)
          ELSE client' = [client EXCEPT ![c].at = "handler"] /\ UNCHANGED trail
       /\ UNCHANGED <<length, held, stored, tokens, history>>

-----------------------------------------------------------------------------
Unreadable(q) == \/ q.faults \cap Route(q).reads # {} \/ q.method \notin Insists(q.route)
                 \/ Route(q).ticker /\ q.ticker = ""

(* The handler answers by itself.                                          *)
Refuse(c) ==
    LET q == client[c].q
    IN /\ client[c].at = "handler"
       /\ \/ Unreadable(q) /\ Ends(c, Refusal(q.route, q.method, q.faults), 0)
          \/ ~Unreadable(q) /\ Route(q).cursorFirst /\ q.cursor = Garbled /\ Ends(c, 400, 0)
          \/ ~Unreadable(q) /\ q.route = "requests" /\ Ends(c, 404, 0)
          \/ ~Unreadable(q) /\ q.route = "compare" /\ \E status \in {200, 502} : Ends(c, status, 0)
          \/ ~Unreadable(q) /\ q.route = "catalogs" /\ Ends(c, 200, 0)
       /\ UNCHANGED <<length, held, stored, tokens, trail, history>>

Has(c, list, runs) ==
    client' = [client EXCEPT ![c] =
        [at |-> "respond", q |-> client[c].q, chained |-> client[c].chained,
         list |-> list, runs |-> runs]]

(* The service has what the answer needs, or makes runs, all of which the  *)
(* one wallet pays; a list that is not held costs at least one, but for a  *)
(* tool that needs none.  It may fail after it has paid: Monid refuses the *)
(* second run, or it comes back unreadable.  What the request says is      *)
(* looked at before the first, the calendar's tickers after it.            *)
Call(c) ==
    LET q == client[c].q
        wallet == client[c].wallet
    IN /\ client[c].at = "handler" /\ Route(q).calls /\ ~Unreadable(q)
       /\ ~(Route(q).cursorFirst /\ q.cursor = Garbled)
       /\ \E n \in 0 .. MaxRuns :
             /\ n > 0 => wallet # NoKey
             /\ paid' = IF n = 0 THEN paid ELSE [paid EXCEPT ![wallet] = @ + 1]
             /\ \/ q.route \in DOMAIN held /\ Has(c, held[q.route], n) /\ UNCHANGED held
                \/ /\ q.route \notin DOMAIN held /\ (n = 0 => q.route = "mcp")
                   /\ held' = With(held, q.route, length)
                   /\ Has(c, length, n)
                \/ \E kind \in ErrorKinds :
                      /\ kind \in {"input", "unsupported"} /\ n > 0 => ReadsTheCalendar(q)
                      /\ Ends(c, StatusOf(q.route, kind), n)
                      /\ UNCHANGED held
       /\ UNCHANGED <<length, stored, tokens, trail, charged, refills>>

(* Of a list of n, the place of each record, and the records shown: all of *)
(* them, or the first up to the limit.                                     *)
Place(q, n, r) == IF Route(q).order = "newest" THEN n - r ELSE r - 1
Limited(q) == q.route # "coverage" /\ "limit" \in Route(q).reads
Records(q, n) == {r \in 1 .. n : Limited(q) => Place(q, n, r) < Limit}

(* paginateValue and encodeCursor.  Slip: the cursor moves on by a page of *)
(* the other size.                                                         *)
Page(q, n, offset, size) ==
    {r \in Records(q, n) : Place(q, n, r) \in offset .. (offset + size - 1)}
NextByDefault(q, n, offset, size) ==
    IF Page(q, n, offset + size, size) = {} THEN NoCursor ELSE offset + DefaultPageSize
NextCursor(q, n, offset, size) ==
    IF Page(q, n, offset + size, size) = {} THEN NoCursor ELSE offset + size

Cut(q, n) ==
    LET offset == IF q.cursor = NoCursor THEN 0 ELSE q.cursor
        size == PageSizeFor(Route(q).envelope)
    IN IF Route(q).pages
       THEN [page |-> Page(q, n, offset, size), length |-> n,
             next |-> IF q.route = "coverage" THEN NoCursor ELSE NextCursor(q, n, offset, size)]
       ELSE [page |-> Records(q, n), length |-> n, next |-> NoCursor]

Respond(c) ==
    LET q == client[c].q
        answer == Cut(q, client[c].list)
    IN /\ client[c].at = "respond"
       /\ IF Route(q).pages /\ q.cursor = Garbled
          THEN Ends(c, 400, client[c].runs) /\ UNCHANGED <<stored, trail>>
          ELSE /\ Answers(c, answer, client[c].runs)
               /\ stored' = IF Cacheable(q) THEN With(stored, CacheKey(q), answer) ELSE stored
       /\ UNCHANGED <<length, held, tokens, history>>

-----------------------------------------------------------------------------
Publish ==
    /\ length < MaxLength /\ length' = length + 1
    /\ UNCHANGED <<held, stored, tokens, client, trail, history>>
Forget ==
    /\ \/ \E r \in DOMAIN held : held' = Without(held, r) /\ UNCHANGED stored
       \/ \E k \in DOMAIN stored : stored' = Without(stored, k) /\ UNCHANGED held
    /\ UNCHANGED <<length, tokens, client, trail, history>>
Refill(b) ==
    /\ tokens[b] < RateOf(b) /\ refills < MaxRefills
    /\ tokens' = [tokens EXCEPT ![b] = @ + 1] /\ refills' = refills + 1
    /\ UNCHANGED <<length, held, stored, client, trail, charged, paid>>

Next ==
    /\ \/ \E c \in party : Ask(c) \/ Follow(c) \/ LookUp(c) \/ Refuse(c) \/ Call(c) \/ Respond(c)
       \/ Publish \/ Forget
       \/ \E b \in Buckets : Refill(b)
    /\ UNCHANGED party

Spec == Init /\ [][Next]_vars

-----------------------------------------------------------------------------
(* A client that follows next_page_url, while the list grows and while     *)
(* others read it, misses nothing.  Of a list that shows the newest first, *)
(* unless a page comes from a copy older than the page before it, what it  *)
(* has read has no gaps, and at the last page it goes down to the list's   *)
(* last record; of one that shows the oldest first it goes up to the       *)
(* newest, whatever the pages are cut from, and nothing is read twice; and *)
(* a list in any order that did not change was read once, and all of it.   *)
PagesJoinUp == \A c \in party :
    LET t == trail[c]
        atEnd == t.next = NoCursor /\ t.q.route # "coverage"
        unchanged == t.inOrder /\ t.last = t.top
        once == t.read = Cardinality(t.seen)
        order == Route(t.q).order
    IN t.pages > 0 =>
           /\ order = "newest" /\ t.inOrder =>
                  /\ \A r \in t.seen : r .. t.top \subseteq t.seen
                  /\ atEnd => Records(t.q, t.last) \cap 1 .. t.top \subseteq t.seen
           /\ order = "oldest" =>
                  /\ \A r \in t.seen : 1 .. r \subseteq t.seen
                  /\ once /\ (atEnd => Records(t.q, t.last) \subseteq t.seen)
           /\ unchanged => once /\ (atEnd => Records(t.q, t.last) \subseteq t.seen)

(* A request that is refused for what it says has cost no run, but for one *)
(* whose cursor is looked at when its list has been fetched or one that is *)
(* blamed for a ticker of the earnings calendar; and a wallet pays for no  *)
(* more requests than its own bucket has let through, or for the operator's*)
(* the bucket of those who have no key: what is turned away, refused,      *)
(* answered from a cache or of another key's is never paid from it.        *)
RefusalsAreFree ==
    /\ \A c \in party : client[c].at = "idle" => client[c].runs = 0 \/ client[c].late
    /\ \A w \in DOMAIN paid : paid[w] <=
           (IF w \in Keys THEN charged[w] ELSE 0) + (IF w = DemoKey THEN charged["demo"] ELSE 0)
=============================================================================
