------------------------------ MODULE RunCache ------------------------------
(***************************************************************************)
(* service/cache.go: the process-wide cache of Monid run results, a        *)
(* bounded LRU list with a time to live per entry.  Every method holds the *)
(* cache's mutex from its first line to its last, so each is one action.   *)
(*                                                                         *)
(* The Go cache is two structures kept in step by hand: a map from key to  *)
(* list element, and a list ordered from most to least recently used.      *)
(* They are two variables here, changed by each action the way the code    *)
(* changes them, so that their agreement is a property and not a premise.  *)
(***************************************************************************)
EXTENDS Integers, FiniteSets, Sequences, SequencesExt

CONSTANTS
    Keys,         \* cacheKey values: provider, endpoint and sorted input
    Runs,         \* run results
    MaxEntries,   \* NewRunCache's maxEntries, which it raises to 1
    TTL,          \* cacheTTLFor of the key's endpoint, in ticks
    NoRun,
    MaxNow,       \* bound: the clock stops here
    MaxReads      \* bound: the number of Gets

ASSUME MaxEntriesAssumption == MaxEntries \in Nat \ {0}
ASSUME TTLAssumption == TTL \in [Keys -> Int]
ASSUME NoRunAssumption == NoRun \notin Runs

VARIABLES
    entries,      \* the map: key -> [run, expiresAt]
    order,        \* the list of the keys, front = most recently used
    hits,         \* RunCache.Hits
    misses,       \* RunCache.Misses
    answer,       \* what the last Get returned
    now,          \* time.Now()
    recency       \* history: every key ever used, most recently used first

cacheVars == <<entries, order, hits, misses, answer, recency>>
vars == <<cacheVars, now>>

Entry == [run : Runs, expiresAt : Nat]

(* The list without its element for key k: container/list's Remove.        *)
Position(s, k) == CHOOSE i \in DOMAIN s : s[i] = k
Unlink(s, k) == RemoveAt(s, Position(s, k))
MoveToFront(s, k) == <<k>> \o (IF k \in Range(s) THEN Unlink(s, k) ELSE s)

Drop(f, K) == Restrict(f, DOMAIN f \ K)

Init ==
    /\ entries = [k \in {} |-> NoRun]
    /\ order = <<>>
    /\ hits = 0 /\ misses = 0
    /\ answer = NoRun
    /\ now = 0
    /\ recency = <<>>

-----------------------------------------------------------------------------
(* Slips: wrong forms of the methods below that the properties must tell   *)
(* from the code.  No action uses them.                                    *)
LiveWhilePresent(k) == k \in DOMAIN entries

ExpireWithoutUnlink(k) ==
    /\ k \in DOMAIN entries
    /\ entries[k].expiresAt <= now
    /\ entries' = Drop(entries, {k})
    /\ misses' = misses + 1
    /\ answer' = NoRun
    /\ UNCHANGED <<order, hits, recency>>

HitInPlace(k) ==
    /\ k \in DOMAIN entries /\ entries[k].expiresAt > now
    /\ hits' = hits + 1
    /\ answer' = entries[k].run
    /\ recency' = MoveToFront(recency, k)
    /\ UNCHANGED <<entries, order, misses>>

HitRenews(k) ==
    /\ k \in DOMAIN entries /\ entries[k].expiresAt > now
    /\ entries' = [entries EXCEPT ![k].expiresAt = now + TTL[k]]
    /\ order' = MoveToFront(order, k)
    /\ hits' = hits + 1
    /\ answer' = entries[k].run
    /\ recency' = MoveToFront(recency, k)
    /\ UNCHANGED misses

PutAnyTTL(k, run) ==
    /\ entries' = [x \in DOMAIN entries \cup {k} |->
                       IF x = k THEN [run |-> run, expiresAt |-> now + TTL[k]]
                       ELSE entries[x]]
    /\ order' = MoveToFront(order, k)
    /\ recency' = MoveToFront(recency, k)
    /\ UNCHANGED <<hits, misses, answer>>
-----------------------------------------------------------------------------
Live(k) == k \in DOMAIN entries /\ entries[k].expiresAt > now

GetAbsent(k) ==
    /\ k \notin DOMAIN entries
    /\ misses' = misses + 1
    /\ answer' = NoRun
    /\ UNCHANGED <<entries, order, hits, recency>>

GetExpired(k) ==
    /\ k \in DOMAIN entries
    /\ ~Live(k)
    /\ order' = Unlink(order, k)
    /\ entries' = Drop(entries, {k})
    /\ misses' = misses + 1
    /\ answer' = NoRun
    /\ UNCHANGED <<hits, recency>>

GetLive(k) ==
    /\ Live(k)
    /\ order' = MoveToFront(order, k)
    /\ hits' = hits + 1
    /\ answer' = entries[k].run
    /\ recency' = MoveToFront(recency, k)
    /\ UNCHANGED <<entries, misses>>

Get(k) == GetAbsent(k) \/ GetExpired(k) \/ GetLive(k)

(* The keys at the back of the list that do not fit: what Put's loop       *)
(* removes while the map is larger than maxEntries.                        *)
Overflow(s) == {s[i] : i \in {j \in DOMAIN s : j > MaxEntries}}

Put(k, run) ==
    IF TTL[k] <= 0
    THEN UNCHANGED cacheVars
    ELSE LET stored == [x \in DOMAIN entries \cup {k} |->
                            IF x = k THEN [run |-> run, expiresAt |-> now + TTL[k]]
                            ELSE entries[x]]
             linked == MoveToFront(order, k)
         IN  /\ entries' = Drop(stored, Overflow(linked))
             /\ order' = SubSeq(linked, 1, IF Len(linked) > MaxEntries
                                           THEN MaxEntries ELSE Len(linked))
             /\ recency' = MoveToFront(recency, k)
             /\ UNCHANGED <<hits, misses, answer>>

Clear ==
    /\ entries' = [k \in {} |-> NoRun]
    /\ order' = <<>>
    /\ recency' = <<>>
    /\ UNCHANGED <<hits, misses, answer>>

Tick ==
    /\ now < MaxNow
    /\ now' = now + 1
    /\ UNCHANGED cacheVars

Next ==
    \/ \E k \in Keys : hits + misses < MaxReads /\ Get(k) /\ UNCHANGED now
    \/ \E k \in Keys, r \in Runs : Put(k, r) /\ UNCHANGED now
    \/ Clear /\ UNCHANGED now
    \/ Tick

Spec == Init /\ [][Next]_vars
-----------------------------------------------------------------------------
TypeOK ==
    /\ DOMAIN entries \subseteq Keys
    /\ \A k \in DOMAIN entries : entries[k] \in Entry
    /\ order \in Seq(Keys)
    /\ hits \in Nat /\ misses \in Nat
    /\ answer \in Runs \cup {NoRun}
    /\ now \in Nat
    /\ recency \in Seq(Keys)

(* The map and the list hold the same keys, each once, and no more of them *)
(* than the cache may: an element left in the list by an expiry, an update *)
(* or an eviction would keep its run alive for ever and be evicted a       *)
(* second time under a key that is live again (cache.go, Get and Put).     *)
MapAndListAgree ==
    /\ IsInjective(order)
    /\ Range(order) = DOMAIN entries
    /\ Len(order) <= MaxEntries

(* x stands in front of y.                                                 *)
Before(s, x, y) == \E i, j \in DOMAIN s : i < j /\ s[i] = x /\ s[j] = y

(* A Put that stores a new key costs at most one other entry, none while   *)
(* there is room, and then the one least recently used.                    *)
EvictsLeastRecent ==
    [][\A k \in DOMAIN entries' \ DOMAIN entries :
          LET lost == DOMAIN entries \ DOMAIN entries'
          IN  /\ lost # {} => Cardinality(DOMAIN entries) = MaxEntries
              /\ \A v \in lost : \A u \in DOMAIN entries \ {v} : Before(recency, u, v)]_vars

(* A read never extends what it reads: an entry that stays changes only in *)
(* a step that answers nobody, counting neither a hit nor a miss, and then *)
(* lives one TTL from that step. A hit that slid the expiry along would    *)
(* keep a popular answer, and never refresh it (cache.go, Get).            *)
OnlyAStoreRenews ==
    [][\A k \in DOMAIN entries \cap DOMAIN entries' :
          entries'[k] # entries[k] =>
              /\ UNCHANGED <<hits, misses, answer>>
              /\ entries'[k].expiresAt = now + TTL[k]]_vars

(* What the cache promises, whatever order it keeps.                       *)
Store == INSTANCE TTLStore WITH
    Values <- Runs, Capacity <- MaxEntries, NoValue <- NoRun,
    store <- [k \in DOMAIN entries |-> [value |-> entries[k].run,
                                        expiresAt |-> entries[k].expiresAt]]

ImplementsStore == Store!Spec
=============================================================================
