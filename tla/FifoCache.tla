----------------------------- MODULE FifoCache -----------------------------
(***************************************************************************)
(* httpapi/cache.go: responseCache as a value.  The cache is a map from    *)
(* key to entry and a list of the keys in the order they were first        *)
(* stored; each operator below is the effect of one method, which runs     *)
(* from its first line to its last under the cache's mutex.  TieredCache   *)
(* keeps one per machine.                                                  *)
(***************************************************************************)
EXTENDS Integers, FiniteSets, Sequences, SequencesExt

CONSTANT MaxEntries       \* maxCacheEntries

ASSUME MaxEntriesAssumption == MaxEntries \in Nat \ {0}

newResponseCache == [entries |-> [k \in {} |-> k], order |-> <<>>]

Drop(f, K) == [k \in DOMAIN f \ K |-> f[k]]

(* The list without its element for key k: container/list's Remove.        *)
Position(s, k) == CHOOSE i \in DOMAIN s : s[i] = k
Unlink(s, k) == RemoveAt(s, Position(s, k))

(* The key leaves the map and its element leaves the list.                 *)
removeLocked(c, k) ==
    [entries |-> Drop(c.entries, {k}), order |-> Unlink(c.order, k)]

(* now.After(expiresAt): an entry is still served at its very expiry.      *)
Expired(entry, t) == t > entry.expiresAt

Hit(c, k, t) == k \in DOMAIN c.entries /\ ~Expired(c.entries[k], t)

(* A slip: an expired key leaves the map and stays in the list.            *)
ForgetToUnlink(c, k, t) ==
    IF k \in DOMAIN c.entries /\ ~Hit(c, k, t)
    THEN [c EXCEPT !.entries = Drop(@, {k})]
    ELSE c

AfterGet(c, k, t) ==
    IF k \in DOMAIN c.entries /\ ~Hit(c, k, t) THEN removeLocked(c, k) ELSE c

Stored(f, k, entry) ==
    [x \in DOMAIN f \cup {k} |-> IF x = k THEN entry ELSE f[x]]

(* removeLocked of the front, while the list is longer than it may be.     *)
Trim(c) ==
    LET over == IF Len(c.order) > MaxEntries THEN Len(c.order) - MaxEntries ELSE 0
    IN  [entries |-> Drop(c.entries, {c.order[i] : i \in 1 .. over}),
         order   |-> SubSeq(c.order, over + 1, Len(c.order))]

(* put: a key already there is overwritten where it stands; a new one goes *)
(* to the back and the front is removed while the list is too long.        *)
AfterPut(c, k, entry) ==
    IF k \in DOMAIN c.entries
    THEN [c EXCEPT !.entries = Stored(c.entries, k, entry)]
    ELSE Trim([entries |-> Stored(c.entries, k, entry),
               order   |-> Append(c.order, k)])
=============================================================================
