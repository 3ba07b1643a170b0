------------------------------ MODULE TTLStore ------------------------------
(***************************************************************************)
(* What the run cache promises its callers, whatever list it keeps its    *)
(* entries in: a read is answered by the last entry stored under its own   *)
(* key while that entry is fresh and by nothing otherwise; a store keeps   *)
(* what it just stored, and gives up another entry only when it is full,   *)
(* one entry at a time.  Which entry it gives up is left open.             *)
(***************************************************************************)
EXTENDS Naturals, FiniteSets

CONSTANTS
    Keys,         \* cache keys
    Values,       \* what is stored: a run
    Capacity,     \* the most entries the store holds
    NoValue       \* the answer of a read that found nothing

VARIABLES
    store,        \* partial function: key -> [value, expiresAt]
    answer,       \* what the last read was answered
    now           \* the clock both Get and Put read

vars == <<store, answer, now>>

Entry == [value : Values, expiresAt : Nat]

Init ==
    /\ store = [k \in {} |-> NoValue]
    /\ answer = NoValue
    /\ now = 0

Fresh(e) == now < e.expiresAt

Hit(k) ==
    /\ k \in DOMAIN store
    /\ Fresh(store[k])
    /\ answer' = store[k].value
    /\ UNCHANGED <<store, now>>

Miss(k) ==
    /\ k \notin DOMAIN store \/ ~Fresh(store[k])
    /\ answer' = NoValue
    /\ store' = [x \in DOMAIN store \ {k} |-> store[x]]
    /\ UNCHANGED now

(* The keys a store of k may cost: none while there is room, one key other  *)
(* than k when there is none.                                              *)
Victims(k) ==
    IF k \in DOMAIN store \/ Cardinality(DOMAIN store) < Capacity
    THEN {{}}
    ELSE {{v} : v \in DOMAIN store}

Put(k) ==
    /\ \E V \in Victims(k) : DOMAIN store' = (DOMAIN store \ V) \cup {k}
    /\ store'[k] \in Entry
    /\ \A x \in DOMAIN store' \ {k} : store'[x] = store[x]
    /\ UNCHANGED <<answer, now>>

Clear ==
    /\ store' = [k \in {} |-> NoValue]
    /\ UNCHANGED <<answer, now>>

Tick ==
    /\ now' = now + 1
    /\ UNCHANGED <<store, answer>>

Next ==
    \/ \E k \in Keys : Hit(k) \/ Miss(k) \/ Put(k)
    \/ Clear
    \/ Tick

Spec == Init /\ [][Next]_vars
=============================================================================
