--------------------------- MODULE ToolCallProofs ---------------------------
(***************************************************************************)
(* What a call promises: first whatever the handler is (Plan, World and    *)
(* the arguments are any at all), then what each of the tools' plans adds. *)
(*                                                                         *)
(* A run is paid for once per key because what the handler has in hand and *)
(* did not fail is in the cache, for as long as nothing expires.  The call *)
(* made again retraces the steps of the first, on what the first one kept, *)
(* if its handler is persistent.  A tool's answer rests on its runs, and   *)
(* its errors name them, because of what its plan does with a run from the *)
(* step that asks for it to the step that answers: each plan is looked at  *)
(* twice, with less and with more in hand (Serves).                        *)
(***************************************************************************)
EXTENDS ToolService, WellFoundedInduction, TLAPS

(* Everything a handler received that did not fail was kept for the next.  *)
HeldIsKept == lapses = 0 =>
    \A use \in DOMAIN got : got[use].read # "failed" => Key(use) \in DOMAIN kept

IInv == TypeOK /\ HeldIsKept /\ OneRunPerKey

-----------------------------------------------------------------------------
(* Before the first call nothing is in hand, bought or kept.               *)
LEMMA InitHolds == Init => IInv
<1> SUFFICES ASSUME Init PROVE IInv
    OBVIOUS
<1>1. DOMAIN got = {} /\ DOMAIN kept = {}
    BY DEF Init
<1>2. TypeOK
    BY <1>1, LapsesAssumption DEF Init, TypeOK
<1>3. HeldIsKept
    BY <1>1 DEF HeldIsKept
<1>4. OneRunPerKey
    BY DEF Init, OneRunPerKey
<1> QED
    BY <1>2, <1>3, <1>4 DEF IInv

(* A hit hands over what the cache holds for that very key.                *)
LEMMA HitHolds ==
    ASSUME IInv, NEW use, use \in Asked, Hit(use)
    PROVE  IInv'
<1> USE DEF IInv
<1>0. use \notin DOMAIN got /\ Key(use) \in DOMAIN kept /\ UNCHANGED <<bought, kept, lapses>>
    BY DEF Asked, Hit
<1>1. /\ DOMAIN got' = DOMAIN got \cup {use}
      /\ got'[use] = kept[Key(use)]
      /\ \A z \in DOMAIN got : got'[z] = got[z]
    BY <1>0 DEF Hit, With
<1>2. TypeOK'
    <2>1. \A z \in DOMAIN got' : got'[z] \in World(Key(z))
        BY <1>0, <1>1 DEF TypeOK
    <2>2. bought' \subseteq DOMAIN got'
        BY <1>0, <1>1 DEF TypeOK
    <2> QED
        BY <1>0, <2>1, <2>2 DEF TypeOK
<1>3. HeldIsKept'
    BY <1>0, <1>1 DEF HeldIsKept
<1>4. OneRunPerKey'
    BY <1>0, <1>1 DEF OneRunPerKey, TypeOK
<1> QED
    BY <1>2, <1>3, <1>4

(* A run is made for a key the cache does not hold: an earlier run for it  *)
(* in the same call can only have failed.                                  *)
LEMMA BuyHolds ==
    ASSUME IInv, NEW use, use \in Asked, Buy(use)
    PROVE  IInv'
<1> USE DEF IInv
<1>1. PICK outcome \in World(Key(use)) : Make(use, outcome, outcome.read # "failed")
    BY DEF Buy
<1>2. /\ use \notin DOMAIN got /\ Key(use) \notin DOMAIN kept
      /\ bought' = bought \cup {use} /\ lapses' = lapses
    BY <1>1 DEF Asked, Make
<1>3. /\ DOMAIN got' = DOMAIN got \cup {use}
      /\ got'[use] = outcome
      /\ \A z \in DOMAIN got : got'[z] = got[z]
    BY <1>1, <1>2 DEF Make, With
<1>4. CASE outcome.read = "failed"
    <2>1. kept' = kept
        BY <1>1, <1>4 DEF Make
    <2>2. TypeOK'
        <3>1. \A z \in DOMAIN got' : got'[z] \in World(Key(z))
            BY <1>3 DEF TypeOK
        <3>2. bought' \subseteq DOMAIN got'
            BY <1>2, <1>3 DEF TypeOK
        <3> QED
            BY <1>2, <2>1, <3>1, <3>2 DEF TypeOK
    <2>3. HeldIsKept'
        BY <1>2, <1>3, <1>4, <2>1 DEF HeldIsKept
    <2>4. OneRunPerKey'
        BY <1>2, <1>3, <1>4 DEF OneRunPerKey, TypeOK
    <2> QED
        BY <2>2, <2>3, <2>4
<1>5. CASE outcome.read # "failed"
    <2>1. /\ DOMAIN kept' = DOMAIN kept \cup {Key(use)}
          /\ kept'[Key(use)] = outcome
          /\ \A k \in DOMAIN kept : kept'[k] = kept[k]
        BY <1>1, <1>2, <1>5 DEF Make, With
    <2>2. TypeOK'
        <3>1. \A z \in DOMAIN got' : got'[z] \in World(Key(z))
            BY <1>3 DEF TypeOK
        <3>2. \A k \in DOMAIN kept' : kept'[k] \in World(k) /\ kept'[k].read # "failed"
            BY <1>5, <2>1 DEF TypeOK
        <3>3. bought' \subseteq DOMAIN got'
            BY <1>2, <1>3 DEF TypeOK
        <3> QED
            BY <1>2, <3>1, <3>2, <3>3 DEF TypeOK
    <2>3. HeldIsKept'
        BY <1>2, <1>3, <2>1 DEF HeldIsKept
    <2>4. OneRunPerKey'
        <3> SUFFICES ASSUME lapses = 0, NEW u \in bought', NEW v \in bought',
                            u[1] = v[1], u[2] = v[2], u # v
                     PROVE  got'[u].read = "failed" \/ got'[v].read = "failed"
            BY <1>2 DEF OneRunPerKey
        <3>0. Key(u) = Key(v)
            BY DEF Key
        <3>1. CASE u = use
            <4>1. v \in DOMAIN got /\ Key(v) \notin DOMAIN kept
                BY <1>2, <3>0, <3>1 DEF TypeOK
            <4> QED
                BY <1>3, <4>1 DEF HeldIsKept
        <3>2. CASE v = use
            <4>1. u \in DOMAIN got /\ Key(u) \notin DOMAIN kept
                BY <1>2, <3>0, <3>2 DEF TypeOK
            <4> QED
                BY <1>3, <4>1 DEF HeldIsKept
        <3>3. CASE u # use /\ v # use
            <4>1. u \in bought /\ v \in bought /\ u \in DOMAIN got /\ v \in DOMAIN got
                BY <1>2, <3>3 DEF TypeOK
            <4> QED
                BY <1>3, <4>1 DEF OneRunPerKey
        <3> QED
            BY <3>1, <3>2, <3>3
    <2> QED
        BY <2>2, <2>3, <2>4
<1> QED
    BY <1>4, <1>5

(* Once a run has expired OneRunPerKey has nothing left to say.            *)
LEMMA ExpireHolds ==
    ASSUME IInv, NEW key, Expire(key)
    PROVE  IInv'
<1> USE DEF IInv
<1>1. /\ DOMAIN kept' = DOMAIN kept \ {key}
      /\ \A k \in DOMAIN kept' : kept'[k] = kept[k]
      /\ UNCHANGED <<got, bought>>
    BY DEF Expire
<1>2. lapses' \in 0 .. MaxLapses /\ lapses' # 0
    BY LapsesAssumption DEF Expire, TypeOK
<1>3. TypeOK'
    BY <1>1, <1>2 DEF TypeOK
<1> QED
    BY <1>2, <1>3 DEF HeldIsKept, OneRunPerKey

(* Every step of a call, its repetition and an expiry keep the invariant.  *)
LEMMA NextHolds == IInv /\ [Next]_vars => IInv'
<1> SUFFICES ASSUME IInv, [Next]_vars PROVE IInv'
    OBVIOUS
<1>1. ASSUME NEW t \in Tools, NEW a \in Args(t), Call(t, a) PROVE IInv'
    BY <1>1 DEF Call, IInv, TypeOK, HeldIsKept, OneRunPerKey
<1>2. ASSUME Reply PROVE IInv'
    BY <1>2 DEF Reply, IInv, TypeOK, HeldIsKept, OneRunPerKey
<1>3. ASSUME NEW use \in Asked, Hit(use) \/ Buy(use) PROVE IInv'
    BY <1>3, HitHolds, BuyHolds
<1>4. ASSUME Again PROVE IInv'
    <2>1. DOMAIN got' = {} /\ bought' = {} /\ UNCHANGED <<kept, lapses>>
        BY <1>4 DEF Again
    <2> QED
        BY <2>1 DEF IInv, TypeOK, HeldIsKept, OneRunPerKey
<1>5. ASSUME NEW key \in DOMAIN kept, Expire(key) PROVE IInv'
    BY <1>5, ExpireHolds
<1>6. ASSUME UNCHANGED vars PROVE IInv'
    BY <1>6 DEF vars, IInv, TypeOK, HeldIsKept, OneRunPerKey
<1> QED
    BY <1>1, <1>2, <1>3, <1>4, <1>5, <1>6 DEF Next, Work, Run

(* The strengthened invariant holds of every behaviour of every handler.   *)
LEMMA IInvHolds == Spec => []IInv
BY InitHolds, NextHolds, PTL DEF Spec

-----------------------------------------------------------------------------
(* TypeOK for every handler: what it holds is what a run for that key came *)
(* back with, and the run cache holds nothing that failed.                 *)
THEOREM CallTypes == Spec => []TypeOK
<1>1. IInv => TypeOK
    BY DEF IInv
<1> QED
    BY IInvHolds, <1>1, PTL

(* OneRunPerKey for every handler: however it fans out and comes back to   *)
(* what it has asked for, a run that did not fail is paid for once.        *)
THEOREM OneRunPerKeyHolds == Spec => []OneRunPerKey
<1>1. IInv => OneRunPerKey
    BY DEF IInv
<1> QED
    BY IInvHolds, <1>1, PTL
-----------------------------------------------------------------------------
(* Asking again.  A handler is persistent when what it asks for at once it *)
(* goes on asking for, whichever of it comes back first; then it does not  *)
(* matter in which order its runs come back, and what it has in hand when  *)
(* it answers is the same each time.                                       *)
AskedBy(t, a, g) ==
    IF Plan(t, a, g).kind = "asks" THEN Plan(t, a, g).of \ DOMAIN g ELSE {}
FromWorld(g) == \A z \in DOMAIN g : g[z] \in World(Key(z))
Persistent == \A t \in Tools : \A a \in Args(t) : \A g : \A u, v \in AskedBy(t, a, g) :
    \A o \in World(Key(v)) :
        FromWorld(g) /\ u # v => u \in AskedBy(t, a, With(g, v, o))

(* From the part D of what it had in hand a handler came to the whole of   *)
(* it, one thing that it asked for after another.                          *)
Part(G, D) == [u \in D |-> G[u]]
Closed(t, a, G, S) ==
    \A E \in S : \A u \in AskedBy(t, a, Part(G, E)) \cap DOMAIN G : E \cup {u} \in S
Reaches(t, a, G, D) ==
    /\ D \subseteq DOMAIN G
    /\ \A S \in SUBSET (SUBSET DOMAIN G) : D \in S /\ Closed(t, a, G, S) => DOMAIN G \in S

(* What was asked for and came back is a larger part.                      *)
LEMMA LargerPart ==
    ASSUME NEW G, NEW E, NEW v, v \notin E
    PROVE  Part(G, E \cup {v}) = With(Part(G, E), v, G[v])
BY DEF Part, With

LEMMA AskedStaysAsked ==
    ASSUME Persistent, NEW t, NEW a, t \in Tools /\ a \in Args(t),
           NEW G, FromWorld(G), NEW E, E \subseteq DOMAIN G, NEW u, NEW v, v \in DOMAIN G,
           u \in AskedBy(t, a, Part(G, E)), v \in AskedBy(t, a, Part(G, E)), u # v
    PROVE  u \in AskedBy(t, a, Part(G, E \cup {v}))
<1>1. DOMAIN Part(G, E) = E /\ FromWorld(Part(G, E)) /\ G[v] \in World(Key(v))
    BY DEF Part, FromWorld
<1>2. v \notin E
    BY <1>1 DEF AskedBy
<1>3. Part(G, E \cup {v}) = With(Part(G, E), v, G[v])
    BY <1>2, LargerPart
<1> QED
    BY <1>1, <1>3 DEF Persistent

(* Whatever a handler asks for on its way back to an answer it had in hand *)
(* when it gave that answer, and having it leads there too.                *)
LEMMA AskedWasInHand ==
    ASSUME Persistent, NEW t, NEW a, t \in Tools /\ a \in Args(t),
           NEW G, FromWorld(G), AskedBy(t, a, Part(G, DOMAIN G)) = {},
           NEW D, Reaches(t, a, G, D), NEW u \in AskedBy(t, a, Part(G, D))
    PROVE  u \in DOMAIN G /\ Reaches(t, a, G, D \cup {u})
<1>1. D \subseteq DOMAIN G /\ u \notin D
    <2>1. DOMAIN Part(G, D) = D
        BY DEF Part
    <2> QED
        BY <2>1 DEF Reaches, AskedBy
<1>2. u \in DOMAIN G
    <2> DEFINE S == {E \in SUBSET DOMAIN G : u \in E \/ u \in AskedBy(t, a, Part(G, E))}
    <2>1. D \in S
        BY <1>1
    <2>2. ASSUME NEW E \in S, NEW v \in AskedBy(t, a, Part(G, E)) \cap DOMAIN G
          PROVE  E \cup {v} \in S
        <3>1. CASE u \in E \cup {v}
            BY <3>1
        <3>2. CASE u \notin E \cup {v}
            <4>1. u \in AskedBy(t, a, Part(G, E \cup {v}))
                BY <3>2, AskedStaysAsked
            <4> QED
                BY <4>1
        <3> QED
            BY <3>1, <3>2
    <2>3. DOMAIN G \in S
        BY <2>1, <2>2 DEF Reaches, Closed
    <2> QED
        BY <2>3
<1>3. ASSUME NEW S \in SUBSET (SUBSET DOMAIN G), D \cup {u} \in S, Closed(t, a, G, S)
      PROVE  DOMAIN G \in S
    <2> DEFINE T == {E \in SUBSET DOMAIN G :
                         IF u \in E THEN E \in S
                         ELSE E \cup {u} \in S /\ u \in AskedBy(t, a, Part(G, E))}
    <2>1. D \in T
        BY <1>1, <1>3
    <2>2. ASSUME NEW E \in T, NEW v \in AskedBy(t, a, Part(G, E)) \cap DOMAIN G
          PROVE  E \cup {v} \in T
        <3>1. CASE u \in E
            <4>1. E \cup {v} \in S
                BY <1>3, <3>1 DEF Closed
            <4> QED
                BY <3>1, <4>1
        <3>2. CASE u \notin E /\ v = u
            BY <1>2, <3>2
        <3>3. CASE u \notin E /\ v # u
            <4>1. E \cup {u} \in S /\ u \in AskedBy(t, a, Part(G, E))
                BY <3>3
            <4>2. u \in AskedBy(t, a, Part(G, E \cup {v}))
                BY <3>3, <4>1, AskedStaysAsked
            <4>3. v \in AskedBy(t, a, Part(G, E \cup {u}))
                BY <1>2, <3>3, <4>1, AskedStaysAsked
            <4>4. (E \cup {u}) \cup {v} \in S
                BY <1>3, <4>1, <4>3 DEF Closed
            <4>5. (E \cup {u}) \cup {v} = (E \cup {v}) \cup {u}
                OBVIOUS
            <4> QED
                BY <3>3, <4>2, <4>4, <4>5
        <3> QED
            BY <3>1, <3>2, <3>3
    <2>3. DOMAIN G \in T
        BY <2>1, <2>2 DEF Reaches, Closed
    <2> QED
        BY <1>2, <2>3
<1> QED
    BY <1>1, <1>2, <1>3 DEF Reaches

(* Where it asks for nothing more it has all of it.                        *)
LEMMA NothingLeftToAsk ==
    ASSUME NEW t, NEW a, NEW G, NEW D, Reaches(t, a, G, D), AskedBy(t, a, Part(G, D)) = {}
    PROVE  D = DOMAIN G
<1> DEFINE S == {D}
<1>1. S \in SUBSET (SUBSET DOMAIN G) /\ Closed(t, a, G, S) /\ D \in S
    BY DEF Reaches, Closed
<1>2. DOMAIN G \in S
    BY <1>1 DEF Reaches
<1> QED
    BY <1>2

(* From nothing a handler comes to what it has in hand, and to more.       *)
LEMMA ReachesMore ==
    ASSUME NEW t, NEW a, NEW g, g = Part(g, DOMAIN g), Reaches(t, a, g, {}),
           NEW u \in AskedBy(t, a, g), NEW o, NEW h, h = With(g, u, o)
    PROVE  h = Part(h, DOMAIN h) /\ Reaches(t, a, h, {})
<1>1. DOMAIN h = DOMAIN g \cup {u} /\ u \notin DOMAIN g
    BY DEF With, AskedBy
<1>2. \A z \in DOMAIN g : h[z] = g[z]
    BY <1>1 DEF With
<1>3. h = Part(h, DOMAIN h)
    BY DEF With, Part
<1>4. \A E \in SUBSET DOMAIN g : Part(h, E) = Part(g, E)
    BY <1>2 DEF Part
<1>5. ASSUME NEW S \in SUBSET (SUBSET DOMAIN h), {} \in S, Closed(t, a, h, S)
      PROVE  DOMAIN h \in S
    <2> DEFINE S0 == S \cap SUBSET DOMAIN g
    <2>1. S0 \in SUBSET (SUBSET DOMAIN g) /\ {} \in S0
        BY <1>5
    <2>2. Closed(t, a, g, S0)
        <3> SUFFICES ASSUME NEW E \in S0, NEW z \in AskedBy(t, a, Part(g, E)) \cap DOMAIN g
                     PROVE  E \cup {z} \in S0
            BY DEF Closed
        <3>1. z \in AskedBy(t, a, Part(h, E)) \cap DOMAIN h
            BY <1>1, <1>4
        <3> QED
            BY <1>5, <3>1 DEF Closed
    <2>3. DOMAIN g \in S
        BY <2>1, <2>2 DEF Reaches
    <2>4. Part(h, DOMAIN g) = g
        BY <1>4
    <2>5. u \in AskedBy(t, a, Part(h, DOMAIN g)) \cap DOMAIN h
        BY <1>1, <2>4
    <2>6. DOMAIN g \cup {u} \in S
        BY <1>5, <2>3, <2>5 DEF Closed
    <2> QED
        BY <1>1, <2>6
<1> QED
    BY <1>3, <1>5 DEF Reaches
-----------------------------------------------------------------------------
(* An answer is what the handler makes of all it has in hand.              *)
Answered == reply # Pending => reply = Step /\ Step.kind # "asks"
NothingYet == tool = NoTool => got = <<>> /\ bought = {} /\ reply = Pending /\ first = NoCall
Named == tool = NoTool \/ (tool \in Tools /\ args \in Args(tool))

(* What did not fail is in the cache as it came back.                      *)
HeldAsKept == lapses = 0 =>
    \A use \in DOMAIN got : got[use].read # "failed" =>
        Key(use) \in DOMAIN kept /\ kept[Key(use)] = got[use]

(* The first time the handler got where it is from nothing.                *)
ComesFromNothing == first = NoCall => got = Part(got, DOMAIN got) /\ Reaches(tool, args, got, {})

(* The second time it retraces its steps, on what the first time kept.     *)
Clean == lapses = 0 /\ \A u \in DOMAIN first.got : first.got[u].read # "failed"
Kept(G) == \A u \in DOMAIN G : Key(u) \in DOMAIN kept /\ kept[Key(u)] = G[u]
Retraces(G) ==
    /\ G = Part(G, DOMAIN G) /\ Plan(tool, args, G).kind # "asks"
    /\ first.reply = Plan(tool, args, G)
    /\ got = Part(G, DOMAIN got) /\ Reaches(tool, args, G, DOMAIN got)
    /\ Kept(G) /\ FromWorld(G) /\ bought = {}

RInv ==
    /\ TypeOK /\ Answered /\ NothingYet /\ Named /\ HeldAsKept /\ ComesFromNothing
    /\ first # NoCall /\ Clean => Retraces(first.got)

-----------------------------------------------------------------------------
LEMMA InitRetraces == Init => RInv
<1> SUFFICES ASSUME Init PROVE RInv
    OBVIOUS
<1>1. TypeOK
    BY InitHolds DEF IInv
<1>2. DOMAIN got = {} /\ got = Part(got, DOMAIN got)
    BY DEF Init, Part
<1>3. Reaches(tool, args, got, {})
    BY <1>2 DEF Reaches
<1> QED
    BY <1>1, <1>2, <1>3 DEF Init, RInv, Answered, NothingYet, Named, HeldAsKept, ComesFromNothing

(* A run of the first call, whatever it came back with.                    *)
LEMMA FirstTimeOn ==
    ASSUME RInv, first = NoCall, NEW use \in Asked, NEW o, got' = With(got, use, o),
           UNCHANGED <<tool, args, first>>
    PROVE  ComesFromNothing'
<1>1. use \in AskedBy(tool, args, got)
    BY DEF Asked, Step, AskedBy
<1>2. PICK h : h = With(got, use, o)
    OBVIOUS
<1>3. h = Part(h, DOMAIN h) /\ Reaches(tool, args, h, {})
    BY <1>1, <1>2, ReachesMore DEF RInv, ComesFromNothing
<1> QED
    BY <1>2, <1>3 DEF ComesFromNothing, Reaches, Closed, AskedBy

(* When the call is made again, what is asked for is in the cache.         *)
LEMMA SecondTimeKept ==
    ASSUME Persistent, RInv, first # NoCall, Clean, NEW use \in Asked
    PROVE  /\ use \in DOMAIN first.got /\ Key(use) \in DOMAIN kept
           /\ kept[Key(use)] = first.got[use]
           /\ Reaches(tool, args, first.got, DOMAIN got \cup {use})
<1>1. PICK G : G = first.got /\ Retraces(G)
    BY DEF RInv
<1>0. tool \in Tools /\ args \in Args(tool) /\ FromWorld(G)
    BY <1>1 DEF Asked, Serving, RInv, Named, Retraces
<1>2. use \in AskedBy(tool, args, Part(G, DOMAIN got))
    BY <1>1 DEF Asked, Step, AskedBy, Retraces
<1>3. AskedBy(tool, args, Part(G, DOMAIN G)) = {}
    BY <1>1 DEF AskedBy, Retraces
<1>4. Reaches(tool, args, G, DOMAIN got)
    BY <1>1 DEF Retraces
<1>5. use \in DOMAIN G /\ Reaches(tool, args, G, DOMAIN got \cup {use})
    BY <1>0, <1>2, <1>3, <1>4, AskedWasInHand
<1> QED
    BY <1>1, <1>5 DEF Retraces, Kept

LEMMA HitRetraces ==
    ASSUME Persistent, RInv, NEW use \in Asked, Hit(use), TypeOK'
    PROVE  RInv'
<1>1. /\ Serving /\ Key(use) \in DOMAIN kept /\ got' = With(got, use, kept[Key(use)])
      /\ UNCHANGED <<tool, args, bought, kept, lapses, reply, first>>
    BY DEF Hit, Asked
<1>2. Answered' /\ NothingYet' /\ Named'
    BY <1>1 DEF Serving, Answered, NothingYet, Named, RInv
<1>3. HeldAsKept'
    BY <1>1 DEF HeldAsKept, RInv, With
<1>4. ComesFromNothing'
    BY <1>1, FirstTimeOn DEF ComesFromNothing
<1>5. ASSUME first # NoCall, Clean PROVE Retraces(first.got)'
    <2>1. PICK G : G = first.got /\ Retraces(G)
        BY <1>5 DEF RInv
    <2>2. kept[Key(use)] = G[use] /\ Reaches(tool, args, G, DOMAIN got \cup {use})
        BY <1>5, <2>1, SecondTimeKept
    <2>3. use \notin DOMAIN got
        BY DEF Asked
    <2>4. Part(G, DOMAIN got \cup {use}) = With(Part(G, DOMAIN got), use, G[use])
        BY <2>3, LargerPart
    <2>5. got' = Part(G, DOMAIN got \cup {use})
        BY <1>1, <2>1, <2>2, <2>4 DEF Retraces
    <2>6. DOMAIN got' = DOMAIN got \cup {use}
        BY <1>1 DEF With
    <2>7. Reaches(tool, args, G, DOMAIN got')
        BY <2>2, <2>6
    <2>8. Kept(G)' /\ FromWorld(G)'
        BY <1>1, <2>1 DEF Retraces, Kept, FromWorld
    <2> QED
        BY <1>1, <2>1, <2>5, <2>6, <2>7, <2>8 DEF Retraces, Reaches, Closed, AskedBy
<1> QED
    BY <1>1, <1>2, <1>3, <1>4, <1>5 DEF RInv, Clean

LEMMA BuyRetraces ==
    ASSUME Persistent, RInv, NEW use \in Asked, Buy(use), TypeOK'
    PROVE  RInv'
<1>1. PICK o : Make(use, o, o.read # "failed")
    BY DEF Buy
<1>2. /\ Serving /\ Key(use) \notin DOMAIN kept /\ got' = With(got, use, o)
      /\ kept' = IF o.read # "failed" THEN With(kept, Key(use), o) ELSE kept
      /\ UNCHANGED <<tool, args, lapses, reply, first>>
    BY <1>1 DEF Make, Asked
<1>3. Answered' /\ NothingYet' /\ Named'
    BY <1>2 DEF Serving, Answered, NothingYet, Named, RInv
<1>4. HeldAsKept'
    <2>1. DOMAIN got' = DOMAIN got \cup {use} /\ got'[use] = o
          /\ \A z \in DOMAIN got : z # use => got'[z] = got[z]
        BY <1>2 DEF With
    <2>2. \A k \in DOMAIN kept : k \in DOMAIN kept' /\ kept'[k] = kept[k]
        BY <1>2 DEF With
    <2>3. o.read # "failed" => Key(use) \in DOMAIN kept' /\ kept'[Key(use)] = o
        BY <1>2 DEF With
    <2> QED
        BY <1>2, <2>1, <2>2, <2>3 DEF HeldAsKept, RInv
<1>5. ComesFromNothing'
    BY <1>2, FirstTimeOn DEF ComesFromNothing
<1>6. ~(first # NoCall /\ Clean)
    BY <1>2, SecondTimeKept
<1>7. ~(first # NoCall /\ Clean)'
    BY <1>2, <1>6 DEF Clean
<1> QED
    BY <1>3, <1>4, <1>5, <1>7 DEF RInv

(* Answering changes nothing that the handler has in hand, and making the  *)
(* call again starts from nothing, with all that did not fail kept.        *)
LEMMA AgainRetraces ==
    ASSUME RInv, Again, TypeOK'
    PROVE  RInv'
<1>1. /\ reply # Pending /\ first = NoCall /\ first' = [reply |-> reply, got |-> got]
      /\ got' = <<>> /\ bought' = {} /\ reply' = Pending
      /\ UNCHANGED <<tool, args, kept, lapses>>
    BY DEF Again
<1>2. first' # NoCall /\ first'.got = got /\ first'.reply = reply
    BY <1>1 DEF NoCall
<1>3. DOMAIN got' = {} /\ got' = Part(got, DOMAIN got')
    BY <1>1 DEF Part
<1>4. Answered' /\ NothingYet' /\ Named' /\ HeldAsKept' /\ ComesFromNothing'
    BY <1>1, <1>2, <1>3 DEF Answered, NothingYet, Named, HeldAsKept, ComesFromNothing, RInv
<1>5. ASSUME Clean' PROVE Retraces(first.got)'
    <2>1. got = Part(got, DOMAIN got) /\ Reaches(tool, args, got, {})
        BY <1>1 DEF RInv, ComesFromNothing
    <2>2. reply = Plan(tool, args, got) /\ Plan(tool, args, got).kind # "asks"
        BY <1>1 DEF RInv, Answered, Step
    <2>3. \A u \in DOMAIN got : Key(u) \in DOMAIN kept /\ kept[Key(u)] = got[u]
        BY <1>1, <1>2, <1>5 DEF Clean, RInv, HeldAsKept
    <2>4. Reaches(tool, args, got, DOMAIN got')
        BY <1>3, <2>1
    <2>5. PICK G : G = got
        OBVIOUS
    <2>6. Kept(G)' /\ FromWorld(G)'
        BY <1>1, <2>3, <2>5 DEF Kept, FromWorld, RInv, TypeOK
    <2>7. Retraces(G)'
        BY <1>1, <1>2, <1>3, <2>1, <2>2, <2>4, <2>5, <2>6 DEF Retraces, Reaches, Closed, AskedBy
    <2> QED
        BY <1>2, <2>5, <2>7 DEF Retraces, Reaches, Closed, AskedBy, Kept, FromWorld
<1> QED
    BY <1>2, <1>4, <1>5 DEF RInv

LEMMA ReplyRetraces ==
    ASSUME RInv, Reply, TypeOK'
    PROVE  RInv'
<1>1. /\ tool # NoTool /\ reply' = Step /\ reply'.kind # "asks"
      /\ UNCHANGED <<tool, args, got, bought, kept, lapses, first>>
    BY DEF Reply, Serving
<1>2. Answered' /\ NothingYet' /\ Named' /\ HeldAsKept' /\ ComesFromNothing'
    BY <1>1 DEF Answered, NothingYet, Named, HeldAsKept, ComesFromNothing, RInv, Step,
                Reaches, Closed, AskedBy
<1>3. first # NoCall /\ Clean => Retraces(first.got)'
    BY <1>1 DEF RInv, Retraces, Kept, FromWorld, Reaches, Closed, AskedBy
<1> QED
    BY <1>1, <1>2, <1>3 DEF RInv, Clean

LEMMA CallRetraces ==
    ASSUME RInv, NEW t \in Tools, NEW a \in Args(t), Call(t, a), TypeOK'
    PROVE  RInv'
<1>1. /\ tool = NoTool /\ tool' = t /\ args' = a
      /\ UNCHANGED <<got, bought, kept, lapses, reply, first>>
      /\ got = <<>> /\ bought = {} /\ reply = Pending /\ first = NoCall
    BY DEF Call, RInv, NothingYet
<1>2. DOMAIN got' = {} /\ got' = Part(got', DOMAIN got')
    BY <1>1 DEF Part
<1>3. ComesFromNothing'
    BY <1>2 DEF ComesFromNothing, Reaches
<1> QED
    BY <1>1, <1>3 DEF RInv, Answered, NothingYet, Named, HeldAsKept

LEMMA ExpireRetraces ==
    ASSUME RInv, NEW key, Expire(key), TypeOK'
    PROVE  RInv'
<1>1. lapses' # 0 /\ UNCHANGED <<tool, args, got, bought, reply, first>>
    BY LapsesAssumption DEF Expire, RInv, TypeOK
<1> QED
    BY <1>1 DEF RInv, Answered, NothingYet, Named, HeldAsKept, ComesFromNothing, Clean, Step,
                Reaches, Closed, AskedBy

LEMMA NextRetraces == Persistent /\ IInv /\ RInv /\ [Next]_vars => RInv'
<1> SUFFICES ASSUME Persistent, IInv, RInv, [Next]_vars PROVE RInv'
    OBVIOUS
<1>0. TypeOK'
    BY NextHolds DEF IInv
<1>1. ASSUME NEW t \in Tools, NEW a \in Args(t), Call(t, a) PROVE RInv'
    BY <1>0, <1>1, CallRetraces
<1>2. ASSUME NEW use \in Asked, Hit(use) \/ Buy(use) PROVE RInv'
    BY <1>0, <1>2, HitRetraces, BuyRetraces
<1>3. ASSUME Reply \/ Again PROVE RInv'
    BY <1>0, <1>3, ReplyRetraces, AgainRetraces
<1>4. ASSUME NEW key, Expire(key) PROVE RInv'
    BY <1>0, <1>4, ExpireRetraces
<1>5. ASSUME UNCHANGED vars PROVE RInv'
    BY <1>0, <1>5 DEF vars, RInv, Answered, NothingYet, Named, HeldAsKept, ComesFromNothing, Clean,
                Retraces, Kept, FromWorld, Step, Reaches, Closed, AskedBy
<1> QED
    BY <1>1, <1>2, <1>3, <1>4, <1>5 DEF Next, Work, Run

(* RepeatsAreFree for every persistent handler, whatever its runs come     *)
(* back with and in whichever order they do either time: the same call     *)
(* made again runs nothing, and answers the same.                          *)
THEOREM SecondAnswerIsFree ==
    ASSUME Persistent
    PROVE  Spec => []RepeatsAreFree
<1>1. RInv => RepeatsAreFree
    <2> SUFFICES ASSUME RInv, first # NoCall, Clean
                 PROVE  bought = {} /\ reply \in {Pending, first.reply}
        BY DEF RepeatsAreFree, Clean
    <2>1. PICK G : G = first.got /\ Retraces(G)
        BY DEF RInv
    <2>2. ASSUME reply # Pending PROVE reply = first.reply
        <3>1. reply = Plan(tool, args, got) /\ Plan(tool, args, got).kind # "asks"
            BY <2>2 DEF RInv, Answered, Step
        <3>2. got = Part(G, DOMAIN got) /\ Reaches(tool, args, G, DOMAIN got)
            BY <2>1 DEF Retraces
        <3>3. AskedBy(tool, args, Part(G, DOMAIN got)) = {}
            BY <3>1, <3>2 DEF AskedBy
        <3>4. DOMAIN got = DOMAIN G
            BY <3>2, <3>3, NothingLeftToAsk
        <3>5. got = G
            BY <2>1, <3>2, <3>4 DEF Retraces
        <3> QED
            BY <2>1, <3>1, <3>5 DEF Retraces
    <2> QED
        BY <2>1, <2>2 DEF Retraces
<1>2. Init => IInv /\ RInv
    BY InitHolds, InitRetraces
<1>3. IInv /\ RInv /\ [Next]_vars => (IInv /\ RInv)'
    BY NextHolds, NextRetraces
<1> QED
    BY <1>1, <1>2, <1>3, PTL DEF Spec
-----------------------------------------------------------------------------
(* The tools.  A plan is looked at twice: with had in hand it gives x, and *)
(* later, with g in hand, y.  Its answer rests on what it asked for: once  *)
(* a run it cannot do without is lost nothing that comes later makes its   *)
(* answer a success (Misses).  It goes on asking for what it asked for     *)
(* (Persists), and it asks for nothing when an argument is to blame.       *)
Typed(g) == \A u \in DOMAIN g : g[u].read \in {"ok", "drift", "failed"}
Grows(had, g) == DOMAIN had \subseteq DOMAIN g /\ \A u \in DOMAIN had : g[u] = had[u]
MayMiss(t, a, u) == u[1] \in Optional(t, a) \/ u[3] = "cik"
Faulty(a) == a.fault \in {"mistyped", "invalid"}
Asks(x, had) == IF x.kind = "asks" THEN x.of \ DOMAIN had ELSE {}

Misses(t, a, g, u, y) ==
    u \in DOMAIN g /\ g[u].read # "ok" /\ ~MayMiss(t, a, u) /\ ~Skipped(t, u, g[u])
        => y.kind \notin Successes
Persists(had, x, g, y) ==
    \A u \in Asks(x, had) : \A v \in Asks(x, had) :
        v \in DOMAIN g /\ DOMAIN g \subseteq DOMAIN had \cup x.of /\ u \notin DOMAIN g
            => u \in Asks(y, g)
Runs(t, a, had, x, g, y) ==
    (\A u \in Asks(x, had) : Misses(t, a, g, u, y)) /\ Persists(had, x, g, y)
Blames(a, x, y) == Faulty(a) /\ y.kind = "input_error" => x.kind # "asks"

(* An error is about the runs it names.                                    *)
Stands(t, a, g, y) ==
    /\ y.kind = "run_error" => \E u \in y.of :
           g[u].read = "failed" \/ \E f \in Data(g, u) : t = "get_filing_items" /\ ~f.sec
    /\ y.kind = "drift" => \E u \in y.of :
           g[u].read = "drift" \/ (t \in Catalogs /\ Read(g, u) /\ Data(g, u) = {})
    /\ y.kind = "input_error" =>
           Faulty(a) \/ (t = "get_earnings" /\ \E u \in y.of : "malformed" \in Data(g, u))

Serves(t, a, had, x, g, y) ==
    Runs(t, a, had, x, g, y) /\ Blames(a, x, y) /\ Stands(t, a, g, y)

-----------------------------------------------------------------------------
(* What plans are put together from.                                       *)
LEMMA SameData ==
    ASSUME NEW had, NEW g, Grows(had, g), NEW u, u \in DOMAIN had
    PROVE  u \in DOMAIN g /\ g[u] = had[u] /\ Read(g, u) = Read(had, u) /\ Data(g, u) = Data(had, u)
BY DEF Grows, Read, Data

LEMMA AnswersRun ==
    ASSUME NEW t, NEW a, NEW had, NEW g, NEW x, NEW y, x.kind # "asks"
    PROVE  Runs(t, a, had, x, g, y)
BY DEF Runs, Persists, Asks

LEMMA OneRuns ==
    ASSUME NEW t, NEW a, NEW had, NEW g, NEW v, NEW y, Misses(t, a, g, v, y)
    PROVE  Runs(t, a, had, Ask({v}), g, y)
BY DEF Runs, Persists, Asks, Ask

LEMMA StageRuns ==
    ASSUME NEW t, NEW a, NEW had, NEW g, Grows(had, g), NEW uses, NEW x, NEW y,
           uses \subseteq DOMAIN had => Runs(t, a, had, x, g, y),
           uses \subseteq DOMAIN g => \A u \in uses : Misses(t, a, g, u, y)
    PROVE  Runs(t, a, had, Stage(had, uses, x), g, Stage(g, uses, y))
<1>1. CASE uses \subseteq DOMAIN had
    BY <1>1 DEF Stage, Grows
<1>2. CASE ~(uses \subseteq DOMAIN had)
    <2>0. PICK p : p = Stage(had, uses, x)
        OBVIOUS
    <2>1. p = Stage(had, uses, x) /\ p.kind = "asks" /\ p.of = uses \ DOMAIN had
        BY <1>2, <2>0 DEF Stage, Ask
    <2>2. CASE uses \subseteq DOMAIN g
        <3>1. Stage(g, uses, y) = y
            BY <2>2 DEF Stage
        <3>2. \A u \in Asks(p, had) : u \in uses /\ u \in DOMAIN g
            BY <2>1, <2>2 DEF Asks
        <3>3. Runs(t, a, had, p, g, y)
            BY <2>2, <3>2 DEF Runs, Persists
        <3> QED
            BY <2>1, <3>1, <3>3
    <2>3. CASE ~(uses \subseteq DOMAIN g)
        <3>0. PICK q : q = Stage(g, uses, y)
            OBVIOUS
        <3>1. q = Stage(g, uses, y) /\ q.kind = "asks" /\ q.of = uses \ DOMAIN g
            BY <2>3, <3>0 DEF Stage, Ask
        <3>2. \A u \in Asks(p, had) : Misses(t, a, g, u, q)
            BY <3>1 DEF Misses, Successes
        <3>3. Persists(had, p, g, q)
            BY <2>1, <3>1 DEF Persists, Asks
        <3> QED
            BY <2>1, <3>1, <3>2, <3>3 DEF Runs
    <2> QED
        BY <2>2, <2>3
<1> QED
    BY <1>1, <1>2

LEMMA NeedRuns ==
    ASSUME NEW t, NEW a, NEW had, NEW g, Grows(had, g), Typed(g), NEW uses, NEW x, NEW y,
           uses \subseteq DOMAIN had /\ (\A u \in uses : had[u].read = "ok")
               => Runs(t, a, had, x, g, y)
    PROVE  Runs(t, a, had, Need(had, uses, x), g, Need(g, uses, y))
<1> DEFINE x1 == IF Bad(had, uses, "failed") THEN Answer("run_error", uses)
                 ELSE IF Bad(had, uses, "drift") THEN Answer("drift", uses) ELSE x
           y1 == IF Bad(g, uses, "failed") THEN Answer("run_error", uses)
                 ELSE IF Bad(g, uses, "drift") THEN Answer("drift", uses) ELSE y
<1>1. ASSUME uses \subseteq DOMAIN had PROVE Runs(t, a, had, x1, g, y1)
    <2>1. \A u \in uses : g[u] = had[u] /\ g[u].read \in {"ok", "drift", "failed"}
        BY <1>1 DEF Grows, Typed
    <2>2. CASE \A u \in uses : had[u].read = "ok"
        <3>1. x1 = x /\ y1 = y
            BY <2>1, <2>2 DEF Bad
        <3> QED
            BY <1>1, <2>2, <3>1
    <2>3. CASE ~(\A u \in uses : had[u].read = "ok")
        <3>1. x1.kind # "asks"
            BY <2>1, <2>3 DEF Bad, Answer
        <3> QED
            BY <3>1, AnswersRun
    <2> QED
        BY <2>2, <2>3
<1>2. ASSUME uses \subseteq DOMAIN g, NEW u \in uses PROVE Misses(t, a, g, u, y1)
    BY <1>2 DEF Misses, Bad, Answer, Successes, Typed
<1> HIDE DEF x1, y1
<1>3. Runs(t, a, had, Stage(had, uses, x1), g, Stage(g, uses, y1))
    BY <1>1, <1>2, StageRuns
<1> QED
    BY <1>3 DEF Need, x1, y1

LEMMA SuccessStands ==
    ASSUME NEW t, NEW a, NEW g, NEW y, y.kind \in Successes \cup {"asks", "unread"}
    PROVE  Stands(t, a, g, y)
BY DEF Stands, Successes

LEMMA StageStands ==
    ASSUME NEW t, NEW a, NEW g, NEW uses, NEW y, uses \subseteq DOMAIN g => Stands(t, a, g, y)
    PROVE  Stands(t, a, g, Stage(g, uses, y))
BY DEF Stands, Stage, Ask

LEMMA NeedStands ==
    ASSUME NEW t, NEW a, NEW g, Typed(g), NEW uses, NEW y,
           uses \subseteq DOMAIN g /\ (\A u \in uses : g[u].read = "ok") => Stands(t, a, g, y)
    PROVE  Stands(t, a, g, Need(g, uses, y))
<1>1. CASE ~(uses \subseteq DOMAIN g)
    BY <1>1 DEF Stands, Need, Stage, Ask
<1>2. CASE uses \subseteq DOMAIN g /\ \A u \in uses : g[u].read = "ok"
    <2>1. Need(g, uses, y) = y
        BY <1>2 DEF Need, Stage, Bad
    <2> QED
        BY <1>2, <2>1
<1>3. CASE uses \subseteq DOMAIN g /\ ~(\A u \in uses : g[u].read = "ok")
    <2>1. CASE Bad(g, uses, "failed")
        <3>1. Need(g, uses, y) = Answer("run_error", uses)
            BY <1>3, <2>1 DEF Need, Stage
        <3> QED
            BY <2>1, <3>1 DEF Stands, Bad, Answer
    <2>2. CASE ~Bad(g, uses, "failed")
        <3>1. Bad(g, uses, "drift")
            BY <1>3, <2>2 DEF Bad, Typed
        <3>2. Need(g, uses, y) = Answer("drift", uses)
            BY <1>3, <2>2, <3>1 DEF Need, Stage
        <3> QED
            BY <3>1, <3>2 DEF Stands, Bad, Answer
    <2> QED
        BY <2>1, <2>2
<1> QED
    BY <1>1, <1>2, <1>3

(* Arguments are looked at before anything else.                           *)
LEMMA CheckedServes ==
    ASSUME NEW t, NEW a, NEW had, NEW g, NEW x, NEW y,
           ~Faulty(a) => Runs(t, a, had, x, g, y) /\ Stands(t, a, g, y)
    PROVE  Serves(t, a, had, Checked(a, x), g, Checked(a, y))
<1>1. CASE Faulty(a)
    <2>1. Checked(a, x) = Answer("input_error", {}) /\ Checked(a, y) = Answer("input_error", {})
        BY <1>1 DEF Faulty, Checked, Coerced
    <2> QED
        BY <1>1, <2>1, AnswersRun DEF Serves, Blames, Stands, Answer
<1>2. CASE ~Faulty(a)
    <2>1. Checked(a, x) = x /\ Checked(a, y) = y
        BY <1>2 DEF Faulty, Checked, Coerced
    <2> QED
        BY <1>2, <2>1 DEF Serves, Blames
<1> QED
    BY <1>1, <1>2

LEMMA RefusedServes ==
    ASSUME NEW t, NEW a, NEW had, NEW g, NEW x, NEW y, Serves(t, a, had, x, g, y)
    PROVE  Serves(t, a, had, Refused(a, x), g, Refused(a, y))
<1>1. CASE a.fault = "unsupported"
    <2>1. Refused(a, x) = Answer("bad_request", {}) /\ Refused(a, y) = Answer("bad_request", {})
        BY <1>1 DEF Refused
    <2> QED
        BY <2>1, AnswersRun DEF Serves, Blames, Stands, Answer
<1>2. CASE a.fault # "unsupported"
    BY <1>2 DEF Refused
<1> QED
    BY <1>1, <1>2

(* One run, one answer.                                                    *)
LEMMA AskFor ==
    ASSUME NEW t, NEW a, NEW had, NEW g, Grows(had, g), Typed(g), NEW uses, NEW x, NEW y,
           x.kind # "asks", Stands(t, a, g, y)
    PROVE  /\ Runs(t, a, had, Need(had, uses, x), g, Need(g, uses, y))
           /\ Stands(t, a, g, Need(g, uses, y))
BY AnswersRun, NeedRuns, NeedStands

LEMMA ListServes ==
    ASSUME NEW t, NEW a, NEW had, NEW g, Grows(had, g), Typed(g), NEW use
    PROVE  /\ Runs(t, a, had, List(had, use), g, List(g, use)) /\ Stands(t, a, g, List(g, use))
           /\ Serves(t, a, had, Checked(a, List(had, use)), g, Checked(a, List(g, use)))
<1>1. /\ Rows(Data(had, use) # {}, {use}).kind # "asks"
      /\ Stands(t, a, g, Rows(Data(g, use) # {}, {use}))
    BY DEF Rows, Answer, Stands
<1>2. Runs(t, a, had, List(had, use), g, List(g, use)) /\ Stands(t, a, g, List(g, use))
    BY <1>1, AskFor DEF List
<1> QED
    BY <1>2, CheckedServes

LEMMA RecordServes ==
    ASSUME NEW t, NEW a, NEW had, NEW g, Grows(had, g), Typed(g), NEW use
    PROVE  /\ Serves(t, a, had, Record(had, use), g, Record(g, use))
           /\ Serves(t, a, had, Checked(a, Record(had, use)), g, Checked(a, Record(g, use)))
<1>1. Answer("rows", {use}).kind # "asks" /\ Stands(t, a, g, Answer("rows", {use}))
    BY DEF Answer, Stands
<1>2. Runs(t, a, had, Record(had, use), g, Record(g, use)) /\ Stands(t, a, g, Record(g, use))
    BY <1>1, AskFor DEF Record
<1>3. Record(g, use).kind # "input_error"
    BY DEF Record, Need, Stage, Ask, Answer
<1> QED
    BY <1>2, <1>3, CheckedServes DEF Serves, Blames

LEMMA CatalogServes ==
    ASSUME NEW t, NEW a, NEW had, NEW g, Grows(had, g), Typed(g), NEW use, t \in Catalogs
    PROVE  /\ Serves(t, a, had, Catalog(had, use), g, Catalog(g, use))
           /\ Serves(t, a, had, Checked(a, Catalog(had, use)), g, Checked(a, Catalog(g, use)))
<1> DEFINE x == IF Data(had, use) = {} THEN Answer("drift", {use}) ELSE Answer("rows", {use})
           y == IF Data(g, use) = {} THEN Answer("drift", {use}) ELSE Answer("rows", {use})
<1>1. x.kind # "asks"
    BY DEF Answer
<1>2. ASSUME use \in DOMAIN g, g[use].read = "ok" PROVE Stands(t, a, g, y)
    BY <1>2 DEF Answer, Stands, Read
<1> HIDE DEF x, y
<1>3. Runs(t, a, had, Need(had, {use}, x), g, Need(g, {use}, y))
    BY <1>1, AnswersRun, NeedRuns
<1>4. Stands(t, a, g, Need(g, {use}, y))
    BY <1>2, NeedStands
<1>5. Catalog(had, use) = Need(had, {use}, x) /\ Catalog(g, use) = Need(g, {use}, y)
    BY DEF Catalog, x, y
<1>6. Catalog(g, use).kind # "input_error"
    BY DEF Catalog, Need, Stage, Ask, Answer
<1> QED
    BY <1>3, <1>4, <1>5, <1>6, CheckedServes DEF Serves, Blames

(* Runs that are made at once, and more of them as their payloads come in. *)
LEMMA StageVaries ==
    ASSUME NEW t, NEW a, NEW had, NEW g, NEW U, NEW V, U \subseteq V, NEW x, NEW y,
           x.kind # "asks", V \subseteq DOMAIN g => \A u \in U : Misses(t, a, g, u, y)
    PROVE  Runs(t, a, had, Stage(had, U, x), g, Stage(g, V, y))
<1>1. CASE U \subseteq DOMAIN had
    <2>1. Stage(had, U, x) = x
        BY <1>1 DEF Stage
    <2> QED
        BY <2>1, AnswersRun
<1>2. CASE ~(U \subseteq DOMAIN had)
    <2>0. PICK p : p = Stage(had, U, x)
        OBVIOUS
    <2>1. p.kind = "asks" /\ p.of = U \ DOMAIN had
        BY <1>2, <2>0 DEF Stage, Ask
    <2>2. CASE V \subseteq DOMAIN g
        <3>1. Stage(g, V, y) = y
            BY <2>2 DEF Stage
        <3>2. \A u \in Asks(p, had) : u \in U /\ u \in DOMAIN g
            BY <2>1, <2>2 DEF Asks
        <3>3. Runs(t, a, had, p, g, y)
            BY <2>2, <3>2 DEF Runs, Persists
        <3> QED
            BY <2>0, <3>1, <3>3
    <2>3. CASE ~(V \subseteq DOMAIN g)
        <3>0. PICK q : q = Stage(g, V, y)
            OBVIOUS
        <3>1. q.kind = "asks" /\ q.of = V \ DOMAIN g
            BY <2>3, <3>0 DEF Stage, Ask
        <3>2. \A u \in Asks(p, had) : Misses(t, a, g, u, q)
            BY <3>1 DEF Misses, Successes
        <3>3. Persists(had, p, g, q)
            BY <2>1, <3>1 DEF Persists, Asks
        <3> QED
            BY <2>0, <3>0, <3>2, <3>3 DEF Runs
    <2> QED
        BY <2>2, <2>3
<1> QED
    BY <1>1, <1>2

(* A run the answer can do without is never missed.                        *)
LEMMA NeverMissed ==
    ASSUME NEW t, NEW a, NEW g, NEW y, NEW u, MayMiss(t, a, u)
    PROVE  Misses(t, a, g, u, y)
BY DEF Misses

(* The issuer's CIK is in the same filings the second time.                *)
LEMMA ResolveRuns ==
    ASSUME NEW t, NEW a, NEW had, NEW g, Grows(had, g), Typed(g), NEW x, NEW y,
           Runs(t, a, had, x, g, y), Stands(t, a, g, y)
    PROVE  /\ Runs(t, a, had, ResolveIssuerCIK(had, a, x), g, ResolveIssuerCIK(g, a, y))
           /\ Stands(t, a, g, ResolveIssuerCIK(g, a, y))
<1> DEFINE F == Filings(a.ticker)
           some(h) == \E f \in Data(h, F) : f.sec
           x1 == IF some(had) THEN x ELSE Answer("not_found", {F})
           y1 == IF some(g) THEN y ELSE Answer("not_found", {F})
<1>1. ASSUME {F} \subseteq DOMAIN had PROVE Runs(t, a, had, x1, g, y1)
    <2>1. Data(g, F) = Data(had, F)
        BY <1>1, SameData
    <2>2. CASE some(had)
        BY <2>1, <2>2
    <2>3. CASE ~some(had)
        <3>1. x1.kind # "asks"
            BY <2>3 DEF Answer
        <3> QED
            BY <3>1, AnswersRun
    <2> QED
        BY <2>2, <2>3
<1>2. Stands(t, a, g, y1)
    <2>1. Stands(t, a, g, Answer("not_found", {F}))
        BY DEF Stands, Answer
    <2> QED
        BY <2>1
<1>3. ResolveIssuerCIK(had, a, x) = Need(had, {F}, x1) /\ ResolveIssuerCIK(g, a, y) = Need(g, {F}, y1)
    BY DEF ResolveIssuerCIK
<1> HIDE DEF x1, y1, F
<1> QED
    BY <1>1, <1>2, <1>3, NeedRuns, NeedStands

-----------------------------------------------------------------------------
(* Each tool.  What is left of a plan once the runs it needs are read is   *)
(* looked at with the same payloads both times.                            *)
LEMMA CompanyFactsServes ==
    ASSUME NEW t, NEW a, NEW had, NEW g, Grows(had, g), Typed(g)
    PROVE  Serves(t, a, had, GetCompanyFacts(a, had), g, GetCompanyFacts(a, g))
<1> DEFINE all == Use("catalog", "all")
           x(h) == IF a.ticker \in Data(h, all) THEN Answer("rows", {all})
                   ELSE Answer("not_found", {all})
<1>1. x(had).kind # "asks" /\ Stands(t, a, g, x(g))
    BY DEF Answer, Stands
<1>2. /\ GetCompanyFacts(a, had) = Checked(a, Need(had, {all}, x(had)))
      /\ GetCompanyFacts(a, g) = Checked(a, Need(g, {all}, x(g)))
    BY DEF GetCompanyFacts
<1> HIDE DEF all, x
<1> QED
    BY <1>1, <1>2, AskFor, CheckedServes

LEMMA StaticServes ==
    ASSUME NEW t, NEW a, NEW had, NEW g
    PROVE  Serves(t, a, had, Static(a, had), g, Static(a, g))
<1>1. Answer("rows", {}).kind # "asks" /\ Stands(t, a, g, Answer("rows", {}))
    BY DEF Answer, Stands
<1> QED
    BY <1>1, AnswersRun, CheckedServes DEF Static

LEMMA IPOsServe ==
    ASSUME NEW t, NEW a, NEW had, NEW g, Grows(had, g), Typed(g)
    PROVE  Serves(t, a, had, GetIPOs(a, had), g, GetIPOs(a, g))
BY ListServes, RefusedServes DEF GetIPOs

LEMMA HoldersServe ==
    ASSUME NEW t, NEW a, NEW had, NEW g, Grows(had, g), Typed(g)
    PROVE  /\ Serves(t, a, had, GetInstitutionalHoldings(a, had), g, GetInstitutionalHoldings(a, g))
           /\ Serves(t, a, had, GetInstitutionalInvestors(a, had), g, GetInstitutionalInvestors(a, g))
           /\ Serves(t, a, had, GetInsiderOwnership(a, had), g, GetInsiderOwnership(a, g))
<1>1. ASSUME NEW use
      PROVE  Serves(t, a, had, Checked(a, ResolveIssuerCIK(had, a, List(had, use))),
                            g, Checked(a, ResolveIssuerCIK(g, a, List(g, use))))
    <2>1. Runs(t, a, had, List(had, use), g, List(g, use)) /\ Stands(t, a, g, List(g, use))
        BY ListServes
    <2> QED
        BY <2>1, ResolveRuns, CheckedServes
<1> QED
    BY <1>1, RefusedServes
    DEF GetInstitutionalHoldings, GetInstitutionalInvestors, GetInsiderOwnership

LEMMA BeneficialOwnersServe ==
    ASSUME NEW t, NEW a, NEW had, NEW g, Grows(had, g), Typed(g)
    PROVE  Serves(t, a, had, GetBeneficialOwners(a, had), g, GetBeneficialOwners(a, g))
<1> DEFINE x(h) == Rows(\E u \in Feeds : Data(h, u) # {}, Feeds)
<1>1. x(had).kind # "asks" /\ Stands(t, a, g, x(g))
    BY DEF Rows, Answer, Stands
<1>2. /\ GetBeneficialOwners(a, had) = Checked(a, Need(had, Feeds, x(had)))
      /\ GetBeneficialOwners(a, g) = Checked(a, Need(g, Feeds, x(g)))
    BY DEF GetBeneficialOwners
<1> HIDE DEF x
<1> QED
    BY <1>1, <1>2, AskFor, CheckedServes

(* The filings a row is matched with may be missing, but not unreadable.   *)
LEMMA WithFilingsRuns ==
    ASSUME NEW t, NEW a, NEW had, NEW g, Grows(had, g), Typed(g), NEW x, NEW y,
           "filings" \in Optional(t, a), Stands(t, a, g, y),
           Statements(a.ticker) \in DOMAIN had => Runs(t, a, had, x, g, y)
    PROVE  /\ Runs(t, a, had, WithFilings(a, had, x), g, WithFilings(a, g, y))
           /\ Stands(t, a, g, WithFilings(a, g, y))
<1> DEFINE S == Statements(a.ticker)
           F == Filings(a.ticker)
           x1 == IdentityMap(a, had, x)
           y1 == IdentityMap(a, g, y)
<1>1. ASSUME {S, F} \subseteq DOMAIN had PROVE Runs(t, a, had, x1, g, y1)
    <2>1. g[F] = had[F] /\ Read(g, F) = Read(had, F)
        BY <1>1, SameData
    <2>2. CASE had[F].read = "drift" \/ (~Read(had, F) /\ a.filtered)
        <3>1. x1.kind # "asks"
            BY <2>2 DEF IdentityMap, Answer
        <3> QED
            BY <3>1, AnswersRun
    <2>3. CASE ~(had[F].read = "drift" \/ (~Read(had, F) /\ a.filtered))
        <3>1. x1 = x /\ y1 = y
            BY <2>1, <2>3 DEF IdentityMap
        <3> QED
            BY <1>1, <3>1
    <2> QED
        BY <2>2, <2>3
<1>2. ASSUME {S, F} \subseteq DOMAIN g PROVE Stands(t, a, g, y1)
    <2>1. CASE g[F].read = "drift"
        <3>1. y1 = Answer("drift", {F})
            BY <2>1 DEF IdentityMap
        <3> QED
            BY <2>1, <3>1 DEF Stands, Answer
    <2>2. CASE g[F].read # "drift" /\ ~Read(g, F) /\ a.filtered
        <3>1. g[F].read = "failed" /\ y1 = Answer("run_error", {F})
            BY <1>2, <2>2 DEF IdentityMap, Read, Typed
        <3> QED
            BY <3>1 DEF Stands, Answer
    <2>3. CASE g[F].read # "drift" /\ ~(~Read(g, F) /\ a.filtered)
        BY <2>3 DEF IdentityMap
    <2> QED
        BY <2>1, <2>2, <2>3
<1>3. /\ WithFilings(a, had, x) = Stage(had, {S, F}, Need(had, {S}, x1))
      /\ WithFilings(a, g, y) = Stage(g, {S, F}, Need(g, {S}, y1))
    BY DEF WithFilings
<1>4. MayMiss(t, a, F)
    BY DEF MayMiss, Filings, Use
<1> HIDE DEF x1, y1, S, F
<1>5. ASSUME {S, F} \subseteq DOMAIN had PROVE Runs(t, a, had, Need(had, {S}, x1), g, Need(g, {S}, y1))
    BY <1>1, <1>5, NeedRuns
<1>6. ASSUME {S, F} \subseteq DOMAIN g, NEW u \in {S, F} PROVE Misses(t, a, g, u, Need(g, {S}, y1))
    <2>1. CASE u = F
        BY <1>4, <2>1, NeverMissed
    <2>2. CASE u = S
        BY <1>6, <2>2 DEF Misses, Need, Stage, Bad, Answer, Successes, Typed
    <2> QED
        BY <2>1, <2>2
<1>7. ASSUME {S, F} \subseteq DOMAIN g PROVE Stands(t, a, g, Need(g, {S}, y1))
    BY <1>2, <1>7, NeedStands
<1>8. Runs(t, a, had, WithFilings(a, had, x), g, WithFilings(a, g, y))
    BY <1>3, <1>5, <1>6, StageRuns
<1>9. Stands(t, a, g, WithFilings(a, g, y))
    BY <1>3, <1>7, StageStands
<1> QED
    BY <1>8, <1>9

LEMMA MetricsServe ==
    ASSUME NEW a, NEW had, NEW g, Grows(had, g), Typed(g)
    PROVE  Serves("get_financial_metrics", a, had, GetFinancialMetrics(a, had),
                  g, GetFinancialMetrics(a, g))
<1> DEFINE t == "get_financial_metrics"
           S == Statements(a.ticker)
           P == Prices(a.ticker)
           priced(h) == Stage(h, {P}, Rows(TRUE, {S}))
           x(h) == IF Data(h, S) = {} THEN Rows(FALSE, {S}) ELSE priced(h)
<1>0. Optional(t, a) = {"filings", "prices"} /\ MayMiss(t, a, P)
    BY DEF Optional, MayMiss, Prices, Use
<1>1. Rows(TRUE, {S}).kind # "asks" /\ Rows(FALSE, {S}).kind # "asks"
      /\ Stands(t, a, g, Rows(TRUE, {S})) /\ Stands(t, a, g, Rows(FALSE, {S}))
    BY DEF Rows, Answer, Stands
<1>2. /\ GetFinancialMetrics(a, had) = Checked(a, WithFilings(a, had, x(had)))
      /\ GetFinancialMetrics(a, g) = Checked(a, WithFilings(a, g, x(g)))
    BY DEF GetFinancialMetrics
<1> HIDE DEF t, P
<1>3. Runs(t, a, had, priced(had), g, priced(g)) /\ Stands(t, a, g, priced(g))
    <2>1. \A u \in {P} : Misses(t, a, g, u, Rows(TRUE, {S}))
        BY <1>0, NeverMissed
    <2> QED
        BY <1>1, <2>1, AnswersRun, StageRuns, StageStands
<1>4. Stands(t, a, g, x(g))
    BY <1>1, <1>3
<1>5. ASSUME S \in DOMAIN had PROVE Runs(t, a, had, x(had), g, x(g))
    <2>1. Data(g, S) = Data(had, S)
        BY <1>5, SameData
    <2> HIDE DEF priced
    <2>2. CASE Data(had, S) = {}
        BY <1>1, <2>2, AnswersRun
    <2>3. CASE Data(had, S) # {}
        BY <1>3, <2>1, <2>3
    <2> QED
        BY <2>2, <2>3
<1> HIDE DEF x
<1>6. /\ Runs(t, a, had, WithFilings(a, had, x(had)), g, WithFilings(a, g, x(g)))
      /\ Stands(t, a, g, WithFilings(a, g, x(g)))
    BY <1>0, <1>4, <1>5, WithFilingsRuns
<1>7. Serves(t, a, had, GetFinancialMetrics(a, had), g, GetFinancialMetrics(a, g))
    BY <1>2, <1>6, CheckedServes
<1> QED
    BY <1>7 DEF t

LEMMA AllFinancialsServe ==
    ASSUME NEW a, NEW had, NEW g, Grows(had, g), Typed(g)
    PROVE  Serves("get_all_financials", a, had, GetAllFinancials(a, had), g, GetAllFinancials(a, g))
<1> DEFINE t == "get_all_financials"
           T == Table(a.ticker)
           rows == Answer("rows", {Statements(a.ticker), T})
<1>0. "filings" \in Optional(t, a)
    BY DEF Optional
<1>1. rows.kind # "asks" /\ Stands(t, a, g, rows)
    BY DEF Answer, Stands
<1>2. /\ GetAllFinancials(a, had) = Checked(a, WithFilings(a, had, Need(had, {T}, rows)))
      /\ GetAllFinancials(a, g) = Checked(a, WithFilings(a, g, Need(g, {T}, rows)))
    BY DEF GetAllFinancials
<1> HIDE DEF t, T, rows
<1>3. Runs(t, a, had, Need(had, {T}, rows), g, Need(g, {T}, rows))
      /\ Stands(t, a, g, Need(g, {T}, rows))
    BY <1>1, AskFor
<1>4. /\ Runs(t, a, had, WithFilings(a, had, Need(had, {T}, rows)),
                     g, WithFilings(a, g, Need(g, {T}, rows)))
      /\ Stands(t, a, g, WithFilings(a, g, Need(g, {T}, rows)))
    BY <1>0, <1>3, WithFilingsRuns
<1>5. Serves(t, a, had, GetAllFinancials(a, had), g, GetAllFinancials(a, g))
    BY <1>2, <1>4, CheckedServes
<1> QED
    BY <1>5 DEF t

LEMMA SnapshotServes ==
    ASSUME NEW a, NEW had, NEW g, Grows(had, g), Typed(g)
    PROVE  Serves("get_financial_metrics_snapshot", a, had, GetFinancialMetricsSnapshot(a, had),
                  g, GetFinancialMetricsSnapshot(a, g))
<1> DEFINE t == "get_financial_metrics_snapshot"
           M == Use("summary", a.ticker)
           T == Statements(a.ticker)
           P == Prices(a.ticker)
           U(h) == {M, T} \cup (IF Data(h, T) = {} THEN {} ELSE {P})
           rows == Answer("rows", {M, T})
           x(h) == IF Bad(h, {M}, "failed") THEN Answer("run_error", {M})
                   ELSE Need(h, {T}, Need(h, {M}, rows))
<1>0. MayMiss(t, a, P)
    BY DEF MayMiss, Optional, Prices, Use
<1>1. /\ GetFinancialMetricsSnapshot(a, had) = Checked(a, Stage(had, U(had), x(had)))
      /\ GetFinancialMetricsSnapshot(a, g) = Checked(a, Stage(g, U(g), x(g)))
    BY DEF GetFinancialMetricsSnapshot
<1> HIDE DEF t, P
<1>2. U(had) \subseteq U(g)
    <2>1. CASE T \in DOMAIN had
        BY <2>1, SameData
    <2>2. CASE T \notin DOMAIN had
        BY <2>2 DEF Data, Read
    <2> QED
        BY <2>1, <2>2
<1>3. ASSUME U(g) \subseteq DOMAIN g, NEW u \in U(had) PROVE Misses(t, a, g, u, x(g))
    <2>1. CASE u = P
        BY <1>0, <2>1, NeverMissed
    <2>2. CASE u \in {M, T}
        <3>1. M \in DOMAIN g /\ T \in DOMAIN g
            BY <1>3
        <3>2. SUFFICES ASSUME g[u].read # "ok" PROVE x(g).kind \notin Successes
            BY DEF Misses
        <3>3. Need(g, {T}, Need(g, {M}, rows)).kind \notin Successes
            BY <2>2, <3>1, <3>2 DEF Need, Stage, Bad, Answer, Successes, Typed
        <3>4. Answer("run_error", {M}).kind \notin Successes
            BY DEF Answer, Successes
        <3> QED
            BY <3>3, <3>4
    <2> QED
        BY <2>1, <2>2
<1>4. ASSUME U(g) \subseteq DOMAIN g PROVE Stands(t, a, g, x(g))
    <2>1. Stands(t, a, g, rows)
        BY DEF Stands, Answer
    <2>2. Stands(t, a, g, Need(g, {T}, Need(g, {M}, rows)))
        BY <2>1, NeedStands
    <2>3. ASSUME Bad(g, {M}, "failed") PROVE Stands(t, a, g, Answer("run_error", {M}))
        BY <2>3 DEF Bad, Stands, Answer
    <2> QED
        BY <2>2, <2>3
<1>5. ASSUME U(had) \subseteq DOMAIN had PROVE x(had).kind # "asks"
    BY <1>5 DEF Need, Stage, Answer
<1> HIDE DEF x, U
<1>6. Runs(t, a, had, Stage(had, U(had), x(had)), g, Stage(g, U(g), x(g)))
    <2>1. CASE U(had) \subseteq DOMAIN had
        BY <1>2, <1>3, <1>5, <2>1, StageVaries
    <2>2. CASE ~(U(had) \subseteq DOMAIN had)
        <3>1. rows.kind # "asks" /\ Stage(had, U(had), x(had)) = Stage(had, U(had), rows)
            BY <2>2 DEF Stage, Answer
        <3> QED
            BY <1>2, <1>3, <3>1, StageVaries
    <2> QED
        BY <2>1, <2>2
<1>7. Stands(t, a, g, Stage(g, U(g), x(g)))
    BY <1>4, StageStands
<1>8. Serves(t, a, had, GetFinancialMetricsSnapshot(a, had), g, GetFinancialMetricsSnapshot(a, g))
    BY <1>1, <1>6, <1>7, CheckedServes
<1> QED
    BY <1>8 DEF t

(* Of the companies that could not be read there is an earliest.           *)
LEMMA Smallest ==
    ASSUME NEW S, S \subseteq Nat, S # {}
    PROVE  \E m \in S : \A n \in S : ~(n < m)
<1> DEFINE R == OpToRel(<, Nat)
<1>1. IsWellFoundedOn(R, Nat)
    BY NatLessThanWellFounded
<1>2. \A x, y \in Nat : x < y => <<x, y>> \in R
    BY DEF OpToRel
<1> HIDE DEF R
<1>3. \E x \in S : \A y \in S : ~(<<y, x>> \in R)
    BY <1>1, WFMin
<1> QED
    BY <1>2, <1>3

LEMMA SearchServes ==
    ASSUME NEW a, a.tickers \in Seq(STRING), NEW had, NEW g, Grows(had, g), Typed(g)
    PROVE  Serves("search_line_items", a, had, SearchLineItems(a, had), g, SearchLineItems(a, g))
<1> DEFINE t == "search_line_items"
           company(i) == Statements(a.tickers[i])
           table(i) == Table(a.tickers[i])
           companies == {company(i) : i \in DOMAIN a.tickers}
           bad(h) == {i \in DOMAIN a.tickers :
                         h[company(i)].read = "failed" \/ h[company(i)] = NoOutput}
           earliest(h) == CHOOSE i \in bad(h) : \A j \in bad(h) : i <= j
           tables(h) == IF a.cash THEN {i \in DOMAIN a.tickers : table(i) \notin DOMAIN h} ELSE {}
           next(h) == CHOOSE i \in tables(h) : \A j \in tables(h) : i <= j
           tried(h) == {table(i) : i \in DOMAIN a.tickers} \cap DOMAIN h
           first1(h) == Need(h, {company(earliest(h))}, Answer("rows", {}))
           rows(h) == Rows(\E u \in companies \cup tried(h) : Data(h, u) # {}, companies)
           x(h) == IF bad(h) # {} THEN first1(h)
                   ELSE IF Bad(h, tried(h), "failed") THEN Answer("run_error", tried(h))
                   ELSE IF tables(h) # {} THEN Ask({table(next(h))}) ELSE rows(h)
<1>0. \A i : MayMiss(t, a, table(i))
    BY DEF MayMiss, Optional, Table, Use
<1>01. ASSUME NEW i, NEW o, ~Skipped(t, company(i), o), o.read = "drift" PROVE o = NoOutput
    BY <1>01 DEF Skipped, Statements, Use
<1>1. ASSUME NEW h PROVE SearchLineItems(a, h) = Checked(a, Stage(h, companies, x(h)))
    BY DEF SearchLineItems
<1>2. ASSUME NEW h, bad(h) # {} PROVE earliest(h) \in bad(h)
    <2>1. PICK n \in Nat : DOMAIN a.tickers = 1 .. n
        OBVIOUS
    <2>2. bad(h) \subseteq Nat
        BY <2>1
    <2>3. \E m \in bad(h) : \A n1 \in bad(h) : ~(n1 < m)
        BY <1>2, <2>2, Smallest
    <2>4. \E m \in bad(h) : \A n1 \in bad(h) : m <= n1
        BY <2>2, <2>3
    <2> QED
        BY <2>4
<1> HIDE DEF t, earliest
<1>3. ASSUME companies \subseteq DOMAIN had PROVE Runs(t, a, had, x(had), g, x(g))
    <2>1. CASE bad(had) # {}
        <3>1. company(earliest(had)) \in DOMAIN had
            BY <1>2, <1>3, <2>1
        <3>2. first1(had).kind # "asks"
            BY <3>1 DEF Need, Stage, Answer
        <3>3. x(had) = first1(had)
            BY <2>1
        <3> HIDE DEF x, first1
        <3> QED
            BY <3>2, <3>3, AnswersRun
    <2>2. CASE bad(had) = {} /\ ~Bad(had, tried(had), "failed") /\ tables(had) # {}
        <3>1. x(had) = Ask({table(next(had))})
            BY <2>2
        <3>2. MayMiss(t, a, table(next(had)))
            BY <1>0
        <3> HIDE DEF x, table, next
        <3>3. Misses(t, a, g, table(next(had)), x(g))
            BY <3>2, NeverMissed
        <3> QED
            BY <3>1, <3>3, OneRuns
    <2>3. CASE bad(had) = {} /\ (Bad(had, tried(had), "failed") \/ tables(had) = {})
        <3>1. Answer("run_error", tried(had)).kind # "asks" /\ rows(had).kind # "asks"
            BY DEF Answer, Rows
        <3>2. x(had) = Answer("run_error", tried(had)) \/ x(had) = rows(had)
            BY <2>3
        <3> HIDE DEF x, rows
        <3> QED
            BY <3>1, <3>2, AnswersRun
    <2> QED
        BY <2>1, <2>2, <2>3
<1>4. ASSUME companies \subseteq DOMAIN g, NEW u \in companies PROVE Misses(t, a, g, u, x(g))
    <2> SUFFICES ASSUME g[u].read # "ok", ~Skipped(t, u, g[u]) PROVE x(g).kind \notin Successes
        BY DEF Misses
    <2>0. PICK i \in DOMAIN a.tickers : u = company(i)
        OBVIOUS
    <2>1. bad(g) # {}
        <3>1. g[u].read \in {"drift", "failed"}
            BY <1>4 DEF Typed
        <3>2. CASE g[u].read = "drift"
            <4>1. g[company(i)] = NoOutput
                BY <1>01, <2>0, <3>2
            <4> QED
                BY <4>1
        <3>3. CASE g[u].read = "failed"
            BY <2>0, <3>3
        <3> QED
            BY <3>1, <3>2, <3>3
    <2>2. earliest(g) \in bad(g)
        BY <1>2, <2>1
    <2>3. PICK c : c = company(earliest(g))
        OBVIOUS
    <2>4. c \in DOMAIN g /\ g[c].read \in {"drift", "failed"}
        BY <1>4, <2>2, <2>3 DEF NoOutput
    <2>5. Need(g, {c}, Answer("rows", {})).kind \notin Successes
        BY <2>4 DEF Need, Stage, Bad, Answer, Successes
    <2> QED
        BY <2>1, <2>3, <2>5
<1>5. Stands(t, a, g, x(g))
    <2>1. Stands(t, a, g, Answer("rows", {})) /\ Stands(t, a, g, rows(g))
          /\ Stands(t, a, g, Ask({table(next(g))}))
        BY DEF Stands, Answer, Rows, Ask
    <2>2. Stands(t, a, g, first1(g))
        BY <2>1, NeedStands
    <2>3. ASSUME Bad(g, tried(g), "failed") PROVE Stands(t, a, g, Answer("run_error", tried(g)))
        BY <2>3 DEF Bad, Stands, Answer
    <2> QED
        BY <2>1, <2>2, <2>3
<1> HIDE DEF x, companies
<1>6. Runs(t, a, had, Stage(had, companies, x(had)), g, Stage(g, companies, x(g)))
    BY <1>3, <1>4, StageRuns
<1>7. Stands(t, a, g, Stage(g, companies, x(g)))
    BY <1>5, StageStands
<1>8. Serves(t, a, had, SearchLineItems(a, had), g, SearchLineItems(a, g))
    BY <1>1, <1>6, <1>7, CheckedServes
<1> QED
    BY <1>8 DEF t

(* One company's earnings, and the calendar's, which may name one that     *)
(* nobody asked about.                                                     *)
LEMMA EarningsServe ==
    ASSUME NEW a, NEW had, NEW g, Grows(had, g), Typed(g)
    PROVE  Serves("get_earnings", a, had, GetEarnings(a, had), g, GetEarnings(a, g))
<1> DEFINE t == "get_earnings"
<1>1. CASE a.ticker = "all"
    <2> DEFINE C == Use("calendar", "all")
               heard(h) == {n \in Data(h, C) : Composed(h, n)}
               releases(h) == UNION {Releases(n) : n \in Data(h, C)}
               rows(h) == Rows(\E n \in heard(h) : Data(h, Statements(n)) # {},
                               UNION {Releases(n) : n \in heard(h)})
               feed(h) == Stage(h, releases(h), rows(h))
               blamed == Answer("input_error", {C})
               x(h) == IF "malformed" \in Data(h, C) THEN blamed ELSE feed(h)
    <2>1. ASSUME NEW h PROVE GetEarnings(a, h) = Checked(a, Need(h, {C}, x(h)))
        BY <1>1 DEF GetEarnings, EarningsFeed
    <2>2. \A u \in releases(g) : MayMiss(t, a, u)
        BY <1>1 DEF MayMiss, Optional, Releases, Statements, Filings, Use
    <2>3. rows(had).kind # "asks" /\ blamed.kind # "asks" /\ Stands(t, a, g, rows(g))
        BY DEF Rows, Answer, Stands
    <2>4. "malformed" \in Data(g, C) => Stands(t, a, g, blamed)
        BY DEF Answer, Stands
    <2> HIDE DEF t, C, releases, rows, blamed
    <2>5. ASSUME {C} \subseteq DOMAIN had PROVE Runs(t, a, had, x(had), g, x(g))
        <3>1. Data(g, C) = Data(had, C)
            BY <2>5, SameData
        <3>2. CASE "malformed" \in Data(had, C)
            BY <2>3, <3>2, AnswersRun
        <3>3. CASE "malformed" \notin Data(had, C)
            <4>1. releases(had) = releases(g)
                BY <3>1 DEF releases
            <4>2. \A u \in releases(had) : Misses(t, a, g, u, rows(g))
                BY <2>2, <4>1, NeverMissed
            <4>3. Runs(t, a, had, feed(had), g, feed(g))
                BY <2>3, <4>1, <4>2, StageVaries
            <4> QED
                BY <3>1, <3>3, <4>3
        <3> QED
            BY <3>2, <3>3
    <2>6. Stands(t, a, g, x(g))
        <3>1. Stands(t, a, g, feed(g))
            BY <2>3, StageStands
        <3> QED
            BY <2>4, <3>1
    <2> HIDE DEF x
    <2>7. Runs(t, a, had, Need(had, {C}, x(had)), g, Need(g, {C}, x(g)))
        BY <2>5, NeedRuns
    <2>8. Stands(t, a, g, Need(g, {C}, x(g)))
        BY <2>6, NeedStands
    <2>9. Serves(t, a, had, GetEarnings(a, had), g, GetEarnings(a, g))
        BY <2>1, <2>7, <2>8, CheckedServes
    <2> QED
        BY <2>9 DEF t
<1>2. CASE a.ticker # "all"
    <2> DEFINE R == Releases(a.ticker)
               S == Use("surprise", a.ticker)
               rows(h) == Rows(Data(h, Statements(a.ticker)) # {}, R)
               x(h) == Stage(h, {S}, rows(h))
    <2>1. ASSUME NEW h PROVE GetEarnings(a, h) = Checked(a, Need(h, R, x(h)))
        BY <1>2 DEF GetEarnings, EarningsForTicker
    <2>2. MayMiss(t, a, S)
        BY <1>2 DEF MayMiss, Optional, Use
    <2>3. rows(had).kind # "asks" /\ Stands(t, a, g, rows(g))
        BY DEF Rows, Answer, Stands
    <2> HIDE DEF t, R, S, rows
    <2>4. \A u \in {S} : Misses(t, a, g, u, rows(g))
        BY <2>2, NeverMissed
    <2>5. Runs(t, a, had, x(had), g, x(g)) /\ Stands(t, a, g, x(g))
        BY <2>3, <2>4, StageVaries, StageStands
    <2> HIDE DEF x
    <2>6. Runs(t, a, had, Need(had, R, x(had)), g, Need(g, R, x(g)))
        BY <2>5, NeedRuns
    <2>7. Stands(t, a, g, Need(g, R, x(g)))
        BY <2>5, NeedStands
    <2>8. Serves(t, a, had, GetEarnings(a, had), g, GetEarnings(a, g))
        BY <2>1, <2>6, <2>7, CheckedServes
    <2> QED
        BY <2>8 DEF t
<1> QED
    BY <1>1, <1>2

(* The filing is chosen from the same filings each time.                   *)
LEMMA FilingItemsServe ==
    ASSUME NEW a, NEW had, NEW g, Grows(had, g), Typed(g)
    PROVE  Serves("get_filing_items", a, had, GetFilingItems(a, had), g, GetFilingItems(a, g))
<1> DEFINE t == "get_filing_items"
           F == Filings(a.ticker)
           years(h) == IF a.year = AnyYear THEN LatestFilingYear(Data(h, F), a.form) ELSE {a.year}
           chosen(h) == SelectFiling(Data(h, F), a.form, years(h))
           filing(h) == CHOOSE f \in chosen(h) : TRUE
           doc(h) == Use("document", filing(h).id)
           K == <<"filings", a.ticker, "cik">>
           ended(h) == Stage(h, {K}, Answer("rows", {doc(h)}))
           found(h) == IF a.item # "all" /\ a.item \notin Data(h, doc(h))
                       THEN Answer("not_found", {doc(h)}) ELSE ended(h)
           opened(h) == Need(h, {doc(h)}, found(h))
           x(h) == IF chosen(h) = {} THEN Answer("not_found", {F})
                   ELSE IF ~filing(h).sec THEN Answer("run_error", {F}) ELSE opened(h)
<1>1. ASSUME NEW h PROVE GetFilingItems(a, h) = Checked(a, Need(h, {F}, x(h)))
    BY DEF GetFilingItems
<1>2. MayMiss(t, a, K)
    BY DEF MayMiss
<1>3. \A D, u : Answer(D, u).kind = D
    BY DEF Answer
<1>4. ASSUME NEW u PROVE Stands(t, a, g, Answer("rows", u)) /\ Stands(t, a, g, Answer("not_found", u))
    BY DEF Stands, Answer
<1>5. ASSUME chosen(g) # {}, ~filing(g).sec PROVE Stands(t, a, g, Answer("run_error", {F}))
    <2>1. filing(g) \in Data(g, F)
        BY <1>5 DEF SelectFiling, Newest, FormOf
    <2> HIDE DEF filing
    <2>2. \E f \in Data(g, F) : ~f.sec
        BY <1>5, <2>1
    <2> QED
        BY <2>2 DEF Stands, Answer
<1>6. Stands(t, a, g, opened(g))
    <2>1. Stands(t, a, g, found(g))
        BY <1>4, StageStands
    <2> HIDE DEF found, doc
    <2> QED
        BY <2>1, NeedStands
<1>7. Stands(t, a, g, x(g))
    <2>1. Stands(t, a, g, Answer("not_found", {F}))
        BY <1>4
    <2>2. \/ x(g) = Answer("not_found", {F})
          \/ chosen(g) # {} /\ ~filing(g).sec /\ x(g) = Answer("run_error", {F})
          \/ x(g) = opened(g)
        OBVIOUS
    <2> HIDE DEF t, F, chosen, filing, opened, x
    <2> QED
        BY <2>1, <2>2, <1>5, <1>6
<1> HIDE DEF t, K, filing
<1>8. ASSUME NEW d, NEW x1, NEW y1, Runs(t, a, had, x1, g, y1)
      PROVE  Runs(t, a, had, Need(had, {d}, IF a.item # "all" /\ a.item \notin Data(had, d)
                                            THEN Answer("not_found", {d}) ELSE x1),
                          g, Need(g, {d}, IF a.item # "all" /\ a.item \notin Data(g, d)
                                          THEN Answer("not_found", {d}) ELSE y1))
    <2> DEFINE p == IF a.item # "all" /\ a.item \notin Data(had, d)
                    THEN Answer("not_found", {d}) ELSE x1
               q == IF a.item # "all" /\ a.item \notin Data(g, d)
                    THEN Answer("not_found", {d}) ELSE y1
    <2>1. ASSUME {d} \subseteq DOMAIN had PROVE Runs(t, a, had, p, g, q)
        <3>1. Data(g, d) = Data(had, d)
            BY <2>1, SameData
        <3>2. CASE a.item # "all" /\ a.item \notin Data(had, d)
            <4>1. p.kind # "asks"
                BY <1>3, <3>2
            <4> QED
                BY <4>1, AnswersRun
        <3>3. CASE ~(a.item # "all" /\ a.item \notin Data(had, d))
            BY <1>8, <3>1, <3>3
        <3> QED
            BY <3>2, <3>3
    <2> HIDE DEF p, q
    <2>2. Runs(t, a, had, Need(had, {d}, p), g, Need(g, {d}, q))
        BY <2>1, NeedRuns
    <2> QED
        BY <2>2 DEF p, q
<1>9. ASSUME {F} \subseteq DOMAIN had PROVE Runs(t, a, had, x(had), g, x(g))
    <2>1. Data(g, F) = Data(had, F)
        BY <1>9, SameData
    <2>2. chosen(g) = chosen(had) /\ filing(g) = filing(had) /\ doc(g) = doc(had)
        BY <2>1 DEF filing
    <2>3. CASE chosen(had) = {} \/ ~filing(had).sec
        <3>1. x(had) = Answer("not_found", {F}) \/ x(had) = Answer("run_error", {F})
            BY <2>3
        <3> HIDE DEF x
        <3>2. x(had).kind # "asks"
            BY <1>3, <3>1
        <3> QED
            BY <3>2, AnswersRun
    <2>4. CASE ~(chosen(had) = {} \/ ~filing(had).sec)
        <3>1. x(had) = opened(had) /\ x(g) = opened(g)
            BY <2>2, <2>4
        <3>2. PICK d : d = doc(had) /\ d = doc(g)
            BY <2>2
        <3> DEFINE rows == Answer("rows", {d})
        <3>3. rows.kind # "asks"
            BY <1>3
        <3>4. \A u \in {K} : Misses(t, a, g, u, rows)
            BY <1>2, NeverMissed
        <3> HIDE DEF rows, x, doc
        <3>5. Runs(t, a, had, Stage(had, {K}, rows), g, Stage(g, {K}, rows))
            BY <3>3, <3>4, StageVaries
        <3>6. Runs(t, a, had, opened(had), g, opened(g))
            BY <1>8, <3>2, <3>5 DEF rows
        <3> QED
            BY <3>1, <3>6
    <2> QED
        BY <2>3, <2>4
<1> HIDE DEF x, F
<1>10. Runs(t, a, had, Need(had, {F}, x(had)), g, Need(g, {F}, x(g)))
    BY <1>9, NeedRuns
<1>11. Stands(t, a, g, Need(g, {F}, x(g)))
    BY <1>7, NeedStands
<1>12. Serves(t, a, had, GetFilingItems(a, had), g, GetFilingItems(a, g))
    BY <1>1, <1>10, <1>11, CheckedServes
<1> QED
    BY <1>12 DEF t

LEMMA ExtractLatestRuns ==
    ASSUME NEW t, NEW a, NEW had, NEW g, Grows(had, g), Typed(g), NEW what
    PROVE  Serves(t, a, had, Checked(a, ExtractLatest(a, had, what)),
                  g, Checked(a, ExtractLatest(a, g, what)))
<1> DEFINE F == Filings(a.ticker)
           chosen(h) == LatestFilingByForm(Data(h, F), a.form)
           filing(h) == CHOOSE f \in chosen(h) : TRUE
           list(h) == List(h, Extract(filing(h).id, what))
           x(h) == IF chosen(h) = {} THEN Answer("not_found", {F})
                   ELSE IF filing(h).year < a.since THEN Rows(FALSE, {F}) ELSE list(h)
<1>1. ASSUME NEW h PROVE ExtractLatest(a, h, what) = Need(h, {F}, x(h))
    BY DEF ExtractLatest
<1>2. ASSUME NEW y, y = Answer("not_found", {F}) \/ y = Rows(FALSE, {F})
      PROVE  y.kind # "asks" /\ Stands(t, a, g, y)
    BY <1>2 DEF Answer, Rows, Stands
<1>3. \A h : x(h) \in {Answer("not_found", {F}), Rows(FALSE, {F}), list(h)}
    OBVIOUS
<1>4. ASSUME {F} \subseteq DOMAIN had PROVE Runs(t, a, had, x(had), g, x(g))
    <2>1. Data(g, F) = Data(had, F)
        BY <1>4, SameData
    <2>2. filing(g) = filing(had)
        BY <2>1
    <2>3. CASE x(had) \in {Answer("not_found", {F}), Rows(FALSE, {F})}
        <3> HIDE DEF x
        <3>1. x(had).kind # "asks"
            BY <1>2, <2>3
        <3> QED
            BY <3>1, AnswersRun
    <2>4. CASE x(had) \notin {Answer("not_found", {F}), Rows(FALSE, {F})}
        <3>1. x(had) = list(had) /\ x(g) = list(g)
            BY <2>1, <2>4
        <3>2. PICK e : e = Extract(filing(had).id, what)
            OBVIOUS
        <3>3. x(had) = List(had, e) /\ x(g) = List(g, e)
            BY <2>2, <3>1, <3>2
        <3> HIDE DEF x
        <3> QED
            BY <3>3, ListServes
    <2> QED
        BY <2>3, <2>4
<1> HIDE DEF filing
<1>5. Stands(t, a, g, list(g))
    BY ListServes
<1> HIDE DEF list, x, F
<1>6. Stands(t, a, g, x(g))
    BY <1>2, <1>3, <1>5
<1>7. Runs(t, a, had, Need(had, {F}, x(had)), g, Need(g, {F}, x(g)))
    BY <1>4, NeedRuns
<1>8. Stands(t, a, g, Need(g, {F}, x(g)))
    BY <1>6, NeedStands
<1> QED
    BY <1>1, <1>7, <1>8, CheckedServes

LEMMA ReleasesServe ==
    ASSUME NEW t \in {"get_kpi_guidance", "get_kpi_non_gaap"}, NEW a, NEW had, NEW g,
           Grows(had, g), Typed(g), NEW what
    PROVE  Serves(t, a, had, Checked(a, KPIFromEarningsReleases(a, had, what)),
                  g, Checked(a, KPIFromEarningsReleases(a, g, what)))
<1> DEFINE F == Filings(a.ticker)
           releases(h) == FormOf(Data(h, F), "8-K")
           directory(f) == Use("directory", f.id)
           opened(h) == {f \in releases(h) : Data(h, directory(f)) # {}}
           unread(h) == {Extract(f.id, what) : f \in opened(h)} \ DOMAIN h
           items(h) == UNION {Data(h, Extract(f.id, what)) : f \in opened(h)}
           left(h) == Untried(releases(h), h)
           newest(h) == CHOOSE f \in Newest(left(h)) : TRUE
           enough(h) == \/ Cardinality(opened(h)) >= MaxExhibits
                        \/ Cardinality(items(h)) >= a.limit
           none == Answer("not_found", {F})
           rows(h) == Rows(items(h) # {}, {F})
           x(h) == IF unread(h) # {} THEN Ask(unread(h))
                   ELSE IF left(h) # {} /\ ~enough(h) THEN Ask({directory(newest(h))})
                   ELSE IF opened(h) = {} THEN none ELSE rows(h)
<1>1. ASSUME NEW h PROVE KPIFromEarningsReleases(a, h, what) = Need(h, {F}, x(h))
    BY DEF KPIFromEarningsReleases
<1>2. \A f : MayMiss(t, a, directory(f)) /\ MayMiss(t, a, Extract(f.id, what))
    <2>1. Optional(t, a) = {"directory", "extract"}
        BY DEF Optional
    <2> QED
        BY <2>1 DEF MayMiss, Extract, Use
<1>3. none.kind # "asks" /\ Stands(t, a, g, none)
    BY DEF Answer, Stands
<1>4. rows(had).kind # "asks" /\ Stands(t, a, g, rows(g))
    BY DEF Answer, Rows, Stands
<1>5. ASSUME NEW U PROVE Stands(t, a, g, Ask(U))
    BY DEF Ask, Stands
<1>6. ASSUME NEW h
      PROVE  \/ unread(h) # {} /\ x(h) = Ask(unread(h))
             \/ x(h) = Ask({directory(newest(h))}) \/ x(h) = none \/ x(h) = rows(h)
    OBVIOUS
<1>7. unread(g) # {} => x(g) = Ask(unread(g))
    OBVIOUS
<1>8. \A u \in unread(had) : MayMiss(t, a, u)
    BY <1>2
<1>9. ASSUME {F} \subseteq DOMAIN had, NEW u \in unread(had), u \notin DOMAIN g
      PROVE  u \in unread(g)
    <2>1. PICK f \in opened(had) : u = Extract(f.id, what)
        BY <1>9
    <2>2. releases(g) = releases(had)
        BY <1>9, SameData
    <2>3. directory(f) \in DOMAIN had
        BY <2>1 DEF Data, Read
    <2>4. Data(g, directory(f)) = Data(had, directory(f))
        BY <2>3, SameData
    <2>5. f \in opened(g)
        BY <2>1, <2>2, <2>4
    <2> QED
        BY <1>9, <2>1, <2>5
<1> HIDE DEF x, unread, rows, none, newest, directory
<1>10. ASSUME {F} \subseteq DOMAIN had PROVE Runs(t, a, had, x(had), g, x(g))
    <2>1. CASE x(had) = none \/ x(had) = rows(had)
        BY <1>3, <1>4, <2>1, AnswersRun
    <2>2. CASE x(had) = Ask({directory(newest(had))})
        <3>1. Misses(t, a, g, directory(newest(had)), x(g))
            BY <1>2, NeverMissed
        <3> QED
            BY <2>2, <3>1, OneRuns
    <2>3. CASE unread(had) # {} /\ x(had) = Ask(unread(had))
        <3>1. Asks(x(had), had) \subseteq unread(had)
            BY <2>3 DEF Asks, Ask
        <3>2. \A u \in Asks(x(had), had) : Misses(t, a, g, u, x(g))
            BY <1>8, <3>1, NeverMissed
        <3>3. ASSUME NEW u \in Asks(x(had), had), u \notin DOMAIN g PROVE u \in Asks(x(g), g)
            <4>1. u \in unread(g)
                BY <1>9, <1>10, <3>1, <3>3
            <4>2. x(g) = Ask(unread(g))
                BY <1>7, <4>1
            <4> QED
                BY <3>3, <4>1, <4>2 DEF Asks, Ask
        <3> QED
            BY <3>2, <3>3 DEF Runs, Persists
    <2> QED
        BY <1>6, <2>1, <2>2, <2>3
<1>11. Stands(t, a, g, x(g))
    BY <1>3, <1>4, <1>5, <1>6
<1> HIDE DEF F
<1>12. Runs(t, a, had, Need(had, {F}, x(had)), g, Need(g, {F}, x(g)))
    BY <1>10, NeedRuns
<1>13. Stands(t, a, g, Need(g, {F}, x(g)))
    BY <1>11, NeedStands
<1> QED
    BY <1>1, <1>12, <1>13, CheckedServes

(* The pages of the filings come one at a time.                            *)
LEMMA OnePage ==
    ASSUME NEW f, NEW a, NEW h
    PROVE  NextPage(f, a, h) = {} \/ \E u : u[1] = "sec_page" /\ NextPage(f, a, h) = {u}
<1> DEFINE summary == Use("sec_page", <<f.id, "summary">>)
           pages == {Use("sec_page", <<f.id, k>>) : k \in a.kinds \cap Data(h, summary)}
           left == pages \ DOMAIN h
           u == CHOOSE v \in left : TRUE
<1>1. NextPage(f, a, h) = IF summary \notin DOMAIN h THEN {summary}
                          ELSE IF left = {} THEN {} ELSE {u}
    BY DEF NextPage
<1>2. summary[1] = "sec_page"
    BY DEF Use
<1>3. ASSUME left # {} PROVE u[1] = "sec_page"
    <2>1. u \in left
        BY <1>3
    <2>2. \A v \in left : v[1] = "sec_page"
        BY DEF Use
    <2> QED
        BY <2>1, <2>2
<1> HIDE DEF summary, left, u
<1> QED
    BY <1>1, <1>2, <1>3

LEMMA RecordsRun ==
    ASSUME NEW t, NEW a, NEW had, NEW g, Grows(had, g), Typed(g), NEW filings
    PROVE  /\ Runs(t, a, had, BuildAsReportedRecords(a, had, filings),
                           g, BuildAsReportedRecords(a, g, filings))
           /\ Stands(t, a, g, BuildAsReportedRecords(a, g, filings))
<1> DEFINE selected == SelectAsReportedFilings(filings, a)
           unfinished(h) == {f \in selected : NextPage(f, a, h) # {}}
           next(h) == CHOOSE f \in unfinished(h) : \A e \in unfinished(h) : e.id <= f.id
           page(h) == NextPage(next(h), a, h)
           pages(h) == {u \in DOMAIN h : u[1] = "sec_page"}
           rendered(h) == {u \in pages(h) : u[2][2] # "summary"}
           none == Answer("not_found", {Filings(a.ticker)})
           rows(h) == Rows(Cardinality(a.kinds) > 1 \/ rendered(h) # {}, pages(h))
           x(h) == IF unfinished(h) # {} THEN Ask(page(h)) ELSE rows(h)
           built(h) == Need(h, pages(h), x(h))
<1>1. ASSUME NEW h
      PROVE  BuildAsReportedRecords(a, h, filings) = IF selected = {} THEN none ELSE built(h)
    BY DEF BuildAsReportedRecords
<1>2. none.kind # "asks" /\ Stands(t, a, g, none)
    BY DEF Answer, Stands
<1>3. rows(had).kind # "asks" /\ Stands(t, a, g, rows(g)) /\ Stands(t, a, g, Ask(page(g)))
    BY DEF Answer, Ask, Rows, Stands
<1>4. \A h : x(h) = Ask(page(h)) \/ x(h) = rows(h)
    OBVIOUS
<1>5. page(had) = {} \/ \E u : u[1] = "sec_page" /\ page(had) = {u}
    <2> HIDE DEF next
    <2> QED
        BY OnePage
<1>6. \A u : u \in DOMAIN g /\ u[1] = "sec_page" => u \in pages(g)
    OBVIOUS
<1>7. pages(had) \subseteq DOMAIN had /\ pages(g) \subseteq DOMAIN g
    OBVIOUS
<1>8. \A h : Need(h, pages(h), x(h)) =
                 IF Bad(h, pages(h), "failed") THEN Answer("run_error", pages(h))
                 ELSE IF Bad(h, pages(h), "drift") THEN Answer("drift", pages(h)) ELSE x(h)
    <2> HIDE DEF x
    <2> QED
        BY DEF Need, Stage
<1> HIDE DEF rows, none, page, pages, x
<1>9. ASSUME NEW u, u[1] = "sec_page" PROVE Misses(t, a, g, u, built(g))
    <2> SUFFICES ASSUME u \in DOMAIN g, g[u].read # "ok" PROVE built(g).kind \notin Successes
        BY DEF Misses
    <2>1. u \in pages(g)
        BY <1>6, <1>9
    <2>2. g[u].read \in {"failed", "drift"}
        BY DEF Typed
    <2>3. Bad(g, pages(g), "failed") \/ Bad(g, pages(g), "drift")
        BY <2>1, <2>2 DEF Bad
    <2>4. built(g) = Answer("run_error", pages(g)) \/ built(g) = Answer("drift", pages(g))
        BY <1>8, <2>3
    <2> HIDE DEF built
    <2> QED
        BY <2>4 DEF Answer, Successes
<1>10. Runs(t, a, had, built(had), g, built(g))
    <2>1. CASE built(had).kind # "asks"
        <3> HIDE DEF built
        <3> QED
            BY <2>1, AnswersRun
    <2>2. CASE built(had).kind = "asks"
        <3>1. \A k : Answer(k, pages(had)).kind = k
            BY DEF Answer
        <3>2. built(had) = Ask(page(had))
            BY <1>3, <1>4, <1>8, <2>2, <3>1
        <3> HIDE DEF built
        <3>3. CASE page(had) = {}
            BY <3>2, <3>3 DEF Runs, Persists, Asks, Ask
        <3>4. CASE \E u : u[1] = "sec_page" /\ page(had) = {u}
            BY <1>9, <3>2, <3>4, OneRuns
        <3> QED
            BY <1>5, <3>3, <3>4
    <2> QED
        BY <2>1, <2>2
<1>11. Stands(t, a, g, built(g))
    <2>1. Stands(t, a, g, x(g))
        BY <1>3, <1>4
    <2> QED
        BY <2>1, NeedStands
<1> HIDE DEF built
<1>12. CASE selected = {}
    <2>1. /\ BuildAsReportedRecords(a, had, filings) = none
          /\ BuildAsReportedRecords(a, g, filings) = none
        BY <1>1, <1>12
    <2> QED
        BY <1>2, <2>1, AnswersRun
<1>13. CASE selected # {}
    <2>1. /\ BuildAsReportedRecords(a, had, filings) = built(had)
          /\ BuildAsReportedRecords(a, g, filings) = built(g)
        BY <1>1, <1>13
    <2> QED
        BY <1>10, <1>11, <2>1
<1> QED
    BY <1>12, <1>13

LEMMA AsReportedServes ==
    ASSUME NEW t, NEW a, NEW had, NEW g, Grows(had, g), Typed(g)
    PROVE  Serves(t, a, had, GetAsReported(a, had), g, GetAsReported(a, g))
<1> DEFINE F == <<"filings", a.ticker, "records">>
           x(h) == BuildAsReportedRecords(a, h, Data(h, F))
           build(h) == Need(h, {F}, x(h))
<1>1. ASSUME NEW h
      PROVE  GetAsReported(a, h) =
                 Checked(a, IF a.cik THEN build(h) ELSE ResolveIssuerCIK(h, a, build(h)))
    BY DEF GetAsReported
<1> HIDE DEF F
<1>2. ASSUME {F} \subseteq DOMAIN had PROVE Runs(t, a, had, x(had), g, x(g))
    <2>1. Data(g, F) = Data(had, F)
        BY <1>2, SameData
    <2> QED
        BY <2>1, RecordsRun
<1>3. Stands(t, a, g, x(g))
    BY RecordsRun
<1> HIDE DEF x
<1>4. Runs(t, a, had, build(had), g, build(g))
    BY <1>2, NeedRuns
<1>5. Stands(t, a, g, build(g))
    BY <1>3, NeedStands
<1> HIDE DEF build
<1>6. /\ Runs(t, a, had, ResolveIssuerCIK(had, a, build(had)), g, ResolveIssuerCIK(g, a, build(g)))
      /\ Stands(t, a, g, ResolveIssuerCIK(g, a, build(g)))
    BY <1>4, <1>5, ResolveRuns
<1>7. CASE a.cik
    <2>1. /\ GetAsReported(a, had) = Checked(a, build(had))
          /\ GetAsReported(a, g) = Checked(a, build(g))
        BY <1>1, <1>7
    <2> QED
        BY <1>4, <1>5, <2>1, CheckedServes
<1>8. CASE ~a.cik
    <2>1. /\ GetAsReported(a, had) = Checked(a, ResolveIssuerCIK(had, a, build(had)))
          /\ GetAsReported(a, g) = Checked(a, ResolveIssuerCIK(g, a, build(g)))
        BY <1>1, <1>8
    <2> QED
        BY <1>6, <2>1, CheckedServes
<1> QED
    BY <1>7, <1>8

(* What one of Japan's listings makes the handler read it goes on reading. *)
LEMMA ListingsGrow ==
    ASSUME NEW had, NEW g, Grows(had, g)
    PROVE  ReadBOJRate(had) \subseteq ReadBOJRate(g)
<1> DEFINE reads(h, y) == IF Data(h, Listing(y)) = {} THEN {Listing(y)}
                          ELSE {Listing(y), Extract(y, "boj")}
           this == Listing(ThisYear)
<1>1. ASSUME NEW h
      PROVE  ReadBOJRate(h) = IF Read(h, this) /\ Data(h, this) = {}
                              THEN {this} \cup reads(h, ThisYear - 1) ELSE reads(h, ThisYear)
    BY DEF ReadBOJRate
<1>2. ASSUME NEW y PROVE reads(had, y) \subseteq reads(g, y)
    <2>1. CASE Data(had, Listing(y)) = {}
        BY <2>1
    <2>2. CASE Data(had, Listing(y)) # {}
        <3>1. Listing(y) \in DOMAIN had
            BY <2>2 DEF Data, Read
        <3>2. Data(g, Listing(y)) = Data(had, Listing(y))
            BY <3>1, SameData
        <3> QED
            BY <2>2, <3>2
    <2> QED
        BY <2>1, <2>2
<1>3. CASE this \in DOMAIN had
    <2>1. Read(g, this) = Read(had, this) /\ Data(g, this) = Data(had, this)
        BY <1>3, SameData
    <2>2. CASE Read(had, this) /\ Data(had, this) = {}
        <3>1. /\ ReadBOJRate(had) = {this} \cup reads(had, ThisYear - 1)
              /\ ReadBOJRate(g) = {this} \cup reads(g, ThisYear - 1)
            BY <1>1, <2>1, <2>2
        <3>2. reads(had, ThisYear - 1) \subseteq reads(g, ThisYear - 1)
            BY <1>2
        <3> HIDE DEF reads, this
        <3> QED
            BY <3>1, <3>2
    <2>3. CASE ~(Read(had, this) /\ Data(had, this) = {})
        <3>1. ReadBOJRate(had) = reads(had, ThisYear) /\ ReadBOJRate(g) = reads(g, ThisYear)
            BY <1>1, <2>1, <2>3
        <3> HIDE DEF reads
        <3> QED
            BY <1>2, <3>1
    <2> QED
        BY <2>2, <2>3
<1>4. CASE this \notin DOMAIN had
    <2>1. ReadBOJRate(had) = {this}
        BY <1>1, <1>4 DEF Read, Data
    <2>2. this \in reads(g, ThisYear)
        OBVIOUS
    <2> HIDE DEF reads, this
    <2> QED
        BY <1>1, <2>1, <2>2
<1> QED
    BY <1>3, <1>4

LEMMA RatesServe ==
    ASSUME NEW a, NEW had, NEW g, Grows(had, g), Typed(g)
    PROVE  Serves("get_interest_rates", a, had, GetInterestRates(a, had), g, GetInterestRates(a, g))
<1> DEFINE t == "get_interest_rates"
           U(h) == {ReadScrapedRate(h, b) : b \in PageBanks} \cup ReadBOJRate(h)
           stated(h) == {u \in U(h) : u[1] # "listing"}
           shown(h) == {u \in stated(h) : \E day \in Data(h, u) : day <= a.until}
           x(h) == IF shown(h) = {} THEN Answer("unread", U(h)) ELSE Answer("rows", shown(h))
<1>1. ASSUME NEW h PROVE GetInterestRates(a, h) = Checked(a, Stage(h, U(h), x(h)))
    BY DEF GetInterestRates
<1>2. U(had) \subseteq U(g)
    BY ListingsGrow DEF ReadScrapedRate
<1>3. \A u \in U(had) : MayMiss(t, a, u)
    <2>1. Optional(t, a) = {"page", "listing", "extract"}
        BY DEF Optional
    <2>2. \A u \in U(had) : u[1] \in {"page", "listing", "extract"}
        BY DEF ReadScrapedRate, ReadBOJRate, Listing, Extract, Use
    <2> QED
        BY <2>1, <2>2 DEF MayMiss
<1>4. x(had).kind # "asks" /\ Stands(t, a, g, x(g))
    <2>1. \A u : Answer("unread", u).kind # "asks" /\ Answer("rows", u).kind # "asks"
        BY DEF Answer
    <2>2. \A u : Stands(t, a, g, Answer("unread", u)) /\ Stands(t, a, g, Answer("rows", u))
        BY DEF Answer, Stands
    <2>3. \A h : x(h) = Answer("unread", U(h)) \/ x(h) = Answer("rows", shown(h))
        OBVIOUS
    <2> HIDE DEF x, U, shown
    <2> QED
        BY <2>1, <2>2, <2>3
<1> HIDE DEF t, U, x
<1>5. \A u \in U(had) : Misses(t, a, g, u, x(g))
    BY <1>3, NeverMissed
<1>6. Runs(t, a, had, Stage(had, U(had), x(had)), g, Stage(g, U(g), x(g)))
    BY <1>2, <1>4, <1>5, StageVaries
<1>7. Stands(t, a, g, Stage(g, U(g), x(g)))
    BY <1>4, StageStands
<1>8. Serves(t, a, had, GetInterestRates(a, had), g, GetInterestRates(a, g))
    BY <1>1, <1>6, <1>7, CheckedServes
<1> QED
    BY <1>8 DEF t

LEMMA IndexFundServes ==
    ASSUME NEW a, NEW had, NEW g, Grows(had, g), Typed(g)
    PROVE  Serves("get_index_fund", a, had, GetIndexFund(a, had), g, GetIndexFund(a, g))
<1> DEFINE t == "get_index_fund"
           S == Use("search", a.ticker)
           candidates(h) == {c \in Data(h, S) : c <= MaxCandidates}
           sheet(c) == Use("sheet", c)
           found(h) == {c \in candidates(h) : Data(h, sheet(c)) # {}}
           left(h) == {c \in candidates(h) : sheet(c) \notin DOMAIN h}
           next(h) == CHOOSE c \in left(h) : \A d \in left(h) : c <= d
           uses(h) == {sheet(c) : c \in found(h)}
           later(h) == \E u \in uses(h) : \E day \in Data(h, u) : day > a.until
           ended(h) == IF later(h) THEN Answer("not_found", uses(h)) ELSE Answer("rows", uses(h))
           x(h) == IF found(h) = {} /\ left(h) # {} THEN Ask({sheet(next(h))})
                   ELSE IF found(h) = {} THEN Answer("bad_request", {S}) ELSE ended(h)
<1>1. ASSUME NEW h PROVE GetIndexFund(a, h) = Checked(a, Need(h, {S}, x(h)))
    BY DEF GetIndexFund
<1>2. \A c : MayMiss(t, a, sheet(c))
    BY DEF MayMiss, Optional, Use
<1>3. ASSUME NEW k \in {"bad_request", "not_found", "rows"}, NEW u
      PROVE  Answer(k, u).kind # "asks" /\ Stands(t, a, g, Answer(k, u))
    BY DEF Answer, Stands
<1>4. ASSUME NEW U PROVE Stands(t, a, g, Ask(U))
    BY DEF Ask, Stands
<1>5. \A h : \/ x(h) = Ask({sheet(next(h))})
             \/ x(h) = Answer("bad_request", {S})
             \/ x(h) = Answer("not_found", uses(h))
             \/ x(h) = Answer("rows", uses(h))
    OBVIOUS
<1> HIDE DEF t, x, sheet, next, uses, S
<1>6. Runs(t, a, had, x(had), g, x(g))
    <2>1. CASE x(had) = Ask({sheet(next(had))})
        <3>1. Misses(t, a, g, sheet(next(had)), x(g))
            BY <1>2, NeverMissed
        <3> QED
            BY <2>1, <3>1, OneRuns
    <2>2. CASE x(had) # Ask({sheet(next(had))})
        <3>1. x(had).kind # "asks"
            BY <1>3, <1>5, <2>2
        <3> QED
            BY <3>1, AnswersRun
    <2> QED
        BY <2>1, <2>2
<1>7. Stands(t, a, g, x(g))
    BY <1>3, <1>4, <1>5
<1>8. Runs(t, a, had, Need(had, {S}, x(had)), g, Need(g, {S}, x(g)))
    BY <1>6, NeedRuns
<1>9. Stands(t, a, g, Need(g, {S}, x(g)))
    BY <1>7, NeedStands
<1>10. Serves(t, a, had, GetIndexFund(a, had), g, GetIndexFund(a, g))
    BY <1>1, <1>8, <1>9, CheckedServes
<1> QED
    BY <1>10 DEF t

(* The feeds are needed, all of them; nothing at EDGAR is.                 *)
LEMMA EDGARRuns ==
    ASSUME NEW a, NEW had, NEW g, Grows(had, g), NEW none,
           none.kind # "asks", Stands("get_beneficial_ownership", a, g, none)
    PROVE  /\ Runs("get_beneficial_ownership", a, had, BeneficialFromEDGAR(a, had, none),
                   g, BeneficialFromEDGAR(a, g, none))
           /\ Stands("get_beneficial_ownership", a, g, BeneficialFromEDGAR(a, g, none))
<1> DEFINE t == "get_beneficial_ownership"
           F == Filings(a.ticker)
           known(h) == \E f \in Data(h, F) : f.sec
           I == Use("index", a.ticker)
           stakes(h) == {s \in Data(h, I) : s.form \in a.forms}
           listed(h) == {s \in stakes(h) : Cardinality({v \in stakes(h) : v.id > s.id}) < a.limit}
           left(h) == {s \in listed(h) : Extract(s.id, "stake") \notin DOMAIN h}
           next(h) == CHOOSE s \in left(h) : \A v \in left(h) : v.id <= s.id
           stake(h) == Extract(next(h).id, "stake")
           named(h) == {Extract(s.id, "stake") : s \in {v \in listed(h) :
                           Data(h, Extract(v.id, "stake")) # {}}}
           z(h) == IF left(h) # {} THEN Ask({stake(h)})
                   ELSE IF named(h) = {} THEN none ELSE Answer("rows", named(h))
           y(h) == Stage(h, {I}, z(h))
           x(h) == IF ~known(h) THEN none ELSE y(h)
<1>1. ASSUME NEW h PROVE BeneficialFromEDGAR(a, h, none) = Stage(h, {F}, x(h))
    BY DEF BeneficialFromEDGAR
<1>2. MayMiss(t, a, F) /\ MayMiss(t, a, I) /\ \A h : MayMiss(t, a, stake(h))
    <2>1. Optional(t, a) = {"filings", "index", "extract"}
        BY DEF Optional
    <2> QED
        BY <2>1 DEF MayMiss, Filings, Extract, Use
<1>3. \A h : z(h) = Ask({stake(h)}) \/ z(h) = none \/ z(h) = Answer("rows", named(h))
    OBVIOUS
<1>4. \A u : /\ Answer("rows", u).kind # "asks" /\ Stands(t, a, g, Answer("rows", u))
             /\ Stands(t, a, g, Ask(u))
    BY DEF Answer, Ask, Stands
<1>5. none.kind # "asks" /\ Stands(t, a, g, none)
    OBVIOUS
<1>6. {F} \subseteq DOMAIN had => Data(g, F) = Data(had, F)
    BY SameData
<1> HIDE DEF t, F, I, stake, z, named
<1>7. Runs(t, a, had, z(had), g, z(g)) /\ Stands(t, a, g, z(g))
    <2>1. Runs(t, a, had, z(had), g, z(g))
        <3>1. CASE z(had) = Ask({stake(had)})
            <4>1. Misses(t, a, g, stake(had), z(g))
                BY <1>2, NeverMissed
            <4> QED
                BY <3>1, <4>1, OneRuns
        <3>2. CASE z(had) # Ask({stake(had)})
            BY <1>3, <1>4, <1>5, <3>2, AnswersRun
        <3> QED
            BY <3>1, <3>2
    <2>2. Stands(t, a, g, z(g))
        BY <1>3, <1>4, <1>5
    <2> QED
        BY <2>1, <2>2
<1>8. Runs(t, a, had, y(had), g, y(g)) /\ Stands(t, a, g, y(g))
    <2>1. \A u \in {I} : Misses(t, a, g, u, z(g))
        BY <1>2, NeverMissed
    <2> QED
        BY <1>7, <2>1, StageRuns, StageStands
<1> HIDE DEF y
<1>9. ASSUME {F} \subseteq DOMAIN had PROVE Runs(t, a, had, x(had), g, x(g))
    <2>1. CASE known(had)
        BY <1>6, <1>8, <1>9, <2>1
    <2>2. CASE ~known(had)
        BY <1>5, <2>2, AnswersRun
    <2> QED
        BY <2>1, <2>2
<1>10. Stands(t, a, g, x(g))
    BY <1>5, <1>8
<1> HIDE DEF x
<1>11. \A u \in {F} : Misses(t, a, g, u, x(g))
    BY <1>2, NeverMissed
<1>12. Runs(t, a, had, Stage(had, {F}, x(had)), g, Stage(g, {F}, x(g)))
    BY <1>9, <1>11, StageRuns
<1>13. Stands(t, a, g, Stage(g, {F}, x(g)))
    BY <1>10, StageStands
<1> QED
    BY <1>1, <1>12, <1>13 DEF t

LEMMA BeneficialOwnershipServes ==
    ASSUME NEW a, NEW had, NEW g, Grows(had, g), Typed(g)
    PROVE  Serves("get_beneficial_ownership", a, had, GetBeneficialOwnership(a, had),
                  g, GetBeneficialOwnership(a, g))
<1> DEFINE t == "get_beneficial_ownership"
           feeds == {Use("feed", f) : f \in a.forms}
           held(h) == {u \in feeds : a.holder \in Data(h, u)}
           none == Rows(FALSE, feeds)
           edgar(h) == BeneficialFromEDGAR(a, h, none)
           rows(h) == Answer("rows", held(h))
           x(h) == IF held(h) # {} THEN rows(h)
                   ELSE IF a.ticker = "none" THEN none ELSE edgar(h)
<1>1. ASSUME NEW h PROVE GetBeneficialOwnership(a, h) = Refused(a, Checked(a, Need(h, feeds, x(h))))
    BY DEF GetBeneficialOwnership, FirstNonEmpty
<1>2. none.kind # "asks" /\ Stands(t, a, g, none)
    BY DEF Rows, Answer, Stands
<1>3. rows(had).kind # "asks" /\ Stands(t, a, g, rows(g))
    BY DEF Answer, Stands
<1>4. ASSUME feeds \subseteq DOMAIN had PROVE held(had) = held(g)
    BY <1>4, SameData
<1> HIDE DEF none, held, feeds, rows
<1>5. Runs(t, a, had, edgar(had), g, edgar(g)) /\ Stands(t, a, g, edgar(g))
    BY <1>2, EDGARRuns
<1> HIDE DEF t, edgar
<1>6. ASSUME feeds \subseteq DOMAIN had PROVE Runs(t, a, had, x(had), g, x(g))
    <2>1. CASE held(had) # {}
        BY <1>3, <2>1, AnswersRun
    <2>2. CASE held(had) = {} /\ a.ticker = "none"
        BY <1>2, <2>2, AnswersRun
    <2>3. CASE held(had) = {} /\ a.ticker # "none"
        <3>1. held(g) = {}
            BY <1>4, <1>6, <2>3
        <3>2. x(had) = edgar(had) /\ x(g) = edgar(g)
            BY <2>3, <3>1
        <3> HIDE DEF x
        <3> QED
            BY <1>5, <3>2
    <2> QED
        BY <2>1, <2>2, <2>3
<1>7. Stands(t, a, g, x(g))
    BY <1>2, <1>3, <1>5
<1> HIDE DEF x
<1>8. Runs(t, a, had, Need(had, feeds, x(had)), g, Need(g, feeds, x(g)))
    BY <1>6, NeedRuns
<1>9. Stands(t, a, g, Need(g, feeds, x(g)))
    BY <1>7, NeedStands
<1>10. Serves(t, a, had, GetBeneficialOwnership(a, had), g, GetBeneficialOwnership(a, g))
    BY <1>1, <1>8, <1>9, CheckedServes, RefusedServes
<1> QED
    BY <1>10 DEF t

-----------------------------------------------------------------------------
(* Which plan belongs to which name.                                       *)
CapabilityNames == CoverageLists \cup CIKLists \cup StaticLists \cup {
    "list_insider_names", "get_all_financials", "search_line_items", "get_kpi_sectors",
    "list_kpi_sectors", "list_index_fund_tickers", "get_ipos", "get_ipo_calendar",
    "get_market_snapshot", "get_as_reported"}
ToolNames == {
    "get_company_facts", "get_financial_metrics_snapshot", "get_filings",
    "get_stock_prices", "get_stock_price", "get_news", "get_earnings",
    "get_financial_metrics", "get_insider_trades", "screen_stocks", "get_filing_items",
    "get_segmented_financials", "get_kpi_metrics", "get_kpi_guidance",
    "get_kpi_non_gaap", "get_interest_rates", "get_index_fund",
    "get_institutional_holdings", "get_beneficial_owners", "get_beneficial_ownership",
    "get_insider_ownership", "get_institutional_investors"}

(* Every tool serves, and so does a name nobody knows.                     *)
LEMMA ToolServes ==
    ASSUME NEW t, NEW a, t \in Tools /\ a \in Args(t), NEW had, NEW g, Grows(had, g), Typed(g)
    PROVE  Serves(t, a, had, Capabilities(t, a, had), g, Capabilities(t, a, g))
<1>1. CASE t \in CoverageLists
    <2>1. ASSUME NEW h PROVE Capabilities(t, a, h) = CoverageTickers(a, h)
        BY <1>1 DEF Capabilities, CIKLists, CoverageLists, StaticLists
    <2> QED
        BY <2>1, RecordServes DEF CoverageTickers
<1>2. CASE t \in CIKLists
    <2>1. ASSUME NEW h PROVE Capabilities(t, a, h) = ListCIKs(a, h)
        BY <1>2 DEF Capabilities, CIKLists, CoverageLists, StaticLists
    <2>2. t \in Catalogs
        BY <1>2 DEF Catalogs
    <2> QED
        BY <2>1, <2>2, CatalogServes DEF ListCIKs
<1>3. CASE t \in StaticLists
    <2>1. ASSUME NEW h PROVE Capabilities(t, a, h) = Static(a, h)
        BY <1>3 DEF Capabilities, CIKLists, CoverageLists, StaticLists
    <2> QED
        BY <2>1, StaticServes
<1>4. CASE t \notin CapabilityNames \cup ToolNames
    <2>1. ASSUME NEW h PROVE Capabilities(t, a, h) = Static(a, h)
        BY <1>4 DEF Capabilities, CapabilityNames, ToolHandlers, ToolNames
    <2> QED
        BY <2>1, StaticServes
<1>5. CASE t = "list_insider_names"
    <2>1. ASSUME NEW h PROVE Capabilities(t, a, h) = GetInsiderNames(a, h)
        BY <1>5 DEF Capabilities, CIKLists, CoverageLists, StaticLists
    <2> QED
        BY <2>1, ListServes DEF GetInsiderNames
<1>6. CASE t = "get_all_financials"
    <2>1. ASSUME NEW h PROVE Capabilities(t, a, h) = GetAllFinancials(a, h)
        BY <1>6 DEF Capabilities, CIKLists, CoverageLists, StaticLists
    <2> QED
        BY <1>6, <2>1, AllFinancialsServe
<1>7. CASE t = "search_line_items"
    <2>1. ASSUME NEW h PROVE Capabilities(t, a, h) = SearchLineItems(a, h)
        BY <1>7 DEF Capabilities, CIKLists, CoverageLists, StaticLists
    <2>2. a.tickers \in Seq(STRING)
        BY <1>7, ArgumentsAssumption
    <2> QED
        BY <1>7, <2>1, <2>2, SearchServes
<1>8. CASE t = "get_kpi_sectors"
    <2>1. ASSUME NEW h PROVE Capabilities(t, a, h) = GetKPISectors(a, h)
        BY <1>8 DEF Capabilities, CIKLists, CoverageLists, StaticLists
    <2> QED
        BY <2>1, RecordServes DEF GetKPISectors
<1>9. CASE t = "list_kpi_sectors"
    <2>1. ASSUME NEW h PROVE Capabilities(t, a, h) = ListKPISectors(a, h)
        BY <1>9 DEF Capabilities, CIKLists, CoverageLists, StaticLists
    <2>2. t \in Catalogs
        BY <1>9 DEF Catalogs
    <2> QED
        BY <2>1, <2>2, CatalogServes DEF ListKPISectors
<1>10. CASE t = "list_index_fund_tickers"
    <2>1. ASSUME NEW h PROVE Capabilities(t, a, h) = ListIndexFundTickers(a, h)
        BY <1>10 DEF Capabilities, CIKLists, CoverageLists, StaticLists
    <2>2. t \in Catalogs
        BY <1>10 DEF Catalogs
    <2> QED
        BY <2>1, <2>2, CatalogServes DEF ListIndexFundTickers
<1>11. CASE t = "get_ipos"
    <2>1. ASSUME NEW h PROVE Capabilities(t, a, h) = GetIPOs(a, h)
        BY <1>11 DEF Capabilities, CIKLists, CoverageLists, StaticLists
    <2> QED
        BY <2>1, IPOsServe
<1>12. CASE t = "get_ipo_calendar"
    <2>1. ASSUME NEW h PROVE Capabilities(t, a, h) = GetIPOCalendar(a, h)
        BY <1>12 DEF Capabilities, CIKLists, CoverageLists, StaticLists
    <2> QED
        BY <2>1, ListServes DEF GetIPOCalendar
<1>13. CASE t = "get_market_snapshot"
    <2>1. ASSUME NEW h PROVE Capabilities(t, a, h) = GetMarketSnapshot(a, h)
        BY <1>13 DEF Capabilities, CIKLists, CoverageLists, StaticLists
    <2> QED
        BY <2>1, RecordServes DEF GetMarketSnapshot
<1>14. CASE t = "get_as_reported"
    <2>1. ASSUME NEW h PROVE Capabilities(t, a, h) = GetAsReported(a, h)
        BY <1>14 DEF Capabilities, CIKLists, CoverageLists, StaticLists
    <2> QED
        BY <2>1, AsReportedServes
<1>15. CASE t = "get_company_facts"
    <2>1. ASSUME NEW h PROVE Capabilities(t, a, h) = GetCompanyFacts(a, h)
        BY <1>15 DEF Capabilities, CIKLists, CoverageLists, StaticLists, ToolHandlers
    <2> QED
        BY <2>1, CompanyFactsServes
<1>16. CASE t = "get_financial_metrics_snapshot"
    <2>1. ASSUME NEW h PROVE Capabilities(t, a, h) = GetFinancialMetricsSnapshot(a, h)
        BY <1>16 DEF Capabilities, CIKLists, CoverageLists, StaticLists, ToolHandlers
    <2> QED
        BY <1>16, <2>1, SnapshotServes
<1>17. CASE t = "get_filings"
    <2>1. ASSUME NEW h PROVE Capabilities(t, a, h) = GetFilings(a, h)
        BY <1>17 DEF Capabilities, CIKLists, CoverageLists, StaticLists, ToolHandlers
    <2> QED
        BY <2>1, ListServes DEF GetFilings
<1>18. CASE t = "get_stock_prices"
    <2>1. ASSUME NEW h PROVE Capabilities(t, a, h) = GetStockPrices(a, h)
        BY <1>18 DEF Capabilities, CIKLists, CoverageLists, StaticLists, ToolHandlers
    <2> QED
        BY <2>1, ListServes DEF GetStockPrices
<1>19. CASE t = "get_stock_price"
    <2>1. ASSUME NEW h PROVE Capabilities(t, a, h) = GetStockPrice(a, h)
        BY <1>19 DEF Capabilities, CIKLists, CoverageLists, StaticLists, ToolHandlers
    <2>2. t \in Catalogs
        BY <1>19 DEF Catalogs
    <2> QED
        BY <2>1, <2>2, CatalogServes DEF GetStockPrice
<1>20. CASE t = "get_news"
    <2>1. ASSUME NEW h PROVE Capabilities(t, a, h) = GetNews(a, h)
        BY <1>20 DEF Capabilities, CIKLists, CoverageLists, StaticLists, ToolHandlers
    <2> QED
        BY <2>1, ListServes DEF GetNews
<1>21. CASE t = "get_earnings"
    <2>1. ASSUME NEW h PROVE Capabilities(t, a, h) = GetEarnings(a, h)
        BY <1>21 DEF Capabilities, CIKLists, CoverageLists, StaticLists, ToolHandlers
    <2> QED
        BY <1>21, <2>1, EarningsServe
<1>22. CASE t = "get_financial_metrics"
    <2>1. ASSUME NEW h PROVE Capabilities(t, a, h) = GetFinancialMetrics(a, h)
        BY <1>22 DEF Capabilities, CIKLists, CoverageLists, StaticLists, ToolHandlers
    <2> QED
        BY <1>22, <2>1, MetricsServe
<1>23. CASE t = "get_insider_trades"
    <2>1. ASSUME NEW h PROVE Capabilities(t, a, h) = GetInsiderTrades(a, h)
        BY <1>23 DEF Capabilities, CIKLists, CoverageLists, StaticLists, ToolHandlers
    <2> QED
        BY <2>1, ListServes DEF GetInsiderTrades
<1>24. CASE t = "screen_stocks"
    <2>1. ASSUME NEW h PROVE Capabilities(t, a, h) = ScreenStocks(a, h)
        BY <1>24 DEF Capabilities, CIKLists, CoverageLists, StaticLists, ToolHandlers
    <2> QED
        BY <2>1, ListServes DEF ScreenStocks
<1>25. CASE t = "get_filing_items"
    <2>1. ASSUME NEW h PROVE Capabilities(t, a, h) = GetFilingItems(a, h)
        BY <1>25 DEF Capabilities, CIKLists, CoverageLists, StaticLists, ToolHandlers
    <2> QED
        BY <1>25, <2>1, FilingItemsServe
<1>26. CASE t = "get_segmented_financials"
    <2>1. ASSUME NEW h PROVE Capabilities(t, a, h) = GetSegmentedFinancials(a, h)
        BY <1>26 DEF Capabilities, CIKLists, CoverageLists, StaticLists, ToolHandlers
    <2> QED
        BY <2>1, ExtractLatestRuns DEF GetSegmentedFinancials
<1>27. CASE t = "get_kpi_metrics"
    <2>1. ASSUME NEW h PROVE Capabilities(t, a, h) = GetKPIMetrics(a, h)
        BY <1>27 DEF Capabilities, CIKLists, CoverageLists, StaticLists, ToolHandlers
    <2> QED
        BY <2>1, ExtractLatestRuns DEF GetKPIMetrics
<1>28. CASE t = "get_kpi_guidance"
    <2>1. ASSUME NEW h PROVE Capabilities(t, a, h) = GetKPIGuidance(a, h)
        BY <1>28 DEF Capabilities, CIKLists, CoverageLists, StaticLists, ToolHandlers
    <2> QED
        BY <1>28, <2>1, ReleasesServe DEF GetKPIGuidance
<1>29. CASE t = "get_kpi_non_gaap"
    <2>1. ASSUME NEW h PROVE Capabilities(t, a, h) = GetKPINonGAAP(a, h)
        BY <1>29 DEF Capabilities, CIKLists, CoverageLists, StaticLists, ToolHandlers
    <2> QED
        BY <1>29, <2>1, ReleasesServe DEF GetKPINonGAAP
<1>30. CASE t = "get_interest_rates"
    <2>1. ASSUME NEW h PROVE Capabilities(t, a, h) = GetInterestRates(a, h)
        BY <1>30 DEF Capabilities, CIKLists, CoverageLists, StaticLists, ToolHandlers
    <2> QED
        BY <1>30, <2>1, RatesServe
<1>31. CASE t = "get_index_fund"
    <2>1. ASSUME NEW h PROVE Capabilities(t, a, h) = GetIndexFund(a, h)
        BY <1>31 DEF Capabilities, CIKLists, CoverageLists, StaticLists, ToolHandlers
    <2> QED
        BY <1>31, <2>1, IndexFundServes
<1>32. CASE t = "get_institutional_holdings"
    <2>1. ASSUME NEW h PROVE Capabilities(t, a, h) = GetInstitutionalHoldings(a, h)
        BY <1>32 DEF Capabilities, CIKLists, CoverageLists, StaticLists, ToolHandlers
    <2> QED
        BY <2>1, HoldersServe
<1>33. CASE t = "get_beneficial_owners"
    <2>1. ASSUME NEW h PROVE Capabilities(t, a, h) = GetBeneficialOwners(a, h)
        BY <1>33 DEF Capabilities, CIKLists, CoverageLists, StaticLists, ToolHandlers
    <2> QED
        BY <2>1, BeneficialOwnersServe
<1>34. CASE t = "get_beneficial_ownership"
    <2>1. ASSUME NEW h PROVE Capabilities(t, a, h) = GetBeneficialOwnership(a, h)
        BY <1>34 DEF Capabilities, CIKLists, CoverageLists, StaticLists, ToolHandlers
    <2> QED
        BY <1>34, <2>1, BeneficialOwnershipServes
<1>35. CASE t = "get_insider_ownership"
    <2>1. ASSUME NEW h PROVE Capabilities(t, a, h) = GetInsiderOwnership(a, h)
        BY <1>35 DEF Capabilities, CIKLists, CoverageLists, StaticLists, ToolHandlers
    <2> QED
        BY <2>1, HoldersServe
<1>36. CASE t = "get_institutional_investors"
    <2>1. ASSUME NEW h PROVE Capabilities(t, a, h) = GetInstitutionalInvestors(a, h)
        BY <1>36 DEF Capabilities, CIKLists, CoverageLists, StaticLists, ToolHandlers
    <2> QED
        BY <2>1, HoldersServe
<1> QED
    BY <1>1, <1>2, <1>3, <1>4, <1>5, <1>6, <1>7, <1>8, <1>9, <1>10, <1>11, <1>12, 
       <1>13, <1>14, <1>15, <1>16, <1>17, <1>18, <1>19, <1>20, <1>21, <1>22, <1>23, 
       <1>24, <1>25, <1>26, <1>27, <1>28, <1>29, <1>30, <1>31, <1>32, <1>33, <1>34, 
       <1>35, <1>36
    DEF CapabilityNames, ToolNames

-----------------------------------------------------------------------------
(* The calls that are served by these plans, over runs that are read, or   *)
(* bring a payload nobody can read, or fail.                               *)
Handlers == \A t \in Tools : \A a \in Args(t) : \A g : Plan(t, a, g) = Capabilities(t, a, g)
Reads == \A key : \A o \in World(key) : o.read \in {"ok", "drift", "failed"}

(* They are persistent: which of its runs comes back first is all the same *)
(* to each of them.                                                        *)
LEMMA ToolsPersist == Handlers /\ Reads => Persistent
<1> SUFFICES ASSUME Handlers, Reads,
                    NEW t \in Tools, NEW a \in Args(t), NEW g,
                    NEW u \in AskedBy(t, a, g), NEW v \in AskedBy(t, a, g),
                    NEW o \in World(Key(v)), FromWorld(g), u # v
             PROVE  u \in AskedBy(t, a, With(g, v, o))
    BY DEF Persistent
<1>1. PICK h : h = With(g, v, o)
    OBVIOUS
<1>2. v \notin DOMAIN g /\ u \notin DOMAIN g /\ Plan(t, a, g).kind = "asks" /\ v \in Plan(t, a, g).of
    BY DEF AskedBy
<1>3. DOMAIN h = DOMAIN g \cup {v} /\ h[v] = o /\ \A z \in DOMAIN g : h[z] = g[z]
    BY <1>1, <1>2 DEF With
<1>4. Grows(g, h)
    BY <1>3 DEF Grows
<1>5. Typed(h)
    BY <1>3 DEF Typed, Reads, FromWorld
<1>6. PICK x : x = Capabilities(t, a, g)
    OBVIOUS
<1>7. PICK y : y = Capabilities(t, a, h)
    OBVIOUS
<1>8. Persists(g, x, h, y)
    BY <1>4, <1>5, <1>6, <1>7, ToolServes DEF Serves, Runs
<1>9. AskedBy(t, a, g) = Asks(x, g) /\ AskedBy(t, a, h) = Asks(y, h) /\ x = Plan(t, a, g)
    BY <1>6, <1>7 DEF Handlers, AskedBy, Asks
<1>10. u \in Asks(x, g) /\ v \in Asks(x, g)
    BY <1>9
<1>11. v \in DOMAIN h /\ DOMAIN h \subseteq DOMAIN g \cup x.of /\ u \notin DOMAIN h
    BY <1>2, <1>3, <1>9
<1>12. u \in Asks(y, h)
    BY <1>8, <1>10, <1>11 DEF Persists
<1> QED
    BY <1>1, <1>9, <1>12

(* What a lost run takes away no later one gives back, and no argument is  *)
(* blamed once a run has been paid for.                                    *)
Later(g) == Grows(got, g) /\ Typed(g)
LostForGood == \A u \in DOMAIN got :
    got[u].read # "ok" /\ ~MayMiss(tool, args, u) /\ ~Skipped(tool, u, got[u]) =>
    \A g : Later(g) => Capabilities(tool, args, g).kind \notin Successes
BlamedFirst == Faulty(args) /\ bought # {} =>
    \A g : Later(g) => Capabilities(tool, args, g).kind # "input_error"

TInv == IInv /\ RInv /\ LostForGood /\ BlamedFirst

LEMMA InHandIsTyped == ASSUME Reads, TypeOK PROVE Typed(got)
BY DEF Reads, TypeOK, Typed

(* A run that was asked for, bought or not.                                *)
LEMMA OneMore ==
    ASSUME Handlers, RInv, LostForGood, BlamedFirst, NEW use \in Asked, NEW o,
           got' = With(got, use, o), UNCHANGED <<tool, args>>
    PROVE  LostForGood' /\ BlamedFirst'
<1>1. /\ tool \in Tools /\ args \in Args(tool) /\ use \notin DOMAIN got
      /\ Plan(tool, args, got).kind = "asks" /\ use \in Plan(tool, args, got).of
    BY DEF Asked, Serving, Step, RInv, Named
<1>2. PICK x : x = Capabilities(tool, args, got)
    OBVIOUS
<1>3. x.kind = "asks" /\ use \in Asks(x, got)
    BY <1>1, <1>2 DEF Handlers, Asks
<1>4. DOMAIN got' = DOMAIN got \cup {use} /\ \A z \in DOMAIN got : got'[z] = got[z]
    BY <1>1 DEF With
<1>5. ASSUME NEW g, Grows(got', g), Typed(g)
      PROVE  /\ Later(g) /\ use \in DOMAIN g /\ g[use] = got'[use]
             /\ Misses(tool, args, g, use, Capabilities(tool, args, g))
             /\ Faulty(args) => Capabilities(tool, args, g).kind # "input_error"
    <2>1. Later(g) /\ use \in DOMAIN g /\ g[use] = got'[use]
        BY <1>4, <1>5 DEF Later, Grows
    <2>2. PICK y : y = Capabilities(tool, args, g)
        OBVIOUS
    <2>3. Serves(tool, args, got, x, g, y)
        BY <1>1, <1>2, <1>5, <2>1, <2>2, ToolServes DEF Later
    <2>4. Misses(tool, args, g, use, y) /\ (Faulty(args) => y.kind # "input_error")
        BY <1>3, <2>3 DEF Serves, Runs, Blames
    <2> QED
        BY <2>1, <2>2, <2>4
<1>6. LostForGood'
    <2> SUFFICES ASSUME NEW u \in DOMAIN got', got'[u].read # "ok", ~MayMiss(tool, args, u),
                        ~Skipped(tool, u, got'[u]), NEW g, Grows(got', g), Typed(g)
                 PROVE  Capabilities(tool, args, g).kind \notin Successes
        BY DEF LostForGood, Later, MayMiss, Optional, Skipped
    <2>1. CASE u = use
        BY <1>5, <2>1 DEF Misses
    <2>2. CASE u # use
        <3>1. u \in DOMAIN got /\ got'[u] = got[u] /\ got[u].read # "ok" /\ Later(g)
            BY <1>4, <1>5, <2>2
        <3> QED
            BY <3>1 DEF LostForGood
    <2> QED
        BY <2>1, <2>2
<1>7. BlamedFirst'
    BY <1>5 DEF BlamedFirst, Later, Faulty
<1> QED
    BY <1>6, <1>7

LEMMA NextTInv == Handlers /\ Reads /\ TInv /\ [Next]_vars => TInv'
<1> SUFFICES ASSUME Handlers, Reads, TInv, [Next]_vars PROVE TInv'
    OBVIOUS
<1>1. IInv' /\ RInv'
    BY NextHolds, NextRetraces, ToolsPersist DEF TInv
<1>2. ASSUME NEW use \in Asked, Hit(use) \/ Buy(use) PROVE LostForGood' /\ BlamedFirst'
    <2>1. PICK o : got' = With(got, use, o) /\ UNCHANGED <<tool, args>>
        BY <1>2 DEF Hit, Buy, Make
    <2> QED
        BY <2>1, OneMore DEF TInv
<1>3. ASSUME UNCHANGED <<tool, args, got, bought>> PROVE LostForGood' /\ BlamedFirst'
    BY <1>3 DEF TInv, LostForGood, BlamedFirst, Later
<1>4. ASSUME bought' = {}, DOMAIN got' = {} PROVE LostForGood' /\ BlamedFirst'
    BY <1>4 DEF LostForGood, BlamedFirst
<1>5. ASSUME NEW t, NEW a, Call(t, a) PROVE LostForGood' /\ BlamedFirst'
    <2>1. bought' = {} /\ DOMAIN got' = {}
        BY <1>5 DEF Call, TInv, RInv, NothingYet
    <2> QED
        BY <1>4, <2>1
<1>6. ASSUME Reply \/ \E key : Expire(key) PROVE LostForGood' /\ BlamedFirst'
    BY <1>3, <1>6 DEF Reply, Expire
<1>7. ASSUME Again PROVE LostForGood' /\ BlamedFirst'
    BY <1>4, <1>7 DEF Again
<1>8. ASSUME UNCHANGED vars PROVE LostForGood' /\ BlamedFirst'
    BY <1>3, <1>8 DEF vars
<1> QED
    BY <1>1, <1>2, <1>5, <1>6, <1>7, <1>8 DEF TInv, Next, Work, Run

LEMMA TInvHolds == ASSUME Handlers, Reads PROVE Spec => []TInv
<1>1. Init => TInv
    BY InitHolds, InitRetraces DEF Init, TInv, LostForGood, BlamedFirst
<1>2. TInv /\ [Next]_vars => TInv'
    BY NextTInv
<1> QED
    BY <1>1, <1>2, PTL DEF Spec

(* An answer is what the tool makes of all it has in hand, and stands.     *)
LEMMA AnsweredBy ==
    ASSUME Handlers, Reads, TInv, reply # Pending
    PROVE  /\ reply = Capabilities(tool, args, got) /\ Stands(tool, args, got, reply)
           /\ tool \in Tools /\ args \in Args(tool) /\ Later(got)
<1>1. tool \in Tools /\ args \in Args(tool)
    BY DEF TInv, RInv, NothingYet, Named
<1>2. reply = Capabilities(tool, args, got)
    BY <1>1 DEF TInv, RInv, Answered, Step, Handlers
<1>3. Later(got)
    BY InHandIsTyped DEF TInv, IInv, Later, Grows
<1>4. Serves(tool, args, got, Capabilities(tool, args, got), got, Capabilities(tool, args, got))
    BY <1>1, <1>3, ToolServes DEF Later
<1> QED
    BY <1>1, <1>2, <1>3, <1>4 DEF Serves

(* AnswersAreWhole for every tool, whatever the arguments and whatever the *)
(* runs come back with: an answer that is no error never stands on a run   *)
(* that failed or could not be read, but for those it may do without and   *)
(* the statements that a line item search skips.                           *)
THEOREM AnswersRestOnReadRuns ==
    ASSUME Handlers, Reads
    PROVE  Spec => []AnswersAreWhole
<1>1. TInv => AnswersAreWhole
    <2> SUFFICES ASSUME TInv, reply.kind \in Successes, NEW u \in Lost
                 PROVE  MayMiss(tool, args, u) \/ Skipped(tool, u, got[u])
        BY DEF AnswersAreWhole, MayMiss
    <2>1. reply # Pending
        BY DEF Pending, Answer, Successes
    <2>2. Capabilities(tool, args, got).kind \in Successes /\ Later(got)
        BY <2>1, AnsweredBy
    <2> QED
        BY <2>2 DEF TInv, LostForGood, Lost
<1> QED
    BY <1>1, TInvHolds, PTL

(* ErrorsAreEarned for every tool: the provider is blamed for runs that    *)
(* failed or could not be read, and an argument before anything is bought. *)
THEOREM ErrorsNameTheirRuns ==
    ASSUME Handlers, Reads
    PROVE  Spec => []ErrorsAreEarned
<1>1. TInv => ErrorsAreEarned
    <2> SUFFICES ASSUME TInv PROVE ErrorsAreEarned
        OBVIOUS
    <2>1. CASE reply = Pending
        BY <2>1 DEF ErrorsAreEarned, Pending, Answer
    <2>2. CASE reply # Pending
        <3>1. /\ reply = Capabilities(tool, args, got) /\ Stands(tool, args, got, reply)
              /\ tool \in Tools /\ args \in Args(tool) /\ Later(got)
            BY <2>2, AnsweredBy
        <3>2. ASSUME reply.kind = "input_error", args.fault # "none" PROVE bought = {}
            <4>1. Faulty(args)
                BY <3>1, <3>2, ArgumentsAssumption DEF Stands, Faulty
            <4> QED
                BY <3>1, <3>2, <4>1 DEF TInv, BlamedFirst
        <3>3. ASSUME reply.kind = "input_error", args.fault = "none"
              PROVE  \E u \in reply.of : "malformed" \in Data(got, u)
            BY <3>1, <3>3 DEF Stands, Faulty
        <3> QED
            BY <3>1, <3>2, <3>3 DEF ErrorsAreEarned, Stands
    <2> QED
        BY <2>1, <2>2
<1> QED
    BY <1>1, TInvHolds, PTL

(* RepeatsAreFree for every tool: in whichever order its runs come back,   *)
(* the same call made again runs nothing and answers the same.             *)
THEOREM EveryToolRepeatsFree ==
    ASSUME Handlers, Reads
    PROVE  Spec => []RepeatsAreFree
BY ToolsPersist, SecondAnswerIsFree
=============================================================================
