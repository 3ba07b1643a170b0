------------------------ MODULE MonidClientProofs --------------------------
(***************************************************************************)
(* Proofs about MonidClient.  The inductive invariant has three parts:     *)
(* the types, the slots (which must also be finite sets, for their         *)
(* cardinality to mean anything), and for every goroutine what its place   *)
(* in Run says of the run it has seen and of the result it has returned.   *)
(* Monid changes a run only while it is RUNNING and never its question,    *)
(* which is what keeps the last part true of the goroutines that wait.     *)
(***************************************************************************)
EXTENDS MonidClient, FiniteSetTheorems, TLAPS

SlotInv ==
    \A c \in Calls :
        /\ IsFiniteSet(slots[c])
        /\ slots[c] = {g \in Goroutines : CallOf[g] = c /\ pc[g] \in Holding}
        /\ Cardinality(slots[c]) <= MaxConcurrent

SeenInv(g) ==
    /\ pc[g] \in {"acquire", "post"} => seen[g] = NoRun
    /\ pc[g] \in {"poll", "hydrate"} => seen[g] # NoRun
    /\ seen[g] # NoRun =>
          /\ seen[g].id \in 1 .. Len(monid)
          /\ monid[seen[g].id].key = asks[g]
    /\ pc[g] = "poll" => seen[g].status = "RUNNING"
    /\ pc[g] = "hydrate" =>
          /\ seen[g].status = "COMPLETED"
          /\ seen[g] = Report(seen[g].id, monid)

ResultInv(g) ==
    pc[g] = "returned" /\ result[g].run # NoRun =>
        /\ result[g].run.id \in 1 .. Len(monid)
        /\ monid[result[g].run.id].key = asks[g]
        /\ result[g].error = "none" =>
              /\ result[g].run = Report(result[g].run.id, monid)
              /\ result[g].run.status = "COMPLETED"

IInv ==
    /\ TypeOK
    /\ SlotInv
    /\ \A g \in Goroutines : SeenInv(g) /\ ResultInv(g)

(* What Monid may do to the runs a client knows of.                        *)
Evolves ==
    /\ MonidTypeOK'
    /\ Len(monid) <= Len(monid')
    /\ \A i \in 1 .. Len(monid) :
          /\ monid'[i].key = monid[i].key
          /\ monid[i].status # "RUNNING" => monid'[i] = monid[i]
-----------------------------------------------------------------------------
(* A started run is a new one, of the question asked.                      *)
LEMMA StartEvolves ==
    ASSUME MonidTypeOK, NEW k \in Keys, Start(k)
    PROVE  /\ Evolves
           /\ Len(monid') = Len(monid) + 1
           /\ monid'[Len(monid')].key = k
           /\ Report(Len(monid'), monid') \in RunRecord
<1>1. PICK s \in Status, c \in Costs :
          monid' = Append(monid, [key |-> k, status |-> s, cost |-> c])
    BY DEF Start
<1> DEFINE r == [key |-> k, status |-> s, cost |-> c]
           R == [key : Keys, status : Status, cost : Costs]
<1>2. r \in R
    OBVIOUS
<1>3. /\ monid \in Seq(R) /\ Len(monid) < MaxRuns /\ monid' = Append(monid, r)
    BY <1>1 DEF MonidTypeOK, Start
<1>4. r.key = k /\ r.status = s /\ r.cost = c
    OBVIOUS
<1> HIDE DEF r, R
<1>5. /\ monid' \in Seq(R) /\ Len(monid') = Len(monid) + 1
      /\ \A i \in 1 .. Len(monid) : monid'[i] = monid[i]
      /\ monid'[Len(monid) + 1] = r
    BY <1>2, <1>3
<1>6. MonidTypeOK'
    BY <1>5, <1>3, RunsAssumption DEF MonidTypeOK, R
<1>7. Report(Len(monid'), monid') \in RunRecord
    BY <1>5, <1>4, <1>3, RunsAssumption DEF Report, RunRecord
<1> QED
    BY <1>3, <1>4, <1>5, <1>6, <1>7 DEF Evolves

(* Only a run that is RUNNING settles, and it keeps its question.          *)
LEMMA SettleEvolves ==
    ASSUME MonidTypeOK, NEW id, Settle(id)
    PROVE  Evolves /\ Len(monid') = Len(monid)
<1> DEFINE R == [key : Keys, status : Status, cost : Costs]
<1>1. PICK s \in Settled, c \in Costs :
          monid' = [monid EXCEPT ![id].status = s, ![id].cost = c]
    BY DEF Settle
<1>2. monid \in Seq(R) /\ id \in 1 .. Len(monid)
    BY DEF MonidTypeOK, Settle
<1>3. s \in Status
    BY DEF Status
<1> HIDE DEF R
<1>4. monid[id] \in R
    BY <1>2
<1>5. monid' = [monid EXCEPT ![id] = [[monid[id] EXCEPT !.status = s] EXCEPT !.cost = c]]
    BY <1>1, <1>2
<1>6. [[monid[id] EXCEPT !.status = s] EXCEPT !.cost = c] \in R
    BY <1>3, <1>4 DEF R
<1>7. [[monid[id] EXCEPT !.status = s] EXCEPT !.cost = c].key = monid[id].key
    BY <1>4 DEF R
<1> DEFINE r == [[monid[id] EXCEPT !.status = s] EXCEPT !.cost = c]
<1> HIDE DEF r
<1>8. r \in R /\ r.key = monid[id].key /\ monid' = [monid EXCEPT ![id] = r]
    BY <1>5, <1>6, <1>7 DEF r
<1>9. /\ monid' \in Seq(R) /\ Len(monid') = Len(monid)
      /\ \A i \in 1 .. Len(monid) : monid'[i] = IF i = id THEN r ELSE monid[i]
    BY <1>2, <1>8
<1> QED
    BY <1>8, <1>9 DEF Evolves, MonidTypeOK, R, Settle

LEMMA UnchangedEvolves ==
    ASSUME MonidTypeOK, UNCHANGED monid
    PROVE  Evolves
BY DEF Evolves, MonidTypeOK
-----------------------------------------------------------------------------
(* A goroutine that does nothing keeps its invariant.                      *)
LEMMA BystanderKeeps ==
    ASSUME TypeOK, Evolves, NEW h \in Goroutines,
           SeenInv(h), ResultInv(h),
           pc'[h] = pc[h], asks'[h] = asks[h], seen'[h] = seen[h], result'[h] = result[h]
    PROVE  SeenInv(h)' /\ ResultInv(h)'
<1>1. Len(monid) \in Nat /\ Len(monid') \in Nat
    BY DEF TypeOK, MonidTypeOK, Evolves
<1>2. SeenInv(h)'
    BY <1>1 DEF SeenInv, Evolves, Report
<1>3. ResultInv(h)'
    BY <1>1 DEF ResultInv, Evolves, Report
<1> QED
    BY <1>2, <1>3
-----------------------------------------------------------------------------
(* The three things a step may do to the slots: nothing, take one for a    *)
(* goroutine that goes to its POST, or take a returning one's back.        *)
LEMMA SlotsKept ==
    ASSUME SlotInv, UNCHANGED slots,
           \A g \in Goroutines : pc'[g] \in Holding <=> pc[g] \in Holding
    PROVE  SlotInv'
<1>1. \A c \in Calls :
          {g \in Goroutines : CallOf[g] = c /\ pc'[g] \in Holding}
              = {g \in Goroutines : CallOf[g] = c /\ pc[g] \in Holding}
    OBVIOUS
<1> QED
    BY <1>1 DEF SlotInv

LEMMA SlotTaken ==
    ASSUME TypeOK, SlotInv, NEW g \in Goroutines, pc[g] = "acquire",
           Cardinality(slots[CallOf[g]]) < MaxConcurrent,
           slots' = [slots EXCEPT ![CallOf[g]] = @ \cup {g}],
           pc' = [pc EXCEPT ![g] = "post"]
    PROVE  SlotInv'
<1> SUFFICES ASSUME NEW c \in Calls
             PROVE  /\ IsFiniteSet(slots'[c])
                    /\ slots'[c] = {h \in Goroutines : CallOf[h] = c /\ pc'[h] \in Holding}
                    /\ Cardinality(slots'[c]) <= MaxConcurrent
    BY DEF SlotInv
<1>0. /\ CallOf[g] \in Calls /\ slots \in [Calls -> SUBSET Goroutines]
      /\ \A h \in Goroutines : pc'[h] = IF h = g THEN "post" ELSE pc[h]
      /\ IsFiniteSet(slots[c]) /\ Cardinality(slots[c]) <= MaxConcurrent
      /\ slots[c] = {h \in Goroutines : CallOf[h] = c /\ pc[h] \in Holding}
    BY CallOfAssumption DEF TypeOK, SlotInv
<1>1. CASE c # CallOf[g]
  <2>1. slots'[c] = slots[c]
      BY <1>0, <1>1
  <2>2. slots[c] = {h \in Goroutines : CallOf[h] = c /\ pc'[h] \in Holding}
      BY <1>0, <1>1
  <2> QED BY <2>1, <2>2, <1>0
<1>2. CASE c = CallOf[g]
  <2>1. slots'[c] = slots[c] \cup {g}
      BY <1>0, <1>2
  <2>2. slots[c] \cup {g} = {h \in Goroutines : CallOf[h] = c /\ pc'[h] \in Holding}
      BY <1>0, <1>2 DEF Holding
  <2>3. g \notin slots[c]
      BY <1>0 DEF Holding
  <2>4. IsFiniteSet(slots[c] \cup {g}) /\ Cardinality(slots[c] \cup {g}) = Cardinality(slots[c]) + 1
      BY <1>0, <2>3, FS_AddElement
  <2>5. Cardinality(slots[c]) \in Nat
      BY <1>0, FS_CardinalityType
  <2> QED BY <2>1, <2>2, <2>4, <2>5, <1>2, SlotsAssumption
<1> QED BY <1>1, <1>2

LEMMA SlotGivenBack ==
    ASSUME TypeOK, SlotInv, NEW g \in Goroutines,
           slots' = [slots EXCEPT ![CallOf[g]] = @ \ {g}],
           pc' = [pc EXCEPT ![g] = "returned"]
    PROVE  SlotInv'
<1> SUFFICES ASSUME NEW c \in Calls
             PROVE  /\ IsFiniteSet(slots'[c])
                    /\ slots'[c] = {h \in Goroutines : CallOf[h] = c /\ pc'[h] \in Holding}
                    /\ Cardinality(slots'[c]) <= MaxConcurrent
    BY DEF SlotInv
<1>0. /\ CallOf[g] \in Calls /\ slots \in [Calls -> SUBSET Goroutines]
      /\ \A h \in Goroutines : pc'[h] = IF h = g THEN "returned" ELSE pc[h]
      /\ IsFiniteSet(slots[c]) /\ Cardinality(slots[c]) <= MaxConcurrent
      /\ slots[c] = {h \in Goroutines : CallOf[h] = c /\ pc[h] \in Holding}
    BY CallOfAssumption DEF TypeOK, SlotInv
<1>1. slots'[c] = slots[c] \ {g}
    BY <1>0
<1>2. slots[c] \ {g} = {h \in Goroutines : CallOf[h] = c /\ pc'[h] \in Holding}
    BY <1>0 DEF Holding
<1>3. /\ IsFiniteSet(slots[c] \ {g})
      /\ Cardinality(slots[c] \ {g}) <= Cardinality(slots[c])
    BY <1>0, FS_Subset
<1>4. Cardinality(slots[c]) \in Nat /\ Cardinality(slots[c] \ {g}) \in Nat
    BY <1>0, <1>3, FS_CardinalityType
<1>5. Cardinality(slots[c] \ {g}) <= MaxConcurrent
    BY <1>0, <1>3, <1>4, SlotsAssumption
<1>6. slots'[c] = {h \in Goroutines : CallOf[h] = c /\ pc'[h] \in Holding}
    BY <1>1, <1>2
<1> QED BY <1>1, <1>3, <1>5, <1>6
-----------------------------------------------------------------------------
(* A step of one goroutine, seen from all the others.                      *)
LEMMA StepKeeps ==
    ASSUME IInv, Evolves, TypeOK', SlotInv', NEW g \in Goroutines,
           \A h \in Goroutines \ {g} :
               /\ pc'[h] = pc[h] /\ asks'[h] = asks[h]
               /\ seen'[h] = seen[h] /\ result'[h] = result[h],
           SeenInv(g)', ResultInv(g)'
    PROVE  IInv'
<1>1. \A h \in Goroutines : SeenInv(h)' /\ ResultInv(h)'
  <2> SUFFICES ASSUME NEW h \in Goroutines, h # g PROVE SeenInv(h)' /\ ResultInv(h)'
      OBVIOUS
  <2> QED BY BystanderKeeps DEF IInv
<1> QED BY <1>1 DEF IInv

(* What a returning goroutine says of its run must be true.                *)
LEMMA LeaveKeeps ==
    ASSUME IInv, Evolves, NEW g \in Goroutines, NEW k \in Keys,
           NEW err \in Errors \cup {"none"}, NEW run \in RunRecord \cup {NoRun},
           NEW s \in RunRecord \cup {NoRun},
           Leave(g, err, run), UNCHANGED cancelled,
           asks' = [asks EXCEPT ![g] = k], seen' = [seen EXCEPT ![g] = s],
           s # NoRun => s.id \in 1 .. Len(monid') /\ monid'[s.id].key = k,
           run # NoRun => run.id \in 1 .. Len(monid') /\ monid'[run.id].key = k,
           err = "none" => run # NoRun /\ run = Report(run.id, monid') /\ run.status = "COMPLETED"
    PROVE  IInv'
<1> DEFINE res == [error |-> err, run |-> run]
<1>1. SlotInv'
    BY SlotGivenBack DEF IInv, Leave
<1>2. /\ pc' = [pc EXCEPT ![g] = "returned"]
      /\ result' = [result EXCEPT ![g] = res]
      /\ slots' = [slots EXCEPT ![CallOf[g]] = @ \ {g}]
      /\ res \in Result /\ res.error = err /\ res.run = run
    BY DEF Leave, Result
<1> HIDE DEF res
<1>3. TypeOK'
    BY <1>2, CallOfAssumption DEF IInv, TypeOK, Evolves, InRun
<1>4. /\ pc'[g] = "returned" /\ result'[g] = res /\ seen'[g] = s /\ asks'[g] = k
      /\ \A h \in Goroutines \ {g} :
             /\ pc'[h] = pc[h] /\ asks'[h] = asks[h]
             /\ seen'[h] = seen[h] /\ result'[h] = result[h]
    BY <1>2 DEF IInv, TypeOK
<1>5. SeenInv(g)'
    BY <1>4 DEF SeenInv
<1>6. ResultInv(g)'
    BY <1>2, <1>4 DEF ResultInv
<1> QED BY <1>1, <1>3, <1>4, <1>5, <1>6, StepKeeps

(* A goroutine that goes on has returned nothing yet.                      *)
LEMMA GoOnKeeps ==
    ASSUME IInv, Evolves, SlotInv', NEW g \in Goroutines, NEW p \in InRun, NEW k \in Keys,
           NEW s \in RunRecord \cup {NoRun}, NEW res \in Result,
           pc' = [pc EXCEPT ![g] = p], asks' = [asks EXCEPT ![g] = k],
           seen' = [seen EXCEPT ![g] = s], result' = [result EXCEPT ![g] = res],
           UNCHANGED cancelled, slots' \in [Calls -> SUBSET Goroutines],
           p \in {"acquire", "post"} <=> s = NoRun,
           s # NoRun => s.id \in 1 .. Len(monid') /\ monid'[s.id].key = k,
           p = "poll" => s.status = "RUNNING",
           p = "hydrate" => s.status = "COMPLETED" /\ s = Report(s.id, monid')
    PROVE  IInv'
<1>1. TypeOK'
    BY DEF IInv, TypeOK, Evolves
<1>2. /\ pc'[g] = p /\ seen'[g] = s /\ asks'[g] = k
      /\ \A h \in Goroutines \ {g} :
             /\ pc'[h] = pc[h] /\ asks'[h] = asks[h]
             /\ seen'[h] = seen[h] /\ result'[h] = result[h]
    BY DEF IInv, TypeOK
<1>3. p # "returned"
    BY DEF InRun
<1>4. SeenInv(g)'
    BY <1>2, <1>3 DEF SeenInv, InRun
<1>5. ResultInv(g)'
    BY <1>2, <1>3 DEF ResultInv
<1> QED BY <1>1, <1>2, <1>4, <1>5, StepKeeps

(* The judgement of a run that was just read, after the POST or a lookup.  *)
LEMMA JudgeKeeps ==
    ASSUME IInv, Evolves, NEW g \in Goroutines, pc[g] \in {"post", "poll"},
           NEW run \in RunRecord, run = Report(run.id, monid'),
           run.id \in 1 .. Len(monid'), monid'[run.id].key = asks[g],
           Judge(g, run), UNCHANGED <<cancelled, asks>>
    PROVE  IInv'
<1>1. /\ asks[g] \in Keys /\ asks' = [asks EXCEPT ![g] = asks[g]]
      /\ result[g] \in Result /\ result = [result EXCEPT ![g] = result[g]]
      /\ slots \in [Calls -> SUBSET Goroutines] /\ pc \in [Goroutines -> InRun \cup {"idle", "returned"}]
    BY DEF IInv, TypeOK
<1>2. run # NoRun /\ run.status \in Status
    BY NoRunAssumption DEF RunRecord
<1>3. seen' = [seen EXCEPT ![g] = run]
    BY DEF Judge
<1>4. CASE run.status = "RUNNING"
  <2>1. pc' = [pc EXCEPT ![g] = "poll"] /\ UNCHANGED <<slots, result>>
      BY <1>4 DEF Judge
  <2>2. \A h \in Goroutines : pc'[h] \in Holding <=> pc[h] \in Holding
      BY <2>1, <1>1 DEF Holding
  <2>3. SlotInv'
      BY <2>1, <2>2, SlotsKept DEF IInv
  <2> QED
      BY <1>1, <1>2, <1>3, <1>4, <2>1, <2>3, GoOnKeeps DEF InRun
<1>5. CASE run.status = "COMPLETED"
  <2>1. pc' = [pc EXCEPT ![g] = "hydrate"] /\ UNCHANGED <<slots, result>>
      BY <1>5 DEF Judge
  <2>2. \A h \in Goroutines : pc'[h] \in Holding <=> pc[h] \in Holding
      BY <2>1, <1>1 DEF Holding
  <2>3. SlotInv'
      BY <2>1, <2>2, SlotsKept DEF IInv
  <2> QED
      BY <1>1, <1>2, <1>3, <1>5, <2>1, <2>3, GoOnKeeps DEF InRun
<1>6. CASE run.status \in Failing
  <2>1. PICK err \in Errors : err # "none" /\ Leave(g, err, run)
      BY <1>6 DEF Judge, Errors, Failing
  <2> QED
      BY <1>1, <1>2, <1>3, <2>1, LeaveKeeps
<1> QED
    BY <1>2, <1>4, <1>5, <1>6 DEF Status, Settled

(* A return with an error that names no run, or the run last seen.         *)
LEMMA FailKeeps ==
    ASSUME IInv, Evolves, NEW g \in Goroutines, NEW err \in Errors,
           NEW run \in {NoRun, seen[g]}, Leave(g, err, run),
           UNCHANGED <<cancelled, asks, seen>>
    PROVE  IInv'
<1>1. /\ asks[g] \in Keys /\ asks' = [asks EXCEPT ![g] = asks[g]]
      /\ seen[g] \in RunRecord \cup {NoRun} /\ seen' = [seen EXCEPT ![g] = seen[g]]
    BY DEF IInv, TypeOK
<1>2. seen[g] # NoRun => seen[g].id \in 1 .. Len(monid') /\ monid'[seen[g].id].key = asks[g]
  <2>1. Len(monid) \in Nat /\ Len(monid') \in Nat
      BY DEF IInv, TypeOK, MonidTypeOK, Evolves
  <2> QED BY <2>1 DEF IInv, SeenInv, Evolves
<1>3. err # "none" /\ run \in RunRecord \cup {NoRun} /\ err \in Errors \cup {"none"}
    BY <1>1 DEF Errors
<1> QED
    BY <1>1, <1>2, <1>3, LeaveKeeps
-----------------------------------------------------------------------------
(* The invariant holds at the start, and every action keeps it.            *)
LEMMA InitEstablishes == Init => IInv
<1> SUFFICES ASSUME Init PROVE IInv
    OBVIOUS
<1>1. (CHOOSE k \in Keys : TRUE) \in Keys
    BY RunsAssumption
<1>2. NoResult \in Result
    BY DEF NoResult, Result
<1>3. TypeOK
  <2>1. MonidTypeOK
      BY RunsAssumption DEF Init, MonidTypeOK
  <2>2. asks \in [Goroutines -> Keys]
      BY <1>1 DEF Init
  <2>3. slots \in [Calls -> SUBSET Goroutines] /\ cancelled \subseteq Calls
      BY DEF Init
  <2> QED BY <1>2, <2>1, <2>2, <2>3 DEF Init, TypeOK
<1>4. SlotInv
  <2> SUFFICES ASSUME NEW c \in Calls
               PROVE  /\ IsFiniteSet(slots[c])
                      /\ slots[c] = {g \in Goroutines : CallOf[g] = c /\ pc[g] \in Holding}
                      /\ Cardinality(slots[c]) <= MaxConcurrent
      BY DEF SlotInv
  <2>1. slots[c] = {}
      BY DEF Init
  <2>2. {g \in Goroutines : CallOf[g] = c /\ pc[g] \in Holding} = {}
      BY DEF Init, Holding
  <2> QED BY <2>1, <2>2, FS_EmptySet, SlotsAssumption
<1>5. ASSUME NEW g \in Goroutines PROVE SeenInv(g) /\ ResultInv(g)
    BY DEF Init, SeenInv, ResultInv
<1> QED BY <1>3, <1>4, <1>5 DEF IInv

LEMMA NextKeeps == IInv /\ [Next]_clientVars => IInv'
<1> SUFFICES ASSUME IInv, [Next]_clientVars PROVE IInv'
    OBVIOUS
<1>0. MonidTypeOK /\ TypeOK /\ SlotInv /\ (UNCHANGED monid => Evolves)
    BY UnchangedEvolves DEF IInv, TypeOK
<1>1. ASSUME NEW g \in Goroutines, NEW k \in Keys, Enter(g, k) PROVE IInv'
  <2>0. Evolves /\ UNCHANGED <<cancelled, monid>> /\ asks' = [asks EXCEPT ![g] = k] /\ seen' = [seen EXCEPT ![g] = NoRun]
      BY <1>0, <1>1 DEF Enter
  <2>1. CASE k \in Permitted
    <3>1. /\ pc' = [pc EXCEPT ![g] = "acquire"] /\ UNCHANGED slots
          /\ result' = [result EXCEPT ![g] = NoResult] /\ NoResult \in Result
        BY <1>1, <2>1 DEF Enter, NoResult, Result
    <3>2. \A h \in Goroutines : pc'[h] \in Holding <=> pc[h] \in Holding
        BY <1>0, <1>1, <3>1 DEF Enter, Holding, TypeOK
    <3>3. SlotInv' /\ slots' \in [Calls -> SUBSET Goroutines]
        BY <1>0, <3>1, <3>2, SlotsKept DEF TypeOK
    <3> QED BY <2>0, <3>1, <3>3, GoOnKeeps DEF InRun
  <2>2. CASE k \notin Permitted
    <3>1. Leave(g, "NotAllowed", NoRun)
        BY <1>1, <2>2 DEF Enter
    <3>2. "NotAllowed" \in Errors \cup {"none"}
        BY DEF Errors
    <3> QED BY <2>0, <3>1, <3>2, LeaveKeeps
  <2> QED BY <2>1, <2>2
<1>2. ASSUME NEW g \in Goroutines, Acquire(g) PROVE IInv'
  <2>1. /\ Evolves /\ asks[g] \in Keys /\ result[g] \in Result /\ seen[g] = NoRun
        /\ asks' = [asks EXCEPT ![g] = asks[g]] /\ seen' = [seen EXCEPT ![g] = NoRun]
        /\ result' = [result EXCEPT ![g] = result[g]] /\ UNCHANGED cancelled
        /\ pc' = [pc EXCEPT ![g] = "post"]
      BY <1>0, <1>2 DEF Acquire, IInv, TypeOK, SeenInv
  <2>2. SlotInv'
      BY <1>0, <1>2, SlotTaken DEF Acquire
  <2>3. slots' \in [Calls -> SUBSET Goroutines]
      BY <1>0, <1>2 DEF Acquire, TypeOK
  <2> QED BY <2>1, <2>2, <2>3, GoOnKeeps DEF InRun
<1>3. ASSUME NEW g \in Goroutines, NEW err \in Errors, Fail(g, err) PROVE IInv'
    BY <1>0, <1>3, FailKeeps DEF Fail
<1>4. ASSUME NEW g \in Goroutines, AcquireCancelled(g) PROVE IInv'
  <2>1. Fail(g, "Timeout") /\ "Timeout" \in Errors
      BY <1>4 DEF AcquireCancelled, Errors
  <2> QED BY <2>1, <1>3
<1>5. ASSUME NEW g \in Goroutines, PostAnswered(g) PROVE IInv'
  <2> DEFINE run == Report(Len(monid'), monid')
  <2>1. /\ Start(asks[g]) /\ asks[g] \in Keys /\ pc[g] = "post"
        /\ Judge(g, run) /\ UNCHANGED <<cancelled, asks>>
      BY <1>0, <1>5 DEF PostAnswered, TypeOK
  <2>2. /\ Evolves /\ Len(monid') = Len(monid) + 1
        /\ monid'[Len(monid')].key = asks[g] /\ run \in RunRecord
      BY <1>0, <2>1, StartEvolves
  <2>3. run.id = Len(monid')
      BY DEF Report
  <2>4. run = Report(run.id, monid')
      BY <2>3
  <2>5. run.id \in 1 .. Len(monid') /\ monid'[run.id].key = asks[g]
      BY <1>0, <2>2, <2>3 DEF MonidTypeOK
  <2> HIDE DEF run
  <2> QED BY <2>1, <2>2, <2>4, <2>5, JudgeKeeps
<1>6. ASSUME NEW g \in Goroutines, PostLost(g) PROVE IInv'
  <2>1. /\ Start(asks[g]) /\ asks[g] \in Keys /\ UNCHANGED <<cancelled, asks, seen>>
        /\ \E err \in Errors : Leave(g, err, NoRun)
      BY <1>0, <1>6 DEF PostLost, TypeOK, Errors
  <2>2. Evolves
      BY <1>0, <2>1, StartEvolves
  <2> QED BY <2>1, <2>2, FailKeeps
<1>7. ASSUME NEW g \in Goroutines, PostRefused(g) PROVE IInv'
  <2>1. \E err \in Errors : Fail(g, err)
      BY <1>7 DEF PostRefused, Errors
  <2> QED BY <2>1, <1>3
<1>8. ASSUME NEW g \in Goroutines, Poll(g) PROVE IInv'
  <2> DEFINE run == Report(seen[g].id, monid')
  <2>1. /\ pc[g] = "poll" /\ UNCHANGED <<cancelled, asks, monid>> /\ Judge(g, run)
        /\ seen[g].id \in 1 .. Len(monid') /\ monid'[seen[g].id].key = asks[g]
      BY <1>8 DEF Poll, IInv, SeenInv
  <2>2. run \in RunRecord /\ run.id = seen[g].id
    <3> DEFINE R == [key : Keys, status : Status, cost : Costs]
    <3>1. monid' \in Seq(R) /\ Len(monid') <= MaxRuns
        BY <1>0, <2>1 DEF MonidTypeOK
    <3> HIDE DEF R
    <3>2. monid'[seen[g].id] \in R /\ seen[g].id \in 1 .. MaxRuns
        BY <2>1, <3>1, RunsAssumption
    <3> QED BY <3>2 DEF R, Report, RunRecord
  <2>3. run = Report(run.id, monid')
      BY <2>2
  <2> HIDE DEF run
  <2> QED BY <1>0, <2>1, <2>2, <2>3, JudgeKeeps
<1>9. ASSUME NEW g \in Goroutines, PollFails(g) PROVE IInv'
  <2>1. \E err \in Errors : Fail(g, err)
      BY <1>9 DEF PollFails, Errors
  <2> QED BY <2>1, <1>3
<1>10. ASSUME NEW g \in Goroutines, PollCancelled(g) PROVE IInv'
  <2>1. /\ Leave(g, "Timeout", seen[g]) /\ "Timeout" \in Errors
        /\ UNCHANGED <<cancelled, asks, seen, monid>>
      BY <1>10 DEF PollCancelled, Errors
  <2> QED BY <1>0, <2>1, FailKeeps
<1>11. ASSUME NEW g \in Goroutines, Hydrate(g) PROVE IInv'
  <2>1. /\ Leave(g, "none", seen[g]) /\ UNCHANGED <<cancelled, asks, seen, monid>>
        /\ pc[g] = "hydrate" /\ Evolves
      BY <1>0, <1>11 DEF Hydrate
  <2>2. /\ asks[g] \in Keys /\ asks' = [asks EXCEPT ![g] = asks[g]]
        /\ seen[g] \in RunRecord \cup {NoRun} /\ seen' = [seen EXCEPT ![g] = seen[g]]
        /\ "none" \in Errors \cup {"none"}
      BY <1>0, <2>1 DEF TypeOK
  <2>3. /\ seen[g] # NoRun /\ seen[g].id \in 1 .. Len(monid')
        /\ monid'[seen[g].id].key = asks[g]
        /\ seen[g] = Report(seen[g].id, monid') /\ seen[g].status = "COMPLETED"
      BY <2>1 DEF IInv, SeenInv
  <2> QED BY <2>1, <2>2, <2>3, LeaveKeeps
<1>12. ASSUME NEW g \in Goroutines, HydrateFails(g) PROVE IInv'
  <2>1. \E err \in Errors : Fail(g, err)
      BY <1>12 DEF HydrateFails, Errors
  <2> QED BY <2>1, <1>3
<1>13. ASSUME Evolves, cancelled' \subseteq Calls, UNCHANGED <<slots, pc, asks, seen, result>>
       PROVE  IInv'
  <2>1. TypeOK'
      BY <1>0, <1>13 DEF TypeOK, Evolves
  <2>2. SlotInv'
      BY <1>0, <1>13, SlotsKept
  <2>3. ASSUME NEW h \in Goroutines PROVE SeenInv(h)' /\ ResultInv(h)'
      BY <1>0, <1>13, BystanderKeeps DEF IInv
  <2> QED BY <2>1, <2>2, <2>3 DEF IInv
<1>14. ASSUME NEW c \in Calls, Cancel(c) PROVE IInv'
    BY <1>0, <1>13, <1>14 DEF Cancel, TypeOK
<1>15. ASSUME NEW id \in 1 .. MaxRuns, MonidSettles(id) PROVE IInv'
  <2>1. Evolves
      BY <1>0, <1>15, SettleEvolves DEF MonidSettles
  <2> QED BY <1>0, <1>13, <1>15, <2>1 DEF MonidSettles, TypeOK
<1>16. CASE UNCHANGED clientVars
    BY <1>0, <1>13, <1>16 DEF clientVars, TypeOK
<1> QED
    BY <1>1, <1>2, <1>4, <1>5, <1>6, <1>7, <1>8, <1>9, <1>10, <1>11, <1>12, <1>14, <1>15, <1>16
    DEF Next, RunStep, Reply, Lookup, Download, Environment

(* For every number of calls and goroutines and every capacity, a slot is  *)
(* held by exactly the goroutines between their acquire and their return   *)
(* (client.go, Run).                                                       *)
THEOREM SlotsHeld == Spec => []SlotsAreHeldInRun
<1>1. IInv => SlotsAreHeldInRun
    BY DEF IInv, SlotInv, SlotsAreHeldInRun
<1> QED BY <1>1, InitEstablishes, NextKeeps, PTL DEF Spec

(* What Run returns without an error is a completed run of its question,   *)
(* at the cost Monid settled on (client.go, Run; poll.go, awaitRun).       *)
THEOREM ResultsTrue == Spec => []ResultsAreTrue
<1>1. IInv => ResultsAreTrue
    BY DEF IInv, ResultInv, ResultsAreTrue
<1> QED BY <1>1, InitEstablishes, NextKeeps, PTL DEF Spec

(* Every variable keeps its type.                                          *)
THEOREM ClientTypes == Spec => []TypeOK
<1>1. IInv => TypeOK
    BY DEF IInv
<1> QED BY <1>1, InitEstablishes, NextKeeps, PTL DEF Spec
-----------------------------------------------------------------------------
(* The state of RunContract that a state of the client stands for.         *)
phase == [g \in Goroutines |-> IF pc[g] \in InRun THEN "asking" ELSE pc[g]]
bought == [g \in Goroutines |-> RunId(seen[g])]
answers == [g \in Goroutines |-> [ok |-> result[g].error = "none", run |-> result[g].run]]

(* A return of the client is a return of the contract.                     *)
LEMMA LeaveReturns ==
    ASSUME TypeOK, NEW g \in Goroutines, NEW err, NEW run, Leave(g, err, run)
    PROVE  /\ phase' = [phase EXCEPT ![g] = "returned"]
           /\ answers' = [answers EXCEPT ![g] = [ok |-> err = "none", run |-> run]]
           /\ Contract!Return(g, err = "none", run)
<1>1. /\ pc' = [pc EXCEPT ![g] = "returned"]
      /\ result' = [result EXCEPT ![g] = [error |-> err, run |-> run]]
      /\ pc \in [Goroutines -> InRun \cup {"idle", "returned"}]
      /\ result \in [Goroutines -> Result]
    BY DEF Leave, TypeOK
<1>2. phase' = [phase EXCEPT ![g] = "returned"]
    BY <1>1 DEF phase, InRun
<1>3. answers' = [answers EXCEPT ![g] = [ok |-> err = "none", run |-> run]]
    BY <1>1 DEF answers
<1> QED BY <1>2, <1>3 DEF Contract!Return, phase, answers

LEMMA FailGivesUp ==
    ASSUME TypeOK, NEW g \in Goroutines, NEW err \in Errors, pc[g] \in InRun, Fail(g, err)
    PROVE  Contract!GiveUp(g)
<1>1. Leave(g, err, NoRun) /\ UNCHANGED <<asks, seen, monid>> /\ (err = "none") = FALSE
    BY DEF Fail, Errors
<1>2. Contract!Return(g, FALSE, NoRun)
    BY <1>1, LeaveReturns
<1> QED BY <1>1, <1>2 DEF Contract!GiveUp

(* A run is judged: the contract does nothing, or gives up with the run.   *)
LEMMA JudgeIsSeen ==
    ASSUME TypeOK, NEW g \in Goroutines, NEW run \in RunRecord, pc[g] \in {"post", "poll"},
           Judge(g, run)
    PROVE  /\ bought' = [bought EXCEPT ![g] = run.id]
           /\ \/ UNCHANGED <<phase, answers>>
              \/ run.status \in Failing /\ Contract!Return(g, FALSE, run)
<1>0. run # NoRun /\ run.status \in Status
    BY NoRunAssumption DEF RunRecord
<1>1. seen' = [seen EXCEPT ![g] = run] /\ seen \in [Goroutines -> RunRecord \cup {NoRun}]
    BY DEF Judge, TypeOK
<1>2. bought' = [bought EXCEPT ![g] = run.id]
    BY <1>0, <1>1 DEF bought, RunId
<1>3. CASE run.status \in {"RUNNING", "COMPLETED"}
  <2>1. PICK p \in {"poll", "hydrate"} : pc' = [pc EXCEPT ![g] = p]
      BY <1>3 DEF Judge
  <2>2. UNCHANGED phase
      BY <2>1 DEF phase, InRun, TypeOK
  <2>3. UNCHANGED answers
      BY <1>3 DEF Judge, answers
  <2> QED BY <1>2, <2>2, <2>3
<1>4. CASE run.status \in Failing
  <2>1. PICK err \in Errors : err # "none" /\ Leave(g, err, run)
      BY <1>4 DEF Judge, Errors, Failing
  <2>2. Contract!Return(g, FALSE, run)
      BY <2>1, LeaveReturns
  <2> QED BY <1>2, <1>4, <2>2
<1> QED BY <1>0, <1>3, <1>4 DEF Status, Settled

LEMMA Stutters ==
    ASSUME UNCHANGED <<phase, bought, answers, asks, monid>>
    PROVE  UNCHANGED Contract!runVars
BY DEF Contract!runVars, phase, bought, answers

(* Every step of the client is a step of the contract, or none.            *)
LEMMA ContractSteps == IInv /\ [Next]_clientVars => [Contract!Next]_(Contract!runVars)
<1> SUFFICES ASSUME IInv, [Next]_clientVars
             PROVE  Contract!Next \/ UNCHANGED Contract!runVars
    OBVIOUS
<1>0. /\ TypeOK /\ MonidTypeOK /\ pc \in [Goroutines -> InRun \cup {"idle", "returned"}]
      /\ seen \in [Goroutines -> RunRecord \cup {NoRun}] /\ NoRun \notin RunRecord
      /\ \A g \in Goroutines : SeenInv(g)
    BY NoRunAssumption DEF IInv, TypeOK
<1>1. ASSUME NEW g \in Goroutines, Contract!RunStep(g) PROVE Contract!Next
    BY <1>1 DEF Contract!Next
<1>2. ASSUME NEW g \in Goroutines, NEW k \in Keys, Enter(g, k) PROVE Contract!Next
  <2>1. phase[g] # "asking" /\ UNCHANGED monid /\ asks' = [asks EXCEPT ![g] = k]
      BY <1>0, <1>2 DEF Enter, phase, InRun
  <2>2. bought' = [bought EXCEPT ![g] = 0]
      BY <1>0, <1>2 DEF Enter, bought, RunId
  <2>3. CASE k \in Permitted
    <3>1. pc' = [pc EXCEPT ![g] = "acquire"] /\ result' = [result EXCEPT ![g] = NoResult]
        BY <1>2, <2>3 DEF Enter
    <3>2. phase' = [phase EXCEPT ![g] = "asking"]
        BY <1>0, <3>1 DEF phase, InRun
    <3>3. answers' = [answers EXCEPT ![g] = Contract!NoResult]
        BY <1>0, <3>1 DEF answers, NoResult, Contract!NoResult, TypeOK
    <3>4. Contract!Ask(g, k)
        BY <2>1, <2>2, <2>3, <3>2, <3>3 DEF Contract!Ask, phase, bought, answers
    <3> QED BY <3>4 DEF Contract!Next
  <2>4. CASE k \notin Permitted
    <3>1. Leave(g, "NotAllowed", NoRun) /\ ("NotAllowed" = "none") = FALSE
        BY <1>2, <2>4 DEF Enter
    <3>2. Contract!Return(g, FALSE, NoRun)
        BY <1>0, <3>1, LeaveReturns
    <3>3. Contract!Ask(g, k)
        BY <2>1, <2>2, <2>4, <3>2 DEF Contract!Ask, phase, bought
    <3> QED BY <3>3 DEF Contract!Next
  <2> QED BY <2>3, <2>4
<1>3. ASSUME NEW g \in Goroutines, Acquire(g) PROVE UNCHANGED Contract!runVars
  <2>1. UNCHANGED phase
      BY <1>0, <1>3 DEF Acquire, phase, InRun
  <2> QED BY <1>3, <2>1, Stutters DEF Acquire, bought, answers
<1>4. ASSUME NEW g \in Goroutines, NEW err \in Errors, pc[g] \in InRun, Fail(g, err)
      PROVE  Contract!Next
    BY <1>0, <1>1, <1>4, FailGivesUp DEF Contract!RunStep
<1>5. ASSUME NEW g \in Goroutines,
             AcquireCancelled(g) \/ PostRefused(g) \/ PollFails(g) \/ HydrateFails(g)
      PROVE  Contract!Next
  <2>1. pc[g] \in InRun /\ \E err \in Errors : Fail(g, err)
      BY <1>5 DEF AcquireCancelled, PostRefused, PollFails, HydrateFails, InRun, Errors
  <2> QED BY <1>4, <2>1
<1>6. ASSUME NEW g \in Goroutines, pc[g] = "post" PROVE phase[g] = "asking" /\ bought[g] = 0
    BY <1>0, <1>6 DEF phase, bought, RunId, SeenInv, InRun
<1>8. ASSUME NEW k, Start(k) PROVE Contract!Start(k)
    BY <1>8 DEF Start, Contract!Start, Status, Contract!Status, Settled, Contract!Settled,
                Failing, Contract!Failing
<1>9. ASSUME NEW g \in Goroutines, PostAnswered(g) PROVE Contract!Next
  <2> DEFINE run == Report(Len(monid'), monid')
  <2>1. /\ pc[g] = "post" /\ Start(asks[g]) /\ Judge(g, run) /\ UNCHANGED asks /\ asks[g] \in Keys
      BY <1>0, <1>9 DEF PostAnswered, TypeOK
  <2>2. run \in RunRecord
      BY <1>0, <2>1, StartEvolves
  <2>3. run.id = Len(monid') /\ run.status = monid'[Len(monid')].status
        /\ run = Contract!Report(Len(monid'), monid')
      BY DEF Report, Contract!Report
  <2> HIDE DEF run
  <2>4. PICK r \in RunRecord : r = run
      BY <2>2
  <2>5. Judge(g, r)
      BY <2>1, <2>4
  <2>6. /\ bought' = [bought EXCEPT ![g] = r.id]
        /\ \/ UNCHANGED <<phase, answers>>
           \/ r.status \in Failing /\ Contract!Return(g, FALSE, r)
      BY <1>0, <2>1, <2>5, JudgeIsSeen
  <2>7. Contract!Buy(g)
      BY <1>6, <1>8, <2>1, <2>3, <2>4, <2>6
      DEF Contract!Buy, Contract!Return, Contract!Failing, Failing, phase, bought, answers
  <2> QED BY <1>1, <2>7 DEF Contract!RunStep
<1>10. ASSUME NEW g \in Goroutines, PostLost(g) PROVE Contract!Next
  <2>1. PICK err \in Errors : Leave(g, err, NoRun)
      BY <1>10 DEF PostLost, Errors
  <2>2. (err = "none") = FALSE
      BY DEF Errors
  <2>3. Contract!Return(g, FALSE, NoRun)
      BY <1>0, <2>1, <2>2, LeaveReturns
  <2>4. Contract!Buy(g)
      BY <1>6, <1>8, <1>10, <2>3 DEF Contract!Buy, PostLost, phase, bought
  <2> QED BY <1>1, <2>4 DEF Contract!RunStep
<1>11. ASSUME NEW g \in Goroutines, pc[g] \in {"poll", "hydrate"}
       PROVE  phase[g] = "asking" /\ bought[g] = seen[g].id /\ bought[g] \in 1 .. Len(monid)
    BY <1>0, <1>11 DEF phase, bought, RunId, SeenInv, InRun
<1>12. ASSUME NEW g \in Goroutines, Poll(g) PROVE Contract!Next \/ UNCHANGED Contract!runVars
  <2> DEFINE run == Report(seen[g].id, monid)
  <2>1. pc[g] = "poll" /\ Judge(g, run) /\ UNCHANGED <<asks, monid>>
      BY <1>12 DEF Poll
  <2>2. run \in RunRecord
    <3> DEFINE R == [key : Keys, status : Status, cost : Costs]
    <3>1. monid \in Seq(R) /\ Len(monid) <= MaxRuns /\ seen[g].id \in 1 .. Len(monid)
        BY <1>0, <1>11, <2>1 DEF MonidTypeOK
    <3> HIDE DEF R
    <3>2. monid[seen[g].id] \in R /\ seen[g].id \in 1 .. MaxRuns
        BY <3>1, RunsAssumption
    <3> QED BY <3>2 DEF R, Report, RunRecord
  <2>3. run.id = bought[g] /\ run.status = monid[bought[g]].status
        /\ run = Contract!Report(bought[g], monid)
      BY <1>11, <2>1 DEF Report, Contract!Report
  <2> HIDE DEF run
  <2>4. PICK r \in RunRecord : r = run
      BY <2>2
  <2>5. Judge(g, r)
      BY <2>1, <2>4
  <2>6. /\ bought' = [bought EXCEPT ![g] = r.id]
        /\ \/ UNCHANGED <<phase, answers>>
           \/ r.status \in Failing /\ Contract!Return(g, FALSE, r)
      BY <1>0, <2>1, <2>5, JudgeIsSeen
  <2>7. UNCHANGED bought
      BY <2>3, <2>4, <2>6 DEF bought
  <2>8. CASE UNCHANGED <<phase, answers>>
      BY <2>1, <2>7, <2>8, Stutters
  <2>9. CASE r.status \in Failing /\ Contract!Return(g, FALSE, r)
    <3>1. Contract!GiveUp(g)
        BY <1>11, <2>1, <2>3, <2>4, <2>7, <2>9
        DEF Contract!GiveUp, Contract!Return, Contract!Failing, Failing, phase, bought
    <3> QED BY <1>1, <3>1 DEF Contract!RunStep
  <2> QED BY <2>6, <2>8, <2>9
<1>13. ASSUME NEW g \in Goroutines, PollCancelled(g) PROVE Contract!Next
  <2>1. /\ pc[g] = "poll" /\ Leave(g, "Timeout", seen[g]) /\ UNCHANGED <<asks, seen, monid>>
        /\ ("Timeout" = "none") = FALSE
      BY <1>13 DEF PollCancelled
  <2>2. seen[g].status = "RUNNING" /\ seen[g] \in RunRecord
      BY <1>0, <2>1 DEF SeenInv
  <2>3. PICK r \in RunRecord : r = seen[g]
      BY <2>2
  <2>4. Leave(g, "Timeout", r)
      BY <2>1, <2>3 DEF Leave
  <2>5. Contract!Return(g, FALSE, r)
      BY <1>0, <2>1, <2>4, LeaveReturns
  <2>6. r.cost \in Costs /\ r = [id |-> bought[g], status |-> "RUNNING", cost |-> r.cost]
      BY <1>11, <2>1, <2>2, <2>3 DEF RunRecord
  <2>7. PICK c \in Costs : r = [id |-> bought[g], status |-> "RUNNING", cost |-> c]
      BY <2>6
  <2>8. Contract!Return(g, FALSE, [id |-> bought[g], status |-> "RUNNING", cost |-> c])
      BY <2>5, <2>7 DEF Contract!Return
  <2>9. \E d \in Costs : Contract!Return(g, FALSE, [id |-> bought[g], status |-> "RUNNING", cost |-> d])
      BY <2>8 DEF Contract!Return
  <2>10. phase[g] = "asking" /\ bought[g] # 0 /\ UNCHANGED <<asks, bought, monid>>
      BY <1>11, <2>1 DEF bought
  <2>11. Contract!GiveUp(g)
      BY <2>9, <2>10 DEF Contract!GiveUp, phase, bought, Contract!Return, answers
  <2> QED BY <1>1, <2>11 DEF Contract!RunStep
<1>14. ASSUME NEW g \in Goroutines, Hydrate(g) PROVE Contract!Next
  <2>1. /\ pc[g] = "hydrate" /\ Leave(g, "none", seen[g]) /\ UNCHANGED <<asks, seen, monid>>
        /\ ("none" = "none") = TRUE
      BY <1>14 DEF Hydrate
  <2>2. seen[g] = Contract!Report(bought[g], monid) /\ monid[bought[g]].status = "COMPLETED"
      BY <1>0, <1>11, <2>1 DEF SeenInv, Report, Contract!Report
  <2>3. PICK r : r = seen[g]
      OBVIOUS
  <2>4. Leave(g, "none", r)
      BY <2>1, <2>3 DEF Leave
  <2>5. Contract!Return(g, TRUE, r)
      BY <1>0, <2>1, <2>4, LeaveReturns
  <2>6. Contract!Succeed(g)
      BY <1>11, <2>1, <2>2, <2>3, <2>5 DEF Contract!Succeed, Contract!Return, phase, bought
  <2> QED BY <1>1, <2>6 DEF Contract!RunStep
<1>15. ASSUME NEW c \in Calls, Cancel(c) PROVE UNCHANGED Contract!runVars
    BY <1>15, Stutters DEF Cancel, phase, bought, answers
<1>16. ASSUME NEW id \in 1 .. MaxRuns, MonidSettles(id) PROVE Contract!Next
  <2>1. Contract!Settle(id)
      BY <1>16 DEF MonidSettles, Settle, Contract!Settle, Settled, Contract!Settled,
                   Failing, Contract!Failing
  <2>2. UNCHANGED <<phase, asks, bought, answers>>
      BY <1>16 DEF MonidSettles, phase, bought, answers
  <2> QED BY <2>1, <2>2 DEF Contract!Next, Contract!Environment, phase, bought, answers
<1>17. CASE UNCHANGED clientVars
    BY <1>17, Stutters DEF clientVars, phase, bought, answers
<1> QED
    BY <1>2, <1>3, <1>5, <1>9, <1>10, <1>12, <1>13, <1>14, <1>15, <1>16, <1>17
    DEF Next, RunStep, Reply, Lookup, Download, Environment

(* A Run of the client is a Run of the contract: it buys at most one run,  *)
(* only for a permitted question, and reports it as Monid did.             *)
THEOREM ClientKeepsContract == Spec => KeepsContract
<1>1. ASSUME Init PROVE Contract!Init
  <2>1. phase = [g \in Goroutines |-> "idle"]
      BY <1>1 DEF Init, phase, InRun
  <2>2. bought = [g \in Goroutines |-> 0]
      BY <1>1 DEF Init, bought, RunId
  <2>3. answers = [g \in Goroutines |-> Contract!NoResult]
    <3>1. ASSUME NEW g \in Goroutines
          PROVE  [ok |-> result[g].error = "none", run |-> result[g].run] = Contract!NoResult
      <4>1. result[g].error = "none" /\ result[g].run = NoRun
          BY <1>1 DEF Init, NoResult
      <4>2. (result[g].error = "none") = TRUE
          BY <4>1
      <4> QED BY <4>1, <4>2 DEF Contract!NoResult
    <3> QED BY <3>1 DEF answers
  <2> QED BY <1>1, <2>1, <2>2, <2>3 DEF Init, Contract!Init, phase, bought, answers
<1> QED
    BY <1>1, InitEstablishes, NextKeeps, ContractSteps, PTL
    DEF Spec, KeepsContract, Contract!Spec
=============================================================================
