-------------------------- MODULE RunServiceProofs --------------------------
(***************************************************************************)
(* What the run cache can answer with, for any number of calls, goroutines *)
(* and restarts: a run of that very question which Monid completed, at the *)
(* cost Monid settled on, and which was receipted before it was stored.    *)
(* The invariant follows a run through callCtx.run: from Monid's id to the *)
(* client's result, through Record to Store.                               *)
(***************************************************************************)
EXTENDS RunService, SequenceTheorems, WellFoundedInduction, TLAPS

CacheProofs == INSTANCE RunCacheProofs WITH Runs <- Client!RunRecord, MaxReads <- 0

TrueRun(k, run) ==
    /\ run.id \in DOMAIN monid
    /\ monid[run.id].key = k
    /\ run = Client!Report(run.id, monid)
    /\ run.status = "COMPLETED"

Paid == {row.run : row \in {r \in Range(Receipted) : ~r.failed}}

Types ==
    /\ Client!ContractTypeOK
    /\ stage \in [Goroutines -> Stages]
    /\ file \in Seq(Row) /\ unwritten \in Seq(Row)
    /\ boot \in 0 .. Len(file)

(* What a goroutine has in its hands between the lookup and the store.     *)
BoughtForTheQuestion(g) == phase[g] = "asking" /\ bought[g] # 0 =>
    bought[g] \in DOMAIN monid /\ monid[bought[g]].key = asks[g]
ResultIsTrue(g) == stage[g] \in {"record", "store"} /\ result[g].ok =>
    TrueRun(asks[g], result[g].run)
StoredAfterReceipt(g) == stage[g] = "store" =>
    result[g].ok /\ result[g].run.id \in Paid

Held(g) == BoughtForTheQuestion(g) /\ ResultIsTrue(g) /\ StoredAfterReceipt(g)
Cached(k) == TrueRun(k, entries[k].run) /\ entries[k].run.id \in Paid

IInv ==
    /\ Types
    /\ \A g \in Goroutines : Held(g)
    /\ \A k \in DOMAIN entries : Cached(k)

(* Monid keeps its runs, and one that is completed does not change.        *)
Evolves ==
    /\ DOMAIN monid \subseteq DOMAIN monid'
    /\ \A id \in DOMAIN monid :
           /\ monid'[id].key = monid[id].key
           /\ monid[id].status = "COMPLETED" => monid'[id] = monid[id]

-----------------------------------------------------------------------------
(* A run Monid starts is its newest, and is one for the question asked.    *)
LEMMA StartEvolves ==
    ASSUME Client!MonidTypeOK, NEW k \in Keys, Client!Start(k)
    PROVE  /\ Evolves /\ Client!MonidTypeOK'
           /\ Len(monid') = Len(monid) + 1 /\ Len(monid') \in 1 .. MaxRuns
           /\ Len(monid') \in DOMAIN monid' /\ monid'[Len(monid')].key = k
<1> DEFINE RunRecord == [key : Keys, status : Client!Status, cost : Costs]
<1>1. monid \in Seq(RunRecord) /\ Len(monid) <= MaxRuns /\ MaxRuns \in Nat
    BY MonidAssumption DEF Client!MonidTypeOK
<1>2. PICK s \in Client!Status, c \in Costs :
          monid' = Append(monid, [key |-> k, status |-> s, cost |-> c])
    BY DEF Client!Start
<1>3. [key |-> k, status |-> s, cost |-> c] \in RunRecord
    OBVIOUS
<1>4. Len(monid) + 1 <= MaxRuns /\ Len(monid) \in Nat
    BY <1>1 DEF Client!Start
<1> HIDE DEF RunRecord
<1>5. /\ monid' \in Seq(RunRecord) /\ Len(monid') = Len(monid) + 1
      /\ monid'[Len(monid) + 1] = [key |-> k, status |-> s, cost |-> c]
      /\ \A id \in 1 .. Len(monid) : monid'[id] = monid[id]
    BY <1>1, <1>2, <1>3
<1>6. DOMAIN monid = 1 .. Len(monid) /\ DOMAIN monid' = 1 .. Len(monid')
    BY <1>1, <1>5
<1>7. Evolves
    BY <1>4, <1>5, <1>6 DEF Evolves
<1>8. Client!MonidTypeOK'
    BY <1>1, <1>4, <1>5 DEF Client!MonidTypeOK, RunRecord
<1> QED
    BY <1>1, <1>4, <1>5, <1>6, <1>7, <1>8

(* A run Monid settles was running.                                        *)
LEMMA SettleEvolves ==
    ASSUME Client!MonidTypeOK, NEW id, Client!Settle(id)
    PROVE  Evolves /\ Client!MonidTypeOK'
<1> DEFINE RunRecord == [key : Keys, status : Client!Status, cost : Costs]
<1>1. monid \in Seq(RunRecord) /\ Len(monid) <= MaxRuns /\ id \in 1 .. Len(monid)
    BY DEF Client!MonidTypeOK, Client!Settle
<1>2. PICK s \in Client!Settled, c \in Costs :
          monid' = [monid EXCEPT ![id].status = s, ![id].cost = c]
    BY DEF Client!Settle
<1>3. monid[id].status = "RUNNING" /\ s \in Client!Status
    BY DEF Client!Settle, Client!Status
<1> DEFINE settled == [[monid[id] EXCEPT !.status = s] EXCEPT !.cost = c]
<1>4. monid' = [monid EXCEPT ![id] = settled]
    BY <1>1, <1>2
<1> HIDE DEF RunRecord, settled
<1>5. monid[id] \in RunRecord
    BY <1>1
<1>6. settled \in RunRecord /\ settled.key = monid[id].key
    BY <1>3, <1>5 DEF RunRecord, settled
<1>7. /\ monid' \in Seq(RunRecord) /\ Len(monid') = Len(monid)
      /\ DOMAIN monid = 1 .. Len(monid) /\ DOMAIN monid' = 1 .. Len(monid)
      /\ \A i \in 1 .. Len(monid) : monid'[i] = IF i = id THEN settled ELSE monid[i]
    BY <1>1, <1>4, <1>6
<1>8. Evolves
    BY <1>3, <1>6, <1>7 DEF Evolves
<1> QED
    BY <1>1, <1>7, <1>8 DEF Client!MonidTypeOK, RunRecord

(* The receipts since the process began are the tail of the file and the   *)
(* rows that were not written.                                             *)
LEMMA RowsOfTail ==
    ASSUME NEW S, NEW f \in Seq(S), NEW b \in 0 .. Len(f), NEW u \in Seq(S)
    PROVE  Range(SubSeq(f, b + 1, Len(f)) \o u) =
               {f[i] : i \in (b + 1) .. Len(f)} \cup {u[j] : j \in 1 .. Len(u)}
<1> DEFINE t == SubSeq(f, b + 1, Len(f))
<1>1. Len(f) \in Nat /\ Len(u) \in Nat /\ b \in Nat /\ b <= Len(f)
    OBVIOUS
<1>2. /\ t \in Seq(S) /\ Len(t) = Len(f) - b
      /\ \A i \in 1 .. (Len(f) - b) : t[i] = f[b + i]
    BY <1>1
<1> HIDE DEF t
<1>3. /\ Len(t \o u) = Len(t) + Len(u) /\ DOMAIN (t \o u) = 1 .. (Len(t) + Len(u))
      /\ \A i \in 1 .. Len(t) : (t \o u)[i] = t[i]
      /\ \A j \in 1 .. Len(u) : (t \o u)[Len(t) + j] = u[j]
    <2>1. t \in Seq(S) /\ u \in Seq(S) /\ Len(t) \in Nat
        BY <1>1, <1>2
    <2>2. /\ Len(t \o u) = Len(t) + Len(u)
          /\ \A i \in 1 .. Len(t) : (t \o u)[i] = t[i]
        BY <2>1
    <2>3. \A j \in 1 .. Len(u) : (t \o u)[Len(t) + j] = u[j]
        <3> SUFFICES ASSUME NEW j \in 1 .. Len(u) PROVE (t \o u)[Len(t) + j] = u[j]
            OBVIOUS
        <3>1. Len(t) + j \in 1 .. (Len(t) + Len(u)) /\ ~(Len(t) + j <= Len(t))
              /\ (Len(t) + j) - Len(t) = j
            BY <1>1, <2>1
        <3> QED
            BY <2>1, <3>1
    <2>4. t \o u \in Seq(S)
        BY <2>1
    <2> QED
        BY <2>2, <2>3, <2>4
<1>4. ASSUME NEW n \in 1 .. (Len(t) + Len(u))
      PROVE  \/ \E i \in (b + 1) .. Len(f) : (t \o u)[n] = f[i]
             \/ \E j \in 1 .. Len(u) : (t \o u)[n] = u[j]
    <2>1. CASE n <= Len(t)
        <3>1. n \in 1 .. Len(t) /\ b + n \in (b + 1) .. Len(f)
            BY <1>1, <1>2, <2>1
        <3>2. (t \o u)[n] = f[b + n]
            BY <1>2, <1>3, <3>1
        <3> QED
            BY <3>1, <3>2
    <2>2. CASE n > Len(t)
        <3>1. n - Len(t) \in 1 .. Len(u) /\ Len(t) + (n - Len(t)) = n
            BY <1>1, <1>2, <2>2
        <3>2. (t \o u)[n] = u[n - Len(t)]
            BY <1>3, <3>1
        <3> QED
            BY <3>1, <3>2
    <2>3. n <= Len(t) \/ n > Len(t)
        BY <1>1, <1>2
    <2> QED
        BY <2>1, <2>2, <2>3
<1>5. ASSUME NEW i \in (b + 1) .. Len(f)
      PROVE  \E n \in 1 .. (Len(t) + Len(u)) : (t \o u)[n] = f[i]
    <2>1. i - b \in 1 .. Len(t) /\ i - b \in 1 .. (Len(t) + Len(u)) /\ b + (i - b) = i
        BY <1>1, <1>2
    <2>2. (t \o u)[i - b] = f[i]
        BY <1>2, <1>3, <2>1
    <2> QED
        BY <2>1, <2>2
<1>6. ASSUME NEW j \in 1 .. Len(u)
      PROVE  \E n \in 1 .. (Len(t) + Len(u)) : (t \o u)[n] = u[j]
    <2>1. Len(t) + j \in 1 .. (Len(t) + Len(u))
        BY <1>1, <1>2
    <2> QED
        BY <1>3, <2>1
<1>7. Range(t \o u) = {(t \o u)[n] : n \in 1 .. (Len(t) + Len(u))}
    BY <1>3 DEF Range
<1> DEFINE both == t \o u
           tail == {f[i] : i \in (b + 1) .. Len(f)}
           rest == {u[j] : j \in 1 .. Len(u)}
<1>8. Range(both) = tail \cup rest
    <2>1. \A x \in Range(both) : x \in tail \cup rest
        BY <1>4, <1>7
    <2>2. \A x \in tail : x \in Range(both)
        BY <1>5, <1>7
    <2>3. \A x \in rest : x \in Range(both)
        BY <1>6, <1>7
    <2> QED
        BY <2>1, <2>2, <2>3
<1> QED
    BY <1>8 DEF t

(* A step that adds a row to the file or to what was not written pays for  *)
(* the run of that row and takes no receipt back.                          *)
LEMMA AppendPays ==
    ASSUME Types, NEW row \in Row, AppendRow(row), boot' = boot
    PROVE  /\ file' \in Seq(Row) /\ unwritten' \in Seq(Row) /\ boot' \in 0 .. Len(file')
           /\ Range(Receipted') = Range(Receipted) \cup {row}
           /\ Paid \subseteq Paid'
           /\ ~row.failed => row.run \in Paid'
<1>1. PICK f, u, b, f2, u2 : f = file /\ u = unwritten /\ b = boot /\ f2 = file' /\ u2 = unwritten'
    OBVIOUS
<1>2. f \in Seq(Row) /\ u \in Seq(Row) /\ b \in 0 .. Len(f)
    BY <1>1 DEF Types
<1>3. \/ f2 = Append(f, row) /\ u2 = u
      \/ u2 = Append(u, row) /\ f2 = f
    BY <1>1 DEF AppendRow
<1> HIDE DEF Row
<1>4. f2 \in Seq(Row) /\ u2 \in Seq(Row) /\ b \in 0 .. Len(f2)
    <2>1. /\ Append(f, row) \in Seq(Row) /\ Append(u, row) \in Seq(Row)
          /\ Len(Append(f, row)) = Len(f) + 1 /\ Len(f) \in Nat
        BY <1>2
    <2>2. b \in 0 .. (Len(f) + 1)
        BY <1>2, <2>1
    <2> QED
        BY <1>2, <1>3, <2>1, <2>2
<1> DEFINE Rows(g, v) == {g[i] : i \in (b + 1) .. Len(g)} \cup {v[j] : j \in 1 .. Len(v)}
<1>5. Range(Receipted) = Rows(f, u)
    BY <1>1, <1>2, RowsOfTail DEF Receipted, WrittenSinceBoot
<1>6. Range(Receipted') = Rows(f2, u2)
    BY <1>1, <1>4, RowsOfTail DEF Receipted, WrittenSinceBoot
<1>7. Rows(f2, u2) = Rows(f, u) \cup {row}
    <2>1. CASE f2 = Append(f, row) /\ u2 = u
        <3>1. /\ Len(f2) = Len(f) + 1 /\ f2[Len(f) + 1] = row
              /\ \A i \in 1 .. Len(f) : f2[i] = f[i]
            BY <1>2, <2>1
        <3>2. Len(f) \in Nat /\ b \in Nat /\ b <= Len(f)
            BY <1>2
        <3>4. (b + 1) .. Len(f2) = (b + 1) .. Len(f) \cup {Len(f) + 1}
            BY <3>1, <3>2
        <3>5. \A i \in (b + 1) .. Len(f) : f2[i] = f[i]
            BY <3>1, <3>2
        <3>6. {f2[i] : i \in (b + 1) .. Len(f2)} = {f[i] : i \in (b + 1) .. Len(f)} \cup {row}
            BY <3>1, <3>4, <3>5
        <3> QED
            BY <2>1, <3>6
    <2>2. CASE u2 = Append(u, row) /\ f2 = f
        <3>1. /\ Len(u2) = Len(u) + 1 /\ u2[Len(u) + 1] = row /\ Len(u) \in Nat
              /\ \A j \in 1 .. Len(u) : u2[j] = u[j]
            BY <1>2, <2>2
        <3>2. 1 .. Len(u2) = 1 .. Len(u) \cup {Len(u) + 1}
            BY <3>1
        <3> QED
            BY <2>2, <3>1, <3>2
    <2> QED
        BY <1>3, <2>1, <2>2
<1> HIDE DEF Rows
<1>8. /\ Paid \subseteq Paid'
      /\ ~row.failed => row.run \in Paid'
    BY <1>5, <1>6, <1>7 DEF Paid
<1> QED
    BY <1>1, <1>4, <1>5, <1>6, <1>7, <1>8

(* The receipt of what Run returned is a row of the call that asked.       *)
LEMMA ReceiptIsRow ==
    ASSUME Types, NEW g \in Goroutines
    PROVE  /\ Receipt(g) \in Row /\ Receipt(g).call = CallOf[g]
           /\ Receipt(g).failed = Failed(g)
           /\ result[g].run # NoRun => Receipt(g).run = result[g].run.id
<1>1. PICK r \in Client!Result : r = result[g]
    BY DEF Types, Client!ContractTypeOK
<1>2. Receipt(g) = [call |-> CallOf[g], run |-> Client!RunId(r.run),
                    cost |-> CostOf(r.run), failed |-> ~r.ok]
    BY <1>1 DEF Receipt, Failed
<1>3. Client!RunId(r.run) \in 0 .. MaxRuns /\ (r.run # NoRun => Client!RunId(r.run) = r.run.id)
    BY MonidAssumption DEF Client!Result, Client!RunId, Client!RunRecord
<1>4. CostOf(r.run) \in Costs \cup {NoCost}
    BY DEF Client!Result, CostOf, Client!RunRecord
<1>5. CallOf[g] \in Calls /\ r.ok \in BOOLEAN
    BY CallsAssumption DEF Client!Result
<1>6. Receipt(g) \in Row
    BY <1>2, <1>3, <1>4, <1>5 DEF Row
<1>7. Receipt(g).failed = Failed(g)
    BY DEF Receipt
<1>8. Receipt(g).call = CallOf[g] /\ Receipt(g).run = Client!RunId(r.run)
    BY <1>2
<1> QED
    BY <1>1, <1>3, <1>6, <1>7, <1>8

(* A true run is one of Monid's, and none of them is NoRun.                *)
LEMMA TrueRunIsRecord ==
    ASSUME Types, NEW k, NEW run, TrueRun(k, run)
    PROVE  /\ run \in Client!RunRecord /\ run # NoRun
           /\ run.id \in 1 .. MaxRuns /\ run.id # 0
<1>1. run = Client!Report(run.id, monid) /\ run.id \in DOMAIN monid
    BY DEF TrueRun
<1> DEFINE R == [key : Keys, status : Client!Status, cost : Costs]
<1>2. monid \in Seq(R) /\ Len(monid) <= MaxRuns
    BY DEF Types, Client!ContractTypeOK, Client!MonidTypeOK
<1> HIDE DEF R
<1>3. run.id \in 1 .. MaxRuns /\ monid[run.id] \in R
    BY <1>1, <1>2, MonidAssumption
<1>4. run \in Client!RunRecord
    BY <1>1, <1>3 DEF R, Client!Report, Client!RunRecord
<1> QED
    BY <1>3, <1>4, MonidAssumption

-----------------------------------------------------------------------------
(* A goroutine that takes no step keeps what it holds.                     *)
LEMMA BystanderKeeps ==
    ASSUME Evolves, Paid \subseteq Paid', NEW h \in Goroutines, Held(h),
           phase'[h] = phase[h], asks'[h] = asks[h], bought'[h] = bought[h],
           result'[h] = result[h], stage'[h] = stage[h]
    PROVE  Held(h)'
<1>1. BoughtForTheQuestion(h)'
    BY DEF Held, BoughtForTheQuestion, Evolves
<1>2. ResultIsTrue(h)'
    BY DEF Held, ResultIsTrue, TrueRun, Evolves, Client!Report
<1>3. StoredAfterReceipt(h)'
    BY DEF Held, StoredAfterReceipt
<1> QED
    BY <1>1, <1>2, <1>3 DEF Held

(* An entry that stays is still true and still paid for.                   *)
LEMMA EntryKeeps ==
    ASSUME Evolves, Paid \subseteq Paid', NEW k \in DOMAIN entries, Cached(k),
           entries'[k] = entries[k]
    PROVE  Cached(k)'
BY DEF Cached, TrueRun, Evolves, Client!Report

LEMMA NothingChanges ==
    ASSUME UNCHANGED <<monid, file, unwritten, boot>>
    PROVE  Evolves /\ Paid' = Paid
BY DEF Evolves, Paid, Receipted, WrittenSinceBoot

(* A lookup removes its own expired entry at most.                         *)
LEMMA GetKeepsTheRest ==
    ASSUME NEW k, Cache!Get(k)
    PROVE  \A x \in DOMAIN entries' : x \in DOMAIN entries /\ entries'[x] = entries[x]
BY DEF Cache!Get, Cache!GetAbsent, Cache!GetExpired, Cache!GetLive, Cache!Drop,
       Cache!Restrict

-----------------------------------------------------------------------------
LEMMA InitHolds == Init => IInv
<1> SUFFICES ASSUME Init PROVE IInv
    OBVIOUS
<1>1. Types
    <2>1. (CHOOSE k \in Keys : TRUE) \in Keys
        BY MonidAssumption
    <2>2. Client!ContractTypeOK
        BY <2>1, MonidAssumption DEF Init, Client!Init, Client!ContractTypeOK,
            Client!MonidTypeOK, Client!NoResult, Client!Result
    <2> QED
        BY <2>2 DEF Init, Types, Stages
<1>2. \A g \in Goroutines : Held(g)
    BY DEF Init, Client!Init, Held, BoughtForTheQuestion, ResultIsTrue, StoredAfterReceipt
<1>3. DOMAIN entries = {}
    BY DEF Init, Cache!Init
<1> QED
    BY <1>1, <1>2, <1>3 DEF IInv

(* A hit changes what the cache holds at most by an expiry.                *)
LEMMA HitHolds ==
    ASSUME IInv, NEW g \in Goroutines, NEW k \in Keys, Hit(g, k)
    PROVE  IInv'
<1>1. UNCHANGED <<clientVars, stage, ledgerVars>> /\ Cache!Get(k)
    BY DEF Hit, Begin
<1>2. Evolves /\ Paid' = Paid
    BY <1>1, NothingChanges DEF clientVars, ledgerVars
<1>3. Types'
    BY <1>1 DEF IInv, Types, clientVars, ledgerVars, Client!ContractTypeOK, Client!MonidTypeOK
<1>4. \A h \in Goroutines : Held(h)'
    BY <1>1, <1>2, BystanderKeeps DEF IInv, clientVars
<1>5. \A x \in DOMAIN entries' : Cached(x)'
    BY <1>1, <1>2, GetKeepsTheRest, EntryKeeps DEF IInv
<1> QED
    BY <1>3, <1>4, <1>5 DEF IInv

(* A miss leads to the client, which asks or refuses the question.         *)
LEMMA MissHolds ==
    ASSUME IInv, NEW g \in Goroutines, NEW k \in Keys, Miss(g, k)
    PROVE  IInv'
<1>1. /\ UNCHANGED <<monid, ledgerVars>> /\ Cache!Get(k) /\ Client!Ask(g, k)
      /\ stage' = [stage EXCEPT ![g] = NextStage(g)]
    BY DEF Miss, Begin, Client!Ask
<1>2. Evolves /\ Paid' = Paid
    BY <1>1, NothingChanges DEF ledgerVars
<1>3. /\ phase \in [Goroutines -> {"idle", "asking", "returned"}]
      /\ asks \in [Goroutines -> Keys] /\ bought \in [Goroutines -> 0 .. MaxRuns]
      /\ result \in [Goroutines -> Client!Result] /\ stage \in [Goroutines -> Stages]
    BY DEF IInv, Types, Client!ContractTypeOK
<1>4. /\ asks' = [asks EXCEPT ![g] = k] /\ bought' = [bought EXCEPT ![g] = 0]
      /\ \/ /\ phase' = [phase EXCEPT ![g] = "asking"]
            /\ result' = [result EXCEPT ![g] = Client!NoResult]
         \/ /\ phase' = [phase EXCEPT ![g] = "returned"]
            /\ result' = [result EXCEPT ![g] = [ok |-> FALSE, run |-> NoRun]]
    BY <1>1 DEF Client!Ask, Client!Return
<1>5. NextStage(g) \in Stages
    BY DEF NextStage, Stages
<1>6. Types'
    <2>1. Client!NoResult \in Client!Result /\ [ok |-> FALSE, run |-> NoRun] \in Client!Result
        BY DEF Client!NoResult, Client!Result
    <2>2. /\ phase' \in [Goroutines -> {"idle", "asking", "returned"}]
          /\ asks' \in [Goroutines -> Keys] /\ result' \in [Goroutines -> Client!Result]
        BY <1>3, <1>4, <2>1
    <2>3. bought' \in [Goroutines -> 0 .. MaxRuns]
        BY <1>3, <1>4, MonidAssumption
    <2>4. Client!MonidTypeOK'
        BY <1>1 DEF IInv, Types, Client!ContractTypeOK, Client!MonidTypeOK
    <2> QED
        BY <1>1, <1>3, <1>5, <2>2, <2>3, <2>4 DEF IInv, Types, ledgerVars, Client!ContractTypeOK
<1>7. Held(g)'
    <2>1. bought'[g] = 0 /\ stage'[g] = NextStage(g)
        BY <1>1, <1>3, <1>4
    <2>2. ResultIsTrue(g)' /\ StoredAfterReceipt(g)'
        BY <1>3, <1>4, <2>1 DEF NextStage, ResultIsTrue, StoredAfterReceipt
    <2> QED
        BY <2>1, <2>2 DEF Held, BoughtForTheQuestion
<1>8. ASSUME NEW h \in Goroutines, h # g PROVE Held(h)'
    <2>1. /\ phase'[h] = phase[h] /\ asks'[h] = asks[h] /\ bought'[h] = bought[h]
          /\ result'[h] = result[h] /\ stage'[h] = stage[h]
        BY <1>1, <1>3, <1>4, <1>8
    <2> QED
        BY <1>2, <2>1, BystanderKeeps DEF IInv
<1>9. \A x \in DOMAIN entries' : Cached(x)'
    BY <1>1, <1>2, GetKeepsTheRest, EntryKeeps DEF IInv
<1> QED
    BY <1>6, <1>7, <1>8, <1>9 DEF IInv

(* The client buys one run for the question it has and succeeds with that  *)
(* run only once Monid has completed it.                                   *)
LEMMA RunHolds ==
    ASSUME IInv, NEW g \in Goroutines, Run(g)
    PROVE  IInv'
<1>1. /\ UNCHANGED <<entries, ledgerVars>> /\ stage[g] = "running"
      /\ Client!RunStep(g) /\ stage' = [stage EXCEPT ![g] = NextStage(g)]
    BY DEF Run, cacheVars
<1>2. /\ phase \in [Goroutines -> {"idle", "asking", "returned"}]
      /\ asks \in [Goroutines -> Keys] /\ bought \in [Goroutines -> 0 .. MaxRuns]
      /\ result \in [Goroutines -> Client!Result] /\ stage \in [Goroutines -> Stages]
      /\ Client!MonidTypeOK
    BY DEF IInv, Types, Client!ContractTypeOK
<1>3. phase[g] = "asking" /\ asks' = asks /\ asks[g] \in Keys
    BY <1>1, <1>2 DEF Client!RunStep, Client!Buy, Client!Succeed, Client!GiveUp
<1>4. /\ Evolves /\ Client!MonidTypeOK'
      /\ Client!Buy(g) => /\ Len(monid') \in 1 .. MaxRuns
                          /\ Len(monid') \in DOMAIN monid'
                          /\ monid'[Len(monid')].key = asks[g]
    <2>1. CASE Client!Buy(g)
        <3>1. Client!Start(asks[g])
            BY <2>1 DEF Client!Buy
        <3>2. PICK k \in Keys : k = asks[g]
            BY <1>3
        <3>3. Client!Start(k)
            BY <3>1, <3>2
        <3> QED
            BY <1>2, <3>2, <3>3, StartEvolves
    <2>2. CASE ~Client!Buy(g)
        <3>1. UNCHANGED monid
            BY <1>1, <2>2 DEF Client!RunStep, Client!Succeed, Client!GiveUp
        <3> QED
            BY <1>2, <2>2, <3>1 DEF Evolves, Client!MonidTypeOK
    <2> QED
        BY <2>1, <2>2
<1>5. Paid' = Paid
    BY <1>1 DEF Paid, Receipted, WrittenSinceBoot, ledgerVars
<1>6. ASSUME NEW id \in DOMAIN monid' PROVE Client!Report(id, monid') \in Client!RunRecord
    <2> DEFINE R == [key : Keys, status : Client!Status, cost : Costs]
    <2>1. monid' \in Seq(R) /\ Len(monid') <= MaxRuns
        BY <1>4 DEF Client!MonidTypeOK
    <2>2. id \in 1 .. MaxRuns
        <3> HIDE DEF R
        <3> QED BY <2>1, MonidAssumption
    <2>3. monid'[id] \in R
        <3> HIDE DEF R
        <3> QED BY <2>1
    <2> QED
        BY <2>2, <2>3 DEF Client!Report, Client!RunRecord
<1>7. \/ /\ bought'[g] \in DOMAIN monid' /\ monid'[bought'[g]].key = asks[g]
         /\ bought' = [bought EXCEPT ![g] = Len(monid')] /\ UNCHANGED <<phase, result>>
      \/ /\ phase' = [phase EXCEPT ![g] = "returned"]
         /\ bought' = bought \/ bought' = [bought EXCEPT ![g] = Len(monid')]
         /\ \E run \in Client!RunRecord \cup {NoRun} :
                result' = [result EXCEPT ![g] = [ok |-> FALSE, run |-> run]]
      \/ /\ phase' = [phase EXCEPT ![g] = "returned"] /\ bought' = bought
         /\ bought[g] \in DOMAIN monid /\ monid' = monid
         /\ monid[bought[g]].key = asks[g] /\ monid[bought[g]].status = "COMPLETED"
         /\ result' = [result EXCEPT ![g] = [ok |-> TRUE, run |-> Client!Report(bought[g], monid)]]
    <2>1. CASE Client!Buy(g)
        <3>1. Client!Report(Len(monid'), monid') \in Client!RunRecord
            BY <1>4, <1>6, <2>1
        <3> QED
            BY <1>2, <1>4, <2>1, <3>1 DEF Client!Buy, Client!Return
    <2>2. CASE Client!Succeed(g)
        <3>1. bought[g] \in DOMAIN monid /\ monid[bought[g]].key = asks[g]
            BY <1>3, <2>2 DEF IInv, Held, BoughtForTheQuestion, Client!Succeed
        <3> QED
            BY <2>2, <3>1 DEF Client!Succeed, Client!Return
    <2>3. CASE Client!GiveUp(g)
        <3>1. /\ phase' = [phase EXCEPT ![g] = "returned"] /\ bought' = bought /\ monid' = monid
            BY <2>3 DEF Client!GiveUp, Client!Return
        <3>2. bought[g] # 0 => bought[g] \in DOMAIN monid' /\ bought[g] \in 1 .. MaxRuns
            BY <1>2, <1>3, <3>1, MonidAssumption DEF IInv, Held, BoughtForTheQuestion
        <3>3. bought[g] # 0 => Client!Report(bought[g], monid) \in Client!RunRecord
            BY <1>6, <3>1, <3>2
        <3>4. \A c \in Costs : bought[g] # 0 =>
                  [id |-> bought[g], status |-> "RUNNING", cost |-> c] \in Client!RunRecord
            BY <3>2 DEF Client!RunRecord, Client!Status
        <3> QED
            BY <2>3, <3>1, <3>3, <3>4 DEF Client!GiveUp, Client!Return
    <2> QED
        BY <1>1, <2>1, <2>2, <2>3 DEF Client!RunStep
<1>8. Types'
    <2>1. phase' \in [Goroutines -> {"idle", "asking", "returned"}]
        BY <1>2, <1>7
    <2>2. bought' \in [Goroutines -> 0 .. MaxRuns]
        <3>1. bought' = bought \/ bought' = [bought EXCEPT ![g] = Len(monid')]
            BY <1>7
        <3>2. ~Client!Buy(g) => bought' = bought
            BY <1>1 DEF Client!RunStep, Client!Succeed, Client!GiveUp
        <3>3. Client!Buy(g) => Len(monid') \in 0 .. MaxRuns
            BY <1>4, MonidAssumption
        <3> QED
            BY <1>2, <3>1, <3>2, <3>3
    <2>3. result' \in [Goroutines -> Client!Result]
        <3>1. bought[g] \in DOMAIN monid /\ monid' = monid =>
                  Client!Report(bought[g], monid) \in Client!RunRecord
            BY <1>6
        <3>2. \E r \in Client!Result : result' = [result EXCEPT ![g] = r] \/ result' = result
            BY <1>2, <1>7, <3>1 DEF Client!Result
        <3> QED
            BY <1>2, <3>2
    <2>4. stage' \in [Goroutines -> Stages]
        BY <1>1, <1>2 DEF NextStage, Stages
    <2> QED
        BY <1>1, <1>2, <1>3, <1>4, <2>1, <2>2, <2>3, <2>4
            DEF IInv, Types, ledgerVars, Client!ContractTypeOK
<1>9. Held(g)'
    <2>1. stage'[g] = NextStage(g) /\ asks'[g] = asks[g] /\ stage'[g] # "store"
        BY <1>1, <1>2, <1>3 DEF NextStage
    <2>2. BoughtForTheQuestion(g)'
        BY <1>2, <1>3, <1>7 DEF BoughtForTheQuestion
    <2>3. ResultIsTrue(g)'
        BY <1>2, <1>3, <1>7, <2>1 DEF ResultIsTrue, TrueRun, NextStage, Client!Report
    <2> QED
        BY <2>1, <2>2, <2>3 DEF Held, StoredAfterReceipt
<1>10. ASSUME NEW h \in Goroutines, h # g PROVE Held(h)'
    <2>1. /\ phase'[h] = phase[h] /\ asks'[h] = asks[h] /\ bought'[h] = bought[h]
          /\ result'[h] = result[h] /\ stage'[h] = stage[h]
        BY <1>1, <1>2, <1>3, <1>7, <1>10
    <2> QED
        BY <1>4, <1>5, <2>1, BystanderKeeps DEF IInv
<1>11. \A x \in DOMAIN entries' : Cached(x)'
    BY <1>1, <1>4, <1>5, EntryKeeps DEF IInv
<1> QED
    BY <1>8, <1>9, <1>10, <1>11 DEF IInv

(* The receipt of a run that came back is written, or counted as unwritten,*)
(* before the goroutine goes on to the store.                              *)
LEMMA RecordHolds ==
    ASSUME IInv, NEW g \in Goroutines, Record(g)
    PROVE  IInv'
<1>1. /\ UNCHANGED <<clientVars, cacheVars, boot>> /\ stage[g] = "record"
      /\ AppendRow(Receipt(g)) /\ stage' = [stage EXCEPT ![g] = AfterRecord(g)]
    BY DEF Record
<1>2. /\ result \in [Goroutines -> Client!Result] /\ stage \in [Goroutines -> Stages]
    BY DEF IInv, Types, Client!ContractTypeOK
<1>3. PICK r \in Client!Result : r = result[g]
    BY <1>2
<1>4. PICK row : row = Receipt(g)
    OBVIOUS
<1>5. row \in Row /\ (r.ok <=> ~row.failed) /\ (r.run # NoRun => row.run = r.run.id)
    BY <1>3, <1>4, ReceiptIsRow DEF IInv, Failed
<1>6. /\ file' \in Seq(Row) /\ unwritten' \in Seq(Row) /\ boot' \in 0 .. Len(file')
      /\ Paid \subseteq Paid' /\ (~row.failed => row.run \in Paid')
    BY <1>1, <1>4, <1>5, AppendPays DEF IInv
<1>7. Evolves
    BY <1>1 DEF Evolves, clientVars
<1>8. Types'
    <2>1. stage' \in [Goroutines -> Stages]
        BY <1>1, <1>2 DEF AfterRecord, Stages
    <2>2. Client!ContractTypeOK'
        BY <1>1 DEF IInv, Types, clientVars, Client!ContractTypeOK, Client!MonidTypeOK
    <2> QED
        BY <1>6, <2>1, <2>2 DEF Types
<1>9. Held(g)'
    <2>1. /\ phase' = phase /\ asks' = asks /\ bought' = bought /\ result' = result
          /\ monid' = monid /\ stage'[g] = AfterRecord(g)
        BY <1>1, <1>2 DEF clientVars
    <2>2. r.ok => TrueRun(asks[g], result[g].run)
        BY <1>1, <1>3 DEF IInv, Held, ResultIsTrue
    <2>3. r.ok => r.run # NoRun
        <3> SUFFICES ASSUME r.ok PROVE r.run # NoRun
            OBVIOUS
        <3> QED
            BY <1>3, <2>2, TrueRunIsRecord DEF IInv
    <2>4. StoredAfterReceipt(g)'
        BY <1>3, <1>5, <1>6, <2>1, <2>3 DEF StoredAfterReceipt, AfterRecord, Failed
    <2>5. ResultIsTrue(g)'
        BY <1>3, <2>1, <2>2 DEF ResultIsTrue, TrueRun, Client!Report
    <2>6. BoughtForTheQuestion(g)'
        BY <2>1 DEF IInv, Held, BoughtForTheQuestion
    <2> QED
        BY <2>4, <2>5, <2>6 DEF Held
<1>10. ASSUME NEW h \in Goroutines, h # g PROVE Held(h)'
    <2>1. /\ phase'[h] = phase[h] /\ asks'[h] = asks[h] /\ bought'[h] = bought[h]
          /\ result'[h] = result[h] /\ stage'[h] = stage[h]
        BY <1>1, <1>2, <1>10 DEF clientVars
    <2> QED
        BY <1>6, <1>7, <2>1, BystanderKeeps DEF IInv
<1>11. \A x \in DOMAIN entries' : Cached(x)'
    BY <1>1, <1>6, <1>7, EntryKeeps DEF IInv, cacheVars
<1> QED
    BY <1>8, <1>9, <1>10, <1>11 DEF IInv

(* What is stored is the result the goroutine holds.                       *)
LEMMA StoreHolds ==
    ASSUME IInv, NEW g \in Goroutines, Store(g)
    PROVE  IInv'
<1>1. /\ UNCHANGED <<clientVars, ledgerVars>> /\ stage[g] = "store"
      /\ Cache!Put(asks[g], result[g].run) /\ stage' = [stage EXCEPT ![g] = "free"]
    BY DEF Store
<1>2. Evolves /\ Paid' = Paid
    BY <1>1, NothingChanges DEF clientVars, ledgerVars
<1>3. stage \in [Goroutines -> Stages]
    BY DEF IInv, Types
<1>4. Types'
    <2>1. stage' \in [Goroutines -> Stages]
        BY <1>1, <1>3 DEF Stages
    <2> QED
        BY <1>1, <2>1 DEF IInv, Types, clientVars, ledgerVars, Client!ContractTypeOK,
            Client!MonidTypeOK
<1>5. ASSUME NEW h \in Goroutines PROVE Held(h)'
    <2>1. /\ phase' = phase /\ asks' = asks /\ bought' = bought /\ result' = result
        BY <1>1 DEF clientVars
    <2>2. CASE h # g
        BY <1>1, <1>2, <1>3, <2>1, <2>2, BystanderKeeps DEF IInv
    <2>3. CASE h = g
        <3>1. stage'[h] = "free"
            BY <1>1, <1>3, <2>3
        <3> QED
            BY <1>2, <2>1, <3>1
                DEF IInv, Held, BoughtForTheQuestion, ResultIsTrue, StoredAfterReceipt, Evolves
    <2> QED
        BY <2>2, <2>3
<1>6. TrueRun(asks[g], result[g].run) /\ result[g].run.id \in Paid
    BY <1>1 DEF IInv, Held, ResultIsTrue, StoredAfterReceipt
<1>7. \A x \in DOMAIN entries' :
          \/ x \in DOMAIN entries /\ entries'[x] = entries[x]
          \/ x = asks[g] /\ entries'[x].run = result[g].run
    <2>1. CASE TTL[asks[g]] <= 0
        BY <1>1, <2>1 DEF Cache!Put, Cache!cacheVars
    <2>2. CASE ~(TTL[asks[g]] <= 0)
        <3> DEFINE stored == [x \in DOMAIN entries \cup {asks[g]} |->
                IF x = asks[g] THEN [run |-> result[g].run, expiresAt |-> now + TTL[asks[g]]]
                ELSE entries[x]]
        <3>1. PICK lost : entries' = [x \in DOMAIN stored \ lost |-> stored[x]]
            BY <1>1, <2>2 DEF Cache!Put, Cache!Drop, Cache!Restrict
        <3> QED
            BY <3>1
    <2> QED
        BY <2>1, <2>2
<1>8. ASSUME NEW x \in DOMAIN entries' PROVE Cached(x)'
    <2>1. CASE x \in DOMAIN entries /\ entries'[x] = entries[x]
        BY <1>2, <2>1, EntryKeeps DEF IInv
    <2>2. CASE x = asks[g] /\ entries'[x].run = result[g].run
        BY <1>2, <1>6, <2>2 DEF Cached, TrueRun, Evolves, Client!Report
    <2> QED
        BY <1>7, <2>1, <2>2
<1> QED
    BY <1>4, <1>5, <1>8 DEF IInv

(* Monid settles a run that may be anyone's.                               *)
LEMMA EnvironmentHolds ==
    ASSUME IInv, Environment
    PROVE  IInv'
<1>1. PICK id \in 1 .. MaxRuns : Client!Settle(id)
    BY DEF Environment, Client!Environment
<1>2. UNCHANGED <<phase, asks, bought, result, stage, entries, ledgerVars>>
    BY DEF Environment, Client!Environment, cacheVars
<1>3. Evolves /\ Client!MonidTypeOK'
    BY <1>1, SettleEvolves DEF IInv, Types, Client!ContractTypeOK
<1>4. Paid' = Paid
    BY <1>2 DEF Paid, Receipted, WrittenSinceBoot, ledgerVars
<1>5. Types'
    BY <1>2, <1>3 DEF IInv, Types, Client!ContractTypeOK, ledgerVars
<1>6. \A h \in Goroutines : Held(h)'
    BY <1>2, <1>3, <1>4, BystanderKeeps DEF IInv
<1>7. \A x \in DOMAIN entries' : Cached(x)'
    BY <1>2, <1>3, <1>4, EntryKeeps DEF IInv
<1> QED
    BY <1>5, <1>6, <1>7 DEF IInv

(* After a restart nothing is in hand and nothing is cached.               *)
LEMMA RestartHolds ==
    ASSUME IInv, Restart
    PROVE  IInv'
<1>1. /\ phase' = [g \in Goroutines |-> "idle"] /\ bought' = [g \in Goroutines |-> 0]
      /\ result' = [g \in Goroutines |-> Client!NoResult]
      /\ stage' = [g \in Goroutines |-> "free"]
      /\ DOMAIN entries' = {} /\ UNCHANGED <<asks, monid, file>>
      /\ boot' = Len(file) /\ unwritten' = <<>>
    BY DEF Restart
<1>2. Types'
    <2>1. Client!NoResult \in Client!Result
        BY DEF Client!NoResult, Client!Result
    <2>2. bought' \in [Goroutines -> 0 .. MaxRuns]
        BY <1>1, MonidAssumption
    <2>3. Client!ContractTypeOK'
        BY <1>1, <2>1, <2>2 DEF IInv, Types, Client!ContractTypeOK, Client!MonidTypeOK
    <2>4. stage' \in [Goroutines -> Stages] /\ unwritten' \in Seq(Row)
        BY <1>1 DEF Stages
    <2>5. boot' \in 0 .. Len(file')
        BY <1>1 DEF IInv, Types
    <2> QED
        BY <1>1, <2>3, <2>4, <2>5 DEF IInv, Types
<1>3. \A h \in Goroutines : Held(h)'
    BY <1>1 DEF Held, BoughtForTheQuestion, ResultIsTrue, StoredAfterReceipt
<1> QED
    BY <1>1, <1>2, <1>3 DEF IInv

(* A call's answer, a tick of the clock and a stutter leave all of it be.  *)
LEMMA FrameHolds ==
    ASSUME IInv, UNCHANGED <<clientVars, entries, stage, ledgerVars>>
    PROVE  IInv'
<1>1. Evolves /\ Paid' = Paid
    BY NothingChanges DEF clientVars, ledgerVars
<1>2. Types'
    BY DEF IInv, Types, clientVars, ledgerVars, Client!ContractTypeOK, Client!MonidTypeOK
<1>3. \A h \in Goroutines : Held(h)'
    BY <1>1, BystanderKeeps DEF IInv, clientVars
<1>4. \A x \in DOMAIN entries' : Cached(x)'
    BY <1>1, EntryKeeps DEF IInv
<1> QED
    BY <1>2, <1>3, <1>4 DEF IInv

LEMMA NextHolds == IInv /\ [Next]_vars => IInv'
<1> SUFFICES ASSUME IInv, [Next]_vars PROVE IInv'
    OBVIOUS
<1>1. ASSUME NEW g \in Goroutines, Ask(g) PROVE IInv'
    BY <1>1, HitHolds, MissHolds DEF Ask
<1>2. ASSUME NEW g \in Goroutines, Run(g) PROVE IInv'
    BY <1>2, RunHolds
<1>3. ASSUME NEW g \in Goroutines, Record(g) PROVE IInv'
    BY <1>3, RecordHolds
<1>4. ASSUME NEW g \in Goroutines, Store(g) PROVE IInv'
    BY <1>4, StoreHolds
<1>5. ASSUME NEW c \in Calls, Answer(c) PROVE IInv'
    BY <1>5, FrameHolds DEF Answer, cacheVars
<1>6. ASSUME Tick PROVE IInv'
    BY <1>6, FrameHolds DEF Tick, Cache!Tick, Cache!cacheVars
<1>7. ASSUME UNCHANGED vars PROVE IInv'
    BY <1>7, FrameHolds DEF vars, cacheVars, serviceVars
<1> QED
    BY <1>1, <1>2, <1>3, <1>4, <1>5, <1>6, <1>7, EnvironmentHolds, RestartHolds DEF Next

LEMMA IInvHolds == Spec => []IInv
BY InitHolds, NextHolds, PTL DEF Spec

-----------------------------------------------------------------------------
(* Sums.  Total is a recursive function, so what it does is proved by      *)
(* induction on how far it has come.                                       *)

(* A set of numbers has a least one.                                       *)
LEMMA Least ==
    ASSUME NEW S, S \subseteq Nat, S # {}
    PROVE  \E m \in S : \A n \in S : ~(n < m)
<1> DEFINE R == OpToRel(<, Nat)
<1>1. IsWellFoundedOn(R, Nat)
    BY NatLessThanWellFounded
<1>2. \A x, y \in Nat : x < y => <<x, y>> \in R
    BY DEF OpToRel
<1> HIDE DEF R
<1>3. \E x \in S : \A y \in S : ~(<<y, x>> \in R)
    BY <1>1, WFMin
<1> QED
    BY <1>2, <1>3

(* Induction over the numbers, for a set: what holds is put into S.        *)
LEMMA Induct ==
    ASSUME NEW S, 0 \in S, \A n \in Nat : n \in S => n + 1 \in S
    PROVE  Nat \subseteq S
<1> SUFFICES ASSUME Nat \ S # {} PROVE FALSE
    OBVIOUS
<1>1. PICK m \in Nat \ S : \A n \in Nat \ S : ~(n < m)
    BY Least
<1>2. m # 0 /\ m - 1 \in Nat /\ m - 1 < m /\ (m - 1) + 1 = m
    BY <1>1
<1> QED
    BY <1>1, <1>2

(* f holds the sums of the first 0 .. n numbers of w.                      *)
Sums(f, w, n) == f = [i \in 0 .. n |-> IF i = 0 THEN 0 ELSE f[i - 1] + w[i]]

(* Such an f exists, so that Total's upTo is one.                          *)
LEMMA SumsExist == ASSUME NEW w, NEW n \in Nat PROVE \E f : Sums(f, w, n)
<1> DEFINE S == {m \in Nat : \E f : Sums(f, w, m)}
<1>1. 0 \in S
    <2>1. Sums([i \in 0 .. 0 |-> 0], w, 0)
        BY DEF Sums
    <2> QED
        BY <2>1
<1>2. ASSUME NEW m \in Nat, m \in S PROVE m + 1 \in S
    <2>1. PICK f : Sums(f, w, m)
        BY <1>2
    <2> DEFINE g == [i \in 0 .. m + 1 |-> IF i = m + 1 THEN f[m] + w[m + 1] ELSE f[i]]
    <2>2. ASSUME NEW i \in 0 .. m + 1
          PROVE  g[i] = IF i = 0 THEN 0 ELSE g[i - 1] + w[i]
        <3>1. CASE i = m + 1
            <4>1. i # 0 /\ i - 1 = m /\ i - 1 \in 0 .. m + 1 /\ i - 1 # m + 1
                BY <3>1
            <4> QED
                BY <3>1, <4>1
        <3>2. CASE i = 0
            BY <2>1, <3>2 DEF Sums
        <3>3. CASE i # 0 /\ i # m + 1
            <4>1. i \in 0 .. m /\ i - 1 \in 0 .. m + 1 /\ i - 1 # m + 1
                BY <3>3
            <4>2. f[i] = f[i - 1] + w[i]
                BY <2>1, <3>3, <4>1 DEF Sums
            <4> QED
                BY <3>3, <4>1, <4>2
        <3> QED
            BY <3>1, <3>2, <3>3
    <2>3. g = [i \in 0 .. m + 1 |-> g[i]]
        OBVIOUS
    <2> HIDE DEF g
    <2>4. Sums(g, w, m + 1)
        BY <2>2, <2>3 DEF Sums
    <2> QED
        BY <2>4
<1> HIDE DEF S
<1>3. n \in S
    BY <1>1, <1>2, Induct
<1> QED
    BY <1>3 DEF S

(* A total is the last of its sums.                                        *)
LEMMA TotalSums ==
    ASSUME NEW w, Len(w) \in Nat
    PROVE  \E f : Sums(f, w, Len(w)) /\ Total(w) = f[Len(w)]
<1> DEFINE f == CHOOSE f : Sums(f, w, Len(w))
<1>1. Sums(f, w, Len(w))
    BY SumsExist
<1>2. Total(w) = f[Len(w)]
    BY DEF Total, Sums
<1> QED
    BY <1>1, <1>2

(* Sums over numbers that agree up to m agree up to m.                     *)
LEMMA SumsAgree ==
    ASSUME NEW f, NEW g, NEW v, NEW w, NEW m \in Nat, NEW n \in Nat, m <= n,
           Sums(f, v, m), Sums(g, w, n), \A i \in 1 .. m : v[i] = w[i]
    PROVE  f[m] = g[m]
<1> DEFINE S == {k \in Nat : k <= m => f[k] = g[k]}
<1>1. 0 \in S
    BY DEF Sums
<1>2. ASSUME NEW k \in Nat, k \in S PROVE k + 1 \in S
    <2> SUFFICES ASSUME k + 1 <= m PROVE f[k + 1] = g[k + 1]
        OBVIOUS
    <2>1. /\ k + 1 \in 1 .. m /\ k + 1 \in 0 .. m /\ k + 1 \in 0 .. n /\ k + 1 # 0
          /\ (k + 1) - 1 = k /\ k <= m
        OBVIOUS
    <2>2. f[k + 1] = f[k] + v[k + 1] /\ g[k + 1] = g[k] + w[k + 1]
        BY <2>1 DEF Sums
    <2> QED
        BY <1>2, <2>1, <2>2
<1> HIDE DEF S
<1>3. m \in S
    BY <1>1, <1>2, Induct
<1> QED
    BY <1>3 DEF S

(* One more number adds itself to the total.                               *)
LEMMA TotalAppend ==
    ASSUME NEW w \in Seq(Nat), NEW x \in Nat
    PROVE  Total(Append(w, x)) = Total(w) + x
<1> DEFINE v == Append(w, x)
<1>1. /\ v \in Seq(Nat) /\ Len(v) = Len(w) + 1 /\ Len(w) \in Nat
      /\ v[Len(w) + 1] = x /\ \A i \in 1 .. Len(w) : v[i] = w[i]
    BY AppendProperties
<1> HIDE DEF v
<1>2. PICK f : Sums(f, w, Len(w)) /\ Total(w) = f[Len(w)]
    BY <1>1, TotalSums
<1>3. PICK g : Sums(g, v, Len(v)) /\ Total(v) = g[Len(v)]
    BY <1>1, TotalSums
<1>4. f[Len(w)] = g[Len(w)]
    <2>1. PICK m \in Nat, n \in Nat : m = Len(w) /\ n = Len(v) /\ m <= n
        BY <1>1
    <2>2. Sums(f, w, m) /\ Sums(g, v, n) /\ \A i \in 1 .. m : w[i] = v[i]
        BY <1>1, <1>2, <1>3, <2>1
    <2>3. f[m] = g[m]
        BY <2>1, <2>2, SumsAgree
    <2> QED
        BY <2>1, <2>3
<1>5. Len(v) \in 0 .. Len(v) /\ Len(v) # 0 /\ Len(v) - 1 = Len(w)
    BY <1>1
<1>6. g[Len(v)] = g[Len(w)] + x
    BY <1>1, <1>3, <1>5 DEF Sums
<1> QED
    BY <1>2, <1>3, <1>4, <1>6 DEF v

(* A total of natural numbers is one.                                      *)
LEMMA TotalIsNat ==
    ASSUME NEW w \in Seq(Nat)
    PROVE  Total(w) \in Nat
<1>1. PICK f : Sums(f, w, Len(w)) /\ Total(w) = f[Len(w)]
    BY TotalSums
<1> DEFINE S == {k \in Nat : k <= Len(w) => f[k] \in Nat}
<1>2. 0 \in S
    BY <1>1 DEF Sums
<1>3. ASSUME NEW k \in Nat, k \in S PROVE k + 1 \in S
    <2> SUFFICES ASSUME k + 1 <= Len(w) PROVE f[k + 1] \in Nat
        OBVIOUS
    <2>1. /\ k + 1 \in 1 .. Len(w) /\ k + 1 \in 0 .. Len(w) /\ k + 1 # 0
          /\ (k + 1) - 1 = k /\ k <= Len(w)
        OBVIOUS
    <2>2. f[k + 1] = f[k] + w[k + 1]
        BY <1>1, <2>1 DEF Sums
    <2>3. w[k + 1] \in Nat
        BY <2>1
    <2> QED
        BY <1>3, <2>1, <2>2, <2>3
<1> HIDE DEF S
<1>4. Len(w) \in S
    BY <1>2, <1>3, Induct
<1> QED
    BY <1>1, <1>4 DEF S

(* One more element adds what it counts for.                               *)
LEMMA SumOfAppend ==
    ASSUME NEW S, NEW s \in Seq(S), NEW x \in S, NEW weight \in [S -> Nat]
    PROVE  SumOf(Append(s, x), weight) = SumOf(s, weight) + weight[x]
<1> DEFINE v(t) == [i \in DOMAIN t |-> weight[t[i]]]
<1>1. /\ Append(s, x) \in Seq(S) /\ Len(Append(s, x)) = Len(s) + 1 /\ Len(s) \in Nat
      /\ DOMAIN s = 1 .. Len(s) /\ DOMAIN Append(s, x) = 1 .. Len(s) + 1
      /\ Append(s, x)[Len(s) + 1] = x /\ \A i \in 1 .. Len(s) : Append(s, x)[i] = s[i]
    BY AppendProperties, LenProperties
<1>2. v(s) \in Seq(Nat) /\ Len(v(s)) = Len(s) /\ DOMAIN v(s) = 1 .. Len(s)
    BY <1>1
<1>3. v(Append(s, x)) = Append(v(s), weight[x])
    <2>1. v(Append(s, x)) \in Seq(Nat) /\ Len(v(Append(s, x))) = Len(s) + 1
        BY <1>1
    <2>2. /\ Append(v(s), weight[x]) \in Seq(Nat)
          /\ Len(Append(v(s), weight[x])) = Len(s) + 1
          /\ Append(v(s), weight[x])[Len(s) + 1] = weight[x]
          /\ \A i \in 1 .. Len(s) : Append(v(s), weight[x])[i] = v(s)[i]
        BY <1>2, AppendProperties
    <2>3. ASSUME NEW i \in 1 .. Len(s) + 1
          PROVE  v(Append(s, x))[i] = Append(v(s), weight[x])[i]
        <3>1. CASE i = Len(s) + 1
            BY <1>1, <2>2, <3>1
        <3>2. CASE i # Len(s) + 1
            <4>1. i \in 1 .. Len(s)
                BY <1>1, <3>2
            <4> QED
                BY <1>1, <2>2, <4>1
        <3> QED
            BY <3>1, <3>2
    <2> HIDE DEF v
    <2> QED
        BY <2>1, <2>2, <2>3, SeqEqual
<1>4. Total(v(Append(s, x))) = Total(v(s)) + weight[x]
    BY <1>2, <1>3, TotalAppend
<1> QED
    BY <1>4 DEF SumOf
(* Nothing counts for nothing.                                             *)
LEMMA SumOfEmpty == ASSUME NEW weight PROVE SumOf(<<>>, weight) = 0
<1> DEFINE w == [i \in DOMAIN <<>> |-> weight[<<>>[i]]]
<1>1. w = <<>> /\ Len(<<>>) = 0
    OBVIOUS
<1>2. PICK f : Sums(f, <<>>, 0) /\ Total(<<>>) = f[0]
    BY <1>1, TotalSums
<1>3. Total(<<>>) = 0
    BY <1>2 DEF Sums
<1> QED
    BY <1>1, <1>3 DEF SumOf

(* What counts for natural numbers sums to one.                            *)
LEMMA SumOfIsNat ==
    ASSUME NEW S, NEW s \in Seq(S), NEW weight \in [S -> Nat]
    PROVE  SumOf(s, weight) \in Nat
<1> DEFINE w == [i \in DOMAIN s |-> weight[s[i]]]
<1>1. Len(s) \in Nat /\ DOMAIN s = 1 .. Len(s) /\ \A i \in 1 .. Len(s) : s[i] \in S
    BY LenProperties
<1>2. w \in Seq(Nat)
    BY <1>1
<1> QED
    BY <1>2, TotalIsNat DEF SumOf
-----------------------------------------------------------------------------
(* The cache in its place: callCtx.run calls its methods and nothing else  *)
(* changes it but a restart, so that it keeps the invariant it has alone.  *)
CacheInv == CacheProofs!Inv /\ CacheProofs!RestInv

LEMMA SameGet == ASSUME NEW k, Cache!Get(k) PROVE CacheProofs!Get(k)
BY DEF Cache!Get, Cache!GetAbsent, Cache!GetExpired, Cache!GetLive, Cache!Live, Cache!Drop,
    Cache!Unlink, Cache!Position, Cache!MoveToFront, Cache!RemoveAt, Cache!Restrict,
    Cache!Range, CacheProofs!Get, CacheProofs!GetAbsent, CacheProofs!GetExpired,
    CacheProofs!GetLive, CacheProofs!Live, CacheProofs!Drop, CacheProofs!Unlink,
    CacheProofs!Position, CacheProofs!MoveToFront, CacheProofs!RemoveAt,
    CacheProofs!Restrict, CacheProofs!Range

LEMMA SamePut == ASSUME NEW k, NEW r, Cache!Put(k, r) PROVE CacheProofs!Put(k, r)
BY DEF Cache!Put, Cache!Overflow, Cache!cacheVars, Cache!Drop, Cache!Unlink,
    Cache!Position, Cache!MoveToFront, Cache!RemoveAt, Cache!Restrict, Cache!Range,
    CacheProofs!Put, CacheProofs!Overflow, CacheProofs!cacheVars, CacheProofs!Drop,
    CacheProofs!Unlink, CacheProofs!Position, CacheProofs!MoveToFront,
    CacheProofs!RemoveAt, CacheProofs!Restrict, CacheProofs!Range

LEMMA GetKeepsCache ==
    ASSUME CacheInv, NEW k \in Keys, Cache!Get(k), UNCHANGED now
    PROVE  CacheInv'
<1>1. CacheProofs!Get(k)
    BY SameGet
<1>2. CacheProofs!Inv'
    BY <1>1, CacheProofs!GetInv, CacheAssumption, MonidAssumption DEF CacheInv
<1>3. CacheProofs!RestInv'
    BY <1>1, CacheProofs!GetRest, CacheAssumption, MonidAssumption DEF CacheInv
<1> QED
    BY <1>2, <1>3 DEF CacheInv

LEMMA PutKeepsCache ==
    ASSUME CacheInv, NEW k \in Keys, NEW r \in Client!RunRecord, Cache!Put(k, r), UNCHANGED now
    PROVE  CacheInv'
<1>1. CacheProofs!Put(k, r)
    BY SamePut
<1>2. CacheProofs!Inv'
    BY <1>1, CacheProofs!PutInv, CacheAssumption, MonidAssumption DEF CacheInv
<1>3. CacheProofs!RestInv'
    BY <1>1, CacheProofs!PutRest, CacheAssumption, MonidAssumption DEF CacheInv
<1> QED
    BY <1>2, <1>3 DEF CacheInv

(* The empty cache of a process that begins.                               *)
LEMMA EmptyCache ==
    ASSUME Cache!Init
    PROVE  CacheInv
<1>1. CacheProofs!Init
    BY DEF Cache!Init, CacheProofs!Init
<1> QED
    BY <1>1, CacheProofs!InitInv, CacheProofs!InitRest, CacheAssumption, MonidAssumption
        DEF CacheInv

LEMMA CacheIsTyped == CacheInv => Cache!TypeOK /\ Cache!MapAndListAgree
BY DEF CacheInv, CacheProofs!Inv, CacheProofs!CacheTypeOK, CacheProofs!RestInv,
    CacheProofs!MapAndListAgree, CacheProofs!Entry, CacheProofs!IsInjective,
    CacheProofs!Range, Cache!TypeOK, Cache!MapAndListAgree, Cache!Entry,
    Cache!IsInjective, Cache!Range

(* After a restart the cache is empty.                                     *)
LEMMA RestartEmptiesCache ==
    ASSUME CacheInv, Restart
    PROVE  CacheInv'
<1>1. /\ entries' = [k \in {} |-> NoRun] /\ order' = <<>> /\ recency' = <<>>
      /\ hits' = 0 /\ misses' = 0 /\ answer' = NoRun /\ now' = now
    BY DEF Restart
<1>2. /\ DOMAIN entries' = {} /\ Len(order') = 0 /\ DOMAIN order' = {}
      /\ DOMAIN recency' = {} /\ order' \in Seq(Keys) /\ recency' \in Seq(Keys)
    BY <1>1
<1>3. CacheProofs!Inv'
    BY <1>1, <1>2, CacheAssumption
        DEF CacheInv, CacheProofs!Inv, CacheProofs!CacheTypeOK, CacheProofs!MapAndListAgree,
            CacheProofs!Range, CacheProofs!IsInjective
<1>4. CacheProofs!RestInv'
    BY <1>1, <1>2 DEF CacheProofs!RestInv, CacheProofs!IsInjective
<1> QED
    BY <1>3, <1>4 DEF CacheInv

LEMMA CacheStands ==
    ASSUME CacheInv, UNCHANGED <<cacheVars, now>>
    PROVE  CacheInv'
BY DEF CacheInv, cacheVars, CacheProofs!Inv, CacheProofs!CacheTypeOK,
    CacheProofs!MapAndListAgree, CacheProofs!RestInv, CacheProofs!Entry,
    CacheProofs!Range, CacheProofs!IsInjective

(* The clock moves forward.                                                *)
LEMMA TickKeepsCache ==
    ASSUME CacheInv, Cache!Tick
    PROVE  CacheInv'
<1>1. CacheProofs!Tick
    BY DEF Cache!Tick, Cache!cacheVars, CacheProofs!Tick, CacheProofs!cacheVars
<1> QED
    BY <1>1, CacheProofs!NextInv, CacheProofs!NextRest, CacheAssumption, MonidAssumption
        DEF CacheInv, CacheProofs!Next

-----------------------------------------------------------------------------
(* The books: a call's trace, the ledger's file and its running total.     *)
BookTypes ==
    /\ attempts \in [Goroutines -> 0 .. MaxAttempts]
    /\ trace \in [Calls -> Seq(Step)]
    /\ answered \subseteq Calls
    /\ spent \in Nat /\ restarts \in 0 .. MaxRestarts

(* TraceMatchesLedger, in its three parts.                                 *)
Ran(c) == {step \in Range(trace[c]) : ~step.cached}
PaidBy(c) == {row \in Range(Receipted) : row.call = c /\ ~row.failed}

AsManyRows(c) == SumOf(trace[c], Uncached) = Receipts(RowOf(c))
SameRuns(c) == {step.run : step \in Ran(c)} \ {0} = {row.run : row \in PaidBy(c)}
SameCost(c) == TotalCost(trace[c]) = Receipts(BoughtBy(c))
Story(c) == AsManyRows(c) /\ SameRuns(c) /\ SameCost(c)

Books == BookTypes /\ SpentIsWhatWasWritten /\ \A c \in Calls : Story(c)

LEMMA StoryIsTheProperty == (\A c \in Calls : Story(c)) <=> TraceMatchesLedger
BY DEF Story, AsManyRows, SameRuns, SameCost, Ran, PaidBy, TraceMatchesLedger

(* What things count for is a natural number.                              *)
LEMMA Weights ==
    /\ \A c : RowOf(c) \in [Row -> Nat] /\ BoughtBy(c) \in [Row -> Nat]
    /\ Uncached \in [Step -> Nat]
    /\ [step \in Step |-> Price(step.cost)] \in [Step -> Nat]
    /\ [row \in Row |-> Price(row.cost)] \in [Row -> Nat]
<1>1. \A cost \in Costs \cup {NoCost} : Price(cost) \in Nat
    BY MonidAssumption DEF Price
<1>2. \A row \in Row : row.cost \in Costs \cup {NoCost}
    BY DEF Row
<1>3. \A step \in Step : step.cost \in Costs \cup {NoCost}
    BY DEF Step
<1> QED
    BY <1>1, <1>2, <1>3 DEF RowOf, BoughtBy, Uncached

(* A step that is no step of the recorder or the ledger leaves the books.  *)
LEMMA BooksStand ==
    ASSUME Books, UNCHANGED <<trace, ledgerVars>>,
           attempts' \in [Goroutines -> 0 .. MaxAttempts],
           answered' \subseteq Calls, restarts' \in 0 .. MaxRestarts
    PROVE  Books'
<1>1. trace' = trace /\ file' = file /\ spent' = spent /\ boot' = boot /\ unwritten' = unwritten
    BY DEF ledgerVars
<1>2. BookTypes'
    BY <1>1 DEF Books, BookTypes
<1>3. WrittenSinceBoot' = WrittenSinceBoot /\ Receipted' = Receipted
    BY <1>1 DEF Receipted, WrittenSinceBoot
<1>4. SpentIsWhatWasWritten'
    BY <1>1, <1>3 DEF Books, SpentIsWhatWasWritten, RowsCost
<1>5. ASSUME NEW c \in Calls PROVE Story(c)'
    BY <1>1, <1>3 DEF Books, Story, AsManyRows, SameRuns, SameCost, Ran, PaidBy, Receipts,
        TotalCost
<1> QED
    BY <1>2, <1>4, <1>5 DEF Books

(* A step appended to a trace counts for what it is.                       *)
LEMMA TraceGrows ==
    ASSUME BookTypes, NEW g \in Goroutines, NEW step \in Step,
           trace' = [trace EXCEPT ![CallOf[g]] = Append(@, step)]
    PROVE  /\ trace' \in [Calls -> Seq(Step)]
           /\ \A c \in Calls \ {CallOf[g]} : trace'[c] = trace[c]
           /\ Range(trace'[CallOf[g]]) = Range(trace[CallOf[g]]) \cup {step}
           /\ SumOf(trace'[CallOf[g]], Uncached) =
                  SumOf(trace[CallOf[g]], Uncached) + Uncached[step]
           /\ TotalCost(trace'[CallOf[g]]) = TotalCost(trace[CallOf[g]]) + Price(step.cost)
<1>1. PICK t \in Seq(Step) : t = trace[CallOf[g]]
    BY CallsAssumption DEF BookTypes
<1>2. trace'[CallOf[g]] = Append(t, step)
    BY <1>1, CallsAssumption DEF BookTypes
<1>3. Append(t, step) \in Seq(Step)
    OBVIOUS
<1>4. trace' \in [Calls -> Seq(Step)] /\ \A c \in Calls \ {CallOf[g]} : trace'[c] = trace[c]
    BY <1>1, <1>3 DEF BookTypes
<1>5. Range(Append(t, step)) = Range(t) \cup {step}
    <2>1. /\ DOMAIN t = 1 .. Len(t) /\ DOMAIN Append(t, step) = 1 .. Len(t) + 1
          /\ Len(t) \in Nat /\ Append(t, step)[Len(t) + 1] = step
          /\ \A i \in 1 .. Len(t) : Append(t, step)[i] = t[i]
        OBVIOUS
    <2>2. 1 .. Len(t) + 1 = 1 .. Len(t) \cup {Len(t) + 1}
        BY <2>1
    <2> QED
        BY <2>1, <2>2 DEF Range
<1>6. SumOf(Append(t, step), Uncached) = SumOf(t, Uncached) + Uncached[step]
    BY Weights, SumOfAppend
<1>7. TotalCost(Append(t, step)) = TotalCost(t) + Price(step.cost)
    <2> DEFINE w == [s \in Step |-> Price(s.cost)]
    <2>1. w \in [Step -> Nat] /\ w[step] = Price(step.cost)
        BY Weights
    <2> HIDE DEF w
    <2>2. SumOf(Append(t, step), w) = SumOf(t, w) + w[step]
        BY <2>1, SumOfAppend
    <2> QED
        BY <2>1, <2>2 DEF TotalCost, w
<1> QED
    BY <1>1, <1>2, <1>4, <1>5, <1>6, <1>7

(* What is appended to a sequence is appended to its tail.                 *)
LEMMA TailGrows ==
    ASSUME NEW S, NEW f \in Seq(S), NEW x \in S, NEW b \in Nat, b <= Len(f)
    PROVE  SubSeq(Append(f, x), b + 1, Len(Append(f, x))) = Append(SubSeq(f, b + 1, Len(f)), x)
<1> DEFINE f2 == Append(f, x)
           t == SubSeq(f, b + 1, Len(f))
<1>1. /\ Len(f) \in Nat /\ f2 \in Seq(S) /\ Len(f2) = Len(f) + 1 /\ f2[Len(f) + 1] = x
      /\ \A i \in 1 .. Len(f) : f2[i] = f[i]
    BY AppendProperties
<1>2. /\ t \in Seq(S) /\ Len(t) = Len(f) - b
      /\ \A i \in 1 .. (Len(f) - b) : t[i] = f[b + i]
    BY <1>1
<1> HIDE DEF f2, t
<1> DEFINE t2 == SubSeq(f2, b + 1, Len(f2))
           v == Append(t, x)
<1>3. b <= Len(f2) /\ Len(f2) \in Nat
    BY <1>1
<1>4. /\ t2 \in Seq(S) /\ Len(t2) = Len(f2) - b
      /\ \A i \in 1 .. (Len(f2) - b) : t2[i] = f2[b + i]
    BY <1>1, <1>3
<1>5. /\ v \in Seq(S) /\ Len(v) = Len(t) + 1 /\ v[Len(t) + 1] = x
      /\ \A i \in 1 .. Len(t) : v[i] = t[i]
    BY <1>2, AppendProperties
<1> HIDE DEF t2, v
<1>6. Len(t2) = Len(v) /\ Len(v) = (Len(f) - b) + 1
    BY <1>1, <1>2, <1>4, <1>5
<1>7. PICK l \in Nat : l = Len(f) /\ Len(t) = l - b /\ Len(f2) = l + 1 /\ b <= l
    BY <1>1, <1>2
<1>8. ASSUME NEW i \in 1 .. Len(t2) PROVE t2[i] = v[i]
    <2>1. CASE i = Len(t) + 1
        <3>1. b + i = Len(f) + 1 /\ i \in 1 .. (Len(f2) - b)
            <4>1. i = (l - b) + 1
                BY <1>7, <2>1
            <4>2. b + i = l + 1 /\ i \in 1 .. ((l + 1) - b)
                BY <1>7, <4>1
            <4> QED
                BY <1>7, <4>2
        <3>2. t2[i] = f2[Len(f) + 1]
            BY <1>4, <3>1
        <3> QED
            BY <1>1, <1>5, <2>1, <3>2
    <2>2. CASE i # Len(t) + 1
        <3>1. i \in 1 .. Len(t) /\ b + i \in 1 .. Len(f) /\ i \in 1 .. (Len(f2) - b)
            <4>1. i \in 1 .. ((l + 1) - b) /\ i # (l - b) + 1
                BY <1>4, <1>7, <2>2
            <4>2. i \in 1 .. (l - b) /\ b + i \in 1 .. l
                BY <1>7, <4>1
            <4> QED
                BY <1>7, <4>1, <4>2
        <3>2. t2[i] = f2[b + i] /\ f2[b + i] = f[b + i] /\ t[i] = f[b + i] /\ v[i] = t[i]
            BY <1>1, <1>2, <1>4, <1>5, <3>1
        <3> QED
            BY <3>2
    <2> QED
        BY <2>1, <2>2
<1>9. t2 = v
    BY <1>4, <1>5, <1>6, <1>8, SeqEqual
<1> QED
    BY <1>9 DEF t2, v, f2, t

(* A receipt counts for what it is, whether or not its write succeeded.    *)
LEMMA LedgerGrows ==
    ASSUME Types, NEW row \in Row, AppendRow(row), boot' = boot
    PROVE  /\ \A weight \in [Row -> Nat] : Receipts(weight)' = Receipts(weight) + weight[row]
           /\ SpentIsWhatWasWritten /\ spent \in Nat => SpentIsWhatWasWritten' /\ spent' \in Nat
<1>1. PICK f \in Seq(Row), b \in Nat, u \in Seq(Row) :
          f = file /\ b = boot /\ u = unwritten /\ b <= Len(f)
    BY DEF Types
<1> DEFINE w == SubSeq(f, b + 1, Len(f))
<1>2. w = WrittenSinceBoot
    BY <1>1 DEF WrittenSinceBoot
<1> HIDE DEF Row
<1>3. w \in Seq(Row)
    BY SubSeqProperties
<1>4. file' = Append(f, row) => WrittenSinceBoot' = Append(w, row)
    BY <1>1, TailGrows DEF WrittenSinceBoot
<1> HIDE DEF w
<1>5. \/ WrittenSinceBoot' = Append(w, row) /\ unwritten' = u /\ spent' = spent + Price(row.cost)
      \/ WrittenSinceBoot' = w /\ unwritten' = Append(u, row) /\ spent' = spent
    <2>1. file' = file => WrittenSinceBoot' = w
        BY <1>2 DEF WrittenSinceBoot
    <2> QED
        BY <1>1, <1>4, <2>1 DEF AppendRow
<1>6. ASSUME NEW weight \in [Row -> Nat]
      PROVE  Receipts(weight)' = Receipts(weight) + weight[row]
    <2>1. SumOf(Append(w, row), weight) = SumOf(w, weight) + weight[row]
        BY <1>3, SumOfAppend
    <2>2. SumOf(Append(u, row), weight) = SumOf(u, weight) + weight[row]
        BY SumOfAppend
    <2>3. SumOf(w, weight) \in Nat /\ SumOf(u, weight) \in Nat /\ weight[row] \in Nat
        BY <1>3, SumOfIsNat
    <2>4. Receipts(weight) = SumOf(w, weight) + SumOf(u, weight)
        BY <1>1, <1>2 DEF Receipts
    <2>5. Receipts(weight)' = SumOf(WrittenSinceBoot', weight) + SumOf(unwritten', weight)
        BY DEF Receipts
    <2>6. CASE WrittenSinceBoot' = Append(w, row) /\ unwritten' = u
        <3>1. Receipts(weight)' = (SumOf(w, weight) + weight[row]) + SumOf(u, weight)
            BY <2>1, <2>5, <2>6
        <3> QED
            BY <2>3, <2>4, <3>1
    <2>7. CASE WrittenSinceBoot' = w /\ unwritten' = Append(u, row)
        <3>1. Receipts(weight)' = SumOf(w, weight) + (SumOf(u, weight) + weight[row])
            BY <2>2, <2>5, <2>7
        <3> QED
            BY <2>3, <2>4, <3>1
    <2> QED
        BY <1>5, <2>6, <2>7
<1>7. ASSUME SpentIsWhatWasWritten, spent \in Nat PROVE SpentIsWhatWasWritten' /\ spent' \in Nat
    <2> DEFINE p == [r \in Row |-> Price(r.cost)]
    <2>1. p \in [Row -> Nat] /\ p[row] = Price(row.cost)
        BY Weights
    <2> HIDE DEF p
    <2>2. SumOf(Append(w, row), p) = SumOf(w, p) + p[row]
        BY <1>3, <2>1, SumOfAppend
    <2>3. spent = SumOf(w, p)
        BY <1>2, <1>7 DEF SpentIsWhatWasWritten, RowsCost, p
    <2>4. SpentIsWhatWasWritten' <=> spent' = SumOf(WrittenSinceBoot', p)
        BY DEF SpentIsWhatWasWritten, RowsCost, p
    <2>5. p[row] \in Nat
        BY <2>1
    <2>6. CASE WrittenSinceBoot' = Append(w, row) /\ spent' = spent + Price(row.cost)
        <3>1. spent' = SumOf(WrittenSinceBoot', p)
            BY <2>1, <2>2, <2>3, <2>6
        <3>2. spent' \in Nat
            BY <1>7, <2>1, <2>5, <2>6
        <3> QED
            BY <2>4, <3>1, <3>2
    <2>7. CASE WrittenSinceBoot' = w /\ spent' = spent
        BY <1>7, <2>3, <2>4, <2>7
    <2> QED
        BY <1>5, <2>6, <2>7
<1> QED
    BY <1>6, <1>7

LEMMA CountsAreNats ==
    ASSUME BookTypes, NEW c \in Calls
    PROVE  SumOf(trace[c], Uncached) \in Nat /\ TotalCost(trace[c]) \in Nat
<1>1. trace[c] \in Seq(Step)
    BY DEF BookTypes
<1> QED
    BY <1>1, Weights, SumOfIsNat DEF TotalCost

(* A hit is a step that neither counts nor costs.                          *)
LEMMA HitKeepsBooks ==
    ASSUME IInv, Books, NEW g \in Goroutines, NEW k \in Keys, Hit(g, k)
    PROVE  Books'
<1> DEFINE step == [run |-> entries[k].run.id, cost |-> NoCost, cached |-> TRUE]
           d == CallOf[g]
<1>1. /\ attempts[g] < MaxAttempts /\ attempts' = [attempts EXCEPT ![g] = @ + 1]
      /\ trace' = [trace EXCEPT ![d] = Append(@, step)]
      /\ UNCHANGED <<answered, restarts, ledgerVars>> /\ k \in DOMAIN entries
    BY DEF Hit, Begin, AddStep, Cache!Live
<1>2. step \in Step
    <2>1. entries[k].run.id \in 1 .. MaxRuns
        BY <1>1, TrueRunIsRecord DEF IInv, Cached
    <2> QED
        BY <2>1, MonidAssumption DEF Step
<1>3. step.cached /\ Uncached[step] = 0 /\ Price(step.cost) = 0
    BY <1>2 DEF Uncached, Price
<1> HIDE DEF step
<1>4. /\ trace' \in [Calls -> Seq(Step)]
      /\ \A c \in Calls \ {d} : trace'[c] = trace[c]
      /\ Range(trace'[d]) = Range(trace[d]) \cup {step}
      /\ SumOf(trace'[d], Uncached) = SumOf(trace[d], Uncached) + 0
      /\ TotalCost(trace'[d]) = TotalCost(trace[d]) + 0
    <2>1. /\ SumOf(trace'[d], Uncached) = SumOf(trace[d], Uncached) + Uncached[step]
          /\ TotalCost(trace'[d]) = TotalCost(trace[d]) + Price(step.cost)
          /\ trace' \in [Calls -> Seq(Step)]
          /\ \A c \in Calls \ {d} : trace'[c] = trace[c]
          /\ Range(trace'[d]) = Range(trace[d]) \cup {step}
        BY <1>1, <1>2, TraceGrows DEF Books
    <2> QED
        BY <1>3, <2>1
<1>5. BookTypes'
    <2>1. attempts' \in [Goroutines -> 0 .. MaxAttempts]
        BY <1>1, BoundsAssumption DEF Books, BookTypes
    <2> QED
        BY <1>1, <1>4, <2>1 DEF Books, BookTypes, ledgerVars
<1>6. WrittenSinceBoot' = WrittenSinceBoot /\ Receipted' = Receipted /\ unwritten' = unwritten
    BY <1>1 DEF Receipted, WrittenSinceBoot, ledgerVars
<1>7. SpentIsWhatWasWritten'
    BY <1>1, <1>6 DEF Books, SpentIsWhatWasWritten, RowsCost, ledgerVars
<1>8. ASSUME NEW c \in Calls PROVE Story(c)'
    <2>1. SumOf(trace'[c], Uncached) = SumOf(trace[c], Uncached) /\ TotalCost(trace'[c]) = TotalCost(trace[c])
        BY <1>4, CountsAreNats DEF Books
    <2>2. Ran(c)' = Ran(c)
        BY <1>3, <1>4 DEF Ran
    <2> QED
        BY <1>6, <2>1, <2>2 DEF Books, Story, AsManyRows, SameRuns, SameCost, PaidBy, Receipts
<1> QED
    BY <1>5, <1>7, <1>8 DEF Books

(* The step and the row of one run count for the same.                     *)
LEMMA RecordKeepsBooks ==
    ASSUME IInv, Books, NEW g \in Goroutines, Record(g)
    PROVE  Books'
<1> DEFINE row == Receipt(g)
           step == [run |-> IF Failed(g) THEN 0 ELSE row.run,
                    cost |-> IF Failed(g) THEN NoCost ELSE row.cost, cached |-> FALSE]
           d == CallOf[g]
<1>1. /\ stage[g] = "record" /\ AppendRow(row) /\ boot' = boot
      /\ trace' = [trace EXCEPT ![d] = Append(@, step)]
      /\ UNCHANGED <<attempts, answered, restarts>>
    BY DEF Record, AddStep
<1>2. /\ row \in Row /\ row.call = d /\ row.failed = Failed(g) /\ row.failed \in BOOLEAN
      /\ ~Failed(g) => row.run # 0
    <2>1. row \in Row /\ row.call = d /\ row.failed = Failed(g)
        BY ReceiptIsRow DEF IInv
    <2>2. ~Failed(g) => result[g].run # NoRun /\ result[g].run.id # 0
        BY <1>1, TrueRunIsRecord DEF IInv, Held, ResultIsTrue, Failed
    <2> QED
        BY <2>1, <2>2, ReceiptIsRow DEF IInv, Row
<1> HIDE DEF row
<1>3. /\ step \in Step /\ ~step.cached /\ Uncached[step] = 1
      /\ {step.run} \ {0} = {row.run : r \in {x \in {row} : ~x.failed}}
    <2>1. row.run \in 0 .. MaxRuns /\ row.cost \in Costs \cup {NoCost}
        BY <1>2 DEF Row
    <2>2. step \in Step /\ ~step.cached
        BY <2>1, MonidAssumption DEF Step
    <2>3. {step.run} \ {0} = {row.run : r \in {x \in {row} : ~x.failed}}
        BY <1>2
    <2> HIDE DEF step
    <2> QED
        BY <2>2, <2>3 DEF Uncached
<1>4. /\ RowOf(d)[row] = 1 /\ BoughtBy(d)[row] = Price(step.cost)
      /\ \A c \in Calls \ {d} : RowOf(c)[row] = 0 /\ BoughtBy(c)[row] = 0
    BY <1>2 DEF RowOf, BoughtBy, Price
<1> HIDE DEF step
<1>5. /\ trace' \in [Calls -> Seq(Step)]
      /\ \A c \in Calls \ {d} : trace'[c] = trace[c]
      /\ Range(trace'[d]) = Range(trace[d]) \cup {step}
      /\ SumOf(trace'[d], Uncached) = SumOf(trace[d], Uncached) + 1
      /\ TotalCost(trace'[d]) = TotalCost(trace[d]) + Price(step.cost)
    <2>1. /\ SumOf(trace'[d], Uncached) = SumOf(trace[d], Uncached) + Uncached[step]
          /\ TotalCost(trace'[d]) = TotalCost(trace[d]) + Price(step.cost)
          /\ trace' \in [Calls -> Seq(Step)]
          /\ \A c \in Calls \ {d} : trace'[c] = trace[c]
          /\ Range(trace'[d]) = Range(trace[d]) \cup {step}
        BY <1>1, <1>3, TraceGrows DEF Books
    <2> QED
        BY <1>3, <2>1
<1>6. /\ \A c : /\ Receipts(RowOf(c))' = Receipts(RowOf(c)) + RowOf(c)[row]
                /\ Receipts(BoughtBy(c))' = Receipts(BoughtBy(c)) + BoughtBy(c)[row]
      /\ SpentIsWhatWasWritten' /\ spent' \in Nat
    BY <1>1, <1>2, LedgerGrows, Weights DEF IInv, Books, BookTypes
<1>7. Range(Receipted') = Range(Receipted) \cup {row}
    BY <1>1, <1>2, AppendPays DEF IInv
<1>8. BookTypes'
    BY <1>1, <1>5, <1>6 DEF Books, BookTypes
<1>9. ASSUME NEW c \in Calls PROVE Story(c)'
    <2>1. /\ SumOf(trace[c], Uncached) \in Nat /\ TotalCost(trace[c]) \in Nat
          /\ Receipts(RowOf(c)) \in Nat /\ Receipts(BoughtBy(c)) \in Nat
          /\ AsManyRows(c) /\ SameRuns(c) /\ SameCost(c)
        BY CountsAreNats DEF Books, Story, AsManyRows, SameCost
    <2>2. PaidBy(c)' = PaidBy(c) \cup {x \in {row} : x.call = c /\ ~x.failed}
        BY <1>7 DEF PaidBy
    <2>3. CASE c = d
        <3>1. AsManyRows(c)'
            <4>1. SumOf(trace'[c], Uncached) = Receipts(RowOf(c)) + 1
                BY <1>5, <2>1, <2>3 DEF AsManyRows
            <4> QED
                BY <1>4, <1>6, <2>3, <4>1 DEF AsManyRows
        <3>2. SameCost(c)'
            <4>1. TotalCost(trace'[c]) = Receipts(BoughtBy(c)) + Price(step.cost)
                BY <1>5, <2>1, <2>3 DEF SameCost
            <4> QED
                BY <1>4, <1>6, <2>3, <4>1 DEF SameCost
        <3>3. SameRuns(c)'
            <4>1. Ran(c)' = Ran(c) \cup {step}
                BY <1>3, <1>5, <2>3 DEF Ran
            <4>2. {s.run : s \in Ran(c)'} \ {0} = ({s.run : s \in Ran(c)} \ {0}) \cup ({step.run} \ {0})
                BY <4>1
            <4>3. {r.run : r \in PaidBy(c)'} =
                      {r.run : r \in PaidBy(c)} \cup {row.run : r \in {x \in {row} : ~x.failed}}
                BY <1>2, <2>2, <2>3
            <4> QED
                BY <1>3, <2>1, <4>2, <4>3 DEF SameRuns
        <3> QED
            BY <3>1, <3>2, <3>3 DEF Story
    <2>4. CASE c # d
        <3>1. AsManyRows(c)' /\ SameCost(c)'
            BY <1>4, <1>5, <1>6, <2>1, <2>4 DEF AsManyRows, SameCost
        <3>2. Ran(c)' = Ran(c) /\ PaidBy(c)' = PaidBy(c)
            BY <1>2, <1>5, <2>2, <2>4 DEF Ran
        <3> QED
            BY <2>1, <3>1, <3>2 DEF Story, SameRuns
    <2> QED
        BY <2>3, <2>4
<1> QED
    BY <1>6, <1>8, <1>9 DEF Books

(* A process that has just begun has written nothing and traced nothing.   *)
LEMMA NewBooks ==
    /\ [c \in Calls |-> <<>>] \in [Calls -> Seq(Step)]
    /\ SumOf(<<>>, Uncached) = 0 /\ TotalCost(<<>>) = 0 /\ Range(<<>>) = {}
    /\ \A c : SumOf(<<>>, RowOf(c)) + SumOf(<<>>, RowOf(c)) = 0
    /\ \A c : SumOf(<<>>, BoughtBy(c)) + SumOf(<<>>, BoughtBy(c)) = 0
<1>1. DOMAIN <<>> = {} /\ 0 + 0 = 0
    OBVIOUS
<1>2. Range(<<>>) = {}
    BY <1>1 DEF Range
<1>3. TotalCost(<<>>) = 0
    BY SumOfEmpty DEF TotalCost
<1>4. \A c : SumOf(<<>>, RowOf(c)) = 0 /\ SumOf(<<>>, BoughtBy(c)) = 0
    BY SumOfEmpty
<1> QED
    BY <1>1, <1>2, <1>3, <1>4, SumOfEmpty

LEMMA InitKeepsBooks == Init => Books
<1> SUFFICES ASSUME Init PROVE Books
    OBVIOUS
<1>1. /\ trace = [c \in Calls |-> <<>>] /\ file = <<>> /\ spent = 0 /\ boot = 0
      /\ unwritten = <<>> /\ attempts = [g \in Goroutines |-> 0] /\ answered = {} /\ restarts = 0
    BY DEF Init
<1>2. WrittenSinceBoot = <<>> /\ Receipted = <<>>
    BY <1>1 DEF WrittenSinceBoot, Receipted
<1>3. BookTypes
    BY <1>1, BoundsAssumption, NewBooks DEF BookTypes
<1>4. SpentIsWhatWasWritten
    BY <1>1, <1>2, SumOfEmpty DEF SpentIsWhatWasWritten, RowsCost
<1>5. ASSUME NEW c \in Calls PROVE Story(c)
    <2>1. trace[c] = <<>> /\ unwritten = <<>>
        BY <1>1
    <2>2. AsManyRows(c)
        BY <1>2, <2>1, NewBooks DEF AsManyRows, Receipts
    <2>3. SameCost(c)
        BY <1>2, <2>1, NewBooks DEF SameCost, Receipts
    <2>4. SameRuns(c)
        BY <1>2, <2>1, NewBooks DEF SameRuns, Ran, PaidBy
    <2> QED
        BY <2>2, <2>3, <2>4 DEF Story
<1> QED
    BY <1>3, <1>4, <1>5 DEF Books

LEMMA RestartKeepsBooks ==
    ASSUME IInv, Books, Restart
    PROVE  Books'
<1>1. /\ trace' = [c \in Calls |-> <<>>] /\ file' = file /\ spent' = 0 /\ boot' = Len(file)
      /\ unwritten' = <<>> /\ attempts' = attempts /\ answered' = {}
      /\ restarts < MaxRestarts /\ restarts' = restarts + 1
    BY DEF Restart
<1>2. WrittenSinceBoot' = <<>> /\ Receipted' = <<>>
    <2>1. PICK f \in Seq(Row) : f = file
        BY DEF IInv, Types
    <2>2. SubSeq(f, Len(f) + 1, Len(f)) = <<>>
        <3>1. Len(f) \in Nat /\ Len(f) < Len(f) + 1
            OBVIOUS
        <3> QED
            BY <3>1
    <2> QED
        BY <1>1, <2>1, <2>2 DEF WrittenSinceBoot, Receipted
<1>3. BookTypes'
    BY <1>1, BoundsAssumption, NewBooks DEF Books, BookTypes
<1>4. SpentIsWhatWasWritten'
    BY <1>1, <1>2, SumOfEmpty DEF SpentIsWhatWasWritten, RowsCost
<1>5. ASSUME NEW c \in Calls PROVE Story(c)'
    <2>1. trace'[c] = <<>> /\ unwritten' = <<>>
        BY <1>1
    <2>2. AsManyRows(c)'
        BY <1>2, <2>1, NewBooks DEF AsManyRows, Receipts
    <2>3. SameCost(c)'
        BY <1>2, <2>1, NewBooks DEF SameCost, Receipts
    <2>4. SameRuns(c)'
        BY <1>2, <2>1, NewBooks DEF SameRuns, Ran, PaidBy
    <2> QED
        BY <2>2, <2>3, <2>4 DEF Story
<1> QED
    BY <1>3, <1>4, <1>5 DEF Books

-----------------------------------------------------------------------------
LEMMA InitAll == Init => IInv /\ CacheInv /\ Books
BY InitHolds, InitKeepsBooks, EmptyCache DEF Init

LEMMA NextAll == IInv /\ CacheInv /\ Books /\ [Next]_vars => CacheInv' /\ Books'
<1> SUFFICES ASSUME IInv, CacheInv, Books, [Next]_vars PROVE CacheInv' /\ Books'
    OBVIOUS
<1> USE DEF Books, BookTypes
<1>1. ASSUME NEW g \in Goroutines, NEW k \in Keys, Hit(g, k) PROVE CacheInv' /\ Books'
    <2>1. Cache!Get(k) /\ UNCHANGED now
        BY <1>1 DEF Hit, Begin
    <2> QED
        BY <1>1, <2>1, HitKeepsBooks, GetKeepsCache
<1>2. ASSUME NEW g \in Goroutines, NEW k \in Keys, Miss(g, k) PROVE CacheInv' /\ Books'
    <2>1. /\ Cache!Get(k) /\ attempts[g] < MaxAttempts /\ attempts' = [attempts EXCEPT ![g] = @ + 1]
          /\ UNCHANGED <<now, trace, answered, restarts, ledgerVars>>
        BY <1>2 DEF Miss, Begin
    <2>2. attempts' \in [Goroutines -> 0 .. MaxAttempts]
        BY <2>1, BoundsAssumption
    <2>3. Books'
        BY <2>1, <2>2, BooksStand
    <2> QED
        BY <2>1, <2>3, GetKeepsCache
<1>3. ASSUME NEW g \in Goroutines, Run(g) PROVE CacheInv' /\ Books'
    BY <1>3, BooksStand, CacheStands DEF Run
<1>4. ASSUME NEW g \in Goroutines, Record(g) PROVE CacheInv' /\ Books'
    <2>1. UNCHANGED <<cacheVars, now>>
        BY <1>4 DEF Record
    <2> QED
        BY <1>4, <2>1, RecordKeepsBooks, CacheStands
<1>5. ASSUME NEW g \in Goroutines, Store(g) PROVE CacheInv' /\ Books'
    <2>1. /\ stage[g] = "store" /\ Cache!Put(asks[g], result[g].run)
          /\ UNCHANGED <<now, attempts, trace, answered, restarts, ledgerVars>>
        BY <1>5 DEF Store
    <2>2. result[g].run \in Client!RunRecord
        BY <2>1, TrueRunIsRecord DEF IInv, Held, ResultIsTrue, StoredAfterReceipt
    <2>3. asks[g] \in Keys
        BY DEF IInv, Types, Client!ContractTypeOK
    <2>4. Books'
        BY <2>1, BooksStand
    <2> QED
        BY <2>1, <2>2, <2>3, <2>4, PutKeepsCache
<1>6. ASSUME NEW c \in Calls, Answer(c) PROVE CacheInv' /\ Books'
    BY <1>6, BooksStand, CacheStands DEF Answer
<1>7. CASE Environment
    BY <1>7, BooksStand, CacheStands DEF Environment
<1>8. CASE Tick
    BY <1>8, BooksStand, TickKeepsCache DEF Tick
<1>9. CASE Restart
    BY <1>9, RestartKeepsBooks, RestartEmptiesCache
<1>10. CASE UNCHANGED vars
    BY <1>10, BooksStand, CacheStands DEF vars, serviceVars
<1> QED
    BY <1>1, <1>2, <1>3, <1>4, <1>5, <1>6, <1>7, <1>8, <1>9, <1>10 DEF Next, Ask

LEMMA AllHolds == Spec => [](IInv /\ CacheInv /\ Books)
BY InitAll, NextAll, NextHolds, PTL DEF Spec

-----------------------------------------------------------------------------
(* CachedRunsAreTrue for any calls, keys and restarts: a hit answers with  *)
(* a run of its own question that Monid completed, at its settled cost.    *)
THEOREM CachedRunsTrue == Spec => []CachedRunsAreTrue
<1>1. IInv => CachedRunsAreTrue
    BY DEF IInv, Cached, TrueRun, CachedRunsAreTrue
<1> QED
    BY IInvHolds, <1>1, PTL

(* CachedRunsAreReceipted for any calls, keys and restarts: a hit, which   *)
(* writes no row, leads back to the row of the call that paid.             *)
THEOREM CachedRunsReceipted == Spec => []CachedRunsAreReceipted
<1>1. IInv => CachedRunsAreReceipted
    BY DEF IInv, Cached, Paid, CachedRunsAreReceipted
<1> QED
    BY IInvHolds, <1>1, PTL

(* TypeOK for any calls, goroutines, keys, capacity and restarts.          *)
THEOREM ServiceTypes == Spec => []TypeOK
<1>1. IInv /\ CacheInv /\ Books => TypeOK
    BY CacheIsTyped DEF IInv, Types, Books, BookTypes, TypeOK
<1> QED
    BY AllHolds, <1>1, PTL

(* MapAndListAgree where the cache is used: several calls' lookups and     *)
(* stores, however they interleave, and restarts keep map and list in step.*)
THEOREM SharedCacheIsConsistent == Spec => []Cache!MapAndListAgree
BY AllHolds, CacheIsTyped, PTL

(* SpentIsWhatWasWritten for any calls and any failures of the ledger's    *)
(* file: spentUSD is the cost of the rows this process wrote.              *)
THEOREM SpentIsWritten == Spec => []SpentIsWhatWasWritten
<1>1. Books => SpentIsWhatWasWritten
    BY DEF Books
<1> QED
    BY AllHolds, <1>1, PTL

(* TraceMatchesLedger for any calls, hits, failures and restarts: a row    *)
(* for each step that is no hit, the same runs, the same cost.             *)
THEOREM TraceAndLedgerAgree == Spec => []TraceMatchesLedger
<1>1. Books => TraceMatchesLedger
    BY StoryIsTheProperty DEF Books
<1> QED
    BY AllHolds, <1>1, PTL
=============================================================================
