-------------------------- MODULE StatementsProofs --------------------------
(* Proofs about the readings of the statements feed: of Statements, for    *)
(* any company, any sources and any requests the assumptions of that       *)
(* module admit; and of the earnings and valuations Answers asks for, for  *)
(* any questions its assumptions admit.                                    *)
EXTENDS Statements, Answers, FiniteSetTheorems, SequenceTheorems, WellFoundedInduction, TLAPS

-----------------------------------------------------------------------------
(* Days.  Periods of different quarters close too far apart for a window   *)
(* of Tolerance days to reach from one to the other.                       *)

LEMMA ProductGrows ==
    ASSUME NEW k \in Nat \ {0}, NEW m \in Nat
    PROVE  k * m \in Nat /\ k * m >= m
<1>1. PICK j \in Nat : k = j + 1
    <2>1. k - 1 \in Nat /\ k = (k - 1) + 1
        OBVIOUS
    <2> QED BY <2>1
<1>2. k * m = j * m + m
    BY <1>1
<1>3. j * m \in Nat
    OBVIOUS
<1> QED BY <1>2, <1>3

LEMMA DaysAreNaturals ==
    ASSUME NEW q \in Quarters
    PROVE  /\ q \in Nat /\ Drift[q] \in Int
           /\ FeedEnd(q) \in Nat /\ Close(q) \in Nat
           /\ Close(q) = FeedEnd(q) + Drift[q]
<1>1. q \in Nat /\ Drift[q] \in Int /\ Close(q) \in Nat
    BY CalendarAssumption, MonthDaysAssumption
<1>2. FirstMonth \in Nat /\ MonthDays \in Nat \ {0}
    BY CalendarAssumption, MonthDaysAssumption
<1>3. FirstMonth + 3 * q + 1 \in Nat \ {0}
    BY <1>1, <1>2
<1>4. (FirstMonth + 3 * q + 1) * MonthDays >= MonthDays
    BY <1>2, <1>3, ProductGrows
<1>5. (FirstMonth + 3 * q + 1) * MonthDays \in Nat
    BY <1>2, <1>3, ProductGrows
<1>6. FeedEnd(q) \in Nat
    BY <1>2, <1>4, <1>5 DEF FeedEnd
<1> QED BY <1>1, <1>6 DEF Close

LEMMA PeriodsAreApart ==
    ASSUME NEW p \in Quarters, NEW q \in Quarters, p > q
    PROVE  FeedEnd(p) - FeedEnd(q) >= 3 * MonthDays
<1>1. p \in Nat /\ q \in Nat /\ FirstMonth \in Nat /\ MonthDays \in Nat
    BY CalendarAssumption, MonthDaysAssumption
<1>2. p - q \in Nat \ {0}
    BY <1>1
<1>3. (p - q) * MonthDays \in Nat /\ (p - q) * MonthDays >= MonthDays
    BY <1>1, <1>2, ProductGrows
<1>4. FeedEnd(p) - FeedEnd(q) = 3 * ((p - q) * MonthDays)
    BY <1>1 DEF FeedEnd
<1> QED BY <1>1, <1>3, <1>4

LEMMA NearIsTheSamePeriod ==
    ASSUME NEW p \in Quarters, NEW q \in Quarters, NEW day \in {FeedEnd(q), Close(q)},
           Distance(Close(p), day) <= Tolerance
    PROVE  p = q
<1> DEFINE e == Distance(0, Drift[p])
           f == Distance(0, Drift[q])
<1>1. /\ p \in Nat /\ Drift[p] \in Int /\ FeedEnd(p) \in Nat
      /\ Close(p) = FeedEnd(p) + Drift[p]
    BY DaysAreNaturals
<1>2. /\ q \in Nat /\ Drift[q] \in Int /\ FeedEnd(q) \in Nat
      /\ Close(q) = FeedEnd(q) + Drift[q]
    BY DaysAreNaturals
<1>3. MonthDays \in Nat /\ Tolerance \in Nat
    BY CalendarAssumption, MonthDaysAssumption
<1>4. e \in Nat /\ f \in Nat /\ -e <= Drift[p] /\ Drift[p] <= e /\ -f <= Drift[q] /\ Drift[q] <= f
    BY <1>1, <1>2 DEF Distance
<1>5. e + f + Tolerance < 3 * MonthDays
    BY SpacingAssumption
<1>6. day \in Int /\ day - FeedEnd(q) <= f /\ FeedEnd(q) - day <= f
    BY <1>2, <1>4
<1>7. Close(p) - day <= Tolerance /\ day - Close(p) <= Tolerance
    BY <1>1, <1>3, <1>6 DEF Distance
<1> HIDE DEF e, f
<1>8. CASE p > q
    <2>1. FeedEnd(p) - FeedEnd(q) >= 3 * MonthDays
        BY <1>8, PeriodsAreApart
    <2> QED BY <2>1, <1>1, <1>2, <1>3, <1>4, <1>5, <1>6, <1>7
<1>9. CASE q > p
    <2>1. FeedEnd(q) - FeedEnd(p) >= 3 * MonthDays
        BY <1>9, PeriodsAreApart
    <2> QED BY <2>1, <1>1, <1>2, <1>3, <1>4, <1>5, <1>6, <1>7
<1> QED BY <1>1, <1>2, <1>8, <1>9

-----------------------------------------------------------------------------
(* The join.                                                               *)

LEMMA FormsArePeriodic ==
    ASSUME NEW rq \in Requests
    PROVE  identityForms(rq.period) \subseteq PeriodicForms
BY RequestsAssumption DEF identityForms, PeriodicForms

(* Whatever lookupFilingIdentity joins to a row of quarter q reports the   *)
(* close of q: all the filings near enough do, so that the nearest exists. *)
LEMMA JoinIsOfItsPeriod ==
    ASSUME NEW index \in Indexes, NEW forms \in SUBSET PeriodicForms,
           NEW q \in Quarters, NEW day \in {FeedEnd(q), Close(q)},
           lookupFilingIdentity(buildFilingIdentityMap(index, forms), day) # NoFiling
    PROVE  LET f == lookupFilingIdentity(buildFilingIdentityMap(index, forms), day)
           IN  f \in buildFilingIdentityMap(index, forms) /\ f.report = Close(q)
<1> DEFINE ids == buildFilingIdentityMap(index, forms)
           near == {f \in ids : Distance(f.report, day) <= Tolerance}
           Nearest(f) == \A g \in near : Distance(f.report, day) <= Distance(g.report, day)
<1>1. \A f \in near : f.report = Close(q)
    <2> SUFFICES ASSUME NEW f \in near PROVE f.report = Close(q)
        OBVIOUS
    <2>1. f \in index /\ f.form \in PeriodicForms
        BY DEF buildFilingIdentityMap
    <2>2. PICK p \in Quarters : f.report = Close(p)
        BY <2>1, SourcesAssumption
    <2>3. p = q
        BY <2>2, NearIsTheSamePeriod
    <2> QED BY <2>2, <2>3
<1>2. near # {}
    BY DEF lookupFilingIdentity
<1>3. PICK some \in near : TRUE
    BY <1>2
<1>4. Distance(Close(q), day) <= Distance(Close(q), day)
    BY DaysAreNaturals DEF Distance
<1>5. some \in near /\ Nearest(some)
    BY <1>1, <1>3, <1>4
<1>6. lookupFilingIdentity(ids, day) = CHOOSE f \in near : Nearest(f)
    BY <1>2 DEF lookupFilingIdentity
<1>7. lookupFilingIdentity(ids, day) \in near
    <2> HIDE DEF near, Nearest
    <2> QED BY <1>5, <1>6
<1> QED BY <1>1, <1>7

LEMMA NothingJoinsNothing == \A day : lookupFilingIdentity({}, day) = NoFiling
BY DEF lookupFilingIdentity

-----------------------------------------------------------------------------
(* The rows and the records made of them.                                  *)

LEMMA FeedRowsCloseTheirMonth ==
    ASSUME NEW f \in Feeds, NEW kind,
           NEW period \in {"annual", "quarterly", "ttm"},
           NEW x \in statementRowsForPeriod(kind, period, f)
    PROVE  \E q \in Quarters : x.end = FeedEnd(q)
<1>1. f.years \subseteq Quarters /\ DOMAIN f.quarters \subseteq Quarters
    BY SourcesAssumption
<1>2. \A y \in FeedQuarters(f) : \E q \in Quarters : y.end = FeedEnd(q)
    BY <1>1 DEF FeedQuarters, Row
<1>3. \A y \in FeedYears(kind, f) : \E q \in Quarters : y.end = FeedEnd(q)
    BY <1>1 DEF FeedYears, Row
<1>4. \A y \in DeriveTTMRows(kind, FeedQuarters(f)) :
          \E q \in Quarters : y.end = FeedEnd(q)
    BY <1>2 DEF DeriveTTMRows, Windows, Row
<1> QED BY <1>2, <1>3, <1>4 DEF statementRowsForPeriod

LEMMA TableRowsCloseTheirQuarter ==
    ASSUME NEW t \in Tables, NEW x \in TableQuarters(t) \cup TableYears(t)
    PROVE  \E q \in Quarters : x.end = Close(q)
<1>1. t.years \subseteq Quarters /\ DOMAIN t.quarters \subseteq Quarters
    BY SourcesAssumption
<1> QED BY <1>1 DEF TableQuarters, TableYears, Row

(* What every record of buildStatementRecords owes to its row.             *)
LEMMA FeedRecords ==
    ASSUME NEW rq \in Requests, NEW f \in Feeds, NEW ids, NEW kind,
           NEW r \in buildStatementRecords(kind, rq, f, ids)
    PROVE  \E x \in statementRowsForPeriod(kind, rq.period, f) :
              /\ IsFiled(ids, rq.filing, x)
              /\ r.end = x.end /\ r.covers = x.covers
              /\ r.filing = lookupFilingIdentity(ids, x.end)
              /\ r.label =
                    IF rq.period = "ttm" THEN NoLabel
                    ELSE fiscalPeriodLabel(x.end, FiscalYearEndMonth(FeedYears(kind, f)),
                                           rq.period = "annual")
              /\ r.period = IF r.filing = NoFiling THEN x.end ELSE r.filing.report
              /\ r = Record(r.period, x, r.label, r.filing)
<1> DEFINE rows == {x \in applyFilingFilters(statementRowsForPeriod(kind, rq.period, f),
                                             ids, rq.filing) : Matches(rq.report, x.end)}
<1>1. Newest(rows, rq.limit) \subseteq rows
    BY DEF Newest
<1>2. \A x \in rows : x \in statementRowsForPeriod(kind, rq.period, f)
                       /\ IsFiled(ids, rq.filing, x)
    BY DEF applyFilingFilters
<1> DEFINE label(x) ==
               IF rq.period = "ttm" THEN NoLabel
               ELSE fiscalPeriodLabel(x.end, FiscalYearEndMonth(FeedYears(kind, f)),
                                      rq.period = "annual")
           joined(x) == lookupFilingIdentity(ids, x.end)
<1>3. PICK x \in Newest(rows, rq.limit) :
          r = Record(IF joined(x) = NoFiling THEN x.end ELSE joined(x).report,
                     x, label(x), joined(x))
    BY DEF buildStatementRecords
<1> HIDE DEF rows
<1>4. r.end = x.end /\ r.covers = x.covers /\ r.filing = joined(x) /\ r.label = label(x)
      /\ r.period = IF joined(x) = NoFiling THEN x.end ELSE joined(x).report
    BY <1>3 DEF Record
<1>5. r = Record(r.period, x, r.label, r.filing)
    <2> HIDE DEF label
    <2> QED BY <1>3, <1>4
<1> QED BY <1>1, <1>2, <1>4, <1>5

(* And of the two functions that read the table.                           *)
LEMMA TableRecords ==
    ASSUME NEW rq, NEW t \in Tables, NEW ids,
           NEW r \in marketbeatCashFlowRecords(rq, t, ids)
    PROVE  \E x \in TableQuarters(t) \cup TableYears(t) :
              /\ IsFiled(ids, rq.filing, x)
              /\ r.end = x.end /\ r.covers = x.covers /\ r.period = x.end
              /\ r.filing = lookupFilingIdentity(ids, x.end)
              /\ r.label = fiscalPeriodLabel(x.end, TableYearEnd(t), rq.period = "annual")
              /\ r = Record(r.period, x, r.label, r.filing)
<1> DEFINE rows == {x \in applyFilingFilters(IF rq.period = "annual" THEN TableYears(t)
                                             ELSE TableQuarters(t), ids, rq.filing) :
                        Matches(rq.report, x.end)}
           label(x) == fiscalPeriodLabel(x.end, TableYearEnd(t), rq.period = "annual")
<1>1. Newest(rows, rq.limit) \subseteq rows
    BY DEF Newest
<1>2. \A x \in rows : x \in TableQuarters(t) \cup TableYears(t)
                       /\ IsFiled(ids, rq.filing, x)
    BY DEF applyFilingFilters
<1>3. PICK x \in Newest(rows, rq.limit) :
          r = Record(x.end, x, label(x), lookupFilingIdentity(ids, x.end))
    BY DEF marketbeatCashFlowRecords
<1> HIDE DEF rows
<1>4. r.end = x.end /\ r.covers = x.covers /\ r.label = label(x) /\ r.period = x.end
      /\ r.filing = lookupFilingIdentity(ids, x.end)
    BY <1>3 DEF Record
<1>5. r = Record(r.period, x, r.label, r.filing)
    <2> HIDE DEF label
    <2> QED BY <1>3, <1>4
<1> QED BY <1>1, <1>2, <1>4, <1>5

LEMMA TrailingTableRecords ==
    ASSUME NEW rq, NEW t \in Tables, NEW r \in marketbeatTTMRecords(rq, t)
    PROVE  \E x \in TableQuarters(t) :
              /\ r.end = x.end /\ r.period = x.end
              /\ r.covers = SumWindow("cash", TableQuarters(t), x)
              /\ r.filing = NoFiling /\ r.label = NoLabel
              /\ r = Record(r.period, Row(r.end, r.covers), r.label, r.filing)
<1> DEFINE kept == {x \in Windows(TableQuarters(t)) : Matches(rq.report, x.end)}
           sum(x) == SumWindow("cash", TableQuarters(t), x)
<1>1. Newest(kept, rq.limit) \subseteq TableQuarters(t)
    BY DEF Newest, Windows
<1>2. PICK x \in Newest(kept, rq.limit) :
          r = Record(x.end, Row(x.end, sum(x)), NoLabel, NoFiling)
    BY DEF marketbeatTTMRecords
<1> HIDE DEF kept, sum
<1>3. r.end = x.end /\ r.period = x.end /\ r.covers = sum(x)
      /\ r.filing = NoFiling /\ r.label = NoLabel
    BY <1>2 DEF Record, Row
<1>4. r = Record(r.period, Row(r.end, r.covers), r.label, r.filing)
    BY <1>2, <1>3
<1> QED BY <1>1, <1>3, <1>4 DEF sum

-----------------------------------------------------------------------------
(* The state.  Sources answer once and before the response is made, which  *)
(* keeps what the response was made of in place.                           *)
SourcesAnswered ==
    /\ request \in Requests
    /\ statements \in Feeds \cup {NotYet, Failed, Drifted}
    /\ filings \in Indexes \cup {NotYet, Failed, Drifted}
    /\ table \in Tables \cup {NotYet, Failed}
    /\ Answered => filings # NotYet

LEMMA SourcesInit == Init => SourcesAnswered
BY DEF Init, SourcesAnswered, Answered

LEMMA SourcesStep == SourcesAnswered /\ [Next]_vars => SourcesAnswered'
<1> SUFFICES ASSUME SourcesAnswered, [Next]_vars PROVE SourcesAnswered'
    OBVIOUS
<1> USE DEF SourcesAnswered
<1>1. CASE ReadStatements
    BY <1>1 DEF ReadStatements, Answered
<1>2. CASE ReadFilings
    BY <1>2 DEF ReadFilings, Answered
<1>3. CASE ReadTable
    BY <1>3 DEF ReadTable, Answered
<1>4. CASE Refuse
    BY <1>4 DEF Refuse, Answered
<1>5. CASE Respond
    BY <1>5 DEF Respond, Fetched, Answered
<1>6. CASE UNCHANGED vars
    BY <1>6 DEF vars, Answered
<1> QED BY <1>1, <1>2, <1>3, <1>4, <1>5, <1>6 DEF Next

(* What Respond serves when it serves anything.                            *)
LEMMA Served ==
    ASSUME SourcesAnswered, Respond, Answered'
    PROVE  /\ response' = [k \in request.kinds |->
                   statementRecords(k, request, statements, table, Identities)]
           /\ request.kinds # {"cash"} => statements \in Feeds
           /\ "cash" \in request.kinds => table \in Tables
           /\ \/ Identities = {}
              \/ /\ filings \in Indexes
                 /\ Identities = buildFilingIdentityMap(filings,
                                     identityForms(request.period))
<1>1. ~(table = Failed \/ RecordsRefused)
    BY DEF Respond, Answered
<1>2. response' = [k \in request.kinds |->
                      statementRecords(k, request, statements, table, Identities)]
    BY <1>1 DEF Respond
<1>3. request.kinds # {"cash"} => statements \in Feeds
    BY <1>1 DEF Respond, Fetched, RecordsRefused, SourcesAnswered
<1>4. "cash" \in request.kinds => table \in Tables
    BY <1>1 DEF Respond, SourcesAnswered
<1>5. filings = Failed \/ filings \in Indexes
    BY DEF Respond, Fetched, SourcesAnswered
<1> QED BY <1>2, <1>3, <1>4, <1>5 DEF Identities

(* A record closes a quarter of the company's and carries what the join    *)
(* yields for that day, or no filing.                                      *)
LEMMA RecordsAreJoined ==
    ASSUME SourcesAnswered, Respond, Answered',
           NEW k \in request.kinds, NEW r \in response'[k]
    PROVE  /\ \E q \in Quarters : r.end \in {FeedEnd(q), Close(q)}
           /\ \/ r.filing = NoFiling
              \/ r.filing = lookupFilingIdentity(Identities, r.end)
           /\ (k # "cash" \/ request.period # "ttm") /\ request.filing # NoFilter =>
                 r.filing # NoFiling /\ r.filing.filed \in request.filing
<1>1. r \in statementRecords(k, request, statements, table, Identities)
    BY Served
<1>2. request \in Requests /\ request.period \in {"annual", "quarterly", "ttm"}
    BY RequestsAssumption DEF SourcesAnswered
<1>3. CASE k # "cash"
    <2>1. statements \in Feeds
        BY <1>3, Served
    <2>2. r \in buildStatementRecords(k, request, statements, Identities)
        BY <1>1, <1>3 DEF statementRecords
    <2>3. PICK x \in statementRowsForPeriod(k, request.period, statements) :
              /\ IsFiled(Identities, request.filing, x)
              /\ r.end = x.end /\ r.filing = lookupFilingIdentity(Identities, x.end)
        <3> HIDE DEF Identities
        <3> QED BY <1>2, <2>1, <2>2, FeedRecords
    <2>4. \E q \in Quarters : x.end = FeedEnd(q)
        BY <1>2, <2>1, FeedRowsCloseTheirMonth
    <2> QED BY <2>3, <2>4 DEF IsFiled
<1>4. CASE k = "cash" /\ request.period # "ttm"
    <2>1. table \in Tables
        BY <1>4, Served
    <2>2. r \in marketbeatCashFlowRecords(request, table, Identities)
        BY <1>1, <1>4 DEF statementRecords
    <2>3. PICK x \in TableQuarters(table) \cup TableYears(table) :
              /\ IsFiled(Identities, request.filing, x)
              /\ r.end = x.end /\ r.filing = lookupFilingIdentity(Identities, x.end)
        <3> HIDE DEF Identities
        <3> QED BY <2>1, <2>2, TableRecords
    <2>4. \E q \in Quarters : x.end = Close(q)
        BY <2>1, TableRowsCloseTheirQuarter
    <2> QED BY <2>3, <2>4 DEF IsFiled
<1>5. CASE k = "cash" /\ request.period = "ttm"
    <2>1. table \in Tables
        BY <1>5, Served
    <2>2. r \in marketbeatTTMRecords(request, table)
        BY <1>1, <1>5 DEF statementRecords
    <2>3. PICK x \in TableQuarters(table) : r.end = x.end /\ r.filing = NoFiling
        BY <2>1, <2>2, TrailingTableRecords
    <2>4. \E q \in Quarters : x.end = Close(q)
        BY <2>1, TableRowsCloseTheirQuarter
    <2> QED BY <1>5, <2>3, <2>4
<1> QED BY <1>3, <1>4, <1>5

(* A response that is already there is no longer touched.                  *)
LEMMA OthersAnswerNothing ==
    ASSUME SourcesAnswered, [Next]_vars, ~Respond, Answered'
    PROVE  Answered /\ response' = response /\ request' = request /\ filings' = filings
<1>1. ~Refuse
    BY DEF Refuse, Answered
<1>2. CASE ReadStatements
    BY <1>2 DEF ReadStatements, Answered
<1>3. CASE ReadFilings
    BY <1>3 DEF ReadFilings, Answered, SourcesAnswered
<1>4. CASE ReadTable
    BY <1>4 DEF ReadTable, Answered
<1>5. CASE UNCHANGED vars
    BY <1>5 DEF vars, Answered
<1> QED BY <1>1, <1>2, <1>3, <1>4, <1>5 DEF Next

-----------------------------------------------------------------------------
(* However its sources date a period, and whatever they lack, no record    *)
(* carries the filing of another period, or one that was superseded.       *)
THEOREM JoinsAreRight == Spec => []FilingsAreOfTheirPeriod
<1>1. Init => FilingsAreOfTheirPeriod
    BY DEF Init, FilingsAreOfTheirPeriod, Answered
<1>2. ASSUME SourcesAnswered, FilingsAreOfTheirPeriod, [Next]_vars
      PROVE  FilingsAreOfTheirPeriod'
    <2>1. CASE Respond
        <3> SUFFICES ASSUME Answered', NEW k \in request.kinds, NEW r \in response'[k],
                            r.filing # NoFiling
                     PROVE  /\ \E q \in Quarters : r.end \in {FeedEnd(q), Close(q)}
                                                   /\ r.filing.report = Close(q)
                            /\ \A g \in filings :
                                  /\ g.form \in identityForms(request.period)
                                  /\ g.report = r.filing.report
                                  => g.filed <= r.filing.filed
            BY <2>1 DEF FilingsAreOfTheirPeriod, Respond
        <3>1. PICK q \in Quarters : r.end \in {FeedEnd(q), Close(q)}
            BY <1>2, <2>1, RecordsAreJoined
        <3>2. r.filing = lookupFilingIdentity(Identities, r.end)
            BY <1>2, <2>1, RecordsAreJoined
        <3>3. Identities # {}
            BY <3>2, NothingJoinsNothing
        <3> DEFINE forms == identityForms(request.period)
        <3>4. filings \in Indexes /\ Identities = buildFilingIdentityMap(filings, forms)
            BY <1>2, <2>1, <3>3, Served
        <3>5. forms \in SUBSET PeriodicForms
            BY <1>2, FormsArePeriodic DEF SourcesAnswered
        <3> HIDE DEF forms
        <3>6. PICK index \in Indexes : index = filings
            BY <3>4
        <3>7. PICK F \in SUBSET PeriodicForms : F = forms
            BY <3>5
        <3>8. lookupFilingIdentity(buildFilingIdentityMap(index, F), r.end) = r.filing
            BY <3>2, <3>4, <3>6, <3>7
        <3>9. r.filing \in buildFilingIdentityMap(index, F) /\ r.filing.report = Close(q)
            BY <3>1, <3>8, JoinIsOfItsPeriod
        <3>10. \A g \in filings : g.form \in forms /\ g.report = r.filing.report
                                    => g.filed <= r.filing.filed
            BY <3>6, <3>7, <3>9 DEF buildFilingIdentityMap
        <3> QED BY <3>1, <3>9, <3>10 DEF forms
    <2>2. CASE ~Respond
        BY <1>2, <2>2, OthersAnswerNothing DEF FilingsAreOfTheirPeriod
    <2> QED BY <2>1, <2>2
<1> QED BY <1>1, <1>2, SourcesInit, SourcesStep, PTL DEF Spec

(* A filing_date filter lets no record through whose filing is not known.  *)
THEOREM FiltersAreHonoured == Spec => []FilteredRecordsAreFiled
<1>1. Init => FilteredRecordsAreFiled
    BY DEF Init, FilteredRecordsAreFiled, Answered
<1>2. ASSUME SourcesAnswered, FilteredRecordsAreFiled, [Next]_vars
      PROVE  FilteredRecordsAreFiled'
    <2>1. CASE Respond
        <3>1. request' = request
            BY <2>1 DEF Respond
        <3> QED BY <1>2, <2>1, <3>1, RecordsAreJoined DEF FilteredRecordsAreFiled
    <2>2. CASE ~Respond
        BY <1>2, <2>2, OthersAnswerNothing DEF FilteredRecordsAreFiled
    <2> QED BY <2>1, <2>2
<1> QED BY <1>1, <1>2, SourcesInit, SourcesStep, PTL DEF Spec

-----------------------------------------------------------------------------
(* Quarters of the calendar and quarters of the company.                   *)

LEMMA LastDayOfMonth ==
    ASSUME NEW a \in Nat \ {0}, NEW m \in Nat \ {0}
    PROVE  (a * m - 1) \div m = a - 1
<1> DEFINE d == (a * m - 1) \div m
           e == (a * m - 1) % m
<1>1. a * m \in Nat /\ a * m - 1 \in Nat
    <2>1. a * m \in Nat /\ a * m >= m
        BY ProductGrows
    <2> QED BY <2>1
<1>2. d \in Int /\ e \in 0 .. m - 1 /\ a * m - 1 = m * d + e
    BY <1>1
<1> HIDE DEF d, e
<1>3. m * (a - d) = e + 1
    BY <1>1, <1>2
<1>4. CASE a - d >= 2
    <2>1. a - d - 1 \in Nat \ {0}
        BY <1>2, <1>4
    <2>2. (a - d - 1) * m >= m
        BY <2>1, ProductGrows
    <2>3. (a - d - 1) * m = m * (a - d) - m
        BY <1>2
    <2> QED BY <1>2, <1>3, <2>2, <2>3
<1>5. CASE d - a >= 0
    <2>1. CASE d = a
        BY <1>2, <1>3, <2>1
    <2>2. CASE d # a
        <3>1. d - a \in Nat \ {0}
            BY <1>2, <1>5, <2>2
        <3>2. (d - a) * m >= m
            BY <3>1, ProductGrows
        <3>3. (d - a) * m = -(m * (a - d))
            BY <1>2
        <3> QED BY <1>2, <1>3, <3>2, <3>3
    <2> QED BY <2>1, <2>2
<1> QED BY <1>2, <1>4, <1>5 DEF d

LEMMA MonthOfFeedEnd ==
    ASSUME NEW q \in Quarters
    PROVE  /\ Month(FeedEnd(q)) = FirstMonth + 3 * q
           /\ FirstMonth + 3 * q \in Nat
<1>1. q \in Nat /\ FirstMonth \in Nat /\ MonthDays \in Nat \ {0}
    BY CalendarAssumption, MonthDaysAssumption
<1>2. FirstMonth + 3 * q + 1 \in Nat \ {0}
    BY <1>1
<1>3. Month(FeedEnd(q)) = (FirstMonth + 3 * q + 1) - 1
    BY <1>1, <1>2, LastDayOfMonth DEF Month, FeedEnd
<1> QED BY <1>1, <1>3

LEMMA OrdinalOfFeedEnd ==
    ASSUME NEW q \in Quarters
    PROVE  quarterOrdinal(FeedEnd(q)) = (FirstMonth \div 3) + q
<1>1. q \in Nat /\ FirstMonth \in Nat
    BY CalendarAssumption, MonthDaysAssumption
<1>2. (FirstMonth + 3 * q) \div 3 = (FirstMonth \div 3) + q
    BY <1>1
<1> QED BY <1>2, MonthOfFeedEnd DEF quarterOrdinal

(* Four rows whose quarters count up by one add up to one year of figures. *)
LEMMA TrailingRowsAreWhole ==
    ASSUME NEW f \in Feeds, NEW kind,
           NEW last \in FeedQuarters(f),
           consecutiveQuarters(FeedQuarters(f), last)
    PROVE  LET covers == SumWindow(kind, FeedQuarters(f), last)
           IN  covers = {} \/ \E q \in Quarters :
                                 last.end = FeedEnd(q) /\ covers = Year(kind, q)
<1> DEFINE rows == FeedQuarters(f)
           W == Window(rows, last)
           base == FirstMonth \div 3
<1>1. DOMAIN f.quarters \subseteq Quarters
    BY SourcesAssumption
<1>2. \A x \in rows : \E q \in Quarters :
          x = Row(FeedEnd(q), Figure(f, q))
    BY <1>1 DEF FeedQuarters
<1>3. PICK q \in Quarters : last = Row(FeedEnd(q), Figure(f, q))
    BY <1>2
<1>4. last.end = FeedEnd(q)
    BY <1>3 DEF Row
<1>5. W \subseteq rows
    BY DEF Window, Newest
<1>6. CASE \E x \in W : x.covers = {}
    BY <1>6 DEF SumWindow
<1>7. CASE ~ \E x \in W : x.covers = {}
    <2>1. last \in W
        <3> DEFINE upto == {x \in rows : x.end <= last.end}
        <3>1. last.end \in Nat /\ last \in upto
            BY <1>4, DaysAreNaturals
        <3>2. \A y \in upto : ~(y.end > last.end)
            <4> SUFFICES ASSUME NEW y \in upto PROVE ~(y.end > last.end)
                OBVIOUS
            <4>1. PICK p \in Quarters : y = Row(FeedEnd(p), Figure(f, p))
                BY <1>2
            <4>2. y.end \in Nat
                BY <4>1, DaysAreNaturals DEF Row
            <4> QED BY <3>1, <4>2
        <3>3. {y \in upto : y.end > last.end} = {}
            BY <3>2
        <3>4. Cardinality({y \in upto : y.end > last.end}) = 0
            BY <3>3, FS_EmptySet
        <3> QED BY <3>1, <3>4 DEF Window, Newest
    <2>2. \A x \in W : \E p \in Quarters :
              /\ x.covers = {p} /\ quarterOrdinal(x.end) = base + p
        <3> SUFFICES ASSUME NEW x \in W
                     PROVE  \E p \in Quarters :
                               x.covers = {p} /\ quarterOrdinal(x.end) = base + p
            OBVIOUS
        <3>1. PICK p \in Quarters : x = Row(FeedEnd(p), Figure(f, p))
            BY <1>2, <1>5
        <3>2. x.covers = Figure(f, p) /\ x.end = FeedEnd(p)
            BY <3>1 DEF Row
        <3>3. x.covers = {p}
            BY <1>7, <3>2 DEF Figure
        <3> QED BY <3>2, <3>3, OrdinalOfFeedEnd
    <2>3. last.covers = {q}
        <3>1. last.covers = Figure(f, q)
            BY <1>3 DEF Row
        <3> QED BY <1>7, <2>1, <3>1 DEF Figure
    <2>4. CASE kind = "balance"
        <3>1. SumWindow(kind, rows, last) = {q}
            BY <1>7, <2>3, <2>4 DEF SumWindow
        <3> QED BY <1>4, <2>4, <3>1 DEF Year
    <2>5. CASE kind # "balance"
        <3>1. SumWindow(kind, rows, last) = UNION {x.covers : x \in W}
            BY <1>7, <2>5 DEF SumWindow
        <3>2. q \in Nat /\ base \in Int /\ quarterOrdinal(last.end) = base + q
            BY <1>4, OrdinalOfFeedEnd, CalendarAssumption, MonthDaysAssumption
        <3>3. {quarterOrdinal(x.end) : x \in W} = ((base + q) - 3) .. (base + q)
            BY <3>2 DEF consecutiveQuarters
        <3> HIDE DEF W, base, rows
        <3>4. \A p : p \in UNION {x.covers : x \in W} => p \in (q - 3) .. q
            <4> SUFFICES ASSUME NEW x \in W, NEW p \in x.covers PROVE p \in (q - 3) .. q
                OBVIOUS
            <4>1. p \in Quarters /\ quarterOrdinal(x.end) = base + p
                BY <2>2
            <4>2. p \in Nat
                BY <4>1, CalendarAssumption, MonthDaysAssumption
            <4>3. base + p \in ((base + q) - 3) .. (base + q)
                BY <3>3, <4>1
            <4> QED BY <3>2, <4>2, <4>3
        <3>5. \A p \in (q - 3) .. q : p \in UNION {x.covers : x \in W}
            <4> SUFFICES ASSUME NEW p \in (q - 3) .. q
                         PROVE  \E x \in W : p \in x.covers
                OBVIOUS
            <4>1. p \in Int /\ base + p \in ((base + q) - 3) .. (base + q)
                BY <3>2
            <4>2. PICK x \in W : quarterOrdinal(x.end) = base + p
                BY <3>3, <4>1
            <4>3. PICK o \in Quarters : x.covers = {o} /\ quarterOrdinal(x.end) = base + o
                BY <2>2
            <4>4. o \in Nat
                BY CalendarAssumption, MonthDaysAssumption
            <4>5. o = p
                BY <3>2, <4>1, <4>2, <4>3, <4>4
            <4> QED BY <4>3, <4>5
        <3>6. SumWindow(kind, rows, last) = (q - 3) .. q
            <4>1. UNION {x.covers : x \in W} = (q - 3) .. q
                BY <3>4, <3>5
            <4> QED BY <3>1, <4>1
        <3> QED BY <1>4, <2>5, <3>6 DEF Year, rows
    <2> QED BY <2>4, <2>5
<1> QED BY <1>6, <1>7

(* A trailing income or balance row never spans a gap of the feed.         *)
THEOREM TrailingYears == Spec => []TrailingYearsAreWhole
<1>1. Init => TrailingYearsAreWhole
    BY DEF Init, TrailingYearsAreWhole, Answered
<1>2. ASSUME SourcesAnswered, TrailingYearsAreWhole, [Next]_vars
      PROVE  TrailingYearsAreWhole'
    <2>1. CASE Respond
        <3> SUFFICES ASSUME Answered', request.period = "ttm",
                            NEW k \in request.kinds \ {"cash"}, NEW r \in response'[k]
                     PROVE  IsWholeYear(k, r)
            BY <2>1 DEF TrailingYearsAreWhole, Respond
        <3>1. PICK f \in Feeds : f = statements
            BY <1>2, <2>1, Served
        <3>2. r \in buildStatementRecords(k, request, f, Identities)
            <4>1. r \in statementRecords(k, request, statements, table, Identities)
                BY <1>2, <2>1, Served
            <4> QED BY <3>1, <4>1 DEF statementRecords
        <3>3. PICK x \in statementRowsForPeriod(k, "ttm", f) :
                  r.end = x.end /\ r.covers = x.covers
            <4> HIDE DEF Identities
            <4>1. request \in Requests
                BY <1>2 DEF SourcesAnswered
            <4> QED BY <3>2, <4>1, FeedRecords
        <3>4. x \in DeriveTTMRows(k, FeedQuarters(f))
            BY <3>3 DEF statementRowsForPeriod
        <3>5. PICK last \in FeedQuarters(f) :
                  /\ consecutiveQuarters(FeedQuarters(f), last)
                  /\ x.end = last.end /\ x.covers = SumWindow(k, FeedQuarters(f), last)
            BY <3>4 DEF DeriveTTMRows, Windows, Row
        <3> QED BY <3>3, <3>5, TrailingRowsAreWhole DEF IsWholeYear
    <2>2. CASE ~Respond
        BY <1>2, <2>2, OthersAnswerNothing DEF TrailingYearsAreWhole
    <2> QED BY <2>1, <2>2
<1> QED BY <1>1, <1>2, SourcesInit, SourcesStep, PTL DEF Spec

-----------------------------------------------------------------------------
(* Labels.                                                                 *)

LEMMA MonthsAreNaturals ==
    ASSUME NEW day \in Nat
    PROVE  Month(day) \in Nat
<1>1. MonthDays \in Nat \ {0}
    BY CalendarAssumption, MonthDaysAssumption
<1>2. day \div MonthDays \in Int /\ day % MonthDays \in 0 .. MonthDays - 1
      /\ day = MonthDays * (day \div MonthDays) + (day % MonthDays)
    BY <1>1
<1> DEFINE d == day \div MonthDays
           e == day % MonthDays
<1> HIDE DEF d, e
<1>3. d \in Int /\ e \in 0 .. MonthDays - 1 /\ day = MonthDays * d + e
    BY <1>2 DEF d, e
<1>4. CASE d < 0
    <2>1. -d \in Nat \ {0}
        BY <1>3, <1>4
    <2>2. (-d) * MonthDays >= MonthDays
        BY <1>1, <2>1, ProductGrows
    <2>3. (-d) * MonthDays = -(MonthDays * d)
        BY <1>1, <1>3
    <2> QED BY <1>1, <1>3, <2>2, <2>3
<1> QED BY <1>3, <1>4 DEF d, Month

(* A quarter's label counts quarters from the fiscal year end.             *)
LEMMA QuarterLabelsCount ==
    ASSUME NEW day \in Nat, NEW yearEnd \in 0 .. 11,
           fiscalPeriodLabel(day, yearEnd, FALSE) # NoLabel
    PROVE  LET l == fiscalPeriodLabel(day, yearEnd, FALSE)
           IN  /\ l \in Int \X (0 .. 4)
               /\ 4 * l[1] + l[2] = quarterOrdinal(day) + 4 - (yearEnd \div 3)
<1> DEFINE m == Month(day)
           year == m \div 12
           month == m % 12
           elapsed == ((month - yearEnd) + 12) % 12
           y == IF month > yearEnd THEN year + 1 ELSE year
           n == IF elapsed = 0 THEN 4 ELSE elapsed \div 3
<1>1. m \in Nat
    BY MonthsAreNaturals
<1>2. elapsed % 3 = 0 /\ fiscalPeriodLabel(day, yearEnd, FALSE) = <<y, n>>
    BY DEF fiscalPeriodLabel
<1> HIDE DEF m
<1>3. m = 12 * year + month /\ year \in Nat /\ month \in 0 .. 11 /\ elapsed \in 0 .. 11
    BY <1>1
<1>4. y \in Int /\ n \in 0 .. 4
    BY <1>3
<1>5. 4 * y + n = (m \div 3) + 4 - (yearEnd \div 3)
    <2> HIDE DEF year, month
    <2>1. m \div 3 = 4 * year + (month \div 3)
        BY <1>3
    <2>2. CASE month > yearEnd
        <3>1. elapsed = month - yearEnd /\ n = (month - yearEnd) \div 3
            BY <1>3, <2>2
        <3>2. (month - yearEnd) % 3 = 0
            BY <1>2, <3>1
        <3>3. (month - yearEnd) \div 3 = (month \div 3) - (yearEnd \div 3)
            BY <1>3, <2>2, <3>2
        <3> QED BY <1>3, <2>1, <2>2, <3>1, <3>3
    <2>3. CASE month = yearEnd
        BY <1>3, <2>1, <2>3
    <2>4. CASE month < yearEnd
        <3>1. elapsed = month - yearEnd + 12 /\ n = (month - yearEnd + 12) \div 3
            BY <1>3, <2>4
        <3>2. (month - yearEnd + 12) % 3 = 0
            BY <1>2, <3>1
        <3>3. (month - yearEnd + 12) \div 3 = (month \div 3) - (yearEnd \div 3) + 4
            BY <1>3, <2>4, <3>2
        <3> QED BY <1>3, <2>1, <2>4, <3>1, <3>3
    <2> QED BY <1>3, <2>2, <2>3, <2>4
<1> HIDE DEF y, n
<1>6. <<y, n>> \in Int \X (0 .. 4) /\ <<y, n>>[1] = y /\ <<y, n>>[2] = n
    BY <1>4
<1>7. quarterOrdinal(day) = m \div 3
    BY DEF quarterOrdinal, m
<1> QED BY <1>2, <1>5, <1>6, <1>7

LEMMA YearEndsAreMonths ==
    ASSUME NEW rows, \A x \in rows : x.end \in Nat
    PROVE  FiscalYearEndMonth(rows) \in (0 .. 11) \cup {NoMonth}
<1> DEFINE months == {Month(x.end) % 12 : x \in rows}
<1>1. \A m \in months : m \in 0 .. 11
    BY MonthsAreNaturals
<1> HIDE DEF months
<1>2. Cardinality(months) = 1 => \E m \in months : TRUE
    BY FS_EmptySet
<1> QED BY <1>1, <1>2 DEF FiscalYearEndMonth, months

(* Years that end with every fourth quarter close in one calendar month.   *)
LEMMA YearLabelsCount ==
    ASSUME NEW p \in Quarters, NEW q \in Quarters, p % 4 = YearEnd, q % 4 = YearEnd
    PROVE  4 * ((Month(FeedEnd(p)) \div 12) - (Month(FeedEnd(q)) \div 12))
               = quarterOrdinal(FeedEnd(p)) - quarterOrdinal(FeedEnd(q))
<1>1. p \in Nat /\ q \in Nat /\ FirstMonth \in Nat /\ YearEnd \in 0 .. 3
    BY CalendarAssumption, MonthDaysAssumption
<1>2. PICK i \in Nat : p = 4 * i + YearEnd
    <2>1. p \div 4 \in Nat /\ p = 4 * (p \div 4) + YearEnd
        BY <1>1
    <2> QED BY <2>1
<1>3. PICK j \in Nat : q = 4 * j + YearEnd
    <2>1. q \div 4 \in Nat /\ q = 4 * (q \div 4) + YearEnd
        BY <1>1
    <2> QED BY <2>1
<1> DEFINE c == FirstMonth + 3 * YearEnd
<1>4. c \in Nat /\ FirstMonth + 3 * p = 12 * i + c /\ FirstMonth + 3 * q = 12 * j + c
    BY <1>1, <1>2, <1>3
<1> HIDE DEF c
<1>5. (12 * i + c) \div 12 = i + (c \div 12) /\ (12 * j + c) \div 12 = j + (c \div 12)
    BY <1>4
<1>6. /\ Month(FeedEnd(p)) \div 12 = i + (c \div 12)
      /\ Month(FeedEnd(q)) \div 12 = j + (c \div 12)
    BY <1>4, <1>5, MonthOfFeedEnd
<1>7. quarterOrdinal(FeedEnd(p)) - quarterOrdinal(FeedEnd(q)) = 4 * (i - j)
    BY <1>1, <1>2, <1>3, OrdinalOfFeedEnd
<1> QED BY <1>4, <1>6, <1>7

(* Two records as far apart as their labels say.                           *)
LEMMA LabelsOfFeedCount ==
    ASSUME NEW rq \in Requests, rq.period # "ttm", NEW f \in Feeds, NEW ids, NEW kind,
           NEW r \in buildStatementRecords(kind, rq, f, ids),
           NEW s \in buildStatementRecords(kind, rq, f, ids),
           r.label # NoLabel, s.label # NoLabel
    PROVE  4 * (r.label[1] - s.label[1]) + (r.label[2] - s.label[2])
               = quarterOrdinal(r.end) - quarterOrdinal(s.end)
<1> DEFINE yearEnd == FiscalYearEndMonth(FeedYears(kind, f))
           annual == rq.period = "annual"
           rows == statementRowsForPeriod(kind, rq.period, f)
<1>1. rq.period \in {"annual", "quarterly", "ttm"}
    BY RequestsAssumption
<1>2. f.years \subseteq {q \in Quarters : q % 4 = YearEnd}
    BY SourcesAssumption
<1>3. PICK x \in rows : r.end = x.end /\ r.label = fiscalPeriodLabel(x.end, yearEnd, annual)
    BY FeedRecords
<1>4. PICK y \in rows : s.end = y.end /\ s.label = fiscalPeriodLabel(y.end, yearEnd, annual)
    BY FeedRecords
<1>5. CASE rq.period = "annual"
    <2>1. PICK p \in Quarters : p % 4 = YearEnd /\ x.end = FeedEnd(p)
        BY <1>2, <1>5 DEF statementRowsForPeriod, FeedYears, Row
    <2>2. PICK q \in Quarters : q % 4 = YearEnd /\ y.end = FeedEnd(q)
        BY <1>2, <1>5 DEF statementRowsForPeriod, FeedYears, Row
    <2>3. r.label = <<Month(r.end) \div 12, 0>> /\ s.label = <<Month(s.end) \div 12, 0>>
        BY <1>3, <1>4, <1>5 DEF fiscalPeriodLabel
    <2>4. /\ r.label[1] = Month(FeedEnd(p)) \div 12 /\ r.label[2] = 0
          /\ s.label[1] = Month(FeedEnd(q)) \div 12 /\ s.label[2] = 0
        BY <1>3, <1>4, <2>1, <2>2, <2>3
    <2>5. 4 * (r.label[1] - s.label[1])
              = quarterOrdinal(r.end) - quarterOrdinal(s.end)
        BY <1>3, <1>4, <2>1, <2>2, <2>4, YearLabelsCount
    <2>6. /\ FirstMonth \in Nat
          /\ Month(FeedEnd(p)) \div 12 \in Int /\ Month(FeedEnd(q)) \div 12 \in Int
        BY MonthOfFeedEnd, CalendarAssumption, MonthDaysAssumption
    <2> QED BY <2>4, <2>5, <2>6
<1>6. CASE rq.period = "quarterly"
    <2>1. x.end \in Nat /\ y.end \in Nat
        BY <1>1, FeedRowsCloseTheirMonth, DaysAreNaturals
    <2>2. yearEnd \in (0 .. 11) \cup {NoMonth}
        <3>1. \A z \in FeedYears(kind, f) : z.end \in Nat
            BY <1>2, DaysAreNaturals DEF FeedYears, Row
        <3> QED BY <3>1, YearEndsAreMonths
    <2>3. yearEnd # NoMonth
        BY <1>3, <1>6 DEF fiscalPeriodLabel
    <2> HIDE DEF yearEnd
    <2>4. PICK e \in 0 .. 11 : e = yearEnd
        BY <2>2, <2>3
    <2>5. /\ r.label = fiscalPeriodLabel(x.end, e, FALSE)
          /\ s.label = fiscalPeriodLabel(y.end, e, FALSE)
        BY <1>3, <1>4, <1>6, <2>4
    <2>6. /\ r.label \in Int \X (0 .. 4)
          /\ 4 * r.label[1] + r.label[2] = quarterOrdinal(r.end) + 4 - (e \div 3)
        BY <1>3, <2>1, <2>5, QuarterLabelsCount
    <2>7. /\ s.label \in Int \X (0 .. 4)
          /\ 4 * s.label[1] + s.label[2] = quarterOrdinal(s.end) + 4 - (e \div 3)
        BY <1>4, <2>1, <2>5, QuarterLabelsCount
    <2>8. quarterOrdinal(r.end) \in Int /\ quarterOrdinal(s.end) \in Int
        BY <1>3, <1>4, <2>1, MonthsAreNaturals DEF quarterOrdinal
    <2>9. PICK a \in Int, b \in Int : r.label[1] = a /\ r.label[2] = b
        BY <2>6
    <2>10. PICK c \in Int, d \in Int : s.label[1] = c /\ s.label[2] = d
        BY <2>7
    <2>11. PICK u \in Int, v \in Int : quarterOrdinal(r.end) = u /\ quarterOrdinal(s.end) = v
        BY <2>8
    <2>12. PICK o \in Int : o = e \div 3
        OBVIOUS
    <2>13. 4 * a + b = u + 4 - o /\ 4 * c + d = v + 4 - o
        BY <2>6, <2>7, <2>9, <2>10, <2>11, <2>12
    <2>14. 4 * (a - c) + (b - d) = u - v
        BY <2>13
    <2> QED BY <2>9, <2>10, <2>11, <2>14
<1> QED BY <1>1, <1>5, <1>6

(* Labels count quarters and years as the periods do.                      *)
THEOREM LabelsCount == Spec => []LabelsCountQuarters
<1>1. Init => LabelsCountQuarters
    BY DEF Init, LabelsCountQuarters, Answered
<1>2. ASSUME SourcesAnswered, LabelsCountQuarters, [Next]_vars
      PROVE  LabelsCountQuarters'
    <2>1. CASE Respond
        <3> SUFFICES ASSUME Answered', request.period # "ttm",
                            NEW k \in request.kinds \ {"cash"},
                            NEW r \in response'[k], NEW s \in response'[k],
                            r.label # NoLabel, s.label # NoLabel
                     PROVE  4 * (r.label[1] - s.label[1]) + (r.label[2] - s.label[2])
                                = quarterOrdinal(r.end) - quarterOrdinal(s.end)
            BY <2>1 DEF LabelsCountQuarters, Respond
        <3>1. PICK f \in Feeds : f = statements
            BY <1>2, <2>1, Served
        <3>2. PICK rq \in Requests : rq = request
            BY <1>2 DEF SourcesAnswered
        <3>3. response'[k] = statementRecords(k, request, statements, table, Identities)
            BY <1>2, <2>1, Served
        <3> HIDE DEF Identities
        <3>4. response'[k] = buildStatementRecords(k, rq, f, Identities)
            BY <3>1, <3>2, <3>3 DEF statementRecords
        <3> QED BY <3>2, <3>4, LabelsOfFeedCount
    <2>2. CASE ~Respond
        BY <1>2, <2>2, OthersAnswerNothing DEF LabelsCountQuarters
    <2> QED BY <2>1, <2>2
<1> QED BY <1>1, <1>2, SourcesInit, SourcesStep, PTL DEF Spec

-----------------------------------------------------------------------------
(* Types.                                                                  *)

LEMMA LabelTypes ==
    ASSUME NEW day \in Nat, NEW yearEnd \in (0 .. 11) \cup {NoMonth}, NEW annual \in BOOLEAN
    PROVE  fiscalPeriodLabel(day, yearEnd, annual) \in (Int \X (0 .. 4)) \cup {NoLabel}
<1>1. CASE annual
    <2>1. Month(day) \div 12 \in Int
        BY MonthsAreNaturals
    <2> QED BY <1>1, <2>1 DEF fiscalPeriodLabel
<1>2. CASE ~annual /\ yearEnd = NoMonth
    BY <1>2 DEF fiscalPeriodLabel
<1>3. CASE ~annual /\ yearEnd # NoMonth
    <2>1. annual = FALSE /\ yearEnd \in 0 .. 11
        BY <1>3
    <2> QED BY <2>1, QuarterLabelsCount
<1> QED BY <1>1, <1>2, <1>3

LEMMA RowTypes ==
    ASSUME NEW f \in Feeds \cup Tables, NEW kind
    PROVE  /\ \A x \in FeedQuarters(f) \cup FeedYears(kind, f)
                        \cup TableQuarters(f) \cup TableYears(f) :
                 x.end \in Nat /\ x.covers \subseteq Int
<1>1. f.years \subseteq Quarters /\ DOMAIN f.quarters \subseteq Quarters
    BY SourcesAssumption
<1>2. \A q \in Quarters : /\ FeedEnd(q) \in Nat /\ Close(q) \in Nat
                          /\ Figure(f, q) \subseteq Int
                          /\ Year(kind, q) \subseteq Int /\ Year("cash", q) \subseteq Int
    <2> SUFFICES ASSUME NEW q \in Quarters
                 PROVE  /\ FeedEnd(q) \in Nat /\ Close(q) \in Nat
                        /\ Figure(f, q) \subseteq Int
                        /\ Year(kind, q) \subseteq Int /\ Year("cash", q) \subseteq Int
        OBVIOUS
    <2>1. q \in Nat /\ FeedEnd(q) \in Nat /\ Close(q) \in Nat
        BY DaysAreNaturals
    <2>2. {q} \subseteq Int /\ (q - 3) .. q \subseteq Int
        BY <2>1
    <2> QED BY <2>1, <2>2 DEF Figure, Year
<1> QED BY <1>1, <1>2 DEF FeedQuarters, FeedYears, TableQuarters, TableYears, Row

LEMMA SumTypes ==
    ASSUME NEW rows, \A x \in rows : x.covers \subseteq Int, NEW kind, NEW last \in rows
    PROVE  SumWindow(kind, rows, last) \subseteq Int
<1>1. Window(rows, last) \subseteq rows
    BY DEF Window, Newest
<1>2. UNION {x.covers : x \in Window(rows, last)} \subseteq Int
    BY <1>1
<1> QED BY <1>2 DEF SumWindow

LEMMA StatementRowTypes ==
    ASSUME NEW f \in Feeds, NEW kind, NEW period \in {"annual", "quarterly", "ttm"},
           NEW x \in statementRowsForPeriod(kind, period, f)
    PROVE  x.end \in Nat /\ x.covers \subseteq Int
<1>1. \A y \in FeedQuarters(f) \cup FeedYears(kind, f) :
          y.end \in Nat /\ y.covers \subseteq Int
    BY RowTypes
<1>2. \A y \in DeriveTTMRows(kind, FeedQuarters(f)) :
          y.end \in Nat /\ y.covers \subseteq Int
    <2> SUFFICES ASSUME NEW last \in FeedQuarters(f)
                 PROVE  last.end \in Nat /\ SumWindow(kind, FeedQuarters(f), last) \subseteq Int
        BY DEF DeriveTTMRows, Windows, Row
    <2> QED BY <1>1, SumTypes
<1> QED BY <1>1, <1>2 DEF statementRowsForPeriod

LEMMA TableYearEndTypes ==
    ASSUME NEW t \in Tables
    PROVE  TableYearEnd(t) \in (0 .. 11) \cup {NoMonth}
<1> DEFINE newest == Newest(TableYears(t), 1)
           x == CHOOSE y \in newest : TRUE
<1>1. \A y \in newest : y.end \in Nat
    BY RowTypes DEF Newest
<1>2. CASE newest # {}
    <2>1. x \in newest
        BY <1>2
    <2>2. x.end \in Nat
        BY <1>1, <2>1
    <2> HIDE DEF x
    <2>3. Month(x.end) % 12 \in 0 .. 11
        BY <2>2, MonthsAreNaturals
    <2>4. TableYearEnd(t) = Month(x.end) % 12
        BY <1>2 DEF TableYearEnd, x
    <2> QED BY <2>3, <2>4
<1>3. CASE newest = {}
    BY <1>3 DEF TableYearEnd
<1> QED BY <1>2, <1>3

LEMMA IdentityTypes ==
    ASSUME SourcesAnswered, Respond, Answered',
           NEW q \in Quarters, NEW day \in {FeedEnd(q), Close(q)}
    PROVE  lookupFilingIdentity(Identities, day) \in Filing \cup {NoFiling}
<1>1. CASE Identities = {}
    BY <1>1, NothingJoinsNothing
<1>2. CASE Identities # {}
    <2>1. PICK index \in Indexes : index = filings
        BY <1>2, Served
    <2>2. PICK forms \in SUBSET PeriodicForms : forms = identityForms(request.period)
        BY FormsArePeriodic DEF SourcesAnswered
    <2>3. Identities = buildFilingIdentityMap(index, forms)
        BY <1>2, <2>1, <2>2, Served
    <2>4. buildFilingIdentityMap(index, forms) \subseteq Filing
        BY SourcesAssumption DEF buildFilingIdentityMap
    <2>5. \/ lookupFilingIdentity(buildFilingIdentityMap(index, forms), day) = NoFiling
          \/ lookupFilingIdentity(buildFilingIdentityMap(index, forms), day)
                \in buildFilingIdentityMap(index, forms)
        BY JoinIsOfItsPeriod
    <2> QED BY <2>3, <2>4, <2>5
<1> QED BY <1>1, <1>2

LEMMA RecordTypes ==
    ASSUME SourcesAnswered, Respond, Answered',
           NEW k \in request.kinds, NEW r \in response'[k]
    PROVE  /\ r.period \in Nat /\ r.end \in Nat /\ r.covers \subseteq Int
           /\ r.label \in (Int \X (0 .. 4)) \cup {NoLabel}
           /\ r.filing \in Filing \cup {NoFiling}
           /\ \E x : r = Record(r.period, x, r.label, r.filing)
<1>1. r \in statementRecords(k, request, statements, table, Identities)
    BY Served
<1>2. PICK rq \in Requests : rq = request
    BY DEF SourcesAnswered
<1>3. rq.period \in {"annual", "quarterly", "ttm"} /\ (rq.period = "annual") \in BOOLEAN
    BY RequestsAssumption
<1>4. r.end \in Nat /\ r.filing \in Filing \cup {NoFiling}
    <2>1. PICK q \in Quarters : r.end \in {FeedEnd(q), Close(q)}
        BY RecordsAreJoined
    <2>2. lookupFilingIdentity(Identities, r.end) \in Filing \cup {NoFiling}
        BY <2>1, IdentityTypes
    <2>3. r.filing \in {NoFiling, lookupFilingIdentity(Identities, r.end)}
        BY RecordsAreJoined
    <2> HIDE DEF Identities
    <2> QED BY <2>1, <2>2, <2>3, DaysAreNaturals
<1> HIDE DEF Identities
<1>5. CASE k # "cash"
    <2>1. PICK f \in Feeds : f = statements
        BY <1>5, Served
    <2>2. r \in buildStatementRecords(k, rq, f, Identities)
        BY <1>1, <1>2, <1>5, <2>1 DEF statementRecords
    <2> DEFINE yearEnd == FiscalYearEndMonth(FeedYears(k, f))
    <2>3. PICK x \in statementRowsForPeriod(k, rq.period, f) :
              /\ r.end = x.end /\ r.covers = x.covers
              /\ r.label = IF rq.period = "ttm" THEN NoLabel
                           ELSE fiscalPeriodLabel(x.end, yearEnd, rq.period = "annual")
              /\ r.period = IF r.filing = NoFiling THEN x.end ELSE r.filing.report
              /\ r = Record(r.period, x, r.label, r.filing)
        BY <2>2, FeedRecords
    <2>4. yearEnd \in (0 .. 11) \cup {NoMonth}
        BY RowTypes, YearEndsAreMonths
    <2>5. x.end \in Nat /\ x.covers \subseteq Int
        BY <1>3, StatementRowTypes
    <2> HIDE DEF yearEnd
    <2>6. r.label \in (Int \X (0 .. 4)) \cup {NoLabel}
        <3>1. fiscalPeriodLabel(x.end, yearEnd, rq.period = "annual")
                  \in (Int \X (0 .. 4)) \cup {NoLabel}
            BY <1>3, <2>4, <2>5, LabelTypes
        <3> QED BY <2>3, <3>1
    <2>7. r.period \in Nat
        BY <1>4, <2>3, <2>5 DEF Filing
    <2> QED BY <1>4, <2>3, <2>5, <2>6, <2>7
<1>6. CASE k = "cash" /\ rq.period # "ttm"
    <2>1. PICK t \in Tables : t = table
        BY <1>6, Served
    <2>2. r \in marketbeatCashFlowRecords(rq, t, Identities)
        BY <1>1, <1>2, <1>6, <2>1 DEF statementRecords
    <2>3. PICK x \in TableQuarters(t) \cup TableYears(t) :
              /\ r.end = x.end /\ r.covers = x.covers /\ r.period = x.end
              /\ r.label = fiscalPeriodLabel(x.end, TableYearEnd(t), rq.period = "annual")
              /\ r = Record(r.period, x, r.label, r.filing)
        BY <2>2, TableRecords
    <2>4. x.end \in Nat /\ x.covers \subseteq Int
        BY RowTypes
    <2>5. r.label \in (Int \X (0 .. 4)) \cup {NoLabel}
        BY <1>3, <2>3, <2>4, LabelTypes, TableYearEndTypes
    <2> QED BY <1>4, <2>3, <2>4, <2>5
<1>7. CASE k = "cash" /\ rq.period = "ttm"
    <2>1. PICK t \in Tables : t = table
        BY <1>7, Served
    <2>2. r \in marketbeatTTMRecords(rq, t)
        BY <1>1, <1>2, <1>7, <2>1 DEF statementRecords
    <2>3. PICK x \in TableQuarters(t) :
              /\ r.end = x.end /\ r.period = x.end /\ r.label = NoLabel
              /\ r.covers = SumWindow("cash", TableQuarters(t), x)
              /\ r = Record(r.period, Row(r.end, r.covers), r.label, r.filing)
        BY <2>2, TrailingTableRecords
    <2>4. \A y \in TableQuarters(t) : y.end \in Nat /\ y.covers \subseteq Int
        BY RowTypes
    <2>5. SumWindow("cash", TableQuarters(t), x) \subseteq Int
        BY <2>4, SumTypes
    <2> QED BY <1>4, <2>3, <2>4, <2>5
<1> QED BY <1>5, <1>6, <1>7

(* Every answer of the sources, and every record served, has its type.     *)
THEOREM StatementTypes == Spec => []TypeOK
<1>1. Init => TypeOK
    BY DEF Init, TypeOK, Answered
<1>2. ASSUME SourcesAnswered, TypeOK, [Next]_vars
      PROVE  TypeOK'
    <2>1. SourcesAnswered'
        BY <1>2, SourcesStep
    <2>2. CASE Respond
        <3>1. request' = request
            BY <2>2 DEF Respond
        <3>2. Answered' => DOMAIN response' = request.kinds
            BY <1>2, <2>2, Served
        <3>3. Answered' => \A k \in request.kinds : \A r \in response'[k] : r \in Records
            BY <1>2, <2>2, RecordTypes DEF Record, Records, Days
        <3> QED BY <2>1, <3>1, <3>2, <3>3 DEF TypeOK, SourcesAnswered
    <2>3. CASE ~Respond
        BY <1>2, <2>1, <2>3, OthersAnswerNothing DEF TypeOK, SourcesAnswered
    <2> QED BY <2>2, <2>3
<1> QED BY <1>1, <1>2, SourcesInit, SourcesStep, PTL DEF Spec
-----------------------------------------------------------------------------
(* The other readings of the feed: earnings and valuations, as Answers     *)
(* asks for them, of any feeds, filings and closes.                        *)

(* A set of numbers has a least one.                                       *)
LEMMA LeastOf ==
    ASSUME NEW S, S \subseteq Nat, S # {}
    PROVE  \E m \in S : \A n \in S : ~(n < m)
<1> DEFINE R == OpToRel(<, Nat)
<1>1. IsWellFoundedOn(R, Nat)
    BY NatLessThanWellFounded
<1>2. \A x, y \in Nat : x < y => <<x, y>> \in R
    BY DEF OpToRel
<1> HIDE DEF R
<1>3. \E x \in S : \A y \in S : ~(<<y, x>> \in R)
    BY <1>1, WFMin
<1> QED
    BY <1>2, <1>3

(* Induction over the numbers, for a set: what holds is put into S.        *)
LEMMA Induct ==
    ASSUME NEW S, 0 \in S, \A n \in Nat : n \in S => n + 1 \in S
    PROVE  Nat \subseteq S
<1> SUFFICES ASSUME Nat \ S # {} PROVE FALSE
    OBVIOUS
<1>1. PICK m \in Nat \ S : \A n \in Nat \ S : ~(n < m)
    BY LeastOf
<1>2. m # 0 /\ m - 1 \in Nat /\ m - 1 < m /\ (m - 1) + 1 = m
    BY <1>1
<1> QED
    BY <1>1, <1>2

(* Some element of a finite set is the last: the one with the fewest after *)
(* it.                                                                     *)
LEMMA LastOf ==
    ASSUME NEW S, IsFiniteSet(S), S \subseteq Int, S # {}
    PROVE  \E x \in S : \A y \in S : x >= y
<1> DEFINE Above(x) == {y \in S : y > x}
           count == [x \in S |-> Cardinality(Above(x))]
<1>1. \A x \in S : x \in Int /\ IsFiniteSet(Above(x)) /\ count[x] \in Nat
    BY FS_Subset, FS_CardinalityType
<1>2. ASSUME NEW x \in S, NEW y \in S, y > x PROVE count[y] < count[x]
    <2>1. /\ Above(x) \subseteq S /\ \A z \in S : z \in Above(x) <=> z > x
          /\ Above(y) \subseteq S /\ \A z \in S : z \in Above(y) <=> z > y
        OBVIOUS
    <2>2. PICK A, B : A = Above(x) /\ B = Above(y)
        OBVIOUS
    <2>3. /\ A \subseteq S /\ \A z \in S : z \in A <=> z > x
          /\ B \subseteq S /\ \A z \in S : z \in B <=> z > y
        BY <2>1, <2>2
    <2> HIDE DEF Above
    <2>4. B \subseteq A
        BY <1>1, <1>2, <2>3
    <2>5. y \in A /\ y \notin B
        BY <1>1, <1>2, <2>3
    <2>6. count[x] = Cardinality(A) /\ count[y] = Cardinality(B) /\ IsFiniteSet(A)
        BY <1>1, <2>2
    <2>7. Cardinality(B) <= Cardinality(A) /\ Cardinality(B) # Cardinality(A)
        BY <2>4, <2>5, <2>6, FS_Subset
    <2> QED
        BY <1>1, <2>6, <2>7
<1> HIDE DEF count
<1>3. PICK x \in S : \A y \in S : ~(count[y] < count[x])
    <2> DEFINE Counts == {count[x] : x \in S}
    <2>1. Counts \subseteq Nat /\ Counts # {}
        BY <1>1
    <2>2. PICK n \in Counts : \A m \in Counts : ~(m < n)
        BY <2>1, LeastOf
    <2> QED
        BY <2>2
<1> QED
    BY <1>1, <1>2, <1>3

LEMMA LatestClose ==
    ASSUME NEW S, IsFiniteSet(S), S \subseteq Int, S # {}
    PROVE  Max(S) \in S /\ \A y \in S : Max(S) >= y
BY LastOf DEF Max

-----------------------------------------------------------------------------
(* Valuations.  Where a statement has one row of a day, that row is what   *)
(* the statement is read for on that day.                                  *)
LEMMA LastRow ==
    ASSUME NEW rows, \A r \in rows : r.day \in Int,
           NEW row \in rows, \A r \in rows : r.day = row.day => r = row
    PROVE  PeriodValues(rows, row.day) = {row}
<1> DEFINE past == {r \in rows : r.day <= row.day}
<1>1. row \in past /\ \A r \in past : r.day \in Int /\ r.day <= row.day
    OBVIOUS
<1>2. ASSUME NEW r \in past, \A s \in past : s.day <= r.day PROVE r = row
    <2>1. row.day <= r.day
        BY <1>1, <1>2
    <2> QED
        BY <1>1, <2>1
<1> HIDE DEF past
<1>3. {r \in past : \A s \in past : s.day <= r.day} = {row}
    BY <1>1, <1>2
<1> QED
    BY <1>3 DEF PeriodValues, past

OneEachQuarter(days) ==
    \A d, e \in days : quarterOrdinal(d) = quarterOrdinal(e) => d = e

(* A trailing year all three statements have is each one's trailing year.  *)
LEMMA YearsAreShared ==
    ASSUME NEW days, NEW feed, days \subseteq feed, feed \subseteq Int,
           OneEachQuarter(feed), NEW d \in Complete(days)
    PROVE  d \in Complete(feed) /\ WindowTo(feed, d) = WindowTo(days, d)
<1>1. d \in days /\ Cardinality(WindowTo(days, d)) = 4
    BY DEF Complete
<1>2. PICK W : W = WindowTo(feed, d)
    OBVIOUS
<1>3. PICK V : V = WindowTo(days, d)
    OBVIOUS
<1>4. PICK o \in Int : o = quarterOrdinal(d)
    <2>1. d \div MonthDays \in Int
        BY <1>1, MonthDaysAssumption
    <2>2. (d \div MonthDays) \div 3 \in Int
        BY <2>1
    <2> QED
        BY <2>2 DEF quarterOrdinal, Month
<1>5. V \in SUBSET W /\ W \subseteq feed /\ \A x \in W : quarterOrdinal(x) \in (o - 3) .. o
    BY <1>2, <1>3, <1>4 DEF WindowTo
<1>6. IsFiniteSet(W) /\ Cardinality(W) <= 4
    <2> DEFINE f == [x \in W |-> quarterOrdinal(x)]
    <2>1. f \in Injection(W, (o - 3) .. o)
        BY <1>5 DEF Injection, IsInjective, OneEachQuarter
    <2>2. IsFiniteSet((o - 3) .. o) /\ Cardinality((o - 3) .. o) = 4
        BY FS_Interval
    <2> QED
        BY <2>1, <2>2, FS_Injection
<1>7. V = W
    <2>1. Cardinality(V) <= Cardinality(W) /\ (Cardinality(V) = Cardinality(W) => V = W)
        BY <1>5, <1>6, FS_Subset
    <2>2. Cardinality(W) \in Nat /\ Cardinality(V) = 4
        BY <1>1, <1>3, <1>6, FS_CardinalityType
    <2> QED
        BY <1>6, <2>1, <2>2
<1> QED
    BY <1>1, <1>2, <1>3, <1>7 DEF Complete

(* Each row is valued with the figures of its own period.                  *)
LEMMA ValuedInTheirPeriod ==
    ASSUME NEW q \in Valuations,
           NEW row \in MetricRows(q.quarterly, q.annual, q.period),
           NEW kind \in Kinds
    PROVE  PeriodValues(StatementRows(q.quarterly[kind], q.annual[kind],
                                                      kind, q.period), row.day)
           = {[day |-> row.day, covers |-> IF kind = "balance" THEN {row.day} ELSE row.covers]}
<1>1. PICK days : days = q.quarterly[kind]
    OBVIOUS
<1>2. PICK years : years = q.annual[kind]
    OBVIOUS
<1>3. days \subseteq Int /\ years \subseteq Int
    BY <1>1, <1>2, FeedsAssumption DEF FeedsHaveQuarters
<1>4. OneEachQuarter(days)
    BY <1>1, FeedsAssumption DEF FeedsHaveQuarters, OneEachQuarter
<1>5. JoinedByDate(q.quarterly) \subseteq days /\ JoinedByDate(q.annual) \subseteq years
    BY <1>1, <1>2 DEF JoinedByDate, Kinds
<1> DEFINE own == [day |-> row.day, covers |-> IF kind = "balance" THEN {row.day} ELSE row.covers]
<1>6. CASE q.period = "annual"
    <2>1. row.day \in years /\ row.covers = {row.day}
        BY <1>5, <1>6 DEF MetricRows, AnnualMetricRows, BaseMetricRow
    <2>2. PICK rows : rows = {[day |-> x, covers |-> {x}] : x \in years}
        OBVIOUS
    <2>3. PeriodValues(rows, own.day) = {own}
        <3>1. own \in rows /\ own.day = row.day
            BY <2>1, <2>2
        <3>2. \A r \in rows : r.day \in Int /\ (r.day = own.day => r = own)
            BY <1>3, <2>1, <2>2
        <3> QED
            BY <3>1, <3>2, LastRow
    <2>4. StatementRows(days, years, kind, "annual") = rows
        BY <2>2 DEF StatementRows
    <2> QED
        BY <1>1, <1>2, <1>6, <2>3, <2>4
<1>7. CASE q.period = "quarterly"
    <2>1. row.day \in days /\ row.covers = {row.day}
        BY <1>5, <1>7 DEF MetricRows, QuarterlyMetricRows, BaseMetricRow
    <2>2. PICK rows : rows = {[day |-> x, covers |-> {x}] : x \in days}
        OBVIOUS
    <2>3. PeriodValues(rows, own.day) = {own}
        <3>1. own \in rows /\ own.day = row.day
            BY <2>1, <2>2
        <3>2. \A r \in rows : r.day \in Int /\ (r.day = own.day => r = own)
            BY <1>3, <2>1, <2>2
        <3> QED
            BY <3>1, <3>2, LastRow
    <2>4. StatementRows(days, years, kind, "quarterly") = rows
        BY <2>2 DEF StatementRows
    <2> QED
        BY <1>1, <1>2, <1>7, <2>3, <2>4
<1>8. CASE q.period = "ttm"
    <2>1. PICK joined : joined = JoinedByDate(q.quarterly)
        OBVIOUS
    <2>2. row.day \in Complete(joined) /\ row.covers = WindowTo(joined, row.day)
        BY <1>8, <2>1 DEF MetricRows, TTMMetricRows
    <2>3. PICK d \in Complete(joined) : d = row.day
        BY <2>2
    <2>4. d \in Complete(days) /\ WindowTo(days, d) = WindowTo(joined, d)
        BY <1>3, <1>4, <1>5, <2>1, YearsAreShared
    <2>5. PICK rows : rows = {[day |-> x, covers |-> IF kind = "balance" THEN {x}
                                  ELSE WindowTo(days, x)] : x \in Complete(days)}
        OBVIOUS
    <2>6. PeriodValues(rows, own.day) = {own}
        <3>1. own \in rows /\ own.day = d
            BY <2>2, <2>3, <2>4, <2>5
        <3>2. Complete(days) \subseteq Int
            BY <1>3 DEF Complete
        <3>3. \A r \in rows : r.day \in Int /\ (r.day = own.day => r = own)
            BY <2>2, <2>3, <2>4, <2>5, <3>2
        <3> QED
            BY <3>1, <3>3, LastRow
    <2>7. StatementRows(days, years, kind, "ttm") = rows
        BY <2>5 DEF StatementRows
    <2> QED
        BY <1>1, <1>2, <1>8, <2>6, <2>7
<1> QED
    BY <1>6, <1>7, <1>8, FeedsAssumption DEF FeedsHaveQuarters

LEMMA RowsHaveDays ==
    ASSUME NEW q \in Valuations,
           NEW row \in MetricRows(q.quarterly, q.annual, q.period)
    PROVE  row.day \in Int
<1>1. JoinedByDate(q.quarterly) \subseteq Int /\ JoinedByDate(q.annual) \subseteq Int
    BY FeedsAssumption DEF JoinedByDate, Kinds, FeedsHaveQuarters
<1>2. row.day \in JoinedByDate(q.quarterly) \cup JoinedByDate(q.annual)
    <2>1. CASE q.period = "annual"
        BY <2>1 DEF MetricRows, AnnualMetricRows, BaseMetricRow
    <2>2. CASE q.period = "quarterly"
        BY <2>2 DEF MetricRows, QuarterlyMetricRows, BaseMetricRow
    <2>3. CASE q.period = "ttm"
        BY <2>3 DEF MetricRows, TTMMetricRows, Complete
    <2> QED
        BY <2>1, <2>2, <2>3, FeedsAssumption DEF FeedsHaveQuarters
<1> QED
    BY <1>1, <1>2

(* A row is priced at the last close up to its day, a trailing year's at   *)
(* the last one, and at none only where there is none.                     *)
Quoted(q, day) == {d \in q.closes : q.period = "ttm" \/ d <= day}

LEMMA PricedLast ==
    ASSUME NEW q \in Valuations, NEW day \in Int
    PROVE  CloseOnOrBefore(q.closes, PricedAt(q.closes, q.period, day))
           = IF Quoted(q, day) = {} THEN {} ELSE {Max(Quoted(q, day))}
<1>1. IsFiniteSet(q.closes) /\ q.closes \subseteq Int
    BY FeedsAssumption DEF FeedsHaveQuarters
<1>2. CASE q.period = "ttm"
    <2>1. q.closes # {} => \A d \in q.closes : d <= Max(q.closes)
        BY <1>1, LatestClose
    <2>2. {d \in q.closes : d <= Max(q.closes)} = q.closes
        BY <2>1
    <2>3. Quoted(q, day) = q.closes
        BY <1>2 DEF Quoted
    <2> QED
        BY <1>2, <2>2, <2>3 DEF CloseOnOrBefore, PricedAt
<1>3. CASE q.period # "ttm"
    <2>1. Quoted(q, day) = {d \in q.closes : d <= day}
        BY <1>3 DEF Quoted
    <2> QED
        BY <1>3, <2>1 DEF CloseOnOrBefore, PricedAt
<1> QED
    BY <1>2, <1>3

-----------------------------------------------------------------------------
(* Earnings.  A filing is matched with its own period or with none.        *)
LEMMA DistanceIsNat ==
    ASSUME NEW a \in Int, NEW b \in Int
    PROVE  Apart(a, b) \in Nat /\ Apart(a, a) = 0
BY DEF Apart

LEMMA NearestIsItsOwn ==
    ASSUME NEW q \in Reporters,
           NEW f \in EarningsFilings(q.rows)
    PROVE  NearestPeriod(JoinedByDate(q.quarterly), f.close)
           = IF f.period \in JoinedByDate(q.quarterly) THEN {f.period} ELSE {}
<1>1. PICK days : days = JoinedByDate(q.quarterly)
    OBVIOUS
<1>2. days \subseteq UNION {q.quarterly[kind] : kind \in Kinds}
    BY <1>1 DEF JoinedByDate, Kinds
<1>3. /\ days \subseteq Int /\ f.close \in Int
      /\ \A d \in days : Apart(d, f.close) <= PeriodTolerance <=> d = f.period
    BY <1>2, FilingsAssumption DEF FilingsAreNearTheirOwn
<1>4. \A d \in days : Apart(d, f.close) \in Nat
    BY <1>3, DistanceIsNat
<1>5. f.close \in days => f.close = f.period
    <2>1. Apart(f.close, f.close) = 0
        BY <1>3, DistanceIsNat
    <2> QED
        BY <1>3, <2>1, ToleranceAssumption
<1>6. PICK near : near = {d \in days : Apart(d, f.close) <= PeriodTolerance}
    OBVIOUS
<1>7. near = IF f.period \in days THEN {f.period} ELSE {}
    BY <1>3, <1>6
<1>8. {d \in near : \A e \in near : Apart(d, f.close) <= Apart(e, f.close)} = near
    BY <1>4, <1>7
<1>9. NearestPeriod(days, f.close) = IF f.close \in days THEN {f.close} ELSE near
    BY <1>6, <1>8 DEF NearestPeriod
<1> QED
    BY <1>1, <1>5, <1>7, <1>9

-----------------------------------------------------------------------------
(* The limit.  S are filings of which always one is later than the other.  *)
Dated(S) ==
    /\ IsFiniteSet(S) /\ \A f \in S : f.filed \in Int /\ f.close \in Int
    /\ \A f, g \in S : f # g => FiledLater(f, g) \/ FiledLater(g, f)
LaterThan(S, f) == {g \in S : FiledLater(g, f)}
Rank(S, f) == Cardinality(LaterThan(S, f))
TheNewest(S, n) == {f \in S : Rank(S, f) < n}

LEMMA RankIsNat ==
    ASSUME NEW S, Dated(S), NEW f \in S
    PROVE  IsFiniteSet(LaterThan(S, f)) /\ Rank(S, f) \in Nat
<1>1. LaterThan(S, f) \subseteq S
    BY DEF LaterThan
<1> QED
    BY <1>1, FS_Subset, FS_CardinalityType DEF Dated, Rank

LEMMA RankGrows ==
    ASSUME NEW S, Dated(S), NEW f \in S, NEW g \in S, FiledLater(g, f)
    PROVE  Rank(S, g) < Rank(S, f)
<1>1. \A x \in S : x.filed \in Int /\ x.close \in Int
    BY DEF Dated
<1>2. \A x \in S : FiledLater(x, g) => FiledLater(x, f)
    BY <1>1 DEF FiledLater
<1>3. ~FiledLater(g, g)
    BY <1>1 DEF FiledLater
<1>4. PICK A, B : A = LaterThan(S, f) /\ B = LaterThan(S, g)
    OBVIOUS
<1>5. B \subseteq A /\ g \in A /\ g \notin B
    BY <1>2, <1>3, <1>4 DEF LaterThan
<1>6. IsFiniteSet(A) /\ Cardinality(A) \in Nat /\ Cardinality(B) \in Nat
    BY <1>4, RankIsNat DEF Rank
<1>7. Cardinality(B) <= Cardinality(A) /\ Cardinality(B) # Cardinality(A)
    BY <1>5, <1>6, FS_Subset
<1> QED
    BY <1>4, <1>6, <1>7 DEF Rank

(* The newest n are n, where there are more, and none left out is newer.   *)
LEMMA NewestFillTheLimit ==
    ASSUME NEW S, Dated(S), NEW n \in Nat, NEW f \in S, f \notin TheNewest(S, n)
    PROVE  /\ Cardinality(TheNewest(S, n)) = n
           /\ \A g \in TheNewest(S, n) : g.filed >= f.filed
<1>1. PICK top : top = TheNewest(S, n)
    OBVIOUS
<1>2. \A x \in S : Rank(S, x) \in Nat /\ (x \in top <=> Rank(S, x) < n)
    BY <1>1, RankIsNat DEF TheNewest
<1>3. top \subseteq S /\ IsFiniteSet(top)
    <2>1. top \subseteq S
        BY <1>1 DEF TheNewest
    <2> QED
        BY <2>1, FS_Subset DEF Dated
<1>4. Cardinality(top) <= n
    <2> DEFINE rank == [x \in top |-> Rank(S, x)]
    <2>1. rank \in Injection(top, 0 .. (n - 1))
        <3>1. \A x \in top : rank[x] \in 0 .. (n - 1)
            BY <1>2, <1>3
        <3>2. ASSUME NEW x \in top, NEW y \in top, x # y PROVE rank[x] # rank[y]
            <4>1. x \in S /\ y \in S
                BY <1>3
            <4>2. FiledLater(x, y) \/ FiledLater(y, x)
                BY <3>2, <4>1 DEF Dated
            <4>3. Rank(S, x) < Rank(S, y) \/ Rank(S, y) < Rank(S, x)
                BY <4>1, <4>2, RankGrows
            <4> QED
                BY <1>2, <4>1, <4>3
        <3> QED
            BY <3>1, <3>2 DEF Injection, IsInjective
    <2>2. IsFiniteSet(0 .. (n - 1)) /\ Cardinality(0 .. (n - 1)) = n
        BY FS_Interval
    <2> HIDE DEF rank
    <2> QED
        BY <2>1, <2>2, FS_Injection
<1>5. PICK m \in S \ top : \A x \in S \ top : ~(Rank(S, x) < Rank(S, m))
    <2> DEFINE Ranks == {Rank(S, x) : x \in S \ top}
    <2>1. Ranks \subseteq Nat /\ Ranks # {}
        BY <1>1, <1>2
    <2>2. PICK r \in Ranks : \A k \in Ranks : ~(k < r)
        BY <2>1, LeastOf
    <2> QED
        BY <2>2
<1>6. LaterThan(S, m) \subseteq top
    <2> SUFFICES ASSUME NEW x \in S, FiledLater(x, m), x \notin top PROVE FALSE
        BY DEF LaterThan
    <2> QED
        BY <1>5, RankGrows
<1>7. n <= Cardinality(top)
    <2>1. Rank(S, m) <= Cardinality(top)
        BY <1>3, <1>6, FS_Subset DEF Rank
    <2>2. Rank(S, m) \in Nat /\ ~(Rank(S, m) < n)
        BY <1>2, <1>5
    <2>3. Cardinality(top) \in Nat
        BY <1>3, FS_CardinalityType
    <2> QED
        BY <2>1, <2>2, <2>3
<1>8. ASSUME NEW g \in top, ~(g.filed >= f.filed) PROVE FALSE
    <2>1. g \in S /\ g.filed \in Int /\ f.filed \in Int
        BY <1>3 DEF Dated
    <2>2. FiledLater(f, g)
        BY <1>8, <2>1 DEF FiledLater
    <2>3. Rank(S, f) < Rank(S, g)
        BY <2>1, <2>2, RankGrows
    <2> QED
        BY <1>1, <1>2, <2>1, <2>3
<1>9. Cardinality(top) \in Nat
    BY <1>3, FS_CardinalityType
<1> QED
    BY <1>1, <1>4, <1>7, <1>8, <1>9

(* The records are those of the newest filings the feed has a period of.   *)
Known(q) == {f \in EarningsFilings(q.rows) : f.period \in JoinedByDate(q.quarterly)}

LEMMA RecordsAreOfTheNewest ==
    ASSUME NEW q \in Reporters
    PROVE  NormalizeEarnings(q.quarterly, q.annual, q.rows, q.limit).records
           = {EarningsRecord(f, JoinedByDate(q.quarterly),
                                     JoinedByDate(q.annual)) :
                 f \in TheNewest(Known(q), q.limit)}
<1> DEFINE quarters == JoinedByDate(q.quarterly)
           matched == {f \in EarningsFilings(q.rows) :
                          NearestPeriod(quarters, f.close) # {}}
<1>1. matched = Known(q)
    <2>1. \A f \in EarningsFilings(q.rows) : NearestPeriod(quarters, f.close)
              = IF f.period \in quarters THEN {f.period} ELSE {}
        BY NearestIsItsOwn
    <2> HIDE DEF quarters
    <2>2. \A f \in EarningsFilings(q.rows) : f \in matched <=> f.period \in quarters
        BY <2>1
    <2> QED
        BY <2>2 DEF Known, quarters
<1>2. {f \in matched : Cardinality({g \in matched : FiledLater(g, f)}) < q.limit}
          = TheNewest(matched, q.limit)
    <2> HIDE DEF matched
    <2> QED
        BY DEF TheNewest, Rank, LaterThan
<1>3. NormalizeEarnings(q.quarterly, q.annual, q.rows, q.limit).records
      = {EarningsRecord(f, quarters, JoinedByDate(q.annual)) :
            f \in {f \in matched :
                     Cardinality({g \in matched : FiledLater(g, f)}) < q.limit}}
    BY DEF NormalizeEarnings
<1> QED
    BY <1>1, <1>2, <1>3

LEMMA KnownAreDated ==
    ASSUME NEW q \in Reporters
    PROVE  Dated(Known(q))
<1>1. Known(q) \subseteq EarningsFilings(q.rows) /\ Known(q) \subseteq q.rows
    BY DEF Known, EarningsFilings
<1>2. IsFiniteSet(q.rows)
    BY FilingsAssumption DEF FilingsAreNearTheirOwn
<1>3. IsFiniteSet(Known(q))
    BY <1>1, <1>2, FS_Subset
<1>4. \A f \in Known(q) : f.filed \in Int /\ f.close \in Int
    BY <1>1, FilingsAssumption DEF FilingsAreNearTheirOwn
<1>5. \A f, g \in Known(q) : f # g => FiledLater(f, g) \/ FiledLater(g, f)
    BY <1>1, FilingsAssumption DEF FilingsAreNearTheirOwn
<1> QED
    BY <1>3, <1>4, <1>5 DEF Dated

-----------------------------------------------------------------------------
(* Statements.  f holds the paths of the rows up to n: Path is a recursive *)
(* function, and leads upwards where each row lies under one above it.     *)
Climbs(f, under, n) ==
    f = [j \in 0 .. n |-> IF j = 0 THEN {} ELSE {j} \cup f[under[j]]]
Upwards(under, n) == \A j \in 1 .. n : under[j] \in 0 .. (j - 1)

LEMMA ClimbsExist ==
    ASSUME NEW under, NEW n \in Nat, Upwards(under, n)
    PROVE  \E f : Climbs(f, under, n)
<1> DEFINE S == {m \in Nat : m <= n => \E f : Climbs(f, under, m)}
<1>1. 0 \in S
    <2>1. Climbs([j \in 0 .. 0 |-> {}], under, 0)
        BY DEF Climbs
    <2> QED
        BY <2>1
<1>2. ASSUME NEW m \in Nat, m \in S PROVE m + 1 \in S
    <2> SUFFICES ASSUME m + 1 <= n PROVE \E f : Climbs(f, under, m + 1)
        OBVIOUS
    <2>1. PICK f : Climbs(f, under, m)
        BY <1>2
    <2> DEFINE g == [j \in 0 .. m + 1 |-> IF j = m + 1 THEN {j} \cup f[under[j]] ELSE f[j]]
    <2>2. ASSUME NEW j \in 0 .. m + 1
          PROVE  g[j] = IF j = 0 THEN {} ELSE {j} \cup g[under[j]]
        <3>1. CASE j = 0
            BY <2>1, <3>1 DEF Climbs
        <3>2. CASE j # 0
            <4>1. under[j] \in 0 .. m + 1 /\ under[j] # m + 1
                BY <3>2 DEF Upwards
            <4>2. g[under[j]] = f[under[j]]
                BY <4>1
            <4>3. ASSUME j # m + 1 PROVE f[j] = {j} \cup f[under[j]]
                <5>1. j \in 0 .. m
                    BY <4>3
                <5> QED
                    BY <2>1, <3>2, <5>1 DEF Climbs
            <4> QED
                BY <3>2, <4>2, <4>3
        <3> QED
            BY <3>1, <3>2
    <2>3. g = [j \in 0 .. m + 1 |-> g[j]]
        OBVIOUS
    <2> HIDE DEF g
    <2>4. Climbs(g, under, m + 1)
        BY <2>2, <2>3 DEF Climbs
    <2> QED
        BY <2>4
<1> HIDE DEF S
<1>3. n \in S
    BY <1>1, <1>2, Induct
<1> QED
    BY <1>3 DEF S

(* Paths among the same rows are the same.                                 *)
LEMMA ClimbsAgree ==
    ASSUME NEW f, NEW g, NEW u, NEW v, NEW m \in Nat, NEW n \in Nat, NEW l \in Nat,
           l <= m, l <= n, Climbs(f, u, m), Climbs(g, v, n), Upwards(u, l),
           \A j \in 1 .. l : u[j] = v[j]
    PROVE  f[l] = g[l]
<1> DEFINE S == {k \in 0 .. l : f[k] # g[k]}
<1> SUFFICES S = {}
    OBVIOUS
<1> SUFFICES ASSUME S # {} PROVE FALSE
    OBVIOUS
<1>1. PICK k \in S : \A j \in S : ~(j < k)
    <2>1. S \subseteq Nat
        OBVIOUS
    <2> HIDE DEF S
    <2> QED
        BY <2>1, LeastOf
<1>2. k # 0
    BY <1>1 DEF Climbs
<1>3. k \in 1 .. l /\ k \in 0 .. m /\ k \in 0 .. n
    BY <1>2
<1>4. u[k] \in 0 .. l /\ u[k] < k /\ u[k] = v[k]
    BY <1>3 DEF Upwards
<1>5. f[u[k]] = g[u[k]]
    BY <1>1, <1>3, <1>4
<1>6. f[k] = {k} \cup f[u[k]] /\ g[k] = {k} \cup g[v[k]]
    BY <1>2, <1>3 DEF Climbs
<1> QED
    BY <1>4, <1>5, <1>6

LEMMA PathClimbs ==
    ASSUME NEW under, NEW i \in Nat, Upwards(under, i)
    PROVE  \E f : Climbs(f, under, i) /\ Path(under, i) = f[i]
<1> DEFINE f == CHOOSE f : Climbs(f, under, i)
<1>1. Climbs(f, under, i)
    BY ClimbsExist
<1>2. Path(under, i) = f[i]
    BY DEF Path, Climbs
<1> QED
    BY <1>1, <1>2

(* The path of a row is the row and the path of the one it lies under.     *)
LEMMA PathOfRow ==
    ASSUME NEW under, NEW i \in Nat, Upwards(under, i)
    PROVE  Path(under, i) = IF i = 0 THEN {} ELSE {i} \cup Path(under, under[i])
<1>1. PICK f : Climbs(f, under, i) /\ Path(under, i) = f[i]
    BY PathClimbs
<1>2. CASE i = 0
    BY <1>1, <1>2 DEF Climbs
<1>3. CASE i # 0
    <2>1. PICK k \in Nat : k = under[i] /\ k < i
        BY <1>3 DEF Upwards
    <2>2. Upwards(under, k)
        BY <2>1 DEF Upwards
    <2>3. PICK g : Climbs(g, under, k) /\ Path(under, k) = g[k]
        BY <2>2, PathClimbs
    <2>4. f[k] = g[k]
        BY <1>1, <2>1, <2>2, <2>3, ClimbsAgree
    <2>5. f[i] = {i} \cup f[k]
        BY <1>1, <1>3, <2>1 DEF Climbs
    <2> QED
        BY <1>1, <1>3, <2>1, <2>3, <2>4, <2>5
<1> QED
    BY <1>2, <1>3

LEMMA PathKept ==
    ASSUME NEW u, NEW v, NEW i \in Nat, Upwards(u, i), \A j \in 1 .. i : u[j] = v[j]
    PROVE  Path(u, i) = Path(v, i)
<1>1. Upwards(v, i)
    BY DEF Upwards
<1>2. PICK f : Climbs(f, u, i) /\ Path(u, i) = f[i]
    BY PathClimbs
<1>3. PICK g : Climbs(g, v, i) /\ Path(v, i) = g[i]
    BY <1>1, PathClimbs
<1> QED
    BY <1>2, <1>3, ClimbsAgree

(* The tree after n rows.                                                  *)
Grows(tree, rows, n) ==
    tree = [i \in 0 .. n |-> IF i = 0 THEN NewTree ELSE Add(tree[i - 1], rows[i])]

LEMMA TreesGrow ==
    ASSUME NEW rows, Len(rows) \in Nat
    PROVE  /\ Grown(rows)[0] = NewTree
           /\ \A i \in 1 .. Len(rows) : Grown(rows)[i] = Add(Grown(rows)[i - 1], rows[i])
<1> DEFINE S == {m \in Nat : \E tree : Grows(tree, rows, m)}
<1>1. 0 \in S
    <2>1. Grows([i \in 0 .. 0 |-> NewTree], rows, 0)
        BY DEF Grows
    <2> QED
        BY <2>1
<1>2. ASSUME NEW m \in Nat, m \in S PROVE m + 1 \in S
    <2>1. PICK f : Grows(f, rows, m)
        BY <1>2
    <2> DEFINE g == [i \in 0 .. m + 1 |-> IF i = m + 1 THEN Add(f[m], rows[m + 1]) ELSE f[i]]
    <2>2. ASSUME NEW i \in 0 .. m + 1
          PROVE  g[i] = IF i = 0 THEN NewTree ELSE Add(g[i - 1], rows[i])
        <3>1. CASE i = m + 1
            <4>1. i # 0 /\ i - 1 = m /\ i - 1 \in 0 .. m + 1 /\ i - 1 # m + 1
                BY <3>1
            <4> QED
                BY <3>1, <4>1
        <3>2. CASE i = 0
            BY <2>1, <3>2 DEF Grows
        <3>3. CASE i # 0 /\ i # m + 1
            <4>1. i \in 0 .. m /\ i - 1 \in 0 .. m + 1 /\ i - 1 # m + 1
                BY <3>3
            <4>2. f[i] = Add(f[i - 1], rows[i])
                BY <2>1, <3>3, <4>1 DEF Grows
            <4> QED
                BY <3>3, <4>1, <4>2
        <3> QED
            BY <3>1, <3>2, <3>3
    <2>3. g = [i \in 0 .. m + 1 |-> g[i]]
        OBVIOUS
    <2> HIDE DEF g
    <2>4. Grows(g, rows, m + 1)
        BY <2>2, <2>3 DEF Grows
    <2> QED
        BY <2>4
<1> HIDE DEF S
<1>3. Len(rows) \in S
    BY <1>1, <1>2, Induct
<1> DEFINE tree == CHOOSE tree : Grows(tree, rows, Len(rows))
<1>4. Grows(tree, rows, Len(rows))
    BY <1>3 DEF S
<1>5. Grown(rows) = tree
    BY DEF Grown, Grows
<1> HIDE DEF tree
<1>6. 0 \in 0 .. Len(rows) /\ \A i \in 1 .. Len(rows) : i \in 0 .. Len(rows) /\ i # 0
    OBVIOUS
<1> QED
    BY <1>4, <1>5, <1>6 DEF Grows

Bases(rows) == {<<>>} \cup {Base(rows[i]) : i \in 1 .. Len(rows)}
Trees(rows) == [under : Seq(Nat), open : Seq(Nat), bases : Seq(Bases(rows))]

(* From t to u row n is put under the section at depth, if any; of the     *)
(* open sections the first keep stay so, and the row opens one more or not.*)
Puts(rows, t, u, n, depth, keep, opened) ==
    /\ u \in Trees(rows)
    /\ depth \in 0 .. Len(t.open) /\ keep \in 0 .. depth /\ opened \in {0, 1} /\ (opened = 1 => keep = depth)
    /\ Len(u.under) = n /\ \A i \in 1 .. (n - 1) : u.under[i] = t.under[i]
    /\ u.under[n] = IF depth = 0 THEN 0 ELSE t.open[depth]
    /\ Len(u.open) = keep + opened
    /\ Len(u.bases) = Len(u.open)
    /\ \A d \in 1 .. keep : u.open[d] = t.open[d] /\ u.bases[d] = t.bases[d]
    /\ opened = 1 => u.open[keep + 1] = n /\ u.bases[keep + 1] = Base(rows[n])

(* The first half of it: t's rows and row n, put under the open section at *)
(* the depth.                                                              *)
IsUnder(rows, t, u, n, depth) ==
    /\ u \in Trees(rows) /\ u.open = t.open /\ u.bases = t.bases
    /\ Len(u.under) = n /\ \A i \in 1 .. (n - 1) : u.under[i] = t.under[i]
    /\ u.under[n] = IF depth = 0 THEN 0 ELSE t.open[depth]

LEMMA AppendToPuts ==
    ASSUME NEW rows, NEW t \in Trees(rows), NEW n \in Nat \ {0}, Len(t.under) = n - 1,
           Len(t.bases) = Len(t.open), NEW depth \in 0 .. Len(t.open)
    PROVE  IsUnder(rows, t, AppendTo(t, depth), n, depth)
<1>1. PICK x \in Nat : x = IF depth = 0 THEN 0 ELSE t.open[depth]
    BY ElementOfSeq DEF Trees
<1>2. PICK w \in Seq(Nat) : w = t.under
    BY DEF Trees
<1>3. PICK v : v = Append(w, x)
    OBVIOUS
<1>4. v \in Seq(Nat) /\ Len(v) = n /\ v[n] = x /\ \A i \in 1 .. (n - 1) : v[i] = w[i]
    BY <1>2, <1>3, AppendProperties
<1>5. AppendTo(t, depth) = [t EXCEPT !.under = v]
    BY <1>1, <1>2, <1>3 DEF AppendTo
<1> QED
    BY <1>1, <1>2, <1>4, <1>5 DEF Trees, IsUnder

(* The first k of a sequence, and one more.                                *)
LEMMA FirstOf ==
    ASSUME NEW S, NEW s \in Seq(S), NEW k \in 0 .. Len(s), NEW x \in S
    PROVE  /\ SubSeq(s, 1, k) \in Seq(S) /\ Len(SubSeq(s, 1, k)) = k
           /\ \A d \in 1 .. k : SubSeq(s, 1, k)[d] = s[d]
           /\ Append(SubSeq(s, 1, k), x) \in Seq(S)
           /\ Len(Append(SubSeq(s, 1, k), x)) = k + 1
           /\ \A d \in 1 .. k : Append(SubSeq(s, 1, k), x)[d] = s[d]
           /\ Append(SubSeq(s, 1, k), x)[k + 1] = x
<1> DEFINE p == SubSeq(s, 1, k)
<1>1. k \in Nat /\ 1 .. k \subseteq 1 .. Len(s)
    BY LenProperties
<1>2. p \in Seq(S) /\ Len(p) = k /\ \A d \in 1 .. k : p[d] = s[d]
    BY <1>1, SubSeqProperties
<1> HIDE DEF p
<1>3. /\ Append(p, x) \in Seq(S) /\ Len(Append(p, x)) = k + 1
      /\ \A d \in 1 .. k : Append(p, x)[d] = p[d]
      /\ Append(p, x)[k + 1] = x
    BY <1>1, <1>2, AppendProperties
<1> QED
    BY <1>2, <1>3 DEF p

LEMMA OpenPuts ==
    ASSUME NEW rows, Len(rows) \in Nat, NEW t \in Trees(rows), NEW n \in 1 .. Len(rows),
           Len(t.under) = n - 1, Len(t.bases) = Len(t.open), NEW depth \in 0 .. Len(t.open),
           NEW base, base = Base(rows[n])
    PROVE  Puts(rows, t, Open(t, depth, base), n, depth, depth, 1)
<1>1. PICK v : v = AppendTo(t, depth)
    OBVIOUS
<1>2. /\ v \in Trees(rows) /\ v.open = t.open /\ v.bases = t.bases
      /\ Len(v.under) = n /\ \A i \in 1 .. (n - 1) : v.under[i] = t.under[i]
      /\ v.under[n] = IF depth = 0 THEN 0 ELSE t.open[depth]
    <2>1. n \in Nat \ {0}
        OBVIOUS
    <2>2. IsUnder(rows, t, AppendTo(t, depth), n, depth)
        BY <2>1, AppendToPuts
    <2>3. IsUnder(rows, t, v, n, depth)
        BY <1>1, <2>2
    <2> QED
        BY <2>3 DEF IsUnder
<1>3. PICK open : open = Append(SubSeq(t.open, 1, depth), n)
    OBVIOUS
<1>4. PICK bases : bases = Append(SubSeq(t.bases, 1, depth), base)
    OBVIOUS
<1>5. /\ open \in Seq(Nat) /\ Len(open) = depth + 1 /\ open[depth + 1] = n
      /\ \A d \in 1 .. depth : open[d] = t.open[d]
    BY <1>3, FirstOf DEF Trees
<1>6. base \in Bases(rows)
    BY DEF Bases
<1>7. /\ bases \in Seq(Bases(rows)) /\ Len(bases) = depth + 1 /\ bases[depth + 1] = base
      /\ \A d \in 1 .. depth : bases[d] = t.bases[d]
    BY <1>4, <1>6, FirstOf DEF Trees
<1>8. Open(t, depth, base) = [v EXCEPT !.open = open, !.bases = bases]
    BY <1>1, <1>2, <1>3, <1>4 DEF Open
<1>9. PICK u : u = Open(t, depth, base)
    OBVIOUS
<1>10. u \in Trees(rows) /\ u.under = v.under /\ u.open = open /\ u.bases = bases
    BY <1>2, <1>5, <1>7, <1>8, <1>9 DEF Trees
<1> QED
    BY <1>2, <1>5, <1>7, <1>9, <1>10 DEF Puts

LEMMA CloseToPuts ==
    ASSUME NEW rows, NEW t \in Trees(rows), NEW n \in Nat \ {0}, Len(t.under) = n - 1,
           Len(t.bases) = Len(t.open), NEW depth \in 1 .. Len(t.open)
    PROVE  Puts(rows, t, CloseTo(AppendTo(t, depth), depth), n, depth, depth - 1, 0)
<1>1. PICK v : v = AppendTo(t, depth)
    OBVIOUS
<1>2. /\ v \in Trees(rows) /\ v.open = t.open /\ v.bases = t.bases
      /\ Len(v.under) = n /\ \A i \in 1 .. (n - 1) : v.under[i] = t.under[i]
      /\ v.under[n] = t.open[depth]
    <2>1. depth \in 0 .. Len(t.open) /\ depth # 0
        OBVIOUS
    <2>2. IsUnder(rows, t, AppendTo(t, depth), n, depth)
        BY <2>1, AppendToPuts
    <2>3. IsUnder(rows, t, v, n, depth)
        BY <1>1, <2>2
    <2> QED
        BY <2>1, <2>3 DEF IsUnder
<1>3. PICK k \in 0 .. Len(t.open) : k = depth - 1
    OBVIOUS
<1>4. PICK open : open = SubSeq(t.open, 1, k)
    OBVIOUS
<1>5. PICK bases : bases = SubSeq(t.bases, 1, k)
    OBVIOUS
<1>6. open \in Seq(Nat) /\ Len(open) = k /\ \A d \in 1 .. k : open[d] = t.open[d]
    BY <1>4, FirstOf DEF Trees
<1>7. <<>> \in Bases(rows)
    BY DEF Bases
<1>8. bases \in Seq(Bases(rows)) /\ Len(bases) = k /\ \A d \in 1 .. k : bases[d] = t.bases[d]
    BY <1>5, <1>7, FirstOf DEF Trees
<1>9. PICK u : u = CloseTo(v, depth)
    OBVIOUS
<1>10. u = [v EXCEPT !.open = open, !.bases = bases]
    BY <1>2, <1>3, <1>4, <1>5, <1>9 DEF CloseTo
<1>11. u \in Trees(rows) /\ u.under = v.under /\ u.open = open /\ u.bases = bases
    BY <1>2, <1>6, <1>8, <1>10 DEF Trees
<1> QED
    BY <1>1, <1>2, <1>3, <1>6, <1>8, <1>9, <1>11 DEF Puts

(* An element that is the total of an open section closes one.             *)
LEMMA ClosedSections ==
    ASSUME NEW rows, NEW t \in Trees(rows), NEW element
    PROVE  LET depth == SectionClosedBy(t, element)
           IN  /\ depth \in 0 .. Len(t.bases)
               /\ \A d \in 1 .. Len(t.bases) :
                      element # <<>> /\ t.bases[d] # <<>> /\ IsPrefix(element, t.bases[d]) => depth # 0
<1> DEFINE exact == {d \in DOMAIN t.bases : t.bases[d] = element}
           longer == {d \in DOMAIN t.bases :
                         t.bases[d] # <<>> /\ IsPrefix(element, t.bases[d])}
<1>1. PICK m \in Nat : m = Len(t.bases) /\ DOMAIN t.bases = 1 .. m
    BY LenProperties DEF Trees
<1>2. PICK closed : closed = IF exact # {} THEN exact ELSE longer
    OBVIOUS
<1>3. closed \subseteq 1 .. m /\ (longer # {} => closed # {})
    BY <1>1, <1>2
<1>4. IsFiniteSet({0} \cup closed) /\ {0} \cup closed \subseteq Int /\ {0} \cup closed # {}
    <2>1. IsFiniteSet(0 .. m)
        BY FS_Interval
    <2>2. {0} \cup closed \subseteq 0 .. m
        BY <1>3
    <2> QED
        BY <2>1, <2>2, FS_Subset
<1>5. PICK top : top = Max({0} \cup closed)
    OBVIOUS
<1>6. top \in {0} \cup closed /\ \A y \in {0} \cup closed : top >= y
    BY <1>4, <1>5, LatestClose
<1>7. SectionClosedBy(t, element) = IF element = <<>> THEN 0 ELSE top
    BY <1>2, <1>5 DEF SectionClosedBy
<1>8. \A y \in closed : y \in Nat /\ 1 <= y /\ y <= m
    BY <1>1, <1>3
<1>9. top \in 0 .. m
    BY <1>6, <1>8
<1>10. closed # {} => top # 0
    BY <1>6, <1>8
<1>11. \A d \in 1 .. m : t.bases[d] # <<>> /\ IsPrefix(element, t.bases[d]) => d \in longer
    BY <1>1
<1> HIDE DEF exact, longer
<1>12. SectionClosedBy(t, element) \in 0 .. m
    BY <1>7, <1>9
<1>13. ASSUME NEW d \in 1 .. m, element # <<>>, t.bases[d] # <<>>, IsPrefix(element, t.bases[d])
       PROVE  SectionClosedBy(t, element) # 0
    <2>1. longer # {}
        BY <1>11, <1>13
    <2> QED
        BY <1>3, <1>7, <1>10, <1>13, <2>1
<1> QED
    BY <1>1, <1>12, <1>13

LEMMA AddPuts ==
    ASSUME NEW rows, Len(rows) \in Nat, NEW t \in Trees(rows), NEW n \in 1 .. Len(rows),
           Len(t.under) = n - 1, Len(t.bases) = Len(t.open)
    PROVE  \E depth, keep \in Nat, opened \in {0, 1} :
               /\ Puts(rows, t, Add(t, rows[n]), n, depth, keep, opened)
               /\ rows[n].kind = "member" => depth = 0
               /\ /\ depth # 0 /\ rows[n].element # <<>> /\ t.bases[depth] # <<>>
                  /\ IsPrefix(rows[n].element, t.bases[depth])
                  => keep < depth /\ opened = 0
<1>1. PICK depth : depth = SectionClosedBy(t, rows[n].element)
    OBVIOUS
<1>2. /\ depth \in 0 .. Len(t.open)
      /\ \A d \in 1 .. Len(t.open) :
             rows[n].element # <<>> /\ t.bases[d] # <<>> /\ IsPrefix(rows[n].element, t.bases[d])
             => depth # 0
    BY <1>1, ClosedSections
<1>3. PICK innermost \in Nat : innermost = Len(t.open)
    BY LenProperties DEF Trees
<1>4. CASE rows[n].kind = "member"
    <2>1. Base(rows[n]) = <<>>
        BY <1>4 DEF Base
    <2>2. Puts(rows, t, Open(t, 0, <<>>), n, 0, 0, 1)
        BY <1>3, <2>1, OpenPuts
    <2>3. Add(t, rows[n]) = Open(t, 0, <<>>)
        BY <1>4 DEF Add
    <2> QED
        BY <2>2, <2>3
<1>5. CASE rows[n].kind # "member" /\ depth > 0
    <2>1. Puts(rows, t, CloseTo(AppendTo(t, depth), depth), n, depth, depth - 1, 0)
        BY <1>2, <1>3, <1>5, CloseToPuts
    <2>2. Add(t, rows[n]) = CloseTo(AppendTo(t, depth), depth)
        BY <1>1, <1>5 DEF Add
    <2>3. depth \in Nat /\ depth - 1 \in Nat /\ depth - 1 < depth
        BY <1>2, <1>3, <1>5
    <2> QED
        BY <1>5, <2>1, <2>2, <2>3
<1>6. CASE rows[n].kind = "heading" /\ ~(depth > 0)
    <2>1. Puts(rows, t, Open(t, innermost, Base(rows[n])), n, innermost, innermost, 1)
        BY <1>3, OpenPuts
    <2>2. Add(t, rows[n]) = Open(t, innermost, Base(rows[n]))
        BY <1>1, <1>3, <1>6 DEF Add
    <2>3. depth = 0
        BY <1>2, <1>3, <1>6
    <2> QED
        BY <1>2, <1>3, <1>6, <2>1, <2>2, <2>3
<1>7. CASE rows[n].kind \notin {"member", "heading"} /\ ~(depth > 0)
    <2>1. Add(t, rows[n]) = AppendTo(t, innermost)
        BY <1>1, <1>3, <1>7 DEF Add
    <2>2. PICK u : u = AppendTo(t, innermost)
        OBVIOUS
    <2>3. /\ u \in Trees(rows) /\ u.open = t.open /\ u.bases = t.bases
          /\ Len(u.under) = n /\ \A i \in 1 .. (n - 1) : u.under[i] = t.under[i]
          /\ u.under[n] = IF innermost = 0 THEN 0 ELSE t.open[innermost]
        <3>1. IsUnder(rows, t, AppendTo(t, innermost), n, innermost)
            BY <1>3, AppendToPuts
        <3>2. IsUnder(rows, t, u, n, innermost)
            BY <2>2, <3>1
        <3> QED
            BY <3>2 DEF IsUnder
    <2>4. Puts(rows, t, u, n, innermost, innermost, 0)
        BY <1>3, <2>3 DEF Puts
    <2>5. depth = 0
        BY <1>2, <1>3, <1>7
    <2> QED
        BY <1>2, <1>3, <1>7, <2>1, <2>2, <2>4, <2>5
<1> QED
    BY <1>2, <1>3, <1>4, <1>5, <1>6, <1>7

(* The tree after n rows.  The open sections lie each under the one before *)
(* it, and the last row under all of them or in the last; a section whose  *)
(* total has been put under it is closed.                                  *)
Stacked(rows, t, n) ==
    /\ Len(t.under) = n /\ Len(t.bases) = Len(t.open)
    /\ \A d \in 1 .. Len(t.open) :
           /\ t.open[d] \in 1 .. n /\ t.open[d] \in Path(t.under, n)
           /\ t.bases[d] = Base(rows[t.open[d]])
           /\ Path(t.under, t.open[d]) = {t.open[e] : e \in 1 .. d}
    /\ \A d, e \in 1 .. Len(t.open) : d < e => t.open[d] < t.open[e]
Nested(rows, t, n) ==
    /\ Upwards(t.under, n)
    /\ \A i \in 1 .. n : t.under[i] \in {0} \cup Path(t.under, i - 1)
    /\ \A i \in 1 .. n : rows[i].kind = "member" => t.under[i] = 0
TotalsClose(rows, t, n) ==
    \A i \in 1 .. n : Total(rows, i, t.under[i]) =>
        /\ \A d \in 1 .. Len(t.open) : t.open[d] # t.under[i]
        /\ \A j \in (i + 1) .. n : t.under[i] \notin Path(t.under, j)
TreeHolds(rows, t, n) ==
    t \in Trees(rows) /\ Stacked(rows, t, n) /\ Nested(rows, t, n) /\ TotalsClose(rows, t, n)

LEMMA PutKeeps ==
    ASSUME NEW rows, Len(rows) \in Nat, NEW t, NEW u, NEW n \in 1 .. Len(rows),
           TreeHolds(rows, t, n - 1), NEW depth \in Nat, NEW keep \in Nat, NEW opened \in {0, 1},
           Puts(rows, t, u, n, depth, keep, opened),
           rows[n].kind = "member" => depth = 0,
           /\ depth # 0 /\ rows[n].element # <<>> /\ t.bases[depth] # <<>>
           /\ IsPrefix(rows[n].element, t.bases[depth])
           => keep < depth /\ opened = 0
    PROVE  TreeHolds(rows, u, n)
<1>1. PICK m \in Nat : m = n - 1 /\ n = m + 1
    OBVIOUS
<1>2. TreeHolds(rows, t, m)
    BY <1>1
<1>3. PICK l \in Nat : l = Len(t.open)
    BY <1>2, LenProperties DEF TreeHolds, Trees
<1>4. depth <= l /\ keep <= depth /\ (opened = 1 => keep = depth)
    BY <1>3 DEF Puts
<1>5. PICK parent : parent = u.under[n] /\ parent = IF depth = 0 THEN 0 ELSE t.open[depth]
    BY DEF Puts
<1>6. /\ \A d \in 1 .. l : t.open[d] \in 1 .. m
      /\ \A d, e \in 1 .. l : d < e => t.open[d] < t.open[e]
    BY <1>2, <1>3 DEF TreeHolds, Stacked
<1>7. parent \in 0 .. m /\ (depth # 0 => parent \in 1 .. m /\ depth \in 1 .. l)
    BY <1>4, <1>5, <1>6
<1>8. \A i \in 1 .. m : u.under[i] = t.under[i]
    BY <1>1 DEF Puts
<1>9. Upwards(t.under, m) /\ Upwards(u.under, n)
    <2>1. Upwards(t.under, m)
        BY <1>2 DEF TreeHolds, Nested
    <2>2. ASSUME NEW j \in 1 .. n PROVE u.under[j] \in 0 .. (j - 1)
        <3>1. CASE j = n
            BY <1>1, <1>5, <1>7, <3>1
        <3>2. CASE j # n
            <4>1. j \in 1 .. m
                BY <1>1, <3>2
            <4> QED
                BY <1>8, <2>1, <4>1 DEF Upwards
        <3> QED
            BY <3>1, <3>2
    <2> QED
        BY <2>1, <2>2 DEF Upwards
<1>10. ASSUME NEW i \in 0 .. m PROVE Path(u.under, i) = Path(t.under, i)
    <2>1. i \in Nat /\ Upwards(t.under, i) /\ \A j \in 1 .. i : t.under[j] = u.under[j]
        BY <1>8, <1>9 DEF Upwards
    <2> QED
        BY <2>1, PathKept
<1> DEFINE Over(d) == {t.open[e] : e \in 1 .. d}
<1>11. Path(u.under, n) = {n} \cup Over(depth)
    <2>1. Path(u.under, n) = {n} \cup Path(u.under, parent)
        <3>1. n \in Nat /\ n # 0
            BY <1>1
        <3>2. PICK w : w = u.under /\ Upwards(w, n)
            BY <1>9
        <3>3. Path(w, n) = {n} \cup Path(w, w[n])
            BY <3>1, <3>2, PathOfRow
        <3>4. parent = w[n]
            BY <1>5, <3>2
        <3> QED
            BY <3>2, <3>3, <3>4
    <2>2. Path(u.under, parent) = Path(t.under, parent)
        BY <1>7, <1>10
    <2>3. CASE depth = 0
        <3>1. parent = 0 /\ Upwards(t.under, 0)
            BY <1>5, <2>3 DEF Upwards
        <3>2. Path(t.under, 0) = {}
            BY <3>1, PathOfRow
        <3>3. Over(depth) = {}
            BY <2>3
        <3> QED
            BY <2>1, <2>2, <3>1, <3>2, <3>3
    <2>4. CASE depth # 0
        <3>1. Path(t.under, t.open[depth]) = Over(depth)
            BY <1>2, <1>3, <1>7, <2>4 DEF TreeHolds, Stacked
        <3> QED
            BY <1>5, <2>1, <2>2, <2>4, <3>1
    <2> QED
        BY <2>3, <2>4
<1> DEFINE Stays(d) == d \in 1 .. keep /\ d \in 1 .. l
                       /\ u.open[d] = t.open[d] /\ u.bases[d] = t.bases[d]
           Opens(d) == /\ opened = 1 /\ d = keep + 1 /\ keep = depth
                       /\ u.open[d] = n /\ u.bases[d] = Base(rows[n])
<1>12. ASSUME NEW d \in 1 .. Len(u.open) PROVE Stays(d) \/ Opens(d)
    <2>1. Len(u.open) = keep + opened
        BY DEF Puts
    <2>2. d <= keep \/ (opened = 1 /\ d = keep + 1)
        BY <2>1
    <2>3. CASE d <= keep
        <3>1. d \in 1 .. keep /\ d \in 1 .. l
            BY <1>3, <1>4, <2>1, <2>3
        <3>2. u.open[d] = t.open[d] /\ u.bases[d] = t.bases[d]
            BY <3>1 DEF Puts
        <3> QED
            BY <3>1, <3>2
    <2>4. CASE opened = 1 /\ d = keep + 1
        BY <2>4 DEF Puts
    <2> QED
        BY <2>2, <2>3, <2>4
<1>13. u \in Trees(rows) /\ Len(u.under) = n /\ Len(u.bases) = Len(u.open)
    BY DEF Puts
<1>14. Stacked(rows, u, n)
    <2>1. ASSUME NEW d \in 1 .. Len(u.open)
          PROVE  /\ u.open[d] \in 1 .. n /\ u.open[d] \in Path(u.under, n)
                 /\ u.bases[d] = Base(rows[u.open[d]])
                 /\ Path(u.under, u.open[d]) = {u.open[e] : e \in 1 .. d}
        <3>1. CASE Stays(d)
            <4>1. u.open[d] \in 1 .. m
                BY <1>6, <3>1
            <4>2. u.open[d] \in Over(depth)
                BY <1>4, <3>1
            <4>3. t.bases[d] = Base(rows[t.open[d]]) /\ Path(t.under, t.open[d]) = Over(d)
                BY <1>2, <1>3, <3>1 DEF TreeHolds, Stacked
            <4>4. Path(u.under, u.open[d]) = Over(d)
                BY <1>10, <3>1, <4>1, <4>3
            <4>5. \A e \in 1 .. d : u.open[e] = t.open[e]
                BY <3>1 DEF Puts
            <4>6. Over(d) = {u.open[e] : e \in 1 .. d}
                BY <4>5
            <4>7. u.open[d] \in 1 .. n
                BY <1>1, <4>1
            <4> HIDE DEF Over
            <4> QED
                BY <1>11, <3>1, <4>2, <4>3, <4>4, <4>6, <4>7
        <3>2. CASE Opens(d)
            <4>1. \A e \in 1 .. depth : u.open[e] = t.open[e]
                BY <3>2 DEF Puts
            <4>2. {u.open[e] : e \in 1 .. d} = {n} \cup Over(depth)
                <5>1. \A e \in 1 .. d : e \in 1 .. depth \/ e = d
                    BY <3>2
                <5>2. d \in 1 .. d /\ \A e \in 1 .. depth : e \in 1 .. d
                    BY <3>2
                <5> QED
                    BY <3>2, <4>1, <5>1, <5>2
            <4>3. n \in 1 .. n
                BY <1>1
            <4> HIDE DEF Over
            <4> QED
                BY <1>11, <3>2, <4>2, <4>3
        <3>3. Stays(d) \/ Opens(d)
            BY <1>12
        <3> HIDE DEF Stays, Opens, Over
        <3> QED
            BY <3>1, <3>2, <3>3
    <2>2. ASSUME NEW d \in 1 .. Len(u.open), NEW e \in 1 .. Len(u.open), d < e
          PROVE  u.open[d] < u.open[e]
        <3>1. d \in 1 .. keep /\ d \in 1 .. l /\ u.open[d] = t.open[d]
            <4>1. Len(u.open) = keep + opened
                BY DEF Puts
            <4>2. ~Opens(d)
                BY <2>2, <4>1
            <4> QED
                BY <1>12, <4>2
        <3>2. t.open[d] \in 1 .. m
            BY <1>6, <3>1
        <3> QED
            BY <1>1, <1>6, <1>12, <2>2, <3>1, <3>2
    <2> HIDE DEF Over
    <2> QED
        BY <1>13, <2>1, <2>2 DEF Stacked
<1>15. Nested(rows, u, n)
    <2>1. ASSUME NEW i \in 1 .. m
          PROVE  /\ u.under[i] \in {0} \cup Path(u.under, i - 1)
                 /\ rows[i].kind = "member" => u.under[i] = 0
        <3>1. t.under[i] \in {0} \cup Path(t.under, i - 1) /\ (rows[i].kind = "member" => t.under[i] = 0)
            BY <1>2 DEF TreeHolds, Nested
        <3>2. i - 1 \in 0 .. m
            OBVIOUS
        <3> QED
            BY <1>8, <1>10, <3>1, <3>2
    <2>2. u.under[n] \in {0} \cup Path(u.under, m)
        <3>1. CASE depth = 0
            BY <1>5, <3>1
        <3>2. CASE depth # 0
            <4>1. t.open[depth] \in Path(t.under, m)
                BY <1>2, <1>3, <1>7, <3>2 DEF TreeHolds, Stacked
            <4> QED
                BY <1>5, <1>10, <3>2, <4>1
        <3> QED
            BY <3>1, <3>2
    <2>3. rows[n].kind = "member" => u.under[n] = 0
        BY <1>5
    <2>4. \A i \in 1 .. n : i \in 1 .. m \/ i = n
        BY <1>1
    <2> QED
        BY <1>1, <1>9, <2>1, <2>2, <2>3, <2>4 DEF Nested
<1>16. TotalsClose(rows, u, n)
    <2>1. ASSUME NEW i \in 1 .. m, Total(rows, i, u.under[i])
          PROVE  /\ \A d \in 1 .. Len(u.open) : u.open[d] # u.under[i]
                 /\ \A j \in (i + 1) .. n : u.under[i] \notin Path(u.under, j)
        <3>1. PICK s \in 0 .. m : s = u.under[i] /\ s = t.under[i]
            <4>1. u.under[i] \in 0 .. (i - 1) /\ u.under[i] = t.under[i]
                BY <1>1, <1>8, <1>9 DEF Upwards
            <4> QED
                BY <4>1
        <3>2. /\ \A d \in 1 .. l : t.open[d] # s
              /\ \A j \in (i + 1) .. m : s \notin Path(t.under, j)
            BY <1>2, <1>3, <2>1, <3>1 DEF TreeHolds, TotalsClose
        <3>3. s # n
            BY <1>1
        <3>4. \A d \in 1 .. Len(u.open) : u.open[d] # s
            BY <1>12, <3>2, <3>3
        <3>5. s \notin Over(depth)
            BY <1>4, <3>2
        <3>6. s \notin Path(u.under, n)
            BY <1>11, <3>3, <3>5
        <3>7. ASSUME NEW j \in (i + 1) .. n PROVE s \notin Path(u.under, j)
            <4>1. j = n \/ (j \in (i + 1) .. m /\ j \in 0 .. m)
                BY <1>1
            <4> QED
                BY <1>10, <3>2, <3>6, <4>1
        <3> QED
            BY <3>1, <3>4, <3>7
    <2>2. ASSUME Total(rows, n, u.under[n])
          PROVE  \A d \in 1 .. Len(u.open) : u.open[d] # u.under[n]
        <3>1. /\ parent # 0 /\ rows[n].element # <<>>
              /\ Base(rows[parent]) # <<>> /\ IsPrefix(rows[n].element, Base(rows[parent]))
            BY <1>5, <2>2 DEF Total
        <3>2. depth # 0 /\ depth \in 1 .. l /\ parent = t.open[depth]
            BY <1>5, <1>7, <3>1
        <3>3. t.bases[depth] = Base(rows[parent])
            BY <1>2, <1>3, <3>2 DEF TreeHolds, Stacked
        <3>4. keep < depth /\ opened = 0
            BY <3>1, <3>2, <3>3
        <3>5. ASSUME NEW d \in 1 .. Len(u.open) PROVE u.open[d] # parent
            <4>1. d \in 1 .. l /\ u.open[d] = t.open[d] /\ d < depth
                BY <1>12, <3>4
            <4>2. t.open[d] < t.open[depth] /\ t.open[d] \in 1 .. m
                BY <1>6, <3>2, <4>1
            <4> QED
                BY <1>7, <3>2, <4>1, <4>2
        <3> QED
            BY <1>5, <3>5
    <2>3. \A i \in 1 .. n : i \in 1 .. m \/ i = n
        BY <1>1
    <2>4. (n + 1) .. n = {}
        BY <1>1
    <2> QED
        BY <1>1, <2>1, <2>2, <2>3, <2>4 DEF TotalsClose
<1> QED
    BY <1>13, <1>14, <1>15, <1>16 DEF TreeHolds

LEMMA TreesHold ==
    ASSUME NEW rows, Len(rows) \in Nat
    PROVE  \A n \in 0 .. Len(rows) : TreeHolds(rows, Grown(rows)[n], n)
<1> DEFINE S == {n \in Nat : n <= Len(rows) => TreeHolds(rows, Grown(rows)[n], n)}
<1>1. 0 \in S
    <2>1. NewTree \in Trees(rows)
        BY DEF NewTree, Trees
    <2>2. NewTree.under = <<>> /\ NewTree.open = <<>> /\ NewTree.bases = <<>>
        BY DEF NewTree
    <2>3. Len(<<>>) = 0 /\ 1 .. 0 = {}
        OBVIOUS
    <2>4. TreeHolds(rows, NewTree, 0)
        BY <2>1, <2>2, <2>3 DEF TreeHolds, Stacked, Nested, Upwards, TotalsClose
    <2> QED
        BY <2>4, TreesGrow
<1>2. ASSUME NEW k \in Nat, k \in S PROVE k + 1 \in S
    <2> SUFFICES ASSUME k + 1 <= Len(rows) PROVE TreeHolds(rows, Grown(rows)[k + 1], k + 1)
        OBVIOUS
    <2>1. PICK n \in 1 .. Len(rows) : n = k + 1 /\ n - 1 = k
        OBVIOUS
    <2>2. PICK t : t = Grown(rows)[k]
        OBVIOUS
    <2>3. PICK u : u = Grown(rows)[n] /\ u = Add(t, rows[n])
        BY <2>1, <2>2, TreesGrow
    <2>4. TreeHolds(rows, t, n - 1)
        BY <1>2, <2>1, <2>2
    <2>5. t \in Trees(rows) /\ Len(t.under) = n - 1 /\ Len(t.bases) = Len(t.open)
        BY <2>4 DEF TreeHolds, Stacked
    <2>6. PICK depth, keep \in Nat, opened \in {0, 1} :
               /\ Puts(rows, t, Add(t, rows[n]), n, depth, keep, opened)
               /\ rows[n].kind = "member" => depth = 0
               /\ /\ depth # 0 /\ rows[n].element # <<>> /\ t.bases[depth] # <<>>
                  /\ IsPrefix(rows[n].element, t.bases[depth])
                  => keep < depth /\ opened = 0
        BY <2>5, AddPuts
    <2>7. depth \in Nat
        OBVIOUS
    <2>8. TreeHolds(rows, u, n)
        BY <2>3, <2>4, <2>6, <2>7, PutKeeps
    <2> QED
        BY <2>1, <2>3, <2>8
<1> HIDE DEF S
<1>3. Nat \subseteq S
    BY <1>1, <1>2, Induct
<1> QED
    BY <1>3 DEF S

-----------------------------------------------------------------------------
(* Documents.  The scan after n lines.                                     *)
ScannedTo(scan, lines, n) ==
    scan = [i \in 0 .. n |-> IF i = 0 THEN Start ELSE ReadLine(scan[i - 1], lines[i])]

LEMMA ScanReads ==
    ASSUME NEW lines, Len(lines) \in Nat
    PROVE  /\ Scan(lines)[0] = Start
           /\ \A i \in 1 .. Len(lines) : Scan(lines)[i] = ReadLine(Scan(lines)[i - 1], lines[i])
<1> DEFINE S == {m \in Nat : \E scan : ScannedTo(scan, lines, m)}
<1>1. 0 \in S
    <2>1. ScannedTo([i \in 0 .. 0 |-> Start], lines, 0)
        BY DEF ScannedTo
    <2> QED
        BY <2>1
<1>2. ASSUME NEW m \in Nat, m \in S PROVE m + 1 \in S
    <2>1. PICK f : ScannedTo(f, lines, m)
        BY <1>2
    <2> DEFINE g == [i \in 0 .. m + 1 |-> IF i = m + 1 THEN ReadLine(f[m], lines[m + 1]) ELSE f[i]]
    <2>2. ASSUME NEW i \in 0 .. m + 1
          PROVE  g[i] = IF i = 0 THEN Start ELSE ReadLine(g[i - 1], lines[i])
        <3>1. CASE i = m + 1
            <4>1. i # 0 /\ i - 1 = m /\ i - 1 \in 0 .. m + 1 /\ i - 1 # m + 1
                BY <3>1
            <4> QED
                BY <3>1, <4>1
        <3>2. CASE i = 0
            BY <2>1, <3>2 DEF ScannedTo
        <3>3. CASE i # 0 /\ i # m + 1
            <4>1. i \in 0 .. m /\ i - 1 \in 0 .. m + 1 /\ i - 1 # m + 1
                BY <3>3
            <4>2. f[i] = ReadLine(f[i - 1], lines[i])
                BY <2>1, <3>3, <4>1 DEF ScannedTo
            <4> QED
                BY <3>3, <4>1, <4>2
        <3> QED
            BY <3>1, <3>2, <3>3
    <2>3. g = [i \in 0 .. m + 1 |-> g[i]]
        OBVIOUS
    <2> HIDE DEF g
    <2>4. ScannedTo(g, lines, m + 1)
        BY <2>2, <2>3 DEF ScannedTo
    <2> QED
        BY <2>4
<1> HIDE DEF S
<1>3. Len(lines) \in S
    BY <1>1, <1>2, Induct
<1> DEFINE scan == CHOOSE scan : ScannedTo(scan, lines, Len(lines))
<1>4. ScannedTo(scan, lines, Len(lines))
    BY <1>3 DEF S
<1>5. Scan(lines) = scan
    BY DEF Scan, ScannedTo
<1> HIDE DEF scan
<1>6. 0 \in 0 .. Len(lines) /\ \A i \in 1 .. Len(lines) : i \in 0 .. Len(lines) /\ i # 0
    OBVIOUS
<1> QED
    BY <1>4, <1>5, <1>6 DEF ScannedTo

(* The part a line is in is the one before's, or it is a part's heading.   *)
LEMMA PartOfLine ==
    ASSUME NEW lines, NEW n \in Nat \ {0}, n \in DOMAIN lines
    PROVE  PartOf(lines, n) = IF lines[n].part # Unnamed THEN lines[n].part ELSE PartOf(lines, n - 1)
<1> DEFINE P(i) == {j \in 1 .. i : lines[j].part # Unnamed}
<1>0. \A i : PartOf(lines, i) = IF P(i) = {} THEN Unnamed ELSE lines[Max(P(i))].part
    BY DEF PartOf, LastPart
<1>1. n \in Nat /\ n - 1 \in Nat /\ n \in 1 .. n
    OBVIOUS
<1>2. CASE lines[n].part # Unnamed
    <2>1. n \in P(n) /\ P(n) \subseteq Nat /\ \A j \in P(n) : n >= j
        BY <1>1, <1>2
    <2> HIDE DEF P
    <2>2. Max(P(n)) = n
        BY <1>1, <2>1 DEF Max
    <2> QED
        BY <1>0, <1>2, <2>1, <2>2
<1>3. CASE lines[n].part = Unnamed
    <2>1. P(n) = P(n - 1)
        BY <1>1, <1>3
    <2> HIDE DEF P
    <2> QED
        BY <1>0, <1>3, <2>1
<1> QED
    BY <1>2, <1>3

LEMMA NoPartYet ==
    ASSUME NEW lines
    PROVE  PartOf(lines, 0) = Unnamed
<1>1. {j \in 1 .. 0 : lines[j].part # Unnamed} = {}
    OBVIOUS
<1> QED
    BY <1>1 DEF PartOf, LastPart

-----------------------------------------------------------------------------
ItemsOfForm == ToSet(Catalog)
PartNames == STRING \cup {Unnamed}
SetsOfItems == SUBSET ItemsOfForm
SetsOfParts == SUBSET PartNames
SetsOfHeadings == SUBSET [item : ItemsOfForm, start : Nat, toc : BOOLEAN]
Scans == [at : Nat, part : PartNames, contents : BOOLEAN, items : SetsOfItems,
          parts : SetsOfParts, headings : SetsOfHeadings]
FoundBy(scan, line) == Lookup(IF line.part # Unnamed THEN line.part ELSE scan.part, line.number)
One(items) == CHOOSE c \in items : TRUE

LEMMA ItemsHaveParts == ItemsOfForm \subseteq [part : PartNames, number : STRING]
<1> DEFINE T == [part : PartNames, number : STRING]
<1>1. PICK catalog : catalog = Catalog /\ catalog \in Seq(T)
    BY CatalogAssumption DEF PartNames
<1> HIDE DEF T
<1>2. \A i \in DOMAIN catalog : catalog[i] \in T
    BY <1>1, ElementOfSeq, LenProperties
<1>3. ItemsOfForm \subseteq T
    BY <1>1, <1>2 DEF ItemsOfForm, ToSet
<1> QED
    BY <1>3 DEF T

(* What a number is looked up as is one item of the form, or none.         *)
LEMMA LookupFinds ==
    ASSUME NEW part, NEW number
    PROVE  /\ Lookup(part, number) \subseteq ItemsOfForm
           /\ \A c, d \in Lookup(part, number) : c = d
<1> DEFINE numbered == {c \in ItemsOfForm : c.number = number}
           exact == {c \in numbered : c.part = part}
<1>1. Lookup(part, number) = IF exact # {} THEN exact ELSE {c \in numbered : numbered = {c}}
    BY DEF Lookup, ItemsOfForm
<1>2. ItemsOfForm \subseteq [part : PartNames, number : STRING]
    BY ItemsHaveParts
<1>3. ASSUME NEW c \in exact, NEW d \in exact PROVE c = d
    <2>1. /\ c \in ItemsOfForm /\ c.part = part /\ c.number = number
          /\ d \in ItemsOfForm /\ d.part = part /\ d.number = number
        OBVIOUS
    <2>2. c \in [part : PartNames, number : STRING] /\ d \in [part : PartNames, number : STRING]
        BY <1>2, <2>1
    <2> QED
        BY <2>1, <2>2
<1>4. ASSUME NEW c \in numbered, NEW d \in numbered, numbered = {c}, numbered = {d} PROVE c = d
    BY <1>4
<1> HIDE DEF numbered, exact
<1>5. exact \subseteq numbered /\ numbered \subseteq ItemsOfForm
    BY DEF numbered, exact
<1> QED
    BY <1>1, <1>3, <1>4, <1>5

(* Where the form has no parts, every part is as good as another.          *)
LEMMA LookupAnyPart ==
    ASSUME WithoutParts, NEW part, NEW other, NEW number
    PROVE  Lookup(part, number) = Lookup(other, number)
<1> DEFINE numbered == {c \in ItemsOfForm : c.number = number}
           exact(p) == {c \in numbered : c.part = p}
<1>1. \A p : Lookup(p, number) = IF exact(p) # {} THEN exact(p) ELSE {c \in numbered : numbered = {c}}
    BY DEF Lookup, ItemsOfForm
<1>2. \A c, d \in ItemsOfForm : c.number = d.number => c = d
    BY CatalogAssumption DEF WithoutParts, ItemsOfForm
<1>3. \A c \in numbered : numbered = {c}
    BY <1>2
<1>4. ASSUME NEW p PROVE Lookup(p, number) = numbered
    <2>1. exact(p) \subseteq numbered
        OBVIOUS
    <2> HIDE DEF numbered, exact
    <2>2. CASE exact(p) # {}
        <3>1. exact(p) = numbered
            BY <1>3, <2>1, <2>2
        <3> QED
            BY <1>1, <2>2, <3>1
    <2>3. CASE exact(p) = {}
        BY <1>1, <1>3, <2>3
    <2> QED
        BY <2>2, <2>3
<1> QED
    BY <1>4

(* What a line does to the scan.                                           *)
Kept(scan, line) == scan.contents /\ (line.part # Unnamed => line.part \notin scan.parts)
PartsWith(scan, line) ==
    IF scan.contents /\ line.part # Unnamed THEN scan.parts \cup {line.part} ELSE scan.parts
Read(scan, line, s, found, item) ==
    /\ s \in Scans /\ s.at = scan.at + 1
    /\ s.part = IF line.part # Unnamed THEN line.part ELSE scan.part
    /\ line.kind = "contents" => s.contents = TRUE /\ s.items = {} /\ s.parts = {}
    /\ line.kind # "contents" => s.parts = PartsWith(scan, line)
    /\ line.kind = "item" /\ found # {} =>
           /\ s.contents <=> Kept(scan, line) /\ item \notin scan.items
           /\ s.items = (IF line.marked /\ s.contents THEN scan.items \cup {item} ELSE scan.items)
    /\ line.kind # "contents" /\ (line.kind # "item" \/ found = {}) =>
           (s.contents <=> Kept(scan, line)) /\ s.items = scan.items
    /\ s.headings = (IF line.kind = "item" /\ line.marked /\ found # {}
                     THEN scan.headings \cup {[item |-> item, start |-> scan.at + 1,
                                               toc |-> s.contents \/ line.dotted]}
                     ELSE scan.headings)

With(scan, part, flag, items, parts, headings) ==
    [scan EXCEPT !.part = part, !.contents = (flag = 1), !.items = items,
                 !.parts = parts, !.headings = headings]

LEMMA ScanWith ==
    ASSUME NEW scan \in Scans, NEW part \in PartNames, NEW flag \in {0, 1},
           NEW items \in SetsOfItems, NEW parts \in SetsOfParts,
           NEW headings \in SetsOfHeadings,
           NEW s, s = With(scan, part, flag, items, parts, headings)
    PROVE  /\ s \in Scans /\ s.at = scan.at /\ s.part = part /\ (s.contents <=> flag = 1)
           /\ s.items = items /\ s.parts = parts /\ s.headings = headings
BY DEF Scans, With

(* The scan of a line before its item is read.                             *)
Place(scan, line) ==
    LET next == [scan EXCEPT !.at = @ + 1]
    IN IF line.part # Unnamed THEN ReadPart(next, line.part) ELSE next

LEMMA PartsAreRead ==
    ASSUME NEW scan \in Scans, NEW line \in Lines, NEW s, s = Place(scan, line)
    PROVE  /\ s \in Scans /\ s.at = scan.at + 1
           /\ s.part = IF line.part # Unnamed THEN line.part ELSE scan.part
           /\ s.contents <=> Kept(scan, line)
           /\ s.parts = PartsWith(scan, line)
           /\ s.items = scan.items /\ s.headings = scan.headings
<1> DEFINE next == [scan EXCEPT !.at = @ + 1]
<1>1. /\ next \in Scans /\ next.at = scan.at + 1 /\ next.part = scan.part /\ next.contents = scan.contents
      /\ next.items = scan.items /\ next.parts = scan.parts /\ next.headings = scan.headings
    BY DEF Scans
<1>2. line.part \in PartNames
    BY DEF Lines, PartNames
<1>3. /\ scan.contents \in BOOLEAN /\ scan.part \in PartNames /\ scan.items \in SetsOfItems
      /\ scan.parts \in SetsOfParts /\ scan.at \in Nat
      /\ scan.headings \in SetsOfHeadings
    BY DEF Scans
<1>4. s = IF line.part # Unnamed THEN ReadPart(next, line.part) ELSE next
    BY DEF Place
<1> HIDE DEF next
<1>5. CASE line.part # Unnamed
    <2>1. s = ReadPart(next, line.part)
        BY <1>4, <1>5
    <2>2. PICK q : q = IF scan.contents THEN scan.parts \cup {line.part} ELSE scan.parts
        OBVIOUS
    <2>3. PICK flag \in {0, 1} : (flag = 1) = (scan.contents /\ line.part \notin scan.parts)
        BY <1>3
    <2>4. PICK p : p = line.part /\ p \in PartNames
        BY <1>2
    <2>5. s = [next EXCEPT !.part = p, !.contents = (flag = 1), !.parts = q]
        BY <1>1, <2>1, <2>2, <2>3, <2>4 DEF ReadPart
    <2>10. PICK items, headings : items = next.items /\ headings = next.headings
        OBVIOUS
    <2>6. s = With(next, p, flag, items, q, headings)
        BY <1>1, <2>5, <2>10 DEF Scans, With
    <2>7. q \in SetsOfParts
        BY <1>2, <1>3, <2>2 DEF SetsOfParts
    <2>11. next \in Scans /\ items \in SetsOfItems /\ headings \in SetsOfHeadings
        BY <1>1, <1>3, <2>10
    <2>8. /\ s \in Scans /\ s.at = next.at /\ s.part = p /\ (s.contents <=> flag = 1)
          /\ s.items = items /\ s.parts = q /\ s.headings = headings
        BY <2>4, <2>6, <2>7, <2>11, ScanWith
    <2>9. s.contents <=> scan.contents /\ line.part \notin scan.parts
        BY <1>3, <2>3, <2>8
    <2> QED
        BY <1>1, <1>5, <2>2, <2>4, <2>8, <2>9, <2>10 DEF Kept, PartsWith
<1>6. CASE line.part = Unnamed
    <2>1. s = next
        BY <1>4, <1>6
    <2> QED
        BY <1>1, <1>6, <2>1 DEF Kept, PartsWith
<1> QED
    BY <1>5, <1>6

LEMMA ReadLineReads ==
    ASSUME NEW scan \in Scans, NEW line \in Lines, NEW s, s = ReadLine(scan, line),
           NEW found, found = FoundBy(scan, line), NEW item, item = One(found)
    PROVE  Read(scan, line, s, found, item)
<1>1. PICK placed : placed = Place(scan, line)
    OBVIOUS
<1>2. /\ placed \in Scans /\ placed.at = scan.at + 1
      /\ placed.part = IF line.part # Unnamed THEN line.part ELSE scan.part
      /\ placed.contents <=> Kept(scan, line)
      /\ placed.parts = PartsWith(scan, line)
      /\ placed.items = scan.items /\ placed.headings = scan.headings
    BY <1>1, PartsAreRead
<1>3. /\ line.kind \in {"contents", "part", "item", "text", "note"} /\ line.part \in PartNames
      /\ line.marked \in BOOLEAN /\ line.dotted \in BOOLEAN
      /\ line.kind = "contents" => line.part = Unnamed
    BY DEF Lines, PartNames
<1>4. /\ placed.contents \in BOOLEAN /\ placed.part \in PartNames /\ placed.items \in SetsOfItems
      /\ placed.parts \in SetsOfParts /\ placed.at \in Nat
      /\ placed.headings \in SetsOfHeadings
    BY <1>2 DEF Scans
<1>5. found \subseteq ItemsOfForm /\ (found # {} => item \in ItemsOfForm)
    <2>1. found \subseteq ItemsOfForm
        BY LookupFinds DEF FoundBy
    <2> QED
        BY <2>1 DEF One
<1>6. found = Lookup(placed.part, line.number)
    BY <1>2 DEF FoundBy
<1>7. s = CASE line.kind = "contents" -> ReadContents([scan EXCEPT !.at = @ + 1])
            [] line.kind = "item" /\ found # {} -> ReadItem(placed, line, item)
            [] OTHER -> placed
    BY <1>1, <1>6 DEF ReadLine, One, Place
<1>8. PICK part, items, parts, headings :
          /\ part = placed.part /\ items = placed.items /\ parts = placed.parts
          /\ headings = placed.headings
    OBVIOUS
<1>9. /\ part \in PartNames /\ items \in SetsOfItems /\ parts \in SetsOfParts
      /\ headings \in SetsOfHeadings /\ {} \in SetsOfItems /\ {} \in SetsOfParts
    BY <1>4, <1>8 DEF SetsOfItems, SetsOfParts
<1>10. CASE line.kind = "contents"
    <2>1. placed = [scan EXCEPT !.at = @ + 1]
        BY <1>1, <1>3, <1>10 DEF Place
    <2>2. s = [placed EXCEPT !.contents = TRUE, !.items = {}, !.parts = {}]
        BY <1>7, <1>10, <2>1 DEF ReadContents
    <2>3. PICK flag, none : flag = 1 /\ none = {} /\ flag \in {0, 1}
        OBVIOUS
    <2>4. s = With(placed, part, flag, none, none, headings)
        BY <1>2, <1>8, <2>2, <2>3 DEF Scans, With
    <2>5. s \in Scans /\ s.at = placed.at /\ s.part = part /\ (s.contents <=> flag = 1)
          /\ s.items = none /\ s.parts = none /\ s.headings = headings
        BY <1>2, <1>9, <2>3, <2>4, ScanWith
    <2> QED
        BY <1>2, <1>8, <1>10, <2>3, <2>5 DEF Read
<1>11. CASE line.kind = "item" /\ found # {}
    <2>1. s = ReadItem(placed, line, item)
        BY <1>7, <1>11
    <2>2. item \in ItemsOfForm
        BY <1>5, <1>11
    <2>3. PICK flag \in {0, 1} : (flag = 1) = (placed.contents /\ item \notin placed.items)
        BY <1>4
    <2>4. PICK i : i = IF line.marked /\ flag = 1 THEN placed.items \cup {item} ELSE placed.items
        OBVIOUS
    <2>5. PICK toc \in BOOLEAN : toc = (flag = 1 \/ line.dotted)
        BY <1>3
    <2>6. PICK h : h = IF line.marked
                       THEN placed.headings \cup {[item |-> item, start |-> placed.at, toc |-> toc]}
                       ELSE placed.headings
        OBVIOUS
    <2>7. s = With(placed, part, flag, i, parts, h)
        <3>1. CASE line.marked
            <4>1. s = [placed EXCEPT !.contents = (flag = 1), !.items = i, !.headings = h]
                BY <1>4, <2>1, <2>3, <2>4, <2>5, <2>6, <3>1 DEF ReadItem
            <4> QED
                BY <1>2, <1>8, <4>1 DEF Scans, With
        <3>2. CASE ~line.marked
            <4>1. s = [placed EXCEPT !.contents = (flag = 1)]
                BY <1>4, <2>1, <2>3, <3>2 DEF ReadItem
            <4>2. i = placed.items /\ h = placed.headings
                BY <2>4, <2>6, <3>2
            <4> QED
                BY <1>2, <1>8, <4>1, <4>2 DEF Scans, With
        <3> QED
            BY <3>1, <3>2
    <2>8. i \in SetsOfItems
        BY <1>4, <2>2, <2>4 DEF SetsOfItems
    <2>9. h \in SetsOfHeadings
        BY <1>4, <2>2, <2>6 DEF SetsOfHeadings
    <2>10. /\ s \in Scans /\ s.at = placed.at /\ s.part = part /\ (s.contents <=> flag = 1)
           /\ s.items = i /\ s.parts = parts /\ s.headings = h
        BY <1>2, <1>9, <2>7, <2>8, <2>9, ScanWith
    <2>11. s.contents <=> Kept(scan, line) /\ item \notin scan.items
        BY <1>2, <2>3, <2>10
    <2>12. toc = (s.contents \/ line.dotted)
        BY <2>5, <2>10
    <2>13. s.items = IF line.marked /\ s.contents THEN scan.items \cup {item} ELSE scan.items
        BY <1>2, <2>4, <2>10
    <2>14. s.headings = IF line.marked
                        THEN scan.headings \cup {[item |-> item, start |-> scan.at + 1,
                                                  toc |-> s.contents \/ line.dotted]}
                        ELSE scan.headings
        BY <1>2, <2>6, <2>10, <2>12
    <2>15. /\ s \in Scans /\ s.at = scan.at + 1 /\ s.parts = PartsWith(scan, line)
           /\ s.part = IF line.part # Unnamed THEN line.part ELSE scan.part
        BY <1>2, <1>8, <2>10
    <2> QED
        BY <1>11, <2>11, <2>13, <2>14, <2>15 DEF Read
<1>12. CASE line.kind # "contents" /\ (line.kind # "item" \/ found = {})
    <2>1. s = placed
        BY <1>7, <1>12
    <2> QED
        BY <1>2, <1>12, <2>1 DEF Read
<1> QED
    BY <1>10, <1>11, <1>12

(* A heading found is on a line that names an item, in the table of        *)
(* contents where the scan is in one.                                      *)
Found(lines) == {i \in Names(lines) : ItemAt(lines, i) # {}}
HeadingAt(lines, i) == [item |-> One(ItemAt(lines, i)), start |-> i,
                        toc |-> Scan(lines)[i].contents \/ lines[i].dotted]
Scanned(lines, s, n) ==
    /\ s \in Scans /\ s.at = n /\ s.part = PartOf(lines, n)
    /\ s.headings = {HeadingAt(lines, i) : i \in Found(lines) \cap (1 .. n)}

LEMMA ScansStart ==
    ASSUME NEW lines
    PROVE  Scanned(lines, Start, 0)
<1>1. Found(lines) \cap (1 .. 0) = {}
    OBVIOUS
<1>2. {HeadingAt(lines, i) : i \in Found(lines) \cap (1 .. 0)} = {}
    BY <1>1
<1>3. Start \in Scans
    <2>1. {} \in SetsOfItems /\ {} \in SetsOfParts /\ {} \in SetsOfHeadings
        BY DEF SetsOfItems, SetsOfParts, SetsOfHeadings
    <2>2. Unnamed \in PartNames
        BY DEF PartNames
    <2> QED
        BY <2>1, <2>2 DEF Start, Scans
<1> QED
    BY <1>2, <1>3, NoPartYet DEF Scanned, Start

(* The item a line names is looked up in the part the scan is in.          *)
LEMMA FoundAtLine ==
    ASSUME NEW lines, NEW n \in Nat \ {0}, n \in DOMAIN lines, NEW scan, scan.part = PartOf(lines, n - 1),
           lines[n].kind = "item"
    PROVE  FoundBy(scan, lines[n]) = ItemAt(lines, n)
<1>1. PartOf(lines, n) = IF lines[n].part # Unnamed THEN lines[n].part ELSE scan.part
    BY PartOfLine
<1> QED
    BY <1>1 DEF FoundBy, ItemAt

LEMMA ScanAdds ==
    ASSUME NEW lines \in Seq(Lines), NEW n \in 1 .. Len(lines),
           Scanned(lines, Scan(lines)[n - 1], n - 1)
    PROVE  /\ Scanned(lines, Scan(lines)[n], n)
           /\ Read(Scan(lines)[n - 1], lines[n], Scan(lines)[n],
                   FoundBy(Scan(lines)[n - 1], lines[n]), One(FoundBy(Scan(lines)[n - 1], lines[n])))
<1>1. PICK scan, s, line, found, item :
          /\ scan = Scan(lines)[n - 1] /\ s = Scan(lines)[n] /\ line = lines[n]
          /\ found = FoundBy(scan, line) /\ item = One(found)
    OBVIOUS
<1>2. /\ n \in Nat \ {0} /\ n - 1 \in Nat /\ n - 1 \in 0 .. Len(lines) /\ n \in DOMAIN lines
      /\ line \in Lines /\ (n - 1) + 1 = n
    BY <1>1, ElementOfSeq, LenProperties
<1>3. s = ReadLine(scan, line)
    BY <1>1, ScanReads, LenProperties
<1>4. scan \in Scans /\ scan.at = n - 1 /\ scan.part = PartOf(lines, n - 1)
    BY <1>1 DEF Scanned
<1>5. Read(scan, line, s, found, item)
    BY <1>1, <1>2, <1>3, <1>4, ReadLineReads
<1>6. s \in Scans /\ s.at = n /\ s.part = PartOf(lines, n)
    BY <1>1, <1>2, <1>4, <1>5, PartOfLine DEF Read
<1>7. ASSUME line.kind = "item" PROVE found = ItemAt(lines, n)
    BY <1>1, <1>2, <1>4, <1>7, FoundAtLine
<1> DEFINE Before == {HeadingAt(lines, i) : i \in Found(lines) \cap (1 .. (n - 1))}
           Now == {HeadingAt(lines, i) : i \in Found(lines) \cap (1 .. n)}
<1>8. scan.headings = Before
    BY <1>1 DEF Scanned
<1>9. n \in Found(lines) <=> line.kind = "item" /\ line.marked /\ found # {}
    BY <1>1, <1>2, <1>7 DEF Found, Names
<1>10. s.headings = Now
    <2>1. CASE n \in Found(lines)
        <3>1. Found(lines) \cap (1 .. n) = (Found(lines) \cap (1 .. (n - 1))) \cup {n}
            BY <1>2, <2>1
        <3>2. Now = Before \cup {HeadingAt(lines, n)}
            BY <3>1
        <3>3. s.headings = scan.headings \cup {[item |-> item, start |-> scan.at + 1,
                                                toc |-> s.contents \/ line.dotted]}
            BY <1>5, <1>9, <2>1 DEF Read
        <3>4. HeadingAt(lines, n) = [item |-> item, start |-> scan.at + 1, toc |-> s.contents \/ line.dotted]
            BY <1>1, <1>2, <1>4, <1>7, <1>9, <2>1 DEF HeadingAt
        <3> QED
            BY <1>8, <3>2, <3>3, <3>4
    <2>2. CASE n \notin Found(lines)
        <3>1. Found(lines) \cap (1 .. n) = Found(lines) \cap (1 .. (n - 1))
            BY <1>2, <2>2
        <3>2. s.headings = scan.headings
            BY <1>5, <1>9, <2>2 DEF Read
        <3> QED
            BY <1>8, <3>1, <3>2
    <2> QED
        BY <2>1, <2>2
<1> QED
    BY <1>1, <1>5, <1>6, <1>10 DEF Scanned

LEMMA ScansHold ==
    ASSUME NEW lines \in Seq(Lines), NEW n \in 0 .. Len(lines)
    PROVE  Scanned(lines, Scan(lines)[n], n)
<1> DEFINE S == {m \in Nat : m <= Len(lines) => Scanned(lines, Scan(lines)[m], m)}
<1>1. Len(lines) \in Nat
    BY LenProperties
<1>2. 0 \in S
    BY <1>1, ScanReads, ScansStart
<1>3. ASSUME NEW m \in Nat, m \in S PROVE m + 1 \in S
    <2> SUFFICES ASSUME m + 1 <= Len(lines) PROVE Scanned(lines, Scan(lines)[m + 1], m + 1)
        OBVIOUS
    <2>1. PICK k : k = m + 1 /\ k \in 1 .. Len(lines) /\ k - 1 = m
        BY <1>1
    <2>2. Scanned(lines, Scan(lines)[k - 1], k - 1)
        BY <1>1, <1>3, <2>1
    <2> QED
        BY <2>1, <2>2, ScanAdds
<1> HIDE DEF S
<1>4. n \in S
    BY <1>1, <1>2, <1>3, Induct
<1> QED
    BY <1>1, <1>4 DEF S

LEMMA HeadingsAreFound ==
    ASSUME NEW lines \in Seq(Lines)
    PROVE  /\ FindHeadings(lines) = {HeadingAt(lines, i) : i \in Found(lines)}
           /\ Found(lines) \subseteq 1 .. Len(lines)
<1>1. Len(lines) \in Nat /\ Len(lines) \in 0 .. Len(lines) /\ DOMAIN lines = 1 .. Len(lines)
    BY LenProperties
<1>2. Found(lines) \subseteq 1 .. Len(lines)
    BY <1>1 DEF Found, Names
<1>3. Found(lines) \cap (1 .. Len(lines)) = Found(lines)
    BY <1>2
<1>4. Scan(lines)[Len(lines)].headings = {HeadingAt(lines, i) : i \in Found(lines) \cap (1 .. Len(lines))}
    BY <1>1, ScansHold DEF Scanned
<1> QED
    BY <1>2, <1>3, <1>4 DEF FindHeadings

(* What a line does to the table of contents, and to what it has listed.   *)
ReadsTable(lines, n, scan, s) ==
    /\ scan.contents \in BOOLEAN /\ s.contents \in BOOLEAN
    /\ lines[n].kind = "contents" => s.contents /\ s.items = {} /\ s.parts = {}
    /\ lines[n].kind # "contents" => s.parts = PartsWith(scan, lines[n])
    /\ lines[n].kind = "item" /\ ItemAt(lines, n) # {} =>
           /\ s.contents <=> Kept(scan, lines[n]) /\ One(ItemAt(lines, n)) \notin scan.items
           /\ s.items = (IF lines[n].marked /\ s.contents
                         THEN scan.items \cup {One(ItemAt(lines, n))} ELSE scan.items)
    /\ lines[n].kind # "contents" /\ (lines[n].kind # "item" \/ ItemAt(lines, n) = {}) =>
           (s.contents <=> Kept(scan, lines[n])) /\ s.items = scan.items

LEMMA TablesAreRead ==
    ASSUME NEW lines \in Seq(Lines), NEW n \in 1 .. Len(lines)
    PROVE  ReadsTable(lines, n, Scan(lines)[n - 1], Scan(lines)[n])
<1>1. PICK scan, s, line, found, item :
          /\ scan = Scan(lines)[n - 1] /\ s = Scan(lines)[n] /\ line = lines[n]
          /\ found = FoundBy(scan, line) /\ item = One(found)
    OBVIOUS
<1>2. n - 1 \in 0 .. Len(lines) /\ n \in Nat \ {0} /\ n \in DOMAIN lines
    BY LenProperties
<1>3. Scanned(lines, Scan(lines)[n - 1], n - 1)
    BY <1>2, ScansHold
<1>4. Read(scan, line, s, found, item)
    BY <1>1, <1>3, ScanAdds
<1>5. scan.part = PartOf(lines, n - 1) /\ scan.contents \in BOOLEAN /\ s.contents \in BOOLEAN
    <2>1. scan \in Scans /\ s \in Scans /\ scan.part = PartOf(lines, n - 1)
        BY <1>1, <1>3, <1>4 DEF Scanned, Read
    <2> QED
        BY <2>1 DEF Scans
<1>6. ASSUME line.kind = "item" PROVE found = ItemAt(lines, n)
    BY <1>1, <1>2, <1>5, <1>6, FoundAtLine
<1>7. CASE line.kind = "contents"
    BY <1>1, <1>4, <1>5, <1>7 DEF Read, ReadsTable
<1>8. CASE line.kind = "item"
    BY <1>1, <1>4, <1>5, <1>6, <1>8 DEF Read, ReadsTable
<1>9. CASE line.kind \notin {"contents", "item"}
    BY <1>1, <1>4, <1>5, <1>9 DEF Read, ReadsTable
<1> QED
    BY <1>7, <1>8, <1>9

(* A document whose table is not titled so is read as its body is.         *)
LEMMA NoTable ==
    ASSUME NEW lines \in Seq(Lines), \A i \in DOMAIN lines : lines[i].kind # "contents",
           NEW n \in 0 .. Len(lines)
    PROVE  ~Scan(lines)[n].contents
<1> DEFINE S == {m \in Nat : m <= Len(lines) => ~Scan(lines)[m].contents}
<1>1. Len(lines) \in Nat /\ DOMAIN lines = 1 .. Len(lines)
    BY LenProperties
<1>2. 0 \in S
    <2>1. Scan(lines)[0] = Start /\ ~Start.contents
        BY <1>1, ScanReads DEF Start
    <2> QED
        BY <2>1
<1>3. ASSUME NEW m \in Nat, m \in S PROVE m + 1 \in S
    <2> SUFFICES ASSUME m + 1 <= Len(lines) PROVE ~Scan(lines)[m + 1].contents
        OBVIOUS
    <2>1. PICK k : k = m + 1 /\ k \in 1 .. Len(lines) /\ k - 1 = m
        BY <1>1
    <2>2. ~Scan(lines)[k - 1].contents
        BY <1>1, <1>3, <2>1
    <2>3. ReadsTable(lines, k, Scan(lines)[k - 1], Scan(lines)[k])
        BY <2>1, TablesAreRead
    <2>4. lines[k].kind # "contents"
        BY <1>1, <2>1
    <2> QED
        BY <2>1, <2>2, <2>3, <2>4 DEF ReadsTable, Kept
<1> HIDE DEF S
<1>4. n \in S
    BY <1>1, <1>2, <1>3, Induct
<1> QED
    BY <1>1, <1>4 DEF S

(* The first lines of a document are a table of contents, titled so.       *)
ItemsListed(lines, n) == {One(ItemAt(lines, i)) : i \in Found(lines) \cap (1 .. n)}
PartsListed(lines, n) == {lines[i].part : i \in {j \in 1 .. n : lines[j].part # Unnamed}}
Table(lines, front) ==
    /\ front \in 1 .. Len(lines)
    /\ \A i \in 1 .. Len(lines) : lines[i].kind = "contents" <=> i = 1
    /\ \A i, j \in 1 .. front : i < j /\ lines[i].part # Unnamed /\ lines[j].part # Unnamed =>
           lines[i].part # lines[j].part
    /\ \A i, j \in 1 .. front : i < j /\ i \in Names(lines) /\ lines[j].kind = "item" =>
           ItemAt(lines, i) \cap ItemAt(lines, j) = {}

InTable(lines, n) ==
    /\ Scan(lines)[n].contents
    /\ Scan(lines)[n].items = ItemsListed(lines, n)
    /\ Scan(lines)[n].parts = PartsListed(lines, n)

LEMMA ListedWith ==
    ASSUME NEW lines \in Seq(Lines), NEW n \in 1 .. Len(lines)
    PROVE  /\ ItemsListed(lines, n) = ItemsListed(lines, n - 1)
                  \cup (IF n \in Found(lines) THEN {One(ItemAt(lines, n))} ELSE {})
           /\ PartsListed(lines, n) = PartsListed(lines, n - 1)
                  \cup (IF lines[n].part # Unnamed THEN {lines[n].part} ELSE {})
<1>1. n \in Nat /\ n - 1 \in Nat /\ n \in 1 .. n
    BY LenProperties
<1>2. Found(lines) \cap (1 .. n) = (Found(lines) \cap (1 .. (n - 1)))
                                   \cup (IF n \in Found(lines) THEN {n} ELSE {})
    BY <1>1
<1>3. {j \in 1 .. n : lines[j].part # Unnamed} = {j \in 1 .. (n - 1) : lines[j].part # Unnamed}
          \cup (IF lines[n].part # Unnamed THEN {n} ELSE {})
    BY <1>1
<1>4. ItemsListed(lines, n) = ItemsListed(lines, n - 1)
          \cup (IF n \in Found(lines) THEN {One(ItemAt(lines, n))} ELSE {})
    BY <1>2 DEF ItemsListed
<1>5. PartsListed(lines, n) = PartsListed(lines, n - 1)
          \cup (IF lines[n].part # Unnamed THEN {lines[n].part} ELSE {})
    BY <1>3 DEF PartsListed
<1> QED
    BY <1>4, <1>5

LEMMA NoneListed == \A lines : ItemsListed(lines, 0) = {} /\ PartsListed(lines, 0) = {}
<1>1. 1 .. 0 = {}
    OBVIOUS
<1> QED
    BY <1>1 DEF ItemsListed, PartsListed

LEMMA TableLists ==
    ASSUME NEW lines \in Seq(Lines), NEW front, Table(lines, front), NEW n \in 1 .. front
    PROVE  InTable(lines, n)
<1> DEFINE S == {m \in Nat : m + 1 <= front => InTable(lines, m + 1)}
<1>1. /\ Len(lines) \in Nat /\ DOMAIN lines = 1 .. Len(lines) /\ front \in Nat /\ front <= Len(lines)
      /\ 1 \in 1 .. Len(lines) /\ 1 - 1 = 0
    BY LenProperties DEF Table
<1>2. 0 \in S
    <2>1. lines[1].kind = "contents"
        BY <1>1 DEF Table
    <2>2. ReadsTable(lines, 1, Scan(lines)[0], Scan(lines)[1])
        BY <1>1, TablesAreRead
    <2>3. 1 \notin Found(lines)
        BY <2>1 DEF Found, Names
    <2>6. lines[1].part = Unnamed
        <3>1. lines[1] \in Lines
            BY <1>1, ElementOfSeq
        <3> QED
            BY <2>1, <3>1 DEF Lines
    <2>4. ItemsListed(lines, 1) = {} /\ PartsListed(lines, 1) = {}
        BY <1>1, <2>3, <2>6, ListedWith, NoneListed
    <2>5. InTable(lines, 1)
        BY <2>1, <2>2, <2>4 DEF ReadsTable, InTable
    <2> QED
        BY <2>5
<1>3. ASSUME NEW m \in Nat, m \in S PROVE m + 1 \in S
    <2> SUFFICES ASSUME (m + 1) + 1 <= front PROVE InTable(lines, (m + 1) + 1)
        OBVIOUS
    <2>1. PICK k : k = (m + 1) + 1 /\ k \in 1 .. Len(lines) /\ k \in 1 .. front /\ k - 1 = m + 1 /\ k # 1
        BY <1>1
    <2>2. InTable(lines, k - 1)
        BY <1>1, <1>3, <2>1
    <2>3. ReadsTable(lines, k, Scan(lines)[k - 1], Scan(lines)[k])
        BY <2>1, TablesAreRead
    <2>4. lines[k].kind # "contents"
        BY <2>1 DEF Table
    <2>5. \A i \in 1 .. (k - 1) : i \in 1 .. front /\ i < k
        BY <1>1, <2>1
    <2>6. ASSUME lines[k].part # Unnamed PROVE lines[k].part \notin PartsListed(lines, k - 1)
        BY <2>1, <2>5, <2>6 DEF PartsListed, Table
    <2>7. ASSUME lines[k].kind = "item", ItemAt(lines, k) # {}
          PROVE  One(ItemAt(lines, k)) \notin ItemsListed(lines, k - 1)
        <3>1. ASSUME NEW i \in Found(lines) \cap (1 .. (k - 1)), One(ItemAt(lines, k)) = One(ItemAt(lines, i))
              PROVE  FALSE
            <4>1. i \in Names(lines) /\ ItemAt(lines, i) # {}
                BY DEF Found
            <4>2. ItemAt(lines, i) \cap ItemAt(lines, k) = {}
                BY <2>1, <2>5, <2>7, <4>1 DEF Table
            <4>3. One(ItemAt(lines, i)) \in ItemAt(lines, i) /\ One(ItemAt(lines, k)) \in ItemAt(lines, k)
                BY <2>7, <4>1 DEF One
            <4> QED
                BY <3>1, <4>2, <4>3
        <3> QED
            BY <3>1 DEF ItemsListed
    <2>8. k \in Found(lines) <=> lines[k].kind = "item" /\ lines[k].marked /\ ItemAt(lines, k) # {}
        BY <1>1, <2>1 DEF Found, Names
    <2>9. InTable(lines, k)
        <3>1. PICK scan, s : scan = Scan(lines)[k - 1] /\ s = Scan(lines)[k]
            OBVIOUS
        <3>2. ReadsTable(lines, k, scan, s)
            BY <2>3, <3>1
        <3>3. /\ scan.contents /\ scan.items = ItemsListed(lines, k - 1)
              /\ scan.parts = PartsListed(lines, k - 1)
            BY <2>2, <3>1 DEF InTable
        <3>4. PICK items, parts, listed, told :
                  /\ items = ItemsListed(lines, k - 1) /\ parts = PartsListed(lines, k - 1)
                  /\ listed = ItemsListed(lines, k) /\ told = PartsListed(lines, k)
            OBVIOUS
        <3>5. /\ listed = items \cup (IF k \in Found(lines) THEN {One(ItemAt(lines, k))} ELSE {})
              /\ told = parts \cup (IF lines[k].part # Unnamed THEN {lines[k].part} ELSE {})
            BY <2>1, <3>4, ListedWith
        <3>6. s.contents /\ s.items = listed /\ s.parts = told
            <4>4. Kept(scan, lines[k])
                BY <2>6, <3>3 DEF Kept
            <4>5. s.parts = told
                BY <2>4, <3>2, <3>3, <3>4, <3>5 DEF ReadsTable, PartsWith
            <4>1. CASE lines[k].kind = "item" /\ ItemAt(lines, k) # {}
                <5>1. /\ s.contents <=> Kept(scan, lines[k]) /\ One(ItemAt(lines, k)) \notin scan.items
                      /\ s.items = (IF lines[k].marked /\ s.contents
                                    THEN scan.items \cup {One(ItemAt(lines, k))} ELSE scan.items)
                    BY <3>2, <4>1 DEF ReadsTable
                <5>3. listed = IF lines[k].marked THEN items \cup {One(ItemAt(lines, k))} ELSE items
                    BY <2>8, <3>5, <4>1
                <5>4. s.contents
                    BY <2>7, <3>3, <4>1, <4>4, <5>1
                <5> QED
                    BY <3>3, <3>4, <4>5, <5>1, <5>3, <5>4
            <4>2. CASE lines[k].kind # "item" \/ ItemAt(lines, k) = {}
                <5>1. (s.contents <=> Kept(scan, lines[k])) /\ s.items = scan.items
                    BY <2>4, <3>2, <4>2 DEF ReadsTable
                <5>2. listed = items
                    BY <2>8, <3>5, <4>2
                <5> QED
                    BY <3>3, <3>4, <4>4, <4>5, <5>1, <5>2
            <4> QED
                BY <4>1, <4>2
        <3> QED
            BY <3>1, <3>4, <3>6 DEF InTable
    <2> QED
        BY <2>1, <2>9
<1> HIDE DEF S
<1>4. n - 1 \in S
    BY <1>1, <1>2, <1>3, Induct
<1> QED
    BY <1>1, <1>4 DEF S

(* What the table has listed is known as long as it lasts: nothing of it   *)
(* has been read again.                                                    *)
StillInTable(lines, front, n) ==
    Scan(lines)[n].contents =>
        /\ ItemsListed(lines, front) \subseteq Scan(lines)[n].items
        /\ PartsListed(lines, front) \subseteq Scan(lines)[n].parts
        /\ n > front /\ lines[front + 1].part # Unnamed => lines[front + 1].part \notin PartsListed(lines, front)
        /\ \A i \in Found(lines) : front < i /\ i <= n =>
               One(ItemAt(lines, i)) \notin ItemsListed(lines, front)

LEMMA TableLasts ==
    ASSUME NEW lines \in Seq(Lines), NEW front, Table(lines, front), NEW n \in front .. Len(lines)
    PROVE  StillInTable(lines, front, n)
<1> DEFINE S == {m \in Nat : front + m <= Len(lines) => StillInTable(lines, front, front + m)}
<1>1. /\ Len(lines) \in Nat /\ DOMAIN lines = 1 .. Len(lines)
      /\ front \in Nat /\ front # 0 /\ front \in 1 .. front /\ front <= Len(lines)
    BY LenProperties DEF Table
<1>2. Found(lines) \subseteq Nat
    BY HeadingsAreFound
<1>3. 0 \in S
    <2>1. InTable(lines, front)
        BY <1>1, TableLists
    <2>2. front + 0 = front /\ ~(front > front) /\ \A i \in Nat : ~(front < i /\ i <= front)
        BY <1>1
    <2>3. StillInTable(lines, front, front)
        BY <1>2, <2>1, <2>2 DEF InTable, StillInTable
    <2> QED
        BY <2>2, <2>3
<1>4. ASSUME NEW m \in Nat, m \in S PROVE m + 1 \in S
    <2> SUFFICES ASSUME front + (m + 1) <= Len(lines) PROVE StillInTable(lines, front, front + (m + 1))
        OBVIOUS
    <2>1. PICK k : k = front + (m + 1) /\ k \in 1 .. Len(lines) /\ k - 1 = front + m /\ k > front /\ k # 1
        BY <1>1
    <2>2. StillInTable(lines, front, k - 1)
        BY <1>1, <1>4, <2>1
    <2>3. PICK scan, s, items, parts :
              /\ scan = Scan(lines)[k - 1] /\ s = Scan(lines)[k]
              /\ items = ItemsListed(lines, front) /\ parts = PartsListed(lines, front)
        OBVIOUS
    <2>4. ReadsTable(lines, k, scan, s)
        BY <2>1, <2>3, TablesAreRead
    <2>5. lines[k].kind # "contents"
        BY <2>1 DEF Table
    <2> SUFFICES ASSUME s.contents PROVE StillInTable(lines, front, k)
        BY <2>1, <2>3 DEF StillInTable
    <2>6. scan.contents /\ scan.items \subseteq s.items /\ scan.parts \subseteq s.parts
        BY <2>4, <2>5 DEF ReadsTable, Kept, PartsWith
    <2>7. /\ items \subseteq scan.items /\ parts \subseteq scan.parts
          /\ k - 1 > front /\ lines[front + 1].part # Unnamed => lines[front + 1].part \notin parts
          /\ \A i \in Found(lines) : front < i /\ i <= k - 1 => One(ItemAt(lines, i)) \notin items
        BY <2>2, <2>3, <2>6 DEF StillInTable
    <2>8. ASSUME lines[front + 1].part # Unnamed PROVE lines[front + 1].part \notin parts
        <3>1. CASE k - 1 > front
            BY <2>7, <2>8, <3>1
        <3>2. CASE k - 1 = front
            <4>1. front + 1 = k /\ lines[k].part # Unnamed
                BY <1>1, <2>1, <2>8, <3>2
            <4>2. Kept(scan, lines[k])
                BY <2>4, <2>5 DEF ReadsTable
            <4>3. lines[k].part \notin scan.parts
                BY <4>1, <4>2 DEF Kept
            <4> QED
                BY <2>7, <4>1, <4>3
        <3> QED
            BY <1>1, <2>1, <3>1, <3>2
    <2>9. ASSUME k \in Found(lines) PROVE One(ItemAt(lines, k)) \notin items
        <3>1. lines[k].kind = "item" /\ ItemAt(lines, k) # {}
            BY <2>9 DEF Found, Names
        <3>2. One(ItemAt(lines, k)) \notin scan.items
            BY <2>4, <3>1 DEF ReadsTable
        <3> QED
            BY <2>7, <3>2
    <2>10. ASSUME NEW i \in Found(lines), front < i, i <= k
           PROVE  One(ItemAt(lines, i)) \notin items
        <3>1. i \in Nat /\ k \in Nat
            BY <1>2, <2>1
        <3>2. i = k \/ i <= k - 1
            BY <2>10, <3>1
        <3> QED
            BY <2>7, <2>9, <2>10, <3>2
    <2> QED
        BY <2>3, <2>6, <2>7, <2>8, <2>10 DEF StillInTable
<1> HIDE DEF S
<1>5. n - front \in Nat /\ front + (n - front) = n /\ n <= Len(lines)
    BY <1>1
<1>6. n - front \in S
    BY <1>3, <1>4, <1>5, Induct
<1> QED
    BY <1>5, <1>6 DEF S

(* Where the table lists the part the body begins with, or the item it     *)
(* names first, no item the body names is taken for one of the table's.    *)
LEMMA TableEnds ==
    ASSUME NEW lines \in Seq(Lines), NEW front, Table(lines, front), NEW n \in Found(lines), front < n,
           \/ lines[front + 1].part \in PartsListed(lines, front)
           \/ \A first \in Found(lines) :
                  front < first /\ (\A i \in Found(lines) : front < i => first <= i) =>
                      One(ItemAt(lines, first)) \in ItemsListed(lines, front)
    PROVE  ~Scan(lines)[n].contents
<1>1. Found(lines) \subseteq Nat /\ Found(lines) \subseteq 1 .. Len(lines) /\ Len(lines) \in Nat /\ front \in Nat
    BY HeadingsAreFound, LenProperties DEF Table
<1>2. n \in front .. Len(lines) /\ n > front
    BY <1>1
<1>3. StillInTable(lines, front, n)
    BY <1>2, TableLasts
<1> SUFFICES ASSUME Scan(lines)[n].contents PROVE FALSE
    OBVIOUS
<1>4. CASE lines[front + 1].part \in PartsListed(lines, front)
    <2>1. lines[front + 1].part # Unnamed
        BY <1>4 DEF PartsListed
    <2> QED
        BY <1>2, <1>3, <1>4, <2>1 DEF StillInTable
<1>5. CASE lines[front + 1].part \notin PartsListed(lines, front)
    <2> DEFINE Later == {i \in Found(lines) : front < i}
    <2>1. Later \subseteq Nat /\ Later # {}
        BY <1>1
    <2>2. PICK first \in Later : \A i \in Later : ~(i < first)
        BY <2>1, LeastOf
    <2>3. first \in Found(lines) /\ front < first /\ \A i \in Found(lines) : front < i => first <= i
        BY <1>1, <2>2
    <2>4. One(ItemAt(lines, first)) \in ItemsListed(lines, front)
        BY <1>5, <2>3
    <2> QED
        BY <1>3, <2>3, <2>4 DEF StillInTable
<1> QED
    BY <1>4, <1>5

LEMMA MinOf ==
    ASSUME NEW S, S \subseteq Nat, S # {}
    PROVE  Min(S) \in S /\ \A n \in S : Min(S) <= n
<1>1. PICK m \in S : \A n \in S : ~(n < m)
    BY LeastOf
<1>2. \A n \in S : m <= n
    BY <1>1
<1> QED
    BY <1>2 DEF Min

(* What a heading has under it: the lines up to the next item named.       *)
Under(lines, i) == {k \in (i + 1) .. Len(lines) : Found(lines) \cap ((i + 1) .. k) = {}}
Long(lines, i) == \E k \in Under(lines, i) : lines[k].kind = "text"
Usable(lines, i, item) ==
    /\ i \in Found(lines) /\ One(ItemAt(lines, i)) = item /\ Under(lines, i) # {}
    /\ ~Scan(lines)[i].contents /\ ~lines[i].dotted

LEMMA ContentIsUnder ==
    ASSUME NEW lines \in Seq(Lines), NEW i \in Found(lines)
    PROVE  Content(lines, FindHeadings(lines), HeadingAt(lines, i)) = Under(lines, i)
<1>1. /\ Found(lines) \subseteq Nat /\ Found(lines) \subseteq 1 .. Len(lines) /\ Len(lines) \in Nat
      /\ FindHeadings(lines) = {HeadingAt(lines, j) : j \in Found(lines)}
    BY HeadingsAreFound, LenProperties
<1>2. \A j : HeadingAt(lines, j).start = j
    BY DEF HeadingAt
<1> DEFINE later == {j \in Found(lines) : j > i}
           ends == {Len(lines) + 1} \cup later
<1>3. {g.start : g \in {x \in FindHeadings(lines) : x.start > HeadingAt(lines, i).start}} = later
    BY <1>1, <1>2
<1>4. SectionEnd(lines, FindHeadings(lines), HeadingAt(lines, i)) = Min(ends)
    BY <1>3 DEF SectionEnd
<1>5. ends \subseteq Nat /\ ends # {}
    BY <1>1
<1>6. PICK m : m = Min(ends)
    OBVIOUS
<1>7. m \in ends /\ \A n \in ends : m <= n
    BY <1>5, <1>6, MinOf
<1>8. m \in Nat /\ m <= Len(lines) + 1 /\ \A j \in Found(lines) : j > i => m <= j
    BY <1>1, <1>5, <1>7
<1>9. i \in Nat /\ (m = Len(lines) + 1 \/ (m \in Found(lines) /\ m > i))
    BY <1>1, <1>7
<1>10. ASSUME NEW k \in (i + 1) .. (m - 1) PROVE k \in Under(lines, i)
    <2>1. k \in (i + 1) .. Len(lines)
        BY <1>1, <1>8, <1>9
    <2>2. ASSUME NEW j \in Found(lines), j \in (i + 1) .. k PROVE FALSE
        BY <1>1, <1>8, <1>9, <2>2
    <2> QED
        BY <2>1, <2>2 DEF Under
<1>11. ASSUME NEW k \in Under(lines, i) PROVE k \in (i + 1) .. (m - 1)
    <2>1. k \in (i + 1) .. Len(lines) /\ Found(lines) \cap ((i + 1) .. k) = {}
        BY DEF Under
    <2>2. ASSUME m <= k PROVE FALSE
        <3>1. m \in Found(lines) /\ m \in (i + 1) .. k
            BY <1>1, <1>8, <1>9, <2>1, <2>2
        <3> QED
            BY <2>1, <3>1
    <2> QED
        BY <1>1, <1>8, <1>9, <2>1, <2>2
<1>12. Content(lines, FindHeadings(lines), HeadingAt(lines, i)) = (i + 1) .. (m - 1)
    BY <1>2, <1>4, <1>6 DEF Content
<1> QED
    BY <1>10, <1>11, <1>12

(* The headings of an item that can be its section's.                      *)
LEMMA BestIsUsable ==
    ASSUME NEW lines \in Seq(Lines), NEW item
    PROVE  /\ {h \in FindHeadings(lines) : h.item = item /\ ~h.toc
                     /\ Content(lines, FindHeadings(lines), h) # {}}
              = {HeadingAt(lines, i) : i \in {j \in Found(lines) : Usable(lines, j, item)}}
           /\ \A h \in BestHeading(lines, FindHeadings(lines), item) :
                  \E i \in Found(lines) : Usable(lines, i, item) /\ h = HeadingAt(lines, i)
<1> DEFINE Hs == FindHeadings(lines)
           usable == {h \in Hs : h.item = item /\ ~h.toc /\ Content(lines, Hs, h) # {}}
           those == {HeadingAt(lines, i) : i \in {j \in Found(lines) : Usable(lines, j, item)}}
<1>1. Hs = {HeadingAt(lines, i) : i \in Found(lines)}
    BY HeadingsAreFound
<1>2. ASSUME NEW i \in Found(lines), NEW h, h = HeadingAt(lines, i)
      PROVE  h.item = item /\ ~h.toc /\ Content(lines, Hs, h) # {} <=> Usable(lines, i, item)
    <2>1. Content(lines, Hs, h) = Under(lines, i)
        BY <1>2, ContentIsUnder
    <2>2. h.item = One(ItemAt(lines, i)) /\ (h.toc <=> Scan(lines)[i].contents \/ lines[i].dotted)
        BY <1>2 DEF HeadingAt
    <2> QED
        BY <2>1, <2>2 DEF Usable
<1>3. usable = those
    <2>1. ASSUME NEW h \in usable PROVE h \in those
        <3>1. PICK i \in Found(lines) : h = HeadingAt(lines, i)
            BY <1>1
        <3> QED
            BY <1>2, <3>1
    <2>2. ASSUME NEW h \in those PROVE h \in usable
        <3>1. PICK i \in Found(lines) : Usable(lines, i, item) /\ h = HeadingAt(lines, i)
            OBVIOUS
        <3> QED
            BY <1>1, <1>2, <3>1
    <2> QED
        BY <2>1, <2>2
<1>4. BestHeading(lines, Hs, item) \subseteq usable
    BY DEF BestHeading
<1> QED
    BY <1>3, <1>4

(* An item's section is the last of its headings, where no other has       *)
(* enough under it.                                                        *)
LEMMA BestIsTheOne ==
    ASSUME NEW lines \in Seq(Lines), NEW item, NEW i \in Found(lines), Usable(lines, i, item),
           \A j \in Found(lines) : Usable(lines, j, item) /\ j # i =>
               ~Long(lines, j) /\ (Long(lines, i) \/ j < i)
    PROVE  BestHeading(lines, FindHeadings(lines), item) = {HeadingAt(lines, i)}
<1> DEFINE Hs == FindHeadings(lines)
           usable == {h \in Hs : h.item = item /\ ~h.toc /\ Content(lines, Hs, h) # {}}
           long == {h \in usable : LongEnough(lines, Content(lines, Hs, h))}
           best == IF long # {} THEN long ELSE usable
           H(j) == HeadingAt(lines, j)
           U == {j \in Found(lines) : Usable(lines, j, item)}
<1>1. usable = {H(j) : j \in U} /\ i \in U
    BY BestIsUsable
<1>2. \A j \in U : H(j).start = j /\ (LongEnough(lines, Content(lines, Hs, H(j))) <=> Long(lines, j))
    BY ContentIsUnder DEF LongEnough, Long, HeadingAt
<1>3. Found(lines) \subseteq Nat /\ U \subseteq Nat
    BY HeadingsAreFound
<1>4. BestHeading(lines, Hs, item) = {h \in best : \A g \in best : g.start <= h.start}
    BY DEF BestHeading
<1> HIDE DEF H, U, Hs
<1>5. CASE Long(lines, i)
    <2>1. \A j \in U : Long(lines, j) <=> j = i
        BY <1>5 DEF U
    <2>2. long = {H(i)}
        BY <1>1, <1>2, <2>1
    <2>3. best = {H(i)}
        BY <2>2
    <2> QED
        BY <1>1, <1>2, <1>3, <1>4, <2>3 DEF H, Hs
<1>6. CASE ~Long(lines, i)
    <2>1. \A j \in U : ~Long(lines, j) /\ j <= i
        BY <1>3, <1>6 DEF U
    <2>2. long = {}
        BY <1>1, <1>2, <2>1
    <2>3. best = {H(j) : j \in U}
        BY <1>1, <2>2
    <2>4. \A g \in best : g.start <= H(i).start
        BY <1>1, <1>2, <2>1, <2>3
    <2>5. H(i) \in best
        BY <1>1, <2>3
    <2>6. ASSUME NEW h \in best, \A g \in best : g.start <= h.start PROVE h = H(i)
        <3>1. PICK j \in U : h = H(j)
            BY <2>3
        <3>2. i <= j
            BY <1>1, <1>2, <2>5, <2>6, <3>1
        <3>3. j = i
            BY <1>1, <1>3, <2>1, <3>2
        <3> QED
            BY <3>1, <3>3
    <2> HIDE DEF best
    <2> QED
        BY <1>4, <2>4, <2>5, <2>6 DEF H, Hs
<1> QED
    BY <1>5, <1>6

(* Each section is what one of its item's headings has under it.           *)
LEMMA SectionsAreUnder ==
    ASSUME NEW lines \in Seq(Lines), NEW item \in DOMAIN ParseFilingSections(lines)
    PROVE  \E i \in Found(lines) : Usable(lines, i, item)
                                   /\ ParseFilingSections(lines)[item] = Under(lines, i)
<1> DEFINE Hs == FindHeadings(lines)
           best == UNION {BestHeading(lines, Hs, c) : c \in ToSet(Catalog)}
           h == CHOOSE x \in best : x.item = item
<1>1. ParseFilingSections(lines) = [c \in {x.item : x \in best} |->
                                        Content(lines, Hs, CHOOSE x \in best : x.item = c)]
    BY DEF ParseFilingSections
<1>2. \E x \in best : x.item = item
    BY <1>1
<1>3. h \in best /\ h.item = item
    BY <1>2
<1>4. PICK c \in ToSet(Catalog) : h \in BestHeading(lines, Hs, c)
    BY <1>3
<1>5. PICK i \in Found(lines) : Usable(lines, i, c) /\ h = HeadingAt(lines, i)
    BY <1>4, BestIsUsable
<1>6. c = item
    BY <1>3, <1>5 DEF Usable, HeadingAt
<1>7. ParseFilingSections(lines)[item] = Content(lines, Hs, h)
    BY <1>1
<1> HIDE DEF h
<1>8. Content(lines, Hs, h) = Under(lines, i)
    BY <1>5, ContentIsUnder
<1> QED
    BY <1>5, <1>6, <1>7, <1>8

LEMMA SectionIsTheBest ==
    ASSUME NEW lines \in Seq(Lines), NEW item \in ItemsOfForm, NEW i \in Found(lines),
           BestHeading(lines, FindHeadings(lines), item) = {HeadingAt(lines, i)}
    PROVE  /\ item \in DOMAIN ParseFilingSections(lines)
           /\ ParseFilingSections(lines)[item] = Under(lines, i)
<1> DEFINE Hs == FindHeadings(lines)
           best == UNION {BestHeading(lines, Hs, c) : c \in ToSet(Catalog)}
<1>1. ParseFilingSections(lines) = [c \in {x.item : x \in best} |->
                                        Content(lines, Hs, CHOOSE x \in best : x.item = c)]
    BY DEF ParseFilingSections
<1>2. HeadingAt(lines, i).item = item
    <2>1. HeadingAt(lines, i) \in BestHeading(lines, Hs, item)
        OBVIOUS
    <2> QED
        BY <2>1 DEF BestHeading
<1>3. HeadingAt(lines, i) \in best
    BY DEF ItemsOfForm
<1>4. ASSUME NEW h \in best, h.item = item PROVE h = HeadingAt(lines, i)
    <2>1. PICK c \in ToSet(Catalog) : h \in BestHeading(lines, Hs, c)
        OBVIOUS
    <2>2. h.item = c
        BY <2>1 DEF BestHeading
    <2> QED
        BY <1>4, <2>1, <2>2
<1> HIDE DEF best, Hs
<1>5. (CHOOSE x \in best : x.item = item) = HeadingAt(lines, i)
    BY <1>2, <1>3, <1>4
<1>6. item \in {x.item : x \in best}
    BY <1>2, <1>3
<1>7. ParseFilingSections(lines)[item] = Content(lines, Hs, HeadingAt(lines, i))
    BY <1>1, <1>5, <1>6
<1> QED
    BY <1>1, <1>6, <1>7, ContentIsUnder DEF Hs

(* No line is in two sections.                                             *)
LEMMA SectionsAreApart ==
    ASSUME NEW lines \in Seq(Lines), NEW i \in Found(lines), NEW j \in Found(lines), i # j
    PROVE  Under(lines, i) \cap Under(lines, j) = {}
<1>1. i \in Nat /\ j \in Nat
    BY HeadingsAreFound
<1>2. ASSUME NEW k, k \in Under(lines, i), k \in Under(lines, j) PROVE FALSE
    <2>1. /\ k \in (i + 1) .. Len(lines) /\ Found(lines) \cap ((i + 1) .. k) = {}
          /\ k \in (j + 1) .. Len(lines) /\ Found(lines) \cap ((j + 1) .. k) = {}
        BY <1>2 DEF Under
    <2>2. j \in (i + 1) .. k \/ i \in (j + 1) .. k
        BY <1>1, <2>1, LenProperties
    <2> QED
        BY <2>1, <2>2
<1> QED
    BY <1>2

(* A document is what comes before its body, and its body.                 *)
Joins(lines, front, contents, body) ==
    /\ lines \in Seq(Lines) /\ contents \in Seq(Lines) /\ body \in Seq(Lines)
    /\ front \in Nat /\ Len(body) \in Nat
    /\ front = Len(contents) /\ Len(lines) = front + Len(body)
    /\ DOMAIN contents = 1 .. front /\ DOMAIN body = 1 .. Len(body) /\ DOMAIN lines = 1 .. Len(lines)
    /\ \A i \in 1 .. front : lines[i] = contents[i]
    /\ \A i \in 1 .. Len(body) : lines[front + i] = body[i]

LEMMA DocumentJoins ==
    ASSUME NEW contents \in Seq(Lines), NEW body \in Seq(Lines)
    PROVE  Joins(contents \o body, Len(contents), contents, body)
<1>1. PICK lines, front, rest :
          lines = contents \o body /\ front = Len(contents) /\ rest = Len(body)
    OBVIOUS
<1>2. front \in Nat /\ rest \in Nat /\ DOMAIN contents = 1 .. front /\ DOMAIN body = 1 .. rest
    BY <1>1, LenProperties
<1>3. /\ lines \in Seq(Lines) /\ Len(lines) = front + rest
      /\ \A i \in 1 .. front + rest : lines[i] = IF i <= front THEN contents[i] ELSE body[i - front]
    BY <1>1, ConcatProperties
<1>4. DOMAIN lines = 1 .. Len(lines)
    BY <1>3, LenProperties
<1>5. ASSUME NEW i \in 1 .. front PROVE lines[i] = contents[i]
    <2>1. i \in 1 .. front + rest /\ i <= front
        BY <1>2
    <2> QED
        BY <1>3, <2>1
<1>6. ASSUME NEW i \in 1 .. rest PROVE lines[front + i] = body[i]
    <2>1. front + i \in 1 .. front + rest /\ ~(front + i <= front) /\ (front + i) - front = i
        BY <1>2
    <2> QED
        BY <1>3, <2>1
<1> QED
    BY <1>1, <1>2, <1>3, <1>4, <1>5, <1>6 DEF Joins

LEMMA PartsInFront ==
    ASSUME NEW lines, NEW front, NEW contents, NEW body, Joins(lines, front, contents, body),
           NEW i \in 0 .. front
    PROVE  PartOf(lines, i) = PartOf(contents, i)
<1> DEFINE S == {m \in Nat : m <= front => PartOf(lines, m) = PartOf(contents, m)}
<1>1. front \in Nat /\ Len(body) \in Nat /\ Len(lines) = front + Len(body)
    BY DEF Joins
<1>2. 0 \in S
    BY NoPartYet
<1>3. ASSUME NEW m \in Nat, m \in S PROVE m + 1 \in S
    <2> SUFFICES ASSUME m + 1 <= front PROVE PartOf(lines, m + 1) = PartOf(contents, m + 1)
        OBVIOUS
    <2>1. PICK k \in Nat \ {0} : k = m + 1 /\ k - 1 = m /\ k \in 1 .. front /\ k \in 1 .. Len(lines)
        BY <1>1
    <2>2. k \in DOMAIN lines /\ k \in DOMAIN contents /\ lines[k] = contents[k]
        BY <2>1 DEF Joins
    <2>3. PartOf(lines, k - 1) = PartOf(contents, k - 1)
        BY <1>1, <1>3, <2>1
    <2> QED
        BY <2>1, <2>2, <2>3, PartOfLine
<1> HIDE DEF S
<1>4. i \in S
    BY <1>1, <1>2, <1>3, Induct
<1> QED
    BY <1>1, <1>4 DEF S

LEMMA PartsInBody ==
    ASSUME NEW lines, NEW front, NEW contents, NEW body, Joins(lines, front, contents, body),
           IsBody(body), ~WithoutParts, NEW i \in 1 .. Len(body)
    PROVE  PartOf(lines, front + i) = PartOf(body, i)
<1> DEFINE S == {m \in Nat : m + 1 <= Len(body) =>
                     PartOf(lines, front + (m + 1)) = PartOf(body, m + 1)}
<1>1. front \in Nat /\ Len(body) \in Nat /\ Len(lines) = front + Len(body)
    BY DEF Joins
<1>2. ASSUME NEW k \in 1 .. Len(body)
      PROVE  /\ k \in Nat \ {0} /\ k \in DOMAIN body
             /\ front + k \in Nat \ {0} /\ front + k \in DOMAIN lines /\ lines[front + k] = body[k]
    <2>1. k \in Nat \ {0} /\ front + k \in Nat \ {0} /\ front + k \in 1 .. Len(lines)
        BY <1>1
    <2> QED
        BY <2>1 DEF Joins
<1>3. 0 \in S
    <2> SUFFICES ASSUME 1 <= Len(body) PROVE PartOf(lines, front + 1) = PartOf(body, 1)
        OBVIOUS
    <2>1. PICK k \in 1 .. Len(body) : k = 1
        BY <1>1
    <2>2. body # <<>>
        BY <2>1, <1>1
    <2>3. body[k].part # Unnamed
        <3>1. body[k].kind = "part"
            BY <2>1, <2>2 DEF IsBody
        <3>2. body[k] \in Lines
            BY <2>1, ElementOfSeq DEF Joins
        <3> QED
            BY <3>1, <3>2 DEF Lines
    <2>4. PartOf(body, k) = body[k].part /\ PartOf(lines, front + k) = lines[front + k].part
        BY <1>2, <2>3, PartOfLine
    <2> QED
        BY <1>2, <2>1, <2>4
<1>4. ASSUME NEW m \in Nat, m \in S PROVE m + 1 \in S
    <2> SUFFICES ASSUME (m + 1) + 1 <= Len(body)
                 PROVE  PartOf(lines, front + ((m + 1) + 1)) = PartOf(body, (m + 1) + 1)
        OBVIOUS
    <2>1. PICK k \in 1 .. Len(body) : k = (m + 1) + 1 /\ k - 1 = m + 1 /\ (front + k) - 1 = front + (m + 1)
        BY <1>1
    <2>2. PartOf(lines, (front + k) - 1) = PartOf(body, k - 1)
        BY <1>1, <1>4, <2>1
    <2>3. PartOf(body, k) = IF body[k].part # Unnamed THEN body[k].part ELSE PartOf(body, k - 1)
        BY <1>2, PartOfLine
    <2>4. PartOf(lines, front + k) = IF lines[front + k].part # Unnamed THEN lines[front + k].part
                                     ELSE PartOf(lines, (front + k) - 1)
        BY <1>2, PartOfLine
    <2> QED
        BY <1>2, <2>1, <2>2, <2>3, <2>4
<1> HIDE DEF S
<1>5. i - 1 \in Nat /\ (i - 1) + 1 = i /\ i <= Len(body)
    BY <1>1
<1>6. i - 1 \in S
    BY <1>3, <1>4, <1>5, Induct
<1> QED
    BY <1>5, <1>6 DEF S

(* The items named before the body and in it.                              *)
LEMMA ItemsInFront ==
    ASSUME NEW lines, NEW front, NEW contents, NEW body, Joins(lines, front, contents, body),
           NEW i \in 1 .. front
    PROVE  /\ i \in Names(lines) <=> i \in Names(contents)
           /\ ItemAt(lines, i) = ItemAt(contents, i)
<1>1. lines[i] = contents[i] /\ i \in DOMAIN lines /\ i \in DOMAIN contents /\ i \in 0 .. front
    BY DEF Joins
<1>2. PartOf(lines, i) = PartOf(contents, i)
    BY <1>1, PartsInFront
<1> QED
    BY <1>1, <1>2 DEF Names, ItemAt

LEMMA ItemsInBody ==
    ASSUME NEW lines, NEW front, NEW contents, NEW body, Joins(lines, front, contents, body),
           IsBody(body), NEW i \in 1 .. Len(body)
    PROVE  ItemAt(lines, front + i) = ItemAt(body, i)
<1>1. lines[front + i] = body[i]
    BY DEF Joins
<1>2. CASE WithoutParts
    BY <1>1, <1>2, LookupAnyPart DEF ItemAt
<1>3. CASE ~WithoutParts
    <2>1. PartOf(lines, front + i) = PartOf(body, i)
        BY <1>3, PartsInBody
    <2> QED
        BY <1>1, <2>1 DEF ItemAt
<1> QED
    BY <1>2, <1>3

LEMMA NamesInBody ==
    ASSUME NEW lines, NEW front, NEW contents, NEW body, Joins(lines, front, contents, body),
           IsBody(body), NEW i \in Names(body)
    PROVE  /\ front + i \in Found(lines)
           /\ \A item \in ItemAt(body, i) : One(ItemAt(lines, front + i)) = item
           /\ One(ItemAt(lines, front + i)) \in ItemAt(body, i)
<1>1. i \in 1 .. Len(body)
    BY DEF Names, Joins
<1>2. lines[front + i] = body[i] /\ front + i \in DOMAIN lines
    <2>1. lines[front + i] = body[i]
        BY <1>1 DEF Joins
    <2>2. front + i \in 1 .. Len(lines) /\ DOMAIN lines = 1 .. Len(lines)
        BY <1>1 DEF Joins
    <2> QED
        BY <2>1, <2>2
<1>3. front + i \in Names(lines)
    BY <1>2 DEF Names
<1>4. ItemAt(lines, front + i) = ItemAt(body, i)
    BY <1>1, ItemsInBody
<1>5. ItemAt(body, i) # {}
    BY DEF IsBody
<1>6. \A c, d \in ItemAt(body, i) : c = d
    BY LookupFinds DEF ItemAt
<1>7. One(ItemAt(lines, front + i)) \in ItemAt(body, i)
    BY <1>4, <1>5 DEF One
<1>8. front + i \in Found(lines)
    BY <1>3, <1>4, <1>5 DEF Found
<1> QED
    BY <1>6, <1>7, <1>8

LEMMA FoundInBody ==
    ASSUME NEW lines, NEW front, NEW contents, NEW body, Joins(lines, front, contents, body),
           NEW j \in Found(lines), front < j
    PROVE  \E i \in Names(body) : j = front + i
<1>1. lines \in Seq(Lines) /\ front \in Nat /\ Len(body) \in Nat /\ Len(lines) = front + Len(body)
    BY DEF Joins
<1>2. j \in 1 .. front + Len(body)
    BY <1>1, HeadingsAreFound
<1>3. PICK i \in 1 .. Len(body) : j = front + i
    <2>1. j - front \in 1 .. Len(body) /\ j = front + (j - front)
        BY <1>1, <1>2
    <2> QED
        BY <2>1
<1>4. lines[front + i] = body[i] /\ i \in DOMAIN body
    BY DEF Joins
<1>5. i \in Names(body)
    BY <1>3, <1>4 DEF Found, Names
<1> QED
    BY <1>3, <1>5

Placed(front, lines) == {front + k : k \in lines}

LEMMA SaidIsUnder ==
    ASSUME NEW lines, NEW front, NEW contents, NEW body, Joins(lines, front, contents, body),
           IsBody(body), NEW i \in Names(body)
    PROVE  Under(lines, front + i) = Placed(front, Said(body, i))
<1>1. /\ front \in Nat /\ Len(body) \in Nat /\ Len(lines) = front + Len(body) /\ lines \in Seq(Lines)
      /\ i \in 1 .. Len(body) /\ Names(body) \subseteq 1 .. Len(body)
    BY DEF Joins, Names
<1>2. ASSUME NEW k \in Nat, k <= Len(body)
      PROVE  Found(lines) \cap ((front + i + 1) .. (front + k)) = {} <=> Names(body) \cap ((i + 1) .. k) = {}
    <2>1. ASSUME NEW j \in Names(body), j \in (i + 1) .. k
          PROVE  front + j \in Found(lines) /\ front + j \in (front + i + 1) .. (front + k)
        <3>1. j \in 1 .. Len(body)
            BY <1>1
        <3>2. front + j \in Found(lines)
            BY <2>1, NamesInBody
        <3> QED
            BY <1>1, <1>2, <2>1, <3>1, <3>2
    <2>2. ASSUME NEW j \in Found(lines), j \in (front + i + 1) .. (front + k)
          PROVE  \E l \in Names(body) : l \in (i + 1) .. k
        <3>1. front < j
            BY <1>1, <2>2
        <3>2. PICK l \in Names(body) : j = front + l
            BY <3>1, FoundInBody
        <3> QED
            BY <1>1, <1>2, <2>2, <3>2
    <2> QED
        BY <2>1, <2>2
<1>3. ASSUME NEW k \in Said(body, i) PROVE front + k \in Under(lines, front + i)
    <2>1. k \in (i + 1) .. Len(body) /\ Names(body) \cap ((i + 1) .. k) = {}
        BY DEF Said
    <2>2. k \in Nat /\ k <= Len(body) /\ front + k \in (front + i + 1) .. Len(lines)
        BY <1>1, <2>1
    <2> QED
        BY <1>2, <2>1, <2>2 DEF Under
<1>4. ASSUME NEW l \in Under(lines, front + i) PROVE \E k \in Said(body, i) : l = front + k
    <2>1. l \in (front + i + 1) .. Len(lines) /\ Found(lines) \cap ((front + i + 1) .. l) = {}
        BY DEF Under
    <2>2. PICK k \in Nat : l = front + k /\ k <= Len(body) /\ k \in (i + 1) .. Len(body)
        <3>1. l - front \in Nat /\ l = front + (l - front) /\ l - front \in (i + 1) .. Len(body)
            BY <1>1, <2>1
        <3> QED
            BY <1>1, <3>1
    <2> QED
        BY <1>2, <2>1, <2>2 DEF Said
<1> QED
    BY <1>3, <1>4 DEF Placed

Titled(contents) == \E i \in DOMAIN contents : contents[i].kind = "contents"

LEMMA TitledIsTable ==
    ASSUME NEW lines, NEW front, NEW contents, NEW body, Joins(lines, front, contents, body),
           IsBody(body), IsFront(contents, body), Titled(contents)
    PROVE  Table(lines, front)
<1>1. /\ DOMAIN contents = 1 .. front /\ front \in Nat /\ Len(body) \in Nat
      /\ Len(lines) = front + Len(body) /\ DOMAIN body = 1 .. Len(body)
      /\ \A i \in 1 .. front : lines[i] = contents[i]
      /\ \A i \in 1 .. Len(body) : lines[front + i] = body[i]
    BY DEF Joins
<1>2. /\ {i \in DOMAIN contents : contents[i].kind = "contents"} = {1}
      /\ \A i, j \in {k \in DOMAIN contents : contents[k].part # Unnamed} :
             i < j => contents[i].part # contents[j].part
      /\ \A i \in Names(contents) : \A j \in {k \in DOMAIN contents : contents[k].kind = "item"} :
             i < j => ItemAt(contents, i) \cap ItemAt(contents, j) = {}
    BY DEF IsFront, Titled
<1>3. 1 \in 1 .. front /\ front \in 1 .. Len(lines)
    BY <1>1, <1>2
<1>4. ASSUME NEW i \in 1 .. Len(lines) PROVE lines[i].kind = "contents" <=> i = 1
    <2>1. CASE i <= front
        <3>1. i \in 1 .. front
            BY <1>1, <2>1
        <3> QED
            BY <1>1, <1>2, <3>1
    <2>2. CASE front < i
        <3>1. PICK k \in 1 .. Len(body) : i = front + k
            <4>1. i - front \in 1 .. Len(body) /\ i = front + (i - front)
                BY <1>1, <2>2
            <4> QED
                BY <4>1
        <3>2. body[k].kind # "contents"
            BY <1>1 DEF IsBody
        <3> QED
            BY <1>1, <1>3, <3>1, <3>2
    <2> QED
        BY <1>1, <2>1, <2>2
<1>5. ASSUME NEW i \in 1 .. front, NEW j \in 1 .. front, i < j, lines[i].part # Unnamed, lines[j].part # Unnamed
      PROVE  lines[i].part # lines[j].part
    BY <1>1, <1>2, <1>5
<1>6. ASSUME NEW i \in 1 .. front, NEW j \in 1 .. front, i < j, i \in Names(lines), lines[j].kind = "item"
      PROVE  ItemAt(lines, i) \cap ItemAt(lines, j) = {}
    <2>1. i \in Names(contents) /\ ItemAt(lines, i) = ItemAt(contents, i) /\ ItemAt(lines, j) = ItemAt(contents, j)
        BY <1>6, ItemsInFront
    <2>2. contents[j].kind = "item" /\ j \in DOMAIN contents
        BY <1>1, <1>6
    <2> QED
        BY <1>2, <1>6, <2>1, <2>2
<1> QED
    BY <1>3, <1>4, <1>5, <1>6 DEF Table

(* No item the body names is taken for one of a table's.                   *)
LEMMA BodyIsRead ==
    ASSUME NEW lines, NEW front, NEW contents, NEW body, Joins(lines, front, contents, body),
           IsBody(body), IsFront(contents, body), NEW i \in Names(body)
    PROVE  ~Scan(lines)[front + i].contents /\ ~lines[front + i].dotted
<1>1. /\ DOMAIN contents = 1 .. front /\ front \in Nat /\ Len(body) \in Nat
      /\ Len(lines) = front + Len(body) /\ DOMAIN body = 1 .. Len(body) /\ lines \in Seq(Lines)
      /\ \A k \in 1 .. front : lines[k] = contents[k]
      /\ \A k \in 1 .. Len(body) : lines[front + k] = body[k]
    BY DEF Joins
<1>2. i \in 1 .. Len(body) /\ ~body[i].dotted
    BY <1>1 DEF Names, IsBody
<1>3. ~lines[front + i].dotted
    BY <1>1, <1>2
<1>4. CASE ~Titled(contents)
    <2>1. ASSUME NEW k \in DOMAIN lines PROVE lines[k].kind # "contents"
        <3>1. k \in 1 .. front + Len(body)
            BY <1>1, LenProperties
        <3>2. CASE k <= front
            BY <1>1, <1>4, <3>1, <3>2 DEF Titled
        <3>3. CASE front < k
            <4>1. k - front \in 1 .. Len(body) /\ k = front + (k - front)
                BY <1>1, <3>1, <3>3
            <4>2. PICK l \in 1 .. Len(body) : k = front + l
                BY <4>1
            <4> QED
                BY <1>1, <4>2 DEF IsBody
        <3> QED
            BY <1>1, <3>1, <3>2, <3>3
    <2>2. front + i \in 0 .. Len(lines)
        BY <1>1, <1>2
    <2> QED
        BY <1>1, <1>3, <2>1, <2>2, NoTable
<1>5. CASE Titled(contents)
    <2>1. Table(lines, front)
        BY <1>5, TitledIsTable
    <2>2. front + i \in Found(lines) /\ front < front + i
        <3>1. front + i \in Found(lines)
            BY NamesInBody
        <3> QED
            BY <1>1, <1>2, <3>1
    <2>3. PICK one \in 1 .. Len(body) : one = 1
        BY <1>1, <1>2
    <2>4. lines[front + 1] = body[one]
        BY <1>1, <2>3
    <2>5. ASSUME NEW k \in DOMAIN contents, contents[k].part # Unnamed, contents[k].part = body[one].part
          PROVE  lines[front + 1].part \in PartsListed(lines, front)
        BY <1>1, <2>4, <2>5 DEF PartsListed
    <2>6. ASSUME \A first \in Names(body) : (\A k \in Names(body) : first <= k) =>
                     \E k \in Names(contents) : ItemAt(contents, k) = ItemAt(body, first),
                 NEW first \in Found(lines), front < first,
                 \A k \in Found(lines) : front < k => first <= k
          PROVE  One(ItemAt(lines, first)) \in ItemsListed(lines, front)
        <3>1. PICK f \in Names(body) : first = front + f
            BY <2>6, FoundInBody
        <3>2. f \in 1 .. Len(body)
            BY <1>1 DEF Names
        <3>3. ItemAt(lines, first) = ItemAt(body, f)
            <4>1. ItemAt(lines, front + f) = ItemAt(body, f)
                BY <3>2, ItemsInBody
            <4> QED
                BY <3>1, <4>1
        <3>4. ASSUME NEW k \in Names(body) PROVE f <= k
            <4>1. k \in 1 .. Len(body)
                BY <1>1 DEF Names
            <4>2. front + k \in Found(lines)
                BY NamesInBody
            <4>3. first <= front + k
                BY <1>1, <2>6, <4>1, <4>2
            <4> QED
                BY <1>1, <3>1, <3>2, <4>1, <4>3
        <3>5. PICK k \in Names(contents) : ItemAt(contents, k) = ItemAt(body, f)
            BY <2>6, <3>4
        <3>6. k \in 1 .. front
            BY <1>1 DEF Names
        <3>7. k \in Names(lines) /\ ItemAt(lines, k) = ItemAt(lines, first)
            BY <3>3, <3>5, <3>6, ItemsInFront
        <3>8. k \in Found(lines)
            BY <2>6, <3>7 DEF Found
        <3> QED
            BY <3>6, <3>7, <3>8 DEF ItemsListed
    <2>7. \/ \E k \in DOMAIN contents : contents[k].part # Unnamed /\ contents[k].part = body[one].part
          \/ \A first \in Names(body) : (\A k \in Names(body) : first <= k) =>
                     \E k \in Names(contents) : ItemAt(contents, k) = ItemAt(body, first)
        BY <1>5, <2>3 DEF IsFront, Titled
    <2>8. \/ lines[front + 1].part \in PartsListed(lines, front)
          \/ \A first \in Found(lines) :
                 front < first /\ (\A k \in Found(lines) : front < k => first <= k) =>
                     One(ItemAt(lines, first)) \in ItemsListed(lines, front)
        BY <2>5, <2>6, <2>7
    <2> QED
        BY <1>1, <1>3, <2>1, <2>2, <2>4, <2>8, TableEnds
<1> QED
    BY <1>4, <1>5

(* What comes before the body is never an item's section: it is a table's, *)
(* or has too little under it.                                             *)
LEMMA FrontIsNotTheSection ==
    ASSUME NEW lines, NEW front, NEW contents, NEW body, Joins(lines, front, contents, body),
           IsBody(body), IsFront(contents, body), NEW i \in Found(lines), i <= front
    PROVE  /\ Titled(contents) => Scan(lines)[i].contents
           /\ ~Titled(contents) => ~Long(lines, i)
<1>1. /\ DOMAIN contents = 1 .. front /\ front \in Nat /\ Len(body) \in Nat
      /\ Len(lines) = front + Len(body) /\ DOMAIN body = 1 .. Len(body) /\ lines \in Seq(Lines)
      /\ \A k \in 1 .. front : lines[k] = contents[k]
      /\ \A k \in 1 .. Len(body) : lines[front + k] = body[k]
    BY DEF Joins
<1>2. i \in 1 .. front /\ i \in Names(contents)
    <2>1. i \in 1 .. front /\ i \in Names(lines)
        BY <1>1, HeadingsAreFound DEF Found
    <2> QED
        BY <2>1, ItemsInFront
<1>3. ASSUME Titled(contents) PROVE Scan(lines)[i].contents
    <2>1. Table(lines, front)
        BY <1>3, TitledIsTable
    <2> QED
        BY <1>1, <1>2, <2>1, TableLists DEF InTable
<1>4. ASSUME ~Titled(contents), NEW k \in Under(lines, i), lines[k].kind = "text" PROVE FALSE
    <2>1. /\ \A j \in DOMAIN contents : i < j => contents[j].kind # "text"
          /\ \A j \in DOMAIN body : body[j].kind = "text" => \E l \in Names(body) : l < j
        BY <1>2, <1>4 DEF IsFront, Titled
    <2>2. k \in (i + 1) .. Len(lines) /\ Found(lines) \cap ((i + 1) .. k) = {}
        BY DEF Under
    <2>3. CASE k <= front
        BY <1>1, <1>2, <1>4, <2>1, <2>2, <2>3
    <2>4. CASE front < k
        <3>1. k - front \in 1 .. Len(body) /\ k = front + (k - front)
            BY <1>1, <1>2, <2>2, <2>4
        <3>2. PICK j \in 1 .. Len(body) : k = front + j
            BY <3>1
        <3>3. PICK l \in Names(body) : l < j
            BY <1>1, <1>4, <2>1, <3>2
        <3>4. l \in 1 .. Len(body)
            BY <1>1 DEF Names
        <3>5. front + l \in Found(lines)
            BY NamesInBody
        <3>6. front + l \in (i + 1) .. k
            BY <1>1, <1>2, <3>2, <3>3, <3>4
        <3> QED
            BY <2>2, <3>5, <3>6
    <2> QED
        BY <1>1, <1>2, <2>2, <2>3, <2>4
<1> QED
    BY <1>3, <1>4 DEF Long

(* The item a body heads once, and says something under, is its section.   *)
SaysText(body, i) == \E k \in Said(body, i) : body[k].kind = "text"
HeadedBy(body, item, i) ==
    /\ i \in Names(body) /\ body[i].part = Unnamed /\ item \in ItemAt(body, i)
    /\ \A j \in Names(body) : body[j].part = Unnamed /\ item \in ItemAt(body, j) => j = i
    /\ \/ SaysText(body, i)
       \/ /\ Said(body, i) # {}
          /\ \A j \in Names(body) : body[j].part # Unnamed => item \notin ItemAt(body, j)

LEMMA HeadedOnce ==
    ASSUME NEW lines, NEW front, NEW contents, NEW body, Joins(lines, front, contents, body),
           IsBody(body), IsFront(contents, body), NEW item \in ItemsOfForm, NEW i, HeadedBy(body, item, i)
    PROVE  BestHeading(lines, FindHeadings(lines), item) = {HeadingAt(lines, front + i)}
<1>0. /\ i \in Names(body) /\ body[i].part = Unnamed /\ item \in ItemAt(body, i)
      /\ \A j \in Names(body) : body[j].part = Unnamed /\ item \in ItemAt(body, j) => j = i
      /\ Said(body, i) # {}
      /\ \A j \in Names(body) : body[j].part # Unnamed /\ item \in ItemAt(body, j) => SaysText(body, i)
    BY DEF HeadedBy, SaysText
<1>11. i \in Names(body)
    BY DEF HeadedBy
<1>1. /\ front \in Nat /\ Len(body) \in Nat /\ Len(lines) = front + Len(body)
      /\ DOMAIN body = 1 .. Len(body) /\ lines \in Seq(Lines)
      /\ \A k \in 1 .. Len(body) : lines[front + k] = body[k]
      /\ Found(lines) \subseteq 1 .. Len(lines)
    BY HeadingsAreFound DEF Joins
<1>3. i \in 1 .. Len(body) /\ Names(body) \subseteq 1 .. Len(body)
    BY <1>0, <1>1 DEF Names
<1>4. PICK n : n = front + i
    OBVIOUS
<1>5. n \in Found(lines) /\ One(ItemAt(lines, n)) = item
    <2>1. front + i \in Found(lines)
        BY <1>11, NamesInBody
    <2>2. One(ItemAt(lines, front + i)) = item
        BY <1>0, <1>11, NamesInBody
    <2> QED
        BY <1>4, <2>1, <2>2
<1>6. Under(lines, n) = Placed(front, Said(body, i))
    BY <1>4, <1>11, SaidIsUnder
<1>7. Usable(lines, n, item)
    <2>2. Under(lines, n) # {}
        BY <1>0, <1>6 DEF Placed
    <2>3. ~Scan(lines)[n].contents /\ ~lines[n].dotted
        BY <1>4, <1>11, BodyIsRead
    <2> QED
        BY <1>5, <2>2, <2>3 DEF Usable
<1>8. ASSUME SaysText(body, i) PROVE Long(lines, n)
    <2>1. PICK k \in Said(body, i) : body[k].kind = "text"
        BY <1>8 DEF SaysText
    <2>2. k \in 1 .. Len(body)
        BY <1>1, <1>3 DEF Said
    <2> QED
        BY <1>1, <1>6, <2>1, <2>2 DEF Long, Placed
<1>9. ASSUME NEW j \in Found(lines), Usable(lines, j, item), j # n
      PROVE  ~Long(lines, j) /\ (Long(lines, n) \/ j < n)
    <2>1. CASE j <= front
        <3>1. ~Scan(lines)[j].contents
            BY <1>9 DEF Usable
        <3>2. ~Long(lines, j)
            BY <2>1, <3>1, FrontIsNotTheSection
        <3>3. j < n
            BY <1>1, <1>3, <1>4, <2>1
        <3> QED
            BY <3>2, <3>3
    <2>2. CASE front < j
        <3>1. PICK f \in Names(body) : j = front + f
            BY <2>2, FoundInBody
        <3>2. f # i
            BY <1>4, <1>9, <3>1
        <3>3. item \in ItemAt(body, f)
            <4>1. One(ItemAt(lines, front + f)) \in ItemAt(body, f)
                BY NamesInBody
            <4> QED
                BY <1>9, <3>1, <4>1 DEF Usable
        <3>5. body[f].part # Unnamed
            BY <1>0, <3>1, <3>2, <3>3
        <3>7. \A k \in Said(body, f) : body[k].kind # "text"
            BY <3>1, <3>5 DEF IsBody
        <3>8. Under(lines, j) = Placed(front, Said(body, f))
            BY <3>1, SaidIsUnder
        <3>9. \A k \in Said(body, f) : k \in 1 .. Len(body)
            BY <1>1, <1>3 DEF Said
        <3>10. ~Long(lines, j)
            BY <1>1, <3>7, <3>8, <3>9 DEF Long, Placed
        <3>11. SaysText(body, i)
            BY <1>0, <3>1, <3>3, <3>5
        <3> QED
            BY <1>8, <3>10, <3>11
    <2> QED
        BY <1>1, <2>1, <2>2
<1> QED
    BY <1>1, <1>4, <1>5, <1>7, <1>9, BestIsTheOne

LEMMA HeadedIsFound ==
    ASSUME NEW lines, NEW front, NEW contents, NEW body, Joins(lines, front, contents, body),
           IsBody(body), IsFront(contents, body), NEW item \in ItemsOfForm, NEW i, HeadedBy(body, item, i)
    PROVE  /\ item \in DOMAIN ParseFilingSections(lines)
           /\ ParseFilingSections(lines)[item] = Placed(front, Said(body, i))
<1>1. i \in Names(body) /\ lines \in Seq(Lines)
    BY DEF HeadedBy, Joins
<1>2. PICK n : n = front + i
    OBVIOUS
<1>3. n \in Found(lines)
    BY <1>1, <1>2, NamesInBody
<1>4. BestHeading(lines, FindHeadings(lines), item) = {HeadingAt(lines, n)}
    BY <1>2, HeadedOnce
<1>5. Under(lines, n) = Placed(front, Said(body, i))
    BY <1>1, <1>2, SaidIsUnder
<1> QED
    BY <1>1, <1>3, <1>4, <1>5, SectionIsTheBest

LEMMA OneHeading ==
    ASSUME NEW body \in Seq(Lines), NEW S \in SUBSET Names(body), Cardinality(S) = 1, NEW i \in S
    PROVE  S = {i}
<1>1. PICK n \in Int : n = Len(body) /\ DOMAIN body = 1 .. n
    BY LenProperties
<1>2. IsFiniteSet(1 .. n)
    BY FS_Interval
<1>3. S \in SUBSET (1 .. n)
    BY <1>1 DEF Names
<1>4. IsFiniteSet(S)
    BY <1>2, <1>3, FS_Subset
<1>5. PICK x : S = {x}
    BY <1>4, FS_Singleton
<1> QED
    BY <1>5

(* SectionsAreOfTheBody, of a document and its sections.                   *)
SectionsAreOf(contents, body, sections) ==
    LET front == Len(contents)
        titled == \E i \in DOMAIN contents : contents[i].kind = "contents"
        headings == {i \in Names(body) : body[i].part = Unnamed}
        heads(item) == {i \in headings : /\ body[i].number = item.number
                                         /\ item.part \in {Unnamed, PartTitle(body, i)}}
        relabelled(item) == \E i \in headings : i \in heads(item) <=> item \notin ItemAt(body, i)
        referred(item) == \E i \in Names(body) \ headings : item \in ItemAt(body, i)
        told(item, i) == \/ \E k \in Said(body, i) : body[k].kind = "text"
                         \/ Said(body, i) # {} /\ ~referred(item)
    IN /\ \A item \in ToSet(Catalog) : Cardinality(heads(item)) = 1 /\ ~relabelled(item) =>
              \A i \in heads(item) : told(item, i) =>
                  /\ item \in DOMAIN sections
                  /\ sections[item] = {front + k : k \in Said(body, i)}
       /\ \A a, b \in DOMAIN sections : a # b => sections[a] \cap sections[b] = {}
       /\ titled => \A a \in DOMAIN sections : \A k \in sections[a] : k > front

LEMMA SectionsHold ==
    ASSUME NEW contents \in Seq(Lines), NEW body \in Seq(Lines), IsBody(body), IsFront(contents, body),
           NEW sections, sections = ParseFilingSections(contents \o body)
    PROVE  SectionsAreOf(contents, body, sections)
<1> DEFINE front == Len(contents)
           lines == contents \o body
<1>3. Joins(lines, front, contents, body) /\ lines \in Seq(Lines)
    <2>1. Joins(lines, front, contents, body)
        BY DocumentJoins
    <2> QED
        BY <2>1 DEF Joins
<1>4. sections = ParseFilingSections(lines)
    OBVIOUS
<1> HIDE DEF front, lines
<1> DEFINE headings == {i \in Names(body) : body[i].part = Unnamed}
           heads(item) == {i \in headings : /\ body[i].number = item.number
                                            /\ item.part \in {Unnamed, PartTitle(body, i)}}
           relabelled(item) == \E i \in headings : i \in heads(item) <=> item \notin ItemAt(body, i)
           referred(item) == \E i \in Names(body) \ headings : item \in ItemAt(body, i)
           told(item, i) == \/ \E k \in Said(body, i) : body[k].kind = "text"
                            \/ Said(body, i) # {} /\ ~referred(item)
<1>5. ASSUME NEW item \in ToSet(Catalog), Cardinality(heads(item)) = 1, ~relabelled(item),
             NEW i \in heads(item), told(item, i)
      PROVE  item \in DOMAIN sections /\ sections[item] = {front + k : k \in Said(body, i)}
    <2>1. item \in ItemsOfForm
        BY DEF ItemsOfForm
    <2>2. heads(item) \in SUBSET Names(body)
        OBVIOUS
    <2>3. heads(item) = {i}
        <3> HIDE DEF heads, told, relabelled
        <3> QED
            BY <1>5, <2>2, OneHeading
    <2>4. \A j \in headings : j \in heads(item) <=> item \in ItemAt(body, j)
        <3> HIDE DEF heads
        <3> QED
            BY <1>5
    <2>5. i \in headings
        OBVIOUS
    <2>6. HeadedBy(body, item, i)
        <3>1. i \in Names(body) /\ body[i].part = Unnamed
            BY <2>5
        <3>2. item \in ItemAt(body, i)
            <4> HIDE DEF heads
            <4> QED
                BY <2>4, <2>5
        <3>3. \A j \in headings : item \in ItemAt(body, j) => j = i
            <4> HIDE DEF heads
            <4> QED
                BY <2>3, <2>4
        <3>4. ~referred(item) => \A j \in Names(body) : body[j].part # Unnamed => item \notin ItemAt(body, j)
            OBVIOUS
        <3>5. SaysText(body, i) \/ (Said(body, i) # {} /\ ~referred(item))
            <4> HIDE DEF referred
            <4> QED
                BY <1>5 DEF SaysText
        <3>6. \A j \in Names(body) : body[j].part = Unnamed /\ item \in ItemAt(body, j) => j = i
            BY <3>3
        <3> HIDE DEF referred, heads, headings, relabelled, told
        <3> QED
            BY <3>1, <3>2, <3>4, <3>5, <3>6 DEF HeadedBy
    <2> HIDE DEF heads, told, relabelled, headings, referred
    <2>7. item \in DOMAIN sections /\ sections[item] = Placed(front, Said(body, i))
        BY <1>3, <1>4, <2>1, <2>6, HeadedIsFound
    <2> QED
        BY <2>7 DEF Placed
<1>6. ASSUME NEW a \in DOMAIN sections
      PROVE  \E i \in Found(lines) : Usable(lines, i, a) /\ sections[a] = Under(lines, i)
    BY <1>3, <1>4, SectionsAreUnder
<1>7. ASSUME NEW a \in DOMAIN sections, NEW b \in DOMAIN sections, a # b
      PROVE  sections[a] \cap sections[b] = {}
    <2>1. PICK i \in Found(lines) : Usable(lines, i, a) /\ sections[a] = Under(lines, i)
        BY <1>6
    <2>2. PICK j \in Found(lines) : Usable(lines, j, b) /\ sections[b] = Under(lines, j)
        BY <1>6
    <2>3. i # j
        BY <1>7, <2>1, <2>2 DEF Usable
    <2> QED
        BY <1>3, <2>1, <2>2, <2>3, SectionsAreApart
<1>8. ASSUME Titled(contents), NEW a \in DOMAIN sections, NEW k \in sections[a]
      PROVE  k > front
    <2>1. PICK i \in Found(lines) : Usable(lines, i, a) /\ sections[a] = Under(lines, i)
        BY <1>6
    <2>2. front \in Nat /\ i \in Nat
        BY <1>3, HeadingsAreFound DEF Joins
    <2>3. ~(i <= front)
        BY <1>3, <1>8, <2>1, FrontIsNotTheSection DEF Usable
    <2>4. k \in (i + 1) .. Len(lines)
        BY <2>1 DEF Under
    <2> QED
        BY <2>2, <2>3, <2>4
<1>9. \A item \in ToSet(Catalog) : Cardinality(heads(item)) = 1 /\ ~relabelled(item) =>
          \A i \in heads(item) : told(item, i) =>
              item \in DOMAIN sections /\ sections[item] = {front + k : k \in Said(body, i)}
    <2> HIDE DEF heads, told, relabelled
    <2> QED
        BY <1>5
<1>10. \A a, b \in DOMAIN sections : a # b => sections[a] \cap sections[b] = {}
    BY <1>7
<1>11. Titled(contents) => \A a \in DOMAIN sections : \A k \in sections[a] : k > front
    BY <1>8
<1> QED
    BY <1>9, <1>10, <1>11 DEF SectionsAreOf, Titled, front

-----------------------------------------------------------------------------
(* What follows a question: an answer is what the algorithm makes of it.   *)
AnsweredAsAsked ==
    /\ question \in Statements \cup Documents \cup Reporters \cup Valuations
    /\ answer # NoAnswer /\ question.of = "statement" => answer = Tree(question.rows)
    /\ answer # NoAnswer /\ question.of = "document" =>
           answer = ParseFilingSections(question.contents \o question.body)
    /\ answer # NoAnswer /\ question.of = "earnings" =>
           answer = NormalizeEarnings(question.quarterly, question.annual,
                                      question.rows, question.limit)
    /\ answer # NoAnswer /\ question.of = "metrics" =>
           answer = WithValuation(question.quarterly, question.annual,
                                  question.period, question.closes)

LEMMA AnswersAreAsAsked == AnswersSpec => []AnsweredAsAsked
<1>1. AnswersInit => AnsweredAsAsked
    BY DEF AnswersInit, AnsweredAsAsked
<1>2. AnsweredAsAsked /\ [AnswersNext]_answersVars => AnsweredAsAsked'
    <2> SUFFICES ASSUME AnsweredAsAsked, [AnswersNext]_answersVars PROVE AnsweredAsAsked'
        OBVIOUS
    <2>1. CASE BuildTree
        BY <2>1 DEF AnsweredAsAsked, BuildTree, Asked
    <2>2. CASE CutDocument
        BY <2>2 DEF AnsweredAsAsked, CutDocument, Asked
    <2>3. CASE ComposeEarnings
        BY <2>3 DEF AnsweredAsAsked, ComposeEarnings, Asked
    <2>4. CASE PriceMetrics
        BY <2>4 DEF AnsweredAsAsked, PriceMetrics, Asked
    <2>5. CASE UNCHANGED answersVars
        BY <2>5 DEF AnsweredAsAsked, answersVars
    <2> QED
        BY <2>1, <2>2, <2>3, <2>4, <2>5 DEF AnswersNext
<1> QED
    BY <1>1, <1>2, PTL DEF AnswersSpec

(* StatementsReadInOrder for statements of any rows, of any number: each   *)
(* row lies under the one above it or under one that does, so the tree is  *)
(* the printed order, and a section whose total has been read is not read  *)
(* into again (asreported.go).                                             *)
THEOREM TreesReadInOrder == AnswersSpec => []StatementsReadInOrder
<1>1. AnsweredAsAsked => StatementsReadInOrder
    <2> SUFFICES ASSUME AnsweredAsAsked, answer # NoAnswer, question.of = "statement"
                 PROVE  StatementsReadInOrder
        BY DEF StatementsReadInOrder, Told
    <2>1. question \in Statements
        BY QuestionsAssumption DEF QuestionsAreSorted, AnsweredAsAsked
    <2>2. PICK rows : rows = question.rows /\ Len(rows) \in Nat
        BY <2>1, RowsAssumption
    <2>3. PICK n \in Nat : n = Len(rows)
        BY <2>2
    <2>4. PICK t : t = Grown(rows)[n] /\ answer = t.under
        BY <2>2, <2>3 DEF AnsweredAsAsked, Tree
    <2>5. TreeHolds(rows, t, n)
        BY <2>2, <2>3, <2>4, TreesHold
    <2>6. answer \in Seq(Nat) /\ Len(answer) = n /\ DOMAIN answer = 1 .. n
        BY <2>4, <2>5, LenProperties DEF TreeHolds, Trees, Stacked
    <2>7. ASSUME NEW i \in 1 .. n
          PROVE  /\ answer[i] \in {0} \cup Path(answer, i - 1)
                 /\ rows[i].kind = "member" => answer[i] = 0
        BY <2>4, <2>5 DEF TreeHolds, Nested
    <2>8. ASSUME NEW i \in 1 .. n, NEW j \in 1 .. n, i < j, Total(rows, i, answer[i])
          PROVE  answer[i] \notin Path(answer, j)
        <3>1. j \in (i + 1) .. n
            BY <2>8
        <3> QED
            BY <2>4, <2>5, <2>8, <3>1 DEF TreeHolds, TotalsClose
    <2> QED
        BY <2>2, <2>3, <2>6, <2>7, <2>8 DEF StatementsReadInOrder
<1> QED
    BY <1>1, AnswersAreAsAsked, PTL

(* SectionsAreOfTheBody for documents of any length, of any form, with or  *)
(* without a table of contents: an item headed once in the body and said   *)
(* enough of is found, and is all of what follows its heading and nothing  *)
(* else; no line is in two sections and a titled table is in none          *)
(* (filingitems.go).                                                       *)
THEOREM SectionsAreFound == AnswersSpec => []SectionsAreOfTheBody
<1>1. AnsweredAsAsked => SectionsAreOfTheBody
    <2> SUFFICES ASSUME AnsweredAsAsked, answer # NoAnswer, question.of = "document"
                 PROVE  SectionsAreOfTheBody
        BY DEF SectionsAreOfTheBody, Told
    <2>1. question \in Documents
        BY QuestionsAssumption DEF QuestionsAreSorted, AnsweredAsAsked
    <2>2. answer = ParseFilingSections(question.contents \o question.body)
        BY <2>1 DEF AnsweredAsAsked
    <2>3. SectionsAreOf(question.contents, question.body, answer)
        BY <2>1, <2>2, DocumentsAssumption, SectionsHold DEF DocumentsAreFiled
    <2> QED
        BY <2>3 DEF SectionsAreOf, SectionsAreOfTheBody
<1> QED
    BY <1>1, AnswersAreAsAsked, PTL

(* RecordsAreOfTheirFilings for any feed and any filings that close within *)
(* the tolerance of their own period and of no other: no filing is missed  *)
(* for the day it closes on and each record has its own period's figures.  *)
(* Where it closes in that period's calendar quarter they are compared with*)
(* the quarter before and the one a year before, and a year's, where it    *)
(* closes in that year, with the year before (earnings.go).                *)
THEOREM EarningsJoinTheirFilings ==
    AnswersSpec => []RecordsAreOfTheirFilings
<1>1. AnsweredAsAsked => RecordsAreOfTheirFilings
    <2> SUFFICES ASSUME AnsweredAsAsked, answer # NoAnswer, question.of = "earnings"
                 PROVE  RecordsAreOfTheirFilings
        BY DEF RecordsAreOfTheirFilings, Told
    <2>1. PICK q \in Reporters : q = question
        BY QuestionsAssumption DEF QuestionsAreSorted, AnsweredAsAsked
    <2>2. PICK quarters : quarters = JoinedByDate(q.quarterly)
        OBVIOUS
    <2>3. PICK years : years = JoinedByDate(q.annual)
        OBVIOUS
    <2>4. PICK newest : newest = TheNewest(Known(q), q.limit)
        OBVIOUS
    <2>5. answer.records = {EarningsRecord(f, quarters, years) : f \in newest}
        BY <2>1, <2>2, <2>3, <2>4, RecordsAreOfTheNewest DEF AnsweredAsAsked
    <2>6. newest \subseteq Known(q)
        BY <2>4 DEF TheNewest
    <2>7. \A f : EarningsRecord(f, quarters, years).filing = f
        BY DEF EarningsRecord
    <2>8. {r.filing : r \in answer.records} = newest
        BY <2>5, <2>7
    <2>9. {f \in EarningsFilings(q.rows) : \E d \in quarters : d = f.period} = Known(q)
        BY <2>2 DEF Known
    <2>10. ASSUME NEW f \in Known(q) \ newest
           PROVE  Cardinality(newest) = q.limit /\ \A g \in newest : g.filed >= f.filed
        <3>1. Dated(Known(q)) /\ q.limit \in Nat
            BY KnownAreDated, FilingsAssumption DEF FilingsAreNearTheirOwn
        <3> QED
            BY <2>4, <3>1, NewestFillTheLimit
    <2>11. ASSUME NEW f \in newest
           PROVE  LET r == EarningsRecord(f, quarters, years)
                  IN  /\ r.quarterly.figures = {f.period}
                      /\ r.quarterly.previous = PreviousQuarter(quarters, f.close)
                      /\ r.quarterly.yearAgo = YearOverYearQuarter(quarters, f.close)
                      /\ r.annual.figures # {} =>
                             r.annual.previous = PreviousYear(years, f.close)
        <3>1. f \in EarningsFilings(q.rows) /\ f.period \in quarters
            BY <2>2, <2>6 DEF Known
        <3>2. NearestPeriod(quarters, f.close) = {f.period}
            BY <2>2, <3>1, NearestIsItsOwn
        <3> QED
            BY <3>2 DEF EarningsRecord, Block
    <2>12. \A r \in answer.records :
               /\ r.quarterly.figures = {r.filing.period}
               /\ r.quarterly.previous = PreviousQuarter(quarters, r.filing.close)
               /\ r.quarterly.yearAgo = YearOverYearQuarter(quarters, r.filing.close)
               /\ r.annual.figures # {} =>
                      r.annual.previous = PreviousYear(years, r.filing.close)
        BY <2>5, <2>7, <2>11
    <2>13. \A r \in answer.records :
               quarterOrdinal(r.filing.close) = quarterOrdinal(r.filing.period) =>
                   /\ r.quarterly.previous =
                         {d \in quarters : quarterOrdinal(d) = quarterOrdinal(r.filing.period) - 1}
                   /\ r.quarterly.yearAgo =
                         {d \in quarters : quarterOrdinal(d) = quarterOrdinal(r.filing.period) - 4}
        BY <2>12 DEF PreviousQuarter, YearOverYearQuarter
    <2>14. \A r \in answer.records :
               r.annual.figures # {} /\ YearOf(r.filing.close) = YearOf(r.filing.period) =>
                   r.annual.previous = {d \in years : YearOf(d) = YearOf(r.filing.period) - 1}
        BY <2>12 DEF PreviousYear
    <2> QED
        BY <2>1, <2>2, <2>3, <2>8, <2>9, <2>10, <2>12, <2>13, <2>14
        DEF RecordsAreOfTheirFilings
<1> QED
    BY <1>1, AnswersAreAsAsked, PTL

(* ValuationsAreOfTheirPeriod for any statements, whichever periods each   *)
(* of them lacks, and any closes: a row is priced at the last close up to  *)
(* its day, a trailing year's at the last close of all, and not where there*)
(* is none; what it is valued with is of its own period, a trailing year's *)
(* of the same four quarters (valuation.go).                               *)
THEOREM RowsAreValuedInTheirPeriod ==
    AnswersSpec => []ValuationsAreOfTheirPeriod
<1>1. AnsweredAsAsked => ValuationsAreOfTheirPeriod
    <2> SUFFICES ASSUME AnsweredAsAsked, answer # NoAnswer, question.of = "metrics", NEW v \in answer
                 PROVE  LET closes == Quoted(question, v.row.day)
                        IN /\ v.priced \subseteq closes /\ (v.priced = {} => closes = {})
                           /\ \A d \in v.priced : \A e \in closes : e <= d
                           /\ v.priced # {} => \A kind \in Kinds : v.values[kind] =
                               {[day |-> v.row.day,
                                 covers |-> IF kind = "balance" THEN {v.row.day} ELSE v.row.covers]}
        BY DEF ValuationsAreOfTheirPeriod, Told, Quoted
    <2>1. PICK q \in Valuations : q = question
        BY QuestionsAssumption DEF QuestionsAreSorted, AnsweredAsAsked
    <2>2. PICK row \in MetricRows(q.quarterly, q.annual, q.period) :
              v = Valued(row, CloseOnOrBefore(q.closes, PricedAt(q.closes, q.period, row.day)),
                         q.quarterly, q.annual, q.period)
        BY <2>1 DEF AnsweredAsAsked, WithValuation
    <2>3. row.day \in Int
        BY RowsHaveDays
    <2>4. PICK closes : closes = Quoted(q, row.day)
        OBVIOUS
    <2>5. /\ v.row = row
          /\ v.priced = IF closes = {} THEN {} ELSE {Max(closes)}
        BY <2>2, <2>3, <2>4, PricedLast DEF Valued
    <2>6. IsFiniteSet(closes) /\ closes \subseteq Int
        <3>1. closes \subseteq q.closes
            BY <2>4 DEF Quoted
        <3>2. IsFiniteSet(q.closes) /\ q.closes \subseteq Int
            BY FeedsAssumption DEF FeedsHaveQuarters
        <3> QED
            BY <3>1, <3>2, FS_Subset
    <2>7. closes # {} => Max(closes) \in closes /\ \A e \in closes : e <= Max(closes)
        BY <2>6, LatestClose
    <2>8. ASSUME NEW kind \in Kinds, v.priced # {}
          PROVE  v.values[kind] = {[day |-> row.day,
                     covers |-> IF kind = "balance" THEN {row.day} ELSE row.covers]}
        <3>1. v.values[kind] = PeriodValues(
                  StatementRows(q.quarterly[kind], q.annual[kind], kind, q.period), row.day)
            BY <2>2, <2>8 DEF Valued
        <3> QED
            BY <3>1, ValuedInTheirPeriod
    <2> QED
        BY <2>1, <2>4, <2>5, <2>7, <2>8
<1> QED
    BY <1>1, AnswersAreAsAsked, PTL
=============================================================================
