----------------------------- MODULE Statements -----------------------------
(***************************************************************************)
(* The three financial statements of a company: service/service.go         *)
(* (statementResponse, buildStatementRecords and the filing identity join),*)
(* providers/statements.go, service/marketbeatcashflow.go and              *)
(* service/allfinancials.go.                                               *)
(*                                                                         *)
(* A statement is joined together from sources that disagree: a feed that  *)
(* rounds every period to the end of its month, a table (marketbeat) and   *)
(* an index of filings that carry the real close, each read at its own     *)
(* time and each with gaps of its own.  The quarters of the company are    *)
(* numbered; a figure is the set of the quarters it adds up, and the empty *)
(* set where it is absent.                                                 *)
(***************************************************************************)
EXTENDS Calendar, FiniteSets

CONSTANTS
    Quarters,
    FirstMonth,   \* the month, counted from January of year 0, quarter 0 closes in
    YearEnd,      \* the fiscal year closes with each quarter q where q % 4 = YearEnd
    Drift,        \* days from the end of that month to a quarter's real close
    Tolerance,    \* filingJoinToleranceDays
    Feeds,        \* what the feed may carry, a Source: see SourcesAssumption
    Tables,       \* what the table may carry, likewise
    Indexes,      \* what the index may carry: sets of filings
    Requests,
    NoFilter, NoFiling, NoLabel, NoMonth, NotYet, Failed, Drifted

VARIABLES
    request,      \* [kinds, period, limit, report, filing]: a filter is the set of its days
    statements,   \* the answers of the three sources
    filings,
    table,
    response      \* kind -> the records served

vars == <<request, statements, filings, table, response>>

(* A domestic company's forms; "10-K" is a foreign one's 20-F too.  Its    *)
(* 6-K may report any day at all and is left out of the model.             *)
PeriodicForms == {"10-K", "10-Q"}
Filing == [report : Nat, filed : Nat, form : PeriodicForms \cup {"8-K"}]

FeedEnd(q) == (FirstMonth + 3 * q + 1) * MonthDays - 1
Close(q) == FeedEnd(q) + Drift[q]
Distance(a, b) == IF a < b THEN b - a ELSE a - b

ASSUME CalendarAssumption ==
    /\ Quarters \subseteq Nat /\ FirstMonth \in Nat
    /\ YearEnd \in 0 .. 3 /\ Tolerance \in Nat
    /\ Drift \in [Quarters -> Int]
    /\ \A q \in Quarters : Close(q) \in Nat

(* "Quarters are ~90 days apart, so a window this size cannot reach an     *)
(* adjacent period", however far each of the two closes has drifted.       *)
ASSUME SpacingAssumption ==
    \A p, q \in Quarters :
        Distance(0, Drift[p]) + Distance(0, Drift[q]) + Tolerance < 3 * MonthDays

(* A source has the rows of some quarters, each with its figure or         *)
(* without, and independently of these the rows of some years.             *)
ASSUME SourcesAssumption ==
    /\ \A f \in Feeds \cup Tables :
          /\ f.years \subseteq {q \in Quarters : q % 4 = YearEnd}
          /\ DOMAIN f.quarters \subseteq Quarters
          /\ f.quarters \in [DOMAIN f.quarters -> BOOLEAN]
    /\ \A I \in Indexes :
          /\ I \subseteq Filing
          /\ \A f \in I : f.form \in PeriodicForms => \E q \in Quarters : f.report = Close(q)

ASSUME RequestsAssumption ==
    \A rq \in Requests :
        /\ rq.kinds \subseteq {"income", "balance", "cash"}
        /\ rq.period \in {"annual", "quarterly", "ttm"}

-----------------------------------------------------------------------------
(* The rows of one statement.                                              *)
Row(day, covers) == [end |-> day, covers |-> covers]
Year(kind, q) == IF kind = "balance" THEN {q} ELSE (q - 3) .. q

Figure(f, q) == IF f.quarters[q] THEN {q} ELSE {}
FeedQuarters(f) == {Row(FeedEnd(q), Figure(f, q)) : q \in DOMAIN f.quarters}
FeedYears(kind, f) == {Row(FeedEnd(q), Year(kind, q)) : q \in f.years}
TableQuarters(t) == {Row(Close(q), Figure(t, q)) : q \in DOMAIN t.quarters}
TableYears(t) == {Row(Close(q), Year("cash", q)) : q \in t.years}

Newest(rows, n) == {x \in rows : Cardinality({y \in rows : y.end > x.end}) < n}

(* Four quarters that end with last, the figures they add up to where all  *)
(* four report one, and whether no quarter between them is missing.        *)
Window(rows, last) == Newest({x \in rows : x.end <= last.end}, 4)
Windows(rows) == {x \in rows : Cardinality(Window(rows, x)) = 4}
SumWindow(kind, rows, last) ==
    LET W == Window(rows, last)
    IN  IF \E x \in W : x.covers = {} THEN {}
        ELSE IF kind = "balance" THEN last.covers
        ELSE UNION {x.covers : x \in W}

consecutiveQuarters(rows, last) ==
    LET o == quarterOrdinal(last.end)
    IN  {quarterOrdinal(x.end) : x \in Window(rows, last)} = (o - 3) .. o

(* Slips: wrong forms of the definitions below that the properties must    *)
(* tell from the code.  No action uses them.                               *)
AnyFourQuarters(kind, rows) ==
    {Row(last.end, SumWindow(kind, rows, last)) : last \in Windows(rows)}

DeriveTTMRows(kind, rows) ==
    {Row(last.end, SumWindow(kind, rows, last)) :
        last \in {x \in Windows(rows) : consecutiveQuarters(rows, x)}}

statementRowsForPeriod(kind, period, f) ==
    CASE period = "annual"    -> FeedYears(kind, f)
      [] period = "quarterly" -> FeedQuarters(f)
      [] period = "ttm"       -> DeriveTTMRows(kind, FeedQuarters(f))

-----------------------------------------------------------------------------
(* The label of a fiscal period: <<year, quarter>>, quarter 0 for a year.  *)
FiscalYearEndMonth(rows) ==
    LET months == {Month(x.end) % 12 : x \in rows}
    IN  IF Cardinality(months) = 1 THEN CHOOSE m \in months : TRUE ELSE NoMonth

(* Two slips, as above: months counted back from a year that ended later,  *)
(* and calendar quarters for fiscal ones.                                  *)
MonthsMayBeNegative(day, yearEnd, annual) ==
    LET elapsed == (Month(day) % 12) - yearEnd
    IN  IF annual THEN <<Month(day) \div 12, 0>>
        ELSE IF yearEnd = NoMonth THEN NoLabel
        ELSE <<Month(day) \div 12, IF elapsed = 0 THEN 4 ELSE elapsed \div 3>>

CalendarQuarter(day, yearEnd, annual) ==
    LET year == Month(day) \div 12
        month == Month(day) % 12
    IN  IF annual THEN <<year, 0>>
        ELSE IF yearEnd = NoMonth THEN NoLabel
        ELSE <<IF month > yearEnd THEN year + 1 ELSE year, (month \div 3) + 1>>

fiscalPeriodLabel(day, yearEnd, annual) ==
    LET year == Month(day) \div 12
        month == Month(day) % 12
        elapsed == ((month - yearEnd) + 12) % 12
    IN  IF annual THEN <<year, 0>>
        ELSE IF yearEnd = NoMonth \/ elapsed % 3 # 0 THEN NoLabel
        ELSE <<IF month > yearEnd THEN year + 1 ELSE year,
               IF elapsed = 0 THEN 4 ELSE elapsed \div 3>>

-----------------------------------------------------------------------------
(* The filing a period is joined to: of those of the forms the period      *)
(* admits the last filed of each reported close, and of these the nearest. *)
identityForms(period) ==
    CASE period = "annual"    -> {"10-K"}
      [] period = "quarterly" -> {"10-Q"}
      [] period = "ttm"       -> PeriodicForms

(* Two slips.                                                              *)
AnyOfTheDay(index, forms) == {f \in index : f.form \in forms}

NearestAtAnyDistance(ids, day) ==
    IF ids = {} THEN NoFiling
    ELSE CHOOSE f \in ids :
            \A g \in ids : Distance(f.report, day) <= Distance(g.report, day)

buildFilingIdentityMap(index, forms) ==
    {f \in index : /\ f.form \in forms
                   /\ \A g \in index : g.form \in forms /\ g.report = f.report
                                          => g.filed <= f.filed}

lookupFilingIdentity(ids, day) ==
    LET near == {f \in ids : Distance(f.report, day) <= Tolerance}
    IN  IF near = {} THEN NoFiling
        ELSE CHOOSE f \in near :
                \A g \in near : Distance(f.report, day) <= Distance(g.report, day)

-----------------------------------------------------------------------------
(* The records of one statement.  A failed join (NoJoin) joins nothing.    *)
Matches(filter, day) == filter = NoFilter \/ day \in filter

(* A slip.                                                                 *)
FiledIfJoined(ids, filter, x) ==
    LET f == lookupFilingIdentity(ids, x.end)
    IN  f # NoFiling => Matches(filter, f.filed)

IsFiled(ids, filter, x) ==
    \/ filter = NoFilter
    \/ LET f == lookupFilingIdentity(ids, x.end)
       IN  f # NoFiling /\ f.filed \in filter

applyFilingFilters(rows, ids, filter) == {x \in rows : IsFiled(ids, filter, x)}

Record(day, x, label, f) ==
    [period |-> day, end |-> x.end, covers |-> x.covers, label |-> label, filing |-> f]

buildStatementRecords(kind, rq, f, ids) ==
    LET rows == {x \in applyFilingFilters(statementRowsForPeriod(kind, rq.period, f),
                                          ids, rq.filing) : Matches(rq.report, x.end)}
        yearEnd == FiscalYearEndMonth(FeedYears(kind, f))
        joined(x) == lookupFilingIdentity(ids, x.end)
        label(x) == IF rq.period = "ttm" THEN NoLabel
                    ELSE fiscalPeriodLabel(x.end, yearEnd, rq.period = "annual")
    IN  {Record(IF joined(x) = NoFiling THEN x.end ELSE joined(x).report,
                x, label(x), joined(x)) : x \in Newest(rows, rq.limit)}

(* fetchMarketbeatCashFlow reads the fiscal year end off the newest year.  *)
TableYearEnd(t) ==
    LET newest == Newest(TableYears(t), 1)
    IN  IF newest = {} THEN NoMonth ELSE Month((CHOOSE x \in newest : TRUE).end) % 12

marketbeatCashFlowRecords(rq, t, ids) ==
    LET rows == {x \in applyFilingFilters(IF rq.period = "annual" THEN TableYears(t)
                                          ELSE TableQuarters(t), ids, rq.filing) :
                    Matches(rq.report, x.end)}
        label(x) == fiscalPeriodLabel(x.end, TableYearEnd(t), rq.period = "annual")
    IN  {Record(x.end, x, label(x), lookupFilingIdentity(ids, x.end)) :
            x \in Newest(rows, rq.limit)}

(* Any four columns in a row, whatever they are the columns of; a trailing *)
(* row is joined to no filing, and filing_date filters are not looked at.  *)
marketbeatTTMRecords(rq, t) ==
    LET rows == TableQuarters(t)
        kept == {x \in Windows(rows) : Matches(rq.report, x.end)}
    IN  {Record(x.end, Row(x.end, SumWindow("cash", rows, x)), NoLabel, NoFiling) :
            x \in Newest(kept, rq.limit)}

statementRecords(kind, rq, f, t, ids) ==
    IF kind # "cash" THEN buildStatementRecords(kind, rq, f, ids)
    ELSE IF rq.period = "ttm" THEN marketbeatTTMRecords(rq, t)
    ELSE marketbeatCashFlowRecords(rq, t, ids)

-----------------------------------------------------------------------------
Init ==
    /\ request \in Requests
    /\ statements = NotYet /\ filings = NotYet /\ table = NotYet
    /\ response = NotYet

(* concurrent2: the two runs end in either order, each in its answer or a  *)
(* failure; an answer of another shape than expected is Drifted.           *)
ReadStatements ==
    /\ statements = NotYet
    /\ statements' \in Feeds \cup {Failed, Drifted}
    /\ UNCHANGED <<request, filings, table, response>>

ReadFilings ==
    /\ filings = NotYet
    /\ filings' \in Indexes \cup {Failed, Drifted}
    /\ UNCHANGED <<request, statements, table, response>>

Fetched == statements # NotYet /\ filings # NotYet

Refuse ==
    /\ Fetched /\ response = NotYet
    /\ statements = Failed \/ filings = Drifted
    /\ response' = Failed
    /\ UNCHANGED <<request, statements, filings, table>>

(* The cash flow statement is the table's, whatever the feed says; a table *)
(* without a period of the kind asked for is a failure.                    *)
Columns(t) == IF request.period = "annual" THEN t.years ELSE DOMAIN t.quarters

ReadTable ==
    /\ Fetched /\ table = NotYet
    /\ statements # Failed /\ filings # Drifted
    /\ "cash" \in request.kinds
    /\ table' \in {t \in Tables : Columns(t) # {}} \cup {Failed}
    /\ UNCHANGED <<request, statements, filings, response>>

(* A failed filings run joins nothing.  What buildStatementRecords refuses *)
(* - statements that drifted, and filing_date filters without a join - it  *)
(* refuses for the statements it builds, of which cash is none.            *)
Identities ==
    IF filings = Failed THEN {}
    ELSE buildFilingIdentityMap(filings, identityForms(request.period))

RecordsRefused ==
    /\ request.kinds # {"cash"}
    /\ statements = Drifted \/ (filings = Failed /\ request.filing # NoFilter)

Respond ==
    /\ Fetched /\ response = NotYet
    /\ statements # Failed /\ filings # Drifted
    /\ "cash" \in request.kinds => table # NotYet
    /\ response' = IF table = Failed \/ RecordsRefused THEN Failed
                   ELSE [k \in request.kinds |->
                            statementRecords(k, request, statements, table, Identities)]
    /\ UNCHANGED <<request, statements, filings, table>>

Next == ReadStatements \/ ReadFilings \/ ReadTable \/ Refuse \/ Respond

Spec == Init /\ [][Next]_vars

-----------------------------------------------------------------------------
Answered == response \notin {NotYet, Failed}
Days == Nat
Records ==
    [period : Days, end : Days, covers : SUBSET Int,
     label : (Int \X (0 .. 4)) \cup {NoLabel}, filing : Filing \cup {NoFiling}]

TypeOK ==
    /\ request \in Requests
    /\ statements \in Feeds \cup {NotYet, Failed, Drifted}
    /\ filings \in Indexes \cup {NotYet, Failed, Drifted}
    /\ table \in Tables \cup {NotYet, Failed}
    /\ Answered => /\ DOMAIN response = request.kinds
                   /\ \A k \in request.kinds : \A r \in response[k] : r \in Records

(* A trailing row adds up the four quarters that end with its own, or      *)
(* reports nothing; a balance is that of the last of the four.             *)
IsWholeYear(kind, r) ==
    \/ r.covers = {}
    \/ \E q \in Quarters :
          /\ r.end = (IF kind = "cash" THEN Close(q) ELSE FeedEnd(q))
          /\ r.covers = Year(kind, q)

(* Whatever quarters the feed lacks, no trailing income or balance row     *)
(* covers anything but one whole year (statements.go, DeriveTTMRows).      *)
TrailingYearsAreWhole ==
    Answered /\ request.period = "ttm" =>
        \A k \in request.kinds \ {"cash"} : \A r \in response[k] : IsWholeYear(k, r)

(* marketbeatTTMRecords says that it "sums four consecutive quarters into  *)
(* each trailing window".                                                  *)
CashTrailingYearsAreWhole ==
    Answered /\ request.period = "ttm" /\ "cash" \in request.kinds =>
        \A r \in response["cash"] : IsWholeYear("cash", r)

(* A record carries the filing of its own period or none, never that of a  *)
(* period next to it, although the sources date the same period apart      *)
(* (service.go, lookupFilingIdentity); and of the filings read about that  *)
(* period none was filed later (buildFilingIdentityMap).                   *)
FilingsAreOfTheirPeriod ==
    Answered =>
        \A k \in request.kinds : \A r \in response[k] :
            r.filing # NoFiling =>
                /\ \E q \in Quarters : r.end \in {FeedEnd(q), Close(q)}
                                       /\ r.filing.report = Close(q)
                /\ \A g \in filings :
                      /\ g.form \in identityForms(request.period)
                      /\ g.report = r.filing.report
                      => g.filed <= r.filing.filed

(* A filing_date filter lets through only records that carry a filing of   *)
(* its days: a period that joins to nothing is not guessed to match        *)
(* (service.go, applyFilingFilters).  Trailing cash rows are not filtered. *)
FilteredRecordsAreFiled ==
    Answered /\ request.filing # NoFilter =>
        \A k \in request.kinds : k # "cash" \/ request.period # "ttm" =>
            \A r \in response[k] : r.filing # NoFiling /\ r.filing.filed \in request.filing

(* Labels count as the periods do, whenever the fiscal year ends: two      *)
(* records n quarters apart have labels n quarters apart, and two years    *)
(* labels n years apart (statements.go, fiscalPeriodLabel).                *)
LabelsCountQuarters ==
    Answered /\ request.period # "ttm" =>
        \A k \in request.kinds \ {"cash"} : \A r, s \in response[k] :
            r.label # NoLabel /\ s.label # NoLabel =>
                4 * (r.label[1] - s.label[1]) + (r.label[2] - s.label[2])
                    = quarterOrdinal(r.end) - quarterOrdinal(s.end)
=============================================================================
