------------------------------ MODULE Earnings -------------------------------
(***************************************************************************)
(* Earnings and financial metrics: providers/earnings.go,                  *)
(* providers/metrics.go and service/valuation.go, three readings of the    *)
(* statements feed besides the one in Statements.                          *)
(*                                                                         *)
(* A feed is, for each statement, the days its quarters and its years end  *)
(* on, always the last day of a month; a figure is known by the days it    *)
(* adds up.  An option is a set of at most one member.                     *)
(***************************************************************************)
EXTENDS Calendar, FiniteSetsExt

CONSTANT PeriodTolerance       \* statementPeriodTolerance

Kinds == {"income", "balance", "cash"}
YearOf(day) == Month(day) \div 12
Apart(a, b) == IF a < b THEN b - a ELSE a - b

(* A period counts where all three statements have it.                     *)
JoinedByDate(feed) == feed["income"] \cap feed["balance"] \cap feed["cash"]

-----------------------------------------------------------------------------
(* Earnings: one record for each filing, [close, filed, form, dated],      *)
(* whose period the feed has.                                              *)
EarningsFilings(rows) == {f \in rows : f.form \in {"10-K", "10-Q"} /\ f.dated}

(* Slip: the feed must date the period as the filing does.                 *)
SameDay(days, close) == days \cap {close}
NearestPeriod(days, close) ==
    LET near == {d \in days : Apart(d, close) <= PeriodTolerance}
    IN IF close \in days THEN {close}
       ELSE {d \in near : \A e \in near : Apart(d, close) <= Apart(e, close)}

PreviousQuarter(days, close) ==
    {d \in days : quarterOrdinal(d) = quarterOrdinal(close) - 1}
YearOverYearQuarter(days, close) ==
    {d \in days : quarterOrdinal(d) = quarterOrdinal(close) - 4}
PreviousYear(years, close) == {d \in years : YearOf(d) = YearOf(close) - 1}

Block(figures, previous, yearAgo) ==
    [figures |-> figures, previous |-> previous, yearAgo |-> yearAgo]

EarningsRecord(filing, quarters, years) ==
    LET close == filing.close
        year == IF filing.form = "10-K" THEN NearestPeriod(years, close) ELSE {}
    IN [filing |-> filing,
        quarterly |-> Block(NearestPeriod(quarters, close), PreviousQuarter(quarters, close),
                            YearOverYearQuarter(quarters, close)),
        annual |-> Block(year, IF year = {} THEN {} ELSE PreviousYear(years, close), {})]

FiledLater(f, g) == f.filed > g.filed \/ (f.filed = g.filed /\ f.close > g.close)

(* An index without a single 10-K or 10-Q is no index.                     *)
NormalizeEarnings(quarterly, annual, rows, limit) ==
    LET quarters == JoinedByDate(quarterly)
        matched == {f \in EarningsFilings(rows) : NearestPeriod(quarters, f.close) # {}}
        newest == {f \in matched : Cardinality({g \in matched : FiledLater(g, f)}) < limit}
    IN [drift |-> EarningsFilings(rows) = {},
        records |-> {EarningsRecord(f, quarters, JoinedByDate(annual)) : f \in newest}]

-----------------------------------------------------------------------------
(* Metrics: [day, covers, balances, growth] for each period, where covers  *)
(* are the days the flows add up and growth the covers they are compared   *)
(* with.                                                                   *)
BaseMetricRow(d, balances, growth) ==
    [day |-> d, covers |-> {d}, balances |-> balances, growth |-> growth]

QuarterlyMetricRows(days) ==
    {BaseMetricRow(d, PreviousQuarter(days, d), YearOverYearQuarter(days, d)) : d \in days}
AnnualMetricRows(days) ==
    {BaseMetricRow(d, PreviousYear(days, d), PreviousYear(days, d)) : d \in days}

(* Four quarters in a row by their ordinals, whatever the feed lacks.      *)
WindowTo(days, last) ==
    {d \in days : quarterOrdinal(d) \in (quarterOrdinal(last) - 3) .. quarterOrdinal(last)}
Complete(days) == {d \in days : Cardinality(WindowTo(days, d)) = 4}
TTMMetricRows(days) ==
    {[day |-> d, covers |-> WindowTo(days, d), balances |-> PreviousQuarter(days, d),
      growth |-> UNION {WindowTo(days, e) : e \in
                    {x \in Complete(days) : quarterOrdinal(x) = quarterOrdinal(d) - 4}}] :
        d \in Complete(days)}

MetricRows(quarterly, annual, period) ==
    CASE period = "annual" -> AnnualMetricRows(JoinedByDate(annual))
      [] period = "quarterly" -> QuarterlyMetricRows(JoinedByDate(quarterly))
      [] period = "ttm" -> TTMMetricRows(JoinedByDate(quarterly))

(* The valuation reads the statements anew, each by itself: the last row   *)
(* of the statement up to the period's day.  [day, covers].  Slip: a       *)
(* trailing year is read off its last quarter.                             *)
OneQuarterOfTheYear(days, years, kind, period) ==
    {[day |-> d, covers |-> {d}] : d \in IF period = "annual" THEN years ELSE days}
StatementRows(days, years, kind, period) ==
    CASE period = "annual" -> {[day |-> d, covers |-> {d}] : d \in years}
      [] period = "quarterly" -> {[day |-> d, covers |-> {d}] : d \in days}
      [] period = "ttm" -> {[day |-> d, covers |-> IF kind = "balance" THEN {d}
                                                   ELSE WindowTo(days, d)] : d \in Complete(days)}

PeriodValues(rows, day) ==
    LET past == {r \in rows : r.day <= day}
    IN {r \in past : \A s \in past : s.day <= r.day}

CloseOnOrBefore(closes, day) ==
    LET past == {d \in closes : d <= day} IN IF past = {} THEN {} ELSE {Max(past)}

(* A ttm row is priced as of now.  Slip: every row is.                     *)
PricedAsOfNow(closes, period, day) == Max(closes)
PricedAt(closes, period, day) == IF period = "ttm" THEN Max(closes) ELSE day

(* [row, priced, values]: a row without a price is left as it is.          *)
Valued(row, priced, quarterly, annual, period) ==
    [row |-> row, priced |-> priced,
     values |-> [kind \in Kinds |-> IF priced = {} THEN {} ELSE PeriodValues(
         StatementRows(quarterly[kind], annual[kind], kind, period), row.day)]]
WithValuation(quarterly, annual, period, closes) ==
    {Valued(row, CloseOnOrBefore(closes, PricedAt(closes, period, row.day)), quarterly, annual, period) :
        row \in MetricRows(quarterly, annual, period)}
=============================================================================
