------------------------------ MODULE MCAnswers ------------------------------
(* Statements of up to five rows of a balance sheet, 10-Qs with and without*)
(* a table of contents, and feeds that lack a quarter of each statement.   *)
EXTENDS Answers

Both == <<"Liabilities", "AndEquity">>
SomeRows == {Heading(Both), Heading(<<"Liabilities">>), Heading(<<"Current">>),
    Printed(Both, "line"), Printed(<<"Liabilities">>, "line"), Printed(<<"Current">>, "line"),
    Printed(<<>>, "line"), Printed(<<"Products">>, "member")}
TheStatements == [of : {"statement"}, rows : BoundedSeq(SomeRows, 5)]

-----------------------------------------------------------------------------
Item(part, number) == [part |-> part, number |-> number]
TenQ == <<Item("I", "1"), Item("I", "2"), Item("II", "1"), Item("II", "1A"), Item("II", "2")>>

(* The table lists the parts, or names them with their first items, or     *)
(* does neither; or it lists the parts alone.                              *)
Listed(i, part, dotted) == [ItemLine(Catalog[i]) EXCEPT !.part = part, !.dotted = dotted]
ListOf(parts, named, dotted) ==
    LET title(p) == IF parts THEN <<PartLine(p)>> ELSE <<>>
        first(i, p) == Listed(i, IF named THEN p ELSE Unnamed, dotted)
    IN title("I") \o <<first(1, "I"), Listed(2, Unnamed, dotted)>>
       \o title("II") \o <<first(3, "II"), Listed(4, Unnamed, dotted), Listed(5, Unnamed, dotted)>>
Fronts == {<<>>, <<Line("text")>>}
    \cup {ListOf(parts, FALSE, dotted) : parts \in BOOLEAN, dotted \in BOOLEAN}
    \cup {<<Line("contents")>> \o ListOf(parts, ~parts, dotted) \o end :
             parts \in BOOLEAN, dotted \in BOOLEAN, end \in {<<>>, <<Line("text")>>}}
    \cup {<<Line("contents")>> \o ListOf(FALSE, FALSE, dotted) : dotted \in BOOLEAN}
    \cup {<<Line("contents"), PartLine("I"), PartLine("II")>>}

(* An item of the body is left out, or has nothing, little or enough under *)
(* it, or text that goes on to name another item, of a part or not, or a   *)
(* part, on a line of its own.  An amendment may have items of the second  *)
(* part only.                                                              *)
Saying(i, k) ==
    CASE k = 0 -> <<>>
      [] k = 1 -> <<ItemLine(Catalog[i])>>
      [] k = 2 -> <<ItemLine(Catalog[i]), Line("note")>>
      [] k = 3 -> <<ItemLine(Catalog[i]), Line("text")>>
      [] k = 4 -> <<ItemLine(Catalog[i]), Line("text"), Listed(2, "I", FALSE), Line("note")>>
      [] k = 5 -> <<ItemLine(Catalog[i]), [Listed(1, Unnamed, FALSE) EXCEPT !.marked = FALSE], Line("text")>>
      [] k = 6 -> <<ItemLine(Catalog[i]), Line("text"), Listed(5, "II", FALSE), Line("note")>>
      [] k = 7 -> <<ItemLine(Catalog[i]), [PartLine("II") EXCEPT !.marked = FALSE], Line("text")>>
BodyOf(a, b, c, d, e) ==
    Saying(1, a) \o Saying(2, b) \o <<PartLine("II")>> \o Saying(3, c) \o Saying(4, d) \o Saying(5, e)
Amendments == {<<PartLine("II")>> \o Saying(4, d) \o Saying(5, e) : d \in {1, 3, 4}, e \in {0, 3}}
Bodies == Amendments \cup {<<PartLine("I")>> \o BodyOf(a, b, c, d, e) :
    a \in {1, 3, 6, 7}, b \in {0, 2, 3}, c \in {1, 4, 5}, d \in {0, 3}, e \in {2, 3}}
TheDocuments == {q \in [of : {"document"}, contents : Fronts, body : Bodies] : IsFront(q.contents, q.body)}

-----------------------------------------------------------------------------
(* Quarters 1 to 8 end with March, June, September and December, years with*)
(* December, in months of eight days.                                      *)
End(q) == (3 * q) * MonthDays - 1
QuartersOf(S) == {End(q) : q \in S}
Feed(income, balance, cash) ==
    [kind \in Kinds |-> CASE kind = "income" -> income [] kind = "balance" -> balance
                          [] kind = "cash" -> cash]
Same(days) == Feed(days, days, days)
Gaps(n) == {{}} \cup {{q} : q \in 1 .. n}
Gappy(n) == {Feed(QuartersOf(1 .. n \ a), QuartersOf(1 .. n \ b), QuartersOf(1 .. n \ c)) :
                a \in Gaps(n), b \in Gaps(n), c \in Gaps(n)}
TheYears == Same(QuartersOf({4, 8}))

Filed(q, drift, lag) == [period |-> End(q), close |-> End(q) + drift,
    filed |-> End(q) + drift + lag, form |-> IF q % 4 = 0 THEN "10-K" ELSE "10-Q", dated |-> TRUE]
EarningsOf(drifts, lags, limits, lacking) ==
    [of : {"earnings"}, quarterly : {Same(QuartersOf((1 .. 8) \ S)) : S \in lacking},
     annual : {TheYears, Same({})}, limit : limits,
     rows : UNION {{{Filed(q, drift, 9) : q \in 4 .. 8},
                    {Filed(q, drift, later) : q \in 6 .. 8, later \in {9, 12}}
                        \cup {[Filed(8, drift, 10) EXCEPT !.form = "8-K"]},
                    {[Filed(8, drift, 9) EXCEPT !.dated = FALSE], Filed(7, drift, 9)},
                    {}} : drift \in drifts, lag \in lags}]
TheReporters == EarningsOf({0 - 2, 0, 2}, {9, 12}, {1, 4}, Gaps(8))

TheValuations == [of : {"metrics"}, quarterly : Gappy(6),
    annual : {TheYears, Feed(QuartersOf({4}), QuartersOf({8}), QuartersOf({4}))},
    period : {"annual", "quarterly", "ttm"}, closes : {{End(3) - 1}, {End(4) - 2, End(6) + 5}}]
=============================================================================
