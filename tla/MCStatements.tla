---------------------------- MODULE MCStatements ----------------------------
(* Six quarters of a company whose year ends in September, as Apple's does,*)
(* with months of four days.  Each source is complete, lacks one quarter or *)
(* the figure of one, or has no annual rows.                               *)
EXTENDS Statements

DriftOfSix == [q \in Quarters |-> <<0 - 1, 0, 0 - 1, 1, 0, 0 - 1>>[q + 1]]

Years == {q \in Quarters : q % 4 = YearEnd}
Lacking(S) == [years |-> Years, quarters |-> [x \in Quarters \ S |-> TRUE]]
Blank(q) == [years |-> Years, quarters |-> [x \in Quarters |-> x # q]]
Yearless == [years |-> {}, quarters |-> [x \in Quarters |-> TRUE]]

TheFeeds == {Lacking({}), Blank(4), Yearless} \cup {Lacking({q}) : q \in Quarters}
TheTables == {Lacking({}), Lacking({2}), Lacking({4}), Blank(3), Yearless}

FiledAs(q, days) == [report |-> Close(q), filed |-> Close(q) + days,
                     form |-> IF q \in Years THEN "10-K" ELSE "10-Q"]
Event(q) == [report |-> FeedEnd(q), filed |-> FeedEnd(q) + 1, form |-> "8-K"]
AllFiled == {FiledAs(q, 8) : q \in Quarters}
TheIndexes ==
    {{}, AllFiled, AllFiled \ {FiledAs(5, 8)}, AllFiled \ {FiledAs(2, 8), FiledAs(3, 8)},
     AllFiled \cup {FiledAs(2, 10), FiledAs(3, 9), Event(4)}}

Half == FeedEnd(2) .. (FeedEnd(5) + MonthDays)
TheRequests ==
    [kinds : {{"income"}, {"balance"}, {"cash"}, {"income", "balance", "cash"}},
     period : {"annual", "quarterly", "ttm"}, limit : {2, 6},
     report : {NoFilter, Half}, filing : {NoFilter, Half}]
=============================================================================
