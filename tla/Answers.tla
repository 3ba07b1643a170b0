------------------------------- MODULE Answers -------------------------------
(***************************************************************************)
(* What the rows of an answer say: the parsers and joins that turn the     *)
(* payloads a tool has read (Tools) into its records, each asked one       *)
(* question at a time.  A question carries the payload, and where a        *)
(* property needs it the truth the payload was printed from.               *)
(***************************************************************************)
EXTENDS AsReported, FilingItems, Earnings

CONSTANTS
    Statements,    \* [of, rows]
    Documents,     \* [of, contents, body]: the lines of each
    Reporters,     \* [of, quarterly, annual, rows, limit]
    Valuations,    \* [of, quarterly, annual, period, closes]
    NoAnswer

(* Each question asks one thing.                                           *)
QuestionsAreSorted ==
    /\ \A q \in Statements : q.of = "statement"
    /\ \A q \in Documents : q.of = "document"
    /\ \A q \in Reporters : q.of = "earnings"
    /\ \A q \in Valuations : q.of = "metrics"

(* The lines that name an item, the part named last and the part whose     *)
(* title is the last, the item a line is looked up as, and the lines up to *)
(* the next that names one.                                                *)
Names(lines) == {i \in DOMAIN lines : lines[i].kind = "item" /\ lines[i].marked}
LastPart(lines, places) == IF places = {} THEN Unnamed ELSE lines[Max(places)].part
PartOf(lines, i) == LastPart(lines, {j \in 1 .. i : lines[j].part # Unnamed})
PartTitle(lines, i) == LastPart(lines, {j \in 1 .. i : lines[j].kind = "part" /\ lines[j].marked})
Said(lines, i) == {k \in (i + 1) .. Len(lines) : Names(lines) \cap ((i + 1) .. k) = {}}
ItemAt(lines, i) == Lookup(PartOf(lines, i), lines[i].number)
WithoutParts == \A c \in ToSet(Catalog) : c.part = Unnamed

(* The body of a filing is in parts, if the form has any, and names items  *)
(* of the form; a line that refers to an item of a part is followed by     *)
(* little.                                                                 *)
IsBody(body) ==
    /\ \A i \in DOMAIN body : body[i].kind # "contents" /\ ~body[i].dotted
    /\ body # <<>> /\ ~WithoutParts => body[1].kind = "part"
    /\ \A i \in Names(body) :
           /\ ItemAt(body, i) # {}
           /\ body[i].part # Unnamed => \A k \in Said(body, i) : body[k].kind # "text"

(* What comes before it.  A table titled so lists nothing twice, and       *)
(* either the part the body begins with or the item it heads first; under  *)
(* a table that is not no text comes before that item.                     *)
IsFront(front, body) ==
    LET parts == {i \in DOMAIN front : front[i].part # Unnamed}
        items == {i \in DOMAIN front : front[i].kind = "item"}
        titles == {i \in DOMAIN front : front[i].kind = "contents"}
    IN /\ titles = {} /\ Names(front) # {} =>
              /\ \A i \in Names(front) : \A k \in DOMAIN front : i < k => front[k].kind # "text"
              /\ \A k \in DOMAIN body : body[k].kind = "text" => \E i \in Names(body) : i < k
       /\ titles # {} =>
              /\ titles = {1}
              /\ \A i, j \in parts : i < j => front[i].part # front[j].part
              /\ \A i \in Names(front) : \A j \in items :
                     i < j => ItemAt(front, i) \cap ItemAt(front, j) = {}
              /\ \/ \E i \in parts : body # <<>> /\ front[i].part = body[1].part
                 \/ \A first \in Names(body) : (\A i \in Names(body) : first <= i) =>
                        \E i \in Names(front) : ItemAt(front, i) = ItemAt(body, first)

DocumentsAreFiled == \A q \in Documents :
    /\ q.contents \in Seq(Lines) /\ q.body \in Seq(Lines)
    /\ IsBody(q.body) /\ IsFront(q.contents, q.body)

(* A filing closes within the tolerance of its own period and of no other  *)
(* the feed has, and no two of a company's reports are of the same day and *)
(* filed on the same day.                                                  *)
FilingsAreNearTheirOwn == \A q \in Reporters :
    LET days == UNION {q.quarterly[kind] : kind \in Kinds}
        filings == EarningsFilings(q.rows)
    IN /\ q.limit \in Nat /\ IsFiniteSet(q.rows) /\ days \subseteq Int
       /\ \A f \in filings :
              /\ {f.close, f.period, f.filed} \subseteq Int
              /\ \A d \in days : Apart(d, f.close) <= PeriodTolerance <=> d = f.period
              /\ \A g \in filings : f # g => FiledLater(f, g) \/ FiledLater(g, f)

(* No statement has two periods in one quarter: in what all three have in  *)
(* common uniqueByQuarter makes that a drift.                              *)
FeedsHaveQuarters == \A q \in Valuations :
    /\ q.period \in {"annual", "quarterly", "ttm"}
    /\ IsFiniteSet(q.closes) /\ q.closes \subseteq Int
    /\ \A kind \in Kinds :
          /\ q.quarterly[kind] \subseteq Int /\ q.annual[kind] \subseteq Int
          /\ \A d, e \in q.quarterly[kind] : quarterOrdinal(d) = quarterOrdinal(e) => d = e

ASSUME QuestionsAssumption == QuestionsAreSorted
ASSUME RowsAssumption == \A q \in Statements : Len(q.rows) \in Nat
ASSUME DocumentsAssumption == DocumentsAreFiled
ASSUME ToleranceAssumption == PeriodTolerance \in Nat
ASSUME FilingsAssumption == FilingsAreNearTheirOwn
ASSUME FeedsAssumption == FeedsHaveQuarters

VARIABLES question, answer
answersVars == <<question, answer>>

AnswersInit ==
    /\ question \in Statements \cup Documents \cup Reporters \cup Valuations
    /\ answer = NoAnswer

Asked(kind) == answer = NoAnswer /\ question.of = kind

BuildTree ==
    /\ Asked("statement")
    /\ answer' = Tree(question.rows)
    /\ UNCHANGED question

CutDocument ==
    /\ Asked("document")
    /\ answer' = ParseFilingSections(question.contents \o question.body)
    /\ UNCHANGED question

ComposeEarnings ==
    /\ Asked("earnings")
    /\ answer' = NormalizeEarnings(question.quarterly, question.annual,
                                   question.rows, question.limit)
    /\ UNCHANGED question

PriceMetrics ==
    /\ Asked("metrics")
    /\ answer' = WithValuation(question.quarterly, question.annual,
                               question.period, question.closes)
    /\ UNCHANGED question

AnswersNext == BuildTree \/ CutDocument \/ ComposeEarnings \/ PriceMetrics

AnswersSpec == AnswersInit /\ [][AnswersNext]_answersVars

Told(kind) == question.of = kind /\ answer # NoAnswer

-----------------------------------------------------------------------------
(* The row and every row it lies under.                                    *)
Path(under, i) ==
    LET path[j \in 0 .. i] == IF j = 0 THEN {} ELSE {j} \cup path[under[j]]
    IN path[i]

(* The rows that close a section: the section they lie under is named as   *)
(* they are, or goes on where they stop.                                   *)
Total(rows, i, section) ==
    /\ section # 0 /\ Base(rows[section]) # <<>> /\ rows[i].element # <<>>
    /\ rows[i].kind # "member" /\ IsPrefix(rows[i].element, Base(rows[section]))

(* Read from top to bottom the tree is the printed statement: a row lies   *)
(* under the row above it, or under one that does.  Nothing follows a      *)
(* section's total into the section, and no row of another breakdown does. *)
StatementsReadInOrder == Told("statement") =>
    /\ Len(answer) = Len(question.rows)
    /\ \A i \in DOMAIN answer : answer[i] \in {0} \cup Path(answer, i - 1)
    /\ \A i, j \in DOMAIN answer : i < j =>
           /\ Total(question.rows, i, answer[i]) => answer[i] \notin Path(answer, j)
           /\ question.rows[j].kind = "member" => answer[j] = 0

(* "A section header carries no value of its own and owns the rows beneath *)
(* it, up to and including its total": in a statement where each heading's *)
(* total is printed once, below it, and between the two as many headings   *)
(* as totals of theirs, the total lies under its heading.                  *)
SectionsOwnTheirTotals == Told("statement") =>
    LET rows == question.rows
        TotalsOf(h) == {t \in DOMAIN rows : rows[t].kind = "line" /\ rows[t].element = Base(rows[h])}
        headings == {h \in DOMAIN rows : rows[h].kind = "heading"}
        paired == \A h \in headings : \E t \in DOMAIN rows :
                      TotalsOf(h) = {t} /\ h < t
                      /\ \A g \in headings : h < g /\ g < t => \A u \in TotalsOf(g) : u < t
    IN paired /\ (\A i \in DOMAIN rows : rows[i].kind # "member")
           => \A h \in headings : \A t \in TotalsOf(h) : answer[t] = h

(* An item the body heads once and says enough under, whatever the text    *)
(* refers to on lines of their own, or says little under and refers to     *)
(* nowhere, is found, and what is found is that: all of it up to the next  *)
(* heading, and none of it from another item.  A reference to another part *)
(* relabels the headings below it; of an item it makes others of, or others*)
(* into, only the rest is claimed.  The body may follow a table of         *)
(* contents; one titled so never stands in for an item the body lacks.     *)
SectionsAreOfTheBody == Told("document") =>
    LET front == Len(question.contents)
        body == question.body
        titled == \E i \in DOMAIN question.contents : question.contents[i].kind = "contents"
        headings == {i \in Names(body) : body[i].part = Unnamed}
        heads(item) == {i \in headings : /\ body[i].number = item.number
                                         /\ item.part \in {Unnamed, PartTitle(body, i)}}
        relabelled(item) == \E i \in headings : i \in heads(item) <=> item \notin ItemAt(body, i)
        referred(item) == \E i \in Names(body) \ headings : item \in ItemAt(body, i)
        told(item, i) == \/ \E k \in Said(body, i) : body[k].kind = "text"
                         \/ Said(body, i) # {} /\ ~referred(item)
    IN /\ \A item \in ToSet(Catalog) : Cardinality(heads(item)) = 1 /\ ~relabelled(item) =>
              \A i \in heads(item) : told(item, i) =>
                  /\ item \in DOMAIN answer
                  /\ answer[item] = {front + k : k \in Said(body, i)}
       /\ \A a, b \in DOMAIN answer : a # b => answer[a] \cap answer[b] = {}
       /\ titled => \A a \in DOMAIN answer : \A k \in answer[a] : k > front

(* A filing whose period the feed has is never missing because the two     *)
(* date that period differently, but for more recent ones; its figures are *)
(* that period's, and where the filing closes in the feed's own quarter    *)
(* they are compared with the quarter before and the one a year before, if *)
(* the feed has them; a year's, where it closes in the feed's year, with   *)
(* the year before.                                                        *)
RecordsAreOfTheirFilings == Told("earnings") =>
    LET quarters == JoinedByDate(question.quarterly)
        years == JoinedByDate(question.annual)
        before(period, n) == {d \in quarters : quarterOrdinal(d) = quarterOrdinal(period) - n}
        told == {r.filing : r \in answer.records}
        known == {f \in EarningsFilings(question.rows) : \E d \in quarters : d = f.period}
    IN /\ \A f \in known \ told : /\ Cardinality(told) = question.limit
                                  /\ \A g \in told : g.filed >= f.filed
       /\ \A r \in answer.records : r.quarterly.figures = {r.filing.period}
       /\ \A r \in answer.records : quarterOrdinal(r.filing.close) = quarterOrdinal(r.filing.period) =>
              /\ r.quarterly.previous = before(r.filing.period, 1)
              /\ r.quarterly.yearAgo = before(r.filing.period, 4)
       /\ \A r \in answer.records :
              r.annual.figures # {} /\ YearOf(r.filing.close) = YearOf(r.filing.period) =>
                  r.annual.previous = {d \in years : YearOf(d) = YearOf(r.filing.period) - 1}

(* "Current value plus decimal-ratio period-over-period and                *)
(* (quarterly-only) year-over-year change fields": a figure is compared    *)
(* with the one of the period before, and with the one a year before.      *)
ChangesAreFromThePeriodBefore == Told("earnings") =>
    \A r \in answer.records :
        /\ \A d \in r.quarterly.previous : quarterOrdinal(d) = quarterOrdinal(r.filing.period) - 1
        /\ \A d \in r.quarterly.yearAgo : quarterOrdinal(d) = quarterOrdinal(r.filing.period) - 4
        /\ \A d \in r.annual.previous : YearOf(d) = YearOf(r.filing.period) - 1

(* A row is valued at the last close up to its period's day, and not where *)
(* there is none; a trailing year at the last close of all.  The figures it*)
(* is valued with, read by another parser from a feed whose statements lack*)
(* different periods, are of the row's period, a trailing year's of all of *)
(* its four quarters.                                                      *)
ValuationsAreOfTheirPeriod == Told("metrics") =>
    \A v \in answer :
        LET closes == {d \in question.closes : question.period = "ttm" \/ d <= v.row.day}
        IN /\ v.priced \subseteq closes /\ (v.priced = {} => closes = {})
           /\ \A d \in v.priced : \A e \in closes : e <= d
           /\ v.priced # {} => \A kind \in Kinds : v.values[kind] =
                  {[day |-> v.row.day,
                    covers |-> IF kind = "balance" THEN {v.row.day} ELSE v.row.covers]}
=============================================================================
