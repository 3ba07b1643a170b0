-------------------------------- MODULE Tools -------------------------------
(***************************************************************************)
(* The plan of every tool and capability: service/tools.go and the handler *)
(* each name is bound to.  Which runs the handler makes, which it makes at *)
(* once and which one after another, which of them it cannot do without,   *)
(* and what kind of answer it gives.  The three statements by themselves   *)
(* are in Statements; what the rows of an answer say is in Answers.        *)
(***************************************************************************)
EXTENDS Plans, Sequences

CONSTANTS
    PageBanks,     \* the banks whose own page states the rate
    MaxExhibits,   \* maxEarningsExhibits
    MaxCandidates, \* the fund documents getIndexFund tries
    AnyYear        \* no year asked for

Filings(ticker) == Use("filings", ticker)
Statements(ticker) == Use("statements", ticker)
Table(ticker) == Use("table", ticker)
Prices(ticker) == Use("prices", ticker)
Extract(id, what) == Use("extract", <<id, what>>)

-----------------------------------------------------------------------------
(* Filings: [id, form, year, filed, sec], filed = 0 where the filing date  *)
(* is missing and sec where the document is SEC's own.                     *)
FormOf(filings, form) == {f \in filings : f.form = form}
Newest(filings) == {f \in filings : \A g \in filings :
    g.filed < f.filed \/ (g.filed = f.filed /\ g.id <= f.id)}

LatestFilingByForm(filings, form) ==
    LET known == {f \in FormOf(filings, form) : f.sec /\ f.filed # 0}
        last == {f \in known : \A g \in known : g.year <= f.year}
    IN Newest(last)

LatestFilingYear(filings, form) ==
    {y \in {f.year : f \in FormOf(filings, form)} :
        \A f \in FormOf(filings, form) : f.year <= y}

SelectFiling(filings, form, years) ==
    Newest({f \in FormOf(filings, form) : f.filed # 0 /\ f.year \in years})

ResolveIssuerCIK(got, a, then) ==
    Need(got, {Filings(a.ticker)},
        IF \E f \in Data(got, Filings(a.ticker)) : f.sec
        THEN then ELSE Answer("not_found", {Filings(a.ticker)}))

-----------------------------------------------------------------------------
(* One run, one answer.                                                    *)
GetCompanyFacts(a, got) == Checked(a, LET all == Use("catalog", "all") IN
    Need(got, {all}, IF a.ticker \in Data(got, all)
                     THEN Answer("rows", {all}) ELSE Answer("not_found", {all})))
GetFilingsUnchecked(a, got) == Need(got, {Filings(a.ticker)},
    Checked(a, List(got, Filings(a.ticker))))
GetFilings(a, got) == Checked(a, List(got, Filings(a.ticker)))
GetStockPrices(a, got) == Checked(a, List(got, Prices(a.ticker)))
GetStockPrice(a, got) == Checked(a, Catalog(got, Use("summary", a.ticker)))
GetNews(a, got) == Checked(a, List(got, Use("news", <<a.ticker, a.limit>>)))
GetInsiderTrades(a, got) == Checked(a, List(got, Use("insider", a.ticker)))
GetInsiderNames(a, got) == Checked(a, List(got, Use("insider", a.ticker)))
ScreenStocks(a, got) == Checked(a, List(got, Use("screener", a.limit)))
GetIPOs(a, got) == Refused(a, Checked(a, List(got, Use("filings_of_any_country", a.ticker))))
GetIPOCalendar(a, got) == Checked(a, List(got, Use("ipos", "all")))
GetMarketSnapshot(a, got) == Record(got, Use("movers", "all"))
GetKPISectors(a, got) == Checked(a, Record(got, Use("sectors", a.tickers)))
CoverageTickers(a, got) == Checked(a, Record(got, Use("catalog", "US")))
ListKPISectors(a, got) == Catalog(got, Use("page", "industries"))
ListIndexFundTickers(a, got) == Catalog(got, Use("page", "funds"))
ListCIKs(a, got) == Catalog(got, Use("sec_page", <<0, "tickers">>))
Static(a, got) == Checked(a, Answer("rows", {}))

-----------------------------------------------------------------------------
(* Statements joined to filings, and priced.                               *)

(* The filings only add to a row which filing it came from, unless the     *)
(* caller filters by it.                                                   *)
IdentityMap(a, got, then) ==
    LET filings == Filings(a.ticker)
    IN IF got[filings].read = "drift" THEN Answer("drift", {filings})
       ELSE IF ~Read(got, filings) /\ a.filtered THEN Answer("run_error", {filings})
       ELSE then

WithFilings(a, got, then) ==
    Stage(got, {Statements(a.ticker), Filings(a.ticker)},
        Need(got, {Statements(a.ticker)}, IdentityMap(a, got, then)))

GetFinancialMetrics(a, got) == Checked(a, WithFilings(a, got,
    IF Data(got, Statements(a.ticker)) = {} THEN Rows(FALSE, {Statements(a.ticker)})
    ELSE Stage(got, {Prices(a.ticker)}, Rows(TRUE, {Statements(a.ticker)}))))

(* The trailing row is read, and priced, while the summary is under way.   *)
GetFinancialMetricsSnapshot(a, got) == Checked(a,
    LET summary == Use("summary", a.ticker)
        trailing == Statements(a.ticker)
        priced == IF Data(got, trailing) = {} THEN {} ELSE {Prices(a.ticker)}
    IN Stage(got, {summary, trailing} \cup priced,
           IF Bad(got, {summary}, "failed") THEN Answer("run_error", {summary})
           ELSE Need(got, {trailing}, Need(got, {summary},
                    Answer("rows", {summary, trailing})))))

GetAllFinancials(a, got) == Checked(a, WithFilings(a, got,
    Need(got, {Table(a.ticker)}, Answer("rows", {Statements(a.ticker), Table(a.ticker)}))))

(* Every company's statements at once; then, company by company, the table *)
(* of cash flows.  Statements without any output fail the call; statements *)
(* and tables that are JSON and no parser accepts leave their columns out. *)
SearchLineItems(a, got) == Checked(a,
    LET company(i) == Statements(a.tickers[i])
        companies == {company(i) : i \in DOMAIN a.tickers}
        bad == {i \in DOMAIN a.tickers :
                   got[company(i)].read = "failed" \/ got[company(i)] = NoOutput}
        earliest == CHOOSE i \in bad : \A j \in bad : i <= j
        tables == IF a.cash THEN {i \in DOMAIN a.tickers :
                                     Table(a.tickers[i]) \notin DOMAIN got} ELSE {}
        next == CHOOSE i \in tables : \A j \in tables : i <= j
        tried == {Table(a.tickers[i]) : i \in DOMAIN a.tickers} \cap DOMAIN got
    IN Stage(got, companies,
           IF bad # {} THEN Need(got, {company(earliest)}, Answer("rows", {}))
           ELSE IF Bad(got, tried, "failed") THEN Answer("run_error", tried)
           ELSE IF tables # {} THEN Ask({Table(a.tickers[next])})
           ELSE Rows(\E u \in companies \cup tried : Data(got, u) # {}, companies)))

-----------------------------------------------------------------------------
(* Earnings.                                                               *)
Releases(ticker) == {Statements(ticker), Filings(ticker)}

(* earningsForTicker: nil where either run is of no use.                   *)
Composed(got, ticker) == \A u \in Releases(ticker) : Read(got, u)

EarningsOfStatements(a, got) ==
    Stage(got, Releases(a.ticker), Need(got, {Statements(a.ticker)},
        Rows(Data(got, Statements(a.ticker)) # {}, Releases(a.ticker))))
EarningsForTicker(a, got) ==
    Need(got, Releases(a.ticker), Stage(got, {Use("surprise", a.ticker)},
        Rows(Data(got, Statements(a.ticker)) # {}, Releases(a.ticker))))

(* The calendar names the companies.  One malformed name fails the call;   *)
(* one company that cannot be read is left out.                            *)
EarningsFeed(got) ==
    LET calendar == Use("calendar", "all")
        reporters == Data(got, calendar)
        heard == {t \in reporters : Composed(got, t)}
    IN Need(got, {calendar},
           IF "malformed" \in reporters THEN Answer("input_error", {calendar})
           ELSE Stage(got, UNION {Releases(t) : t \in reporters},
                    Rows(\E t \in heard : Data(got, Statements(t)) # {},
                         UNION {Releases(t) : t \in heard})))

GetEarnings(a, got) == Checked(a,
    IF a.ticker = "all" THEN EarningsFeed(got) ELSE EarningsForTicker(a, got))

-----------------------------------------------------------------------------
(* Documents: a filing is chosen, then read.                               *)
GetFilingItems(a, got) == Checked(a,
    LET filings == Data(got, Filings(a.ticker))
        years == IF a.year = AnyYear THEN LatestFilingYear(filings, a.form) ELSE {a.year}
        chosen == SelectFiling(filings, a.form, years)
        filing == CHOOSE f \in chosen : TRUE
        document == Use("document", filing.id)
    IN Need(got, {Filings(a.ticker)},
           IF chosen = {} THEN Answer("not_found", {Filings(a.ticker)})
           ELSE IF ~filing.sec THEN Answer("run_error", {Filings(a.ticker)})
           ELSE Need(got, {document},
                    IF a.item # "all" /\ a.item \notin Data(got, document)
                    THEN Answer("not_found", {document})
                    ELSE Stage(got, {<<"filings", a.ticker, "cik">>},
                             Answer("rows", {document})))))

ExtractLatest(a, got, what) ==
    LET chosen == LatestFilingByForm(Data(got, Filings(a.ticker)), a.form)
        filing == CHOOSE f \in chosen : TRUE
    IN Need(got, {Filings(a.ticker)},
           IF chosen = {} THEN Answer("not_found", {Filings(a.ticker)})
           ELSE IF filing.year < a.since THEN Rows(FALSE, {Filings(a.ticker)})
           ELSE List(got, Extract(filing.id, what)))

(* The period filter of segments is applied to what was extracted.         *)
GetSegmentedFinancials(a, got) == Checked(a, ExtractLatest(a, got, "segments"))
GetKPIMetrics(a, got) == Checked(a, ExtractLatest(a, got, "metrics"))

(* Releases are opened newest first until there are items enough.  A       *)
(* directory that fails, or lists no exhibit, is passed over.              *)
Unopened(releases, got) ==
    {f \in releases : Data(got, Use("directory", f.id)) = {}}
Untried(releases, got) ==
    {f \in releases : Use("directory", f.id) \notin DOMAIN got}

KPIFromEarningsReleases(a, got, what) ==
    LET releases == FormOf(Data(got, Filings(a.ticker)), "8-K")
        directory(f) == Use("directory", f.id)
        opened == {f \in releases : Data(got, directory(f)) # {}}
        unread == {Extract(f.id, what) : f \in opened} \ DOMAIN got
        items == UNION {Data(got, Extract(f.id, what)) : f \in opened}
        left == Untried(releases, got)
        newest == CHOOSE f \in Newest(left) : TRUE
        enough == Cardinality(opened) >= MaxExhibits \/ Cardinality(items) >= a.limit
    IN Need(got, {Filings(a.ticker)},
           IF unread # {} THEN Ask(unread)
           ELSE IF left # {} /\ ~enough THEN Ask({directory(newest)})
           ELSE IF opened = {} THEN Answer("not_found", {Filings(a.ticker)})
           ELSE Rows(items # {}, {Filings(a.ticker)}))

GetKPIGuidance(a, got) == Checked(a, KPIFromEarningsReleases(a, got, "guidance"))
GetKPINonGAAP(a, got) == Checked(a, KPIFromEarningsReleases(a, got, "non_gaap"))

(* As-reported statements: filing by filing, its summary and then each     *)
(* statement the summary lists, one after another; any of them is fatal.   *)
SelectAsReportedFilings(filings, a) ==
    LET periodic == {f \in filings : f.form = a.form /\ f.sec}
        later(f) == {g \in periodic : g.year > f.year \/ (g.year = f.year /\ g.id > f.id)}
    IN {f \in periodic : Cardinality(later(f)) < a.limit}

NextPage(f, a, got) ==
    LET summary == Use("sec_page", <<f.id, "summary">>)
        pages == {Use("sec_page", <<f.id, k>>) : k \in a.kinds \cap Data(got, summary)}
        left == pages \ DOMAIN got
    IN IF summary \notin DOMAIN got THEN {summary}
       ELSE IF left = {} THEN {} ELSE {CHOOSE u \in left : TRUE}

BuildAsReportedRecords(a, got, filings) ==
    LET selected == SelectAsReportedFilings(filings, a)
        unfinished == {f \in selected : NextPage(f, a, got) # {}}
        next == CHOOSE f \in unfinished : \A g \in unfinished : g.id <= f.id
        pages == {u \in DOMAIN got : u[1] = "sec_page"}
        rendered == {u \in pages : u[2][2] # "summary"}
    IN IF selected = {} THEN Answer("not_found", {Filings(a.ticker)})
       ELSE Need(got, pages,
                IF unfinished # {} THEN Ask(NextPage(next, a, got))
                ELSE Rows(Cardinality(a.kinds) > 1 \/ rendered # {}, pages))

(* The filings are asked for once to find the issuer and again for their   *)
(* own sake.                                                               *)
GetAsReported(a, got) == Checked(a,
    LET filings == <<"filings", a.ticker, "records">>
        build == Need(got, {filings}, BuildAsReportedRecords(a, got, Data(got, filings)))
    IN IF a.cik THEN build ELSE ResolveIssuerCIK(got, a, build))

-----------------------------------------------------------------------------
(* Interest rates: every bank at once, each read in its own way.           *)

(* The bank's page.  What it states is "now", "earlier" than the months    *)
(* asked for, or nothing.                                                  *)
ReadScrapedRate(got, bank) == Use("page", bank)

(* Japan's listing of this year, or else of the last one, and the newest   *)
(* statement it links.                                                     *)
ThisYear == 2
Listing(year) == Use("listing", year)
ReadBOJRate(got) ==
    LET reads(y) == IF Data(got, Listing(y)) = {} THEN {Listing(y)}
                    ELSE {Listing(y), Extract(y, "boj")}
    IN IF Read(got, Listing(ThisYear)) /\ Data(got, Listing(ThisYear)) = {}
       THEN {Listing(ThisYear)} \cup reads(ThisYear - 1) ELSE reads(ThisYear)

(* A month has a rate where a decision came before it; a bank that could   *)
(* not be read, and one that decided too late, have none.                  *)
GetInterestRates(a, got) == Checked(a,
    LET pages == {ReadScrapedRate(got, b) : b \in PageBanks}
        uses == pages \cup ReadBOJRate(got)
        stated == {u \in uses : u[1] # "listing"}
        shown == {u \in stated : \E day \in Data(got, u) : day <= a.until}
    IN Stage(got, uses,
           IF shown = {} THEN Answer("unread", uses) ELSE Answer("rows", shown)))

-----------------------------------------------------------------------------
(* Index funds: the documents a search finds, the likeliest first, until   *)
(* one of them lists holdings.                                             *)
GetIndexFund(a, got) == Checked(a,
    LET search == Use("search", a.ticker)
        candidates == {c \in Data(got, search) : c <= MaxCandidates}
        sheet(c) == Use("sheet", c)
        found == {c \in candidates : Data(got, sheet(c)) # {}}
        left == {c \in candidates : sheet(c) \notin DOMAIN got}
        next == CHOOSE c \in left : \A d \in left : c <= d
    IN Need(got, {search},
           IF found = {} /\ left # {} THEN Ask({sheet(next)})
           ELSE IF found = {} THEN Answer("bad_request", {search})
           ELSE LET uses == {sheet(c) : c \in found}
                IN IF \E u \in uses : \E day \in Data(got, u) : day > a.until
                   THEN Answer("not_found", uses) ELSE Answer("rows", uses)))

-----------------------------------------------------------------------------
(* Who owns it.                                                            *)
Holders(ticker) == Use("holders", ticker)

GetInstitutionalHoldings(a, got) == Refused(a, Checked(a,
    ResolveIssuerCIK(got, a, List(got, Holders(a.ticker)))))
GetInstitutionalInvestors(a, got) == Checked(a,
    ResolveIssuerCIK(got, a, List(got, Holders(a.ticker))))
GetInsiderOwnership(a, got) == Refused(a, Checked(a,
    ResolveIssuerCIK(got, a, List(got, Use("trading", a.ticker)))))

Feeds == {Use("feed", "13D"), Use("feed", "13G")}

GetBeneficialOwners(a, got) == Checked(a,
    Need(got, Feeds, Rows(\E u \in Feeds : Data(got, u) # {}, Feeds)))

(* The feeds, which must all be readable; a company in none of them is     *)
(* looked up in its own index at EDGAR, one extraction for each filing.    *)
BeneficialFromEDGAR(a, got, whenNone) ==
    LET filings == Filings(a.ticker)
        known == \E f \in Data(got, filings) : f.sec
        index == Use("index", a.ticker)
        stakes == {s \in Data(got, index) : s.form \in a.forms}
        later(s) == {t \in stakes : t.id > s.id}
        listed == {s \in stakes : Cardinality(later(s)) < a.limit}
        left == {s \in listed : Extract(s.id, "stake") \notin DOMAIN got}
        next == CHOOSE s \in left : \A t \in left : t.id <= s.id
        named == {Extract(s.id, "stake") : s \in {t \in listed :
                     Data(got, Extract(t.id, "stake")) # {}}}
    IN Stage(got, {filings},
           IF ~known THEN whenNone
           ELSE Stage(got, {index},
                    IF left # {} THEN Ask({Extract(next.id, "stake")})
                    ELSE IF named = {} THEN whenNone ELSE Answer("rows", named)))

(* Rows from the first source that has any.  The first source is the feeds *)
(* already in hand, which cannot fail, so that the failure of the other is *)
(* never told from its having none.                                        *)
FirstNonEmpty(held, second) == IF held # {} THEN Answer("rows", held) ELSE second

GetBeneficialOwnership(a, got) == Refused(a, Checked(a,
    LET feeds == {Use("feed", f) : f \in a.forms}
        held == {u \in feeds : a.holder \in Data(got, u)}
        none == Rows(FALSE, feeds)
    IN Need(got, feeds, FirstNonEmpty(held,
           IF a.ticker = "none" THEN none ELSE BeneficialFromEDGAR(a, got, none)))))

-----------------------------------------------------------------------------
CoverageLists == {"list_company_facts_tickers", "list_earnings_tickers",
    "list_filings_tickers", "list_metrics_snapshot_tickers", "list_prices_tickers",
    "list_price_snapshot_tickers", "list_institutional_holdings_tickers",
    "list_kpi_tickers"}
StaticLists == {"list_stock_screener_filters", "list_filing_item_types",
    "list_filing_types", "list_interest_rate_banks"}
CIKLists == {"list_filings_ciks", "list_company_facts_ciks"}

ToolHandlers(tool, a, got) ==
    CASE tool = "get_company_facts" -> GetCompanyFacts(a, got)
      [] tool = "get_financial_metrics_snapshot" -> GetFinancialMetricsSnapshot(a, got)
      [] tool = "get_filings" -> GetFilings(a, got)
      [] tool = "get_stock_prices" -> GetStockPrices(a, got)
      [] tool = "get_stock_price" -> GetStockPrice(a, got)
      [] tool = "get_news" -> GetNews(a, got)
      [] tool = "get_earnings" -> GetEarnings(a, got)
      [] tool = "get_financial_metrics" -> GetFinancialMetrics(a, got)
      [] tool = "get_insider_trades" -> GetInsiderTrades(a, got)
      [] tool = "screen_stocks" -> ScreenStocks(a, got)
      [] tool = "get_filing_items" -> GetFilingItems(a, got)
      [] tool = "get_segmented_financials" -> GetSegmentedFinancials(a, got)
      [] tool = "get_kpi_metrics" -> GetKPIMetrics(a, got)
      [] tool = "get_kpi_guidance" -> GetKPIGuidance(a, got)
      [] tool = "get_kpi_non_gaap" -> GetKPINonGAAP(a, got)
      [] tool = "get_interest_rates" -> GetInterestRates(a, got)
      [] tool = "get_index_fund" -> GetIndexFund(a, got)
      [] tool = "get_institutional_holdings" -> GetInstitutionalHoldings(a, got)
      [] tool = "get_beneficial_owners" -> GetBeneficialOwners(a, got)
      [] tool = "get_beneficial_ownership" -> GetBeneficialOwnership(a, got)
      [] tool = "get_insider_ownership" -> GetInsiderOwnership(a, got)
      [] tool = "get_institutional_investors" -> GetInstitutionalInvestors(a, got)
      [] OTHER -> Static(a, got)

Capabilities(tool, a, got) ==
    CASE tool \in CoverageLists -> CoverageTickers(a, got)
      [] tool \in CIKLists -> ListCIKs(a, got)
      [] tool \in StaticLists -> Static(a, got)
      [] tool = "list_insider_names" -> GetInsiderNames(a, got)
      [] tool = "get_all_financials" -> GetAllFinancials(a, got)
      [] tool = "search_line_items" -> SearchLineItems(a, got)
      [] tool = "get_kpi_sectors" -> GetKPISectors(a, got)
      [] tool = "list_kpi_sectors" -> ListKPISectors(a, got)
      [] tool = "list_index_fund_tickers" -> ListIndexFundTickers(a, got)
      [] tool = "get_ipos" -> GetIPOs(a, got)
      [] tool = "get_ipo_calendar" -> GetIPOCalendar(a, got)
      [] tool = "get_market_snapshot" -> GetMarketSnapshot(a, got)
      [] tool = "get_as_reported" -> GetAsReported(a, got)
      [] OTHER -> ToolHandlers(tool, a, got)
=============================================================================
