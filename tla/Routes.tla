------------------------------- MODULE Routes -------------------------------
(***************************************************************************)
(* The REST handlers of httpapi/rest.go: what each of them reads off a     *)
(* request before anything is paid for, and how it answers.                *)
(*                                                                         *)
(* A route is a record: reads are the parameters it refuses when it cannot *)
(* read them, ticker says that it refuses a request without one, calls that*)
(* it asks the service, pages that its records are cut into pages, and     *)
(* cursorFirst that it looks at the cursor before it asks.  Its list is    *)
(* ordered in time, "newest" or "oldest" first, or in an "other" way, which*)
(* is also said of one whose records are replaced.                         *)
(***************************************************************************)
EXTENDS Naturals, FiniteSets

CONSTANTS DefaultPageSize, PricesPageSize

ASSUME PageSizeAssumption ==
    DefaultPageSize \in Nat \ {0} /\ PricesPageSize \in Nat \ {0}

(* A tool's list of records under its own key, and an answer given whole.  *)
Listing(reads, envelope) ==
    [method |-> "GET", reads |-> reads, ticker |-> FALSE, calls |-> TRUE,
     cursorFirst |-> FALSE, envelope |-> envelope, pages |-> TRUE, order |-> "newest"]
Unordered(reads, envelope) == [Listing(reads, envelope) EXCEPT !.order = "other"]
Whole(reads) == [Listing(reads, "") EXCEPT !.pages = FALSE]

StatementRoute == Listing({"as_reported", "limit"}, "statements")
AllFinancials == Whole({"as_reported", "limit"})
FinancialMetrics == Listing({"limit"}, "financial_metrics")
Earnings == Listing({"limit"}, "earnings")
Filings == Listing({"limit"}, "filings")
Prices == [Listing({"interval_multiplier"}, "prices") EXCEPT !.ticker = TRUE, !.order = "oldest"]
PriceSnapshot == [Whole({}) EXCEPT !.ticker = TRUE]
News == Listing({"limit"}, "news")
InsiderTrades == Listing({"limit"}, "insider_trades")
InsiderNames == [Whole({}) EXCEPT !.ticker = TRUE]
Screener == [Whole({"body", "limit"}) EXCEPT !.method = "POST"]
CompanyFacts == Whole({})
FilingItems == [Whole({"filing_type", "year", "quarter", "include_exhibits"})
                   EXCEPT !.ticker = TRUE]
SegmentedFinancialsRoute == Listing({"limit"}, "segments")
KPIRoute == Unordered({"limit"}, "kpi_metrics")
InterestRates == Whole({})
IndexFunds == Whole({"limit", "offset"})
InstitutionalHoldings == Unordered({"limit"}, "institutional_holdings")
InsiderOwnership == Unordered({"limit"}, "insider_ownership")
BeneficialOwnershipRoute == Unordered({"limit", "history"}, "beneficial_owners")
IPOs == Listing({"limit"}, "ipos")
AsReportedRoute == Listing({"limit"}, "as_reported")
SearchLineItems == [Whole({"body"}) EXCEPT !.method = "POST"]
FilingItemsRequest == [Whole({}) EXCEPT !.calls = FALSE]
CIKRoute == Whole({})
Catalogs == [Whole({}) EXCEPT !.calls = FALSE]

(* The coverage lists page a list that they ask for whole, by the caller's *)
(* limit, and never say where it goes on.  Slip: as every other list.      *)
CursorLast == [Unordered({"limit"}, "tickers") EXCEPT !.cursorFirst = FALSE]
CoverageRoute == [Unordered({"limit"}, "tickers") EXCEPT !.cursorFirst = TRUE]

(* Outside the table, and any method gets as far as the handler: JSON-RPC, *)
(* of which only the call of a tool asks the service ("method" is any other*)
(* method, known or not, and "params" a tool that cannot be told), and     *)
(* another API's answers.                                                  *)
MCP == [Whole({"json", "id", "method", "params"}) EXCEPT !.method = "any"]
Compare == [Whole({"fd_key", "path"}) EXCEPT !.method = "any", !.calls = FALSE]

restRoutes ==
    [statements |-> StatementRoute, financials |-> AllFinancials, metrics |-> FinancialMetrics,
     earnings |-> Earnings, filings |-> Filings, prices |-> Prices, snapshot |-> PriceSnapshot,
     news |-> News, insider_trades |-> InsiderTrades, insider_names |-> InsiderNames,
     screener |-> Screener, facts |-> CompanyFacts, items |-> FilingItems,
     segments |-> SegmentedFinancialsRoute, kpi |-> KPIRoute, rates |-> InterestRates,
     funds |-> IndexFunds, holdings |-> InstitutionalHoldings, insiders |-> InsiderOwnership,
     owners |-> BeneficialOwnershipRoute, ipos |-> IPOs, as_reported |-> AsReportedRoute,
     line_items |-> SearchLineItems, requests |-> FilingItemsRequest, ciks |-> CIKRoute,
     catalogs |-> Catalogs,
     coverage |-> CoverageRoute, mcp |-> MCP, compare |-> Compare]

(* What a handler answers by itself to a request it does not pass on.      *)
Insists(route) == CASE route = "mcp" -> {"POST"} [] route = "compare" -> {"GET"}
                    [] OTHER -> {"GET", "POST"}
MCPStatus(method, faults) ==
    CASE method # "POST" -> 405
      [] method = "POST" /\ "id" \in faults /\ "json" \notin faults -> 202
      [] OTHER -> 200
CompareStatus(method, faults) ==
    CASE method # "GET" -> 405
      [] method = "GET" /\ "fd_key" \in faults -> 401
      [] OTHER -> 400
Refusal(route, method, faults) ==
    CASE route = "mcp" -> MCPStatus(method, faults)
      [] route = "compare" -> CompareStatus(method, faults)
      [] OTHER -> 400

PageSizeFor(envelope) == IF envelope = "prices" THEN PricesPageSize ELSE DefaultPageSize

-----------------------------------------------------------------------------
(* An error of the service by its type, and the answer it is given.        *)
ErrorKinds == {"input", "unsupported", "drift", "unauthorized", "blocked", "timeout",
               "limited", "other"}
classifyError(kind) ==
    CASE kind \in {"input", "unsupported"} -> 400
      [] kind = "unauthorized" -> 401
      [] kind = "blocked" -> 402
      [] kind = "limited" -> 429
      [] kind \in {"drift", "other"} -> 502
      [] kind = "timeout" -> 504

(* Over JSON-RPC an error is told in the body of an answer.                *)
StatusOf(route, kind) == IF route = "mcp" THEN 200 ELSE classifyError(kind)
=============================================================================
