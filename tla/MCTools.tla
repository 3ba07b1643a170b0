------------------------------- MODULE MCTools ------------------------------
(* Every tool, about company A, or A and B, or the calendar's C and D, with*)
(* each argument that changes what it runs, and for each endpoint the      *)
(* payloads the plans tell apart.  The runs of Steady are read and have    *)
(* rows: others like them fail, drift or come back empty.                  *)
EXTENDS ToolService

AllTools == CoverageLists \cup StaticLists \cup CIKLists \cup {
    "get_company_facts", "get_financial_metrics_snapshot", "get_filings",
    "get_stock_prices", "get_stock_price", "get_news", "get_earnings",
    "get_financial_metrics", "get_insider_trades", "screen_stocks",
    "get_filing_items", "get_segmented_financials", "get_kpi_metrics",
    "get_kpi_guidance", "get_kpi_non_gaap", "get_interest_rates",
    "get_index_fund", "get_institutional_holdings", "get_beneficial_owners",
    "get_beneficial_ownership", "get_insider_ownership",
    "get_institutional_investors", "list_insider_names", "get_all_financials",
    "search_line_items", "get_kpi_sectors", "list_kpi_sectors",
    "list_index_fund_tickers", "get_ipos", "get_ipo_calendar",
    "get_market_snapshot", "get_as_reported"}

Fine == {"none"}
Faults == {"none", "mistyped", "invalid"}
AnyFault == Faults \cup {"unsupported"}
A == {"A"}

ToolArgs(t) ==
    CASE t \in {"get_news", "screen_stocks"} -> [fault : Faults, ticker : A, limit : {5}]
      [] t \in {"get_financial_metrics", "get_all_financials"} ->
             [fault : Faults, ticker : A, filtered : BOOLEAN]
      [] t = "get_earnings" -> [fault : Faults, ticker : {"A", "all"}]
      [] t = "search_line_items" ->
             [fault : Faults, tickers : {<<"B", "A">>}, cash : BOOLEAN]
      [] t = "get_kpi_sectors" -> [fault : Faults, tickers : {<<"B", "A">>}]
      [] t = "get_filing_items" -> [fault : Faults, ticker : A, form : {"10-K"},
             year : {0, 1, 2}, item : {"all", "1A"}]
      [] t = "get_segmented_financials" ->
             [fault : Faults, ticker : A, form : {"10-K"}, since : {0}]
      [] t = "get_kpi_metrics" ->
             [fault : Faults, ticker : A, form : {"10-K", "10-Q"}, since : {0, 2}]
      [] t = "get_kpi_guidance" -> [fault : Faults, ticker : A, limit : {2}]
      [] t = "get_kpi_non_gaap" -> [fault : Faults, ticker : A, limit : {1}]
      [] t \in {"get_interest_rates"} -> [fault : Faults, until : {0, 1}]
      [] t = "get_index_fund" -> [fault : Faults, ticker : A, until : {0, 1}]
      [] t \in {"get_institutional_holdings", "get_insider_ownership", "get_ipos"} ->
             [fault : AnyFault, ticker : A]
      [] t = "get_beneficial_ownership" ->
             [fault : AnyFault, ticker : A, holder : A, limit : {1, 2},
              forms : {{"13D"}, {"13D", "13G"}}]
             \cup [fault : Fine, ticker : {"none"}, holder : A, limit : {2}, forms : {{"13D", "13G"}}]
      [] t = "get_as_reported" -> [fault : Faults, ticker : A, form : {"10-K"}, cik : {FALSE},
              kinds : {{"income"}, {"income", "balance"}}, limit : {2}]
             \cup [fault : Fine, ticker : A, form : {"10-K"}, cik : {TRUE},
                   kinds : {{"income", "balance"}}, limit : {1}]
      [] OTHER -> [fault : Faults, ticker : A]

Filed(id, form, year) == [id |-> id, form |-> form, year |-> year, filed |-> id, sec |-> TRUE]
SomeFilings == {{},
    {Filed(1, "10-K", 1), Filed(2, "8-K", 2), Filed(3, "10-Q", 2)},
    {Filed(1, "8-K", 1), Filed(2, "8-K", 1), Filed(3, "8-K", 2)},
    {Filed(1, "10-K", 1), [Filed(2, "10-K", 2) EXCEPT !.filed = 0]},
    {[Filed(1, "10-K", 1) EXCEPT !.sec = FALSE]}}

Payloads(key) ==
    CASE key[1] = "filings" -> IF key[2] = "A" THEN SomeFilings ELSE {{}}
      [] key[1] = "statements" -> IF key[2] \in {"B", "D"} THEN {{1}} ELSE {{}, {1}}
      [] key[1] \in {"catalog", "feed"} -> {{}, {"A"}}
      [] key[1] = "calendar" -> {{}, {"C", "D"}, {"C", "malformed"}}
      [] key[1] = "document" -> {{}, {"1A"}}
      [] key[1] = "search" -> {{}, {1, 2, 3}}
      [] key[1] = "index" -> {{}, {[id |-> 1, form |-> "13D"], [id |-> 2, form |-> "13G"],
                                   [id |-> 3, form |-> "13D"]}}
      [] key[1] = "sec_page" /\ key[2][2] = "tickers" -> {{}, {1}}
      [] key[1] = "sec_page" /\ key[2][2] = "summary" -> {{"income"}, {"balance", "income"}}
      [] key[1] = "extract" -> {{}, IF key[2][2] = "boj" THEN {1} ELSE {key[2][1]}}
      [] OTHER -> {{}, {1}}

Steady == {<<"directory", 1>>, <<"extract", <<1, "guidance">>>>,
    <<"extract", <<1, "non_gaap">>>>, <<"extract", <<2, "non_gaap">>>>,
    <<"sec_page", <<1, "balance">>>>, <<"statements", "D">>}

Outcomes(key) ==
    IF key \in Steady THEN {Ok(data) : data \in Payloads(key) \ {{}}}
    ELSE {Failed, Drift} \cup {Ok(data) : data \in Payloads(key)}
         \cup (IF key[1] = "statements" THEN {NoOutput} ELSE {})
=============================================================================
