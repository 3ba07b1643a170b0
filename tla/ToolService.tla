----------------------------- MODULE ToolService ----------------------------
(* The tools, each run as a call: what every one of them promises about    *)
(* its answers.                                                            *)
EXTENDS ToolCall, Tools

(* Only the tools that list what they do not support refuse to serve it,   *)
(* and get_earnings is none of them; companies are asked for in an order.  *)
ASSUME ArgumentsAssumption ==
    /\ \A a \in Args("get_earnings") : a.fault \in {"none", "mistyped", "invalid"}
    /\ \A a \in Args("search_line_items") : a.tickers \in Seq(STRING)

(* The runs a tool's answer may do without.  Rows lose the column or the   *)
(* row the run was for; a tool that goes on to the next source, company,   *)
(* release or document may also find nothing at all.                       *)
Optional(t, a) ==
    CASE t = "get_financial_metrics" -> {"filings", "prices"}
      [] t = "get_financial_metrics_snapshot" -> {"prices"}
      [] t = "get_all_financials" -> {"filings"}
      [] t = "search_line_items" -> {"table"}
      [] t = "get_earnings" -> IF a.ticker = "all" THEN {"statements", "filings"}
                               ELSE {"surprise"}
      [] t \in {"get_kpi_guidance", "get_kpi_non_gaap"} -> {"directory", "extract"}
      [] t = "get_interest_rates" -> {"page", "listing", "extract"}
      [] t = "get_index_fund" -> {"sheet"}
      [] t = "get_beneficial_ownership" -> {"filings", "index", "extract"}
      [] OTHER -> {}

Catalogs == CIKLists \cup {"get_stock_price", "list_kpi_sectors", "list_index_fund_tickers"}

Lost == {u \in DOMAIN got : got[u].read # "ok"}

(* The line item search skips statements that are JSON and nothing else,   *)
(* as if the company had published none.                                   *)
Skipped(t, u, outcome) ==
    /\ t = "search_line_items" /\ u[1] = "statements"
    /\ outcome.read = "drift" /\ outcome # NoOutput

(* An answer that is no error rests on runs that were read: "no rows" and  *)
(* "not found" never stand for "could not be read", but for the runs above *)
(* and the statements a line item search skips.                            *)
(* The issuer's CIK get_filing_items adds is the one field nobody misses.  *)
AnswersAreWhole == reply.kind \in Successes =>
    \A u \in Lost : \/ u[1] \in Optional(tool, args) \/ u[3] = "cik"
                    \/ Skipped(tool, u, got[u])

(* An error is about the runs it names: it says the provider failed, or    *)
(* that its payload cannot be read, only where that is so (or, read, lists *)
(* nothing, or a document that is not SEC's), and an argument is blamed    *)
(* before anything is bought, but for a name the earnings calendar spelled.*)
ErrorsAreEarned ==
    /\ reply.kind = "run_error" => \E u \in reply.of :
           got[u].read = "failed" \/ \E f \in Data(got, u) : tool = "get_filing_items" /\ ~f.sec
    /\ reply.kind = "drift" => \E u \in reply.of :
           got[u].read = "drift" \/ (tool \in Catalogs /\ Read(got, u) /\ Data(got, u) = {})
    /\ reply.kind = "input_error" => IF args.fault # "none" THEN bought = {}
           ELSE \E u \in reply.of : "malformed" \in Data(got, u)
=============================================================================
