# Monid Finance in TLA+

Monid Finance is one Go server that answers financial questions (statements,
prices, filings, ownership, ...) over REST and MCP. It owns no data: every
answer is composed of *runs*, calls of third-party endpoints that the service
Monid makes on the caller's key and bills to the caller. The hard part of the
program is therefore not any single request. It is what happens when requests
overlap and sources disagree: what is bought, who is billed, what is written
down about it, what is remembered and for how long, and what is served when
sources that date the same quarter differently, lack quarters or fail are
joined into one statement. That is what these modules specify.

Paths below are relative to `src/go/`; `docs/` and `docs-site/` lie beside it.

## 1. Inventory

| Component | State it keeps | Operations | Hard behaviour | Correct when |
|---|---|---|---|---|
| Monid client (`monid/client.go`, `poll.go`, `artifact.go`, `parse.go`) | per tool call: a channel of run slots | `Run`: allowlist, slot, POST, poll, judge, download | some twenty ways out; callers that leave; runs that change between readings, or never settle; a POST whose answer is lost | slots are held by exactly those inside; a POST is never repeated; a result without an error is a completed run of its own question |
| run cache (`service/cache.go`) | process wide map, LRU list, counters | `Get`, `Put`, `Clear` | map and list kept in step by hand; expiry, capacity, renewal | map = list; the least recently used goes; reads do not renew; it is a store with a time to live |
| run service (`service/service.go` `callCtx.run`, `trace.go`, `fd/receipts.go`) | trace per call, ledger file, running total | `run`, `RecordSuccess`, `RecordFailure`, `append` | the cache, the client, the trace and the ledger are four critical sections with everything else in between; ledger writes fail silently; restarts | no run billed twice; nothing cached that was not receipted; trace, ledger and total agree |
| rate limiter (`httpapi/ratelimit.go`) | token bucket per key | `allow` | the clock is read before the bucket is locked, so its clock goes back | grants bounded in every window; a paced caller is never refused |
| response cache (`httpapi/cache.go`, `cacheshared.go`) | per machine map and FIFO list; one shared backend (Upstash or Redis) | `withCache`, `tieredStore.get/put`, `responseCache.get/put` | copies of copies with clocks of their own; a backend that is slow or gone; deploys | nothing served after its time; nothing served to whom it is not for; a dead backend costs nobody an answer |
| statement tools (`service/service.go`, `allfinancials.go`, `marketbeatcashflow.go`, `providers/statements.go`) | none: three sources per call | four tools | concurrent runs of which one may fail; gaps; closes that drift; amendments; fiscal years that end anywhere | a trailing year is four quarters in a row; a record carries its own filing; filters are honoured or refused; labels count quarters |
| front door (`httpapi/router.go`, `auth.go`, `errors.go`) | none of its own; buckets and caches behind it | CORS, method, key, limit, cache, handler | the order of the gates; an operator's key that pays for callers without one; one status per error class | nothing is spent before every gate is passed; nobody pays for another |
| REST handlers and paging (`httpapi/rest.go`) | none; a cursor is an offset | 54 paths, `paginateValue` | the list is fetched anew for every page, or comes from a cached copy | a chain of pages is the list |
| MCP transport (`mcpserver/protocol.go`) | none | `ServeHTTP`, `handleCall` | three statuses for what is not a call; a tool's error is told with 200 | what is no call costs no run |
| SEC catalog (`service/secciks.go`) | one copy of a file, a mutex | `fetchSECCatalog` | the mutex is held across a paid fetch | one download per time to live |
| other tools (`service/*.go`) | none | some fifty tools and capabilities, each a handler | fan-outs whose failures are fatal, skipped or replaced by another source; searches that open one document after another | each failure has the effect its tool says; nothing is bought twice; every call ends |
| parsers and joins (`providers/*.go`, `service/asreported.go`, `valuation.go`) | none | payloads to records | feeds that date a period differently, lack periods, or print structure as text | a record is of its own filing, period and section |
| process (`cmd/server/main.go`) | - | start, shutdown | shutdown waits 20 s, a run may take 180 s | the ledger survives it |

How they interact: a request passes the front door, is counted by the rate
limiter and looked up in the response cache; a miss reaches a handler, which
calls one tool; the tool asks `callCtx.run`, from one goroutine or several; that
asks the run cache, and on a miss the call's Monid client; what comes back is
noted in the trace and the ledger and stored in the run cache; the tool composes
its records; REST cuts a page out of them and stores the response in the
response cache. The rate limiter, both caches and the ledger belong to the
process and are shared by all requests; the client and the trace belong to one
call; the backend is shared by all machines.

## 2. Modules

    TTLStore  <---implements---  RunCache -----+
                                               +---> RunService
    RunContract <--implements--  MonidClient   |
        ^                            |         |
        +--------- Monid ------------+         |
        +----------- instanced by -------------+

    Plans ---> ToolCall ---+                        AsReported ---+
      |                    +---> ToolService        FilingItems --+---> Answers
      +------> Tools ------+        Calendar +----> Earnings -----+
                                             +----> Statements
    FifoCache ---> TieredCache    Routes ---> FrontDoor    RateLimiter

A module `X` is checked by `MCX` with `X*.cfg` (`ToolService` by `MCTools`) and proved
about in `XProofs`; `StatementsProofs` is about `Statements` and `Answers`.

What runs are, and what happens to them:

* **`RunCache`** keeps the Go cache's two structures as two variables, `entries`
  and `order`; `GetAbsent`, `GetExpired` and `GetLive` are the three ways through
  `Get`, and `Put` and `Clear` are the methods. Every method holds the mutex
  throughout, so each is one action. `recency` is a history variable.
* **`TTLStore`** is what the cache promises whatever list it keeps: an abstract
  store that answers from its last fresh entry and gives up another entry only
  when it is full. `ImplementsStore` is the refinement.
* **`Monid`** is the external service, reduced to what the client can see of it:
  runs that start when a POST is accepted and settle later or never.
* **`MonidClient`** takes each goroutine through `Run`: one action for each place
  where another goroutine, Monid or the departure of the caller can intervene.
  `Leave` is the return with its deferred release of the slot. `Judge` is the
  chain of status checks that follows the POST and each poll.
* **`RunContract`** is what a caller may rely on: a `Run` buys at most one run.
  `MonidClient` implements it (`KeepsContract`), and `RunService` is built on it
  instead of on the client, so the two proofs and the two state spaces stay apart.
* **`RunService`** is `callCtx.run` composed of instances of `RunCache` and
  `RunContract` with the trace and the ledger: `Hit`, `Miss`, `Run`, `Record` and
  `Store` are the stretches between its critical sections. The ledger's file and
  Monid outlive `Restart`; everything else does not. A call's trace is the sequence
  its recorder keeps, one step for each question.

What tools do with runs:

* **`Plans`** is the vocabulary of a handler: a *use* is an endpoint, the subject it is
  read for and the purpose (the cache knows it by the first two); a run comes back
  `Ok` with data, as a payload that no parser accepts (`Drift`), without any output
  (`NoOutput`) or `Failed`; and a
  handler, given what it has got so far, either asks for more (`Ask`) or answers.
  `Stage` is a fan-out that waits for all its runs, `Need` one whose failures are fatal,
  `Checked`, `Coerced` and `Refused` are what an argument may be turned away for.
* **`Tools`** writes every tool and capability of `service.go`'s tables as such a plan,
  under the source's names: which runs, in which order, which of them at once, and
  what a failure of each does. Data are what the next run depends on (the filings to
  choose from, the rows of a search) and whether there are any.
* **`ToolCall`** is one call of any plan at all: `Call`; `Hit` and `Buy`, in whatever
  order the runs of a stage come back; `Reply`; `Again`, the same call once more; and
  `Expire`. A run is cached before its payload is looked at, so a drift is cached too.
* **`ToolService`** puts the two together and says what every tool promises of its
  answers and its errors. `Optional` names, tool by tool, the runs an answer may do
  without: the one place where a failure may look like "no rows".

What answers say:

* **`Statements`** is one call of a statement tool: `ReadStatements` and
  `ReadFilings` end in either order in an answer, a failure or an answer of
  another shape; `ReadTable` follows for cash flow; `Respond` applies the pure part,
  which is translated operator by operator under the source's names. A figure is
  the set of the quarters it adds up, so that a wrong sum is a wrong set. **`Calendar`**
  is the calendar the feed's two readers, this and `Earnings`, count quarters in.
* **`AsReported`** is the tree builder of as-reported statements, over element names as
  sequences of words; **`FilingItems`** is the scan that finds the items of a document,
  over lines told apart by what the regular expressions see of them; **`Earnings`** is the
  joins of the earnings and metrics tools and the valuation of a row. The two loops over
  rows and lines are functions of how many were read (`Grown`, `Scan`).
* **`Answers`** asks these pure algorithms one question at a time. A question carries
  the payload and, where a property needs it, the truth the payload was printed from.
  What it assumes of the questions is said in `FilingsAreNearTheirOwn`,
  `FeedsHaveQuarters` and `DocumentsAreFiled`; of statements it assumes nothing but that
  they end.

What stands in front:

* **`RateLimiter`** splits `allow` into finding the bucket, reading the clock and
  taking the bucket's lock. Tokens are exact integers (`Minute` units each).
* **`FifoCache`** is `responseCache` as a value, one operator per method;
  **`TieredCache`** is `withCache` over one such cache per machine and a shared
  backend. A request is a record with a place; its steps are separated by round
  trips and by locks.
* **`Routes`** is a table of the REST handlers: what each refuses before it asks the
  service, how it answers and pages, and in which order its list comes. MCP and the
  comparison proxy, outside that table, answer some requests by themselves (`Insists`,
  `Refusal`). **`FrontDoor`** takes a request through the
  gates in their order (`TurnAway`, `Enter`), the response cache (`LookUp`), the
  handler's checks (`Refuse`), the service (`Call`: no run or several, and perhaps a failure
  after some of them were paid) and the page that is cut (`Respond`),
  while the list grows (`Publish`), caches lose entries (`Forget`) and buckets refill;
  `Follow` is a client that takes up a `next_page_url`.

Wrong forms of definitions ("slips") stand next to the definitions; no action
uses them. They are the plausible mistakes that each property must be able to tell
from the code, and substituting one makes the property fail.

## 3. What is checked

| Run | States | What it shows |
|---|---|---|
| `run_cache` | 26 thousand | the map and the list agree, the right entry is evicted, only a store renews, and the cache implements `TTLStore` |
| `monid_client` | 163 thousand | slots are held in `Run` and nowhere else, results are true, `RunContract` is implemented, and every `Run` returns, one that waits for its sibling's slot too, **if Monid settles its runs** |
| `run_service` | 562 thousand | across hits, misses, failures, failing ledger writes and a restart: nothing cached that was not receipted or is not true, trace = ledger, total = rows |
| `tools` | 234 thousand | every tool and capability: one run per key, repeats are free, no answer stands for a failure but where the tool says so, no error blames a run that was read, and every call replies |
| `answers` | 88 thousand | statements read in order, items are those of the body, earnings are their filing's and valuations their period's |
| `statements` | 46 thousand | over 5 indexes of filings, 9 feeds and 5 tables with gaps and 48 requests: whole trailing years, right filings, honoured filters, labels that count |
| `rate_limiter` | 1.5 million | with readings that overtake each other: credit in bounds, grants bounded in every window, a paced request never refused |
| `tiered_cache` | 230 thousand | two machines and a backend: hits are fresh, map = list, hits may be shared, and lookups are served although the backend never answers |
| `front_door` | 2.3 million | pages of a list that grows, newest first, oldest first or by value, join up; a refused request costs no run, but for a late cursor and the calendar's tickers; and a wallet pays for the runs of no more requests than its bucket let in |

Three runs end in a violation on purpose. Each states what the repository says of the
program, and its counterexample shows that the code does something else:

| Run | The repository says | The code |
|---|---|---|
| `statements_cash_years` | `service/marketbeatcashflow.go:377`: sums four consecutive quarters | sums four columns next to each other, with no check like `consecutiveQuarters` in `DeriveTTMRows` |
| `answers_section_totals` | `service/asreported_test.go:257`: a section header owns the rows beneath it, up to and including its total | a total whose name merely begins the name of an enclosing section closes that section (`service/asreported.go:791`), and the rows after it fall outside |
| `answers_period_before` | `providers/earnings.go:393`: period-over-period and year-over-year changes | the previous quarter is counted from the filing's own close (`:468`), the figures are looked up by the feed's month end; a quarter that closes on October 2 is compared with itself |

What the two violated properties on `Answers` leave standing is checked in the passing
run: `StatementsReadInOrder`, and in `RecordsAreOfTheirFilings` the comparisons of a
filing that closes in the feed's own quarter.

Seen while modelling, without a run of their own. On runs and their bills:

* `service/cache.go:12`: two callers asking the same question in the same TTL window
  share one run and one bill. Nothing joins a caller to a run in flight: two that
  both miss both buy.
* `monid/client.go:52`: the error carries the failing run so that a receipt can be
  recorded for it. Failed lookups and downloads (`monid/poll.go`) drop the run.
* A failed run's cost is in its ledger row and in `SpentUSD`, and not in the
  trace: `service/trace.go:57` says that failed runs contribute nothing because
  Monid bills them nothing. `TraceMatchesLedger` is stated over bought runs.
* `SpentUSD()` "totals" the ledger (`docs/compatibility.md:28`); it totals the
  rows of the present process (`SpentIsWhatWasWritten`).
* `docs/architecture.md:12` and the comment at `monid/poll.go:28` say polling is
  bounded by the call's deadline. No server context carries one.
* `service/capabilities.go` calls `ListFilingsCIKs` free and not routed through a paid
  provider; `service/secciks.go` fetches it through Monid and bills it.
* `service/asreported.go:244` speaks of one paid call; every page scraped is paid.

On the front door:

* `httpapi/ratelimit.go:15` allows a request "if a full token is available". A
  reading that arrives late takes tokens back first, so a request may be refused
  by a bucket that holds one. `PacedRequestsPass` is what remains true.
* `httpapi/cache.go:169`: a settled request can only be answered with figures that are
  already fixed. A period is settled when it has closed, weeks before it is
  filed, and the answer without it is then kept for a day.
* `docs-site/guides/caching.mdx` says two keys never share a cached response; by
  default they do (`PerCaller` is FALSE), on purpose, as `httpapi/cache.go` explains.
* `docs-site/guides/errors.mdx` says that a 400 is free. A list's cursor is read after
  the list has been paid for (only the coverage lists look at it first), and the
  calendar's tickers are looked at after the calendar has been. `RefusalsAreFree` makes
  both exceptions by name. A 401 or a 429 may have cost a run as well: it is also what is
  answered when Monid refuses the second run of a request whose first was paid
  (`httpapi/errors.go:53`).
* One token buys as many runs as the handler makes. What the limiter bounds is the
  requests that a wallet pays for, not the runs.
* Pages of a list that comes newest first join up only while they are cut from lists no
  older than the page before (`inOrder` in `PagesJoinUp`): a page that comes from an older
  cached copy leaves a gap. Of a list that comes oldest first, as prices do, they join up
  whatever they are cut from, but what is published between two of them may be missing
  where the last page came from a cached copy. Of a list ordered by value nothing is
  said but that one that has not changed is read once.
* The coverage lists page, and write neither `next_page_url` nor provenance headers.
* `next_page_url` of a cached page carries the host and scheme of whoever asked first.
* The MCP endpoint takes a token before it looks at the method, and tells the errors of
  JSON-RPC and of tools with status 200 (other methods get 405, notifications 202). A key
  spelled "demo" would share the demo's bucket.

On tools and records:

* `docs/compatibility.md:121`: a failed join with `filing_date` filters active answers
  `upstream_error`. True of income and balance only; cash flow answers without it.
* `docs-site/mcp-tools/overview.mdx:54`: only rows whose `report_period` falls on or
  after the date. Rows are filtered by the feed's month end and then shown with the
  filing's own close.
* `mcpserver/tool_schemas.json:133` speaks of the most recently filed report;
  `latestFilingYear` picks the newest report year. `bestHeading` ranks by the latest
  start, and its comment says the earliest.
* `service/service.go:505` and `service/marketbeatcashflow.go:353` say trailing
  cash flow is composed from the normalized feed; it is composed from the table.
* `get_cash_flow_statement` fails if the normalized statements run fails, although
  it uses nothing of it; `getBeneficialOwnership` fetches its feeds before
  `firstNonEmpty` chooses among them, so that a failed feed is fatal.
* A cash flow year that closes on January 1 and the next, on December 31, get the
  same fiscal label. `LabelsCountQuarters` covers the other two statements.
* The guidance and non-GAAP tools accept `report_period` filters and ignore them. EDGAR
  rows ignore `filing_date` filters. REST's line item search passes a limit of 0.
* `search_line_items` skips statements that are JSON and no statements
  (`service/searchlineitems.go:186`), where its comment speaks of a section that is
  absent: a drift the other tools report is "no rows" here. `Skipped` names the case.
* Interest rates answer "no central bank page could be read" also where every page was
  read and the window precedes every decision, and the window counts eleven months where
  its comment says twelve.
* A 10-Q's titled table of contents that neither lists parts nor names them costs the
  first items of the body their headings: without its part an item cannot be told from
  its namesake, and the table does not list it. A titled table that names the part with
  each of several items ends at the second of them.
* A line that refers to "Part II, Item 1A", or begins "Part II" in a sentence, sets the part
  as its title does (`providers/filingitems.go:236`), so that items headed after it are
  looked up in the other part. `SectionsAreOfTheBody` speaks of items that no such line
  relabels.
* A malformed ticker in the earnings calendar is blamed on the caller, after the
  calendar's run was paid for (`ErrorsAreEarned` names the case).
* `service/valuation.go:13`: a historical row is valued at the price that stood then. With
  `period=ttm` every row is valued at the newest close (`:271`), the trailing years of
  earlier quarters too; the comment at `:249` explains it for the newest row.
  `ValuationsAreOfTheirPeriod` bounds the price of all other rows by their day.

### Bounds

Each bound is a constant, named in the module and set in the `.cfg`, or a set in the
`MC` module.

* `RunCache`: room for two of three cacheable keys, so that evictions, hits that
  reorder and overwrites meet; a fourth key whose TTL is negative. `MaxNow` 3 with
  TTLs 1 and 2 lets entries expire and be stored again; `MaxReads` 3.
* `MonidClient`: one call whose two goroutines share its one slot, so that each waits
  for what the other holds; two permitted questions and one that is not; `MaxRuns` 2.
  Calls share nothing but Monid. Any number of calls, goroutines and slots is
  `SlotsHeld`; that nobody starves is checked for these two goroutines only.
* `RunService`: two calls, two questions, a cache of one entry, a clock of one
  tick, one restart. One entry makes stores evict each other. `MaxAttempts` 1: a
  goroutine's next question meets the same shared state as another goroutine's first.
* `Tools`: every tool, with each argument that changes what it runs; about one
  company, or two where a tool takes a list, or the two of the earnings calendar;
  for each endpoint the payloads the plans tell apart, none among them. A handler of
  one call never sees more. `MaxLapses` 1: one cached run expires, in the middle of a
  call or between two. `MaxExhibits` and `MaxCandidates` 2 are the least in which a
  search goes on. `PageBanks` is one of the banks whose page is read, beside the one
  whose page leads on to a statement. The keys in `Steady` do not fail: for each of
  them a sibling does.
* `Answers`: every statement of up to five rows over eight kinds of row, where
  nesting three deep, a total of a name that begins another and a breakdown meet;
  10-Qs of five items, of which two pairs share a number, with lines in between that
  refer to items and parts, amendments that begin with the second part, and a dozen kinds
  of front matter (a form without parts, as the 10-K, is left to `SectionsAreFound`); eight quarters in months of eight days, closes that drift by two days
  across a month's end under a tolerance of three, and feeds whose statements lack a
  quarter each.
* `Statements`: six quarters around a fiscal year that ends in September, months of
  four days, closes that drift by a day either way, one missing quarter at each
  position, a blank figure, no annual rows, unfiled and twice filed periods.
* `RateLimiter`: three requests on one bucket of two tokens over two minutes of two
  ticks; three are needed for a reading to be overtaken twice.
* `TieredCache`: two machines, two requests, room for one local entry, a second of
  two ticks (so that truncation loses something), one deploy. No
  symmetry is used, as the run checks liveness too.
* `FrontDoor`: either two readers that turn the pages of one list, of filings (newest
  first), prices (oldest first) or holdings (by value); or one visitor of a route of each
  kind (a list, one by value, a document, the earnings calendar, a POST, a coverage list,
  a route that calls nothing, MCP, the comparison proxy) with every way to ask it wrongly.
  Lists grow to `MaxLength` 3, the least that takes a second page of either size, and are
  cut at a `Limit` of 2; `MaxRuns` 2, so that the second run may fail when the first is
  paid; `Rate` 3, `DemoRate` 1 and one refill let every bucket run dry and admit again.
  The two page sizes differ, so that a cursor of the wrong one shows.

### Fairness

`MonidClient`: a goroutine in an HTTP exchange goes on, because the HTTP client
bounds every exchange by 180 s (`cmd/server/main.go:43`); a timer fires; a done
context is noticed: weak fairness on each. A blocked channel send is served in
arrival order, so a goroutine waiting for a slot that is freed again and again
gets one: strong fairness on `Acquire`. That a lookup fails or that a caller leaves is
never assumed. Under these alone `EveryRunReturns` is false, since nothing on the
client's side ends the polling of a run that never settles; `SettlingSpec` adds that
Monid settles its runs, and only the liveness property uses it.

`TieredCache`: weak fairness on the steps of a request. Both backend clients bound a
round trip by `sharedCacheTimeout`; the handler is taken to return.

`ToolCall`: weak fairness on `Work`. A handler is a goroutine that runs until it has
answered, and the runs it waits for return (`MonidClient`); nothing is assumed of what
they come back with. `EveryCallReplies` then says that no plan goes in circles: the
searches through releases and documents end whatever they find.

## 4. What is proved

Each theorem holds for every value of the constants that satisfies the module's
named assumptions; the runs check the same formulas on small instances first.

| Module | Theorems | Argument |
|---|---|---|
| `RunCacheProofs` | `CacheIsConsistent`, `CacheTypes`, `CacheImplementsStore`, `EvictsLeastRecently`, `OnlyStoresRenew` | `MapAndListAgree` is inductive with the types: each method is a move to the front, an unlink or a prefix of the list, and lemmas say what each does to an injective sequence. The refinement needs it to know that a store at capacity costs one entry: the last of the list, and no other. That this one is the least recently used follows from the list being in the order of the history `recency`, which a hit and a store move alike. |
| `MonidClientProofs` | `ClientTypes`, `SlotsHeld`, `ResultsTrue`, `ClientKeepsContract` | `IInv` adds to the types what a goroutine's place says of the run it has seen: settled before it is returned, of its own question, and unchanged since, because Monid changes only running runs (`Evolves`). Slots need finiteness for their cardinality to mean anything. Every step then maps to one of `RunContract` or a stutter. |
| `RunServiceProofs` | `CachedRunsTrue`, `CachedRunsReceipted`, `ServiceTypes`, `SpentIsWritten`, `TraceAndLedgerAgree`, `SharedCacheIsConsistent` | The invariant follows a run from the moment Monid numbers it through the client's result, `Record` and `Store` into the cache: at each place it is of the question asked and, once completed, no longer changes (`Evolves`); from `Record` on it has a receipt (`Paid`), in the file or among the unwritten rows, and receipts are never taken back, restart included, which empties the cache. Sums follow from one lemma on appending: the sum grows by what the new element counts for. That the cache keeps in its place the invariant it has alone is `RunCacheProofs` again, instanced for the cache of the composition. |
| `ToolCallProofs` | `CallTypes`, `OneRunPerKeyHolds`, `SecondAnswerIsFree` | For any plan and any outcomes, so for tools not yet written. What a handler holds and has not failed is in the cache until something expires (`HeldIsKept`); a second use of the key therefore hits. `SecondAnswerIsFree` asks that the plan is `Persistent`: what it asks for it goes on asking for, whichever of its other runs comes back first. What a call made again has in hand is then a part of what the first one had, which the plan can grow to the whole of it (`Reaches`); so it asks for nothing the first call did not get, and with the whole in hand it answers as before. |
| `ToolCallProofs`, of the tools | `EveryToolRepeatsFree`, `AnswersRestOnReadRuns`, `ErrorsNameTheirRuns` | For any arguments, companies and payloads. `Serves` compares what a plan does with less and with more in hand, and is proved plan by plan (`ToolServes`). It gives that every tool is persistent, that once a run is lost that the tool cannot do without, no later answer of it is a success (`LostForGood`), and that no argument is blamed once something was bought (`BlamedFirst`). |
| `FrontDoorProofs` | `NothingUnpaidFor`, `NoPageIsMissed` | `Counted`: for each wallet the requests paid for and those on their way that may still be number at most the tokens its bucket gave, the demo's for the operator's own. Each gate passed moves one from token to request, each call, whatever runs it makes, one from request to wallet. `PInv` is about pages. Newest first, what a client has seen reaches without a gap from the top of its first page down to where its next one begins (`NoGaps`), and a list that has not changed was read once (`NoRepeats`). Oldest first, it is each record before the next page, read once, whatever the pages are cut from (`GoesUp`), as a record never changes its place. What the response cache keeps is what would be cut from some list (`KeptAnswer`). |
| `RateLimiterProofs` | `CreditStaysInBounds`, `GrantsAreBounded`, `PacedRequestsAreNeverRefused` | The tokens alone are not bounded by anything, since a late reading may leave them negative. The *credit*, tokens brought to the latest reading the bucket has seen, is: a late reading leaves it unchanged, a new latest one adds its refill up to the capacity, a grant takes one token. The window bound is credit plus grants against time. |
| `TieredCacheProofs` | `CachedAnswersAreFresh`, `CachedAnswersMayBeShared`, `TieredTypes`, `LocalsStayConsistent` | `Good` says what a cache may hold under a key: an entry whose own expiry is no later than the time its first store gave it, a success, untraced, of that caller. Every copy keeps it, truncation included, whichever entry it overwrites. A local cache is in step if its list is injective and lists the map's keys; unlinking, appending and trimming keep it so. |
| `StatementsProofs` | `StatementTypes`, `JoinsAreRight`, `FiltersAreHonoured`, `TrailingYears`, `LabelsCount` | The invariant `SourcesAnswered` is that the sources are what the assumptions allow and the response is computed from them; the rest is about the pure operators. `JoinsAreRight` rests on `SpacingAssumption`: as long as two drifts and the tolerance add up to less than a quarter, near means the same quarter. `TrailingYears` shows that four rows with consecutive ordinals are four consecutive quarters; `LabelsCount` that labels are quarters counted from the fiscal year end, by linear arithmetic with the divisions split off into lemmas. |
| `StatementsProofs`, of `Answers`' joins | `EarningsJoinTheirFilings`, `RowsAreValuedInTheirPeriod` | An answer is what the algorithm makes of its question (`AnsweredAsAsked`); the rest is about the operators of `Earnings`. The nearest period is a filing's own or none; ranks, the number of filings filed later, are injective and have no holes, so that the newest fill the limit. The figures a record is compared with are those of the quarter before and of the year before its own where it closes in the quarter the feed dates it to. Four quarters with the ordinals of a window leave no room for a fifth, so that each statement's trailing year is the one all three have. A row's price is the last close up to its day, and with `ttm` the newest of all (`PricedLast`). |
| `StatementsProofs`, of its trees | `TreesReadInOrder` | `TreeHolds` is kept by every row added: the open sections lie each under the one before, and the last row is the innermost of them or lies under them all; the name kept with each is that of its row; and a section that has its total is not open and has no row after the total. A row is therefore put under one that the row above it is or lies under, the first conjunct. A total cuts the list of open sections off above its own, new sections are opened at its end only, and the path of an earlier row never changes, which gives the second. |
| `StatementsProofs`, of its items | `SectionsAreFound` | `Scanned` says of the scan after each line which headings it has and why: one for each line that names an item it looks up, at that line, in the part named last, by a title, a reference or the line itself. `InTable` says that a titled table lasts to the end of the front and what it has listed by then; `StillInTable` that as long as it goes on into the body nothing listed has come again, so that it ends at the body's first part or first item, one of which it lists. So every heading of the body is outside the table, and every one of a titled table inside. What is left is about ends: a section ends where the next heading starts (`ContentIsUnder`, `SectionsAreApart`), and of the headings of an item the last with text under it is the body's own (`SectionIsTheBest`). |

The three theorems about the tools assume of `ToolCall`'s constants what `Tools.cfg`
gives them: that `Plan` is `Capabilities` (`Handlers`) and that a run comes back read,
drifted or failed (`Reads`). `LostForGood` and `BlamedFirst` speak
of everything that may still come back, so TLC does not evaluate them; it checks what
they imply.

The four theorems about `Answers` rest on its assumptions about what is asked, which TLC
evaluates with the run. A form's items are each of a part, as a 10-Q's, or are told apart by their
numbers, as a 10-K's and an 8-K's (`CatalogAssumption`). A filing closes within `PeriodTolerance` of its own period and
of no other, and no two reports share the day they are of and the day they were filed;
no statement has two periods in one quarter; the days and figures are numbers. A
document is a front and a body (`DocumentsAreFiled`). The body (`IsBody`) opens
with a part line if the form has parts, names items of the form, and a line in it that
names an item with its part, as references do, is not followed by text of its own. The front (`IsFront`) may carry a
table of contents that is titled, in which case the title comes first, nothing is listed
twice, and it lists the part or the item the body begins with; or a table that is not,
after which no text comes before the body's first item. These are the documents
that `findHeadings` can tell apart: where the front lists neither, the items of the
body are taken for the table's, which section 3 notes, and where a reference is
followed by text, the text is taken for the item.

The library's induction rules take an operator, which the provers cannot instantiate.
Where a sum or a set grown step by step needs induction, it is done with a least
counterexample in `Nat` or with the smallest set closed under the steps (`Closed`).

Only model-checked: the liveness properties `EveryRunReturns`, `LookupsAreServed` and
`EveryCallReplies`, as liveness under fairness is out of the prover's reach. Every
invariant and every action property of a passing run is stated by a theorem.

## 5. Abstractions, and what is not modelled

* Keys are opaque: neither `newCacheKey` nor `httpapi.cacheKey` is modelled as an
  encoding. A payload is what a plan or a join depends on and no more.
* Money is a natural number; the limiter's `float64` tokens are exact.
* A key is always asked for at one rate. In `FrontDoor` the demo's bucket has a rate of
  its own, under a name of its own.
* A ledger row is written whole or not at all.
* The text protocols of the two cache backends (`RESP`, Upstash's JSON) are one action
  each: an answer, or none.
* In `ToolCall` a run is one step; what happens within one is `RunService`'s and
  `MonidClient`'s. In `FrontDoor` the service is one step, and the two caches are
  what they hold, which may be gone at any moment.
* The SEC catalog's own copy and its mutex are folded into the run cache; its copy lives
  as long as its source's entry there. The mutex is held across the fetch, so waiters
  queue behind it after their callers have left, and each buys again after a failure.
* An argument is sound, or of the wrong type, invalid or unsupported; which value is
  which is not modelled. Dates, forms and items are small numbers and names.
* A foreign company's 6-K, which may report any day at all, is left out of
  `Statements`.
* Not modelled: field-by-field renaming, the parsers of scraped pages and issuers'
  sheets, filters and sorting of the screener, JSON-RPC envelopes, the provenance
  headers' format, CORS headers, static files, the website, the tools under `tools/`,
  the documentation. They keep no state and depend on nothing but their input.

## 6. What could follow

1. **Algorithms**, pure and against reference definitions: aggregation of prices into
   weeks, months and years, the latest row of each owner, `SummarizeLedger` over torn
   files, both cache keys as encodings, `parseCost` and the walk of `hydrateValue`.
2. **`SecCatalog`**: the mutex held across a paid fetch, with the queue behind it and
   callers that leave it.
3. **Composition**: `ToolCall` over `RunService` in place of its one-step runs, with a
   refinement that maps a finished `callCtx.run` to `Hit` or `Buy`.
4. **Proofs**: a refinement of `FifoCache` to a store with a time to live. `TTLStore` does
   not fit as it is: its reads take the clock themselves, and a request takes it before.
