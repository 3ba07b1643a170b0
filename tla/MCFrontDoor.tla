----------------------------- MODULE MCFrontDoor -----------------------------
(* Two readers that turn the pages of one list, of filings, whose newest   *)
(* come first, of prices, whose oldest do, or of holdings; and for a route *)
(* of each kind a visitor that asks it anything at all.                    *)
EXTENDS FrontDoor

CONSTANTS alice, bob, mallory, demo

TheKeys == {alice, bob, mallory, demo}
Good(route, key) == [route |-> route, method |-> Route([route |-> route]).method, key |-> key,
    ticker |-> "AAPL", faults |-> {}, cursor |-> NoCursor, traced |-> FALSE, origin |-> FALSE]
Sound(route, key) == IF Good(route, key).method = "any" THEN [Good(route, key) EXCEPT !.method = "POST"]
                     ELSE Good(route, key)
Feed(q) == [q EXCEPT !.ticker = ""]
Odd(route) ==
    LET q == Sound(route, bob)
    IN {q, [q EXCEPT !.key = NoKey], [q EXCEPT !.traced = TRUE],
        [q EXCEPT !.cursor = Garbled], [q EXCEPT !.method = "PUT"],
        [q EXCEPT !.key = NoKey, !.ticker = "TSLA"]}
       \cup (IF Route(q).method = "any" THEN {} ELSE {[q EXCEPT !.key = mallory]})
       \cup (IF Route(q).ticker \/ route = "earnings" THEN {Feed(q)} ELSE {})
       \cup {[q EXCEPT !.faults = {f}] : f \in Route(q).reads}
       \cup {[q EXCEPT !.method = "OPTIONS", !.origin = o] : o \in BOOLEAN}

Visited == {"statements", "holdings", "items", "earnings", "screener", "coverage", "requests",
            "mcp", "compare"}
TheVisitors == {{<<route, 0>>} : route \in Visited}
TheReaders == {{<<route, i>> : i \in 1 .. 2} : route \in {"filings", "prices", "holdings"}}
TheParties == TheVisitors \cup TheReaders
TheRequests(c) ==
    IF c[2] = 0 THEN Odd(c[1])
    ELSE {[Sound(c[1], alice) EXCEPT !.traced = t] : t \in {FALSE, c[2] = 2}}
=============================================================================
