-------------------------------- MODULE Plans -------------------------------
(***************************************************************************)
(* What a handler is put together from: the runs it makes, what a run      *)
(* comes back with, and the answers it can give (service/service.go,       *)
(* service/validate.go, fd and providers/errors.go).                       *)
(***************************************************************************)
EXTENDS Naturals, FiniteSets

(* A use is the endpoint a handler reads, the subject it reads it for, and *)
(* what for; the cache knows it by the first two.                          *)
Use(endpoint, subject) == <<endpoint, subject, "rows">>
KeyOfPurpose(use) == use
Key(use) == <<use[1], use[2]>>

(* A run fails or is read; a payload that no parser accepts is a drift, and*)
(* so is the missing output of a run that completed, which is no JSON.     *)
Ok(data) == [read |-> "ok", data |-> data]
Drift == [read |-> "drift", data |-> {}]
NoOutput == [read |-> "drift", data |-> {0}]
Failed == [read |-> "failed", data |-> {}]

Ask(uses) == [kind |-> "asks", of |-> uses]
Answer(kind, uses) == [kind |-> kind, of |-> uses]
Pending == Answer("pending", {})
Successes == {"rows", "empty", "not_found", "bad_request"}
Errors == {"input_error", "drift", "run_error", "unread"}
Rows(some, uses) == Answer(IF some THEN "rows" ELSE "empty", uses)

Read(got, use) == use \in DOMAIN got /\ got[use].read = "ok"
Data(got, use) == IF Read(got, use) THEN got[use].data ELSE {}
Bad(got, uses, read) == \E u \in uses : got[u].read = read

(* Runs made at once: nothing goes on until all of them are back.          *)
Stage(got, uses, then) ==
    IF uses \subseteq DOMAIN got THEN then ELSE Ask(uses \ DOMAIN got)

(* Runs the handler cannot do without: a run that failed is reported       *)
(* before a payload that cannot be read.                                   *)
Need(got, uses, then) ==
    Stage(got, uses,
        IF Bad(got, uses, "failed") THEN Answer("run_error", uses)
        ELSE IF Bad(got, uses, "drift") THEN Answer("drift", uses)
        ELSE then)

(* Arguments are looked at before anything is run: one of the wrong type,  *)
(* and then one whose value is invalid, is an error; one this server does  *)
(* not support is an answer that says so.                                  *)
Coerced(a, then) == IF a.fault = "mistyped" THEN Answer("input_error", {}) ELSE then
Checked(a, then) ==
    Coerced(a, IF a.fault = "invalid" THEN Answer("input_error", {}) ELSE then)
Refused(a, then) == IF a.fault = "unsupported" THEN Answer("bad_request", {}) ELSE then

(* A list may be empty; a catalog without entries is no catalog.           *)
List(got, use) == Need(got, {use}, Rows(Data(got, use) # {}, {use}))
Record(got, use) == Need(got, {use}, Answer("rows", {use}))
Catalog(got, use) == Need(got, {use},
    IF Data(got, use) = {} THEN Answer("drift", {use}) ELSE Answer("rows", {use}))
=============================================================================
