----------------------------- MODULE Transport ------------------------------
(***************************************************************************)
(* One logical request of the transport: the retry loop of                 *)
(* send_with_static_header() (openai-rs-client/src/transport.rs), the      *)
(* budget that authorization_with_budget() (auth.rs) shares with it, and   *)
(* the reading of the body that follows.  The multipart, download and      *)
(* Administration lanes keep their own copies of the loop (multipart.rs,   *)
(* admin.rs); they differ in the configurations they run in and in how an  *)
(* attempt begins.                                                         *)
(*                                                                         *)
(* Time is discrete, in half-seconds since the request started.  Every     *)
(* await of the code that has a timer is a wait with a timeout; the clock  *)
(* does not advance past the end of a wait, as tokio and reqwest fire      *)
(* their timers there.  A computation between two awaits takes no time.    *)
(***************************************************************************)
EXTENDS Integers

CONSTANTS
  OverallTimeout,  \* overall_timeout
  MaxRetries,      \* RetryPolicy.max_retries
  MaxServerDelay,  \* RetryPolicy.max_server_delay
  Headers          \* values of a retry-after-ms or Retry-After header

ASSUME BudgetAssumption ==
  /\ OverallTimeout \in Nat
  /\ MaxRetries \in Nat
  /\ MaxServerDelay \in Nat
\* A header is absent, not a number and not a date ("garbage"), a nan or inf
\* ("nonfinite"), a number, or a date n from now; n is 0 when it means nothing.
ASSUME HeadersAssumption ==
  Headers \subseteq [kind : {"absent", "garbage", "nonfinite", "number", "date"},
                     n : Int]

VARIABLES
  config,         \* the operation, the credentials and the tracing in force
  now,            \* started.elapsed()
  pc,
  wait,           \* the timer of the current await: when it began, how long it is
  retries,
  auth_refreshed,
  attempts,       \* how often the request was sent, up to AttemptCap
  delay,          \* the delay chosen for the retry of the last response
  not_before,     \* history: when the wait the last response asked for is over
  result          \* "none" until the request ends

request == <<config, retries, auth_refreshed, attempts>>
answer == <<delay, not_before>>
vars == <<request, now, pc, wait, answer, result>>

\* retryable: retryable_operation(); renewable: the lease has a generation, as
\* workload identity leases have; tracing: trace::json_body_enabled(); lane: how
\* an attempt begins.
ConfigsOf(lane, retryable, renewable, tracing) ==
  [lane : {lane}, retryable : retryable, renewable : renewable, tracing : tracing]

\* send_with_static_header(), the lane of every JSON operation and of streams.
JsonLane == ConfigsOf("json", BOOLEAN, BOOLEAN, BOOLEAN)

\* send_replayable_json(): the same loop, but discarded bodies are never read.
ReplayableJsonLane == ConfigsOf("json", BOOLEAN, BOOLEAN, {FALSE})

\* send_download_with_query(): a GET may always be retried.
DownloadLane == ConfigsOf("json", {TRUE}, BOOLEAN, {FALSE})

\* send_replayable_form(): the form is built again for every attempt.
FormLane == ConfigsOf("form", BOOLEAN, BOOLEAN, {FALSE})

\* send_one_shot_form(): the body is consumed by the one attempt.
OneShotLane == ConfigsOf("one_shot", {FALSE}, BOOLEAN, {FALSE})

\* AdminClient::send(): a fixed key, no await before the attempt.
AdminLane == ConfigsOf("admin", BOOLEAN, {FALSE}, {FALSE})

Configs == UNION {JsonLane, ReplayableJsonLane, DownloadLane, FormLane, OneShotLane,
                  AdminLane}
Statuses == {"success", "unauthorized", "transient", "fatal"}
Responses == [status : Statuses, should_retry : {"true", "false", "other"},
              retry_after_ms : Headers, retry_after : Headers]
Locations == {"begin", "form", "auth", "send", "discard", "sleep", "refreshed", "body",
              "error_body", "done"}
ResultValues == {"none", "ok", "api_error", "form_error", "auth_error",
                 "transport_error", "body_error", "deadline"}

\* One more than the request may ever be sent: the first attempt, the retries
\* and the replay after a 401.
AttemptCap == MaxRetries + 3

Init ==
  /\ config \in Configs
  /\ now = 0
  /\ pc = "begin"
  /\ wait = [since |-> 0, timeout |-> 0]
  /\ retries = 0
  /\ auth_refreshed = FALSE
  /\ attempts = 0
  /\ delay = 0
  /\ not_before = 0
  /\ result = "none"

-----------------------------------------------------------------------------
(* Delays *)

Absent == [kind |-> "absent", delay |-> 0]
TooLong == [kind |-> "too_long", delay |-> 0]
Valid(d) == [kind |-> "valid", delay |-> d]

bounded_delay(d) ==
  CASE d <= 0             -> Absent
    [] d > MaxServerDelay -> TooLong
    [] OTHER              -> Valid(d)

\* A retry-after-ms that parses decides alone; Retry-After is a non-negative
\* number or a date.
server_retry_delay(r) ==
  CASE r.retry_after_ms.kind = "number"    -> bounded_delay(r.retry_after_ms.n)
    [] r.retry_after_ms.kind = "nonfinite" -> Absent
    [] r.retry_after_ms.kind \notin {"number", "nonfinite"}
         /\ r.retry_after.kind \in {"number", "date"}
         -> bounded_delay(r.retry_after.n)
    [] OTHER                               -> Absent

\* Half a second, doubled for each of the first four retries, with a jitter
\* that takes off up to a quarter.
local_retry_delays(n) ==
  LET base == 2^(IF n < 4 THEN n ELSE 4)
  IN  {d \in 1..16 : d <= base /\ 4 * d >= 3 * base}

can_wait(d) == now + d < OverallTimeout

\* x-should-retry is authoritative, then 408, 409, 429 and 5xx are transient.
should_retry_response(r) ==
  CASE r.should_retry = "true"  -> TRUE
    [] r.should_retry = "false" -> FALSE
    [] OTHER                    -> r.status = "transient"

-----------------------------------------------------------------------------

Wait(timeout) == wait' = [since |-> now, timeout |-> timeout]
Expired == now = wait.since + wait.timeout

Finish(r) ==
  /\ pc' = "done"
  /\ result' = r
  /\ UNCHANGED <<request, now, wait, answer>>

\* No budget left, or an await within what is left.
Await(next) ==
  IF now >= OverallTimeout
    THEN Finish("deadline")
    ELSE /\ pc' = next
         /\ Wait(OverallTimeout - now)
         /\ UNCHANGED <<request, now, answer, result>>

\* authorization_with_budget()
Begin == pc = "begin" /\ config.lane \in {"json", "one_shot"} /\ Await("auth")

\* ReplayableMultipartForm::build_form() reads the parts again.
BuildForm == pc = "begin" /\ config.lane = "form" /\ Await("form")
FormBuilt == pc = "form" /\ Await("auth")
FormFailed == pc = "form" /\ Finish("form_error")
FormTimeout == pc = "form" /\ Expired /\ Finish("deadline")

\* Mutant: the budget computed before authentication is used for the attempt.
AttemptTimeoutStale == wait.timeout

\* The budget that is left when the attempt begins.
AttemptTimeout == OverallTimeout - now

Attempt ==
  IF AttemptTimeout <= 0
    THEN Finish("deadline")
    ELSE /\ pc' = "send"
         /\ Wait(AttemptTimeout)
         /\ attempts' = IF attempts < AttemptCap THEN attempts + 1 ELSE attempts
         /\ UNCHANGED <<config, now, retries, auth_refreshed, answer, result>>

BeginAdmin == pc = "begin" /\ config.lane = "admin" /\ Attempt

Authorized == pc = "auth" /\ Attempt
AuthFailed == pc = "auth" /\ Finish("auth_error")
AuthTimeout == pc = "auth" /\ Expired /\ Finish("deadline")

\* Mutant: the retry class of the operation is ignored.
MayRetryAnyOperation == retries < MaxRetries

MayRetry == config.retryable /\ retries < MaxRetries

Sleep(d) ==
  /\ retries' = retries + 1
  /\ Wait(d)
  /\ pc' = "sleep"
  /\ UNCHANGED <<config, now, auth_refreshed, attempts, result>>

\* The attempt fails to connect or times out: retried while a backoff fits.
SendUnreachable ==
  /\ pc = "send"
  /\ \E d \in local_retry_delays(retries) :
       IF MayRetry /\ can_wait(d)
         THEN Sleep(d) /\ UNCHANGED answer
         ELSE Finish("transport_error")

\* Any other transport error is final.
SendFailed == pc = "send" /\ Finish("transport_error")

-----------------------------------------------------------------------------
(* A response *)

\* The wait a server asked for, if it asked for one.
ServerMinimum(r) ==
  LET header == IF r.retry_after_ms.kind \in {"number", "nonfinite"}
                  THEN r.retry_after_ms ELSE r.retry_after
  IN  IF header.kind \in {"number", "date"} /\ header.n > 0 THEN header.n ELSE 0

\* Mutant: a request that was refreshed may be refreshed again.
RefreshesAlways(r) == r.status = "unauthorized" /\ config.renewable

\* A one-shot body cannot be sent again: its 401 is an answer.
Refreshes(r) ==
  /\ r.status = "unauthorized"
  /\ config.renewable
  /\ config.lane # "one_shot"
  /\ ~auth_refreshed

\* The replay after a 401 does not wait, whatever the response says.
Arrived(r) ==
  /\ pc = "send"
  /\ not_before' = IF Refreshes(r) THEN now ELSE now + ServerMinimum(r)

\* The first 401 of a renewable credential: invalidate it and send again.  With
\* body tracing the discarded body is read first, within the attempt's timer.
RefreshAuth(r) ==
  /\ Arrived(r)
  /\ Refreshes(r)
  /\ auth_refreshed' = TRUE
  /\ pc' = IF config.tracing THEN "refreshed" ELSE "begin"
  /\ UNCHANGED <<config, now, wait, retries, attempts, delay, result>>

RefreshedBodyRead ==
  /\ pc = "refreshed"
  /\ pc' = "begin"
  /\ UNCHANGED <<request, now, wait, answer, result>>

Succeed(r) ==
  /\ Arrived(r)
  /\ ~Refreshes(r)
  /\ r.status = "success"
  /\ pc' = "body"
  /\ UNCHANGED <<request, now, wait, delay, result>>

\* Mutant: a delay above the bound is replaced by the local backoff.
RetryDelaysShortened(r) ==
  LET server == server_retry_delay(r)
  IN  IF server.kind = "valid" THEN {server.delay} ELSE local_retry_delays(retries)

\* The delays the code may choose: the server's, or the local backoff when the
\* server names none; none at all when the server's is too long.
RetryDelays(r) ==
  LET server == server_retry_delay(r)
  IN  CASE server.kind = "valid"    -> {server.delay}
        [] server.kind = "absent"   -> local_retry_delays(retries)
        [] server.kind = "too_long" -> {}

Retryable(r) == ~Refreshes(r) /\ r.status # "success" /\ MayRetry /\ should_retry_response(r)

\* A retry whose delay fits the budget; with body tracing the response is read
\* before the sleep.
Retry(r) ==
  /\ Arrived(r)
  /\ Retryable(r)
  /\ \E d \in RetryDelays(r) :
       /\ can_wait(d)
       /\ delay' = d
       /\ IF config.tracing
            THEN pc' = "discard" /\ UNCHANGED <<request, now, wait, result>>
            ELSE Sleep(d)

\* Reading the discarded body took time too: check the delay again.
Discarded ==
  /\ pc = "discard"
  /\ IF can_wait(delay)
       THEN Sleep(delay) /\ UNCHANGED answer
       ELSE \E r \in {"api_error", "body_error"} : Finish(r)

\* Everything else is an API error, whose body is read for the message.
Reject(r) ==
  /\ Arrived(r)
  /\ ~Refreshes(r)
  /\ r.status # "success"
  /\ \/ ~Retryable(r)
     \/ RetryDelays(r) = {}
     \/ \E d \in RetryDelays(r) : ~can_wait(d)
  /\ pc' = "error_body"
  /\ UNCHANGED <<request, now, wait, delay, result>>

ErrorBodyRead ==
  /\ pc = "error_body"
  /\ \E r \in {"api_error", "body_error"} : Finish(r)

BodyRead ==
  /\ pc = "body"
  /\ \E r \in {"ok", "body_error"} : Finish(r)

Slept ==
  /\ pc = "sleep"
  /\ Expired
  /\ pc' = "begin"
  /\ UNCHANGED <<request, now, wait, answer, result>>

\* Time passes while the request waits.
Tick ==
  /\ pc \in {"form", "auth", "send", "discard", "sleep", "refreshed", "body", "error_body"}
  /\ ~Expired
  /\ now' = now + 1
  /\ UNCHANGED <<request, pc, wait, answer, result>>

-----------------------------------------------------------------------------

Respond ==
  \E r \in Responses :
    RefreshAuth(r) \/ Succeed(r) \/ Retry(r) \/ Reject(r)

Step ==
  \/ Begin \/ BuildForm \/ FormBuilt \/ FormFailed \/ FormTimeout \/ BeginAdmin
  \/ Authorized \/ AuthFailed \/ AuthTimeout \/ SendUnreachable \/ SendFailed
  \/ Respond \/ RefreshedBodyRead \/ Discarded \/ ErrorBodyRead
  \/ BodyRead \/ Slept \/ Tick

Done == pc = "done" /\ UNCHANGED vars

Next == Step \/ Done

\* The clock advances, and a timer that is due fires.
Spec == Init /\ [][Next]_vars /\ WF_vars(Step)

-----------------------------------------------------------------------------
(* Properties *)

TypeOK ==
  /\ config \in Configs
  /\ now \in Nat
  /\ pc \in Locations
  /\ wait \in [since : Nat, timeout : Nat]
  /\ retries \in 0..MaxRetries
  /\ auth_refreshed \in BOOLEAN
  /\ attempts \in Nat
  /\ delay \in Nat
  /\ not_before \in Nat
  /\ result \in ResultValues

\* The request never outlives its budget: authentication, every attempt, every
\* backoff and every body are paid from one account.
BudgetHolds == now <= OverallTimeout

\* A backoff always leaves time for another attempt, even when reading the
\* discarded body took some: sleeping never turns an API error into a timeout.
BackoffFits == pc = "sleep" => wait.since + wait.timeout < OverallTimeout

\* A retry is never sent before the wait the server asked for is over, whatever
\* headers it combined (only the replay after a 401 does not wait).
ServerMinimumHonoured ==
  [][pc = "sleep" /\ pc' = "begin" => now >= not_before]_vars

\* An operation that must not be retried is sent twice only when the first was
\* turned away with a 401, a one-shot body never, and no operation more often
\* than the policy says.
NoDoubleSend ==
  /\ attempts <= 1 + retries + (IF auth_refreshed THEN 1 ELSE 0)
  /\ retries <= (IF config.retryable THEN MaxRetries ELSE 0)
  /\ config.lane = "one_shot" => attempts <= 1

\* Every request ends.
Terminates == <>(pc = "done")
=============================================================================
