--------------------------- MODULE TransportProofs --------------------------
(***************************************************************************)
(* Proofs about Transport, for every budget, retry policy and set of       *)
(* header values.  The inductive invariant says where the timer of each    *)
(* await ends (at the end of the budget, or of a backoff that ends before  *)
(* it), how many attempts are paid for, and when the wait the server asked *)
(* for will be over.                                                       *)
(***************************************************************************)
EXTENDS Transport, TLAPS

USE BudgetAssumption

Refreshed == IF auth_refreshed THEN 1 ELSE 0

\* Every await but a backoff ends with the budget.
Paid == {"form", "auth", "send", "refreshed", "discard", "body", "error_body"}

Timers ==
  /\ now <= OverallTimeout
  /\ pc \in Paid => wait.since + wait.timeout = OverallTimeout
  /\ pc = "sleep" => /\ now <= wait.since + wait.timeout
                     /\ wait.since + wait.timeout < OverallTimeout

\* Every attempt is the first, a retry or the replay after a 401.
Sends ==
  /\ attempts <= 1 + retries + Refreshed
  /\ pc \in {"begin", "form", "auth", "sleep", "refreshed"} => attempts <= retries + Refreshed
  /\ config.retryable = FALSE => retries = 0
  /\ config.lane = "one_shot" => auth_refreshed = FALSE
  /\ pc = "discard" => MayRetry

\* The wait of the last response that named one is over before every attempt.
Waits ==
  /\ pc \in {"begin", "form", "auth", "send", "refreshed"} => not_before <= now
  /\ pc = "discard" => not_before <= now + delay
  /\ pc = "sleep" => not_before <= wait.since + wait.timeout

\* The inductive invariant.
Inv == TypeOK /\ Timers /\ Sends /\ Waits

-----------------------------------------------------------------------------

\* What the lanes have in common, and that a one-shot body is not retryable.
LEMMA ConfigFacts ==
  ASSUME NEW c \in Configs
  PROVE  /\ c.retryable \in BOOLEAN /\ c.tracing \in BOOLEAN
         /\ c.lane \in {"json", "form", "one_shot", "admin"}
         /\ c.lane = "one_shot" => c.retryable = FALSE
<1>1. \E lanes \in {JsonLane, ReplayableJsonLane, DownloadLane, FormLane, OneShotLane,
                     AdminLane} : c \in lanes
  BY Zenon DEF Configs
<1>2. c \in JsonLane => c.lane = "json" /\ c.retryable \in BOOLEAN /\ c.tracing \in BOOLEAN
  BY DEF JsonLane, ConfigsOf
<1>3. c \in ReplayableJsonLane \cup DownloadLane => c \in JsonLane
  BY DEF JsonLane, ReplayableJsonLane, DownloadLane, ConfigsOf
<1>4. c \in FormLane => c.lane = "form" /\ c.retryable \in BOOLEAN /\ c.tracing = FALSE
  BY DEF FormLane, ConfigsOf
<1>5. c \in OneShotLane => c.lane = "one_shot" /\ c.retryable = FALSE /\ c.tracing = FALSE
  BY DEF OneShotLane, ConfigsOf
<1>6. c \in AdminLane => c.lane = "admin" /\ c.retryable \in BOOLEAN /\ c.tracing = FALSE
  BY DEF AdminLane, ConfigsOf
<1> QED
  BY <1>1, <1>2, <1>3, <1>4, <1>5, <1>6

\* A local backoff is at least half a second.
LEMMA LocalDelays ==
  ASSUME NEW n, NEW d \in local_retry_delays(n) PROVE d \in Nat
BY DEF local_retry_delays

\* The wait a server asks for is a natural number.
LEMMA MinimumType ==
  ASSUME NEW r \in Responses PROVE ServerMinimum(r) \in Nat
<1>1. r.retry_after_ms.n \in Int /\ r.retry_after.n \in Int
  BY HeadersAssumption DEF Responses
<1> QED
  BY <1>1 DEF ServerMinimum

\* However a server combines the two headers, the delay chosen for the retry
\* is not shorter than the wait it asked for.
LEMMA DelayIsLongEnough ==
  ASSUME NEW r \in Responses, NEW d \in RetryDelays(r)
  PROVE  d \in Nat /\ d >= ServerMinimum(r)
<1> DEFINE ms == r.retry_after_ms  after == r.retry_after
           server == server_retry_delay(r)
           Kinds == {"absent", "garbage", "nonfinite", "number", "date"}
<1>1. ms \in [kind : Kinds, n : Int] /\ after \in [kind : Kinds, n : Int]
  BY HeadersAssumption DEF Responses
<1>2. ASSUME NEW n \in Int
      PROVE  /\ n <= 0 => bounded_delay(n) = Absent
             /\ n > MaxServerDelay => bounded_delay(n) = TooLong
             /\ n > 0 /\ n <= MaxServerDelay => bounded_delay(n) = Valid(n)
  BY DEF bounded_delay
<1>3. CASE ms.kind \in {"number", "nonfinite"}
  BY <1>1, <1>2, <1>3, LocalDelays
     DEF RetryDelays, server_retry_delay, ServerMinimum, Absent, TooLong, Valid
<1>4. CASE ms.kind \notin {"number", "nonfinite"}
  BY <1>1, <1>2, <1>4, LocalDelays
     DEF RetryDelays, server_retry_delay, ServerMinimum, Absent, TooLong, Valid
<1> QED
  BY <1>3, <1>4

-----------------------------------------------------------------------------

LEMMA InitInv == Init => Inv
<1> SUFFICES ASSUME Init PROVE Inv
  OBVIOUS
<1> USE DEF Init
<1>1. config \in Configs /\ auth_refreshed \in BOOLEAN /\ pc \in Locations
      /\ result \in ResultValues
  BY Zenon DEF Locations, ResultValues
<1>2. TypeOK
  BY <1>1 DEF TypeOK
<1>3. Refreshed = 0
  BY DEF Refreshed
<1>4. Timers /\ Sends /\ Waits
  BY <1>3 DEF Timers, Sends, Waits, Paid
<1> QED
  BY <1>2, <1>4 DEF Inv

\* Ending a request disturbs nothing.
LEMMA FinishInv ==
  ASSUME Inv, NEW r \in ResultValues, Finish(r) PROVE Inv'
<1> USE DEF Inv, Finish, request, answer
<1>1. TypeOK'
  BY DEF TypeOK, Locations
<1>2. Timers' /\ Waits'
  BY DEF Timers, Waits, Paid
<1>3. Sends'
  BY DEF Sends, Refreshed
<1> QED
  BY <1>1, <1>2, <1>3

\* A backoff that fits, chosen after an attempt was made.
LEMMA SleepInv ==
  ASSUME Inv, NEW d \in Nat, MayRetry, can_wait(d), Sleep(d),
         not_before' \in Nat, not_before' <= now + d, delay' \in Nat
  PROVE  Inv'
<1> USE DEF Inv, Sleep, Wait, MayRetry, can_wait
<1>1. TypeOK'
  BY DEF TypeOK, Locations
<1>2. Timers' /\ Waits'
  BY DEF TypeOK, Timers, Waits, Paid
<1>3. Sends'
  BY DEF TypeOK, Sends, Refreshed
<1> QED
  BY <1>1, <1>2, <1>3

\* The awaits before an attempt, which take what is left of the budget.
LEMMA AwaitInv ==
  ASSUME Inv, NEW next \in {"form", "auth"}, pc \in {"begin", "form"}, Await(next)
  PROVE  Inv'
<1>1. CASE now >= OverallTimeout
  BY <1>1, FinishInv DEF Await, ResultValues
<1>2. CASE ~(now >= OverallTimeout)
  <2> USE <1>2 DEF Inv, Await, Wait, request, answer
  <2>1. TypeOK'
    BY DEF TypeOK, Locations
  <2>2. Timers' /\ Waits'
    BY DEF TypeOK, Timers, Waits, Paid
  <2>3. Sends'
    BY DEF Sends, Refreshed
  <2> QED
    BY <2>1, <2>2, <2>3
<1> QED
  BY <1>1, <1>2

LEMMA AttemptInv ==
  ASSUME Inv, pc \in {"begin", "auth"}, Attempt PROVE Inv'
<1>1. CASE AttemptTimeout <= 0
  BY <1>1, FinishInv DEF Attempt, ResultValues
<1>2. CASE ~(AttemptTimeout <= 0)
  <2> USE <1>2 DEF Inv, Attempt, AttemptTimeout
  <2>1. TypeOK'
    BY DEF AttemptCap, Wait, answer, TypeOK, Locations
  <2>2. Timers' /\ Waits'
    BY DEF Wait, answer, TypeOK, Timers, Waits, Paid
  <2>3. Sends'
    BY DEF TypeOK, Sends, Refreshed
  <2> QED
    BY <2>1, <2>2, <2>3
<1> QED
  BY <1>1, <1>2

LEMMA AuthInv ==
  ASSUME Inv,
         \/ Begin \/ BuildForm \/ FormBuilt \/ FormFailed \/ FormTimeout
         \/ BeginAdmin \/ Authorized \/ AuthFailed \/ AuthTimeout
  PROVE  Inv'
<1>1. CASE FormFailed \/ FormTimeout \/ AuthFailed \/ AuthTimeout
  BY <1>1, FinishInv DEF FormFailed, FormTimeout, AuthFailed, AuthTimeout, ResultValues
<1>2. CASE Begin \/ BuildForm \/ FormBuilt
  BY <1>2, AwaitInv DEF Begin, BuildForm, FormBuilt
<1>3. CASE BeginAdmin \/ Authorized
  BY <1>3, AttemptInv DEF BeginAdmin, Authorized
<1> QED
  BY <1>1, <1>2, <1>3

LEMMA SendInv == ASSUME Inv, SendUnreachable \/ SendFailed PROVE Inv'
<1>1. CASE \E r \in ResultValues : Finish(r)
  BY <1>1, FinishInv
<1>2. CASE pc = "send" /\ \E d \in local_retry_delays(retries) :
             MayRetry /\ can_wait(d) /\ Sleep(d) /\ UNCHANGED answer
  <2>1. PICK d \in local_retry_delays(retries) :
          MayRetry /\ can_wait(d) /\ Sleep(d) /\ UNCHANGED answer
    BY <1>2
  <2>2. d \in Nat
    BY LocalDelays
  <2>3. delay' \in Nat /\ not_before' \in Nat /\ not_before' <= now + d
    BY <1>2, <2>1, <2>2 DEF answer, Inv, TypeOK, Waits
  <2> QED
    BY <2>1, <2>2, <2>3, SleepInv
<1> QED
  BY <1>1, <1>2 DEF SendUnreachable, SendFailed, ResultValues

LEMMA RespondInv ==
  ASSUME Inv, NEW r \in Responses,
         RefreshAuth(r) \/ Succeed(r) \/ Retry(r) \/ Reject(r)
  PROVE  Inv'
<1> USE DEF Inv
<1>1. pc = "send" /\ not_before' \in Nat
      /\ not_before' = IF Refreshes(r) THEN now ELSE now + ServerMinimum(r)
  BY MinimumType DEF RefreshAuth, Succeed, Retry, Reject, Arrived, TypeOK
<1>2. CASE RefreshAuth(r)
  <2>1. Refreshes(r) /\ auth_refreshed = FALSE
    BY <1>2 DEF RefreshAuth, Refreshes, TypeOK
  <2>2. TypeOK'
    BY <1>1, <1>2 DEF RefreshAuth, TypeOK, Locations
  <2>3. Timers' /\ Waits'
    BY <1>1, <1>2, <2>1 DEF RefreshAuth, TypeOK, Timers, Waits, Paid
  <2>4. Refreshed = 0 /\ Refreshed' = 1
    BY <1>2, <2>1 DEF RefreshAuth, Refreshed
  <2>5. Sends'
    BY <1>1, <1>2, <2>4 DEF RefreshAuth, Refreshes, TypeOK, Sends
  <2> QED
    BY <2>2, <2>3, <2>5
<1>3. CASE Succeed(r) \/ Reject(r)
  <2>1. TypeOK'
    BY <1>1, <1>3 DEF Succeed, Reject, request, TypeOK, Locations
  <2>2. Timers' /\ Waits'
    BY <1>1, <1>3 DEF Succeed, Reject, Timers, Waits, Paid
  <2>3. Sends'
    BY <1>1, <1>3 DEF Succeed, Reject, request, Sends, Refreshed
  <2> QED
    BY <2>1, <2>2, <2>3
<1>4. CASE Retry(r)
  <2>1. PICK d \in RetryDelays(r) :
          /\ can_wait(d)
          /\ delay' = d
          /\ IF config.tracing
               THEN pc' = "discard" /\ UNCHANGED <<request, now, wait, result>>
               ELSE Sleep(d)
    BY <1>4 DEF Retry
  <2>2. d \in Nat /\ d >= ServerMinimum(r) /\ ServerMinimum(r) \in Nat
    BY DelayIsLongEnough, MinimumType
  <2>3. not_before' <= now + d
    BY <1>1, <1>4, <2>2 DEF Retry, Retryable, TypeOK
  <2>4. CASE config.tracing
    <3>1. TypeOK'
      BY <1>1, <2>1, <2>2, <2>4 DEF request, TypeOK, Locations
    <3>2. Timers' /\ Waits'
      BY <1>1, <2>1, <2>2, <2>3, <2>4 DEF Timers, Waits, Paid
    <3>3. Sends'
      BY <1>1, <1>4, <2>1, <2>4 DEF Retry, Retryable, request, Sends, Refreshed, MayRetry
    <3> QED
      BY <3>1, <3>2, <3>3
  <2>5. CASE ~config.tracing
    BY <1>1, <1>4, <2>1, <2>2, <2>3, <2>5, SleepInv DEF Retry, Retryable
  <2> QED
    BY <2>4, <2>5
<1> QED
  BY <1>2, <1>3, <1>4

-----------------------------------------------------------------------------

LEMMA DiscardedInv == ASSUME Inv, Discarded PROVE Inv'
<1>1. CASE \E r \in ResultValues : Finish(r)
  BY <1>1, FinishInv
<1>2. CASE pc = "discard" /\ can_wait(delay) /\ Sleep(delay) /\ UNCHANGED answer
  <2>1. MayRetry /\ delay \in Nat /\ not_before' \in Nat /\ delay' \in Nat
        /\ not_before' <= now + delay
    BY <1>2 DEF Inv, TypeOK, Sends, Waits, answer
  <2> QED
    BY <1>2, <2>1, SleepInv
<1> QED
  BY <1>1, <1>2 DEF Discarded, ResultValues

\* The steps that only move on, and the clock.
LEMMA MoveOnInv ==
  ASSUME Inv, RefreshedBodyRead \/ Slept \/ Tick PROVE Inv'
<1> USE DEF Inv, request, answer
<1>1. UNCHANGED <<config, retries, auth_refreshed, attempts, wait, delay, not_before, result>>
  BY DEF RefreshedBodyRead, Slept, Tick
<1>2. CASE RefreshedBodyRead \/ Slept
  <2>1. TypeOK' /\ Timers' /\ Waits'
    BY <1>1, <1>2 DEF RefreshedBodyRead, Slept, Expired, TypeOK, Locations, Timers, Waits, Paid
  <2>2. Sends'
    BY <1>1, <1>2 DEF RefreshedBodyRead, Slept, Sends, Refreshed
  <2> QED
    BY <2>1, <2>2
<1>3. CASE Tick
  <2>1. now' = now + 1 /\ pc' = pc /\ now' <= wait.since + wait.timeout
    <3>1. pc \in Paid \cup {"sleep"} /\ now' = now + 1 /\ pc' = pc
      BY <1>3 DEF Tick, Paid
    <3>2. now # wait.since + wait.timeout
      BY <1>3 DEF Tick, Expired
    <3>3. now <= wait.since + wait.timeout
      BY <3>1 DEF Timers
    <3> QED
      BY <3>1, <3>2, <3>3 DEF TypeOK
  <2>2. TypeOK' /\ Timers' /\ Waits'
    BY <1>1, <1>3, <2>1 DEF Tick, TypeOK, Timers, Waits, Paid
  <2>3. Sends'
    BY <1>1, <2>1 DEF Sends, Refreshed, MayRetry
  <2> QED
    BY <2>2, <2>3
<1> QED
  BY <1>2, <1>3

LEMMA StepInv == ASSUME Inv, [Next]_vars PROVE Inv'
<1>1. CASE \/ Begin \/ BuildForm \/ FormBuilt \/ FormFailed \/ FormTimeout
            \/ BeginAdmin \/ Authorized \/ AuthFailed \/ AuthTimeout
  BY <1>1, AuthInv
<1>2. CASE SendUnreachable \/ SendFailed
  BY <1>2, SendInv
<1>3. CASE Respond
  BY <1>3, RespondInv DEF Respond
<1>4. CASE Discarded
  BY <1>4, DiscardedInv
<1>5. CASE ErrorBodyRead \/ BodyRead
  BY <1>5, FinishInv DEF ErrorBodyRead, BodyRead, ResultValues
<1>6. CASE RefreshedBodyRead \/ Slept \/ Tick
  BY <1>6, MoveOnInv
<1>7. CASE UNCHANGED vars
  <2>1. UNCHANGED <<config, retries, auth_refreshed, attempts, now, pc, wait, delay,
                    not_before, result>>
    BY <1>7 DEF vars, request, answer
  <2> QED
    BY <2>1 DEF Inv, TypeOK, Timers, Sends, Waits, Refreshed, MayRetry
<1> QED
  BY <1>1, <1>2, <1>3, <1>4, <1>5, <1>6, <1>7 DEF Next, Step, Done

\* The invariant holds in every reachable state.
THEOREM Invariance == Spec => []Inv
<1>1. Init => Inv
  BY InitInv
<1>2. Inv /\ [Next]_vars => Inv'
  BY StepInv
<1> QED
  BY <1>1, <1>2, PTL DEF Spec

-----------------------------------------------------------------------------

\* Every reachable state is well typed; in particular the retry loop of
\* send_with_static_header() never counts past max_retries.
THEOREM TypeCorrect == Spec => []TypeOK
<1>1. Inv => TypeOK
  BY DEF Inv
<1> QED
  BY <1>1, Invariance, PTL

\* For every overall_timeout, authentication, attempts, backoffs and bodies
\* together stay within the one budget.
THEOREM WithinBudget == Spec => []BudgetHolds
<1>1. Inv => BudgetHolds
  BY DEF Inv, Timers, BudgetHolds
<1> QED
  BY <1>1, Invariance, PTL

\* Every backoff ends before the budget does: can_wait() is still true when the
\* sleep begins, also after a discarded body was read.
THEOREM BackoffsFit == Spec => []BackoffFits
<1>1. Inv => BackoffFits
  BY DEF Inv, Timers, BackoffFits
<1> QED
  BY <1>1, Invariance, PTL

\* An operation that retryable_operation() excludes is sent once, and once more
\* only after a 401 (a one-shot form never); the others at most max_retries times more.
THEOREM SendsAreBounded == Spec => []NoDoubleSend
<1>1. Inv => NoDoubleSend
  <2> SUFFICES ASSUME Inv PROVE NoDoubleSend
    OBVIOUS
  <2>1. config.retryable \in BOOLEAN
        /\ (config.lane = "one_shot" => config.retryable = FALSE)
    BY ConfigFacts DEF Inv, TypeOK
  <2>2. retries <= (IF config.retryable THEN MaxRetries ELSE 0)
    BY <2>1 DEF Inv, TypeOK, Sends
  <2>3. attempts <= 1 + retries + (IF auth_refreshed THEN 1 ELSE 0)
    BY DEF Inv, Sends, Refreshed
  <2>4. config.lane = "one_shot" => attempts <= 1
    BY <2>1, <2>3 DEF Inv, TypeOK, Sends
  <2> QED
    BY <2>2, <2>3, <2>4 DEF NoDoubleSend
<1> QED
  BY <1>1, Invariance, PTL

\* For every policy and every combination of retry-after-ms and Retry-After, a
\* retry is never sent before the wait the server asked for is over.
THEOREM ServerIsHeeded == Spec => ServerMinimumHonoured
<1>1. Inv /\ [Next]_vars => [pc = "sleep" /\ pc' = "begin" => now >= not_before]_vars
  <2> SUFFICES ASSUME Inv, Next, pc = "sleep", pc' = "begin"
               PROVE  now >= not_before
    BY DEF vars
  <2>1. Slept
    BY DEF Next, Step, Done, Begin, BuildForm, FormBuilt, FormFailed, FormTimeout,
           BeginAdmin, Authorized, AuthFailed, AuthTimeout,
           SendUnreachable, SendFailed, Respond, RefreshAuth, Succeed, Retry, Reject,
           Arrived, RefreshedBodyRead, Discarded, ErrorBodyRead, BodyRead, Tick, vars
  <2> QED
    BY <2>1 DEF Slept, Expired, Inv, TypeOK, Waits
<1> QED
  BY <1>1, Invariance, PTL DEF Spec, ServerMinimumHonoured
=============================================================================
