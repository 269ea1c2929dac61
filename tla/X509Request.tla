---------------------------- MODULE X509Request -----------------------------
(***************************************************************************)
(* One logical request of the X.509 lane: the loop of                      *)
(* X509Client::execute_json() (openai-rs-client/src/x509.rs) and its       *)
(* budget.  The token manager is X509Tokens; here a lease is a wait.       *)
(*                                                                         *)
(* Time is discrete and counted from the start of the request, as in       *)
(* Transport.  lease() has no timer of its own: what bounds it is          *)
(* TOKEN_EXCHANGE_DEADLINE in the exchange task, which LeaseTime stands    *)
(* for.                                                                    *)
(***************************************************************************)
EXTENDS Naturals

CONSTANTS
  RequestTimeout,  \* request_timeout
  LeaseTime        \* bound: how long lease() may take

ASSUME TimesAssumption == RequestTimeout \in Nat /\ LeaseTime \in Nat

VARIABLES
  now,             \* started.elapsed()
  lane_pc,
  remaining,       \* the budget computed at the head of the loop
  deadline,        \* when the timer of the current await fires
  auth_replayed,
  sends,           \* history: how often the request was sent
  result

laneVars == <<now, lane_pc, remaining, deadline, auth_replayed, sends, result>>

LaneLocations == {"begin", "lease", "send", "body", "done"}
ResultValues == {"none", "ok", "error", "deadline"}

LaneInit ==
  /\ now = 0
  /\ lane_pc = "begin"
  /\ remaining = 0
  /\ deadline = 0
  /\ auth_replayed = FALSE
  /\ sends = 0
  /\ result = "none"

Finish(r) ==
  /\ lane_pc' = "done"
  /\ result' = r
  /\ UNCHANGED <<now, remaining, deadline, auth_replayed, sends>>

\* request_timeout - elapsed, which checked_sub() stops at zero.
Budget == IF now < RequestTimeout THEN RequestTimeout - now ELSE 0

\* The head of the loop: no budget left, or ask for a lease.
Begin ==
  /\ lane_pc = "begin"
  /\ IF Budget = 0
       THEN Finish("deadline")
       ELSE /\ remaining' = Budget
            /\ deadline' = now + LeaseTime
            /\ lane_pc' = "lease"
            /\ UNCHANGED <<now, auth_replayed, sends, result>>

LeaseFailed == lane_pc = "lease" /\ Finish("error")

\* The request is sent with the budget computed before the lease.
Leased ==
  /\ lane_pc = "lease"
  /\ deadline' = now + remaining
  /\ sends' = sends + 1
  /\ lane_pc' = "send"
  /\ UNCHANGED <<now, remaining, auth_replayed, result>>

\* A transport error, among them the timeout of the attempt.
SendFailed == lane_pc = "send" /\ Finish("error")

Replays == ~auth_replayed

\* The first 401 drops the token and goes round the loop.
ReplayUnauthorized ==
  /\ lane_pc = "send"
  /\ Replays
  /\ auth_replayed' = TRUE
  /\ lane_pc' = "begin"
  /\ UNCHANGED <<now, remaining, deadline, sends, result>>

\* Any other response: its body is read within the timer of the attempt.
ResponseArrives ==
  /\ lane_pc = "send"
  /\ lane_pc' = "body"
  /\ UNCHANGED <<now, remaining, deadline, auth_replayed, sends, result>>

BodyRead == lane_pc = "body" /\ \E r \in {"ok", "error"} : Finish(r)

Tick ==
  /\ lane_pc \in {"lease", "send", "body"}
  /\ now < deadline
  /\ now' = now + 1
  /\ UNCHANGED <<lane_pc, remaining, deadline, auth_replayed, sends, result>>

Step ==
  \/ Begin \/ LeaseFailed \/ Leased \/ SendFailed \/ ReplayUnauthorized
  \/ ResponseArrives \/ BodyRead \/ Tick

Done == lane_pc = "done" /\ UNCHANGED laneVars

LaneNext == Step \/ Done

LaneSpec == LaneInit /\ [][LaneNext]_laneVars /\ WF_laneVars(Step)

-----------------------------------------------------------------------------
(* Properties *)

LaneTypeOK ==
  /\ now \in Nat
  /\ lane_pc \in LaneLocations
  /\ remaining \in 0..RequestTimeout
  /\ deadline \in Nat
  /\ auth_replayed \in BOOLEAN
  /\ sends \in 0..2
  /\ result \in ResultValues

\* request_timeout is the total budget for one logical request, including the
\* 401 replay: the builder says so.  The budget of an attempt is computed before
\* lease() is awaited and given to the attempt after it.
RequestKeepsBudget == now <= RequestTimeout

\* What the loop does guarantee: however the time of the first attempt and of
\* the replay is divided, a request overruns its budget by one lease at most.
OverrunIsOneLease == now <= RequestTimeout + LeaseTime
=============================================================================
