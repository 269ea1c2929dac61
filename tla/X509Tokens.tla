----------------------------- MODULE X509Tokens -----------------------------
(***************************************************************************)
(* X509TokenManager and the callers that use it (execute_json), from       *)
(* openai-rs-client/src/x509.rs.  One access token is shared by every      *)
(* request of an X509Client.  A caller that finds no token before its      *)
(* refresh_at joins or starts an attempt: a detached task that exchanges   *)
(* the certificate for a token and leaves its result in completed_attempt. *)
(* Unlike WorkloadIdentity a refresh blocks its callers, its result is     *)
(* handed over through completed_attempt, a retryable failure falls back   *)
(* on the token it wanted to replace, and one counter numbers both the     *)
(* tokens and the invalidation epochs.                                     *)
(*                                                                         *)
(* Each step is one critical section of the tokio Mutex around TokenState, *)
(* or one step outside it.  Instants are abstracted to the sets of tokens  *)
(* that have passed refresh_at (due) and expires_at (expired).  The u64    *)
(* counters are taken not to wrap.                                         *)
(***************************************************************************)
EXTENDS Naturals

CONSTANTS
  Callers,       \* requests that share the client
  MaxAttempt     \* bound: attempts started in one behaviour

ASSUME MaxAttemptAssumption == MaxAttempt \in Nat

VARIABLES
  cached,            \* TokenState.cached: its generation, 0 = None
  due,               \* tokens past their refresh_at
  expired,           \* tokens past their expires_at
  generation,        \* TokenState.generation
  next_attempt,      \* TokenState.next_attempt
  active_attempt,    \* TokenState.active_attempt, 0 = None
  completed_attempt, \* TokenState.completed_attempt
  task,              \* the detached exchange tasks, by attempt
  pc,                \* where each caller is
  waiting,           \* the attempt a caller waits for
  lease,             \* token generation a caller holds, 0 = none
  rejected,          \* token generation the caller's 401 was for
  installed,         \* history: token generations that were ever cached
  revoked            \* history: token generations that were invalidated

slot == <<generation, next_attempt, active_attempt, completed_attempt>>
clock == <<due, expired>>
caller == <<pc, waiting, lease, rejected>>
history == <<installed, revoked>>
vars == <<cached, slot, clock, task, caller, history>>

Attempts == 1..MaxAttempt
\* Each attempt advances the generation at most twice: when its token is
\* installed and when that token is invalidated.
Generations == 1..(2 * MaxAttempt)
\* Outcomes of HttpX509Exchange::exchange(), by X509Error::is_retryable().
Outcomes == {"token", "retryable", "fatal"}
Stages == {"unborn", "exchange", "complete", "notify", "done"}
Locations == {"idle", "lease", "listen", "check", "rung", "parked", "leased",
              "notify"}

NoTask == [stage |-> "unborn", generation |-> 0, fallback |-> 0, outcome |-> "fatal"]
NoResult == [attempt |-> 0, result |-> "invalidated", token |-> 0]

Init ==
  /\ cached = 0
  /\ due = {}
  /\ expired = {}
  /\ generation = 0
  /\ next_attempt = 0
  /\ active_attempt = 0
  /\ completed_attempt = NoResult
  /\ task = [a \in Attempts |-> NoTask]
  /\ pc = [c \in Callers |-> "idle"]
  /\ waiting = [c \in Callers |-> 0]
  /\ lease = [c \in Callers |-> 0]
  /\ rejected = [c \in Callers |-> 0]
  /\ installed = {}
  /\ revoked = {}

-----------------------------------------------------------------------------
(* lease() *)

Goto(c, location) == pc' = [pc EXCEPT ![c] = location]
Hold(c, token) == lease' = [lease EXCEPT ![c] = token]

Request(c) ==
  /\ pc[c] = "idle"
  /\ Goto(c, "lease")
  /\ UNCHANGED <<cached, slot, clock, task, waiting, lease, rejected, history>>

\* A token before its refresh_at is leased at once.
LeaseCached(c) ==
  /\ pc[c] = "lease"
  /\ cached # 0 /\ cached \notin due
  /\ Hold(c, cached)
  /\ Goto(c, "leased")
  /\ UNCHANGED <<cached, slot, clock, task, waiting, rejected, history>>

\* Action::Wait: join the active attempt.
LeaseJoin(c) ==
  /\ pc[c] = "lease"
  /\ cached = 0 \/ cached \in due
  /\ active_attempt # 0
  /\ waiting' = [waiting EXCEPT ![c] = active_attempt]
  /\ Goto(c, "listen")
  /\ UNCHANGED <<cached, slot, clock, task, lease, rejected, history>>

\* Action::Start: take the slot, forget the last result, keep the unexpired
\* token as the fallback and spawn the exchange.
LeaseStart(c) ==
  /\ pc[c] = "lease"
  /\ cached = 0 \/ cached \in due
  /\ active_attempt = 0
  /\ next_attempt < MaxAttempt
  /\ next_attempt' = next_attempt + 1
  /\ active_attempt' = next_attempt + 1
  /\ completed_attempt' = NoResult
  /\ task' = [task EXCEPT ![next_attempt + 1] =
                [stage |-> "exchange", generation |-> generation,
                 fallback |-> IF cached \in expired THEN 0 ELSE cached,
                 outcome |-> "fatal"]]
  /\ waiting' = [waiting EXCEPT ![c] = next_attempt + 1]
  /\ Goto(c, "listen")
  /\ UNCHANGED <<cached, generation, clock, lease, rejected, history>>

-----------------------------------------------------------------------------
(* wait_for_attempt() *)

\* The Notified future is created before the lock is taken: from here on a
\* notify_waiters() is not missed, even before the future is polled.
WaitListen(c) ==
  /\ pc[c] = "listen"
  /\ Goto(c, "check")
  /\ UNCHANGED <<cached, slot, clock, task, waiting, lease, rejected, history>>

\* The attempt this caller waits for has left its result.
WaitResult(c) ==
  /\ pc[c] \in {"check", "rung"}
  /\ completed_attempt.attempt = waiting[c]
  /\ waiting' = [waiting EXCEPT ![c] = 0]
  /\ \/ /\ completed_attempt.result = "lease"
        /\ Hold(c, completed_attempt.token)
        /\ Goto(c, "leased")
        /\ UNCHANGED rejected
     \/ /\ completed_attempt.result = "error"
        /\ Goto(c, "idle")
        /\ rejected' = [rejected EXCEPT ![c] = 0]
        /\ UNCHANGED lease
     \/ /\ completed_attempt.result = "invalidated"
        /\ Goto(c, "lease")
        /\ UNCHANGED <<lease, rejected>>
  /\ UNCHANGED <<cached, slot, clock, task, history>>

\* The attempt is gone and so is its result: lease() starts again.
WaitInvalidated(c) ==
  /\ pc[c] \in {"check", "rung"}
  /\ completed_attempt.attempt # waiting[c]
  /\ active_attempt # waiting[c]
  /\ waiting' = [waiting EXCEPT ![c] = 0]
  /\ Goto(c, "lease")
  /\ UNCHANGED <<cached, slot, clock, task, lease, rejected, history>>

\* Mutant: the Notified future is created after the state was examined, which
\* may have changed meanwhile.
WaitParkUnchecked(c) ==
  /\ pc[c] \in {"check", "rung"}
  /\ Goto(c, "parked")
  /\ UNCHANGED <<cached, slot, clock, task, waiting, lease, rejected, history>>

\* The attempt is still active: await the notification, which may be in already.
WaitPark(c) ==
  /\ pc[c] \in {"check", "rung"}
  /\ completed_attempt.attempt # waiting[c]
  /\ active_attempt = waiting[c]
  /\ Goto(c, IF pc[c] = "rung" THEN "listen" ELSE "parked")
  /\ UNCHANGED <<cached, slot, clock, task, waiting, lease, rejected, history>>

\* Mutant: notify_one() in place of notify_waiters().
WakeOne(p) ==
  LET listening(c) == p[c] \in {"parked", "check"}
      one == CHOOSE c \in Callers : listening(c) \/ ~\E d \in Callers : listening(d)
  IN  [c \in Callers |-> CASE c = one /\ p[c] = "parked" -> "listen"
                           [] c = one /\ p[c] = "check"  -> "rung"
                           [] OTHER                      -> p[c]]

\* notify_waiters(): every caller that has created its Notified future.
Wake(p) ==
  [c \in Callers |-> CASE p[c] = "parked" -> "listen"
                       [] p[c] = "check"  -> "rung"
                       [] OTHER           -> p[c]]

\* The caller's future is dropped at an await point.
Cancel(c) ==
  /\ pc[c] \in {"lease", "listen", "check", "rung", "parked"}
  /\ Goto(c, "idle")
  /\ waiting' = [waiting EXCEPT ![c] = 0]
  /\ rejected' = [rejected EXCEPT ![c] = 0]
  /\ UNCHANGED <<cached, slot, clock, task, lease, history>>

-----------------------------------------------------------------------------
(* execute_json() with a lease, and invalidate_if_generation() *)

\* Any answer but the first 401 ends the request, and so does a failed send.
Answered(c) ==
  /\ pc[c] = "leased"
  /\ Goto(c, "idle")
  /\ Hold(c, 0)
  /\ rejected' = [rejected EXCEPT ![c] = 0]
  /\ UNCHANGED <<cached, slot, clock, task, waiting, history>>

\* Mutant: the token is kept while an attempt is active.
HoldsCachedUnlessActive(c) == cached = lease[c] /\ active_attempt = 0

\* Mutant: whatever token is cached is dropped.
HoldsAny(c) == TRUE

\* The generation of the lease is that of the cached token.
HoldsCached(c) == cached = lease[c]

\* Mutant: the result of the last attempt stays available.
InvalidateKeepsResult ==
  /\ generation' = generation + 1
  /\ active_attempt' = 0
  /\ UNCHANGED <<next_attempt, completed_attempt>>

\* Mutant: the attempt under way stays valid.
InvalidateKeepsAttempt ==
  /\ completed_attempt' = NoResult
  /\ UNCHANGED <<generation, next_attempt, active_attempt>>

\* What invalidation does to the attempts: a new generation, no active attempt
\* and no result.
Invalidate ==
  /\ generation' = generation + 1
  /\ active_attempt' = 0
  /\ completed_attempt' = NoResult
  /\ UNCHANGED next_attempt

\* The first 401 drops the token it was sent with, if that is still the cached
\* one, together with any attempt to replace it; then the request is replayed.
Unauthorized(c) ==
  /\ pc[c] = "leased"
  /\ rejected[c] = 0
  /\ rejected' = [rejected EXCEPT ![c] = lease[c]]
  /\ Hold(c, 0)
  /\ IF HoldsCached(c)
       THEN /\ Invalidate
            /\ cached' = 0
            /\ revoked' = revoked \cup {cached}
            /\ Goto(c, "notify")
       ELSE /\ Goto(c, "lease")
            /\ UNCHANGED <<cached, slot, revoked>>
  /\ UNCHANGED <<clock, task, waiting, installed>>

InvalidateNotify(c) ==
  /\ pc[c] = "notify"
  /\ pc' = [Wake(pc) EXCEPT ![c] = "lease"]
  /\ UNCHANGED <<cached, slot, clock, task, waiting, lease, rejected, history>>

-----------------------------------------------------------------------------
(* The detached task: exchange() and complete_attempt() *)

Exchange(a, outcome) ==
  /\ task[a].stage = "exchange"
  /\ task' = [task EXCEPT ![a].stage = "complete", ![a].outcome = outcome]
  /\ UNCHANGED <<cached, slot, clock, caller, history>>

\* No invalidation and no later attempt came between.
Current(a) == task[a].generation = generation /\ active_attempt = a

\* Mutant: the slot is cleared whoever holds it.
GiveBackAnySlot(a, result) == active_attempt' = 0

GiveBack(a, result) ==
  active_attempt' = IF active_attempt = a THEN 0 ELSE active_attempt

\* The end of complete_attempt(): give the slot back, leave the result.
LeaveResult(a, result, token) ==
  /\ GiveBack(a, result)
  /\ completed_attempt' = [attempt |-> a, result |-> result, token |-> token]
  /\ task' = [task EXCEPT ![a].stage = "notify"]
  /\ UNCHANGED <<next_attempt, caller, revoked>>

CompleteStale(a) ==
  /\ task[a].stage = "complete"
  /\ ~Current(a)
  /\ LeaveResult(a, "invalidated", 0)
  /\ UNCHANGED <<cached, generation, clock, installed>>

CompleteInstall(a) ==
  /\ task[a].stage = "complete"
  /\ Current(a)
  /\ task[a].outcome = "token"
  /\ generation' = generation + 1
  /\ cached' = generation'
  /\ installed' = installed \cup {generation'}
  /\ LeaveResult(a, "lease", generation')
  /\ UNCHANGED clock

\* The exchange took longer than the lifetime of the token it returned.
CompleteExpired(a) ==
  /\ task[a].stage = "complete"
  /\ Current(a)
  /\ task[a].outcome = "token"
  /\ cached' = 0
  /\ LeaveResult(a, "error", 0)
  /\ UNCHANGED <<generation, clock, installed>>

\* There is a fallback and it has not expired meanwhile.
FallbackUsable(a) == task[a].fallback # 0 /\ task[a].fallback \notin expired

\* A retryable failure falls back on the token it wanted to replace, which gets
\* a new refresh_at.
CompleteFallback(a) ==
  /\ task[a].stage = "complete"
  /\ Current(a)
  /\ task[a].outcome = "retryable"
  /\ FallbackUsable(a)
  /\ cached' = task[a].fallback
  /\ due' = due \ {task[a].fallback}
  /\ installed' = installed \cup {task[a].fallback}
  /\ LeaveResult(a, "lease", task[a].fallback)
  /\ UNCHANGED <<generation, expired>>

CompleteFailed(a) ==
  /\ task[a].stage = "complete"
  /\ Current(a)
  /\ task[a].outcome = "fatal" \/ (task[a].outcome = "retryable" /\ ~FallbackUsable(a))
  /\ LeaveResult(a, "error", 0)
  /\ UNCHANGED <<cached, generation, clock, installed>>

\* What is left of a task when it ends.
Ended == [stage |-> "done", generation |-> 0, fallback |-> 0, outcome |-> "fatal"]

CompleteNotify(a) ==
  /\ task[a].stage = "notify"
  /\ task' = [task EXCEPT ![a] = Ended]
  /\ pc' = Wake(pc)
  /\ UNCHANGED <<cached, slot, clock, waiting, lease, rejected, history>>

\* The clock passes the refresh_at or the expires_at of the cached token.  Nobody
\* looks at those of other tokens: a fallback that counts is the cached one.
Age(g) ==
  /\ g = cached
  /\ \/ /\ g \notin due
        /\ due' = due \cup {g}
        /\ UNCHANGED expired
     \/ /\ g \in due \ expired
        /\ expired' = expired \cup {g}
        /\ UNCHANGED due
  /\ UNCHANGED <<cached, slot, task, caller, history>>

-----------------------------------------------------------------------------

CallerStep(c) ==
  \/ LeaseCached(c) \/ LeaseJoin(c) \/ LeaseStart(c) \/ WaitListen(c)
  \/ WaitResult(c) \/ WaitInvalidated(c) \/ WaitPark(c) \/ InvalidateNotify(c)

Complete(a) ==
  \/ CompleteStale(a) \/ CompleteInstall(a) \/ CompleteExpired(a)
  \/ CompleteFallback(a) \/ CompleteFailed(a)

TaskStep(a) ==
  \/ \E outcome \in Outcomes : Exchange(a, outcome)
  \/ Complete(a)
  \/ CompleteNotify(a)

Next ==
  \/ \E c \in Callers :
       CallerStep(c) \/ Request(c) \/ Cancel(c) \/ Answered(c) \/ Unauthorized(c)
  \/ \E a \in Attempts : TaskStep(a)
  \/ \E g \in installed : Age(g)

\* The runtime keeps polling spawned tasks and woken callers, and
\* TOKEN_EXCHANGE_DEADLINE bounds the exchange.
Fairness ==
  /\ \A a \in Attempts : WF_vars(TaskStep(a))
  /\ \A c \in Callers : WF_vars(CallerStep(c))

Spec == Init /\ [][Next]_vars /\ Fairness

-----------------------------------------------------------------------------
(* Properties *)

TypeOK ==
  /\ cached \in Nat
  /\ due \subseteq Nat
  /\ expired \subseteq due
  /\ generation \in Nat
  /\ next_attempt \in 0..MaxAttempt
  /\ active_attempt \in 0..MaxAttempt
  /\ completed_attempt \in [attempt : 0..MaxAttempt, token : Nat,
                            result : {"lease", "error", "invalidated"}]
  /\ task \in [Attempts -> [stage : Stages, generation : Nat,
                            fallback : Nat, outcome : Outcomes]]
  /\ pc \in [Callers -> Locations]
  /\ waiting \in [Callers -> 0..MaxAttempt]
  /\ lease \in [Callers -> Nat]
  /\ rejected \in [Callers -> Nat]
  /\ installed \subseteq Nat \ {0}
  /\ revoked \subseteq Nat \ {0}

Unfinished(a) == task[a].stage \in {"exchange", "complete"}

\* The slot names an attempt that will still give it back, and no other attempt
\* of the same generation is under way, whatever 401s and late tasks do to it.
SingleFlight ==
  /\ active_attempt # 0 => Unfinished(active_attempt)
  /\ \A a \in Attempts :
       Unfinished(a) /\ task[a].generation = generation => active_attempt = a

\* The result a waiter may still pick up is the token in the cache: a lease
\* handed over through completed_attempt was not revoked meanwhile.
HandoverIsCurrent ==
  completed_attempt.result = "lease" => completed_attempt.token = cached

\* A fallback that may still be reinstalled is the cached token: a retryable
\* failure never brings back a token that a 401 has revoked.
FallbackIsCached ==
  \A a \in Attempts :
    Unfinished(a) /\ Current(a) /\ task[a].fallback # 0 =>
      task[a].fallback = cached

\* No wake-up is lost: whoever is parked, or is about to park, waits for an
\* attempt whose notify_waiters() is still to come.
ParkedIsOwedNotify ==
  \A c \in Callers :
    pc[c] = "parked" =>
      /\ waiting[c] # 0
      /\ task[waiting[c]].stage \in {"exchange", "complete", "notify"}

\* A request that was answered 401 never presents the rejected token again.
ReplayUsesNewToken ==
  \A c \in Callers :
    pc[c] = "leased" /\ rejected[c] # 0 => lease[c] # rejected[c]

\* The cache keeps the promise every request relies on.
Lease == INSTANCE LeaseCache WITH current <- cached, Tokens <- Generations
LeaseSpec == Lease!Spec

\* A caller that waits for an attempt gets an answer.
WaiterIsServed ==
  \A c \in Callers : (waiting[c] # 0) ~> (waiting[c] = 0)
=============================================================================
