-------------------------- MODULE WorkloadIdentity --------------------------
(***************************************************************************)
(* WorkloadIdentityAuth (openai-rs-client/src/workload_identity.rs): one   *)
(* access token shared by every request of a client, refreshed by detached *)
(* tasks behind a single-flight slot, and dropped when a request learns    *)
(* from a 401 that the token is no longer accepted.                        *)
(*                                                                         *)
(* Each step is one critical section of the tokio Mutex around TokenState, *)
(* or one step outside it.  notify_waiters() runs after the lock is        *)
(* dropped, so it is a step of its own and other callers can enter         *)
(* token() in between.  Instants are abstracted to the age of a token:     *)
(* before refresh_at, between refresh_at and expires_at, after expires_at. *)
(* The u64 counters are taken not to wrap.                                 *)
(***************************************************************************)
EXTENDS Naturals

CONSTANTS
  Callers,      \* requests that share the client
  MaxRefresh    \* bound: refreshes begun in one behaviour

ASSUME MaxRefreshAssumption == MaxRefresh \in Nat

VARIABLES
  cached,                \* TokenState.cached: its token generation, 0 = None
  age,                   \* age of every token the exchange has returned
  generation,            \* TokenState.generation, the invalidation epoch
  next_refresh_id,       \* TokenState.next_refresh_id
  next_token_generation, \* TokenState.next_token_generation
  refreshing,            \* TokenState.refreshing: the id in the slot, 0 = None
  completed_failure,     \* TokenState.completed_failure: its id, 0 = None
  task,                  \* the detached refresh tasks, by refresh id
  pc,                    \* where each caller is
  waiting,               \* refresh id a caller joined (refresh_id in token())
  lease,                 \* token generation a caller holds, 0 = none
  rejected,              \* token generation the caller's last 401 was for
  installed,             \* history: token generations that were ever cached
  revoked                \* history: token generations that were invalidated

state == <<cached, generation, next_refresh_id, next_token_generation,
           refreshing, completed_failure>>
caller == <<pc, waiting, lease, rejected>>
history == <<installed, revoked>>
vars == <<state, age, task, caller, history>>

Ids == 1..MaxRefresh
Ages == {"fresh", "stale", "expired"}
\* Every WorkloadIdentityError is one failure: no step tells them apart.
Results == {"none", "ok", "failed"}
Stages == {"unborn", "exchange", "finish", "notify", "done"}
Locations == {"idle", "token", "parked", "woken", "leased", "notify"}

NoTask == [stage |-> "unborn", generation |-> 0, token |-> 0, result |-> "none"]

Init ==
  /\ cached = 0
  /\ age = [g \in Ids |-> "fresh"]
  /\ generation = 0
  /\ next_refresh_id = 0
  /\ next_token_generation = 0
  /\ refreshing = 0
  /\ completed_failure = 0
  /\ task = [r \in Ids |-> NoTask]
  /\ pc = [c \in Callers |-> "idle"]
  /\ waiting = [c \in Callers |-> 0]
  /\ lease = [c \in Callers |-> 0]
  /\ rejected = [c \in Callers |-> 0]
  /\ installed = {}
  /\ revoked = {}

-----------------------------------------------------------------------------
(* token() *)

Usable(g) == g # 0 /\ age[g] # "expired"

NextTokenGeneration == next_token_generation + 1

\* begin_refresh and spawn_refresh: take the slot, forget the last failure and
\* spawn the task.  Runs inside the caller's critical section.
SpawnRefresh ==
  /\ next_refresh_id < MaxRefresh
  /\ next_refresh_id' = next_refresh_id + 1
  /\ next_token_generation' = NextTokenGeneration
  /\ refreshing' = next_refresh_id'
  /\ completed_failure' = 0
  /\ task' = [task EXCEPT ![next_refresh_id'] =
                [stage |-> "exchange", generation |-> generation,
                 token |-> next_token_generation', result |-> "none"]]

KeepSlot ==
  UNCHANGED <<next_refresh_id, next_token_generation, refreshing,
              completed_failure, task>>

Request(c) ==
  /\ pc[c] = "idle"
  /\ pc' = [pc EXCEPT ![c] = "token"]
  /\ UNCHANGED <<state, age, task, waiting, lease, rejected, history>>

\* An unexpired token is returned at once; past refresh_at the same critical
\* section also starts a refresh in the background, unless one is running.
TokenCached(c) ==
  /\ pc[c] = "token"
  /\ Usable(cached)
  /\ IF age[cached] = "stale" /\ refreshing = 0 THEN SpawnRefresh ELSE KeepSlot
  /\ lease' = [lease EXCEPT ![c] = cached]
  /\ pc' = [pc EXCEPT ![c] = "leased"]
  /\ UNCHANGED <<cached, age, generation, waiting, rejected, history>>

\* Otherwise the caller joins the refresh in the slot, or starts one, and
\* registers for notification before it releases the lock.
TokenPark(c) ==
  /\ pc[c] = "token"
  /\ ~Usable(cached)
  /\ IF refreshing = 0 THEN SpawnRefresh ELSE KeepSlot
  /\ waiting' = [waiting EXCEPT ![c] = refreshing']
  /\ pc' = [pc EXCEPT ![c] = "parked"]
  /\ UNCHANGED <<cached, age, generation, lease, rejected, history>>

\* A woken caller takes the lock again: the failure of the refresh it joined
\* is its result, anything else sends it round the loop.
TokenWoken(c) ==
  /\ pc[c] = "woken"
  /\ IF completed_failure = waiting[c]
       THEN /\ pc' = [pc EXCEPT ![c] = "idle"]
            /\ rejected' = [rejected EXCEPT ![c] = 0]
       ELSE /\ pc' = [pc EXCEPT ![c] = "token"]
            /\ UNCHANGED rejected
  /\ waiting' = [waiting EXCEPT ![c] = 0]
  /\ UNCHANGED <<state, age, task, lease, history>>

\* The caller's future is dropped at one of its await points (an outer timeout,
\* a select!, an application that lost interest).
Cancel(c) ==
  /\ pc[c] \in {"token", "parked", "woken"}
  /\ pc' = [pc EXCEPT ![c] = "idle"]
  /\ waiting' = [waiting EXCEPT ![c] = 0]
  /\ rejected' = [rejected EXCEPT ![c] = 0]
  /\ UNCHANGED <<state, age, task, lease, history>>

-----------------------------------------------------------------------------
(* The request that uses the lease, and invalidate_if_generation() *)

\* Any answer that does not invalidate: a success, an error, or the 401 of a
\* request that has already been replayed.
Answered(c) ==
  /\ pc[c] = "leased"
  /\ pc' = [pc EXCEPT ![c] = "idle"]
  /\ lease' = [lease EXCEPT ![c] = 0]
  /\ rejected' = [rejected EXCEPT ![c] = 0]
  /\ UNCHANGED <<state, age, task, waiting, history>>

\* The transport retries the attempt: the same request asks for a token again
\* and stays replayed if it was.
Retried(c) ==
  /\ pc[c] = "leased"
  /\ pc' = [pc EXCEPT ![c] = "token"]
  /\ lease' = [lease EXCEPT ![c] = 0]
  /\ UNCHANGED <<state, age, task, waiting, rejected, history>>

\* Mutant: the cache is left alone while a refresh is under way.
HoldsCachedUnlessRefreshing(c) == cached = lease[c] /\ refreshing = 0

\* Mutant: whatever token is cached is dropped, not only the rejected one.
HoldsAny(c) == TRUE

\* The generation of the lease is that of the cached token.
HoldsCached(c) == cached = lease[c]

\* The first 401 of a request.  Only the token the request really used is
\* dropped; a refresh of the same epoch loses the slot, and its epoch.
Unauthorized(c) ==
  /\ pc[c] = "leased"
  /\ rejected[c] = 0
  /\ rejected' = [rejected EXCEPT ![c] = lease[c]]
  /\ lease' = [lease EXCEPT ![c] = 0]
  /\ IF HoldsCached(c)
       THEN /\ generation' = generation + 1
            /\ cached' = 0
            /\ revoked' = revoked \cup {cached}
            /\ refreshing' = IF refreshing # 0 /\ task[refreshing].generation = generation
                               THEN 0 ELSE refreshing
            /\ completed_failure' = 0
            /\ pc' = [pc EXCEPT ![c] = "notify"]
            /\ UNCHANGED <<next_refresh_id, next_token_generation>>
       ELSE /\ pc' = [pc EXCEPT ![c] = "token"]
            /\ UNCHANGED <<state, revoked>>
  /\ UNCHANGED <<age, task, waiting, installed>>

\* Mutant: notify_one() in place of notify_waiters().
WakeOne(p) ==
  LET woken == CHOOSE c \in Callers : p[c] = "parked" \/ ~\E d \in Callers : p[d] = "parked"
  IN  [c \in Callers |-> IF c = woken /\ p[c] = "parked" THEN "woken" ELSE p[c]]

Wake(p) == [c \in Callers |-> IF p[c] = "parked" THEN "woken" ELSE p[c]]

\* notify_waiters() of the invalidating request, which then asks for a token
\* again.
InvalidateNotify(c) ==
  /\ pc[c] = "notify"
  /\ pc' = [Wake(pc) EXCEPT ![c] = "token"]
  /\ UNCHANGED <<state, age, task, waiting, lease, rejected, history>>

-----------------------------------------------------------------------------
(* The detached refresh task *)

\* exchange() returns, times out, or panics; catch_unwind turns the panic into
\* a SubjectToken error, so that every outcome reaches finish_refresh.
Exchange(r, result) ==
  /\ task[r].stage = "exchange"
  /\ task' = [task EXCEPT ![r].stage = "finish", ![r].result = result]
  /\ UNCHANGED <<state, age, caller, history>>

StillCurrent(r) == task[r].generation = generation

\* Mutant: the slot is cleared whoever holds it.
ReleaseAnySlot(r) ==
  /\ refreshing' = 0
  /\ completed_failure' = IF task[r].result = "ok" THEN 0 ELSE r

\* The slot is given back, with the failure for those who joined it, if it is
\* still this task's.
ReleaseSlot(r) ==
  IF refreshing = r
    THEN /\ refreshing' = 0
         /\ completed_failure' = IF task[r].result = "ok" THEN 0 ELSE r
    ELSE UNCHANGED <<refreshing, completed_failure>>

\* finish_refresh(): install the token if no invalidation came between, and
\* give the slot back if it is still this task's.
FinishRefresh(r) ==
  /\ task[r].stage = "finish"
  /\ IF StillCurrent(r) /\ task[r].result = "ok"
       THEN /\ cached' = task[r].token
            /\ installed' = installed \cup {task[r].token}
       ELSE UNCHANGED <<cached, installed>>
  /\ ReleaseSlot(r)
  /\ task' = [task EXCEPT ![r].stage = "notify"]
  /\ UNCHANGED <<age, generation, next_refresh_id, next_token_generation,
                 caller, revoked>>

\* What is left of a task when it ends.
Ended(r) == [stage |-> "done", generation |-> 0, token |-> r, result |-> "none"]

\* Mutant: a failed refresh does not notify.
FinishNotifyOnSuccess(r) ==
  /\ task[r].stage = "notify"
  /\ task' = [task EXCEPT ![r] = Ended(r)]
  /\ pc' = IF task[r].result = "ok" THEN Wake(pc) ELSE pc
  /\ UNCHANGED <<state, age, waiting, lease, rejected, history>>

FinishNotify(r) ==
  /\ task[r].stage = "notify"
  /\ task' = [task EXCEPT ![r] = Ended(r)]
  /\ pc' = Wake(pc)
  /\ UNCHANGED <<state, age, waiting, lease, rejected, history>>

\* The monotonic clock passes refresh_at or expires_at of the cached token, or
\* of one the exchange has returned.  Nobody looks at those of other tokens.
Age(g) ==
  /\ g = cached \/ \E r \in Ids : /\ task[r].token = g
                                  /\ task[r].stage = "finish"
                                  /\ task[r].result = "ok"
  /\ age[g] # "expired"
  /\ age' = [age EXCEPT ![g] = IF @ = "fresh" THEN "stale" ELSE "expired"]
  /\ UNCHANGED <<state, task, caller, history>>

-----------------------------------------------------------------------------

CallerStep(c) ==
  \/ TokenCached(c) \/ TokenPark(c) \/ TokenWoken(c) \/ InvalidateNotify(c)

TaskStep(r) ==
  \/ \E result \in {"ok", "failed"} : Exchange(r, result)
  \/ FinishRefresh(r)
  \/ FinishNotify(r)

Next ==
  \/ \E c \in Callers :
       CallerStep(c) \/ Request(c) \/ Cancel(c) \/ Answered(c)
       \/ Retried(c) \/ Unauthorized(c)
  \/ \E r \in Ids : TaskStep(r)
  \/ \E g \in Ids : Age(g)

\* The runtime keeps polling spawned tasks and woken callers; the refresh
\* timeout bounds the exchange.  Applications, servers and clocks owe nothing.
Fairness ==
  /\ \A r \in Ids : WF_vars(TaskStep(r))
  /\ \A c \in Callers : WF_vars(CallerStep(c))

Spec == Init /\ [][Next]_vars /\ Fairness

-----------------------------------------------------------------------------
(* Properties *)

TypeOK ==
  /\ cached \in 0..MaxRefresh
  /\ age \in [Ids -> Ages]
  /\ generation \in Nat
  /\ next_refresh_id \in 0..MaxRefresh
  /\ next_token_generation \in 0..MaxRefresh
  /\ refreshing \in 0..MaxRefresh
  /\ completed_failure \in 0..MaxRefresh
  /\ task \in [Ids -> [stage : Stages, generation : Nat,
                       token : 0..MaxRefresh, result : Results]]
  /\ pc \in [Callers -> Locations]
  /\ waiting \in [Callers -> 0..MaxRefresh]
  /\ lease \in [Callers -> 0..MaxRefresh]
  /\ rejected \in [Callers -> 0..MaxRefresh]
  /\ installed \subseteq Ids
  /\ revoked \subseteq Ids

Unfinished(r) == task[r].stage \in {"exchange", "finish"}

\* The slot is neither leaked nor shared: it names a task that will still give
\* it back, and no other task of the current epoch is under way (spawn_refresh,
\* invalidate_if_generation and finish_refresh together).
SingleFlight ==
  /\ refreshing # 0 => Unfinished(refreshing)
  /\ \A r \in Ids :
       Unfinished(r) /\ task[r].generation = generation => refreshing = r

\* No wake-up is lost: a parked caller joined a refresh whose notify_waiters()
\* is still to come (token() registers before it drops the lock).
ParkedIsOwedNotify ==
  \A c \in Callers :
    pc[c] = "parked" =>
      /\ waiting[c] # 0
      /\ task[waiting[c]].stage \in {"exchange", "finish", "notify"}

\* A request that was answered 401 never presents the rejected token again,
\* whatever other requests and late refreshes do to the cache meanwhile.
ReplayUsesNewToken ==
  \A c \in Callers :
    pc[c] = "leased" /\ rejected[c] # 0 => lease[c] # rejected[c]

\* A token exchanged for an epoch that an invalidation has ended is never
\* cached: what a late task brings back is dropped (finish_refresh).
LateTaskIsDropped ==
  [][cached' # cached /\ cached' # 0 =>
       \E r \in Ids : /\ task[r].token = cached'
                      /\ task[r].generation = generation
                      /\ refreshing = r]_vars

\* The cache keeps the promise every request relies on: tokens only move
\* forward, and a token that was revoked is never leased again.
Lease == INSTANCE LeaseCache WITH current <- cached, Tokens <- Ids
LeaseSpec == Lease!Spec

\* Every parked caller is woken, whatever becomes of the refresh.
ParkedIsWoken ==
  \A c \in Callers : (pc[c] = "parked") ~> (pc[c] # "parked")
=============================================================================
