# A verification project for openai-rs

TLA+ models of the concurrent and time-dependent core of the openai-rs
workspace (a typed Rust SDK for the OpenAI API, `src/crates/`), the TLC runs that
check them on small instances, and TLAPS proofs of what holds for every instance.
`PROJECT.json` lists components, runs, mutants, the map from definitions to source
lines, hazards, findings and theorems; this file explains them.

## 1. The system

| Crate | Role |
|---|---|
| `openai-rs-types` | wire types of the REST, streaming and Realtime APIs (94k lines of serde types, builders, validation of single values) |
| `openai-rs-client` | the HTTP client: credentials, transport with retries and budgets, streams, WebSockets, polling, pagination, uploads, webhooks |
| `openai-rs-codex` | Codex: a JSON-RPC client for a child process (`app_server`), and a direct client with login, session refresh and a credential store (`direct`) |
| `openai-rs-rmcp` | a bridge from tool calls of a model to MCP servers |
| `xtask`, `fuzz`, contract tests | build and test tooling |

### Inventory: state, operations, interactions, what is hard

**Workload identity token manager** (`workload_identity.rs`). State: the cached
token with its `refresh_at` and `expires_at`, an invalidation epoch
(`generation`), two counters, one refresh slot, the failure of the last refresh.
Operations: `token()` (lease, start or join a refresh), `invalidate_if_generation()`
after a 401, the detached refresh task. Callers are requests of the transport.
Hard: a task that outlives its epoch, wake-ups around the lock, dropped callers.
Correct means: single flight, no lost wake-up, a rejected token is never presented
again, tokens of an ended epoch are never cached.

**X.509 token manager and request lane** (`x509.rs`). The same job with another
design: a refresh blocks its callers, the result is handed over through
`completed_attempt`, a retryable failure falls back on the old token, and one
counter numbers tokens and epochs. `execute_json()` adds a budget and one replay.
Hard: stale hand-overs, revoked fallbacks, the budget across an await.

**Transport lanes** (`transport.rs`, `auth.rs`, `retry.rs`, `multipart.rs`,
`admin.rs`). One request: a loop of authentication, attempt, 401 replay, delay and
retry, then a body. JSON operations, replayable and one-shot multipart forms,
downloads and the Administration client each keep a copy of the loop. State: elapsed
time, retry counter, replay flag. Hard: one budget shared by everything that waits
(building a form included), retry classes, contradictory retry headers, bodies that
can be sent once.

**App-server client** (`codex/app_server/client.rs`, `codec.rs`). State: writer and
child behind async mutexes, pending table, slot semaphore, event queue, terminal
failure, two flags. Actors: requests, replies, `close()`, the stdout reader, the
clean-up task of a cancelled write, and the child. Hard: every future may be
dropped at every await; five actors may tear the connection down.

**Codex direct session** (`codex/direct/auth.rs`, `transport.rs`, `keyring_store.rs`).
State: the cached session and a refresh gate per process, one credential store.
Operations: `session()`, `refresh_after_unauthorized()`, the store's load, save and
delete, browser and device login, and `create()`/`stream()` with one replay after a
401. Hard: the authorization server may rotate the refresh token, so a refresh that
is answered and not saved loses the session; the gate does not reach across
processes; a keyring save outlives the future that awaited it.

**SSE decoder and Responses stream** (`sse.rs`, `response_stream.rs`). State: a line
buffer with a search cursor, the fields of the current event, frames not yet
classified, the dispatch state, a fail-stop error. Hard: a boundary, a BOM or CR LF
split over chunks; limits on what is retained; what is still delivered when a later
byte of the same chunk is wrong.

**Response accumulator** (`openai-rs-types/responses.rs`). State: last sequence
number, one slot per output item, the latest response, the terminal one. Hard: events
that come twice or not at all after a resume; an event that is refused half way.

**Responses WebSocket and Realtime** (`responses_websocket.rs`, `realtime.rs`). State:
retry counters of `connect()`, the retired flag of a socket, and for Realtime the
three clocks of the keepalive. Hard: a `recv()` that is dropped and called again, a
tick and a frame that are ready at once, renewal and retry in one loop.

**Polling, dispatch, pagination** (`poll.rs`; `rmcp/executor.rs`, `control.rs`,
`bridge.rs`; `pagination.rs`). State: a deadline, the branch order of a `select!`, a
flag with a `Notify`; the set of cursors seen. Hard: hints of zero, lost wake-ups,
an answer that races the deadline, cursors in a cycle.

**Parts without state of their own**: wire types, resource endpoints, webhook
verification, JWT and runtime identity checks, construction and errors, tooling.

Interactions: the transport leases tokens from the workload identity manager and
invalidates them on a 401; the X.509 lane does the same with its manager; resource
endpoints, polling and pagination call the transport; the direct Codex client uses
`TokenManager`; the RMCP bridge runs tool calls that the application takes from
response streams.

## 2. Modules

| Module | Models | Proofs |
|---|---|---|
| `LeaseCache` | abstract: what a shared token cache promises its requests | |
| `WorkloadIdentity` | the workload identity manager with its callers | `WorkloadIdentityProofs` |
| `X509Tokens` | the X.509 manager with its callers | `X509Proofs` |
| `X509Request` | budget and replay of `execute_json()` | `X509Proofs` |
| `Credentials` | one of the three above, for their liveness and the safety of the first | |
| `Transport` | one request of any transport lane | `TransportProofs` |
| `AppServer` | the app-server client and its child process | `AppServerProofs` |
| `DirectSession` | token managers, store, logins and requests of the direct Codex client | `DirectSessionProofs` |
| `Sse` | decoder, classifier and delivery loop of a Responses stream, with a reference decoder | `StreamProofs` |
| `ResponseAccumulator` | the accumulator, the server's log of events and a connection that breaks and resumes | `StreamProofs` |
| `ResponseStreams` | one of these two | |
| `WebSocket` | connect, send, receive, keepalive and close of one socket | `WebSocketProofs` |
| `CancelToken` | flag and `Notify` of a cancellation token | |
| `Poll`, `Dispatch`, `Pages` | `poll_until()`, an MCP operation, `list_pages()` | |
| `Tasks` | one of these three, the first two under a `CancelToken` | `TasksProofs` |
| `MC...` | symmetry sets, alphabets and header values for TLC | |

**Granularity.** In the token managers a step is one critical section of the state
mutex, or one step outside it: a notification is sent after the lock is released
and is therefore an action of its own. In `AppServer` a step is what runs between
two awaits, split further where a std `Mutex` is released before the next is taken.
In `DirectSession` a step is one await under the refresh gate (load, answer of the
authorization server, save, write of the cache). In `Sse` a step is one turn of one of
the decoder's loops, so that the cursor is seen between them. In `Poll` and `Dispatch`
a step is the poll of one branch of a `select!`: those of `poll_until()` choose a random
order, those of a dispatch are `biased` and keep theirs. A future may be dropped at
every await (`Cancel`, `CancelLock`, `CancelWrite`, `CancelCaller`, `Drop`, `RecvDropped`).

**Time.** `Transport`, `X509Request`, `Poll` and `Dispatch` count time from the start of
the call (`Transport` in half-seconds, the shortest local backoff); it advances while
the call waits and stops at the end of the current timer, where tokio and reqwest fire
it. `WebSocket` keeps the ages of the keepalive's instants, capped where they no longer
matter, and advances them together. The token managers keep only what the code asks of
a clock: whether a token has passed `refresh_at` or `expires_at`; `DirectSession` keeps
the set of sessions within `REFRESH_SKEW` of their expiry.

**State and code.** Variables have the names of the fields they model; actions
have the names of functions where one action is one function. Histories (`installed`,
`revoked`, `rejected`, `not_before`, `torn`, `saved`, `lost`, `probed`, `failure`) are
marked as such where they are declared. In `AppServer`, `pc[a]` names the await an
actor is at; a cause ("closed", "fault", "timeout", "crash") as a location means "about
to call terminate() with that failure"; `teardown.stage` is the program counter of the
first run of `terminate()`. In `Transport`, `config.lane` says how an attempt begins:
"json" authenticates, "form" builds the form first, "one_shot" authenticates and is
never sent again, "admin" sends at once.

**Data.** A token, session, cursor or item id is a number or a model value. The bytes of
`Sse` are the ones its control depends on: CR, LF, the three bytes of a BOM (each of
them alone is not UTF-8), and letters that stand for a field or a text. The letters that
name an event also stand for the `type` of a payload, so that `decode_event()` can be
modelled whole: a frame without an `event` field, with a payload that is not JSON, or with a
payload of another type ends the stream. In `ResponseAccumulator` a piece of text is
the sequence of the events it came from, so that a lost, doubled or misplaced delta is
visible.

**Refinement.** Both token managers implement `LeaseCache` (`current <- cached`): a token
is installed once and never after a newer one, a lease is a copy of the token that
is current, a revoked token is never leased again. A 401 whose lease is no longer
current is a mere `Release`; a fallback of the X.509 manager is a stutter; a token
that expired while it was exchanged is a `Discard`.

**Reference definitions.** `Sse` reads the whole body at once: `Reading(b)` is a recursive
function over the positions of the body that reads a line wherever one ends, `ReadLines`
and `ReadBody` are what it gives before and at the end of the body. Of every chunking the
same is required. `ReductionIsExact` says what an accumulator holds without running it: of the
events that were taken, a piece of text consists of the last one that set it, if any, and of
all later ones that added to it, in order (`ReducedTo`).

## 3. Runs

| Run | Instance | Shows |
|---|---|---|
| `credentials` | 2 callers; 3 refreshes, or 2 attempts, or a lane with budget 10 and lease 6 | `SingleFlight`, `ParkedIsOwedNotify`, `ReplayUsesNewToken` and refinement of `LeaseCache` for workload identity; `CallersAreServed` for all three |
| `x509_tokens` | 2 callers, 3 attempts | `SingleFlight`, `HandoverIsCurrent`, `FallbackIsCached`, `ParkedIsOwedNotify`, `ReplayUsesNewToken`, refinement |
| `x509_budget` | budget 10, lease 6 | `RequestKeepsBudget` is violated (section 5) |
| `transport` | every lane; budget 6, 2 retries, longest server delay 2, 8 header values | `BudgetHolds`, `NoDoubleSend`, `ServerMinimumHonoured`, `Terminates` |
| `app_server` | 2 requests, 1 close, 1 slot, queue of 1, 2 lines | `FramingHolds`, `SlotsAreReturned`, `NoAbandonedWaiter` |
| `app_server_live` | 1 request, 1 reply, 1 close | `RequestReturns`, `WriterIsReleased`, `ClosedIsCleanedUp` |
| `app_server_close` | 1 request, 1 close | `CloseReapsChild` is violated (section 5) |
| `direct_session` | 2 processes, 2 requests, 3 sessions issued | `ReplayUsesOtherSession`, `UsedIsDurable`, `StoreIsLive` |
| `response_streams` | bodies of up to 12 bytes, chunks of up to 3, slices of 2, limits of 2; or 3 events, 2 outputs, 2 item ids | `DeliveryIgnoresChunks`, `RetainedIsBounded`; `IdentityHolds`, `ReductionIsExact`, `FinishIsFinal` |
| `websocket` | 2 handshake retries, 3 generations, 2 frames in flight, ping interval 2, pong timeout 3 | `RejectedIsNotReplayed`, `FailureRetires`, `TimeoutIsSilence`, `ConnectReturns` |
| `websocket_keepalive` | no retries, exact timers | `DeadPeerIsReported` is violated (section 5) |
| `tasks` | deadline 6, intervals 0, 1, 5, hints 0, 2, 5; dispatch timeout 3, delivery 2; 3 cursors | `PollKeepsDeadline`, `CancelIsPrompt`, `DispatchReturnsInTime`, `AnswerIsKept`, `PeerIsTold`, `TasksReturn` |

**Bounds.** Three refreshes are the fewest in which a late task meets a newer one:
one token to reject, one refresh under way when it is rejected, one started after.
Two callers are the fewest that can hold different tokens, or of which one can miss
a wake-up meant for the other. The transport's budget of 6 half-seconds has room for
a replay, two backoffs and delayed bodies and is short enough to run out in each of
them; header values lie below, at and above the longest delay, with negative, zero,
non-finite and unparsable ones and a date. One slot and two requests make the
semaphore contended, one place in the queue and two lines make it overflow. Three
sessions are a stored one, a refreshed one and one by a second process or a login.
Twelve bytes hold two events with a name and a payload each, or a BOM with an event
after it, or the one line and the one field more that break each limit; a byte alphabet
for each place (`MCAlphabet`) keeps the run short and lets every outcome of a frame, the
protocol errors among them, happen behind a frame that was delivered. Three
events are the fewest that bind an output, disturb it and end or resume the stream. 
A ping interval of 2 and a pong timeout of 3 let a ping be sent, answered late and
missed, with one step of delay; the pong timeout is the shortest for which the keepalive is
bound to ask before it gives up.
`CallersAreServed` is checked with two attempts of the X.509 manager, which are one that
fails or is invalidated and one that serves its waiters; the safety run has three. Callers,
requests and item ids are interchangeable, so symmetry is used where no liveness is checked. Deadlock is not checked where calls come to an end (`AppServer`, `ResponseStreams`,
`WebSocket`, `Tasks`).

**Fairness** is weak and given only to what the runtime does by itself. Token
managers: woken callers and spawned tasks are polled; the exchange ends because the
code puts a timeout around it (`exchange` under the refresh timeout,
`TOKEN_EXCHANGE_DEADLINE`). `Transport`: the clock advances and a due timer fires.
`AppServer`: live futures are polled, free locks are granted, timers fire, a killed
process exits; the child owes no reads and no answers, the application no
`next_event()`. `CancelTeardown` says whether the
application may drop the future that runs `terminate()`: liveness is checked without it.
The request timeout, which is the code's own, may cut that future in every run.
`WebSocket`: `connect()` and a `recv()` that is awaited are polled and time
passes; the peer owes nothing and the application need not call `recv()`. `Tasks`: a runnable
task is polled, a `cancel()` that has set the flag runs to its notification, time passes;
no answer, permit or terminal state is owed. That a traversal ends
is shown for a finite set of cursors: a server that names a fresh one for ever keeps it going. A page request ends because a transport
request does (`Terminates`), and `TasksReturn` supposes an application that goes on reading.

**Mutants.** Every property of a passing run has a mutant of the code it is about (a
dropped re-check, `notify_one` for `notify_waiters`, a slot cleared whoever holds it,
the writer lock taken before the child is killed, a cache written before the store, a
final CR taken for the end of a line, ...) under which the run fails. The mutated
operators stand before the originals and are marked "Mutant".

**Types.** Every component has a type invariant (`TypeOK`, or a named part of it), which is
a theorem and not repeated in the runs. The names of `X509Request` (`LaneSpec`, ...) and of
`ResponseAccumulator` (`AccumulatorSpec`, ...) are their own, so that each can be extended
next to `X509Tokens` and `Sse` by one proof module.

## 4. Theorems

Proved with TLAPS for every value of the constants.

*`WorkloadIdentityProofs`* (assumes `MaxRefresh \in Nat`; `Callers` is any set):
`TypeCorrect`, `SingleFlightHolds`, `NoLostWakeup`, `ReplayIsFresh`,
`LateTokensAreDropped`, `ImplementsLeaseCache`. None of the properties is inductive.
The invariant adds: refresh ids and token generations advance in lockstep; the slot
names the newest refresh, of the current epoch; cached tokens come from finished
refreshes; a rejected token is not cached. The last one needs that a token brought
back in time is newer than all before it (`InstallIsNewest`), which needs the others.

*`X509Proofs`* (assumes `MaxAttempt \in Nat`): `TypeCorrect`,
`SingleFlightHolds`, `HandoversAreCurrent`, `FallbacksAreCached`, `NoLostWakeup`,
`ReplayIsFresh`, `ImplementsLeaseCache`. The argument turns on the slot: it names the
newest attempt, started in the current generation, so while it is taken nothing but
its own completion, or an invalidation, which frees it, changes the cached token.
Hence the fallback copied at the start is still the cached token when it is used. A
counting argument (`Count`) bounds the generations by two per attempt, which is what
makes every installed token one of the abstract `Tokens`.

The same module proves about the lane (the two times are natural numbers)
`LaneTypeCorrect` (a request is sent twice at most) and `OverrunBounded`: end of the lease
plus remaining budget is constant. It bounds the finding of section 5 and does not excuse it.

*`TransportProofs`* (assumes natural bounds and typed headers): `TypeCorrect`,
`WithinBudget`, `BackoffsFit`, `SendsAreBounded`, `ServerIsHeeded`, for every lane. The
invariant says where the timer of each await ends, how many attempts are paid for, and
when the wait the server asked for is over; `DelayIsLongEnough` shows, for every pair of
headers, that the delay chosen is not shorter than what was asked for. That a one-shot
form is sent once needs that its lane neither retries nor refreshes.

*`DirectSessionProofs`* (assumes `MaxIssued \in Nat \ {0}`; any sets of processes and
callers): `TypeCorrect`, `ReplayIsOther`, `Durable`, `StoreLive`. The invariant says that a
gate has one holder, that ids name sessions, that what is cached, stored or sent was
saved, how the generation of a session in work relates to the rejected one, that nobody
else has the refresh token of a login not yet saved, and that a refreshed session about
to be saved is live unless one was lost. `ReplayIsOther` follows because sessions of
different generations differ and ids are unique. `StoreLive` needs the gate: the mutant
without it refreshes one token twice. The action property `NothingComesBack` says that a
step that changes the store empties it or brings a session it never held: however late a
save is, it cannot put back a session that was replaced or deleted, only its successor
(observation 5 of section 5 is about that one). It needs `AwaitsSave`: a session that waits for its save,
with its caller or in the thread a dropped caller left behind, waits in one place only and
has not been stored.

*`AppServerProofs`* (assumes positive limits, finitely many requests and that futures and
tasks are told apart): `TypeCorrect`, `FramingIsKept`, `SlotsComeBack`, `WaitersAreServed`.
Whoever writes holds the writer lock (`WriterLock`); a cut write leaves a connection that
is closed and on which nobody writes (`CutIsFinal`); `terminate()` runs once, in the future
that was first (`OneTeardown`), and marks the connection closed before it does anything
else (`ClosedFirst`). `NoAbandonedWaiter` needs `Answered`: a request without an answer is in
the table, and one that got as far as the pipe has its answer once the table is drained.
The step that matters is a request that enters the table behind the drain: it still has
to pass the check for closure, and by `ClosedFirst` it does not pass. `SlotsAreReturned` is
inductive as it stands; its proof counts the table and the requests on their way into it.
The action property `OutcomesAreFinal` says what no step takes back: a closed connection
stays closed, a request keeps the first answer it gets from the reader or from
`terminate()`, whichever came first, and a recorded failure is replaced by a write timeout
at most. It adds `Unanswered`, that nothing in the table has an answer yet.

*`WebSocketProofs`* (assumes natural bounds, positive times and a credential that can be
renewed once): `TypeCorrect`, `RejectedStaysUnused`, `FailuresRetire`, `TimeoutsAreReal`. The
credential half says that a refused generation is older than the one handed out next,
except until it is invalidated. The keepalive half relates three clocks: what was read
last is not newer than what arrived last (`ReadIsOlder`), and as long as no ping was sent
the silence is bounded by the schedule of the ticker and by the gaps between two polls
(`UnprobedIsShort`), because a poll that finds the tick due takes it. It is this bound that
needs `PongTimeout >= PingInterval + Slack`; without it the statement is false, which is how
observation 10 of section 5 was met.

*`TasksProofs`* (assumes natural, mostly positive times): `TypeCorrect`, `DispatchIsTimely`,
`AnswersAreKept`, `PeersAreTold`, `PollIsBounded`, `CancelIsHeard`. The last is an action
property: it rests on `TokenIsHeard` (the flag is set before the waiters are notified, and
a future that parks after the notification has read the flag) and on `TokenIsWatched` (a
poll that has passed the branch of the token has left a future there), so that after
`cancel()` the loop is runnable and its clock stands still. `DispatchTimes` says that one
timer covers hand-over, answer and the start of the notification; `AnswerIsNext` that an
answer which came first waits at the branch that the biased `select!` polls next.

*`StreamProofs`* (assumes that an item and a response are what the wire types allow, and
positive limits). About the accumulator: `AccumulatorTypeCorrect`, `IdentityIsKept`,
`ReductionIsOfTheLog`, `OnlyFinalIsReturned`. `ReductionIsExact` has two halves: as long as no
event was refused, every piece is the reduction of the events that were taken; and as long
as no resumption skipped events, those are all numbered events up to the last one. The
second half rests on `NoGap` (between the last event that was reduced and the next one the
connection has there are only events without a number, unless the application resumed ahead).
The invariant adds that texts and arguments carry the id of their slot, and that a terminal
accumulator keeps the response of its last event. An event is shown to leave the slots
that `Applied` describes or to be refused (`TouchOK`), and one more event of the log to keep
a piece the reduction of the log (`BecomesReduces`). About the decoder: `SseTypeCorrect`,
`BufferIsBounded`. The bound needs to know that a piece has a line end in its last place
only (`PieceIsLine`), so that a slice without one leaves at most a line, and with one only
a CR that may wait for its LF (`BetweenSlices`).

`DeliveryIsOfTheBody` is about decoder, classifier and delivery together. Its invariant
`DeliveryInv` has these parts. `Buffered`: the buffer is the body from the end of a line on
(`Consumed`), and the cursor of the scan has passed no line end. `OneLine`: a call of the
decoder completes one line at most, and between two calls only a final CR waits in the
buffer, which is what the cutting of chunks at line ends is for: without it an error in a
later line of a piece would lose the frames of an earlier one. `InStep`: what the stream has
yielded, has in its queue and has pending is `Reading(body)[Consumed]`; `InStepAtEnd` says
the same of the last line and of the last event of a body that ended. `Settled`: once the
decoder has stopped, what is still queued completes `ReadBody(body)`, so that the lines that
were never parsed do not matter. `AtRest` says what is empty between chunks. The steps rest
on four facts about the reference: its equation (`ReadingDef`), that a longer body reads the
same as far as its lines were complete (`ReadingGrows`), that the line the buffer ends is the
line the reference sees there (`LineIn`, `LastLine`), and that a line which is too long
already is an error whatever follows (`LongLine`). Induction over positions is done by least
counterexample (`Least`), which needs no induction theorem. The classification of a frame by
`decode_event()` (delivered, terminal, remote error, not JSON, or one of the two protocol
errors) is the same operator for the stream and for the reference, so the theorem is about
the order, the completeness and the end of what is delivered, and not about that operator,
which is compared with the source.

Only model-checked: liveness (`CallersAreServed`, `Terminates`, `RequestReturns`,
`WriterIsReleased`, `ClosedIsCleanedUp`, `ConnectReturns`, `TasksReturn`), which is out of the
prover's reach. Every invariant, every action property and every refinement a passing run
checks is a theorem.

## 5. What the models say about the code

**Finding: the Realtime keepalive does not report a dead peer** (`realtime.rs:994`, run
`websocket_keepalive`). `recv()` re-anchors `last_inbound` at the top of its loop whenever
`last_poll` is a ping interval old, to forgive a caller that was away. But `last_poll` is
only written there, and the loop itself waits a ping interval for its tick: after each
tick the silence measured so far is discarded. A peer that is gone is pinged for ever,
while the doc (`realtime.rs:472`) promises `Error::WebSocketProtocol` "once more than
`ping_interval + pong_timeout` has elapsed without *any* inbound frame". "For ever" is for
timers that are punctual, as in this run. A tick that comes less than a ping interval after the
one before leaves the silence alone, so with jitter the error may come, late and by chance: the
test at `realtime.rs:2269` waits for it, and its comment (line 2297) notes about 6.7 s for a
window of 100 ms. What does hold is `TimeoutIsSilence`: a timeout that is reported is a silence
of the whole window.

**Finding: the budget of the X.509 lane is overrun** (`x509.rs:383`, run `x509_budget`). The
remaining time is computed before the lease is awaited (383), the lease has no timer of its
own (398), and the attempt gets the value computed before it (403). The doc of
`request_timeout` (`x509.rs:195`) calls it "the total budget for one logical request (default
600s), including the 401 replay attempt". `OverrunBounded` proves that it is never by more than
one lease, which `TOKEN_EXCHANGE_DEADLINE` bounds.

**Finding: `close()` may return Ok and leave the child running** (`client.rs:1484`, run
`app_server_close`). `terminate()` sets `shutdown_started` before its first await, and all but
the first call return at once. A request whose write fails calls it inside its own request
timeout (802). In the run, the child closes both pipes and runs on; the reader keeps the child
lock while it waits for the child to exit; the request's write fails, its `terminate()` waits
for that lock and is cut by the timeout. The connection is then marked closed, but nobody drains,
kills or reaps, and `close()`, whose doc (`client.rs:672`) says "Terminate and reap the owned
child", returns Ok. The child lives until the last client is dropped. `ClosedIsCleanedUp` states
what holds: a closed connection is cleaned up unless its teardown was cut.

**Observations**, places where the code does less than a reader may expect. The models
contain the behaviour; no run states it.

1. *`close()` does not wait for a teardown under way* (`client.rs:1485`): also when nothing
   cuts it, a call that was not the first returns before the child is gone.
2. *A teardown that the application drops is never resumed* (`client.rs:1484`), for the reason of
   the finding above.
3. *A recorded crash can be replaced* (`client.rs:821`): a request that times out before
   its write completes stores `WriteTimeout` over whatever failure is recorded.
4. *`session()` of the direct client does not look at the store when it has a cached
   session* (`auth.rs:722`): when another process has rotated the refresh token, an
   expired cached session is refused for ever, although the store holds a live one.
   `refresh_after_unauthorized()` does look.
5. *A refresh in flight saves over a logout or a new login* (`auth.rs:735`): the store has
   no version to compare.
6. *`connect()` of a Responses socket may start `2 + max_retries` handshakes*: the replay
   after a 401 is not counted as a retry.
7. *`close()` of a socket that fails to send its close frame leaves the socket open* for
   further calls (`realtime.rs:1102`).
8. *An event that ends in CR CR is held until the next byte* (`sse.rs:432`), since an LF may
   follow; a body error loses it.
9. *A page whose cursor is missing or repeated is not yielded* (`batches.rs:105`): the error
    comes in its place, with the items of that page.
10. *Short pauses are held against a healthy peer* (`realtime.rs:994`). The window of the
    keepalive is re-anchored only after one pause of a whole ping interval. An application
    that comes back to `recv()` a little earlier than that, twice, finds the tick due and a
    silence of `ping_interval + pong_timeout` before a single ping was sent, if
    `pong_timeout` is the shorter of the two; the doc of `recv()` (`realtime.rs:963`) says
    that "a pause never retires an otherwise healthy connection". TLC shows it with a ping
    interval of 3, a pong timeout of 1 and exact timers (`"silence" \in failure /\ ~probed`
    with the peer up). `TimeoutsAreReal` shows that it needs a short `pong_timeout`: one that
    covers a ping interval and the delay of the runtime lets a ping go out first.
11. *A resumption that skips events is not noticed* (`responses.rs:9656` of the types crate): the
    accumulator refuses a number that does not grow, not one that leaves a gap, and
    `starting_after()` takes any number. It then holds exactly the reduction of what it took.

## 6. What is not modelled

In the modelled components: configuration, builders, URL and header assembly, serde,
subject-token providers and certificate handling (data without control);
an `event:` field with an empty value, which unsets the name; `Inner::drop`, which kills the child with the last client; `next_id` overflow;
failing system calls on the client's own child; futures dropped outside a runtime;
a future that is kept but no longer polled while it holds the writer lock. The u64
counters are taken not to wrap. Clocks are monotonic (`Instant`). In `DirectSession` the
authorization server is taken to answer a request once; the device login's own poll
interval and `slow_down` are not told apart from its wait.

Partly: the chat accumulator (a fold over chunks without sequence numbers or
reconnection), catalog and result conversion of the RMCP bridge and the endpoint wrappers
of the Administration client (functions of one value).

Not modelled at all: wire types, endpoint wrappers, webhook, JWT and runtime identity
checks, cryptography, tooling (reasons in `PROJECT.json`). The wire types alone are more
than half of the workspace: 94k of 169k lines of serde types, builders and validation of
single values, without a state that changes over time. Of the client crate most lines
are one wrapper per endpoint. The map therefore covers a small share of all lines, and
most of those that keep state across an await.

## 7. Plan

What was planned is built, and every safety property of a run is proved. Two things would
come next if the code moves there: the chat accumulator, once it has a notion of order to
check, and a store with a version to compare, under which observation 5 becomes a property.
Liveness stays with TLC.
