----------------------------- MODULE AppServer -----------------------------
(***************************************************************************)
(* The Codex app-server client (openai-rs-codex/src/app_server/client.rs): *)
(* JSON-RPC over the stdio of one child process.  Requests, replies to the *)
(* server's own requests and close() run as futures of the application;    *)
(* the stdout reader and the clean-up after a cancelled write are spawned  *)
(* tasks.  They share the writer lock, the child lock, the pending table,  *)
(* the event queue and one terminal failure.                               *)
(*                                                                         *)
(* Steps are the sections between two awaits, split wherever they release  *)
(* one std Mutex before taking the next.  A frame is "being written" from  *)
(* the moment its first byte may have left; a future can be dropped at     *)
(* every await.  Failure kinds are kept as far as terminate() tells them   *)
(* apart; "crash" is a failure that names the exit status of the child.    *)
(* The system calls on a child of one's own (try_wait, start_kill, wait)   *)
(* are taken not to fail, and futures to be dropped inside the runtime.    *)
(***************************************************************************)
EXTENDS Naturals, FiniteSets

CONSTANTS
  Requests,       \* request_value() calls
  Responders,     \* respond_result(), respond_error() and notify() calls
  Closers,        \* close() calls
  Reader,         \* the stdout reader task
  Guard,          \* the task spawned by WriteCancellationGuard
  None,
  MaxPending,     \* limits.max_pending_requests
  EventCapacity,  \* limits.event_queue_capacity
  MaxFrames,      \* bound: lines the child writes to its stdout
  CancelTeardown  \* whether the application may drop a caller in terminate()

ASSUME LimitsAssumption ==
  /\ MaxPending \in Nat \ {0}
  /\ EventCapacity \in Nat \ {0}
  /\ MaxFrames \in Nat
  /\ CancelTeardown \in BOOLEAN

\* Futures and tasks are told apart, and there are finitely many requests.
ASSUME ActorsAssumption ==
  /\ IsFiniteSet(Requests)
  /\ Requests \cap Responders = {}
  /\ (Requests \cup Responders) \cap Closers = {}
  /\ {Reader, Guard} \cap (Requests \cup Responders \cup Closers) = {}
  /\ Reader # Guard
  /\ None \notin Requests \cup Responders \cup Closers \cup {Reader, Guard}

VARIABLES
  closed,            \* Inner.closed
  shutdown_started,  \* Inner.shutdown_started
  terminal_failure,  \* Inner.terminal_failure
  writer,            \* Inner.writer: TRUE while it holds the child's stdin
  holder,            \* who holds the writer lock
  child,             \* Inner.child: TRUE while it holds the child
  pending,           \* Inner.pending
  permits,           \* Inner.pending_slots: available permits
  slots_closed,      \* Inner.pending_slots.is_closed()
  events,            \* length of the event queue
  events_tx,         \* Inner.events_tx: TRUE while it holds the sender
  answer,            \* what each request's oneshot holds
  pc,                \* where each future or task is
  teardown,          \* the one run of terminate() that was first
  process,           \* the child: running, exited; and whether it was killed
  pipe,              \* its stdin and stdout are open at its end
  frames,            \* lines it has written
  torn               \* history: part of a frame was sent and its rest never

shared == <<closed, shutdown_started, terminal_failure>>
table == <<pending, permits, slots_closed, answer>>
queue == <<events, events_tx>>
stdin == <<writer, holder, torn>>
server == <<process, pipe, frames>>
vars == <<shared, table, queue, stdin, server, child, pc, teardown>>

Writers == Requests \cup Responders
Actors == Writers \cup Closers \cup {Reader, Guard}
\* The failures terminate() is called with.
Causes == {"closed", "fault", "timeout", "crash"}
Failures == Causes \cup {"none"}
Stages == {"none", "closing", "probe", "store", "events", "drain", "slots",
           "child", "reap", "writer", "done", "failed", "aborted"}

Init ==
  /\ closed = FALSE
  /\ shutdown_started = FALSE
  /\ terminal_failure = "none"
  /\ writer = TRUE
  /\ holder = None
  /\ child = TRUE
  /\ pending = {}
  /\ permits = MaxPending
  /\ slots_closed = FALSE
  /\ events = 0
  /\ events_tx = TRUE
  /\ answer = [r \in Requests |-> "none"]
  /\ pc = [a \in Actors |-> IF a = Reader THEN "reading"
                            ELSE IF a \in Responders THEN "check" ELSE "idle"]
  /\ teardown = [stage |-> "none", owner |-> None, failure |-> "none",
                 bounded |-> FALSE]
  /\ process = [state |-> "running", killed |-> FALSE]
  /\ pipe = [stdin |-> TRUE, stdout |-> TRUE]
  /\ frames = 0
  /\ torn = FALSE

Goto(a, location) == pc' = [pc EXCEPT ![a] = location]

-----------------------------------------------------------------------------
(* request_value() up to the write *)

\* Mutant: the pending entry outlives its request.
ReleaseNothing(r) == UNCHANGED <<pending, permits>>

\* The entry leaves the table, by hand or by PendingRequestGuard, and its
\* permit with it.  A reply or terminate() may have taken it out before.
Release(r) ==
  /\ pending' = pending \ {r}
  /\ permits' = IF r \in pending THEN permits + 1 ELSE permits

RequestBegin(r) ==
  /\ pc[r] = "idle"
  /\ Goto(r, IF terminal_failure # "none" \/ closed THEN "done" ELSE "slot")
  /\ UNCHANGED <<shared, table, queue, stdin, server, child, teardown>>

AcquireSlot(r) ==
  /\ pc[r] = "slot"
  /\ IF slots_closed
       THEN Goto(r, "done") /\ UNCHANGED permits
       ELSE /\ permits > 0
            /\ permits' = permits - 1
            /\ Goto(r, "acquired")
  /\ UNCHANGED <<shared, pending, slots_closed, answer, queue, stdin, server,
                 child, teardown>>

\* The slot timeout, or the application gives up while it waits for a slot.
SlotTimeout(r) ==
  /\ pc[r] = "slot"
  /\ Goto(r, "done")
  /\ UNCHANGED <<shared, table, queue, stdin, server, child, teardown>>

InsertPending(r) ==
  /\ pc[r] = "acquired"
  /\ pending' = pending \cup {r}
  /\ Goto(r, "check")
  /\ UNCHANGED <<shared, permits, slots_closed, answer, queue, stdin, server,
                 child, teardown>>

\* A future returns or is dropped: a request gives its slot back.
Leave(a) ==
  /\ IF a \in Requests THEN Release(a) ELSE UNCHANGED <<pending, permits>>
  /\ Goto(a, "done")
  /\ UNCHANGED <<slots_closed, answer>>

-----------------------------------------------------------------------------
(* write_message() *)

\* The first is_closed(), and the encoding, which may fail or be too large.
WriteCheck(w, encodes) ==
  /\ pc[w] = "check"
  /\ IF closed \/ ~encodes
       THEN Leave(w)
       ELSE Goto(w, "lock") /\ UNCHANGED table
  /\ UNCHANGED <<shared, queue, stdin, server, child, teardown>>

MayWrite == ~closed /\ writer

AcquireWriter(w) ==
  /\ pc[w] = "lock"
  /\ holder = None
  /\ IF MayWrite
       THEN holder' = w /\ Goto(w, "writing") /\ UNCHANGED table
       ELSE Leave(w) /\ UNCHANGED holder
  /\ UNCHANGED <<shared, writer, torn, queue, server, child, teardown>>

\* write_all and flush succeed: the child has drained its stdin far enough.
WriteDone(w) ==
  /\ pc[w] = "writing"
  /\ pipe.stdin
  /\ holder' = None
  /\ IF w \in Requests
       THEN Goto(w, "waiting") /\ UNCHANGED table
       ELSE Leave(w)
  /\ UNCHANGED <<shared, writer, torn, queue, server, child, teardown>>

\* BrokenPipe: the lock is dropped before terminate() is called.
WriteFails(w) ==
  /\ pc[w] = "writing"
  /\ ~pipe.stdin
  /\ holder' = None
  /\ Goto(w, "fault")
  /\ UNCHANGED <<shared, table, writer, torn, queue, server, child, teardown>>

ChildLocked == pc[Reader] = "reaping"

\* Mutant: the guard leaves it to the spawned task to close the connection.
CloseLater == UNCHANGED closed

CloseNow == closed' = TRUE

\* The guard of a write that is cut: with the writer lock still held, close,
\* record the failure, kill the child if its lock is free and spawn the
\* clean-up.
CutWrite ==
  /\ CloseNow
  /\ terminal_failure' = IF terminal_failure = "none" THEN "fault" ELSE terminal_failure
  /\ process' = [process EXCEPT !.killed = @ \/ (~ChildLocked /\ child)]
  /\ holder' = None
  /\ torn' = (torn \/ pipe.stdin)

\* The application drops a future in the middle of a write.
CancelWrite(w) ==
  /\ pc[w] = "writing"
  /\ CutWrite
  /\ pc' = [pc EXCEPT ![w] = "done", ![Guard] = "fault"]
  /\ IF w \in Requests THEN Release(w) ELSE UNCHANGED <<pending, permits>>
  /\ UNCHANGED <<shutdown_started, slots_closed, answer, writer, queue, pipe,
                 frames, child, teardown>>

\* Mutant: the request timeout covers the wait for the response only.
ExpireWritingNever(r) == FALSE

\* The request timeout cuts the write.
ExpireWriting(r) ==
  /\ pc[r] = "writing"
  /\ CutWrite
  /\ pc' = [pc EXCEPT ![r] = "expired", ![Guard] = "fault"]
  /\ Release(r)
  /\ UNCHANGED <<shutdown_started, slots_closed, answer, writer, queue, pipe,
                 frames, child, teardown>>

\* The request timeout strikes while another writer has the lock or is next
\* in line for it: the timer is polled only after the exchange.
ExpireLock(r) ==
  /\ pc[r] = "lock"
  /\ holder # None \/ \E w \in Writers \ {r} : pc[w] = "lock"
  /\ Goto(r, "expired")
  /\ Release(r)
  /\ UNCHANGED <<shared, slots_closed, answer, queue, stdin, server, child,
                 teardown>>

\* terminate() waits: for the child lock, for the child to exit, or for the
\* writer lock.
TeardownWaits ==
  \/ teardown.stage \in {"probe", "child"} /\ ChildLocked
  \/ teardown.stage = "reap" /\ process.state = "running"
  \/ teardown.stage = "writer" /\ holder # None

\* The request timeout strikes while this request waits in terminate(), which
\* its failed write has called: the run is dropped with the exchange.
ExpireTeardown(r) ==
  /\ pc[r] = "teardown"
  /\ teardown.bounded
  /\ TeardownWaits
  /\ teardown' = [teardown EXCEPT !.stage = "aborted"]
  /\ Goto(r, "expired")
  /\ Release(r)
  /\ UNCHANGED <<shared, slots_closed, answer, queue, stdin, server, child>>

\* A write that had not completed: WriteTimeout replaces whatever failure is
\* recorded, and the connection is torn down.
RecordTimeout(r) ==
  /\ pc[r] = "expired"
  /\ terminal_failure' = "timeout"
  /\ Goto(r, "timeout")
  /\ UNCHANGED <<closed, shutdown_started, table, queue, stdin, server, child,
                 teardown>>

-----------------------------------------------------------------------------
(* The response *)

Receive(r) ==
  /\ pc[r] = "waiting"
  /\ answer[r] # "none"
  /\ Leave(r)
  /\ UNCHANGED <<shared, queue, stdin, server, child, teardown>>

\* Only the response is late, or the application drops the request while it
\* waits: the request fails and the stream stays framed.
ResponseTimeout(r) ==
  /\ pc[r] = "waiting"
  /\ Leave(r)
  /\ UNCHANGED <<shared, queue, stdin, server, child, teardown>>

\* The application drops a future that has not begun to write.
CancelLock(w) ==
  /\ pc[w] = "lock"
  /\ Leave(w)
  /\ UNCHANGED <<shared, queue, stdin, server, child, teardown>>

-----------------------------------------------------------------------------
(* The stdout reader: handle_inbound(), send_event() and the end of stdout *)

ReaderFails(cause) == Goto(Reader, cause) /\ UNCHANGED <<table, queue>>

\* A full queue or a dropped sender fails the connection.
SendEvent ==
  IF events_tx /\ events < EventCapacity
    THEN events' = events + 1 /\ UNCHANGED <<events_tx, table, pc>>
    ELSE ReaderFails("fault")

\* A line of the child: a notification or server request, a response to some
\* request (well-formed or not), or something that is no message at all.
Inbound ==
  /\ pc[Reader] = "reading"
  /\ pipe.stdout
  /\ frames < MaxFrames
  /\ frames' = frames + 1
  /\ \/ SendEvent
     \/ ReaderFails("fault")
     \/ \E r \in Requests :
          IF r \in pending
            THEN \/ /\ Release(r)
                    /\ answer' = [answer EXCEPT ![r] = "result"]
                    /\ UNCHANGED <<slots_closed, queue, pc>>
                 \/ ReaderFails("fault")
            ELSE SendEvent
  /\ UNCHANGED <<shared, stdin, process, pipe, child, teardown>>

\* End of stdout between two frames: with the child lock held, wait for the
\* child to exit, at most for the shutdown timeout.  In the middle of a frame
\* the reader fails at once.
ReaderEnd(clean) ==
  /\ pc[Reader] = "reading"
  /\ ~pipe.stdout
  /\ Goto(Reader, IF clean /\ child THEN "reaping" ELSE "fault")
  /\ UNCHANGED <<shared, table, queue, stdin, server, child, teardown>>

ReaderReaps ==
  /\ pc[Reader] = "reaping"
  /\ Goto(Reader, IF process.state = "exited" THEN "crash" ELSE "fault")
  /\ UNCHANGED <<shared, table, queue, stdin, server, child, teardown>>

\* next_event()
NextEvent ==
  /\ events > 0
  /\ events' = events - 1
  /\ UNCHANGED <<shared, table, events_tx, stdin, server, child, pc, teardown>>

-----------------------------------------------------------------------------
(* close() and terminate() *)

Close(c) ==
  /\ pc[c] = "idle"
  /\ Goto(c, "closed")
  /\ UNCHANGED <<shared, table, queue, stdin, server, child, teardown>>

\* Mutant: a connection that is closed counts as torn down.
NotFirstIfClosed == closed

NotFirst == shutdown_started

\* The swap of shutdown_started: all but the first return at once.
Terminate(a) ==
  /\ pc[a] \in Causes
  /\ shutdown_started' = TRUE
  /\ IF NotFirst
       THEN Leave(a) /\ UNCHANGED teardown
       ELSE /\ Goto(a, "teardown")
            /\ teardown' = [stage |-> "closing", owner |-> a, failure |-> pc[a],
                            bounded |-> a \in Requests /\ pc[a] = "fault"]
            /\ UNCHANGED table
  /\ UNCHANGED <<closed, terminal_failure, queue, stdin, server, child>>

Step(from, to) ==
  /\ teardown.stage = from
  /\ teardown' = [teardown EXCEPT !.stage = to]

\* Mutant: the connection is torn down without being marked closed.
MarkClosedForgotten ==
  /\ Step("closing", "probe")
  /\ UNCHANGED <<shared, table, queue, stdin, server, child, pc>>

MarkClosed ==
  /\ Step("closing", "probe")
  /\ closed' = TRUE
  /\ UNCHANGED <<shutdown_started, terminal_failure, table, queue, stdin, server,
                 child, pc>>

\* already_exited_status(): the exit status of a child that is gone is folded
\* into the failure, unless the caller asked for the close.
Probe ==
  /\ ~ChildLocked
  /\ teardown.stage = "probe"
  /\ teardown' = [teardown EXCEPT
       !.stage = "store",
       !.failure = IF process.state = "exited" /\ @ # "closed" THEN "crash" ELSE @]
  /\ UNCHANGED <<shared, table, queue, stdin, server, child, pc>>

StoreFailure ==
  /\ Step("store", "events")
  /\ terminal_failure' = IF terminal_failure = "none" THEN teardown.failure
                         ELSE terminal_failure
  /\ UNCHANGED <<closed, shutdown_started, table, queue, stdin, server, child, pc>>

DropEvents ==
  /\ Step("events", "drain")
  /\ events_tx' = FALSE
  /\ UNCHANGED <<shared, table, events, stdin, server, child, pc>>

Drain ==
  /\ Step("drain", "slots")
  /\ answer' = [r \in Requests |-> IF r \in pending THEN "failure" ELSE answer[r]]
  /\ pending' = {}
  /\ permits' = permits + Cardinality(pending)
  /\ UNCHANGED <<shared, slots_closed, queue, stdin, server, child, pc>>

CloseSlots ==
  /\ Step("slots", "child")
  /\ slots_closed' = TRUE
  /\ UNCHANGED <<shared, pending, permits, answer, queue, stdin, server, child, pc>>

\* Mutant: terminate() waits for the writer lock before it kills the child.
KillNeedsWriter == ~ChildLocked /\ holder = None

MayKill == ~ChildLocked

KillChild ==
  /\ MayKill
  /\ teardown.stage = "child"
  /\ child' = FALSE
  /\ IF process.state = "running"
       THEN Step("child", "reap") /\ process' = [process EXCEPT !.killed = TRUE]
       ELSE Step("child", "writer") /\ UNCHANGED process
  /\ UNCHANGED <<shared, table, queue, stdin, pipe, frames, pc>>

Reap ==
  /\ process.state = "exited"
  /\ Step("reap", "writer")
  /\ UNCHANGED <<shared, table, queue, stdin, server, child, pc>>

\* terminate() returns to its caller.
Finish(from, to) ==
  /\ Step(from, to)
  /\ Leave(teardown.owner)
  /\ UNCHANGED <<shared, queue, server, child>>

\* The killed child outlives the shutdown timeout: an error, with the stdin
\* handle still in place.
ReapTimeout ==
  /\ process.state = "running"
  /\ Finish("reap", "failed")
  /\ UNCHANGED stdin

TakeWriter ==
  /\ holder = None
  /\ Finish("writer", "done")
  /\ writer' = FALSE
  /\ UNCHANGED <<holder, torn>>

\* The application drops the future that runs terminate(), at an await.  The
\* tasks of the client itself are never dropped.
CancelCaller(a) ==
  /\ CancelTeardown
  /\ pc[a] = "teardown"
  /\ teardown.stage \in {"probe", "child", "reap", "writer"}
  /\ teardown' = [teardown EXCEPT !.stage = "aborted"]
  /\ Leave(a)
  /\ UNCHANGED <<shared, queue, stdin, server, child>>

-----------------------------------------------------------------------------
(* The child process *)

\* It exits by itself or because it was killed.
ChildExits ==
  /\ process.state = "running"
  /\ process' = [process EXCEPT !.state = "exited"]
  /\ pipe' = [stdin |-> FALSE, stdout |-> FALSE]
  /\ UNCHANGED <<shared, table, queue, stdin, frames, child, pc, teardown>>

\* It closes one of its ends and runs on.
ChildShuts(end) ==
  /\ process.state = "running"
  /\ pipe[end]
  /\ pipe' = [pipe EXCEPT ![end] = FALSE]
  /\ UNCHANGED <<shared, table, queue, stdin, process, frames, child, pc, teardown>>

-----------------------------------------------------------------------------

\* What the runtime does for a future without the child's or the application's
\* help: timers fire, locks that are free are taken, broken pipes are reported.
RequestStep(r) ==
  \/ AcquireSlot(r) \/ SlotTimeout(r) \/ InsertPending(r)
  \/ ExpireWriting(r) \/ ExpireLock(r) \/ RecordTimeout(r)
  \/ Receive(r) \/ ResponseTimeout(r)

WriterStep(w) ==
  \/ \E encodes \in BOOLEAN : WriteCheck(w, encodes)
  \/ AcquireWriter(w)
  \/ WriteFails(w)

TeardownStep ==
  \/ MarkClosed \/ Probe \/ StoreFailure \/ DropEvents \/ Drain \/ CloseSlots
  \/ KillChild \/ Reap \/ ReapTimeout \/ TakeWriter

ReaderStep == (\E clean \in BOOLEAN : ReaderEnd(clean)) \/ ReaderReaps

Next ==
  \/ \E r \in Requests : RequestBegin(r) \/ RequestStep(r) \/ ExpireTeardown(r)
  \/ \E w \in Writers :
       WriterStep(w) \/ WriteDone(w) \/ CancelWrite(w) \/ CancelLock(w)
  \/ \E c \in Closers : Close(c)
  \/ \E a \in Actors : Terminate(a)
  \/ \E a \in Actors \ {Reader, Guard} : CancelCaller(a)
  \/ TeardownStep
  \/ ReaderStep
  \/ Inbound
  \/ NextEvent
  \/ ChildExits
  \/ \E end \in {"stdin", "stdout"} : ChildShuts(end)

\* Every future is polled until it is dropped; a killed process exits.  The
\* child owes no reads and no answers, the application no next_event().
Fairness ==
  /\ \A r \in Requests : WF_vars(RequestStep(r))
  /\ \A w \in Writers : WF_vars(WriterStep(w))
  /\ \A a \in Actors : WF_vars(Terminate(a))
  /\ WF_vars(TeardownStep)
  /\ WF_vars(ReaderStep)
  /\ WF_vars(process.killed /\ ChildExits)

Spec == Init /\ [][Next]_vars /\ Fairness

-----------------------------------------------------------------------------
(* Properties *)

TypeOK ==
  /\ closed \in BOOLEAN
  /\ shutdown_started \in BOOLEAN
  /\ terminal_failure \in Failures
  /\ writer \in BOOLEAN
  /\ holder \in Writers \cup {None}
  /\ child \in BOOLEAN
  /\ pending \subseteq Requests
  /\ permits \in 0..MaxPending
  /\ slots_closed \in BOOLEAN
  /\ events \in 0..EventCapacity
  /\ events_tx \in BOOLEAN
  /\ answer \in [Requests -> {"none", "result", "failure"}]
  /\ pc \in [Actors -> Causes \cup
       {"idle", "slot", "acquired", "check", "lock", "writing", "waiting",
        "expired", "reading", "reaping", "teardown", "done"}]
  /\ teardown \in [stage : Stages, owner : Actors \cup {None},
                   failure : Failures, bounded : BOOLEAN]
  /\ process \in [state : {"running", "exited"}, killed : BOOLEAN]
  /\ pipe \in [stdin : BOOLEAN, stdout : BOOLEAN]
  /\ frames \in 0..MaxFrames
  /\ torn \in BOOLEAN

\* Once part of a frame may have been sent and its rest never will be, nobody
\* writes to the child's stdin again, whoever was waiting for the writer lock
\* (WriteCancellationGuard closes the connection before the lock is free).
FramingHolds == torn => \A w \in Writers : pc[w] # "writing"

\* Every permit is either available, or with a request on its way into the
\* table, or in the table for a request that is still being served: dropped,
\* answered, timed-out and drained requests all give theirs back, once.
SlotsAreReturned ==
  /\ permits + Cardinality(pending)
       + Cardinality({r \in Requests : pc[r] = "acquired"}) = MaxPending
  /\ \A r \in pending : pc[r] \notin {"idle", "slot", "acquired", "done"}

\* No request waits for an answer that cannot come: it has its answer, or it
\* is in the table and terminate() has yet to drain it, although requests
\* enter the table and check for closure without a common lock.
NoAbandonedWaiter ==
  \A r \in Requests :
    pc[r] = "waiting" /\ answer[r] = "none" =>
      r \in pending /\ ~slots_closed /\ teardown.stage # "slots"

\* Every request returns, whatever the child does: its timeout covers the wait
\* for a slot, the write and the response, and the teardown it may run ends.
RequestReturns ==
  \A r \in Requests : (pc[r] \notin {"idle", "done"}) ~> (pc[r] = "done")

\* A reply has no timeout: one that is blocked on a full pipe is released by
\* the teardown, which kills the child before it asks for the writer lock.
WriterIsReleased ==
  \A w \in Writers : (pc[w] = "writing" /\ closed) ~> (pc[w] # "writing")

\* A closed connection is cleaned up: the event stream ends and waiters for a
\* slot are turned away, although the guard of a cut write has closed it before
\* terminate() runs and terminate() runs once.  What is left out is a run that
\* the timeout of its request has cut: nobody takes over (CloseReapsChild).
ClosedIsCleanedUp ==
  closed ~> (~events_tx /\ slots_closed) \/ teardown.stage = "aborted"

\* close() terminates and reaps the owned child, or reports why it could not.
\* A call that is not the first to reach terminate() returns at once, so it
\* relies on the first one to see it through.
CloseReapsChild ==
  \A c \in Closers :
    (pc[c] = "done") ~> (process.state = "exited" \/ teardown.stage = "failed")
=============================================================================
