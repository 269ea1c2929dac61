------------------------------ MODULE Dispatch ------------------------------
(***************************************************************************)
(* One operation of the MCP bridge on its peer: the dispatch of a tool     *)
(* call or the discovery of the tools, under an ExecutionControl.          *)
(*                                                                         *)
(* A poll of a biased select! looks at its branches one after the other,   *)
(* and what they wait for may happen in between, so the position of the    *)
(* poll is part of the state.                                              *)
(***************************************************************************)
EXTENDS CancelToken, Naturals

CONSTANTS
  Timeout,     \* a timeout of the control that is not zero
  Delivery     \* CANCEL_DELIVERY_TIMEOUT

ASSUME DispatchAssumption == Timeout \in Nat \ {0} /\ Delivery \in Nat \ {0}

VARIABLES
  op,          \* "call" or "list"
  limit,       \* control.timeout(); NoLimit is None
  token,       \* control.cancellation() is set
  d_pc,        \* "start", "enqueue", "await", "notify" or "done"
  branch,      \* the branch that is polled next; 0 when the task is parked
  permit,      \* the channel to the peer has room
  peer,        \* what the peer knows: "nothing", "request", "cancelled", or
               \* "unreachable" when the notification could not be delivered
  answer,      \* the response that arrived
  first,       \* history: what came first once the request was sent
  elapsed,     \* since the timer was started
  grace,       \* since the delivery of the notification was started
  d_outcome

dispatchVars == <<op, limit, token, d_pc, branch, permit, peer, answer, first,
                  elapsed, grace, d_outcome>>

NoLimit == Timeout + 1

Answers == {"none", "result", "unsupported", "closed"}

DispatchType ==
  /\ op \in {"call", "list"} /\ limit \in {0, Timeout, NoLimit} /\ token \in BOOLEAN
  /\ d_pc \in {"start", "enqueue", "await", "notify", "done"}
  /\ branch \in 0..3
  /\ permit \in BOOLEAN
  /\ peer \in {"nothing", "request", "cancelled", "unreachable"}
  /\ answer \in Answers
  /\ first \in {"none", "answer", "cancel", "deadline"}
  /\ elapsed \in 0..(Timeout + Delivery + 1)
  /\ grace \in 0..Delivery
  /\ d_outcome \in {"none", "ok", "error", "cancelled", "timeout"}

DispatchInit ==
  /\ op \in {"call", "list"}
  /\ limit \in {0, Timeout, NoLimit}
  /\ token \in BOOLEAN
  /\ d_pc = "start" /\ branch = 0
  /\ permit \in BOOLEAN
  /\ peer = "nothing" /\ answer = "none" /\ first = "none"
  /\ elapsed = 0 /\ grace = 0
  /\ d_outcome = "none"

----------------------------------------------------------------------------
Due == limit # NoLimit /\ elapsed >= limit

FinishDispatch(result) ==
  /\ d_pc' = "done"
  /\ d_outcome' = result
  /\ branch' = 0
  /\ waiter' = "none"

\* dispatch_parts(): arguments that do not parse, or an unknown function; or
\* preflight_control() refuses.
Refuse ==
  /\ d_pc = "start"
  /\ \/ op = "call" /\ FinishDispatch("error")
     \/ token /\ flag /\ FinishDispatch("cancelled")
     \/ ~(token /\ flag) /\ limit = 0 /\ FinishDispatch("timeout")
  /\ UNCHANGED <<op, limit, token, permit, peer, answer, first, elapsed, grace,
                 flag, canceller>>

\* preflight_control() passes and the first select! is entered.  rmcp sends the
\* pages of tools/list itself.
Start ==
  /\ d_pc = "start"
  /\ ~(token /\ flag) /\ limit # 0
  /\ d_pc' = IF op = "call" THEN "enqueue" ELSE "await"
  /\ peer' = IF op = "call" THEN peer ELSE "request"
  /\ branch' = 1
  /\ UNCHANGED <<op, limit, token, permit, answer, first, elapsed, grace,
                 d_outcome, tokenVars>>

\* Mutant: the second select! polls the cancellation before the answer.
CancelBranchFirst == 1

CancelBranch == IF d_pc = "enqueue" THEN 1 ELSE 2
TimerBranch == IF d_pc = "enqueue" THEN 2 ELSE 3
WorkBranch == IF d_pc = "enqueue" THEN 3 ELSE 1

Selecting == d_pc \in {"enqueue", "await"}

WorkReady == IF d_pc = "enqueue" THEN permit ELSE answer # "none"

CancelReady == token /\ waiter = "woken"

Ready == WorkReady \/ CancelReady \/ Due

\* A waker has run: the branches are polled from the first one.
Wake ==
  /\ Selecting /\ branch = 0 /\ Ready
  /\ branch' = 1
  /\ UNCHANGED <<op, limit, token, d_pc, permit, peer, answer, first, elapsed,
                 grace, d_outcome, tokenVars>>

\* Mutant: the flag is read before the future of cancelled() is created.
PollTokenEarly ==
  /\ Selecting /\ branch = CancelBranch /\ token
  /\ \/ WaitBegin
     \/ waiter = "new" /\ waiter' = "parked" /\ UNCHANGED <<flag, canceller>>
  /\ UNCHANGED dispatchVars

\* The future of cancelled() is polled for the first time.
PollToken ==
  /\ Selecting /\ branch = CancelBranch /\ token
  /\ WaitBegin \/ WaitCheck
  /\ UNCHANGED dispatchVars

\* The branch is not ready: the next one, or the task is parked.
NextBranch ==
  /\ Selecting /\ branch # 0
  /\ branch = CancelBranch => ~token \/ waiter = "parked"
  /\ branch = TimerBranch => ~Due
  /\ branch = WorkBranch => ~WorkReady
  /\ branch' = (branch + 1) % 4
  /\ UNCHANGED <<op, limit, token, d_pc, permit, peer, answer, first, elapsed,
                 grace, d_outcome, tokenVars>>

\* send_cancellable_request() hands the request over; the same timer goes on.
Enqueued ==
  /\ d_pc = "enqueue" /\ branch = 3 /\ permit
  /\ d_pc' = "await"
  /\ peer' = "request"
  /\ first' = IF flag THEN "cancel" ELSE IF Due THEN "deadline" ELSE "none"
  /\ branch' = 1
  /\ waiter' = "none"
  /\ UNCHANGED <<op, limit, token, permit, answer, elapsed, grace, d_outcome,
                 flag, canceller>>

\* The peer is gone before the request is handed over.
EnqueueFails ==
  /\ d_pc = "enqueue" /\ branch = 3
  /\ FinishDispatch("error")
  /\ UNCHANGED <<op, limit, token, permit, peer, answer, first, elapsed, grace,
                 flag, canceller>>

\* A result may still be refused by encode_tool_result() or the conversion of
\* the tools.
TakeAnswer ==
  /\ d_pc = "await" /\ branch = 1 /\ answer # "none"
  /\ \E o \in {"ok", "error"} :
       /\ answer # "result" => o = "error"
       /\ FinishDispatch(o)
  /\ UNCHANGED <<op, limit, token, permit, peer, answer, first, elapsed, grace,
                 flag, canceller>>

\* Mutant: the peer is not told.
GiveUpSilently(why) == FinishDispatch(why)

\* The cancellation or the timer fires: at once before the request is sent and
\* in a discovery, after the notification of the peer otherwise.
GiveUp(why) ==
  IF d_pc = "await" /\ op = "call"
  THEN /\ d_pc' = "notify" /\ d_outcome' = why
       /\ branch' = 0 /\ waiter' = "none"
  ELSE FinishDispatch(why)

TakeCancel ==
  /\ Selecting /\ branch = CancelBranch /\ CancelReady
  /\ GiveUp("cancelled")
  /\ UNCHANGED <<op, limit, token, permit, peer, answer, first, elapsed, grace,
                 flag, canceller>>

TakeTimer ==
  /\ Selecting /\ branch = TimerBranch /\ Due
  /\ GiveUp("timeout")
  /\ UNCHANGED <<op, limit, token, permit, peer, answer, first, elapsed, grace,
                 flag, canceller>>

\* handle.cancel() succeeds, fails, or takes longer than CANCEL_DELIVERY_TIMEOUT.
Notified(delivered) ==
  /\ d_pc = "notify"
  /\ d_pc' = "done"
  /\ peer' = IF delivered THEN "cancelled" ELSE "unreachable"
  /\ UNCHANGED <<op, limit, token, branch, permit, answer, first, elapsed,
                 grace, d_outcome, tokenVars>>

----------------------------------------------------------------------------
\* The peer.
Permit ==
  /\ d_pc # "done" /\ ~permit
  /\ permit' = TRUE
  /\ UNCHANGED <<op, limit, token, d_pc, branch, peer, answer, first, elapsed,
                 grace, d_outcome, tokenVars>>

\* An answer that comes when a poll has passed its branch may lose to what the
\* rest of that poll finds.
Answer(a) ==
  /\ d_pc = "await" /\ answer = "none" /\ a # "none"
  /\ answer' = a
  /\ first' = IF first = "none" /\ branch < 2 THEN "answer" ELSE first
  /\ UNCHANGED <<op, limit, token, d_pc, branch, permit, peer, elapsed, grace,
                 d_outcome, tokenVars>>

\* The caller cancels.
DispatchCancel ==
  /\ token /\ d_pc # "done"
  /\ Cancelling
  /\ first' = IF first = "none" /\ d_pc = "await" THEN "cancel" ELSE first
  /\ UNCHANGED <<op, limit, token, d_pc, branch, permit, peer, answer, elapsed,
                 grace, d_outcome>>

\* Mutant: the delivery of the notification has no bound.
DispatchTimeUnbounded ==
  /\ \/ Selecting /\ branch = 0 /\ ~Ready
     \/ d_pc = "notify"
  /\ limit # NoLimit
  /\ elapsed' = elapsed + 1
  /\ first' = IF first = "none" /\ d_pc = "await" /\ elapsed + 1 >= limit
              THEN "deadline" ELSE first
  /\ UNCHANGED <<op, limit, token, d_pc, branch, permit, peer, answer, grace,
                 d_outcome, tokenVars>>

\* Time passes while the task is parked, the bound on the delivery included.
DispatchTime ==
  /\ \/ Selecting /\ branch = 0 /\ ~Ready
     \/ d_pc = "notify" /\ grace < Delivery
  /\ limit # NoLimit \/ d_pc = "notify"
  /\ elapsed' = IF limit = NoLimit THEN elapsed ELSE elapsed + 1
  /\ grace' = IF d_pc = "notify" THEN grace + 1 ELSE grace
  /\ first' = IF first = "none" /\ d_pc = "await" /\ elapsed + 1 >= limit
              THEN "deadline" ELSE first
  /\ UNCHANGED <<op, limit, token, d_pc, branch, permit, peer, answer, d_outcome,
                 tokenVars>>

DispatchStep ==
  \/ Refuse \/ Start \/ Wake \/ PollToken \/ NextBranch
  \/ Enqueued \/ EnqueueFails \/ TakeAnswer \/ TakeCancel \/ TakeTimer
  \/ \E delivered \in BOOLEAN : Notified(delivered)

DispatchNext ==
  \/ DispatchStep \/ DispatchTime \/ DispatchCancel \/ Permit
  \/ \E a \in Answers : Answer(a)

----------------------------------------------------------------------------
\* An operation with a timeout returns by its deadline, or by the end of the
\* bounded delivery of the notification: the time to hand the request over and
\* the time to wait for the answer share one timer.
DispatchReturnsInTime ==
  d_pc # "done" /\ limit # NoLimit => elapsed <= limit + Delivery

\* An answer that waits for the next poll of the task before the cancellation
\* and the deadline is not thrown away for one of them.
AnswerIsKept ==
  first = "answer" /\ d_pc \in {"notify", "done"} => d_outcome \in {"ok", "error"}

\* The peer is told of every tool call that it was sent and the caller gave
\* up, unless the notification could not be delivered, and of no other one.
PeerIsTold ==
  d_pc = "done" /\ op = "call" =>
    /\ d_outcome \in {"cancelled", "timeout"} => peer # "request"
    /\ d_outcome \in {"ok", "error"} => peer \in {"nothing", "request"}
=============================================================================
