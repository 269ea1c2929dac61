---------------------------- MODULE TasksProofs ----------------------------
(***************************************************************************)
(* Proofs about the polling loop and the dispatch of a tool call, for      *)
(* every timeout, interval and set of hints.                               *)
(***************************************************************************)
EXTENDS Tasks, TLAPS

\* The flag is set before the waiters are notified, and a future that parks
\* after the notification has read the flag: none stays parked.
TokenIsHeard ==
  /\ flag <=> canceller # "idle"
  /\ canceller = "done" => waiter # "parked"

\* The timer of a dispatch goes on into the notification, whose own timer
\* starts with it.
DispatchTimes ==
  /\ limit # NoLimit => elapsed <= limit + grace
  /\ limit = NoLimit => elapsed = 0
  /\ d_pc \in {"start", "enqueue", "await"} => grace = 0

\* What the peer knows and what the caller will be told, by location.
DispatchStages ==
  /\ d_pc \in {"start", "enqueue"} =>
       /\ op = "call" => peer = "nothing"
       /\ first = "none" /\ answer = "none"
  /\ d_pc = "enqueue" => op = "call"
  /\ d_pc \in {"start", "enqueue", "await"} => d_outcome = "none"
  /\ d_pc = "await" => peer = "request"
  /\ d_pc = "notify" => /\ op = "call"
                        /\ d_outcome \in {"cancelled", "timeout"}

\* An answer that was first waits at the branch that is polled next.
AnswerIsNext ==
  first = "answer" /\ d_pc # "done" =>
    d_pc = "await" /\ answer # "none" /\ branch \in {0, 1}

\* What is waited for ends within the budget, and its timer is not past it.
PollTimes ==
  /\ spent <= Budget
  /\ Waiting => since <= allotted /\ since <= spent /\ spent - since + allotted <= Budget

\* A poll that has passed the branch of the token has left a future there.
TokenIsWatched ==
  cancellable /\ Waiting /\ order \in {"work", "parked"} =>
    waiter \in {"parked", "woken"}

DispatchInv ==
  DispatchType /\ DispatchTimes /\ DispatchStages /\ AnswerIsNext
    /\ AnswerIsKept /\ PeerIsTold

PollInv == PollType /\ PollTimes /\ TokenIsWatched

Inv ==
  /\ task \in {"poll", "dispatch", "pages"}
  /\ TokenType /\ TokenIsHeard
  /\ DispatchInv /\ PollInv /\ PagesType
  /\ task # "poll" => p_pc = "top"

USE PollAssumption, DispatchAssumption, NoCursorAssumption

----------------------------------------------------------------------------
(* The dispatch *)

LEMMA DispatchInitInv == DispatchInit => DispatchInv
BY DEF DispatchInit, DispatchInv, DispatchType, DispatchTimes, DispatchStages,
       AnswerIsNext, AnswerIsKept, PeerIsTold, NoLimit, Answers

LEMMA DispatchTypeStep ==
  ASSUME TokenType, DispatchInv, DispatchNext
  PROVE  DispatchType' /\ TokenType'
<1> USE DEF TokenType, DispatchInv, DispatchType, DispatchTimes, NoLimit, Answers,
            tokenVars, dispatchVars
<1>1. CASE Refuse
  BY <1>1 DEF Refuse, FinishDispatch
<1>2. CASE Start \/ Wake \/ NextBranch
  BY <1>2 DEF Start, Wake, NextBranch
<1>3. CASE PollToken
  BY <1>3 DEF PollToken, WaitBegin, WaitCheck
<1>4. CASE Enqueued \/ EnqueueFails \/ TakeAnswer
  BY <1>4 DEF Enqueued, EnqueueFails, TakeAnswer, FinishDispatch
<1>5. CASE TakeCancel \/ TakeTimer
  BY <1>5 DEF TakeCancel, TakeTimer, GiveUp, FinishDispatch
<1>6. CASE \E delivered \in BOOLEAN : Notified(delivered)
  BY <1>6 DEF Notified
<1>7. CASE DispatchTime
  BY <1>7 DEF DispatchTime, Selecting, Ready, Due
<1>8. CASE DispatchCancel
  <2>1. TokenType'
    BY <1>8 DEF DispatchCancel, Cancelling, CancelSet, CancelNotify
  <2>2. DispatchType'
    BY <1>8 DEF DispatchCancel
  <2> QED
    BY <2>1, <2>2
<1>9. CASE Permit
  BY <1>9 DEF Permit
<1>10. CASE \E a \in Answers : Answer(a)
  BY <1>10 DEF Answer
<1> QED
  BY <1>1, <1>2, <1>3, <1>4, <1>5, <1>6, <1>7, <1>8, <1>9, <1>10
     DEF DispatchNext, DispatchStep

LEMMA DispatchTimesStep ==
  ASSUME DispatchInv, DispatchNext
  PROVE  DispatchTimes'
<1> USE DEF DispatchInv, DispatchType, DispatchTimes, NoLimit, dispatchVars
<1>1. CASE DispatchTime
  BY <1>1 DEF DispatchTime, Selecting, Ready, Due
<1>2. CASE ~DispatchTime
  BY <1>2 DEF DispatchNext, DispatchStep, Refuse, Start, Wake, PollToken, NextBranch,
    Enqueued, EnqueueFails, TakeAnswer, TakeCancel, TakeTimer, Notified,
    DispatchCancel, Permit, Answer, GiveUp, FinishDispatch, Selecting
<1> QED
  BY <1>1, <1>2

LEMMA DispatchStagesStep ==
  ASSUME DispatchInv, DispatchNext
  PROVE  DispatchStages' /\ PeerIsTold'
<1> USE DEF DispatchInv, DispatchType, DispatchStages, PeerIsTold, dispatchVars
<1>1. CASE Refuse \/ Start
  BY <1>1 DEF Refuse, Start, FinishDispatch
<1>2. CASE Wake \/ NextBranch \/ PollToken
  BY <1>2 DEF Wake, NextBranch, PollToken
<1>3. CASE Enqueued \/ EnqueueFails \/ TakeAnswer
  BY <1>3 DEF Enqueued, EnqueueFails, TakeAnswer, FinishDispatch
<1>4. CASE TakeCancel \/ TakeTimer
  BY <1>4 DEF TakeCancel, TakeTimer, GiveUp, FinishDispatch, Selecting
<1>5. CASE \E delivered \in BOOLEAN : Notified(delivered)
  BY <1>5 DEF Notified
<1>6. CASE DispatchTime \/ DispatchCancel \/ Permit \/ \E a \in Answers : Answer(a)
  BY <1>6 DEF DispatchTime, DispatchCancel, Permit, Answer
<1> QED
  BY <1>1, <1>2, <1>3, <1>4, <1>5, <1>6 DEF DispatchNext, DispatchStep

\* The answer is polled first, so a poll that finds one goes no further.
LEMMA AnswerStep ==
  ASSUME DispatchInv, DispatchNext
  PROVE  AnswerIsNext' /\ AnswerIsKept'
<1> USE DEF DispatchInv, DispatchType, DispatchStages, AnswerIsNext, AnswerIsKept,
            dispatchVars
<1>1. CASE Refuse \/ Start
  BY <1>1 DEF Refuse, Start, FinishDispatch
<1>2. CASE Wake \/ PollToken
  BY <1>2 DEF Wake, PollToken
<1>3. CASE NextBranch
  BY <1>3 DEF NextBranch, Selecting, WorkBranch, WorkReady
<1>4. CASE Enqueued \/ EnqueueFails \/ TakeAnswer
  BY <1>4 DEF Enqueued, EnqueueFails, TakeAnswer, FinishDispatch
<1>5. CASE TakeCancel \/ TakeTimer
  BY <1>5 DEF TakeCancel, TakeTimer, GiveUp, FinishDispatch, Selecting,
              CancelBranch, TimerBranch
<1>6. CASE \E delivered \in BOOLEAN : Notified(delivered)
  BY <1>6 DEF Notified
<1>7. CASE DispatchTime \/ DispatchCancel \/ Permit
  BY <1>7 DEF DispatchTime, DispatchCancel, Permit
<1>8. CASE \E a \in Answers : Answer(a)
  BY <1>8 DEF Answer
<1> QED
  BY <1>1, <1>2, <1>3, <1>4, <1>5, <1>6, <1>7, <1>8 DEF DispatchNext, DispatchStep

LEMMA DispatchTokenStep ==
  ASSUME TokenType, TokenIsHeard, DispatchNext
  PROVE  TokenIsHeard'
<1> USE DEF TokenType, TokenIsHeard, tokenVars
<1>1. CASE DispatchCancel
  BY <1>1 DEF DispatchCancel, Cancelling, CancelSet, CancelNotify
<1>2. CASE PollToken
  BY <1>2 DEF PollToken, WaitBegin, WaitCheck
<1>3. CASE ~DispatchCancel /\ ~PollToken
  BY <1>3 DEF DispatchNext, DispatchStep, DispatchTime, Refuse, Start, Wake, NextBranch,
    Enqueued, EnqueueFails, TakeAnswer, TakeCancel, TakeTimer, Notified, Permit,
    Answer, GiveUp, FinishDispatch
<1> QED
  BY <1>1, <1>2, <1>3

----------------------------------------------------------------------------
(* The polling loop *)

LEMMA PollInitInv == PollInit => PollInv
BY DEF PollInit, PollInv, PollType, PollTimes, TokenIsWatched, Waiting, Replies

LEMMA PollTypeStep ==
  ASSUME TokenType, PollInv, PollNext
  PROVE  PollType' /\ PollTimes' /\ TokenType'
<1> USE DEF TokenType, PollInv, PollType, PollTimes, Waiting, Replies, tokenVars,
            pollVars
<1>1. CASE PollTop
  <2>1. CASE p_pc' = "fetch"
    <3>1. /\ since' = 0 /\ allotted' = Budget - spent /\ reply' = "none"
          /\ UNCHANGED <<interval, cancellable, spent, p_outcome, hint, tokenVars>>
      BY <1>1, <2>1 DEF PollTop, FinishPoll, Remaining
    <3>2. order' \in {"token_work", "work_token", "work"}
      BY <1>1, <2>1 DEF PollTop, FinishPoll, EnterSelect
    <3> QED
      BY <2>1, <3>1, <3>2
  <2>2. CASE p_pc' # "fetch"
    BY <1>1, <2>2 DEF PollTop, FinishPoll
  <2> QED
    BY <2>1, <2>2
<1>2. CASE PollWake
  BY <1>2 DEF PollWake, EnterSelect
<1>3. CASE PollTokenBranch
  BY <1>3 DEF PollTokenBranch, WaitBegin, WaitCheck
<1>4. CASE PollPending
  BY <1>4 DEF PollPending, After
<1>5. CASE PollCancelled
  BY <1>5 DEF PollCancelled, FinishPoll
<1>6. CASE FetchEnds
  <2>1. Delay \in 0..Remaining
    <3>1. hint # {} => (CHOOSE h \in hint : TRUE) \in Hints
      OBVIOUS
    <3>2. \A wanted \in Nat :
            (IF wanted < Remaining THEN wanted ELSE Remaining) \in 0..Remaining
      BY DEF Remaining
    <3> QED
      BY <3>1, <3>2 DEF Delay
  <2> QED
    BY <1>6, <2>1 DEF FetchEnds, FinishPoll, EnterSelect, Remaining
<1>7. CASE SleepEnds
  BY <1>7 DEF SleepEnds
<1>8. CASE PollTime
  BY <1>8 DEF PollTime, WorkIsReady, Elapsed
<1>9. CASE PollCancel
  BY <1>9 DEF PollCancel, Cancelling, CancelSet, CancelNotify
<1>10. CASE \E r \in Replies, h \in {{}} \cup {{n} : n \in Hints} : Reply(r, h)
  BY <1>10 DEF Reply
<1> QED
  BY <1>1, <1>2, <1>3, <1>4, <1>5, <1>6, <1>7, <1>8, <1>9, <1>10
     DEF PollNext, PollStep

\* The two facts about the token: a future is left behind, and it is woken.
LEMMA PollTokenStep ==
  ASSUME TokenType, TokenIsHeard, PollInv, PollNext
  PROVE  TokenIsHeard' /\ TokenIsWatched'
<1> USE DEF TokenType, TokenIsHeard, PollInv, PollType, TokenIsWatched, Waiting,
            tokenVars, pollVars
<1>1. CASE PollTop
  BY <1>1 DEF PollTop, FinishPoll, EnterSelect
<1>2. CASE PollWake
  BY <1>2 DEF PollWake, EnterSelect
<1>3. CASE PollTokenBranch
  BY <1>3 DEF PollTokenBranch, WaitBegin, WaitCheck, AtToken
<1>4. CASE PollPending
  BY <1>4 DEF PollPending, After, AtToken
<1>5. CASE PollCancelled
  BY <1>5 DEF PollCancelled, FinishPoll
<1>6. CASE FetchEnds
  BY <1>6 DEF FetchEnds, FinishPoll, EnterSelect
<1>7. CASE SleepEnds
  BY <1>7 DEF SleepEnds
<1>8. CASE PollTime
  BY <1>8 DEF PollTime
<1>9. CASE PollCancel
  BY <1>9 DEF PollCancel, Cancelling, CancelSet, CancelNotify
<1>10. CASE \E r \in Replies, h \in {{}} \cup {{n} : n \in Hints} : Reply(r, h)
  BY <1>10 DEF Reply
<1> QED
  BY <1>1, <1>2, <1>3, <1>4, <1>5, <1>6, <1>7, <1>8, <1>9, <1>10
     DEF PollNext, PollStep

----------------------------------------------------------------------------
(* The three tasks *)

LEMMA PagesTypeStep == PagesType /\ PagesNext => PagesType'
BY DEF PagesType, PagesNext, FetchPage, LastPage, Advance, FailClosed, FetchPageFails,
       PullPage, EndOfPages, FinishPages, CursorOf, PageValues

LEMMA InitInv == Init => Inv
<1>1. TokenInit => TokenType /\ TokenIsHeard
  BY DEF TokenInit, TokenType, TokenIsHeard
<1>2. PagesInit => PagesType
  BY DEF PagesInit, PagesType
<1> QED
  BY <1>1, <1>2, DispatchInitInv, PollInitInv DEF Init, Inv, PollInit

LEMMA DispatchUnchanged == DispatchInv /\ UNCHANGED dispatchVars => DispatchInv'
BY DEF dispatchVars, DispatchInv, DispatchType, DispatchTimes, DispatchStages,
       AnswerIsNext, AnswerIsKept, PeerIsTold

LEMMA PollUnchanged ==
  PollInv /\ UNCHANGED pollVars /\ (p_pc = "top" \/ UNCHANGED waiter) => PollInv'
BY DEF pollVars, PollInv, PollType, PollTimes, TokenIsWatched, Waiting

LEMMA StepInv == Inv /\ [Next]_vars => Inv'
<1> SUFFICES ASSUME Inv, [Next]_vars PROVE Inv'
  OBVIOUS
<1> USE DEF Inv
<1>1. CASE PollAction(PollNext)
  <2>1. DispatchInv' /\ PagesType' /\ task' = task
    BY <1>1, DispatchUnchanged DEF PollAction, pageVars, PagesType
  <2> QED
    BY <1>1, <2>1, PollTypeStep, PollTokenStep DEF PollAction, PollInv
<1>2. CASE DispatchAction(DispatchNext)
  <2>1. PollInv' /\ PagesType' /\ task' = task
    BY <1>2, PollUnchanged DEF DispatchAction, pageVars, PagesType
  <2>2. DispatchInv'
    BY <1>2, DispatchTypeStep, DispatchTimesStep, DispatchStagesStep, AnswerStep
       DEF DispatchAction, DispatchInv
  <2> QED
    BY <1>2, <2>1, <2>2, DispatchTypeStep, DispatchTokenStep
       DEF DispatchAction, pollVars
<1>3. CASE PagesAction(PagesNext)
  <2>1. TokenType' /\ TokenIsHeard' /\ task' = task
    BY <1>3 DEF PagesAction, tokenVars, TokenType, TokenIsHeard
  <2> QED
    BY <1>3, <2>1, DispatchUnchanged, PollUnchanged, PagesTypeStep
       DEF PagesAction, tokenVars, pollVars
<1>4. CASE UNCHANGED vars
  <2>1. TokenType' /\ TokenIsHeard' /\ task' = task /\ PagesType'
    BY <1>4 DEF vars, tokenVars, TokenType, TokenIsHeard, pageVars, PagesType
  <2> QED
    BY <1>4, <2>1, DispatchUnchanged, PollUnchanged DEF vars, tokenVars, pollVars
<1> QED
  BY <1>1, <1>2, <1>3, <1>4 DEF Next

----------------------------------------------------------------------------
\* The invariant holds in every reachable state.
THEOREM Invariance == Spec => []Inv
<1> QED
  BY InitInv, StepInv, PTL DEF Spec

\* Every reachable state of the three tasks is well typed; in particular the
\* clocks of a poll and of a dispatch stay within their bounds.
THEOREM TypeCorrect == Spec => []TypeOK
<1>1. Inv => TypeOK
  BY DEF Inv, DispatchInv, PollInv, TypeOK
<1> QED
  BY <1>1, Invariance, PTL

\* For every timeout and every CANCEL_DELIVERY_TIMEOUT, an operation of the
\* bridge returns by its deadline or by the end of the bounded notification.
THEOREM DispatchIsTimely == Spec => []DispatchReturnsInTime
<1>1. Inv => DispatchReturnsInTime
  BY DEF Inv, DispatchInv, DispatchType, DispatchTimes, DispatchReturnsInTime, NoLimit
<1> QED
  BY <1>1, Invariance, PTL

\* An answer that was there first is what call_cancellable() returns, whatever
\* the cancellation and the timer do before the task is polled.
THEOREM AnswersAreKept == Spec => []AnswerIsKept
<1>1. Inv => AnswerIsKept
  BY DEF Inv, DispatchInv
<1> QED
  BY <1>1, Invariance, PTL

\* The peer is notified of exactly the tool calls that it was sent and that
\* call_cancellable() gave up.
THEOREM PeersAreTold == Spec => []PeerIsTold
<1>1. Inv => PeerIsTold
  BY DEF Inv, DispatchInv
<1> QED
  BY <1>1, Invariance, PTL

\* For every budget, interval, hint and fallback, what poll_until() waits for
\* ends by the deadline.
THEOREM PollIsBounded == Spec => []PollKeepsDeadline
<1>1. Inv => PollKeepsDeadline
  BY DEF Inv, PollInv, PollTimes, PollKeepsDeadline
<1> QED
  BY <1>1, Invariance, PTL

\* No wakeup of a poll is lost: once cancel() has returned no time passes in
\* poll_until(), because the future of cancelled() that it left behind has been
\* woken.
THEOREM CancelIsHeard == Spec => CancelIsPrompt
<1>1. Inv /\ [Next]_vars =>
        [canceller = "done" /\ cancellable => spent' = spent]_<<pollVars, tokenVars>>
  <2> SUFFICES ASSUME Inv, [Next]_vars, canceller = "done", cancellable
               PROVE  spent' = spent
    OBVIOUS
  <2>1. ~PollTime
    <3>1. waiter = "woken" \/ ~Waiting \/ order # "parked"
      BY DEF Inv, TokenIsHeard, PollInv, TokenIsWatched
    <3> QED
      BY <3>1 DEF PollTime
  <2>2. CASE PollAction(PollNext)
    BY <2>1, <2>2 DEF PollAction, PollNext, PollStep, PollTop, PollWake, PollTokenBranch,
      PollPending, PollCancelled, FetchEnds, SleepEnds, Reply, PollCancel, pollVars
  <2>3. CASE ~PollAction(PollNext)
    BY <2>3 DEF Next, DispatchAction, PagesAction, pollVars, vars
  <2> QED
    BY <2>2, <2>3
<1> QED
  BY <1>1, Invariance, PTL DEF Spec, CancelIsPrompt
=============================================================================
