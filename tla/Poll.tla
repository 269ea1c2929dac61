-------------------------------- MODULE Poll --------------------------------
(***************************************************************************)
(* poll_until(): a resource is retrieved again and again until its status  *)
(* is terminal, the deadline has passed or the caller cancels.  The pause  *)
(* is a pinned interval, the hint of the response or the fallback, clamped *)
(* to the time that is left.                                               *)
(*                                                                         *)
(* Its two select! statements poll their branches in a random order.       *)
(***************************************************************************)
EXTENDS CancelToken, Naturals

CONSTANTS
  Budget,      \* timeout
  Intervals,   \* the configured interval, 0 for an unpinned poller
  Hints,       \* the openai-poll-after-ms hints of responses
  Fallback,    \* fallback_interval
  RoundTrip    \* the least time a retrieval takes

ASSUME PollAssumption ==
  /\ Budget \in Nat \ {0} /\ Fallback \in Nat \ {0} /\ RoundTrip \in Nat \ {0}
  /\ Intervals \subseteq Nat /\ Hints \subseteq Nat

VARIABLES
  interval,    \* the pinned interval; 0 is None
  cancellable, \* a token was given
  p_pc,        \* "top", "fetch", "sleep" or "done"
  order,       \* of the branches of this poll: which one is next, or "parked"
  spent,       \* started.elapsed()
  since,       \* since the retrieval or the sleep was started
  allotted,    \* remaining, or the delay
  reply,       \* the answer to the retrieval that has arrived
  hint,        \* its hint, as a set of at most one
  p_outcome

pollVars == <<interval, cancellable, p_pc, order, spent, since, allotted, reply,
              hint, p_outcome>>

Replies == {"none", "error", "terminal", "running"}

PollType ==
  /\ interval \in Intervals /\ cancellable \in BOOLEAN
  /\ p_pc \in {"top", "fetch", "sleep", "done"}
  /\ order \in {"token_work", "work_token", "token", "work", "parked"}
  /\ spent \in 0..Budget /\ since \in 0..Budget /\ allotted \in 0..Budget
  /\ reply \in Replies /\ hint \subseteq Hints
  /\ p_outcome \in {"none", "ok", "client", "deadline", "cancelled"}

PollInit ==
  /\ interval \in Intervals
  /\ cancellable \in BOOLEAN
  /\ p_pc = "top" /\ order = "parked"
  /\ spent = 0 /\ since = 0 /\ allotted = 0
  /\ reply = "none" /\ hint = {}
  /\ p_outcome = "none"

----------------------------------------------------------------------------
Remaining == Budget - spent

FinishPoll(result) ==
  /\ p_pc' = "done" /\ p_outcome' = result
  /\ order' = "parked" /\ waiter' = "none"
  /\ since' = 0 /\ allotted' = 0 /\ reply' = "none" /\ hint' = {}

\* A select! is entered: both branches are polled, in some order.
EnterSelect ==
  IF cancellable THEN order' \in {"token_work", "work_token"} ELSE order' = "work"

\* The top of the loop: the token, then the deadline, then the retrieval.
PollTop ==
  /\ p_pc = "top"
  /\ \/ /\ cancellable /\ flag
        /\ FinishPoll("cancelled")
     \/ /\ ~(cancellable /\ flag) /\ Remaining = 0
        /\ FinishPoll("deadline")
     \/ /\ ~(cancellable /\ flag) /\ Remaining > 0
        /\ p_pc' = "fetch"
        /\ since' = 0 /\ allotted' = Remaining /\ reply' = "none"
        /\ EnterSelect
        /\ UNCHANGED <<p_outcome, hint, waiter>>
  /\ UNCHANGED <<interval, cancellable, spent, flag, canceller>>

Waiting == p_pc \in {"fetch", "sleep"}

Elapsed == since >= allotted

WorkIsReady == Elapsed \/ (p_pc = "fetch" /\ reply # "none")

AtToken == order \in {"token_work", "token"}
AtWork == order \in {"work_token", "work"}

\* The branch that is polled is not ready.
After(o) ==
  CASE o = "token_work" -> "work"
    [] o = "work_token" -> "token"
    [] OTHER -> "parked"

PollWake ==
  /\ Waiting /\ order = "parked"
  /\ WorkIsReady \/ waiter = "woken"
  /\ EnterSelect
  /\ UNCHANGED <<interval, cancellable, p_pc, spent, since, allotted, reply,
                 hint, p_outcome, tokenVars>>

PollTokenBranch ==
  /\ Waiting /\ AtToken
  /\ WaitBegin \/ WaitCheck
  /\ UNCHANGED pollVars

PollPending ==
  /\ Waiting /\ order # "parked"
  /\ AtToken => waiter = "parked"
  /\ AtWork => ~WorkIsReady
  /\ order' = After(order)
  /\ UNCHANGED <<interval, cancellable, p_pc, spent, since, allotted, reply,
                 hint, p_outcome, tokenVars>>

PollCancelled ==
  /\ Waiting /\ AtToken /\ waiter = "woken"
  /\ FinishPoll("cancelled")
  /\ UNCHANGED <<interval, cancellable, spent, flag, canceller>>

\* Mutant: the pause is not clamped to the time that is left.
DelayUnclamped ==
  IF interval # 0 THEN interval
  ELSE IF hint # {} THEN CHOOSE h \in hint : TRUE ELSE Fallback

\* The pause after a response that is not terminal.
Delay ==
  LET wanted == IF interval # 0 THEN interval
                ELSE IF hint # {} THEN CHOOSE h \in hint : TRUE ELSE Fallback
  IN IF wanted < Remaining THEN wanted ELSE Remaining

\* The retrieval ends: timeout() prefers an answer to the elapsed time.
FetchEnds ==
  /\ p_pc = "fetch" /\ AtWork /\ WorkIsReady
  /\ \/ /\ reply = "none" /\ FinishPoll("deadline")
     \/ /\ reply = "error" /\ FinishPoll("client")
     \/ /\ reply = "terminal" /\ FinishPoll("ok")
     \/ /\ reply = "running" /\ Remaining = 0
        /\ FinishPoll("deadline")
     \/ /\ reply = "running" /\ Remaining > 0
        /\ p_pc' = "sleep" /\ since' = 0 /\ allotted' = Delay
        /\ reply' = "none" /\ hint' = {}
        /\ EnterSelect
        /\ waiter' = "none"
        /\ UNCHANGED p_outcome
  /\ UNCHANGED <<interval, cancellable, spent, flag, canceller>>

SleepEnds ==
  /\ p_pc = "sleep" /\ AtWork /\ Elapsed
  /\ p_pc' = "top" /\ order' = "parked" /\ waiter' = "none"
  /\ since' = 0 /\ allotted' = 0
  /\ UNCHANGED <<interval, cancellable, spent, reply, hint, p_outcome, flag, canceller>>

----------------------------------------------------------------------------
\* The server answers the retrieval.
Reply(r, h) ==
  /\ p_pc = "fetch" /\ reply = "none" /\ r # "none" /\ since >= RoundTrip
  /\ reply' = r
  /\ hint' = h
  /\ UNCHANGED <<interval, cancellable, p_pc, order, spent, since, allotted,
                 p_outcome, tokenVars>>

PollCancel ==
  /\ cancellable /\ p_pc # "done"
  /\ Cancelling
  /\ UNCHANGED pollVars

\* Mutant: the deadline is restarted by every retrieval.
PollTimeRestarts ==
  /\ Waiting /\ order = "parked" /\ ~WorkIsReady /\ waiter # "woken"
  /\ spent' = (IF p_pc = "sleep" THEN 0 ELSE spent + 1) /\ since' = since + 1
  /\ UNCHANGED <<interval, cancellable, p_pc, order, allotted, reply, hint, p_outcome, tokenVars>>

\* Time passes while the task is parked.
PollTime ==
  /\ Waiting /\ order = "parked" /\ ~WorkIsReady /\ waiter # "woken"
  /\ spent' = spent + 1 /\ since' = since + 1
  /\ UNCHANGED <<interval, cancellable, p_pc, order, allotted, reply, hint, p_outcome, tokenVars>>

PollStep ==
  \/ PollTop \/ PollWake \/ PollTokenBranch \/ PollPending
  \/ PollCancelled \/ FetchEnds \/ SleepEnds

PollNext ==
  \/ PollStep \/ PollTime \/ PollCancel
  \/ \E r \in Replies, h \in {{}} \cup {{n} : n \in Hints} : Reply(r, h)

----------------------------------------------------------------------------
\* No retrieval and no pause is allowed more time than the deadline leaves, so
\* that the loop never runs past it, whatever the interval and the hints.
PollKeepsDeadline == Waiting => spent - since + allotted <= Budget

\* No wakeup is lost: once cancel() has returned the task is runnable until it
\* returns, and spends no more time on its retrieval or its pause.
CancelIsPrompt ==
  [][canceller = "done" /\ cancellable => spent' = spent]_<<pollVars, tokenVars>>
=============================================================================
