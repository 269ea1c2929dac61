-------------------------------- MODULE Tasks --------------------------------
(***************************************************************************)
(* One task of the application: a poll of a resource or an operation of    *)
(* the MCP bridge, which wait under a cancellation token, or the traversal *)
(* of the pages of a collection.                                           *)
(***************************************************************************)
EXTENDS Poll, Dispatch, Pages

VARIABLE task   \* "poll", "dispatch" or "pages"

vars == <<task, tokenVars, pollVars, dispatchVars, pageVars>>

TypeOK ==
  /\ task \in {"poll", "dispatch", "pages"}
  /\ TokenType /\ PollType /\ DispatchType /\ PagesType

Init ==
  /\ task \in {"poll", "dispatch", "pages"}
  /\ TokenInit
  /\ PollInit /\ DispatchInit /\ PagesInit
  \* The variables of the other tasks are fixed.
  /\ task # "dispatch" => op = "call" /\ limit = 0 /\ token = FALSE /\ permit = FALSE
  /\ task # "poll" => interval = 0 /\ cancellable = FALSE
  /\ task # "pages" => after = NoCursor

PollAction(A) == task = "poll" /\ A /\ UNCHANGED <<task, dispatchVars, pageVars>>

DispatchAction(A) == task = "dispatch" /\ A /\ UNCHANGED <<task, pollVars, pageVars>>

PagesAction(A) ==
  task = "pages" /\ A /\ UNCHANGED <<task, tokenVars, pollVars, dispatchVars>>

Next == PollAction(PollNext) \/ DispatchAction(DispatchNext) \/ PagesAction(PagesNext)

\* A task that is runnable is polled, cancel() runs to its end, time passes, the
\* delivery of a notification is bounded by its timer, a request of the
\* transport ends (Transport!Terminates) and the application reads its stream.
Fairness ==
  /\ WF_vars(PollAction(PollStep)) /\ WF_vars(DispatchAction(DispatchStep))
  /\ WF_vars(PollAction(PollTime)) /\ WF_vars(DispatchAction(DispatchTime))
  /\ WF_vars(PollAction(CancelNotify /\ UNCHANGED pollVars))
  /\ WF_vars(DispatchAction(CancelNotify /\ UNCHANGED dispatchVars))
  /\ WF_vars(PagesAction(PagesNext))

Spec == Init /\ [][Next]_vars /\ Fairness

----------------------------------------------------------------------------
\* Every task returns: a poll, even when the resource never becomes terminal
\* and every hint is zero; a dispatch that is cancelled, even one without a
\* deadline (the cancellation is not lost between the check of the flag and
\* the wait); a traversal, whatever cursors the server names.
TasksReturn ==
  /\ task = "poll" ~> p_pc = "done"
  /\ canceller = "done" /\ token ~> d_pc = "done"
  /\ task = "pages" ~> g_pc = "done"
=============================================================================
