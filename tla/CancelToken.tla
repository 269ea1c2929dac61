---------------------------- MODULE CancelToken ----------------------------
(***************************************************************************)
(* The cancellation tokens of the polling helpers and of the MCP bridge: a *)
(* flag and a tokio Notify.  cancel() sets the flag and then wakes the     *)
(* waiters; cancelled() registers and then reads the flag.  Both run on    *)
(* threads of their own, so every one of these steps is an action.         *)
(***************************************************************************)
VARIABLES
  flag,        \* cancelled
  canceller,   \* the first call of cancel(): "idle", "set" or "done"
  waiter       \* the future of cancelled(): "none", "new" (registered, flag not
               \* read), "parked" or "woken" (ready)

tokenVars == <<flag, canceller, waiter>>

TokenType ==
  /\ flag \in BOOLEAN
  /\ canceller \in {"idle", "set", "done"}
  /\ waiter \in {"none", "new", "parked", "woken"}

TokenInit == flag = FALSE /\ canceller = "idle" /\ waiter = "none"

\* cancel(): the swap of the flag; a second call does nothing more.
CancelSet ==
  /\ canceller = "idle"
  /\ canceller' = "set"
  /\ flag' = TRUE
  /\ UNCHANGED waiter

\* cancel(): notify_waiters() reaches the futures that exist, not later ones.
CancelNotify ==
  /\ canceller = "set"
  /\ canceller' = "done"
  /\ waiter' = IF waiter = "none" THEN "none" ELSE "woken"
  /\ UNCHANGED flag

\* cancelled(): notified() is created.
WaitBegin ==
  /\ waiter = "none"
  /\ waiter' = "new"
  /\ UNCHANGED <<flag, canceller>>

\* Mutant: the flag is not read after the registration.
WaitCheckUnread ==
  /\ waiter = "new"
  /\ waiter' = "parked"
  /\ UNCHANGED <<flag, canceller>>

\* cancelled(): the flag is read after that.
WaitCheck ==
  /\ waiter = "new"
  /\ waiter' = IF flag THEN "woken" ELSE "parked"
  /\ UNCHANGED <<flag, canceller>>

\* The future of cancelled() is dropped with its select.
WaitDropped == waiter' = "none" /\ UNCHANGED <<flag, canceller>>

Cancelling == CancelSet \/ CancelNotify
=============================================================================
