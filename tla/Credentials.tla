---------------------------- MODULE Credentials ----------------------------
(***************************************************************************)
(* What a client with renewable credentials runs: its token manager, which *)
(* is that of workload identity (WorkloadIdentity) or that of X.509        *)
(* (X509Tokens), or the time of one request of the X.509 lane              *)
(* (X509Request).  A behaviour is one of the three; the state of the       *)
(* others stays as it is.                                                  *)
(***************************************************************************)
EXTENDS WorkloadIdentity, X509Request

CONSTANT MaxAttempt

VARIABLES
  part,    \* "workload", "x509" or "lane"
  due, expired, next_attempt, active_attempt, completed_attempt,
  x_cached, x_generation, x_task, x_pc, x_waiting, x_lease, x_rejected,
  x_installed, x_revoked

x509Vars == <<due, expired, next_attempt, active_attempt, completed_attempt,
              x_cached, x_generation, x_task, x_pc, x_waiting, x_lease, x_rejected,
              x_installed, x_revoked>>
allVars == <<part, vars, x509Vars, laneVars>>

X509 == INSTANCE X509Tokens
  WITH cached <- x_cached, generation <- x_generation, task <- x_task, pc <- x_pc,
       waiting <- x_waiting, lease <- x_lease, rejected <- x_rejected,
       installed <- x_installed, revoked <- x_revoked

CredentialsInit ==
  /\ part \in {"workload", "x509", "lane"}
  /\ Init /\ X509!Init /\ LaneInit

WorkloadAction(A) == part = "workload" /\ A /\ UNCHANGED <<part, x509Vars, laneVars>>

X509Action(A) == part = "x509" /\ A /\ UNCHANGED <<part, vars, laneVars>>

LaneAction(A) == part = "lane" /\ A /\ UNCHANGED <<part, vars, x509Vars>>

CredentialsNext ==
  \/ WorkloadAction(Next)
  \/ X509Action(X509!Next)
  \/ LaneAction(LaneNext)

\* The fairness of each part: woken callers and spawned tasks are polled, and
\* timers fire.
CredentialsFairness ==
  /\ \A r \in Ids : WF_allVars(WorkloadAction(TaskStep(r)))
  /\ \A a \in X509!Attempts : WF_allVars(X509Action(X509!TaskStep(a)))
  /\ \A c \in Callers :
       /\ WF_allVars(WorkloadAction(CallerStep(c)))
       /\ WF_allVars(X509Action(X509!CallerStep(c)))
  /\ WF_allVars(LaneAction(Step))

CredentialsSpec ==
  CredentialsInit /\ [][CredentialsNext]_allVars /\ CredentialsFairness

----------------------------------------------------------------------------
\* A caller c is parked on a refresh or waits for an attempt, or the loop of
\* execute_json() is under way.
Waits(c) ==
  \/ pc[c] = "parked"
  \/ x_waiting[c] # 0
  \/ part = "lane" /\ lane_pc # "done"

\* Nobody waits for ever: whichever other callers are cancelled and whatever the
\* exchange returns, a waiting caller is woken and served, and execute_json(),
\* whose loop a 401 restarts, returns.
CallersAreServed == \A c \in Callers : Waits(c) ~> ~Waits(c)
=============================================================================
