----------------------------- MODULE LeaseCache -----------------------------
(***************************************************************************)
(* What a shared token cache promises to the requests that use it, for     *)
(* either of the two token managers of the client crate                    *)
(* (WorkloadIdentityAuth and X509TokenManager).  Tokens are named by their *)
(* generation; 0 is no token.                                              *)
(*                                                                         *)
(* A token is installed at most once and never after a newer one, a lease  *)
(* is a copy of the token that is installed at that moment, and a token    *)
(* that was revoked because a server answered 401 is never leased again.   *)
(***************************************************************************)
EXTENDS Naturals

CONSTANTS
  Callers,   \* the requests
  Tokens     \* token generations, positive numbers

VARIABLES
  current,   \* the installed token, or 0
  installed, \* every token that was ever installed
  revoked,   \* the tokens that were revoked
  lease      \* the token each caller holds, or 0

vars == <<current, installed, revoked, lease>>

Init ==
  /\ current = 0
  /\ installed = {}
  /\ revoked = {}
  /\ lease = [c \in Callers |-> 0]

Install(g) ==
  /\ \A h \in installed : g > h
  /\ current' = g
  /\ installed' = installed \cup {g}
  /\ UNCHANGED <<revoked, lease>>

\* Only a caller that holds the installed token can revoke it.
Revoke(c) ==
  /\ current # 0
  /\ lease[c] = current
  /\ current' = 0
  /\ revoked' = revoked \cup {current}
  /\ lease' = [lease EXCEPT ![c] = 0]
  /\ UNCHANGED installed

\* The cache may forget its token, for instance because it expired.
Discard ==
  /\ current' = 0
  /\ UNCHANGED <<installed, revoked, lease>>

Grant(c) ==
  /\ current # 0
  /\ lease' = [lease EXCEPT ![c] = current]
  /\ UNCHANGED <<current, installed, revoked>>

Release(c) ==
  /\ lease' = [lease EXCEPT ![c] = 0]
  /\ UNCHANGED <<current, installed, revoked>>

Next ==
  \/ \E g \in Tokens : Install(g)
  \/ Discard
  \/ \E c \in Callers : Grant(c) \/ Release(c) \/ Revoke(c)

Spec == Init /\ [][Next]_vars
=============================================================================
