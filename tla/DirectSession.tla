--------------------------- MODULE DirectSession ---------------------------
(***************************************************************************)
(* The ChatGPT session of the direct Codex client: the TokenManager of     *)
(* each process, the credential store the processes share, the login flows *)
(* that fill the store, and the requests that spend the session.           *)
(*                                                                         *)
(* A refresh is three awaits under the refresh gate of one process: the    *)
(* authorization server answers (and may rotate the refresh token), the    *)
(* store saves, the cache is written.  A future may be dropped at each of  *)
(* them and a process may die; the blocking thread of a KeyringStore save  *)
(* outlives the future that awaited it.  Nothing but the store is shared   *)
(* between processes.                                                      *)
(***************************************************************************)
EXTENDS Naturals, FiniteSets

CONSTANTS
  Procs,      \* processes, each with one TokenManager
  Callers,    \* requests in flight: DirectResponses::create or stream
  MaxIssued   \* bound on the sessions the authorization server issues

ASSUME DirectSessionAssumption == MaxIssued \in Nat \ {0}

VARIABLES
  home,       \* the process of each caller, fixed from the start
  pc,         \* where each caller is
  mode,       \* "session" or "unauthorized": which call of the manager
  sess,       \* the session the caller sent its request with
  work,       \* the session the manager call is working on or returned
  cached,     \* TokenManager.cached, per process
  store,      \* the credential store
  late,       \* saves left behind by dropped futures
  login,      \* the login flow and the session it is about to save
  issued,     \* number of sessions issued by the authorization server
  live,       \* the refresh tokens the authorization server accepts
  expired,    \* sessions (by id) within REFRESH_SKEW of their expiry
  saved,      \* history: every session that reached the store
  lost        \* history: a rotated refresh token may have been lost

vars == <<home, pc, mode, sess, work, cached, store, late, login, issued, live,
          expired, saved, lost>>

callerVars == <<home, pc, mode, sess, work>>
serverVars == <<issued, live>>

Ids == 0..MaxIssued

\* StoredCodexSession: access token and expiry are named by id.
Sessions == [id : Ids, rt : Ids, gen : Ids]

\* None, of an Option<StoredCodexSession>.
NoSession == [id |-> 0, rt |-> 0, gen |-> 0]

\* The flow and its session; a session of an idle or waiting flow is none.
Logins == [state : {"idle", "waiting", "saving"}, session : Sessions]

NoLogin == [state |-> "idle", session |-> NoSession]

TypeOK ==
  /\ home \in [Callers -> Procs]
  /\ pc \in [Callers -> {"idle", "gate", "load", "refresh", "save", "cache",
                         "send", "resend"}]
  /\ mode \in [Callers -> {"session", "unauthorized"}]
  /\ sess \in [Callers -> Sessions]
  /\ work \in [Callers -> Sessions]
  /\ cached \in [Procs -> Sessions]
  /\ store \in Sessions
  /\ late \subseteq (Procs \X Sessions)
  /\ login \in Logins
  /\ issued \in Ids
  /\ live \subseteq Ids
  /\ expired \subseteq Ids
  /\ saved \subseteq Sessions
  /\ lost \in BOOLEAN

\* The session a new process finds: none, or one a login left there.
FirstSession == [id |-> 1, rt |-> 1, gen |-> 0]

Init ==
  /\ home \in [Callers -> Procs]
  /\ pc = [c \in Callers |-> "idle"]
  /\ mode = [c \in Callers |-> "session"]
  /\ sess = [c \in Callers |-> NoSession]
  /\ work = [c \in Callers |-> NoSession]
  /\ cached = [p \in Procs |-> NoSession]
  /\ late = {}
  /\ login = NoLogin
  /\ issued = 1
  /\ live = {1}
  /\ store \in {NoSession, FirstSession}
  /\ saved = {store} \ {NoSession}
  /\ expired \in {{}, {1}}
  /\ lost = FALSE

----------------------------------------------------------------------------
\* expires_at > now + REFRESH_SKEW
Usable(s) == s # NoSession /\ s.id \notin expired

GateHolder(c) == pc[c] \in {"load", "refresh", "save", "cache"}

\* Mutant: the refresh gate is not taken.
GateIsIgnored(p) == TRUE

GateIsFree(p) == \A c \in Callers : home[c] = p => ~GateHolder(c)

\* The manager call returns s to the request, which sends (or sends again).
Return(c, s) ==
  /\ work' = [work EXCEPT ![c] = s]
  /\ sess' = [sess EXCEPT ![c] = IF mode[c] = "session" THEN s ELSE @]
  /\ pc' = [pc EXCEPT ![c] = IF mode[c] = "session" THEN "send" ELSE "resend"]
  /\ UNCHANGED <<home, mode>>

\* The manager call returns an error and so does the request.
Fail(c) ==
  /\ pc' = [pc EXCEPT ![c] = "idle"]
  /\ mode' = [mode EXCEPT ![c] = "session"]
  /\ sess' = [sess EXCEPT ![c] = NoSession]
  /\ work' = [work EXCEPT ![c] = NoSession]
  /\ UNCHANGED home

GoOn(c, next, s) ==
  /\ pc' = [pc EXCEPT ![c] = next]
  /\ work' = [work EXCEPT ![c] = s]
  /\ UNCHANGED <<home, mode, sess>>

----------------------------------------------------------------------------
\* session(): the read of the cache before the gate.
Begin(c) ==
  /\ pc[c] = "idle"
  /\ IF Usable(cached[home[c]])
     THEN Return(c, cached[home[c]])
     ELSE GoOn(c, "gate", NoSession)
  /\ UNCHANGED <<cached, store, late, login, serverVars, expired, saved, lost>>

\* session(): the gate is held and the cache, which only a holder of the gate
\* writes, is read again.
LockSession(c) ==
  /\ pc[c] = "gate" /\ mode[c] = "session"
  /\ GateIsFree(home[c])
  /\ LET s == cached[home[c]] IN
       \/ s = NoSession /\ GoOn(c, "load", NoSession)
       \/ Usable(s) /\ Return(c, s)
       \/ s # NoSession /\ ~Usable(s) /\ GoOn(c, "refresh", s)
  /\ UNCHANGED <<cached, store, late, login, serverVars, expired, saved, lost>>

\* Mutant: the cached session is returned whatever its generation.
LockUnauthorizedStale(c) ==
  /\ pc[c] = "gate" /\ mode[c] = "unauthorized"
  /\ GateIsFree(home[c])
  /\ LET s == cached[home[c]] IN
       IF s # NoSession THEN Return(c, s) ELSE GoOn(c, "load", NoSession)
  /\ UNCHANGED <<cached, store, late, login, serverVars, expired, saved, lost>>

\* refresh_after_unauthorized(): another caller may have replaced the session
\* that was rejected.
LockUnauthorized(c) ==
  /\ pc[c] = "gate" /\ mode[c] = "unauthorized"
  /\ GateIsFree(home[c])
  /\ LET s == cached[home[c]] IN
       IF s # NoSession /\ s.gen # sess[c].gen
       THEN Return(c, s)
       ELSE GoOn(c, "load", NoSession)
  /\ UNCHANGED <<cached, store, late, login, serverVars, expired, saved, lost>>

\* The stored session needs no refresh in this call.
Adoptable(c) ==
  IF mode[c] = "session" THEN Usable(store) ELSE store.gen # sess[c].gen

\* store.load(): none is ReauthenticationRequired.
Load(c) ==
  /\ pc[c] = "load"
  /\ \/ store = NoSession /\ Fail(c) /\ UNCHANGED cached
     \/ /\ store # NoSession /\ Adoptable(c)
        /\ cached' = [cached EXCEPT ![home[c]] = store]
        /\ Return(c, store)
     \/ /\ store # NoSession /\ ~Adoptable(c)
        /\ GoOn(c, "refresh", store)
        /\ UNCHANGED cached
  /\ UNCHANGED <<store, late, login, serverVars, expired, saved, lost>>

\* store.load() fails, or the refresh request before it reaches the server.
StepFails(c) ==
  /\ pc[c] \in {"load", "refresh"}
  /\ Fail(c)
  /\ UNCHANGED <<cached, store, late, login, serverVars, expired, saved, lost>>

----------------------------------------------------------------------------
\* The authorization server answers a refresh; it may send a new refresh token
\* and then no longer accepts the old one.
Issue == issued < MaxIssued /\ issued' = issued + 1

Refreshed(s, rotate) ==
  [id |-> issued + 1,
   rt |-> IF rotate THEN issued + 1 ELSE s.rt,
   gen |-> s.gen + 1]

Rotate(old, new) == live' = (live \ {old.rt}) \cup {new.rt}

\* Another process holds a refreshed session it has not saved yet.
Overlap(c) == \E d \in Callers : home[d] # home[c] /\ pc[d] = "save"

\* DirectAuthClient::refresh() succeeds.
RefreshOk(c, rotate) ==
  /\ pc[c] = "refresh" /\ work[c].rt \in live
  /\ LET s == Refreshed(work[c], rotate) IN
       /\ s \in Sessions
       /\ Issue /\ Rotate(work[c], s)
       /\ GoOn(c, "save", s)
  /\ lost' = (lost \/ Overlap(c))
  /\ UNCHANGED <<cached, store, late, login, expired, saved>>

\* The server refreshed, but the answer does not arrive (the timeout of the
\* HTTP client, a broken connection, a dropped future).
RefreshLost(c, rotate) ==
  /\ pc[c] = "refresh" /\ work[c].rt \in live
  /\ LET s == Refreshed(work[c], rotate) IN
       s \in Sessions /\ Issue /\ Rotate(work[c], s)
  /\ lost' = TRUE
  /\ Fail(c)
  /\ UNCHANGED <<cached, store, late, login, expired, saved>>

\* The server does not know the refresh token any more.
RefreshRefused(c) ==
  /\ pc[c] = "refresh" /\ work[c].rt \notin live
  /\ Fail(c)
  /\ UNCHANGED <<cached, store, late, login, serverVars, expired, saved, lost>>

\* store.save()
Save(c) ==
  /\ pc[c] = "save"
  /\ store' = work[c]
  /\ saved' = saved \cup {work[c]}
  /\ GoOn(c, "cache", work[c])
  /\ UNCHANGED <<cached, late, login, serverVars, expired, lost>>

\* store.save() fails: the refreshed session is dropped with the error.
SaveFails(c) ==
  /\ pc[c] = "save"
  /\ lost' = TRUE
  /\ Fail(c)
  /\ UNCHANGED <<cached, store, late, login, serverVars, expired, saved>>

\* Mutant: the cache is written before the store.
PublishUnsaved(c) ==
  /\ pc[c] \in {"save", "cache"}
  /\ cached' = [cached EXCEPT ![home[c]] = work[c]]
  /\ Return(c, work[c])
  /\ UNCHANGED <<store, late, login, serverVars, expired, saved, lost>>

\* The cache is written and the gate released.
Publish(c) ==
  /\ pc[c] = "cache"
  /\ cached' = [cached EXCEPT ![home[c]] = work[c]]
  /\ Return(c, work[c])
  /\ UNCHANGED <<store, late, login, serverVars, expired, saved, lost>>

----------------------------------------------------------------------------
\* The request is answered, or fails in a way that is not 401.
Answered(c) ==
  /\ pc[c] \in {"send", "resend"}
  /\ Fail(c)
  /\ UNCHANGED <<cached, store, late, login, serverVars, expired, saved, lost>>

\* A 401 to the first attempt; that of the second one is an answer.
Unauthorized(c) ==
  /\ pc[c] = "send"
  /\ pc' = [pc EXCEPT ![c] = "gate"]
  /\ mode' = [mode EXCEPT ![c] = "unauthorized"]
  /\ work' = [work EXCEPT ![c] = NoSession]
  /\ UNCHANGED <<home, sess, cached, store, late, login, serverVars,
                 expired, saved, lost>>

\* The caller drops its future.  The gate is free again; a keyring save that
\* has started goes on in its blocking thread.
Drop(c) ==
  /\ pc[c] # "idle"
  /\ \/ UNCHANGED late
     \/ pc[c] = "save" /\ late' = late \cup {<<home[c], work[c]>>}
  /\ lost' = (lost \/ pc[c] = "save")
  /\ Fail(c)
  /\ UNCHANGED <<cached, store, login, serverVars, expired, saved>>

LateSave(l) ==
  /\ l \in late
  /\ store' = l[2]
  /\ saved' = saved \cup {l[2]}
  /\ late' = late \ {l}
  /\ UNCHANGED <<callerVars, cached, login, serverVars, expired, lost>>

\* The process dies with its cache, its callers and its blocking threads.
Crash(p) ==
  LET dead(c) == home[c] = p
      wipe(f, v) == [c \in Callers |-> IF dead(c) THEN v ELSE f[c]] IN
  /\ pc' = wipe(pc, "idle")
  /\ mode' = wipe(mode, "session")
  /\ sess' = wipe(sess, NoSession)
  /\ work' = wipe(work, NoSession)
  /\ cached' = [cached EXCEPT ![p] = NoSession]
  /\ late' = {l \in late : l[1] # p}
  /\ lost' = (lost \/ \E c \in Callers : dead(c) /\ pc[c] = "save")
  /\ UNCHANGED <<home, store, login, serverVars, expired, saved>>

\* Time passes.
Expire(i) ==
  /\ i \in 1..issued /\ i \notin expired
  /\ expired' = expired \cup {i}
  /\ UNCHANGED <<callerVars, cached, store, late, login, serverVars, saved, lost>>

----------------------------------------------------------------------------
\* begin_browser_login() or begin_device_login(), and complete(): the wait for
\* the callback or for the approval of the device code.
LoginBegin ==
  /\ login.state = "idle"
  /\ login' = [state |-> "waiting", session |-> NoSession]
  /\ UNCHANGED <<callerVars, cached, store, late, serverVars, expired, saved, lost>>

\* The code is exchanged and the id token verified.
LoginGranted ==
  /\ login.state = "waiting"
  /\ LET s == [id |-> issued + 1, rt |-> issued + 1, gen |-> 0] IN
       /\ Issue
       /\ live' = live \cup {s.rt}
       /\ login' = [state |-> "saving", session |-> s]
  /\ UNCHANGED <<callerVars, cached, store, late, expired, saved, lost>>

LoginSave ==
  /\ login.state = "saving"
  /\ store' = login.session
  /\ saved' = saved \cup {login.session}
  /\ login' = NoLogin
  /\ UNCHANGED <<callerVars, cached, late, serverVars, expired, lost>>

\* Cancelled, timed out or failed.  The timer and the cancellation of a
\* browser login enclose the save, those of a device login end with the poll;
\* the save of either may fail.
LoginEnds ==
  /\ login.state # "idle"
  /\ login' = NoLogin
  /\ UNCHANGED <<callerVars, cached, store, late, serverVars, expired, saved, lost>>

\* CredentialStore::delete(), called by the application.
Logout ==
  /\ store # NoSession
  /\ store' = NoSession
  /\ UNCHANGED <<callerVars, cached, late, login, serverVars, expired, saved, lost>>

----------------------------------------------------------------------------
\* A step of the manager call or of the request of c.
Progress(c) ==
  \/ Load(c) \/ StepFails(c) \/ RefreshRefused(c)
  \/ \E rotate \in BOOLEAN : RefreshOk(c, rotate) \/ RefreshLost(c, rotate)
  \/ Save(c) \/ SaveFails(c) \/ Publish(c)
  \/ Answered(c) \/ Unauthorized(c)

Lock(c) == LockSession(c) \/ LockUnauthorized(c)

Environment ==
  \/ \E c \in Callers : Begin(c) \/ Drop(c)
  \/ \E l \in late : LateSave(l)
  \/ \E p \in Procs : Crash(p)
  \/ \E i \in Ids : Expire(i)
  \/ LoginBegin \/ LoginGranted \/ LoginSave \/ LoginEnds
  \/ Logout

Next ==
  \/ \E c \in Callers : Progress(c) \/ Lock(c)
  \/ Environment

Spec == Init /\ [][Next]_vars

----------------------------------------------------------------------------
\* The second attempt of a request is never sent with the session the server
\* has just rejected, whichever caller, process or login replaced it.
ReplayUsesOtherSession ==
  \A c \in Callers : pc[c] = "resend" => work[c].id # sess[c].id

\* A session is in the store before a request is sent with it or another
\* caller can see it: a process that dies later does not take with it the only
\* copy of a refresh token it has used.
UsedIsDurable ==
  /\ \A c \in Callers : pc[c] \in {"send", "resend"} => work[c] \in saved
  /\ \A p \in Procs : cached[p] # NoSession => cached[p] \in saved

\* Rotation loses no session: unless a refreshed session was dropped before
\* its save (a crash, a dropped future, a failed save, a lost answer) or two
\* processes were refreshing at once, the stored refresh token is accepted by
\* the server, or the caller that replaced it is about to save its successor.
StoreIsLive ==
  ~lost /\ store # NoSession =>
    \/ store.rt \in live
    \/ \E c \in Callers : pc[c] = "save" /\ work[c].rt \in live
=============================================================================
