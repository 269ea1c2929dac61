------------------------ MODULE DirectSessionProofs ------------------------
(***************************************************************************)
(* Proofs about DirectSession.                                             *)
(***************************************************************************)
EXTENDS DirectSession, TLAPS

USE DirectSessionAssumption

\* What the theorems need beside the properties: the gate excludes, sessions
\* are named by their ids, the generations of a refresh after a 401, and which
\* refresh tokens are accepted.
GateExcludes ==
  \A c, d \in Callers :
    c # d /\ home[c] = home[d] /\ GateHolder(c) => ~GateHolder(d)

Known ==
  saved \cup {work[c] : c \in Callers} \cup {l[2] : l \in late}
        \cup {login.session, NoSession}

IdsAreUnique ==
  /\ \A s \in Known : s.id <= issued /\ s.rt <= issued
  /\ \A s, t \in Known : s.id = t.id => s = t

SeenIsSaved ==
  /\ store \in saved \cup {NoSession}
  /\ \A p \in Procs : cached[p] \in saved \cup {NoSession}
  /\ \A c \in Callers :
       /\ sess[c] \in saved \cup {NoSession}
       /\ pc[c] \in {"refresh", "cache", "send", "resend"} => work[c] \in saved

GenerationOf(c) ==
  /\ pc[c] = "idle" => mode[c] = "session"
  /\ pc[c] = "send" => sess[c] = work[c]
  /\ pc[c] = "resend" => mode[c] = "unauthorized"
  /\ mode[c] = "unauthorized" =>
       /\ sess[c] \in saved
       /\ pc[c] = "refresh" => work[c].gen = sess[c].gen
       /\ pc[c] \in {"save", "cache"} => work[c].gen = sess[c].gen + 1
       /\ pc[c] = "resend" => work[c].gen # sess[c].gen

GenerationsFit == \A c \in Callers : GenerationOf(c)

LoginIsPrivate ==
  /\ login.state # "saving" => login.session = NoSession
  /\ login.state = "saving" =>
       /\ login.session.rt \in live /\ login.session.rt # NoSession.rt
       /\ \A s \in saved : s.rt # login.session.rt
       /\ \A c \in Callers : work[c].rt # login.session.rt
       /\ \A l \in late : l[2].rt # login.session.rt

TokensAreLive ==
  /\ late # {} => lost
  /\ ~lost => \A c \in Callers : pc[c] = "save" => work[c].rt \in live

IInv ==
  /\ TypeOK /\ GateExcludes /\ IdsAreUnique /\ SeenIsSaved
  /\ GenerationsFit /\ LoginIsPrivate /\ TokensAreLive /\ StoreIsLive


----------------------------------------------------------------------------
\* The steps of the model, one name each.
CallerStep(c) ==
  \/ Begin(c) \/ Drop(c) \/ Load(c) \/ StepFails(c) \/ RefreshRefused(c)
  \/ \E rotate \in BOOLEAN : RefreshOk(c, rotate) \/ RefreshLost(c, rotate)
  \/ Save(c) \/ SaveFails(c) \/ Publish(c) \/ Answered(c) \/ Unauthorized(c)
  \/ LockSession(c) \/ LockUnauthorized(c)

OtherStep ==
  \/ \E l \in late : LateSave(l)
  \/ \E p \in Procs : Crash(p)
  \/ \E i \in Ids : Expire(i)
  \/ LoginBegin \/ LoginGranted \/ LoginSave \/ LoginEnds \/ Logout

LEMMA StepCases == Next => (\E c \in Callers : CallerStep(c)) \/ OtherStep
BY DEF Next, Progress, Lock, Environment, CallerStep, OtherStep

----------------------------------------------------------------------------
CallersTyped ==
  /\ home \in [Callers -> Procs]
  /\ pc \in [Callers -> {"idle", "gate", "load", "refresh", "save", "cache",
                         "send", "resend"}]
  /\ mode \in [Callers -> {"session", "unauthorized"}]
  /\ sess \in [Callers -> Sessions]
  /\ work \in [Callers -> Sessions]

LEMMA NoSessionType == NoSession \in Sessions
BY DEF NoSession, Sessions, Ids

\* What the three ways to go on from a call leave of the types.
LEMMA ReturnType ==
  ASSUME CallersTyped, NEW c \in Callers, NEW s \in Sessions, Return(c, s)
  PROVE  CallersTyped'
BY DEF CallersTyped, Return

LEMMA FailType ==
  ASSUME CallersTyped, NEW c \in Callers, Fail(c)
  PROVE  CallersTyped'
BY NoSessionType DEF CallersTyped, Fail

LEMMA GoOnType ==
  ASSUME CallersTyped, NEW c \in Callers, NEW s \in Sessions,
         NEW next \in {"gate", "load", "refresh", "save", "cache"},
         GoOn(c, next, s)
  PROVE  CallersTyped'
BY DEF CallersTyped, GoOn

LEMMA TypeStep == IInv /\ [Next]_vars => TypeOK'
<1> SUFFICES ASSUME IInv, [Next]_vars PROVE TypeOK'
  OBVIOUS
<1> USE DEF IInv, TypeOK
<1>0. CASE UNCHANGED vars
  BY <1>0 DEF vars, Return, Fail, GoOn, callerVars, serverVars, Issue, Rotate, Refreshed, Adoptable, Usable, NoLogin, Logins, Sessions, NoSession, Ids
<1>1. ASSUME NEW c \in Callers, CallerStep(c) PROVE TypeOK'
  <2>1. CASE Begin(c)
    <3>1. CallersTyped
      BY DEF CallersTyped
    <3>2. cached[home[c]] \in Sessions
      OBVIOUS
    <3>3. CallersTyped'
      BY <2>1, <3>1, <3>2, NoSessionType, ReturnType, FailType, GoOnType DEF Begin
    <3> QED
      BY <2>1, <3>2, <3>3 DEF Begin, CallersTyped, serverVars
  <2>2. CASE Drop(c)
    BY <2>2 DEF Drop, Return, Fail, GoOn, callerVars, serverVars, Issue, Rotate, Refreshed, Adoptable, Usable, NoLogin, Logins, Sessions, NoSession, Ids
  <2>3. CASE Load(c)
    <3>1. CallersTyped
      BY DEF CallersTyped
    <3>2. cached[home[c]] \in Sessions
      OBVIOUS
    <3>3. CallersTyped'
      BY <2>3, <3>1, <3>2, NoSessionType, ReturnType, FailType, GoOnType DEF Load
    <3> QED
      BY <2>3, <3>2, <3>3 DEF Load, CallersTyped, serverVars
  <2>4. CASE StepFails(c)
    BY <2>4 DEF StepFails, Return, Fail, GoOn, callerVars, serverVars, Issue, Rotate, Refreshed, Adoptable, Usable, NoLogin, Logins, Sessions, NoSession, Ids
  <2>5. CASE RefreshRefused(c)
    BY <2>5 DEF RefreshRefused, Return, Fail, GoOn, callerVars, serverVars, Issue, Rotate, Refreshed, Adoptable, Usable, NoLogin, Logins, Sessions, NoSession, Ids
  <2>6. ASSUME NEW rotate \in BOOLEAN, RefreshOk(c, rotate) PROVE TypeOK'
    BY <2>6 DEF RefreshOk, Return, Fail, GoOn, callerVars, serverVars, Issue, Rotate, Refreshed, Adoptable, Usable, NoLogin, Logins, Sessions, NoSession, Ids
  <2>7. ASSUME NEW rotate \in BOOLEAN, RefreshLost(c, rotate) PROVE TypeOK'
    <3>1. CallersTyped
      BY DEF CallersTyped
    <3>2. CallersTyped'
      BY <2>7, <3>1, FailType DEF RefreshLost
    <3>3. /\ Refreshed(work[c], rotate) \in Sessions
          /\ Issue
          /\ Rotate(work[c], Refreshed(work[c], rotate))
      BY <2>7 DEF RefreshLost
    <3>5. Refreshed(work[c], rotate).rt \in Ids
      BY <3>3 DEF Sessions
    <3>6. live' \subseteq Ids
      BY <3>3, <3>5 DEF Rotate
    <3>7. issued' \in Ids
      BY <3>3 DEF Issue, Ids
    <3>4. live' \subseteq Ids /\ issued' \in Ids
      BY <3>6, <3>7
    <3> QED
      BY <2>7, <3>2, <3>4 DEF RefreshLost, CallersTyped
  <2>8. CASE Save(c)
    BY <2>8 DEF Save, Return, Fail, GoOn, callerVars, serverVars, Issue, Rotate, Refreshed, Adoptable, Usable, NoLogin, Logins, Sessions, NoSession, Ids
  <2>9. CASE SaveFails(c)
    BY <2>9 DEF SaveFails, Return, Fail, GoOn, callerVars, serverVars, Issue, Rotate, Refreshed, Adoptable, Usable, NoLogin, Logins, Sessions, NoSession, Ids
  <2>10. CASE Publish(c)
    BY <2>10 DEF Publish, Return, Fail, GoOn, callerVars, serverVars, Issue, Rotate, Refreshed, Adoptable, Usable, NoLogin, Logins, Sessions, NoSession, Ids
  <2>11. CASE Answered(c)
    BY <2>11 DEF Answered, Return, Fail, GoOn, callerVars, serverVars, Issue, Rotate, Refreshed, Adoptable, Usable, NoLogin, Logins, Sessions, NoSession, Ids
  <2>12. CASE Unauthorized(c)
    BY <2>12 DEF Unauthorized, Return, Fail, GoOn, callerVars, serverVars, Issue, Rotate, Refreshed, Adoptable, Usable, NoLogin, Logins, Sessions, NoSession, Ids
  <2>13. CASE LockSession(c)
    <3>1. CallersTyped
      BY DEF CallersTyped
    <3>2. cached[home[c]] \in Sessions
      OBVIOUS
    <3>3. CallersTyped'
      BY <2>13, <3>1, <3>2, NoSessionType, ReturnType, FailType, GoOnType DEF LockSession
    <3> QED
      BY <2>13, <3>2, <3>3 DEF LockSession, CallersTyped, serverVars
  <2>14. CASE LockUnauthorized(c)
    <3>1. CallersTyped
      BY DEF CallersTyped
    <3>2. cached[home[c]] \in Sessions
      OBVIOUS
    <3>3. CallersTyped'
      BY <2>14, <3>1, <3>2, NoSessionType, ReturnType, FailType, GoOnType DEF LockUnauthorized
    <3> QED
      BY <2>14, <3>2, <3>3 DEF LockUnauthorized, CallersTyped, serverVars
  <2> QED
    BY <1>1, <2>1, <2>2, <2>3, <2>4, <2>5, <2>6, <2>7, <2>8, <2>9, <2>10, <2>11, <2>12, <2>13, <2>14 DEF CallerStep
<1>2. CASE OtherStep
  <2>1. ASSUME NEW l \in late, LateSave(l) PROVE TypeOK'
    BY <2>1 DEF LateSave, Return, Fail, GoOn, callerVars, serverVars, Issue, Rotate, Refreshed, Adoptable, Usable, NoLogin, Logins, Sessions, NoSession, Ids
  <2>2. ASSUME NEW p \in Procs, Crash(p) PROVE TypeOK'
    BY <2>2 DEF Crash, Return, Fail, GoOn, callerVars, serverVars, Issue, Rotate, Refreshed, Adoptable, Usable, NoLogin, Logins, Sessions, NoSession, Ids
  <2>3. ASSUME NEW i \in Ids, Expire(i) PROVE TypeOK'
    BY <2>3 DEF Expire, Return, Fail, GoOn, callerVars, serverVars, Issue, Rotate, Refreshed, Adoptable, Usable, NoLogin, Logins, Sessions, NoSession, Ids
  <2>4. CASE LoginBegin
    BY <2>4 DEF LoginBegin, Return, Fail, GoOn, callerVars, serverVars, Issue, Rotate, Refreshed, Adoptable, Usable, NoLogin, Logins, Sessions, NoSession, Ids
  <2>5. CASE LoginGranted
    BY <2>5 DEF LoginGranted, Return, Fail, GoOn, callerVars, serverVars, Issue, Rotate, Refreshed, Adoptable, Usable, NoLogin, Logins, Sessions, NoSession, Ids
  <2>6. CASE LoginSave
    BY <2>6 DEF LoginSave, Return, Fail, GoOn, callerVars, serverVars, Issue, Rotate, Refreshed, Adoptable, Usable, NoLogin, Logins, Sessions, NoSession, Ids
  <2>7. CASE LoginEnds
    BY <2>7 DEF LoginEnds, Return, Fail, GoOn, callerVars, serverVars, Issue, Rotate, Refreshed, Adoptable, Usable, NoLogin, Logins, Sessions, NoSession, Ids
  <2>8. CASE Logout
    BY <2>8 DEF Logout, Return, Fail, GoOn, callerVars, serverVars, Issue, Rotate, Refreshed, Adoptable, Usable, NoLogin, Logins, Sessions, NoSession, Ids
  <2> QED
    BY <1>2, <2>1, <2>2, <2>3, <2>4, <2>5, <2>6, <2>7, <2>8 DEF OtherStep
<1> QED
  BY <1>0, <1>1, <1>2, StepCases

LEMMA GateStep == IInv /\ [Next]_vars => GateExcludes'
<1> SUFFICES ASSUME IInv, [Next]_vars PROVE GateExcludes'
  OBVIOUS
<1> USE DEF IInv, TypeOK, GateExcludes
<1>0. CASE UNCHANGED vars
  BY <1>0 DEF vars, Return, Fail, GoOn, callerVars, serverVars, Issue, Rotate, Refreshed, Adoptable, Usable, NoLogin, GateHolder, GateIsFree
<1>1. ASSUME NEW c \in Callers, CallerStep(c) PROVE GateExcludes'
  <2>1. CASE Begin(c)
    BY <2>1 DEF Begin, Return, Fail, GoOn, callerVars, serverVars, Issue, Rotate, Refreshed, Adoptable, Usable, NoLogin, GateHolder, GateIsFree
  <2>2. CASE Drop(c)
    BY <2>2 DEF Drop, Return, Fail, GoOn, callerVars, serverVars, Issue, Rotate, Refreshed, Adoptable, Usable, NoLogin, GateHolder, GateIsFree
  <2>3. CASE Load(c)
    BY <2>3 DEF Load, Return, Fail, GoOn, callerVars, serverVars, Issue, Rotate, Refreshed, Adoptable, Usable, NoLogin, GateHolder, GateIsFree
  <2>4. CASE StepFails(c)
    BY <2>4 DEF StepFails, Return, Fail, GoOn, callerVars, serverVars, Issue, Rotate, Refreshed, Adoptable, Usable, NoLogin, GateHolder, GateIsFree
  <2>5. CASE RefreshRefused(c)
    BY <2>5 DEF RefreshRefused, Return, Fail, GoOn, callerVars, serverVars, Issue, Rotate, Refreshed, Adoptable, Usable, NoLogin, GateHolder, GateIsFree
  <2>6. ASSUME NEW rotate \in BOOLEAN, RefreshOk(c, rotate) PROVE GateExcludes'
    BY <2>6 DEF RefreshOk, Return, Fail, GoOn, callerVars, serverVars, Issue, Rotate, Refreshed, Adoptable, Usable, NoLogin, GateHolder, GateIsFree
  <2>7. ASSUME NEW rotate \in BOOLEAN, RefreshLost(c, rotate) PROVE GateExcludes'
    BY <2>7 DEF RefreshLost, Return, Fail, GoOn, callerVars, serverVars, Issue, Rotate, Refreshed, Adoptable, Usable, NoLogin, GateHolder, GateIsFree
  <2>8. CASE Save(c)
    BY <2>8 DEF Save, Return, Fail, GoOn, callerVars, serverVars, Issue, Rotate, Refreshed, Adoptable, Usable, NoLogin, GateHolder, GateIsFree
  <2>9. CASE SaveFails(c)
    BY <2>9 DEF SaveFails, Return, Fail, GoOn, callerVars, serverVars, Issue, Rotate, Refreshed, Adoptable, Usable, NoLogin, GateHolder, GateIsFree
  <2>10. CASE Publish(c)
    BY <2>10 DEF Publish, Return, Fail, GoOn, callerVars, serverVars, Issue, Rotate, Refreshed, Adoptable, Usable, NoLogin, GateHolder, GateIsFree
  <2>11. CASE Answered(c)
    BY <2>11 DEF Answered, Return, Fail, GoOn, callerVars, serverVars, Issue, Rotate, Refreshed, Adoptable, Usable, NoLogin, GateHolder, GateIsFree
  <2>12. CASE Unauthorized(c)
    BY <2>12 DEF Unauthorized, Return, Fail, GoOn, callerVars, serverVars, Issue, Rotate, Refreshed, Adoptable, Usable, NoLogin, GateHolder, GateIsFree
  <2>13. CASE LockSession(c)
    BY <2>13 DEF LockSession, Return, Fail, GoOn, callerVars, serverVars, Issue, Rotate, Refreshed, Adoptable, Usable, NoLogin, GateHolder, GateIsFree
  <2>14. CASE LockUnauthorized(c)
    BY <2>14 DEF LockUnauthorized, Return, Fail, GoOn, callerVars, serverVars, Issue, Rotate, Refreshed, Adoptable, Usable, NoLogin, GateHolder, GateIsFree
  <2> QED
    BY <1>1, <2>1, <2>2, <2>3, <2>4, <2>5, <2>6, <2>7, <2>8, <2>9, <2>10, <2>11, <2>12, <2>13, <2>14 DEF CallerStep
<1>2. CASE OtherStep
  <2>1. ASSUME NEW l \in late, LateSave(l) PROVE GateExcludes'
    BY <2>1 DEF LateSave, Return, Fail, GoOn, callerVars, serverVars, Issue, Rotate, Refreshed, Adoptable, Usable, NoLogin, GateHolder, GateIsFree
  <2>2. ASSUME NEW p \in Procs, Crash(p) PROVE GateExcludes'
    BY <2>2 DEF Crash, Return, Fail, GoOn, callerVars, serverVars, Issue, Rotate, Refreshed, Adoptable, Usable, NoLogin, GateHolder, GateIsFree
  <2>3. ASSUME NEW i \in Ids, Expire(i) PROVE GateExcludes'
    BY <2>3 DEF Expire, Return, Fail, GoOn, callerVars, serverVars, Issue, Rotate, Refreshed, Adoptable, Usable, NoLogin, GateHolder, GateIsFree
  <2>4. CASE LoginBegin
    BY <2>4 DEF LoginBegin, Return, Fail, GoOn, callerVars, serverVars, Issue, Rotate, Refreshed, Adoptable, Usable, NoLogin, GateHolder, GateIsFree
  <2>5. CASE LoginGranted
    BY <2>5 DEF LoginGranted, Return, Fail, GoOn, callerVars, serverVars, Issue, Rotate, Refreshed, Adoptable, Usable, NoLogin, GateHolder, GateIsFree
  <2>6. CASE LoginSave
    BY <2>6 DEF LoginSave, Return, Fail, GoOn, callerVars, serverVars, Issue, Rotate, Refreshed, Adoptable, Usable, NoLogin, GateHolder, GateIsFree
  <2>7. CASE LoginEnds
    BY <2>7 DEF LoginEnds, Return, Fail, GoOn, callerVars, serverVars, Issue, Rotate, Refreshed, Adoptable, Usable, NoLogin, GateHolder, GateIsFree
  <2>8. CASE Logout
    BY <2>8 DEF Logout, Return, Fail, GoOn, callerVars, serverVars, Issue, Rotate, Refreshed, Adoptable, Usable, NoLogin, GateHolder, GateIsFree
  <2> QED
    BY <1>2, <2>1, <2>2, <2>3, <2>4, <2>5, <2>6, <2>7, <2>8 DEF OtherStep
<1> QED
  BY <1>0, <1>1, <1>2, StepCases

LEMMA SeenStep == IInv /\ [Next]_vars => SeenIsSaved'
<1> SUFFICES ASSUME IInv, [Next]_vars PROVE SeenIsSaved'
  OBVIOUS
<1> USE DEF IInv, TypeOK, SeenIsSaved
<1>0. CASE UNCHANGED vars
  BY <1>0 DEF vars, Return, Fail, GoOn, callerVars, serverVars, Issue, Rotate, Refreshed, Adoptable, Usable, NoLogin
<1>1. ASSUME NEW c \in Callers, CallerStep(c) PROVE SeenIsSaved'
  <2>1. CASE Begin(c)
    BY <2>1 DEF Begin, Return, Fail, GoOn, callerVars, serverVars, Issue, Rotate, Refreshed, Adoptable, Usable, NoLogin
  <2>2. CASE Drop(c)
    BY <2>2 DEF Drop, Return, Fail, GoOn, callerVars, serverVars, Issue, Rotate, Refreshed, Adoptable, Usable, NoLogin
  <2>3. CASE Load(c)
    BY <2>3 DEF Load, Return, Fail, GoOn, callerVars, serverVars, Issue, Rotate, Refreshed, Adoptable, Usable, NoLogin
  <2>4. CASE StepFails(c)
    BY <2>4 DEF StepFails, Return, Fail, GoOn, callerVars, serverVars, Issue, Rotate, Refreshed, Adoptable, Usable, NoLogin
  <2>5. CASE RefreshRefused(c)
    BY <2>5 DEF RefreshRefused, Return, Fail, GoOn, callerVars, serverVars, Issue, Rotate, Refreshed, Adoptable, Usable, NoLogin
  <2>6. ASSUME NEW rotate \in BOOLEAN, RefreshOk(c, rotate) PROVE SeenIsSaved'
    BY <2>6 DEF RefreshOk, Return, Fail, GoOn, callerVars, serverVars, Issue, Rotate, Refreshed, Adoptable, Usable, NoLogin
  <2>7. ASSUME NEW rotate \in BOOLEAN, RefreshLost(c, rotate) PROVE SeenIsSaved'
    BY <2>7 DEF RefreshLost, Return, Fail, GoOn, callerVars, serverVars, Issue, Rotate, Refreshed, Adoptable, Usable, NoLogin
  <2>8. CASE Save(c)
    BY <2>8 DEF Save, Return, Fail, GoOn, callerVars, serverVars, Issue, Rotate, Refreshed, Adoptable, Usable, NoLogin
  <2>9. CASE SaveFails(c)
    BY <2>9 DEF SaveFails, Return, Fail, GoOn, callerVars, serverVars, Issue, Rotate, Refreshed, Adoptable, Usable, NoLogin
  <2>10. CASE Publish(c)
    BY <2>10 DEF Publish, Return, Fail, GoOn, callerVars, serverVars, Issue, Rotate, Refreshed, Adoptable, Usable, NoLogin
  <2>11. CASE Answered(c)
    BY <2>11 DEF Answered, Return, Fail, GoOn, callerVars, serverVars, Issue, Rotate, Refreshed, Adoptable, Usable, NoLogin
  <2>12. CASE Unauthorized(c)
    BY <2>12 DEF Unauthorized, Return, Fail, GoOn, callerVars, serverVars, Issue, Rotate, Refreshed, Adoptable, Usable, NoLogin
  <2>13. CASE LockSession(c)
    BY <2>13 DEF LockSession, Return, Fail, GoOn, callerVars, serverVars, Issue, Rotate, Refreshed, Adoptable, Usable, NoLogin
  <2>14. CASE LockUnauthorized(c)
    BY <2>14 DEF LockUnauthorized, Return, Fail, GoOn, callerVars, serverVars, Issue, Rotate, Refreshed, Adoptable, Usable, NoLogin
  <2> QED
    BY <1>1, <2>1, <2>2, <2>3, <2>4, <2>5, <2>6, <2>7, <2>8, <2>9, <2>10, <2>11, <2>12, <2>13, <2>14 DEF CallerStep
<1>2. CASE OtherStep
  <2>1. ASSUME NEW l \in late, LateSave(l) PROVE SeenIsSaved'
    BY <2>1 DEF LateSave, Return, Fail, GoOn, callerVars, serverVars, Issue, Rotate, Refreshed, Adoptable, Usable, NoLogin
  <2>2. ASSUME NEW p \in Procs, Crash(p) PROVE SeenIsSaved'
    BY <2>2 DEF Crash, Return, Fail, GoOn, callerVars, serverVars, Issue, Rotate, Refreshed, Adoptable, Usable, NoLogin
  <2>3. ASSUME NEW i \in Ids, Expire(i) PROVE SeenIsSaved'
    BY <2>3 DEF Expire, Return, Fail, GoOn, callerVars, serverVars, Issue, Rotate, Refreshed, Adoptable, Usable, NoLogin
  <2>4. CASE LoginBegin
    BY <2>4 DEF LoginBegin, Return, Fail, GoOn, callerVars, serverVars, Issue, Rotate, Refreshed, Adoptable, Usable, NoLogin
  <2>5. CASE LoginGranted
    BY <2>5 DEF LoginGranted, Return, Fail, GoOn, callerVars, serverVars, Issue, Rotate, Refreshed, Adoptable, Usable, NoLogin
  <2>6. CASE LoginSave
    BY <2>6 DEF LoginSave, Return, Fail, GoOn, callerVars, serverVars, Issue, Rotate, Refreshed, Adoptable, Usable, NoLogin
  <2>7. CASE LoginEnds
    BY <2>7 DEF LoginEnds, Return, Fail, GoOn, callerVars, serverVars, Issue, Rotate, Refreshed, Adoptable, Usable, NoLogin
  <2>8. CASE Logout
    BY <2>8 DEF Logout, Return, Fail, GoOn, callerVars, serverVars, Issue, Rotate, Refreshed, Adoptable, Usable, NoLogin
  <2> QED
    BY <1>2, <2>1, <2>2, <2>3, <2>4, <2>5, <2>6, <2>7, <2>8 DEF OtherStep
<1> QED
  BY <1>0, <1>1, <1>2, StepCases

LEMMA GenerationStep == IInv /\ [Next]_vars => GenerationsFit'
<1> SUFFICES ASSUME IInv, [Next]_vars PROVE GenerationsFit'
  OBVIOUS
<1> USE DEF IInv, TypeOK, GenerationsFit, GenerationOf, SeenIsSaved
<1>0. CASE UNCHANGED vars
  BY <1>0 DEF vars, Return, Fail, GoOn, callerVars, serverVars, Issue, Rotate, Refreshed, Adoptable, Usable, NoLogin, Sessions, Ids
<1>1. ASSUME NEW c \in Callers, CallerStep(c) PROVE GenerationsFit'
  <2>1. CASE Begin(c)
    BY <2>1 DEF Begin, Return, Fail, GoOn, callerVars, serverVars, Issue, Rotate, Refreshed, Adoptable, Usable, NoLogin, Sessions, Ids
  <2>2. CASE Drop(c)
    BY <2>2 DEF Drop, Return, Fail, GoOn, callerVars, serverVars, Issue, Rotate, Refreshed, Adoptable, Usable, NoLogin, Sessions, Ids
  <2>3. CASE Load(c)
    BY <2>3 DEF Load, Return, Fail, GoOn, callerVars, serverVars, Issue, Rotate, Refreshed, Adoptable, Usable, NoLogin, Sessions, Ids
  <2>4. CASE StepFails(c)
    BY <2>4 DEF StepFails, Return, Fail, GoOn, callerVars, serverVars, Issue, Rotate, Refreshed, Adoptable, Usable, NoLogin, Sessions, Ids
  <2>5. CASE RefreshRefused(c)
    BY <2>5 DEF RefreshRefused, Return, Fail, GoOn, callerVars, serverVars, Issue, Rotate, Refreshed, Adoptable, Usable, NoLogin, Sessions, Ids
  <2>6. ASSUME NEW rotate \in BOOLEAN, RefreshOk(c, rotate) PROVE GenerationsFit'
    BY <2>6 DEF RefreshOk, Return, Fail, GoOn, callerVars, serverVars, Issue, Rotate, Refreshed, Adoptable, Usable, NoLogin, Sessions, Ids
  <2>7. ASSUME NEW rotate \in BOOLEAN, RefreshLost(c, rotate) PROVE GenerationsFit'
    BY <2>7 DEF RefreshLost, Return, Fail, GoOn, callerVars, serverVars, Issue, Rotate, Refreshed, Adoptable, Usable, NoLogin, Sessions, Ids
  <2>8. CASE Save(c)
    BY <2>8 DEF Save, Return, Fail, GoOn, callerVars, serverVars, Issue, Rotate, Refreshed, Adoptable, Usable, NoLogin, Sessions, Ids
  <2>9. CASE SaveFails(c)
    BY <2>9 DEF SaveFails, Return, Fail, GoOn, callerVars, serverVars, Issue, Rotate, Refreshed, Adoptable, Usable, NoLogin, Sessions, Ids
  <2>10. CASE Publish(c)
    BY <2>10 DEF Publish, Return, Fail, GoOn, callerVars, serverVars, Issue, Rotate, Refreshed, Adoptable, Usable, NoLogin, Sessions, Ids
  <2>11. CASE Answered(c)
    BY <2>11 DEF Answered, Return, Fail, GoOn, callerVars, serverVars, Issue, Rotate, Refreshed, Adoptable, Usable, NoLogin, Sessions, Ids
  <2>12. CASE Unauthorized(c)
    BY <2>12 DEF Unauthorized, Return, Fail, GoOn, callerVars, serverVars, Issue, Rotate, Refreshed, Adoptable, Usable, NoLogin, Sessions, Ids
  <2>13. CASE LockSession(c)
    BY <2>13 DEF LockSession, Return, Fail, GoOn, callerVars, serverVars, Issue, Rotate, Refreshed, Adoptable, Usable, NoLogin, Sessions, Ids
  <2>14. CASE LockUnauthorized(c)
    BY <2>14 DEF LockUnauthorized, Return, Fail, GoOn, callerVars, serverVars, Issue, Rotate, Refreshed, Adoptable, Usable, NoLogin, Sessions, Ids
  <2> QED
    BY <1>1, <2>1, <2>2, <2>3, <2>4, <2>5, <2>6, <2>7, <2>8, <2>9, <2>10, <2>11, <2>12, <2>13, <2>14 DEF CallerStep
<1>2. CASE OtherStep
  <2>1. ASSUME NEW l \in late, LateSave(l) PROVE GenerationsFit'
    BY <2>1 DEF LateSave, Return, Fail, GoOn, callerVars, serverVars, Issue, Rotate, Refreshed, Adoptable, Usable, NoLogin, Sessions, Ids
  <2>2. ASSUME NEW p \in Procs, Crash(p) PROVE GenerationsFit'
    BY <2>2 DEF Crash, Return, Fail, GoOn, callerVars, serverVars, Issue, Rotate, Refreshed, Adoptable, Usable, NoLogin, Sessions, Ids
  <2>3. ASSUME NEW i \in Ids, Expire(i) PROVE GenerationsFit'
    BY <2>3 DEF Expire, Return, Fail, GoOn, callerVars, serverVars, Issue, Rotate, Refreshed, Adoptable, Usable, NoLogin, Sessions, Ids
  <2>4. CASE LoginBegin
    BY <2>4 DEF LoginBegin, Return, Fail, GoOn, callerVars, serverVars, Issue, Rotate, Refreshed, Adoptable, Usable, NoLogin, Sessions, Ids
  <2>5. CASE LoginGranted
    BY <2>5 DEF LoginGranted, Return, Fail, GoOn, callerVars, serverVars, Issue, Rotate, Refreshed, Adoptable, Usable, NoLogin, Sessions, Ids
  <2>6. CASE LoginSave
    BY <2>6 DEF LoginSave, Return, Fail, GoOn, callerVars, serverVars, Issue, Rotate, Refreshed, Adoptable, Usable, NoLogin, Sessions, Ids
  <2>7. CASE LoginEnds
    BY <2>7 DEF LoginEnds, Return, Fail, GoOn, callerVars, serverVars, Issue, Rotate, Refreshed, Adoptable, Usable, NoLogin, Sessions, Ids
  <2>8. CASE Logout
    BY <2>8 DEF Logout, Return, Fail, GoOn, callerVars, serverVars, Issue, Rotate, Refreshed, Adoptable, Usable, NoLogin, Sessions, Ids
  <2> QED
    BY <1>2, <2>1, <2>2, <2>3, <2>4, <2>5, <2>6, <2>7, <2>8 DEF OtherStep
<1> QED
  BY <1>0, <1>1, <1>2, StepCases

LEMMA LoginStep == IInv /\ [Next]_vars => LoginIsPrivate'
<1> SUFFICES ASSUME IInv, [Next]_vars PROVE LoginIsPrivate'
  OBVIOUS
<1> USE DEF IInv, TypeOK, LoginIsPrivate, SeenIsSaved, IdsAreUnique, Known
<1>0. CASE UNCHANGED vars
  BY <1>0 DEF vars, Return, Fail, GoOn, callerVars, serverVars, Issue, Rotate, Refreshed, Adoptable, Usable, NoLogin, Logins, Sessions, NoSession, Ids
<1>1. ASSUME NEW c \in Callers, CallerStep(c) PROVE LoginIsPrivate'
  <2>1. CASE Begin(c)
    BY <2>1 DEF Begin, Return, Fail, GoOn, callerVars, serverVars, Issue, Rotate, Refreshed, Adoptable, Usable, NoLogin, Logins, Sessions, NoSession, Ids
  <2>2. CASE Drop(c)
    BY <2>2 DEF Drop, Return, Fail, GoOn, callerVars, serverVars, Issue, Rotate, Refreshed, Adoptable, Usable, NoLogin, Logins, Sessions, NoSession, Ids
  <2>3. CASE Load(c)
    BY <2>3 DEF Load, Return, Fail, GoOn, callerVars, serverVars, Issue, Rotate, Refreshed, Adoptable, Usable, NoLogin, Logins, Sessions, NoSession, Ids
  <2>4. CASE StepFails(c)
    BY <2>4 DEF StepFails, Return, Fail, GoOn, callerVars, serverVars, Issue, Rotate, Refreshed, Adoptable, Usable, NoLogin, Logins, Sessions, NoSession, Ids
  <2>5. CASE RefreshRefused(c)
    BY <2>5 DEF RefreshRefused, Return, Fail, GoOn, callerVars, serverVars, Issue, Rotate, Refreshed, Adoptable, Usable, NoLogin, Logins, Sessions, NoSession, Ids
  <2>6. ASSUME NEW rotate \in BOOLEAN, RefreshOk(c, rotate) PROVE LoginIsPrivate'
    BY <2>6 DEF RefreshOk, Return, Fail, GoOn, callerVars, serverVars, Issue, Rotate, Refreshed, Adoptable, Usable, NoLogin, Logins, Sessions, NoSession, Ids
  <2>7. ASSUME NEW rotate \in BOOLEAN, RefreshLost(c, rotate) PROVE LoginIsPrivate'
    BY <2>7 DEF RefreshLost, Return, Fail, GoOn, callerVars, serverVars, Issue, Rotate, Refreshed, Adoptable, Usable, NoLogin, Logins, Sessions, NoSession, Ids
  <2>8. CASE Save(c)
    BY <2>8 DEF Save, Return, Fail, GoOn, callerVars, serverVars, Issue, Rotate, Refreshed, Adoptable, Usable, NoLogin, Logins, Sessions, NoSession, Ids
  <2>9. CASE SaveFails(c)
    BY <2>9 DEF SaveFails, Return, Fail, GoOn, callerVars, serverVars, Issue, Rotate, Refreshed, Adoptable, Usable, NoLogin, Logins, Sessions, NoSession, Ids
  <2>10. CASE Publish(c)
    BY <2>10 DEF Publish, Return, Fail, GoOn, callerVars, serverVars, Issue, Rotate, Refreshed, Adoptable, Usable, NoLogin, Logins, Sessions, NoSession, Ids
  <2>11. CASE Answered(c)
    BY <2>11 DEF Answered, Return, Fail, GoOn, callerVars, serverVars, Issue, Rotate, Refreshed, Adoptable, Usable, NoLogin, Logins, Sessions, NoSession, Ids
  <2>12. CASE Unauthorized(c)
    BY <2>12 DEF Unauthorized, Return, Fail, GoOn, callerVars, serverVars, Issue, Rotate, Refreshed, Adoptable, Usable, NoLogin, Logins, Sessions, NoSession, Ids
  <2>13. CASE LockSession(c)
    BY <2>13 DEF LockSession, Return, Fail, GoOn, callerVars, serverVars, Issue, Rotate, Refreshed, Adoptable, Usable, NoLogin, Logins, Sessions, NoSession, Ids
  <2>14. CASE LockUnauthorized(c)
    BY <2>14 DEF LockUnauthorized, Return, Fail, GoOn, callerVars, serverVars, Issue, Rotate, Refreshed, Adoptable, Usable, NoLogin, Logins, Sessions, NoSession, Ids
  <2> QED
    BY <1>1, <2>1, <2>2, <2>3, <2>4, <2>5, <2>6, <2>7, <2>8, <2>9, <2>10, <2>11, <2>12, <2>13, <2>14 DEF CallerStep
<1>2. CASE OtherStep
  <2>1. ASSUME NEW l \in late, LateSave(l) PROVE LoginIsPrivate'
    BY <2>1 DEF LateSave, Return, Fail, GoOn, callerVars, serverVars, Issue, Rotate, Refreshed, Adoptable, Usable, NoLogin, Logins, Sessions, NoSession, Ids
  <2>2. ASSUME NEW p \in Procs, Crash(p) PROVE LoginIsPrivate'
    BY <2>2 DEF Crash, Return, Fail, GoOn, callerVars, serverVars, Issue, Rotate, Refreshed, Adoptable, Usable, NoLogin, Logins, Sessions, NoSession, Ids
  <2>3. ASSUME NEW i \in Ids, Expire(i) PROVE LoginIsPrivate'
    BY <2>3 DEF Expire, Return, Fail, GoOn, callerVars, serverVars, Issue, Rotate, Refreshed, Adoptable, Usable, NoLogin, Logins, Sessions, NoSession, Ids
  <2>4. CASE LoginBegin
    BY <2>4 DEF LoginBegin, Return, Fail, GoOn, callerVars, serverVars, Issue, Rotate, Refreshed, Adoptable, Usable, NoLogin, Logins, Sessions, NoSession, Ids
  <2>5. CASE LoginGranted
    BY <2>5 DEF LoginGranted, Return, Fail, GoOn, callerVars, serverVars, Issue, Rotate, Refreshed, Adoptable, Usable, NoLogin, Logins, Sessions, NoSession, Ids
  <2>6. CASE LoginSave
    BY <2>6 DEF LoginSave, Return, Fail, GoOn, callerVars, serverVars, Issue, Rotate, Refreshed, Adoptable, Usable, NoLogin, Logins, Sessions, NoSession, Ids
  <2>7. CASE LoginEnds
    BY <2>7 DEF LoginEnds, Return, Fail, GoOn, callerVars, serverVars, Issue, Rotate, Refreshed, Adoptable, Usable, NoLogin, Logins, Sessions, NoSession, Ids
  <2>8. CASE Logout
    BY <2>8 DEF Logout, Return, Fail, GoOn, callerVars, serverVars, Issue, Rotate, Refreshed, Adoptable, Usable, NoLogin, Logins, Sessions, NoSession, Ids
  <2> QED
    BY <1>2, <2>1, <2>2, <2>3, <2>4, <2>5, <2>6, <2>7, <2>8 DEF OtherStep
<1> QED
  BY <1>0, <1>1, <1>2, StepCases

LEMMA TokensStep == IInv /\ [Next]_vars => TokensAreLive'
<1> SUFFICES ASSUME IInv, [Next]_vars PROVE TokensAreLive'
  OBVIOUS
<1> USE DEF IInv, TypeOK, TokensAreLive, GateExcludes, GateHolder
<1>0. CASE UNCHANGED vars
  BY <1>0 DEF vars, Return, Fail, GoOn, callerVars, serverVars, Issue, Rotate, Refreshed, Adoptable, Usable, NoLogin, Overlap
<1>1. ASSUME NEW c \in Callers, CallerStep(c) PROVE TokensAreLive'
  <2>1. CASE Begin(c)
    BY <2>1 DEF Begin, Return, Fail, GoOn, callerVars, serverVars, Issue, Rotate, Refreshed, Adoptable, Usable, NoLogin, Overlap
  <2>2. CASE Drop(c)
    BY <2>2 DEF Drop, Return, Fail, GoOn, callerVars, serverVars, Issue, Rotate, Refreshed, Adoptable, Usable, NoLogin, Overlap
  <2>3. CASE Load(c)
    BY <2>3 DEF Load, Return, Fail, GoOn, callerVars, serverVars, Issue, Rotate, Refreshed, Adoptable, Usable, NoLogin, Overlap
  <2>4. CASE StepFails(c)
    BY <2>4 DEF StepFails, Return, Fail, GoOn, callerVars, serverVars, Issue, Rotate, Refreshed, Adoptable, Usable, NoLogin, Overlap
  <2>5. CASE RefreshRefused(c)
    BY <2>5 DEF RefreshRefused, Return, Fail, GoOn, callerVars, serverVars, Issue, Rotate, Refreshed, Adoptable, Usable, NoLogin, Overlap
  <2>6. ASSUME NEW rotate \in BOOLEAN, RefreshOk(c, rotate) PROVE TokensAreLive'
    BY <2>6 DEF RefreshOk, Return, Fail, GoOn, callerVars, serverVars, Issue, Rotate, Refreshed, Adoptable, Usable, NoLogin, Overlap
  <2>7. ASSUME NEW rotate \in BOOLEAN, RefreshLost(c, rotate) PROVE TokensAreLive'
    BY <2>7 DEF RefreshLost, Return, Fail, GoOn, callerVars, serverVars, Issue, Rotate, Refreshed, Adoptable, Usable, NoLogin, Overlap
  <2>8. CASE Save(c)
    BY <2>8 DEF Save, Return, Fail, GoOn, callerVars, serverVars, Issue, Rotate, Refreshed, Adoptable, Usable, NoLogin, Overlap
  <2>9. CASE SaveFails(c)
    BY <2>9 DEF SaveFails, Return, Fail, GoOn, callerVars, serverVars, Issue, Rotate, Refreshed, Adoptable, Usable, NoLogin, Overlap
  <2>10. CASE Publish(c)
    BY <2>10 DEF Publish, Return, Fail, GoOn, callerVars, serverVars, Issue, Rotate, Refreshed, Adoptable, Usable, NoLogin, Overlap
  <2>11. CASE Answered(c)
    BY <2>11 DEF Answered, Return, Fail, GoOn, callerVars, serverVars, Issue, Rotate, Refreshed, Adoptable, Usable, NoLogin, Overlap
  <2>12. CASE Unauthorized(c)
    BY <2>12 DEF Unauthorized, Return, Fail, GoOn, callerVars, serverVars, Issue, Rotate, Refreshed, Adoptable, Usable, NoLogin, Overlap
  <2>13. CASE LockSession(c)
    BY <2>13 DEF LockSession, Return, Fail, GoOn, callerVars, serverVars, Issue, Rotate, Refreshed, Adoptable, Usable, NoLogin, Overlap
  <2>14. CASE LockUnauthorized(c)
    BY <2>14 DEF LockUnauthorized, Return, Fail, GoOn, callerVars, serverVars, Issue, Rotate, Refreshed, Adoptable, Usable, NoLogin, Overlap
  <2> QED
    BY <1>1, <2>1, <2>2, <2>3, <2>4, <2>5, <2>6, <2>7, <2>8, <2>9, <2>10, <2>11, <2>12, <2>13, <2>14 DEF CallerStep
<1>2. CASE OtherStep
  <2>1. ASSUME NEW l \in late, LateSave(l) PROVE TokensAreLive'
    BY <2>1 DEF LateSave, Return, Fail, GoOn, callerVars, serverVars, Issue, Rotate, Refreshed, Adoptable, Usable, NoLogin, Overlap
  <2>2. ASSUME NEW p \in Procs, Crash(p) PROVE TokensAreLive'
    BY <2>2 DEF Crash, Return, Fail, GoOn, callerVars, serverVars, Issue, Rotate, Refreshed, Adoptable, Usable, NoLogin, Overlap
  <2>3. ASSUME NEW i \in Ids, Expire(i) PROVE TokensAreLive'
    BY <2>3 DEF Expire, Return, Fail, GoOn, callerVars, serverVars, Issue, Rotate, Refreshed, Adoptable, Usable, NoLogin, Overlap
  <2>4. CASE LoginBegin
    BY <2>4 DEF LoginBegin, Return, Fail, GoOn, callerVars, serverVars, Issue, Rotate, Refreshed, Adoptable, Usable, NoLogin, Overlap
  <2>5. CASE LoginGranted
    BY <2>5 DEF LoginGranted, Return, Fail, GoOn, callerVars, serverVars, Issue, Rotate, Refreshed, Adoptable, Usable, NoLogin, Overlap
  <2>6. CASE LoginSave
    BY <2>6 DEF LoginSave, Return, Fail, GoOn, callerVars, serverVars, Issue, Rotate, Refreshed, Adoptable, Usable, NoLogin, Overlap
  <2>7. CASE LoginEnds
    BY <2>7 DEF LoginEnds, Return, Fail, GoOn, callerVars, serverVars, Issue, Rotate, Refreshed, Adoptable, Usable, NoLogin, Overlap
  <2>8. CASE Logout
    BY <2>8 DEF Logout, Return, Fail, GoOn, callerVars, serverVars, Issue, Rotate, Refreshed, Adoptable, Usable, NoLogin, Overlap
  <2> QED
    BY <1>2, <2>1, <2>2, <2>3, <2>4, <2>5, <2>6, <2>7, <2>8 DEF OtherStep
<1> QED
  BY <1>0, <1>1, <1>2, StepCases

LEMMA StoreStep == IInv /\ [Next]_vars => StoreIsLive'
<1> SUFFICES ASSUME IInv, [Next]_vars PROVE StoreIsLive'
  OBVIOUS
<1> USE DEF IInv, TypeOK, StoreIsLive, TokensAreLive, GateExcludes, GateHolder, LoginIsPrivate
<1>0. CASE UNCHANGED vars
  BY <1>0 DEF vars, Return, Fail, GoOn, callerVars, serverVars, Issue, Rotate, Refreshed, Adoptable, Usable, NoLogin, Overlap, Logins
<1>1. ASSUME NEW c \in Callers, CallerStep(c) PROVE StoreIsLive'
  <2>1. CASE Begin(c)
    BY <2>1 DEF Begin, Return, Fail, GoOn, callerVars, serverVars, Issue, Rotate, Refreshed, Adoptable, Usable, NoLogin, Overlap, Logins
  <2>2. CASE Drop(c)
    BY <2>2 DEF Drop, Return, Fail, GoOn, callerVars, serverVars, Issue, Rotate, Refreshed, Adoptable, Usable, NoLogin, Overlap, Logins
  <2>3. CASE Load(c)
    BY <2>3 DEF Load, Return, Fail, GoOn, callerVars, serverVars, Issue, Rotate, Refreshed, Adoptable, Usable, NoLogin, Overlap, Logins
  <2>4. CASE StepFails(c)
    BY <2>4 DEF StepFails, Return, Fail, GoOn, callerVars, serverVars, Issue, Rotate, Refreshed, Adoptable, Usable, NoLogin, Overlap, Logins
  <2>5. CASE RefreshRefused(c)
    BY <2>5 DEF RefreshRefused, Return, Fail, GoOn, callerVars, serverVars, Issue, Rotate, Refreshed, Adoptable, Usable, NoLogin, Overlap, Logins
  <2>6. ASSUME NEW rotate \in BOOLEAN, RefreshOk(c, rotate) PROVE StoreIsLive'
    BY <2>6 DEF RefreshOk, Return, Fail, GoOn, callerVars, serverVars, Issue, Rotate, Refreshed, Adoptable, Usable, NoLogin, Overlap, Logins
  <2>7. ASSUME NEW rotate \in BOOLEAN, RefreshLost(c, rotate) PROVE StoreIsLive'
    BY <2>7 DEF RefreshLost, Return, Fail, GoOn, callerVars, serverVars, Issue, Rotate, Refreshed, Adoptable, Usable, NoLogin, Overlap, Logins
  <2>8. CASE Save(c)
    BY <2>8 DEF Save, Return, Fail, GoOn, callerVars, serverVars, Issue, Rotate, Refreshed, Adoptable, Usable, NoLogin, Overlap, Logins
  <2>9. CASE SaveFails(c)
    BY <2>9 DEF SaveFails, Return, Fail, GoOn, callerVars, serverVars, Issue, Rotate, Refreshed, Adoptable, Usable, NoLogin, Overlap, Logins
  <2>10. CASE Publish(c)
    BY <2>10 DEF Publish, Return, Fail, GoOn, callerVars, serverVars, Issue, Rotate, Refreshed, Adoptable, Usable, NoLogin, Overlap, Logins
  <2>11. CASE Answered(c)
    BY <2>11 DEF Answered, Return, Fail, GoOn, callerVars, serverVars, Issue, Rotate, Refreshed, Adoptable, Usable, NoLogin, Overlap, Logins
  <2>12. CASE Unauthorized(c)
    BY <2>12 DEF Unauthorized, Return, Fail, GoOn, callerVars, serverVars, Issue, Rotate, Refreshed, Adoptable, Usable, NoLogin, Overlap, Logins
  <2>13. CASE LockSession(c)
    BY <2>13 DEF LockSession, Return, Fail, GoOn, callerVars, serverVars, Issue, Rotate, Refreshed, Adoptable, Usable, NoLogin, Overlap, Logins
  <2>14. CASE LockUnauthorized(c)
    BY <2>14 DEF LockUnauthorized, Return, Fail, GoOn, callerVars, serverVars, Issue, Rotate, Refreshed, Adoptable, Usable, NoLogin, Overlap, Logins
  <2> QED
    BY <1>1, <2>1, <2>2, <2>3, <2>4, <2>5, <2>6, <2>7, <2>8, <2>9, <2>10, <2>11, <2>12, <2>13, <2>14 DEF CallerStep
<1>2. CASE OtherStep
  <2>1. ASSUME NEW l \in late, LateSave(l) PROVE StoreIsLive'
    BY <2>1 DEF LateSave, Return, Fail, GoOn, callerVars, serverVars, Issue, Rotate, Refreshed, Adoptable, Usable, NoLogin, Overlap, Logins
  <2>2. ASSUME NEW p \in Procs, Crash(p) PROVE StoreIsLive'
    BY <2>2 DEF Crash, Return, Fail, GoOn, callerVars, serverVars, Issue, Rotate, Refreshed, Adoptable, Usable, NoLogin, Overlap, Logins
  <2>3. ASSUME NEW i \in Ids, Expire(i) PROVE StoreIsLive'
    BY <2>3 DEF Expire, Return, Fail, GoOn, callerVars, serverVars, Issue, Rotate, Refreshed, Adoptable, Usable, NoLogin, Overlap, Logins
  <2>4. CASE LoginBegin
    BY <2>4 DEF LoginBegin, Return, Fail, GoOn, callerVars, serverVars, Issue, Rotate, Refreshed, Adoptable, Usable, NoLogin, Overlap, Logins
  <2>5. CASE LoginGranted
    BY <2>5 DEF LoginGranted, Return, Fail, GoOn, callerVars, serverVars, Issue, Rotate, Refreshed, Adoptable, Usable, NoLogin, Overlap, Logins
  <2>6. CASE LoginSave
    BY <2>6 DEF LoginSave, Return, Fail, GoOn, callerVars, serverVars, Issue, Rotate, Refreshed, Adoptable, Usable, NoLogin, Overlap, Logins
  <2>7. CASE LoginEnds
    BY <2>7 DEF LoginEnds, Return, Fail, GoOn, callerVars, serverVars, Issue, Rotate, Refreshed, Adoptable, Usable, NoLogin, Overlap, Logins
  <2>8. CASE Logout
    BY <2>8 DEF Logout, Return, Fail, GoOn, callerVars, serverVars, Issue, Rotate, Refreshed, Adoptable, Usable, NoLogin, Overlap, Logins
  <2> QED
    BY <1>2, <2>1, <2>2, <2>3, <2>4, <2>5, <2>6, <2>7, <2>8 DEF OtherStep
<1> QED
  BY <1>0, <1>1, <1>2, StepCases

----------------------------------------------------------------------------
\* A step brings no session or one with the next id.
LEMMA UniqueKept ==
  ASSUME IdsAreUnique, Known' \subseteq Known, issued' = issued
  PROVE  IdsAreUnique'
BY DEF IdsAreUnique

LEMMA UniqueNew ==
  ASSUME TypeOK, IdsAreUnique, NEW s \in Sessions, s.id = issued + 1,
         s.rt <= issued + 1, Known' \subseteq Known \cup {s}, issued' = issued + 1
  PROVE  IdsAreUnique'
<1>1. Known \subseteq Sessions
  BY NoSessionType DEF Known, TypeOK, Logins
<1>2. \A t \in Known : t.id \in Nat /\ t.rt \in Nat /\ t.id <= issued /\ t.rt <= issued
  BY <1>1 DEF IdsAreUnique, Sessions, Ids
<1>3. issued \in Nat
  BY DEF TypeOK, Ids
<1>4. \A t \in Known : t.id # s.id
  BY <1>2, <1>3
<1>5. s.id \in Nat /\ s.rt \in Nat
  BY DEF Sessions, Ids
<1>6. \A t \in Known' : t.id <= issued' /\ t.rt <= issued'
  BY <1>2, <1>3, <1>5
<1>7. \A t, u \in Known' : t.id = u.id => t = u
  BY <1>4 DEF IdsAreUnique
<1> QED
  BY <1>6, <1>7 DEF IdsAreUnique

LEMMA UniqueStep == IInv /\ [Next]_vars => IdsAreUnique'
<1> SUFFICES ASSUME IInv, [Next]_vars PROVE IdsAreUnique'
  OBVIOUS
<1> USE DEF IInv, TypeOK
<1>0. CASE UNCHANGED vars
  BY <1>0 DEF vars, IdsAreUnique, Known
<1>1. ASSUME NEW c \in Callers, CallerStep(c) PROVE IdsAreUnique'
  <2>1. CASE Begin(c)
    <3>1. Known' \subseteq Known /\ issued' = issued
      BY <2>1 DEF Begin, SeenIsSaved, Known, Return, Fail, GoOn, callerVars, serverVars, Issue, Rotate, Refreshed, Adoptable, Usable, NoLogin
    <3> QED
      BY <3>1, UniqueKept
  <2>2. CASE Drop(c)
    <3>1. Known' \subseteq Known /\ issued' = issued
      BY <2>2 DEF Drop, SeenIsSaved, Known, Return, Fail, GoOn, callerVars, serverVars, Issue, Rotate, Refreshed, Adoptable, Usable, NoLogin
    <3> QED
      BY <3>1, UniqueKept
  <2>3. CASE Load(c)
    <3>1. Known' \subseteq Known /\ issued' = issued
      BY <2>3 DEF Load, SeenIsSaved, Known, Return, Fail, GoOn, callerVars, serverVars, Issue, Rotate, Refreshed, Adoptable, Usable, NoLogin
    <3> QED
      BY <3>1, UniqueKept
  <2>4. CASE StepFails(c)
    <3>1. Known' \subseteq Known /\ issued' = issued
      BY <2>4 DEF StepFails, SeenIsSaved, Known, Return, Fail, GoOn, callerVars, serverVars, Issue, Rotate, Refreshed, Adoptable, Usable, NoLogin
    <3> QED
      BY <3>1, UniqueKept
  <2>5. CASE RefreshRefused(c)
    <3>1. Known' \subseteq Known /\ issued' = issued
      BY <2>5 DEF RefreshRefused, SeenIsSaved, Known, Return, Fail, GoOn, callerVars, serverVars, Issue, Rotate, Refreshed, Adoptable, Usable, NoLogin
    <3> QED
      BY <3>1, UniqueKept
  <2>6. ASSUME NEW rotate \in BOOLEAN, RefreshOk(c, rotate) PROVE IdsAreUnique'
    <3> DEFINE s == Refreshed(work[c], rotate)
    <3>1. /\ s \in Sessions
          /\ s.id = issued + 1
          /\ issued' = issued + 1
      BY <2>6 DEF RefreshOk, Issue, Refreshed
    <3>2. work[c].rt <= issued /\ work[c].rt \in Nat /\ issued \in Nat
      BY DEF IdsAreUnique, Known, Sessions, Ids
    <3>3. s.rt <= issued + 1
      BY <3>2 DEF Refreshed
    <3>4. Known' \subseteq Known \cup {s}
      BY <2>6 DEF RefreshOk, Known, Fail, GoOn
    <3> QED
      BY <3>1, <3>3, <3>4, UniqueNew
  <2>7. ASSUME NEW rotate \in BOOLEAN, RefreshLost(c, rotate) PROVE IdsAreUnique'
    <3> DEFINE s == Refreshed(work[c], rotate)
    <3>1. /\ s \in Sessions
          /\ s.id = issued + 1
          /\ issued' = issued + 1
      BY <2>7 DEF RefreshLost, Issue, Refreshed
    <3>2. work[c].rt <= issued /\ work[c].rt \in Nat /\ issued \in Nat
      BY DEF IdsAreUnique, Known, Sessions, Ids
    <3>3. s.rt <= issued + 1
      BY <3>2 DEF Refreshed
    <3>4. Known' \subseteq Known \cup {s}
      BY <2>7 DEF RefreshLost, Known, Fail, GoOn
    <3> QED
      BY <3>1, <3>3, <3>4, UniqueNew
  <2>8. CASE Save(c)
    <3>1. Known' \subseteq Known /\ issued' = issued
      BY <2>8 DEF Save, SeenIsSaved, Known, Return, Fail, GoOn, callerVars, serverVars, Issue, Rotate, Refreshed, Adoptable, Usable, NoLogin
    <3> QED
      BY <3>1, UniqueKept
  <2>9. CASE SaveFails(c)
    <3>1. Known' \subseteq Known /\ issued' = issued
      BY <2>9 DEF SaveFails, SeenIsSaved, Known, Return, Fail, GoOn, callerVars, serverVars, Issue, Rotate, Refreshed, Adoptable, Usable, NoLogin
    <3> QED
      BY <3>1, UniqueKept
  <2>10. CASE Publish(c)
    <3>1. Known' \subseteq Known /\ issued' = issued
      BY <2>10 DEF Publish, SeenIsSaved, Known, Return, Fail, GoOn, callerVars, serverVars, Issue, Rotate, Refreshed, Adoptable, Usable, NoLogin
    <3> QED
      BY <3>1, UniqueKept
  <2>11. CASE Answered(c)
    <3>1. Known' \subseteq Known /\ issued' = issued
      BY <2>11 DEF Answered, SeenIsSaved, Known, Return, Fail, GoOn, callerVars, serverVars, Issue, Rotate, Refreshed, Adoptable, Usable, NoLogin
    <3> QED
      BY <3>1, UniqueKept
  <2>12. CASE Unauthorized(c)
    <3>1. Known' \subseteq Known /\ issued' = issued
      BY <2>12 DEF Unauthorized, SeenIsSaved, Known, Return, Fail, GoOn, callerVars, serverVars, Issue, Rotate, Refreshed, Adoptable, Usable, NoLogin
    <3> QED
      BY <3>1, UniqueKept
  <2>13. CASE LockSession(c)
    <3>1. Known' \subseteq Known /\ issued' = issued
      BY <2>13 DEF LockSession, SeenIsSaved, Known, Return, Fail, GoOn, callerVars, serverVars, Issue, Rotate, Refreshed, Adoptable, Usable, NoLogin
    <3> QED
      BY <3>1, UniqueKept
  <2>14. CASE LockUnauthorized(c)
    <3>1. Known' \subseteq Known /\ issued' = issued
      BY <2>14 DEF LockUnauthorized, SeenIsSaved, Known, Return, Fail, GoOn, callerVars, serverVars, Issue, Rotate, Refreshed, Adoptable, Usable, NoLogin
    <3> QED
      BY <3>1, UniqueKept
  <2> QED
    BY <1>1, <2>1, <2>2, <2>3, <2>4, <2>5, <2>6, <2>7, <2>8, <2>9, <2>10, <2>11, <2>12, <2>13, <2>14 DEF CallerStep
<1>2. CASE OtherStep
  <2>1. ASSUME NEW l \in late, LateSave(l) PROVE IdsAreUnique'
    <3>1. Known' \subseteq Known /\ issued' = issued
      BY <2>1 DEF LateSave, SeenIsSaved, Known, Return, Fail, GoOn, callerVars, serverVars, Issue, Rotate, Refreshed, Adoptable, Usable, NoLogin
    <3> QED
      BY <3>1, UniqueKept
  <2>2. ASSUME NEW p \in Procs, Crash(p) PROVE IdsAreUnique'
    <3>1. Known' \subseteq Known /\ issued' = issued
      BY <2>2 DEF Crash, SeenIsSaved, Known, Return, Fail, GoOn, callerVars, serverVars, Issue, Rotate, Refreshed, Adoptable, Usable, NoLogin
    <3> QED
      BY <3>1, UniqueKept
  <2>3. ASSUME NEW i \in Ids, Expire(i) PROVE IdsAreUnique'
    <3>1. Known' \subseteq Known /\ issued' = issued
      BY <2>3 DEF Expire, SeenIsSaved, Known, Return, Fail, GoOn, callerVars, serverVars, Issue, Rotate, Refreshed, Adoptable, Usable, NoLogin
    <3> QED
      BY <3>1, UniqueKept
  <2>4. CASE LoginBegin
    <3>1. Known' \subseteq Known /\ issued' = issued
      BY <2>4 DEF LoginBegin, SeenIsSaved, Known, Return, Fail, GoOn, callerVars, serverVars, Issue, Rotate, Refreshed, Adoptable, Usable, NoLogin
    <3> QED
      BY <3>1, UniqueKept
  <2>5. CASE LoginGranted
    <3> DEFINE s == [id |-> issued + 1, rt |-> issued + 1, gen |-> 0]
    <3>1. s \in Sessions /\ issued' = issued + 1
      BY <2>5 DEF LoginGranted, Issue, Sessions, Ids
    <3>2. Known' \subseteq Known \cup {s}
      BY <2>5 DEF LoginGranted, Known, callerVars
    <3>3. s.rt <= issued + 1
      BY DEF Ids
    <3> QED
      BY <3>1, <3>2, <3>3, UniqueNew
  <2>6. CASE LoginSave
    <3>1. Known' \subseteq Known /\ issued' = issued
      BY <2>6 DEF LoginSave, SeenIsSaved, Known, Return, Fail, GoOn, callerVars, serverVars, Issue, Rotate, Refreshed, Adoptable, Usable, NoLogin
    <3> QED
      BY <3>1, UniqueKept
  <2>7. CASE LoginEnds
    <3>1. Known' \subseteq Known /\ issued' = issued
      BY <2>7 DEF LoginEnds, SeenIsSaved, Known, Return, Fail, GoOn, callerVars, serverVars, Issue, Rotate, Refreshed, Adoptable, Usable, NoLogin
    <3> QED
      BY <3>1, UniqueKept
  <2>8. CASE Logout
    <3>1. Known' \subseteq Known /\ issued' = issued
      BY <2>8 DEF Logout, SeenIsSaved, Known, Return, Fail, GoOn, callerVars, serverVars, Issue, Rotate, Refreshed, Adoptable, Usable, NoLogin
    <3> QED
      BY <3>1, UniqueKept
  <2> QED
    BY <1>2, <2>1, <2>2, <2>3, <2>4, <2>5, <2>6, <2>7, <2>8 DEF OtherStep
<1> QED
  BY <1>0, <1>1, <1>2, StepCases

----------------------------------------------------------------------------
LEMMA Initially == Init => IInv
<1> SUFFICES ASSUME Init PROVE IInv
  OBVIOUS
<1>1. FirstSession \in Sessions /\ NoSession \in Sessions
  BY NoSessionType DEF FirstSession, Sessions, Ids
<1>2. lost \in BOOLEAN
  BY Zenon DEF Init
<1>3. TypeOK
  BY <1>1, <1>2 DEF Init, TypeOK, Logins, NoLogin, Ids
<1>4. GateExcludes /\ GenerationsFit /\ SeenIsSaved
  BY DEF Init, GateExcludes, GateHolder, GenerationsFit, GenerationOf, SeenIsSaved
<1>5. Known \subseteq {FirstSession, NoSession}
  BY DEF Init, Known, NoLogin
<1>6. IdsAreUnique
  BY <1>5 DEF Init, IdsAreUnique, FirstSession, NoSession
<1>7. LoginIsPrivate /\ TokensAreLive /\ StoreIsLive
  BY DEF Init, LoginIsPrivate, TokensAreLive, StoreIsLive, NoLogin, FirstSession
<1> QED
  BY <1>3, <1>4, <1>6, <1>7 DEF IInv

\* IInv is an invariant of the session protocol, for any number of callers and
\* processes.
THEOREM Invariance == Spec => []IInv
<1>1. IInv /\ [Next]_vars => IInv'
  BY TypeStep, GateStep, UniqueStep, SeenStep, GenerationStep, LoginStep,
     TokensStep, StoreStep DEF IInv
<1> QED
  BY Initially, <1>1, PTL DEF Spec

\* Type correctness of callers, caches, store, login and server.
THEOREM TypeCorrect == Spec => []TypeOK
<1>1. IInv => TypeOK
  BY DEF IInv
<1> QED
  BY Invariance, <1>1, PTL

\* After a 401 the request is never repeated with the rejected session: what
\* refresh_after_unauthorized() returns has another generation, and both it
\* and the rejected session were saved, where an id names one session.
THEOREM ReplayIsOther == Spec => []ReplayUsesOtherSession
<1>1. IInv => ReplayUsesOtherSession
  <2> SUFFICES ASSUME IInv, NEW c \in Callers, pc[c] = "resend"
               PROVE  work[c].id # sess[c].id
    BY DEF ReplayUsesOtherSession
  <2>1. work[c] \in saved /\ sess[c] \in saved /\ work[c].gen # sess[c].gen
    BY DEF IInv, SeenIsSaved, GenerationsFit, GenerationOf
  <2> QED
    BY <2>1 DEF IInv, IdsAreUnique, Known
<1> QED
  BY Invariance, <1>1, PTL

\* Every session a request is sent with, and every cached one, has been saved.
THEOREM Durable == Spec => []UsedIsDurable
<1>1. IInv => UsedIsDurable
  BY DEF IInv, SeenIsSaved, UsedIsDurable
<1> QED
  BY Invariance, <1>1, PTL

\* Without a loss in one of the named windows the store holds a refresh token
\* the server accepts, or its successor is about to be saved.
THEOREM StoreLive == Spec => []StoreIsLive
<1>1. IInv => StoreIsLive
  BY DEF IInv
<1> QED
  BY Invariance, <1>1, PTL

----------------------------------------------------------------------------
(* What a save puts into the store. *)

\* A session that waits for its save, in a caller or in the thread a dropped caller
\* left behind, has never been stored and waits there alone.
AwaitsSave ==
  /\ \A c \in Callers : pc[c] = "save" =>
       /\ work[c] \notin saved \cup {NoSession}
       /\ \A d \in Callers : pc[d] = "save" /\ work[d] = work[c] => d = c
       /\ \A l \in late : l[2] # work[c]
  /\ \A l \in late :
       /\ l[2] \notin saved \cup {NoSession}
       /\ \A m \in late : m[2] = l[2] => m = l

\* A step that changes the store empties it or brings a session it never held.
StoreMovesOn == store' \in {store, NoSession} \/ store' \notin saved

\* A refreshed session is new: its id is the newest.
LEMMA RefreshIsNew ==
  ASSUME IInv, NEW c \in Callers, NEW rotate \in BOOLEAN,
         Refreshed(work[c], rotate) \in Sessions
  PROVE  Refreshed(work[c], rotate) \notin Known
<1>1. Refreshed(work[c], rotate).id = issued + 1 /\ issued \in Nat
  BY DEF Refreshed, IInv, TypeOK, Ids
<1>2. \A s \in Known : s.id <= issued
  BY DEF IInv, IdsAreUnique
<1>3. ~(issued + 1 <= issued)
  BY <1>1
<1> QED
  BY <1>1, <1>2, <1>3

\* A step in which no session begins to wait and none is stored.
LEMMA NobodyNewAwaits ==
  ASSUME AwaitsSave, saved' = saved, late' \subseteq late,
         \A c \in Callers : pc'[c] = "save" => pc[c] = "save" /\ work'[c] = work[c]
  PROVE  AwaitsSave'
BY DEF AwaitsSave

\* A save takes its session out of those that wait; a login's is nobody else's.
LEMMA AwaitsStep ==
  IInv /\ AwaitsSave /\ [Next]_vars => AwaitsSave' /\ StoreMovesOn
<1> SUFFICES ASSUME IInv, AwaitsSave, [Next]_vars PROVE AwaitsSave' /\ StoreMovesOn
  OBVIOUS
<1> DEFINE Goal == AwaitsSave' /\ StoreMovesOn
<1> USE DEF IInv, TypeOK, StoreMovesOn
<1>1. CASE UNCHANGED vars
  BY <1>1, NobodyNewAwaits DEF vars
<1>2. ASSUME NEW c \in Callers, CallerStep(c) PROVE Goal
  <2>1. CASE Begin(c)
    BY <2>1, NobodyNewAwaits DEF Begin, Return, Fail, GoOn, callerVars, serverVars
  <2>2. CASE Load(c)
    BY <2>2, NobodyNewAwaits DEF Load, Return, Fail, GoOn, callerVars, serverVars
  <2>3. CASE StepFails(c)
    BY <2>3, NobodyNewAwaits DEF StepFails, Return, Fail, GoOn, callerVars, serverVars
  <2>4. CASE RefreshRefused(c)
    BY <2>4, NobodyNewAwaits DEF RefreshRefused, Return, Fail, GoOn, callerVars, serverVars
  <2>5. CASE SaveFails(c)
    BY <2>5, NobodyNewAwaits DEF SaveFails, Return, Fail, GoOn, callerVars, serverVars
  <2>6. CASE Publish(c)
    BY <2>6, NobodyNewAwaits DEF Publish, Return, Fail, GoOn, callerVars, serverVars
  <2>7. CASE Answered(c)
    BY <2>7, NobodyNewAwaits DEF Answered, Return, Fail, GoOn, callerVars, serverVars
  <2>8. CASE Unauthorized(c)
    BY <2>8, NobodyNewAwaits DEF Unauthorized, Return, Fail, GoOn, callerVars, serverVars
  <2>9. CASE LockSession(c)
    BY <2>9, NobodyNewAwaits DEF LockSession, Return, Fail, GoOn, callerVars, serverVars
  <2>10. CASE LockUnauthorized(c)
    BY <2>10, NobodyNewAwaits DEF LockUnauthorized, Return, Fail, GoOn, callerVars, serverVars
  <2>11. CASE Drop(c)
    <3>1. CASE late' = late
      BY <2>11, <3>1, NobodyNewAwaits DEF Drop, Fail
    <3>2. CASE pc[c] = "save" /\ late' = late \cup {<<home[c], work[c]>>}
      BY <2>11, <3>2 DEF Drop, Fail, AwaitsSave
    <3> QED
      BY <2>11, <3>1, <3>2 DEF Drop
  <2>12. ASSUME NEW rotate \in BOOLEAN, RefreshOk(c, rotate) PROVE Goal
    <3> DEFINE s == Refreshed(work[c], rotate)
    <3>1. s \notin Known
      BY <2>12, RefreshIsNew DEF RefreshOk
    <3>2. work'[c] = s /\ \A d \in Callers \ {c} : work'[d] = work[d] /\ pc'[d] = pc[d]
      BY <2>12 DEF RefreshOk, GoOn
    <3>3. saved' = saved /\ late' = late /\ store' = store
      BY <2>12 DEF RefreshOk
    <3> HIDE DEF s
    <3> QED
      BY <3>1, <3>2, <3>3 DEF AwaitsSave, Known
  <2>13. ASSUME NEW rotate \in BOOLEAN, RefreshLost(c, rotate) PROVE Goal
    BY <2>13, NobodyNewAwaits DEF RefreshLost, Fail
  <2>14. CASE Save(c)
    <3>1. /\ saved' = saved \cup {work[c]} /\ late' = late
          /\ work' = work /\ pc' = [pc EXCEPT ![c] = "cache"]
      BY <2>14 DEF Save, GoOn
    <3>2. AwaitsSave'
      BY <2>14, <3>1 DEF Save, AwaitsSave
    <3>3. StoreMovesOn
      BY <2>14 DEF Save, AwaitsSave
    <3> QED
      BY <3>2, <3>3
  <2> QED
    BY <1>2, <2>1, <2>2, <2>3, <2>4, <2>5, <2>6, <2>7, <2>8, <2>9, <2>10, <2>11, <2>12, <2>13, <2>14 DEF CallerStep
<1>3. CASE OtherStep
  <2>1. ASSUME NEW l \in late, LateSave(l) PROVE Goal
    BY <2>1 DEF LateSave, AwaitsSave, callerVars
  <2>2. ASSUME NEW p \in Procs, Crash(p) PROVE Goal
    BY <2>2, NobodyNewAwaits DEF Crash
  <2>3. ASSUME NEW i \in Ids, Expire(i) PROVE Goal
    BY <2>3, NobodyNewAwaits DEF Expire, callerVars
  <2>4. CASE LoginBegin
    BY <2>4, NobodyNewAwaits DEF LoginBegin, callerVars
  <2>5. CASE LoginGranted
    BY <2>5, NobodyNewAwaits DEF LoginGranted, callerVars
  <2>6. CASE LoginSave
    BY <2>6 DEF LoginSave, AwaitsSave, LoginIsPrivate, callerVars
  <2>7. CASE LoginEnds
    BY <2>7, NobodyNewAwaits DEF LoginEnds, callerVars
  <2>8. CASE Logout
    BY <2>8, NobodyNewAwaits DEF Logout, callerVars
  <2> QED
    BY <1>3, <2>1, <2>2, <2>3, <2>4, <2>5, <2>6, <2>7, <2>8 DEF OtherStep
<1> QED
  BY <1>1, <1>2, <1>3, StepCases

\* No session comes back: what a refresh, a login, or the save a dropped future left
\* behind puts into the store was never there before, although processes share it
\* without a lock and saves may be arbitrarily late.
THEOREM NothingComesBack == Spec => [][StoreMovesOn]_vars
<1>1. Init => AwaitsSave
  BY DEF Init, AwaitsSave
<1> QED
  BY <1>1, Invariance, AwaitsStep, PTL DEF Spec
=============================================================================
