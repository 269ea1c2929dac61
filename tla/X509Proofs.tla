----------------------------- MODULE X509Proofs -----------------------------
(***************************************************************************)
(* Proofs about the X.509 credential: the token manager, X509Tokens, for   *)
(* any set of callers and any number of attempts, and at the end the       *)
(* request lane, X509Request.                                              *)
(*                                                                         *)
(* What makes the safety properties of the manager inductive: the slot     *)
(* always names the newest attempt, started in the current generation, so  *)
(* that nothing but that attempt and an invalidation, which frees the      *)
(* slot, can change the cached token while the attempt holds it as its     *)
(* fallback.                                                               *)
(***************************************************************************)
EXTENDS X509Tokens, X509Request, TLAPS

USE MaxAttemptAssumption

\* An attempt may advance the generation once for its token and once for the
\* invalidation of that token.
Count ==
  generation + (IF cached = 0 THEN 0 ELSE 1) + (IF active_attempt = 0 THEN 0 ELSE 2)
    <= 2 * next_attempt

\* Attempts are started in order and each of them in a generation so far.
InOrder ==
  \A a \in Attempts :
    /\ task[a].generation <= generation
    /\ a > next_attempt => task[a] = NoTask

Numbers == Count /\ InOrder

\* The slot names the newest attempt, which is of the current generation.
Slot ==
  /\ active_attempt # 0 => /\ active_attempt = next_attempt
                           /\ task[active_attempt].generation = generation
  /\ SingleFlight

\* Tokens carry the generations so far, revoked ones are no longer cached.
Cache ==
  /\ \A g \in installed : g <= generation
  /\ cached # 0 => cached \in installed /\ cached \notin revoked
  /\ revoked \subseteq installed

Handover == completed_attempt.result = "lease" =>
  completed_attempt.token = cached /\ cached # 0

\* A lease is a token that was cached, a rejected token is no longer cached.
Leases ==
  \A c \in Callers :
    /\ pc[c] = "leased" => lease[c] \in installed
    /\ pc[c] # "leased" => lease[c] = 0
    /\ rejected[c] # 0 => rejected[c] \in installed /\ rejected[c] # cached
    /\ pc[c] = "leased" /\ rejected[c] # 0 => lease[c] # rejected[c]

\* Whoever waits, waits for an attempt; whoever is parked, for its notification.
Waiters ==
  /\ \A c \in Callers :
       pc[c] \in {"listen", "check", "rung", "parked"} => waiting[c] \in Attempts
  /\ ParkedIsOwedNotify

Shared == Numbers /\ Slot /\ Cache /\ Handover /\ FallbackIsCached

\* The inductive invariant.
Inv == TypeOK /\ Shared /\ Leases /\ Waiters

-----------------------------------------------------------------------------

LEMMA InitInv == Init => Inv
<1> SUFFICES ASSUME Init PROVE Inv
  OBVIOUS
<1> USE DEF Init, NoTask, NoResult, Attempts
<1>1. TypeOK
  BY DEF TypeOK, Stages, Locations, Outcomes
<1>2. Numbers /\ Slot /\ Cache /\ Handover /\ FallbackIsCached
  BY DEF Numbers, InOrder, Count, Slot, SingleFlight, Unfinished, Cache, Handover,
         FallbackIsCached, Current
<1>3. Leases /\ Waiters
  BY DEF Leases, Waiters, ParkedIsOwedNotify
<1> QED
  BY <1>1, <1>2, <1>3 DEF Inv, Shared

\* What a caller does to its own bookkeeping disturbs none of the shared state.
LEMMA CallerFrame ==
  ASSUME Inv, UNCHANGED <<cached, slot, clock, task, history>>,
         pc' \in [Callers -> Locations], waiting' \in [Callers -> 0..MaxAttempt],
         lease' \in [Callers -> Nat], rejected' \in [Callers -> Nat]
  PROVE  TypeOK' /\ Shared'
<1> USE DEF Inv, slot, clock, history
<1>1. TypeOK'
  BY DEF TypeOK
<1>2. Numbers' /\ Cache' /\ Handover'
  BY DEF Shared, Numbers, InOrder, Count, Cache, Handover
<1>3. Slot' /\ FallbackIsCached'
  BY DEF Shared, Slot, SingleFlight, Unfinished, FallbackIsCached, Current
<1> QED
  BY <1>1, <1>2, <1>3 DEF Shared

\* The steps of a caller that change nothing but its own bookkeeping.
LEMMA OwnStepInv ==
  ASSUME Inv, NEW c \in Callers,
         Request(c) \/ WaitListen(c) \/ Cancel(c) \/ Answered(c) \/ WaitInvalidated(c)
  PROVE  Inv'
<1> USE DEF Inv, Request, WaitListen, Cancel, Answered, WaitInvalidated, Goto, Hold
<1>1. TypeOK' /\ Shared'
  <2>1. /\ pc' \in [Callers -> Locations] /\ waiting' \in [Callers -> 0..MaxAttempt]
        /\ lease' \in [Callers -> Nat] /\ rejected' \in [Callers -> Nat]
    BY DEF TypeOK, Locations
  <2> QED
    BY <2>1, CallerFrame
<1>2. Leases'
  BY DEF TypeOK, Leases, history
<1>3. Waiters'
  BY DEF TypeOK, Waiters, ParkedIsOwedNotify
<1> QED
  BY <1>1, <1>2, <1>3

LEMMA LeaseCachedInv == ASSUME Inv, NEW c \in Callers, LeaseCached(c) PROVE Inv'
<1> USE DEF Inv, LeaseCached, Goto, Hold
<1>1. TypeOK' /\ Shared'
  BY CallerFrame DEF TypeOK, Locations
<1>2. Leases'
  BY DEF TypeOK, Leases, Shared, Cache, history
<1>3. Waiters'
  BY DEF TypeOK, Waiters, ParkedIsOwedNotify
<1> QED
  BY <1>1, <1>2, <1>3

LEMMA LeaseJoinInv == ASSUME Inv, NEW c \in Callers, LeaseJoin(c) PROVE Inv'
<1> USE DEF Inv, LeaseJoin, Goto
<1>1. TypeOK' /\ Shared'
  BY CallerFrame DEF TypeOK, Locations
<1>2. Leases'
  BY DEF TypeOK, Leases, history
<1>3. Waiters'
  BY DEF TypeOK, Waiters, ParkedIsOwedNotify, Attempts
<1> QED
  BY <1>1, <1>2, <1>3

LEMMA WaitResultInv == ASSUME Inv, NEW c \in Callers, WaitResult(c) PROVE Inv'
<1> USE DEF Inv, WaitResult, Goto, Hold
<1>1. TypeOK' /\ Shared'
  <2>1. /\ pc' \in [Callers -> Locations] /\ waiting' \in [Callers -> 0..MaxAttempt]
        /\ lease' \in [Callers -> Nat] /\ rejected' \in [Callers -> Nat]
    BY DEF TypeOK, Locations
  <2> QED
    BY <2>1, CallerFrame
<1>2. Leases'
  BY DEF TypeOK, Leases, Shared, Cache, Handover, history
<1>3. Waiters'
  BY DEF TypeOK, Waiters, ParkedIsOwedNotify
<1> QED
  BY <1>1, <1>2, <1>3

LEMMA WaitParkInv == ASSUME Inv, NEW c \in Callers, WaitPark(c) PROVE Inv'
<1> USE DEF Inv, WaitPark, Goto
<1>1. TypeOK' /\ Shared'
  BY CallerFrame DEF TypeOK, Locations
<1>2. Leases'
  BY DEF TypeOK, Leases, history
<1>3. waiting[c] \in Attempts /\ task[waiting[c]].stage \in {"exchange", "complete"}
  BY DEF Waiters, Attempts, Shared, Slot, SingleFlight, Unfinished
<1>4. Waiters'
  BY <1>3 DEF TypeOK, Waiters, ParkedIsOwedNotify, Attempts
<1> QED
  BY <1>1, <1>2, <1>4

LEMMA InvalidateNotifyInv ==
  ASSUME Inv, NEW c \in Callers, InvalidateNotify(c) PROVE Inv'
<1> USE DEF Inv, InvalidateNotify, Wake
<1>1. TypeOK' /\ Shared'
  BY CallerFrame DEF TypeOK, Locations
<1>2. Leases'
  BY DEF TypeOK, Leases, history
<1>3. Waiters'
  BY DEF TypeOK, Waiters, ParkedIsOwedNotify
<1> QED
  BY <1>1, <1>2, <1>3

-----------------------------------------------------------------------------

LEMMA LeaseStartInv == ASSUME Inv, NEW c \in Callers, LeaseStart(c) PROVE Inv'
<1> USE DEF Inv, LeaseStart, Goto
<1> DEFINE new == next_attempt + 1
           born == [stage |-> "exchange", generation |-> generation,
                    fallback |-> IF cached \in expired THEN 0 ELSE cached,
                    outcome |-> "fatal"]
<1>1. new \in Attempts /\ task[new] = NoTask /\ next_attempt \in Nat
  BY DEF TypeOK, Shared, Numbers, InOrder, Attempts
<1>2. /\ next_attempt' = new /\ active_attempt' = new
      /\ task' = [task EXCEPT ![new] = born]
  OBVIOUS
<1>3. TypeOK'
  <2>1. /\ next_attempt' \in 0..MaxAttempt /\ active_attempt' \in 0..MaxAttempt
        /\ waiting' \in [Callers -> 0..MaxAttempt] /\ pc' \in [Callers -> Locations]
    BY <1>1 DEF TypeOK, Attempts, Locations
  <2>2. born \in [stage : Stages, generation : Nat, fallback : Nat, outcome : Outcomes]
    BY DEF TypeOK, Stages, Outcomes
  <2>3. task' \in [Attempts -> [stage : Stages, generation : Nat,
                               fallback : Nat, outcome : Outcomes]]
    BY <1>1, <1>2, <2>2 DEF TypeOK
  <2>4. completed_attempt' \in [attempt : 0..MaxAttempt, token : Nat,
                                result : {"lease", "error", "invalidated"}]
    BY DEF NoResult
  <2> QED
    BY <2>1, <2>3, <2>4 DEF TypeOK, clock, history
<1>4. Numbers'
  BY <1>1, <1>2 DEF TypeOK, Shared, Numbers, InOrder, Count, Attempts
<1>5. Slot'
  BY <1>1, <1>2 DEF TypeOK, Shared, Slot, SingleFlight, Unfinished, NoTask, Numbers, InOrder, Attempts
<1>6. Cache' /\ Handover'
  BY DEF Shared, Cache, Handover, NoResult, history
<1>7. FallbackIsCached'
  BY <1>1, <1>2 DEF TypeOK, FallbackIsCached, Current
<1>8. Leases'
  BY DEF TypeOK, Leases, history
<1>9. Waiters'
  <2> SUFFICES ASSUME NEW d \in Callers
               PROVE  /\ pc'[d] \in {"listen", "check", "rung", "parked"} => waiting'[d] \in Attempts
                      /\ pc'[d] = "parked" =>
                           /\ waiting'[d] # 0
                           /\ task'[waiting'[d]].stage \in {"exchange", "complete", "notify"}
    BY DEF Waiters, ParkedIsOwedNotify
  <2>1. CASE d = c
    BY <1>1, <2>1 DEF TypeOK
  <2>2. CASE d # c
    <3>1. pc'[d] = pc[d] /\ waiting'[d] = waiting[d]
      BY <2>2 DEF TypeOK
    <3> QED
      BY <1>1, <1>2, <3>1 DEF TypeOK, Waiters, ParkedIsOwedNotify, NoTask
  <2> QED
    BY <2>1, <2>2
<1> QED
  BY <1>3, <1>4, <1>5, <1>6, <1>7, <1>8, <1>9 DEF Shared

LEMMA UnauthorizedInv == ASSUME Inv, NEW c \in Callers, Unauthorized(c) PROVE Inv'
<1> USE DEF Inv, Unauthorized, HoldsCached, Goto, Hold
<1>1. lease[c] \in installed /\ lease[c] # 0
  BY DEF Leases, TypeOK
<1>2. CASE cached = lease[c]
  <2>1. /\ cached \in installed /\ cached # 0 /\ cached' = 0
        /\ generation' = generation + 1 /\ active_attempt' = 0
        /\ next_attempt' = next_attempt /\ completed_attempt' = NoResult
        /\ revoked' = revoked \cup {cached}
    BY <1>1, <1>2 DEF Invalidate
  <2>2. TypeOK'
    <3>1. revoked' \subseteq Nat \ {0}
      BY <2>1 DEF TypeOK
    <3>2. /\ pc' \in [Callers -> Locations] /\ lease' \in [Callers -> Nat]
          /\ rejected' \in [Callers -> Nat]
      BY <1>2 DEF TypeOK, Locations
    <3>3. completed_attempt' \in [attempt : 0..MaxAttempt, token : Nat,
                                  result : {"lease", "error", "invalidated"}]
      BY <2>1 DEF NoResult
    <3> QED
      BY <2>1, <3>1, <3>2, <3>3 DEF TypeOK, clock
  <2>3. Numbers'
    BY <2>1 DEF TypeOK, Shared, Numbers, InOrder, Count
  <2>4. Slot'
    BY <2>1 DEF TypeOK, Shared, Numbers, InOrder, Slot, SingleFlight, Unfinished
  <2>5. Cache'
    BY <2>1 DEF TypeOK, Shared, Cache
  <2>6. Handover' /\ FallbackIsCached'
    BY <2>1 DEF Handover, NoResult, FallbackIsCached, Current, Attempts
  <2>7. Leases'
    BY <1>1, <1>2, <2>1 DEF TypeOK, Leases
  <2>8. Waiters'
    BY <1>2 DEF TypeOK, Waiters, ParkedIsOwedNotify
  <2> QED
    BY <2>2, <2>3, <2>4, <2>5, <2>6, <2>7, <2>8 DEF Shared
<1>3. CASE cached # lease[c]
  <2>1. TypeOK' /\ Shared'
    <3>1. /\ pc' \in [Callers -> Locations] /\ waiting' \in [Callers -> 0..MaxAttempt]
          /\ lease' \in [Callers -> Nat] /\ rejected' \in [Callers -> Nat]
      BY <1>3 DEF TypeOK, Locations
    <3> QED
      BY <1>3, <3>1, CallerFrame DEF history
  <2>2. Leases'
    BY <1>1, <1>3 DEF TypeOK, Leases
  <2>3. Waiters'
    BY <1>3 DEF TypeOK, Waiters, ParkedIsOwedNotify
  <2> QED
    BY <2>1, <2>2, <2>3
<1> QED
  BY <1>2, <1>3

-----------------------------------------------------------------------------

LEMMA ExchangeInv ==
  ASSUME Inv, NEW a \in Attempts, NEW outcome \in Outcomes, Exchange(a, outcome)
  PROVE  Inv'
<1> USE DEF Inv, Exchange, slot, clock, caller, history
<1>1. TypeOK'
  BY DEF TypeOK, Stages
<1>2. \A b \in Attempts : /\ task'[b].generation = task[b].generation
                          /\ task'[b].fallback = task[b].fallback
                          /\ Unfinished(b)' <=> Unfinished(b)
                          /\ b # a => task'[b] = task[b]
  BY DEF TypeOK, Unfinished
<1>3. Numbers'
  BY <1>2 DEF TypeOK, Shared, Numbers, InOrder, Count, NoTask
<1>4. Slot' /\ FallbackIsCached'
  <2>1. active_attempt # 0 => active_attempt \in Attempts
    BY DEF TypeOK, Attempts
  <2> QED
    BY <1>2, <2>1 DEF Shared, Slot, SingleFlight, FallbackIsCached, Current
<1>5. Cache' /\ Handover' /\ Leases'
  BY DEF Shared, Cache, Handover, Leases
<1>6. Waiters'
  BY DEF TypeOK, Waiters, ParkedIsOwedNotify
<1> QED
  BY <1>1, <1>3, <1>4, <1>5, <1>6 DEF Shared

\* What every way to complete an attempt has in common.
LEMMA LeaveResultFrame ==
  ASSUME Inv, NEW a \in Attempts, task[a].stage = "complete",
         NEW kind \in {"lease", "error", "invalidated"}, NEW token \in Nat,
         LeaveResult(a, kind, token),
         cached' \in Nat, generation' \in Nat, generation' >= generation
  PROVE  /\ active_attempt' \in 0..MaxAttempt
         /\ completed_attempt' \in [attempt : 0..MaxAttempt, token : Nat,
                                    result : {"lease", "error", "invalidated"}]
         /\ task' \in [Attempts -> [stage : Stages, generation : Nat,
                                    fallback : Nat, outcome : Outcomes]]
         /\ \A b \in Attempts : b # a => task'[b] = task[b]
         /\ task'[a].stage = "notify"
         /\ InOrder'
         /\ Waiters'
<1> USE DEF Inv, LeaveResult, GiveBack, caller
<1>1. /\ active_attempt' \in 0..MaxAttempt
      /\ completed_attempt' \in [attempt : 0..MaxAttempt, token : Nat,
                                 result : {"lease", "error", "invalidated"}]
  BY DEF TypeOK, Attempts
<1>2. /\ task' \in [Attempts -> [stage : Stages, generation : Nat,
                                 fallback : Nat, outcome : Outcomes]]
      /\ \A b \in Attempts : b # a => task'[b] = task[b]
      /\ task'[a].stage = "notify" /\ task'[a].generation = task[a].generation
  BY DEF TypeOK, Stages
<1>3. task[a] # NoTask
  BY DEF NoTask
<1>4. InOrder'
  BY <1>2, <1>3 DEF TypeOK, Shared, Numbers, InOrder
<1>5. Waiters'
  BY <1>2 DEF TypeOK, Waiters, ParkedIsOwedNotify
<1> QED
  BY <1>1, <1>2, <1>4, <1>5

LEMMA CompleteStaleInv == ASSUME Inv, NEW a \in Attempts, CompleteStale(a) PROVE Inv'
<1> USE DEF Inv, CompleteStale
<1>0. cached' \in Nat /\ generation' \in Nat /\ generation' >= generation
  BY DEF TypeOK
<1>1. /\ active_attempt' \in 0..MaxAttempt
      /\ completed_attempt' \in [attempt : 0..MaxAttempt, token : Nat,
                                 result : {"lease", "error", "invalidated"}]
      /\ task' \in [Attempts -> [stage : Stages, generation : Nat,
                                 fallback : Nat, outcome : Outcomes]]
      /\ \A b \in Attempts : b # a => task'[b] = task[b]
      /\ task'[a].stage = "notify"
      /\ InOrder'
      /\ Waiters'
  BY <1>0, LeaveResultFrame
<1>2. active_attempt # a
  BY DEF Current, Shared, Slot, SingleFlight, Unfinished, Attempts
<1>3. /\ UNCHANGED <<cached, generation, clock, installed, next_attempt, caller, revoked>>
      /\ active_attempt' = active_attempt /\ completed_attempt'.result = "invalidated"
  BY <1>2 DEF LeaveResult, GiveBack
<1>4. TypeOK'
  BY <1>1, <1>3 DEF TypeOK, clock, caller
<1>5. Numbers'
  <2>1. Count'
    BY <1>3 DEF Shared, Numbers, InOrder, Count
  <2> QED
    BY <1>1, <2>1 DEF Numbers
<1>6. Slot' /\ FallbackIsCached'
  <2>1. \A b \in Attempts : Unfinished(b)' => /\ b # a
                                             /\ task'[b] = task[b] /\ Unfinished(b)
    BY <1>1 DEF Unfinished
  <2>2. active_attempt # 0 => active_attempt \in Attempts \ {a}
    BY <1>2 DEF TypeOK, Attempts
  <2>3. active_attempt # 0 => task'[active_attempt] = task[active_attempt]
    BY <1>1, <2>2
  <2>4. active_attempt # 0 => Unfinished(active_attempt)'
    BY <1>3, <2>3 DEF Shared, Slot, SingleFlight, Unfinished
  <2>5. Slot'
    BY <1>3, <2>1, <2>3, <2>4 DEF Shared, Slot, SingleFlight
  <2> QED
    BY <1>3, <2>1, <2>5 DEF Shared, FallbackIsCached, Current
<1>7. Cache' /\ Handover' /\ Leases'
  BY <1>3 DEF Shared, Cache, Handover, Leases, caller
<1> QED
  BY <1>1, <1>4, <1>5, <1>6, <1>7 DEF Shared

\* The two things a current attempt may do to the cache.
Kept ==
  /\ cached' \in {0, cached}
  /\ generation' = generation
  /\ installed' = installed
Replaced ==
  /\ cached' = generation + 1
  /\ generation' = generation + 1
  /\ installed' = installed \cup {generation + 1}

\* An attempt that is still current gives the slot back, with whatever it does
\* to the cache.
LEMMA CompleteCurrentInv ==
  ASSUME Inv, NEW a \in Attempts, task[a].stage = "complete", Current(a),
         NEW kind \in {"lease", "error"}, NEW token \in Nat,
         LeaveResult(a, kind, token),
         due' \subseteq Nat, expired' \subseteq due',
         Kept \/ Replaced,
         kind = "lease" => token = cached' /\ token # 0
  PROVE  Inv'
<1> USE DEF Inv
<1>0. cached' \in Nat /\ generation' \in Nat /\ generation' >= generation
  BY DEF TypeOK, Kept, Replaced
<1>1. /\ active_attempt' \in 0..MaxAttempt
      /\ completed_attempt' \in [attempt : 0..MaxAttempt, token : Nat,
                                 result : {"lease", "error", "invalidated"}]
      /\ task' \in [Attempts -> [stage : Stages, generation : Nat,
                                 fallback : Nat, outcome : Outcomes]]
      /\ \A b \in Attempts : b # a => task'[b] = task[b]
      /\ task'[a].stage = "notify"
      /\ InOrder'
      /\ Waiters'
  BY <1>0, LeaveResultFrame
<1>2. /\ UNCHANGED <<next_attempt, caller, revoked>>
      /\ active_attempt' = 0 /\ active_attempt = a /\ a # 0
      /\ completed_attempt'.result = kind /\ completed_attempt'.token = token
  BY DEF LeaveResult, GiveBack, Current, Attempts
<1>3. TypeOK'
  <2>1. installed' \subseteq Nat \ {0}
    <3>1. CASE Kept
      BY <3>1 DEF TypeOK, Kept
    <3>2. CASE Replaced
      BY <3>2 DEF TypeOK, Replaced
    <3> QED
      BY <3>1, <3>2
  <2> QED
    BY <1>0, <1>1, <1>2, <2>1 DEF TypeOK, caller
<1>4. Numbers'
  <2>1. Count'
    <3>1. generation + (IF cached = 0 THEN 0 ELSE 1) + 2 <= 2 * next_attempt
      BY <1>2 DEF Shared, Numbers, InOrder, Count
    <3>2. CASE Kept
      BY <1>2, <3>1, <3>2 DEF TypeOK, Count, Kept
    <3>3. CASE Replaced
      BY <1>2, <3>1, <3>3 DEF TypeOK, Count, Replaced
    <3> QED
      BY <3>2, <3>3
  <2> QED
    BY <1>1, <2>1 DEF Numbers
<1>5. Slot' /\ FallbackIsCached'
  <2>1. \A b \in Attempts : Unfinished(b)' => /\ b # a
                                             /\ task'[b] = task[b] /\ Unfinished(b)
    BY <1>1 DEF Unfinished
  <2>2. ASSUME NEW b \in Attempts, Unfinished(b)'
        PROVE  task'[b].generation # generation'
    <3>1. b # a /\ task'[b] = task[b] /\ Unfinished(b)
      BY <2>1, <2>2
    <3>2. task[b].generation # generation /\ task[b].generation <= generation
      BY <1>2, <3>1 DEF Shared, Numbers, InOrder, Slot, SingleFlight
    <3>3. generation \in Nat /\ task[b].generation \in Nat
      BY DEF TypeOK
    <3> QED
      BY <3>1, <3>2, <3>3 DEF Kept, Replaced
  <2> QED
    BY <1>2, <2>2 DEF Slot, SingleFlight, FallbackIsCached, Current
<1>6. Cache'
  <2>1. generation + 1 \notin installed
    BY DEF TypeOK, Shared, Cache
  <2>2. CASE Kept
    BY <1>2, <2>2 DEF TypeOK, Shared, Cache, Kept
  <2>3. CASE Replaced
    <3>1. \A g \in installed' : g <= generation'
      BY <2>3 DEF TypeOK, Shared, Cache, Replaced
    <3>2. cached' \in installed' /\ cached' \notin revoked' /\ revoked' \subseteq installed'
      BY <1>2, <2>1, <2>3 DEF Shared, Cache, Replaced
    <3> QED
      BY <3>1, <3>2 DEF Cache
  <2> QED
    BY <2>2, <2>3
<1>7. Handover'
  BY <1>2 DEF Handover
<1>8. Leases'
  <2>1. \A c \in Callers : rejected[c] # 0 => rejected[c] # cached'
    BY <1>0 DEF TypeOK, Shared, Cache, Leases, Kept, Replaced
  <2>2. installed \subseteq installed'
    BY DEF Kept, Replaced
  <2> QED
    BY <1>2, <2>1, <2>2 DEF Leases, caller
<1> QED
  BY <1>1, <1>3, <1>4, <1>5, <1>6, <1>7, <1>8 DEF Shared

LEMMA CompleteInv == ASSUME Inv, NEW a \in Attempts, Complete(a) PROVE Inv'
<1> USE DEF Inv
<1>1. CASE CompleteStale(a)
  BY <1>1, CompleteStaleInv
<1>2. CASE CompleteInstall(a)
  <2>1. Replaced
    BY <1>2 DEF CompleteInstall, Replaced
  <2>2. generation' \in Nat /\ generation' # 0
    BY <1>2 DEF CompleteInstall, TypeOK
  <2> QED
    BY <1>2, <2>1, <2>2, CompleteCurrentInv DEF CompleteInstall, TypeOK, clock
<1>3. CASE CompleteExpired(a)
  BY <1>3, CompleteCurrentInv DEF CompleteExpired, Kept, TypeOK, clock
<1>4. CASE CompleteFallback(a)
  <2>1. task[a].fallback = cached /\ cached # 0 /\ cached \in installed
    BY <1>4 DEF CompleteFallback, FallbackUsable, Shared, FallbackIsCached, Unfinished, Cache
  <2>2. cached' = cached /\ cached \in Nat /\ Kept
    BY <1>4, <2>1 DEF CompleteFallback, Kept, TypeOK
  <2>3. due' \subseteq Nat /\ expired' \subseteq due'
    BY <1>4 DEF CompleteFallback, FallbackUsable, TypeOK
  <2> QED
    BY <1>4, <2>1, <2>2, <2>3, CompleteCurrentInv DEF CompleteFallback
<1>5. CASE CompleteFailed(a)
  BY <1>5, CompleteCurrentInv DEF CompleteFailed, Kept, TypeOK, clock
<1> QED
  BY <1>1, <1>2, <1>3, <1>4, <1>5 DEF Complete

LEMMA CompleteNotifyInv ==
  ASSUME Inv, NEW a \in Attempts, CompleteNotify(a) PROVE Inv'
<1> USE DEF Inv, CompleteNotify, slot, clock, history
<1>0. /\ task' = [task EXCEPT ![a] = Ended]
      /\ \A b \in Attempts : b # a => task'[b] = task[b]
      /\ task'[a] = Ended
  BY DEF TypeOK
<1>1. TypeOK'
  <2>1. Ended \in [stage : Stages, generation : Nat, fallback : Nat, outcome : Outcomes]
    BY DEF Ended, Stages, Outcomes
  <2>2. task' \in [Attempts -> [stage : Stages, generation : Nat,
                               fallback : Nat, outcome : Outcomes]]
    BY <1>0, <2>1 DEF TypeOK
  <2>3. pc' \in [Callers -> Locations]
    BY DEF TypeOK, Wake, Locations
  <2> QED
    BY <2>2, <2>3 DEF TypeOK
<1>2. Numbers'
  <2>1. a <= next_attempt
    BY DEF TypeOK, Shared, Numbers, InOrder, NoTask, Attempts
  <2>2. InOrder'
    BY <1>0, <2>1 DEF TypeOK, Shared, Numbers, InOrder, Ended, Attempts
  <2>3. Count'
    BY DEF Shared, Numbers, Count
  <2> QED
    BY <2>2, <2>3 DEF Numbers
<1>3. Slot' /\ FallbackIsCached'
  <2>1. \A b \in Attempts : Unfinished(b)' => /\ b # a
                                             /\ task'[b] = task[b] /\ Unfinished(b)
    BY <1>0 DEF Unfinished, Ended
  <2>2. active_attempt # 0 => active_attempt \in Attempts \ {a}
    BY DEF TypeOK, Attempts, Shared, Slot, SingleFlight, Unfinished
  <2>3. active_attempt # 0 => task'[active_attempt] = task[active_attempt]
    BY <1>0, <2>2
  <2>4. active_attempt # 0 => Unfinished(active_attempt)'
    BY <2>3 DEF Shared, Slot, SingleFlight, Unfinished
  <2>5. Slot'
    BY <2>1, <2>3, <2>4 DEF Shared, Slot, SingleFlight
  <2> QED
    BY <2>1, <2>5 DEF Shared, FallbackIsCached, Current
<1>4. Cache' /\ Handover'
  BY DEF Shared, Cache, Handover
<1>5. Leases'
  BY DEF TypeOK, Leases, Wake
<1>6. Waiters'
  BY DEF TypeOK, Waiters, ParkedIsOwedNotify, Wake
<1> QED
  BY <1>1, <1>2, <1>3, <1>4, <1>5, <1>6 DEF Shared

LEMMA AgeInv == ASSUME Inv, NEW g \in installed, Age(g) PROVE Inv'
<1> USE DEF Inv, Age, slot, caller, history
<1>1. TypeOK'
  BY DEF TypeOK
<1>2. Shared'
  BY DEF Shared, Numbers, InOrder, Count, Slot, SingleFlight, Unfinished, Cache, Handover,
         FallbackIsCached, Current
<1>3. Leases' /\ Waiters'
  BY DEF Leases, Waiters, ParkedIsOwedNotify
<1> QED
  BY <1>1, <1>2, <1>3

LEMMA NextInv == Inv /\ [Next]_vars => Inv'
<1> SUFFICES ASSUME Inv, [Next]_vars PROVE Inv'
  OBVIOUS
<1>1. CASE UNCHANGED vars
  <2>1. UNCHANGED <<cached, slot, clock, task, caller, history>>
    BY <1>1 DEF vars
  <2>2. TypeOK' /\ Shared'
    BY <2>1, CallerFrame DEF Inv, TypeOK, caller
  <2>3. Leases' /\ Waiters'
    BY <2>1 DEF Inv, Leases, Waiters, ParkedIsOwedNotify, caller, history
  <2> QED
    BY <2>2, <2>3 DEF Inv
<1>2. ASSUME NEW c \in Callers, CallerStep(c) PROVE Inv'
  BY <1>2, LeaseCachedInv, LeaseJoinInv, LeaseStartInv, OwnStepInv, WaitResultInv,
     WaitParkInv, InvalidateNotifyInv DEF CallerStep
<1>3. ASSUME NEW c \in Callers,
             Request(c) \/ Cancel(c) \/ Answered(c) \/ Unauthorized(c)
      PROVE  Inv'
  BY <1>3, OwnStepInv, UnauthorizedInv
<1>4. ASSUME NEW a \in Attempts, TaskStep(a) PROVE Inv'
  BY <1>4, ExchangeInv, CompleteInv, CompleteNotifyInv DEF TaskStep
<1>5. ASSUME NEW g \in installed, Age(g) PROVE Inv'
  BY <1>5, AgeInv
<1> QED
  BY <1>1, <1>2, <1>3, <1>4, <1>5 DEF Next

-----------------------------------------------------------------------------

\* The inductive invariant holds throughout.
THEOREM Invariance == Spec => []Inv
BY InitInv, NextInv, PTL DEF Spec

\* Every reachable state is well typed, for any number of callers and attempts;
\* in particular expired tokens stay past their refresh_at until they are
\* replaced.
THEOREM TypeCorrect == Spec => []TypeOK
<1>1. Inv => TypeOK
  BY DEF Inv
<1> QED
  BY <1>1, Invariance, PTL

\* lease() never runs two attempts of one generation and complete_attempt()
\* never leaves the slot to an attempt that has ended.
THEOREM SingleFlightHolds == Spec => []SingleFlight
<1>1. Inv => SingleFlight
  BY DEF Inv, Shared, Slot
<1> QED
  BY <1>1, Invariance, PTL

\* What wait_for_attempt() may pick up is always the cached token.
THEOREM HandoversAreCurrent == Spec => []HandoverIsCurrent
<1>1. Inv => HandoverIsCurrent
  BY DEF Inv, Shared, Handover, HandoverIsCurrent
<1> QED
  BY <1>1, Invariance, PTL

\* A fallback that complete_attempt() may reinstall is always the cached token.
THEOREM FallbacksAreCached == Spec => []FallbackIsCached
<1>1. Inv => FallbackIsCached
  BY DEF Inv, Shared
<1> QED
  BY <1>1, Invariance, PTL

\* wait_for_attempt() never misses the notification it waits for.
THEOREM NoLostWakeup == Spec => []ParkedIsOwedNotify
<1>1. Inv => ParkedIsOwedNotify
  BY DEF Inv, Waiters
<1> QED
  BY <1>1, Invariance, PTL

\* The replay of execute_json() never presents the token that was rejected.
THEOREM ReplayIsFresh == Spec => []ReplayUsesNewToken
<1>1. Inv => ReplayUsesNewToken
  BY DEF Inv, Leases, ReplayUsesNewToken
<1> QED
  BY <1>1, Invariance, PTL

-----------------------------------------------------------------------------

\* Each step of the manager is a step of the abstract token cache, or none.
LEMMA LeaseStep == Inv /\ [Next]_vars => [Lease!Next]_(Lease!vars)
<1> SUFFICES ASSUME Inv, [Next]_vars PROVE Lease!Next \/ UNCHANGED Lease!vars
  OBVIOUS
<1> USE DEF Lease!vars
<1>1. CASE UNCHANGED vars
  BY <1>1 DEF vars, caller, history
<1>2. ASSUME NEW c \in Callers,
             Request(c) \/ LeaseJoin(c) \/ LeaseStart(c) \/ WaitListen(c)
             \/ WaitInvalidated(c) \/ WaitPark(c) \/ Cancel(c) \/ InvalidateNotify(c)
      PROVE  UNCHANGED Lease!vars
  BY <1>2 DEF Request, LeaseJoin, LeaseStart, WaitListen, WaitInvalidated, WaitPark,
              Cancel, InvalidateNotify, history
<1>3. ASSUME NEW c \in Callers, LeaseCached(c) PROVE Lease!Grant(c)
  BY <1>3 DEF LeaseCached, Hold, Lease!Grant, history
<1>4. ASSUME NEW c \in Callers, WaitResult(c)
      PROVE  Lease!Grant(c) \/ UNCHANGED Lease!vars
  BY <1>4 DEF WaitResult, Hold, Inv, Shared, Handover, Lease!Grant, history
<1>5. ASSUME NEW c \in Callers, Answered(c) PROVE Lease!Release(c)
  BY <1>5 DEF Answered, Hold, Lease!Release, history
<1>6. ASSUME NEW c \in Callers, Unauthorized(c)
      PROVE  Lease!Revoke(c) \/ Lease!Release(c)
  <2>1. lease[c] # 0
    BY <1>6 DEF Unauthorized, Inv, Leases, TypeOK
  <2> QED
    BY <1>6, <2>1 DEF Unauthorized, HoldsCached, Hold, Lease!Revoke, Lease!Release
<1>7. ASSUME NEW a \in Attempts, Complete(a)
      PROVE  \/ \E g \in Generations : Lease!Install(g)
             \/ Lease!Discard \/ UNCHANGED Lease!vars
  <2> USE DEF LeaveResult, caller
  <2>1. CASE CompleteInstall(a)
    <3>1. active_attempt # 0
      BY <2>1 DEF CompleteInstall, Current, Attempts
    <3>2. generation + 1 \in Generations /\ \A g \in installed : generation + 1 > g
      BY <3>1 DEF Inv, TypeOK, Shared, Numbers, Count, Cache, Generations
    <3>3. Lease!Install(generation + 1)
      BY <2>1, <3>2 DEF CompleteInstall, Lease!Install
    <3> QED
      BY <3>2, <3>3
  <2>2. CASE CompleteExpired(a)
    BY <2>2 DEF CompleteExpired, Lease!Discard
  <2>3. CASE CompleteStale(a) \/ CompleteFailed(a)
    BY <2>3 DEF CompleteStale, CompleteFailed
  <2>4. CASE CompleteFallback(a)
    <3>1. task[a].fallback = cached /\ cached \in installed
      BY <2>4 DEF CompleteFallback, FallbackUsable, Inv, Shared, FallbackIsCached,
                  Unfinished, Cache
    <3>2. cached' = cached /\ installed' = installed /\ UNCHANGED <<revoked, lease>>
      BY <2>4, <3>1 DEF CompleteFallback
    <3> QED
      BY <3>2
  <2> QED
    BY <1>7, <2>1, <2>2, <2>3, <2>4 DEF Complete
<1>8. ASSUME NEW a \in Attempts,
             CompleteNotify(a) \/ \E outcome \in Outcomes : Exchange(a, outcome)
      PROVE  UNCHANGED Lease!vars
  BY <1>8 DEF CompleteNotify, Exchange, caller, history
<1>9. ASSUME NEW g \in installed, Age(g) PROVE UNCHANGED Lease!vars
  BY <1>9 DEF Age, caller, history
<1> QED
  BY <1>1, <1>2, <1>3, <1>4, <1>5, <1>6, <1>7, <1>8, <1>9
     DEF Next, CallerStep, TaskStep, Lease!Next

\* The X.509 token manager implements the abstract cache, with fallbacks,
\* expiries and late attempts: tokens only move forward and a revoked token is
\* never leased again.
THEOREM ImplementsLeaseCache == Spec => LeaseSpec
<1>1. Init => Lease!Init
  BY DEF Init, Lease!Init
<1> QED
  BY <1>1, LeaseStep, Invariance, PTL DEF Spec, LeaseSpec, Lease!Spec
-----------------------------------------------------------------------------
(* The request lane: X509Request, for every request_timeout and every bound  *)
(* on a lease.  A lease starts with a non-empty budget and the attempt after *)
(* it gets exactly that budget: the end of the lease and the budget it       *)
(* started with always add up to the same sum.                               *)

Replayed == IF auth_replayed THEN 1 ELSE 0

\* The loop sends once per round and has two rounds at most.
LaneRounds ==
  /\ lane_pc \in {"begin", "lease"} => sends = Replayed
  /\ lane_pc \in {"send", "body"} => sends = Replayed + 1

\* Where the timer of the current await stands.
LaneTimers ==
  /\ now <= RequestTimeout + LeaseTime
  /\ lane_pc = "lease" => /\ now <= deadline
                     /\ deadline + remaining = RequestTimeout + LeaseTime
  /\ lane_pc \in {"send", "body"} => /\ now <= deadline
                                /\ deadline <= RequestTimeout + LeaseTime

\* The inductive invariant.
LaneInv == LaneTypeOK /\ LaneRounds /\ LaneTimers

LEMMA LaneInitInv == LaneInit => LaneInv
<1> SUFFICES ASSUME LaneInit PROVE LaneInv
  OBVIOUS
<1> USE TimesAssumption DEF LaneInit
<1>1. LaneTypeOK
  <2>1. auth_replayed \in BOOLEAN /\ lane_pc \in LaneLocations /\ result \in ResultValues
    BY Zenon DEF LaneLocations, ResultValues
  <2>2. now \in Nat /\ deadline \in Nat /\ remaining \in 0..RequestTimeout /\ sends \in 0..2
    OBVIOUS
  <2> QED
    BY <2>1, <2>2 DEF LaneTypeOK
<1>2. Replayed = 0
  BY DEF Replayed
<1>3. LaneRounds /\ LaneTimers
  BY <1>2 DEF LaneRounds, LaneTimers
<1> QED
  BY <1>1, <1>3 DEF LaneInv

LEMMA LaneBeginInv == ASSUME LaneInv, Begin PROVE LaneInv'
<1> USE TimesAssumption DEF LaneInv, Begin
<1>1. CASE Budget = 0
  BY <1>1 DEF LaneTypeOK, LaneRounds, LaneTimers, Finish, LaneLocations, ResultValues
<1>2. CASE Budget # 0
  <2>1. now < RequestTimeout /\ remaining' = RequestTimeout - now
    BY <1>2 DEF Budget
  <2>2. LaneTypeOK' /\ LaneRounds'
    BY <1>2, <2>1 DEF LaneTypeOK, LaneRounds, Replayed, LaneLocations
  <2>3. LaneTimers'
    BY <1>2, <2>1 DEF LaneTypeOK, LaneTimers
  <2> QED
    BY <2>2, <2>3
<1> QED
  BY <1>1, <1>2

LEMMA LaneStepInv == ASSUME LaneInv, [LaneNext]_laneVars PROVE LaneInv'
<1> USE TimesAssumption DEF LaneInv
<1>1. CASE Begin
  BY <1>1, LaneBeginInv
<1>2. CASE LeaseFailed \/ SendFailed \/ BodyRead
  BY <1>2 DEF LeaseFailed, SendFailed, BodyRead, Finish, LaneTypeOK, LaneRounds, LaneTimers,
              LaneLocations, ResultValues
<1>3. CASE Leased
  BY <1>3 DEF Leased, LaneTypeOK, LaneRounds, LaneTimers, Replayed, LaneLocations
<1>4. CASE ReplayUnauthorized
  BY <1>4 DEF ReplayUnauthorized, Replays, LaneTypeOK, LaneRounds, LaneTimers, Replayed, LaneLocations
<1>5. CASE ResponseArrives
  BY <1>5 DEF ResponseArrives, LaneTypeOK, LaneRounds, LaneTimers, Replayed, LaneLocations
<1>6. CASE Tick
  <2>1. now' <= RequestTimeout + LeaseTime
    BY <1>6 DEF Tick, LaneTypeOK, LaneTimers
  <2> QED
    BY <1>6, <2>1 DEF Tick, LaneTypeOK, LaneRounds, LaneTimers, Replayed, LaneLocations
<1>7. CASE UNCHANGED laneVars
  BY <1>7 DEF laneVars, LaneTypeOK, LaneRounds, LaneTimers, Replayed
<1> QED
  BY <1>1, <1>2, <1>3, <1>4, <1>5, <1>6, <1>7 DEF LaneNext, Step, Done

\* The invariant holds in every reachable state.
THEOREM LaneInvariance == LaneSpec => []LaneInv
<1>1. LaneInit => LaneInv
  BY LaneInitInv
<1>2. LaneInv /\ [LaneNext]_laneVars => LaneInv'
  BY LaneStepInv
<1> QED
  BY <1>1, <1>2, PTL DEF LaneSpec

\* Every reachable state is well typed; in particular execute_json() sends a
\* request twice at most, the replay after a 401 included.
THEOREM LaneTypeCorrect == LaneSpec => []LaneTypeOK
<1>1. LaneInv => LaneTypeOK
  BY DEF LaneInv
<1> QED
  BY <1>1, LaneInvariance, PTL

\* For every request_timeout and every bound on lease(), a request lasts one
\* lease longer than its budget at most, although the budget of an attempt is
\* computed before its lease.
THEOREM OverrunBounded == LaneSpec => []OverrunIsOneLease
<1>1. LaneInv => OverrunIsOneLease
  BY DEF LaneInv, LaneTimers, OverrunIsOneLease
<1> QED
  BY <1>1, LaneInvariance, PTL
=============================================================================
