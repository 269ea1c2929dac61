----------------------- MODULE WorkloadIdentityProofs -----------------------
(***************************************************************************)
(* Proofs about WorkloadIdentity, for any set of callers and any number of *)
(* refreshes.  None of the safety properties is inductive: what ties them  *)
(* together is that refresh ids and token generations advance in lockstep, *)
(* that the slot always names the newest refresh, of the current epoch,    *)
(* and that every cached token comes from a refresh that has finished.     *)
(***************************************************************************)
EXTENDS WorkloadIdentity, TLAPS

Finished(r) == task[r].stage \in {"notify", "done"}

\* Refresh r was begun with token generation r, in this epoch or before it.
Counters ==
  /\ next_token_generation = next_refresh_id
  /\ \A r \in Ids :
       /\ task[r].generation <= generation
       /\ r <= next_refresh_id => task[r].token = r
       /\ r > next_refresh_id => task[r] = NoTask

\* The slot names the newest refresh, which is of the current epoch.
Slot ==
  /\ refreshing # 0 => /\ refreshing = next_refresh_id
                       /\ task[refreshing].generation = generation
  /\ SingleFlight

\* Cached tokens come from finished refreshes, revoked ones were cached.
Cache ==
  /\ \A g \in installed : g <= next_refresh_id /\ Finished(g)
  /\ cached # 0 => cached \in installed /\ cached \notin revoked
  /\ revoked \subseteq installed

\* A lease is a token that was cached, a rejected token is no longer cached.
Leases ==
  \A c \in Callers :
    /\ pc[c] = "leased" => lease[c] \in installed
    /\ pc[c] # "leased" => lease[c] = 0
    /\ rejected[c] # 0 => rejected[c] \in installed /\ rejected[c] # cached
    /\ pc[c] = "leased" /\ rejected[c] # 0 => lease[c] # rejected[c]

\* The inductive invariant.
Inv == TypeOK /\ Counters /\ Slot /\ Cache /\ Leases /\ ParkedIsOwedNotify

-----------------------------------------------------------------------------

LEMMA InitInv == Init => Inv
BY MaxRefreshAssumption
   DEF Init, Inv, TypeOK, Counters, Slot, SingleFlight, Cache, Leases,
       ParkedIsOwedNotify, Unfinished, Finished, NoTask, Ids, Ages, Results,
       Stages, Locations

\* What a request does to its own bookkeeping disturbs none of the shared state.
LEMMA CallerFrame ==
  ASSUME Inv, UNCHANGED <<state, age, task, history>>,
         pc' \in [Callers -> Locations], waiting' \in [Callers -> 0..MaxRefresh],
         lease' \in [Callers -> 0..MaxRefresh], rejected' \in [Callers -> 0..MaxRefresh]
  PROVE  TypeOK' /\ Counters' /\ Slot' /\ Cache'
<1> USE DEF Inv, state, history
<1>1. TypeOK'
  BY DEF TypeOK
<1>2. Counters'
  BY DEF Counters
<1>3. Slot'
  BY DEF Slot, SingleFlight, Unfinished
<1>4. Cache'
  BY DEF Cache, Finished
<1> QED
  BY <1>1, <1>2, <1>3, <1>4

LEMMA RequestInv == ASSUME Inv, NEW c \in Callers, Request(c) PROVE Inv'
<1> USE DEF Request, Inv
<1>1. TypeOK' /\ Counters' /\ Slot' /\ Cache'
  BY CallerFrame DEF TypeOK, Locations
<1>2. Leases' /\ ParkedIsOwedNotify'
  BY DEF TypeOK, Leases, ParkedIsOwedNotify, state, history
<1> QED
  BY <1>1, <1>2

LEMMA TokenWokenInv == ASSUME Inv, NEW c \in Callers, TokenWoken(c) PROVE Inv'
<1> USE DEF TokenWoken, Inv
<1>1. TypeOK' /\ Counters' /\ Slot' /\ Cache'
  BY CallerFrame, MaxRefreshAssumption DEF TypeOK, Locations
<1>2. Leases' /\ ParkedIsOwedNotify'
  BY DEF TypeOK, Leases, ParkedIsOwedNotify, state, history
<1> QED
  BY <1>1, <1>2

LEMMA CancelInv == ASSUME Inv, NEW c \in Callers, Cancel(c) PROVE Inv'
<1> USE DEF Cancel, Inv
<1>1. TypeOK' /\ Counters' /\ Slot' /\ Cache'
  BY CallerFrame, MaxRefreshAssumption DEF TypeOK, Locations
<1>2. Leases' /\ ParkedIsOwedNotify'
  BY DEF TypeOK, Leases, ParkedIsOwedNotify, state, history
<1> QED
  BY <1>1, <1>2

LEMMA AnsweredInv == ASSUME Inv, NEW c \in Callers, Answered(c) PROVE Inv'
<1> USE DEF Answered, Inv
<1>1. TypeOK' /\ Counters' /\ Slot' /\ Cache'
  BY CallerFrame, MaxRefreshAssumption DEF TypeOK, Locations
<1>2. Leases' /\ ParkedIsOwedNotify'
  BY DEF TypeOK, Leases, ParkedIsOwedNotify, state, history
<1> QED
  BY <1>1, <1>2

LEMMA RetriedInv == ASSUME Inv, NEW c \in Callers, Retried(c) PROVE Inv'
<1> USE DEF Retried, Inv
<1>1. TypeOK' /\ Counters' /\ Slot' /\ Cache'
  BY CallerFrame, MaxRefreshAssumption DEF TypeOK, Locations
<1>2. Leases' /\ ParkedIsOwedNotify'
  BY DEF TypeOK, Leases, ParkedIsOwedNotify, state, history
<1> QED
  BY <1>1, <1>2

LEMMA InvalidateNotifyInv ==
  ASSUME Inv, NEW c \in Callers, InvalidateNotify(c) PROVE Inv'
<1> USE DEF InvalidateNotify, Wake, Inv
<1>1. TypeOK' /\ Counters' /\ Slot' /\ Cache'
  BY CallerFrame DEF TypeOK, Locations
<1>2. Leases' /\ ParkedIsOwedNotify'
  BY DEF TypeOK, Leases, ParkedIsOwedNotify, state, history
<1> QED
  BY <1>1, <1>2

-----------------------------------------------------------------------------

\* What token() may do to the slot inside its critical section: a refresh is
\* begun, or nothing changes.
SlotStep ==
  /\ next_refresh_id' \in 0..MaxRefresh
  /\ next_token_generation' \in 0..MaxRefresh
  /\ refreshing' \in 0..MaxRefresh
  /\ completed_failure' \in 0..MaxRefresh
  /\ task' \in [Ids -> [stage : Stages, generation : Nat,
                        token : 0..MaxRefresh, result : Results]]
  /\ \A r \in Ids : task'[r] = task[r] \/ task'[r].stage = "exchange"

LEMMA SpawnRefreshInv ==
  ASSUME Inv, SpawnRefresh, refreshing = 0,
         UNCHANGED <<cached, age, generation, history>>
  PROVE  /\ SlotStep /\ Counters' /\ Slot' /\ Cache'
         /\ refreshing' \in Ids /\ task'[refreshing'].stage = "exchange"
<1> USE DEF SpawnRefresh, NextTokenGeneration, Inv, history
<1> DEFINE new == next_refresh_id + 1
<1>1. /\ new \in Ids
      /\ task[new] = NoTask
      /\ next_refresh_id \in Nat
  BY MaxRefreshAssumption DEF TypeOK, Counters, Ids
<1>2. /\ next_refresh_id' = new
      /\ next_token_generation' = new
      /\ refreshing' = new
      /\ task' = [task EXCEPT ![new] =
                    [stage |-> "exchange", generation |-> generation,
                     token |-> new, result |-> "none"]]
  BY DEF Counters
<1>3. SlotStep
  BY <1>1, <1>2, MaxRefreshAssumption DEF SlotStep, TypeOK, Ids, Stages, Results
<1>4. Counters'
  BY <1>1, <1>2, MaxRefreshAssumption DEF TypeOK, Counters, Ids
<1>5. Slot'
  BY <1>1, <1>2, MaxRefreshAssumption
     DEF TypeOK, Slot, SingleFlight, Unfinished, NoTask, Counters, Ids
<1>6. Cache'
  BY <1>1, <1>2, MaxRefreshAssumption
     DEF TypeOK, Cache, Finished, NoTask, Counters, Ids
<1>7. refreshing' \in Ids /\ task'[refreshing'].stage = "exchange"
  BY <1>1, <1>2 DEF TypeOK
<1> QED
  BY <1>3, <1>4, <1>5, <1>6, <1>7

LEMMA KeepSlotInv ==
  ASSUME Inv, KeepSlot, UNCHANGED <<cached, age, generation, history>>
  PROVE  SlotStep /\ Counters' /\ Slot' /\ Cache'
<1> USE DEF Inv, KeepSlot, history
<1>1. SlotStep
  BY DEF TypeOK, SlotStep
<1>2. Counters' /\ Slot' /\ Cache'
  BY DEF Counters, Slot, SingleFlight, Unfinished, Cache, Finished
<1> QED
  BY <1>1, <1>2

LEMMA TokenCachedInv == ASSUME Inv, NEW c \in Callers, TokenCached(c) PROVE Inv'
<1> USE DEF TokenCached, Inv
<1>1. SlotStep /\ Counters' /\ Slot' /\ Cache'
  BY SpawnRefreshInv, KeepSlotInv
<1>2. TypeOK'
  BY <1>1 DEF TypeOK, SlotStep, history, Locations
<1>3. Leases'
  BY DEF TypeOK, Leases, Cache, Usable, history
<1>4. ParkedIsOwedNotify'
  <2> SUFFICES ASSUME NEW d \in Callers, pc'[d] = "parked"
               PROVE  /\ waiting'[d] # 0
                      /\ task'[waiting'[d]].stage \in {"exchange", "finish", "notify"}
    BY DEF ParkedIsOwedNotify
  <2>1. /\ waiting'[d] = waiting[d] /\ waiting[d] \in Ids
        /\ task[waiting[d]].stage \in {"exchange", "finish", "notify"}
    BY MaxRefreshAssumption DEF TypeOK, ParkedIsOwedNotify, Ids
  <2> QED
    BY <1>1, <2>1, MaxRefreshAssumption DEF SlotStep, Ids
<1> QED
  BY <1>1, <1>2, <1>3, <1>4

LEMMA TokenParkInv == ASSUME Inv, NEW c \in Callers, TokenPark(c) PROVE Inv'
<1> USE DEF TokenPark, Inv
<1>1. SlotStep /\ Counters' /\ Slot' /\ Cache'
  BY SpawnRefreshInv, KeepSlotInv
<1>2. refreshing' \in Ids /\ task'[refreshing'].stage \in {"exchange", "finish"}
  <2>1. CASE refreshing = 0
    BY <2>1, SpawnRefreshInv
  <2>2. CASE refreshing # 0
    BY <2>2, MaxRefreshAssumption
       DEF KeepSlot, TypeOK, Ids, Slot, SingleFlight, Unfinished
  <2> QED
    BY <2>1, <2>2
<1>3. TypeOK'
  BY <1>1 DEF TypeOK, SlotStep, history, Locations
<1>4. Leases'
  BY DEF TypeOK, Leases, history
<1>5. ParkedIsOwedNotify'
  <2> SUFFICES ASSUME NEW d \in Callers, pc'[d] = "parked"
               PROVE  /\ waiting'[d] # 0
                      /\ task'[waiting'[d]].stage \in {"exchange", "finish", "notify"}
    BY DEF ParkedIsOwedNotify
  <2>1. CASE d = c
    <3>1. waiting'[d] = refreshing'
      BY <2>1 DEF TypeOK
    <3> QED
      BY <1>2, <3>1, MaxRefreshAssumption DEF Ids
  <2>2. CASE d # c
    <3>1. /\ waiting'[d] = waiting[d] /\ waiting[d] \in Ids
          /\ task[waiting[d]].stage \in {"exchange", "finish", "notify"}
      BY <2>2, MaxRefreshAssumption DEF TypeOK, ParkedIsOwedNotify, Ids
    <3> QED
      BY <1>1, <3>1, MaxRefreshAssumption DEF SlotStep, Ids
  <2> QED
    BY <2>1, <2>2
<1> QED
  BY <1>1, <1>3, <1>4, <1>5

LEMMA UnauthorizedInv == ASSUME Inv, NEW c \in Callers, Unauthorized(c) PROVE Inv'
<1> USE DEF Unauthorized, HoldsCached, Inv
<1>1. lease[c] \in Ids
  BY DEF Leases, TypeOK
<1>2. CASE cached = lease[c]
  <2>0. refreshing' = 0
    BY <1>2 DEF Slot
  <2>1. TypeOK'
    <3>1. revoked' \subseteq Ids
      BY <1>1, <1>2 DEF TypeOK
    <3>2. /\ cached' \in 0..MaxRefresh /\ refreshing' \in 0..MaxRefresh
          /\ completed_failure' \in 0..MaxRefresh /\ generation' \in Nat
      BY <1>2, <2>0, MaxRefreshAssumption DEF TypeOK
    <3>3. /\ pc' \in [Callers -> Locations]
          /\ lease' \in [Callers -> 0..MaxRefresh]
          /\ rejected' \in [Callers -> 0..MaxRefresh]
      BY <1>2, MaxRefreshAssumption DEF TypeOK, Locations
    <3> QED
      BY <1>2, <3>1, <3>2, <3>3 DEF TypeOK
  <2>2. Counters'
    BY <1>2 DEF TypeOK, Counters
  <2>3. Slot'
    BY <1>2, <2>0 DEF TypeOK, Counters, Slot, SingleFlight, Unfinished
  <2>4. Cache'
    <3>1. cached \in installed
      BY <1>1, <1>2, MaxRefreshAssumption DEF Cache, Ids
    <3>2. revoked' \subseteq installed'
      BY <1>2, <3>1 DEF Cache
    <3> QED
      BY <1>2, <3>2 DEF Cache, Finished
  <2>5. Leases'
    BY <1>1, <1>2, MaxRefreshAssumption DEF TypeOK, Cache, Leases, Ids
  <2>6. ParkedIsOwedNotify'
    BY <1>2 DEF TypeOK, ParkedIsOwedNotify
  <2> QED
    BY <2>1, <2>2, <2>3, <2>4, <2>5, <2>6
<1>3. CASE cached # lease[c]
  <2>1. TypeOK' /\ Counters' /\ Slot' /\ Cache'
    BY <1>1, <1>3, CallerFrame, MaxRefreshAssumption
       DEF TypeOK, Locations, Ids, history
  <2>2. Leases'
    BY <1>1, <1>3 DEF TypeOK, Leases, state
  <2>3. ParkedIsOwedNotify'
    BY <1>3 DEF TypeOK, ParkedIsOwedNotify
  <2> QED
    BY <2>1, <2>2, <2>3
<1> QED
  BY <1>2, <1>3

-----------------------------------------------------------------------------

LEMMA ExchangeInv ==
  ASSUME Inv, NEW r \in Ids, NEW result \in {"ok", "failed"}, Exchange(r, result)
  PROVE  Inv'
<1> USE DEF Exchange, Inv, state, caller, history
<1>1. TypeOK'
  BY DEF TypeOK, Stages, Results
<1>2. Counters'
  BY DEF TypeOK, Counters, NoTask
<1>3. Slot'
  <2>1. \A q \in Ids : /\ task'[q].generation = task[q].generation
                       /\ Unfinished(q)' <=> Unfinished(q)
    BY DEF TypeOK, Unfinished
  <2>2. refreshing # 0 => refreshing \in Ids
    BY MaxRefreshAssumption DEF TypeOK, Ids
  <2> QED
    BY <2>1, <2>2 DEF Slot, SingleFlight
<1>4. Cache'
  BY DEF TypeOK, Cache, Finished
<1>5. Leases'
  BY DEF Leases
<1>6. ParkedIsOwedNotify'
  BY MaxRefreshAssumption DEF TypeOK, ParkedIsOwedNotify, Ids
<1> QED
  BY <1>1, <1>2, <1>3, <1>4, <1>5, <1>6

\* The token a task brings back in time is newer than every token before it.
LEMMA InstallIsNewest ==
  ASSUME Inv, NEW r \in Ids, Unfinished(r), task[r].generation = generation
  PROVE  /\ refreshing = r /\ r = next_refresh_id /\ task[r].token = r
         /\ \A g \in installed : r > g
<1> USE DEF Inv
<1>1. refreshing = r /\ r = next_refresh_id /\ task[r].token = r
  BY MaxRefreshAssumption DEF TypeOK, Slot, SingleFlight, Counters, Ids
<1>2. \A g \in installed : g <= r /\ g # r
  BY <1>1 DEF Cache, Finished, Unfinished
<1> QED
  BY <1>1, <1>2, MaxRefreshAssumption DEF TypeOK, Ids

LEMMA FinishRefreshInv == ASSUME Inv, NEW r \in Ids, FinishRefresh(r) PROVE Inv'
<1> USE DEF FinishRefresh, StillCurrent, ReleaseSlot, Inv, caller
<1> DEFINE fresh == task[r].generation = generation /\ task[r].result = "ok"
<1>0. r \in Nat /\ r # 0 /\ r <= next_refresh_id /\ task[r].token = r /\ Unfinished(r)
  BY MaxRefreshAssumption DEF Counters, TypeOK, NoTask, Ids, Unfinished
<1>1. fresh => refreshing = r /\ \A g \in installed : r > g
  BY <1>0, InstallIsNewest
<1>2. /\ task' = [task EXCEPT ![r].stage = "notify"]
      /\ cached' = IF fresh THEN r ELSE cached
      /\ installed' = IF fresh THEN installed \cup {r} ELSE installed
  BY <1>0
<1>3. TypeOK'
  <2>1. installed' \subseteq Ids /\ cached' \in 0..MaxRefresh
    BY <1>2, MaxRefreshAssumption DEF TypeOK, Ids
  <2>2. refreshing' \in 0..MaxRefresh /\ completed_failure' \in 0..MaxRefresh
    BY MaxRefreshAssumption DEF TypeOK, Ids
  <2>3. task' \in [Ids -> [stage : Stages, generation : Nat,
                          token : 0..MaxRefresh, result : Results]]
    BY <1>2 DEF TypeOK, Stages
  <2> QED
    BY <2>1, <2>2, <2>3 DEF TypeOK
<1>4. Counters'
  BY <1>0, <1>2 DEF TypeOK, Counters, NoTask
<1>5. Slot'
  BY <1>0, <1>2 DEF TypeOK, Slot, SingleFlight, Unfinished
<1>6. Cache'
  BY <1>0, <1>1, <1>2, MaxRefreshAssumption DEF TypeOK, Cache, Finished, Ids
<1>7. Leases'
  BY <1>1, <1>2, MaxRefreshAssumption DEF TypeOK, Leases, Ids
<1>8. ParkedIsOwedNotify'
  BY <1>2, MaxRefreshAssumption DEF TypeOK, ParkedIsOwedNotify, Ids
<1> QED
  BY <1>3, <1>4, <1>5, <1>6, <1>7, <1>8

LEMMA FinishNotifyInv == ASSUME Inv, NEW r \in Ids, FinishNotify(r) PROVE Inv'
<1> USE MaxRefreshAssumption DEF FinishNotify, Ended, Inv, Wake, state, history
<1>1. TypeOK'
  BY DEF TypeOK, Stages, Locations, Results, Ids
<1>2. Counters'
  BY DEF TypeOK, Counters, NoTask, Ids
<1>3. Slot'
  BY DEF TypeOK, Slot, SingleFlight, Unfinished
<1>4. Cache'
  BY DEF TypeOK, Cache, Finished, Ids
<1>5. Leases'
  BY DEF TypeOK, Leases
<1>6. ParkedIsOwedNotify'
  BY DEF TypeOK, ParkedIsOwedNotify
<1> QED
  BY <1>1, <1>2, <1>3, <1>4, <1>5, <1>6

LEMMA AgeInv == ASSUME Inv, NEW g \in Ids, Age(g) PROVE Inv'
<1> USE DEF Age, Inv, state, caller, history
<1>1. TypeOK'
  BY DEF TypeOK, Ages
<1>2. Counters' /\ Slot' /\ Cache' /\ Leases' /\ ParkedIsOwedNotify'
  BY DEF Counters, Slot, SingleFlight, Unfinished, Cache, Finished, Leases,
         ParkedIsOwedNotify
<1> QED
  BY <1>1, <1>2

LEMMA NextInv == Inv /\ [Next]_vars => Inv'
<1> SUFFICES ASSUME Inv, [Next]_vars PROVE Inv'
  OBVIOUS
<1>1. CASE UNCHANGED vars
  BY <1>1
     DEF vars, state, caller, history, Inv, TypeOK, Counters, Slot, SingleFlight,
         Unfinished, Cache, Finished, Leases, ParkedIsOwedNotify
<1>2. ASSUME NEW c \in Callers, CallerStep(c) PROVE Inv'
  BY <1>2, TokenCachedInv, TokenParkInv, TokenWokenInv, InvalidateNotifyInv
     DEF CallerStep
<1>3. ASSUME NEW c \in Callers,
             Request(c) \/ Cancel(c) \/ Answered(c) \/ Retried(c) \/ Unauthorized(c)
      PROVE  Inv'
  BY <1>3, RequestInv, CancelInv, AnsweredInv, RetriedInv, UnauthorizedInv
<1>4. ASSUME NEW r \in Ids, TaskStep(r) PROVE Inv'
  BY <1>4, ExchangeInv, FinishRefreshInv, FinishNotifyInv DEF TaskStep
<1>5. ASSUME NEW g \in Ids, Age(g) PROVE Inv'
  BY <1>5, AgeInv
<1> QED
  BY <1>1, <1>2, <1>3, <1>4, <1>5 DEF Next

\* The inductive invariant holds throughout.
THEOREM Invariance == Spec => []Inv
BY InitInv, NextInv, PTL DEF Spec

\* Every reachable state is well typed: in particular only real tokens are
\* revoked or leased.
THEOREM TypeCorrect == Spec => []TypeOK
<1>1. Inv => TypeOK
  BY DEF Inv
<1> QED
  BY <1>1, Invariance, PTL

\* At most one refresh of the current epoch is under way and the slot is never
\* leaked, for any number of callers, cancellations and 401s.
THEOREM SingleFlightHolds == Spec => []SingleFlight
<1>1. Inv => SingleFlight
  BY DEF Inv, Slot
<1> QED
  BY <1>1, Invariance, PTL

\* token() never misses the notification it waits for.
THEOREM NoLostWakeup == Spec => []ParkedIsOwedNotify
<1>1. Inv => ParkedIsOwedNotify
  BY DEF Inv
<1> QED
  BY <1>1, Invariance, PTL

\* A replay after a 401 never presents the token that was rejected.
THEOREM ReplayIsFresh == Spec => []ReplayUsesNewToken
<1>1. Inv => ReplayUsesNewToken
  BY DEF Inv, Leases, ReplayUsesNewToken
<1> QED
  BY <1>1, Invariance, PTL

-----------------------------------------------------------------------------

\* Only finish_refresh puts a token into the cache, and only the newest one.
LEMMA CachedChanges ==
  ASSUME Inv, [Next]_vars, cached' # cached, cached' # 0
  PROVE  \E r \in Ids : /\ FinishRefresh(r)
                        /\ task[r].generation = generation
                        /\ task[r].result = "ok"
<1>1. ~UNCHANGED vars /\ Next
  BY DEF vars, state
<1>2. ASSUME NEW c \in Callers,
             CallerStep(c) \/ Request(c) \/ Cancel(c) \/ Answered(c)
             \/ Retried(c) \/ Unauthorized(c)
      PROVE  FALSE
  BY <1>2 DEF CallerStep, TokenCached, TokenPark, TokenWoken, InvalidateNotify,
              Request, Cancel, Answered, Retried, Unauthorized, state
<1>3. ASSUME NEW g \in Ids, Age(g) PROVE FALSE
  BY <1>3 DEF Age, state
<1>4. PICK r \in Ids : TaskStep(r)
  BY <1>1, <1>2, <1>3 DEF Next
<1>5. FinishRefresh(r)
  BY <1>4 DEF TaskStep, Exchange, FinishNotify, state
<1> QED
  BY <1>5 DEF FinishRefresh, StillCurrent

\* No token of an epoch that an invalidation has ended is ever cached.
THEOREM LateTokensAreDropped == Spec => LateTaskIsDropped
<1>1. ASSUME Inv, [Next]_vars, cached' # cached, cached' # 0
      PROVE  \E r \in Ids : /\ task[r].token = cached'
                            /\ task[r].generation = generation
                            /\ refreshing = r
  <2>1. PICK r \in Ids : /\ FinishRefresh(r)
                         /\ task[r].generation = generation
                         /\ task[r].result = "ok"
    BY <1>1, CachedChanges
  <2>2. refreshing = r
    BY <1>1, <2>1, InstallIsNewest DEF FinishRefresh, Unfinished
  <2> QED
    BY <2>1, <2>2 DEF FinishRefresh, StillCurrent
<1> QED
  BY <1>1, Invariance, PTL DEF Spec, LateTaskIsDropped

\* Each step of the manager is a step of the abstract token cache, or none.
LEMMA LeaseStep == Inv /\ [Next]_vars => [Lease!Next]_(Lease!vars)
<1> SUFFICES ASSUME Inv, [Next]_vars PROVE Lease!Next \/ UNCHANGED Lease!vars
  OBVIOUS
<1> USE DEF Lease!vars
<1>1. CASE UNCHANGED vars
  BY <1>1 DEF vars, state, caller, history
<1>2. ASSUME NEW c \in Callers,
             Request(c) \/ TokenPark(c) \/ TokenWoken(c) \/ Cancel(c)
             \/ InvalidateNotify(c)
      PROVE  UNCHANGED Lease!vars
  BY <1>2 DEF Request, TokenPark, TokenWoken, Cancel, InvalidateNotify, state, history
<1>3. ASSUME NEW c \in Callers, TokenCached(c) PROVE Lease!Grant(c)
  BY <1>3 DEF TokenCached, Usable, Lease!Grant, history
<1>4. ASSUME NEW c \in Callers, Answered(c) \/ Retried(c) PROVE Lease!Release(c)
  BY <1>4 DEF Answered, Retried, Lease!Release, state, history
<1>5. ASSUME NEW c \in Callers, Unauthorized(c)
      PROVE  Lease!Revoke(c) \/ Lease!Release(c)
  <2>1. lease[c] # 0
    BY <1>5, MaxRefreshAssumption DEF Unauthorized, Inv, Leases, TypeOK, Ids
  <2> QED
    BY <1>5, <2>1 DEF Unauthorized, HoldsCached, Lease!Revoke, Lease!Release, state, history
<1>6. ASSUME NEW r \in Ids, TaskStep(r)
      PROVE  Lease!Install(r) \/ UNCHANGED Lease!vars
  <2>1. CASE FinishRefresh(r) /\ task[r].generation = generation /\ task[r].result = "ok"
    BY <2>1, InstallIsNewest DEF FinishRefresh, StillCurrent, Unfinished, Lease!Install, caller
  <2>2. CASE FinishRefresh(r) /\ ~(task[r].generation = generation /\ task[r].result = "ok")
    BY <2>2 DEF FinishRefresh, StillCurrent, caller
  <2>3. CASE FinishNotify(r) \/ \E result \in {"ok", "failed"} : Exchange(r, result)
    BY <2>3 DEF FinishNotify, Exchange, state, caller, history
  <2> QED
    BY <1>6, <2>1, <2>2, <2>3 DEF TaskStep
<1>7. ASSUME NEW g \in Ids, Age(g) PROVE UNCHANGED Lease!vars
  BY <1>7 DEF Age, state, caller, history
<1> QED
  BY <1>1, <1>2, <1>3, <1>4, <1>5, <1>6, <1>7 DEF Next, CallerStep, Lease!Next

\* The token manager implements the abstract cache: tokens only move forward
\* and a revoked token is never leased again.
THEOREM ImplementsLeaseCache == Spec => LeaseSpec
<1>1. Init => Lease!Init
  BY DEF Init, Lease!Init
<1> QED
  BY <1>1, LeaseStep, Invariance, PTL DEF Spec, LeaseSpec, Lease!Spec

=============================================================================
