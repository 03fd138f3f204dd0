---------------------------- MODULE PoolPartsProofs ----------------------------
(***************************************************************************)
(* Theorems about KeyPool, for any number of ids and calls, whatever       *)
(* operators do; about SchedulingStrategies, for any number of keys, any   *)
(* limits of theirs and any sequence of candidate sets and of models; and  *)
(* about Throttling, for any number of threads, any limit and any window.  *)
(*                                                                         *)
(* The three share nothing: each has its own invariant (PInv, SInv, TInv), *)
(* and a behaviour of MCPoolParts is one of each.                          *)
(***************************************************************************)
EXTENDS MCPoolParts, FiniteSums, SequenceTheorems

(* Key pool.                                                               *)

ConstantsOK ==
  /\ MaxParallel \in Nat \ {0}
  /\ CooldownTicks \in Nat \ {0}
  /\ FailureThreshold \in Nat \ {0}
  /\ CounterCap \in Nat
  /\ CounterCap >= FailureThreshold
  /\ NumIds \in Nat \ {0}
  /\ MaxCalls \in Nat
  /\ Nobody \notin Ids

LEMMA ConstantsAreOK == ConstantsOK
  BY MaxParallelAssumption, CooldownAssumption, ThresholdAssumption,
     CounterCapAssumption, PoolAssumption, NobodyAssumption DEF ConstantsOK

(* What the methods make of a key's state: they keep it one, and what they *)
(* do to its slots and to its failure counter.                             *)
LEMMA Methods ==
  ASSUME NEW s \in KeyState
  PROVE  /\ RecordRequestStart(s) \in KeyState
         /\ RecordRequestEnd(s) \in KeyState
         /\ RecordFailure(s) \in KeyState
         /\ RecordRateLimit(s) \in KeyState
         /\ MarkDisabled(s) \in KeyState
         /\ MarkFailed(s) \in KeyState
         /\ ResetCooldown(s) \in KeyState
         /\ Elapse(s) \in KeyState
         /\ Enabled(s) \in KeyState
         /\ [s EXCEPT !.cooldown = 0] \in KeyState
  <1>1. /\ s.active_requests + 1 \in Nat
        /\ Decrement(s.active_requests) \in Nat
        /\ Decrement(s.cooldown) \in 0..CooldownTicks
        /\ Bump(s.consecutive_failures) \in 0..CounterCap
        /\ Bump(s.consecutive_429s) \in 0..CounterCap
        /\ 0 \in 0..CounterCap
        /\ 0 \in 0..CooldownTicks
        /\ CooldownTicks \in 0..CooldownTicks
    BY ConstantsAreOK DEF ConstantsOK, KeyState, Bump, Decrement
  <1>2. RecordRequestStart(s) \in KeyState /\ RecordRequestEnd(s) \in KeyState
    BY <1>1 DEF RecordRequestStart, RecordRequestEnd, KeyState, Status
  <1>3. RecordFailure(s) \in KeyState /\ RecordRateLimit(s) \in KeyState
    BY <1>1 DEF RecordFailure, RecordRateLimit, KeyState, Status
  <1>4. /\ MarkDisabled(s) \in KeyState /\ MarkFailed(s) \in KeyState
        /\ Enabled(s) \in KeyState
    BY DEF MarkDisabled, MarkFailed, Enabled, KeyState, Status
  <1>5. /\ ResetCooldown(s) \in KeyState /\ Elapse(s) \in KeyState
        /\ [s EXCEPT !.cooldown = 0] \in KeyState
    BY <1>1 DEF ResetCooldown, Elapse, KeyState, Status
  <1> QED BY <1>2, <1>3, <1>4, <1>5

LEMMA SlotUse ==
  ASSUME NEW s \in KeyState
  PROVE  /\ RecordRequestStart(s).active_requests = s.active_requests + 1
         /\ RecordRequestEnd(s).active_requests = Decrement(s.active_requests)
         /\ RecordFailure(s).active_requests = Decrement(s.active_requests)
         /\ RecordRateLimit(s).active_requests = Decrement(s.active_requests)
         /\ MarkDisabled(s).active_requests = s.active_requests
         /\ MarkFailed(s).active_requests = s.active_requests
         /\ ResetCooldown(s).active_requests = s.active_requests
         /\ Elapse(s).active_requests = s.active_requests
         /\ Enabled(s).active_requests = s.active_requests
         /\ [s EXCEPT !.cooldown = 0].active_requests = s.active_requests
  BY DEF KeyState, RecordRequestStart, RecordRequestEnd, RecordFailure, Enabled,
         RecordRateLimit, MarkDisabled, MarkFailed, ResetCooldown, Elapse

(* Only a success lowers the failure counter.                              *)
LEMMA Failures ==
  ASSUME NEW s \in KeyState
  PROVE  /\ RecordFailure(s).consecutive_failures >= s.consecutive_failures
         /\ RecordRateLimit(s).consecutive_failures >= s.consecutive_failures
         /\ RecordRequestStart(s).consecutive_failures = s.consecutive_failures
         /\ MarkDisabled(s).consecutive_failures = s.consecutive_failures
         /\ MarkFailed(s).consecutive_failures = s.consecutive_failures
         /\ ResetCooldown(s).consecutive_failures = s.consecutive_failures
         /\ Elapse(s).consecutive_failures = s.consecutive_failures
         /\ Enabled(s).consecutive_failures = s.consecutive_failures
         /\ [s EXCEPT !.cooldown = 0].consecutive_failures = s.consecutive_failures
  <1>1. s.consecutive_failures \in Int /\ Bump(s.consecutive_failures) >= s.consecutive_failures
    BY ConstantsAreOK DEF ConstantsOK, KeyState, Bump
  <1> QED
    BY <1>1 DEF KeyState, RecordFailure, RecordRateLimit, RecordRequestStart, Enabled,
           MarkDisabled, MarkFailed, ResetCooldown, Elapse

LEMMA NoStateIsNone == NoState \notin KeyState
  <1>1. NoState.status = "ABSENT"
    BY DEF NoState
  <1>2. \A s \in KeyState : s.status \in Status
    BY DEF KeyState
  <1>3. "ABSENT" \notin Status
    BY DEF Status
  <1> QED BY <1>1, <1>2, <1>3

-----------------------------------------------------------------------------

(* What holds of the state under an id, its calls, its drift and the       *)
(* breaker: slots taken are calls under way plus the drift, within the     *)
(* cap, and a tripped breaker's counter is at its threshold.               *)
Sound(s, calling, gap, trip) ==
  \/ s = NoState /\ calling = 0 /\ gap = 0 /\ ~trip
  \/ /\ s \in KeyState
     /\ s.active_requests = calling + gap
     /\ s.active_requests <= MaxParallel
     /\ trip => s.consecutive_failures >= FailureThreshold

SoundAt(id) == Sound(pool[id], inflight[id], drift[id], tripped[id])

Shape ==
  /\ DOMAIN pool = Ids /\ pool = [id \in Ids |-> pool[id]]
  /\ counter \in 0..NumIds
  /\ enabling \in Ids \cup {Nobody}
  /\ enabling # Nobody => enabling \in Present
  /\ inflight \in [Ids -> 0..MaxCalls]
  /\ drift \in [Ids -> Int]
  /\ tripped \in [Ids -> BOOLEAN]

PInv == Shape /\ \A id \in Ids : SoundAt(id)

LEMMA InitPInv == PoolInit => PInv
  BY ConstantsAreOK
  DEF ConstantsOK, PoolInit, PInv, Shape, SoundAt, Sound, Present

(* A present key's state is a KeyState, and its slots add up.              *)
LEMMA PresentIsSound ==
  ASSUME PInv, NEW id \in Present
  PROVE  /\ id \in Ids
         /\ pool[id] \in KeyState
         /\ pool[id].active_requests \in Nat
         /\ pool[id].active_requests = inflight[id] + drift[id]
         /\ pool[id].active_requests <= MaxParallel
         /\ tripped[id] => pool[id].consecutive_failures >= FailureThreshold
  BY DEF PInv, SoundAt, Sound, Present, KeyState

(* Whoever has a call under way with a key has it with a present one.      *)
LEMMA CallsArePresent ==
  ASSUME PInv, NEW id \in Ids, inflight[id] > 0
  PROVE  id \in Present
  <1>1. SoundAt(id)
    BY DEF PInv
  <1>2. inflight[id] # 0
    OBVIOUS
  <1>3. pool[id] \in KeyState
    BY <1>1, <1>2 DEF SoundAt, Sound
  <1> QED BY <1>3, NoStateIsNone DEF Present

(* A step that changes what is under one id, and leaves it sound.          *)
LEMMA OneIdStep ==
  ASSUME PInv, NEW id \in Ids, NEW s, NEW i \in 0..MaxCalls, NEW d \in Int,
         NEW t \in BOOLEAN, Sound(s, i, d, t),
         pool' = [pool EXCEPT ![id] = s],
         inflight' = [inflight EXCEPT ![id] = i],
         drift' = [drift EXCEPT ![id] = d],
         tripped' = [tripped EXCEPT ![id] = t],
         counter' \in 0..NumIds,
         \/ enabling' = Nobody
         \/ s # NoState /\ (enabling' = enabling \/ enabling' = id)
  PROVE  PInv'
  <1> USE DEF PInv, Shape
  <1>1. ASSUME NEW j \in Ids PROVE SoundAt(j)'
    <2>1. CASE j = id
      BY <2>1 DEF SoundAt
    <2>2. CASE j # id
      <3>1. SoundAt(j)
        OBVIOUS
      <3> QED BY <2>2, <3>1 DEF SoundAt
    <2> QED BY <2>1, <2>2
  <1>2. s # NoState => Present \cup {id} \subseteq Present'
    BY DEF Present
  <1>3. /\ enabling' \in Ids \cup {Nobody}
        /\ enabling' # Nobody => enabling' \in Present'
    BY <1>2
  <1>4. Shape'
    BY <1>3
  <1> QED BY <1>1, <1>4

(* The same for a step that changes the state under a present id, and      *)
(* perhaps the calls.                                                      *)
LEMMA ChangeStep ==
  ASSUME PInv, NEW id \in Present, NEW s \in KeyState, Change(id, s),
         UNCHANGED counter, enabling' \in {enabling, id, Nobody},
         NEW i \in 0..MaxCalls, inflight' = [inflight EXCEPT ![id] = i],
         NEW d \in Int, drift' = [drift EXCEPT ![id] = d],
         NEW t \in BOOLEAN, tripped' = [tripped EXCEPT ![id] = t],
         s.active_requests = i + d, s.active_requests <= MaxParallel,
         t => s.consecutive_failures >= FailureThreshold
  PROVE  PInv'
  <1>1. Sound(s, i, d, t)
    BY DEF Sound
  <1>2. s # NoState
    BY NoStateIsNone
  <1>3. id \in Ids /\ counter' \in 0..NumIds
    BY PresentIsSound DEF PInv, Shape
  <1> QED
    BY <1>1, <1>2, <1>3, OneIdStep DEF Change

(* A step that changes the state under a present id, but neither its slots *)
(* nor its failure counter.                                                *)
LEMMA QuietChangeStep ==
  ASSUME PInv, NEW id \in Present, NEW s \in KeyState, Change(id, s),
         UNCHANGED counter, UNCHANGED calls, enabling' \in {enabling, id, Nobody},
         s.active_requests = pool[id].active_requests,
         s.consecutive_failures = pool[id].consecutive_failures
  PROVE  PInv'
  <1>1. /\ id \in Ids
        /\ inflight[id] \in 0..MaxCalls /\ drift[id] \in Int /\ tripped[id] \in BOOLEAN
    BY PresentIsSound DEF PInv, Shape
  <1>2. /\ inflight' = [inflight EXCEPT ![id] = inflight[id]]
        /\ drift' = [drift EXCEPT ![id] = drift[id]]
        /\ tripped' = [tripped EXCEPT ![id] = tripped[id]]
    BY DEF calls, PInv, Shape
  <1>3. /\ s.active_requests = inflight[id] + drift[id]
        /\ s.active_requests <= MaxParallel
        /\ tripped[id] => s.consecutive_failures >= FailureThreshold
    BY PresentIsSound
  <1> QED
    BY <1>1, <1>2, <1>3, ChangeStep

LEMMA PutStep ==
  ASSUME PInv, NEW id \in Ids, NEW s \in {NoState, NewKey}, Put(id, s),
         counter' \in 0..NumIds
  PROVE  PInv'
  <1>1. Sound(s, 0, 0, FALSE)
    <2>1. NewKey \in KeyState /\ NewKey.active_requests = 0
      BY ConstantsAreOK DEF ConstantsOK, NewKey, KeyState, Status
    <2> QED BY <2>1, ConstantsAreOK DEF Sound, ConstantsOK
  <1>2. 0 \in 0..MaxCalls /\ 0 \in Int /\ FALSE \in BOOLEAN
    BY ConstantsAreOK DEF ConstantsOK
  <1>3. /\ pool' = [pool EXCEPT ![id] = s]
        /\ inflight' = [inflight EXCEPT ![id] = 0]
        /\ drift' = [drift EXCEPT ![id] = 0]
        /\ tripped' = [tripped EXCEPT ![id] = FALSE]
        /\ enabling' = Nobody
    BY DEF Put
  <1> QED
    BY <1>1, <1>2, <1>3, OneIdStep, Zenon

-----------------------------------------------------------------------------

LEMMA OperatorStep ==
  ASSUME PInv, NEW id \in Ids, Operate(id)
  PROVE  PInv'
  <1>1. CASE AddKeyAs(id)
    BY <1>1, PutStep DEF AddKeyAs, PInv, Shape
  <1>2. CASE RemoveKey(id)
    BY <1>2, PutStep DEF RemoveKey, PInv, Shape
  <1>3. CASE EnableKey(id)
    BY <1>3, PresentIsSound, Methods, SlotUse, Failures, QuietChangeStep DEF EnableKey
  <1>4. CASE DisableKey(id)
    BY <1>4, PresentIsSound, Methods, SlotUse, Failures, QuietChangeStep DEF DisableKey
  <1>5. CASE MarkUnhealthyFailed(id)
    BY <1>5, PresentIsSound, Methods, SlotUse, Failures, QuietChangeStep
    DEF MarkUnhealthyFailed
  <1>6. CASE MarkUnhealthy(id)
    <2> DEFINE s == RecordRateLimit(pool[id])
               d == IF pool[id].active_requests > 0 THEN drift[id] - 1 ELSE drift[id]
    <2>1. id \in Present /\ Change(id, s) /\ UNCHANGED <<counter, enabling>>
      BY <1>6 DEF MarkUnhealthy
    <2>2. /\ pool[id] \in KeyState /\ pool[id].active_requests \in Nat
          /\ pool[id].active_requests = inflight[id] + drift[id]
          /\ pool[id].active_requests <= MaxParallel
          /\ tripped[id] => pool[id].consecutive_failures >= FailureThreshold
      BY <2>1, PresentIsSound
    <2>3. inflight[id] \in 0..MaxCalls /\ drift[id] \in Int /\ tripped[id] \in BOOLEAN
      BY DEF PInv, Shape
    <2>4. s \in KeyState /\ s.active_requests = Decrement(pool[id].active_requests)
      BY <2>2, Methods, SlotUse
    <2>5. s.active_requests = inflight[id] + d /\ s.active_requests <= MaxParallel
      BY <2>2, <2>3, <2>4, ConstantsAreOK DEF Decrement, ConstantsOK
    <2>6. tripped[id] => s.consecutive_failures >= FailureThreshold
      <3>1. s.consecutive_failures >= pool[id].consecutive_failures
        BY <2>2, Failures
      <3>2. s.consecutive_failures \in Int /\ pool[id].consecutive_failures \in Int
        BY <2>2, <2>4, ConstantsAreOK DEF KeyState, ConstantsOK
      <3> QED BY <2>2, <3>1, <3>2, ConstantsAreOK DEF ConstantsOK
    <2>7. /\ inflight' = [inflight EXCEPT ![id] = inflight[id]]
          /\ drift' = [drift EXCEPT ![id] = d]
          /\ tripped' = [tripped EXCEPT ![id] = tripped[id]]
      BY <1>6 DEF MarkUnhealthy, PInv, Shape
    <2>8. d \in Int
      BY <2>3
    <2> HIDE DEF s, d
    <2> QED
      BY <2>1, <2>3, <2>4, <2>5, <2>6, <2>7, <2>8, ChangeStep
  <1> QED
    BY <1>1, <1>2, <1>3, <1>4, <1>5, <1>6 DEF Operate

-----------------------------------------------------------------------------

LEMMA TakeStep ==
  ASSUME PInv, NEW id \in Ids, TakeKey(id)
  PROVE  PInv'
  <1> DEFINE s == RecordRequestStart(pool[id])
  <1>1. /\ id \in Present /\ HasFreeSlot(pool[id]) /\ Change(id, s)
        /\ UNCHANGED <<counter, enabling>> /\ inflight[id] < MaxCalls
    BY DEF TakeKey, Eligible, IsAvailable
  <1>2. /\ pool[id] \in KeyState /\ pool[id].active_requests \in Nat
        /\ pool[id].active_requests = inflight[id] + drift[id]
        /\ tripped[id] => pool[id].consecutive_failures >= FailureThreshold
    BY <1>1, PresentIsSound
  <1>3. inflight[id] \in 0..MaxCalls /\ drift[id] \in Int /\ tripped[id] \in BOOLEAN
    BY DEF PInv, Shape
  <1>4. /\ s \in KeyState /\ s.active_requests = pool[id].active_requests + 1
        /\ s.consecutive_failures = pool[id].consecutive_failures
    BY <1>2, Methods, SlotUse, Failures
  <1>5. /\ inflight[id] + 1 \in 0..MaxCalls
        /\ s.active_requests = (inflight[id] + 1) + drift[id]
        /\ s.active_requests <= MaxParallel
    BY <1>1, <1>2, <1>3, <1>4, ConstantsAreOK DEF HasFreeSlot, ConstantsOK
  <1>6. /\ inflight' = [inflight EXCEPT ![id] = inflight[id] + 1]
        /\ drift' = [drift EXCEPT ![id] = drift[id]]
        /\ tripped' = [tripped EXCEPT ![id] = tripped[id]]
    BY DEF TakeKey, PInv, Shape
  <1>7. tripped[id] => s.consecutive_failures >= FailureThreshold
    BY <1>2, <1>4
  <1> HIDE DEF s
  <1> QED
    BY <1>1, <1>3, <1>4, <1>5, <1>6, <1>7, ChangeStep

(* A call that gives its slot back, or finds that mark_unhealthy did.      *)
LEMMA LeaveStep ==
  ASSUME PInv, NEW id \in Ids, Leave(id),
         NEW s \in KeyState, Change(id, s),
         s.active_requests = Decrement(pool[id].active_requests),
         NEW t \in BOOLEAN, tripped' = [tripped EXCEPT ![id] = t],
         t => s.consecutive_failures >= FailureThreshold
  PROVE  PInv'
  <1> DEFINE d == IF pool[id].active_requests = 0 THEN drift[id] + 1 ELSE drift[id]
  <1>1. inflight[id] \in 0..MaxCalls /\ drift[id] \in Int /\ inflight[id] > 0
    BY DEF PInv, Shape, Leave
  <1>2. id \in Present
    BY <1>1, CallsArePresent
  <1>3. /\ pool[id].active_requests \in Nat
        /\ pool[id].active_requests = inflight[id] + drift[id]
        /\ pool[id].active_requests <= MaxParallel
    BY <1>2, PresentIsSound
  <1>4. /\ inflight[id] - 1 \in 0..MaxCalls /\ d \in Int
        /\ s.active_requests = (inflight[id] - 1) + d
        /\ s.active_requests <= MaxParallel
    BY <1>1, <1>3, ConstantsAreOK DEF Decrement, ConstantsOK
  <1>5. /\ inflight' = [inflight EXCEPT ![id] = inflight[id] - 1]
        /\ drift' = [drift EXCEPT ![id] = d]
        /\ UNCHANGED <<counter, enabling>>
    BY DEF Leave, PInv, Shape
  <1> HIDE DEF d
  <1> QED
    BY <1>2, <1>4, <1>5, ChangeStep

LEMMA RisingFailures ==
  ASSUME NEW s \in KeyState, NEW f \in KeyState,
         f.consecutive_failures >= s.consecutive_failures,
         s.consecutive_failures >= FailureThreshold
  PROVE  f.consecutive_failures >= FailureThreshold
  <1>1. s.consecutive_failures \in Int /\ f.consecutive_failures \in Int
    BY ConstantsAreOK DEF KeyState, ConstantsOK
  <1> QED BY <1>1, ConstantsAreOK DEF ConstantsOK

LEMMA OutcomeStep ==
  ASSUME PInv, NEW id \in Ids, Outcome(id)
  PROVE  PInv'
  <1>1. inflight[id] > 0
    BY DEF Outcome, Succeed, RateLimit, Fail, Refuse, Leave
  <1>2. id \in Present
    BY <1>1, CallsArePresent
  <1>3. /\ pool[id] \in KeyState /\ pool[id].active_requests \in Nat
        /\ pool[id].active_requests = inflight[id] + drift[id]
        /\ pool[id].active_requests <= MaxParallel
        /\ tripped[id] => pool[id].consecutive_failures >= FailureThreshold
    BY <1>2, PresentIsSound
  <1>4. inflight[id] \in 0..MaxCalls /\ drift[id] \in Int /\ tripped[id] \in BOOLEAN
    BY DEF PInv, Shape
  <1>5. UNCHANGED tripped => tripped' = [tripped EXCEPT ![id] = tripped[id]]
    BY DEF PInv, Shape
  <1>6. CASE Succeed(id)
    <2> DEFINE s == RecordRequestEnd(pool[id])
    <2>1. s \in KeyState /\ s.active_requests = Decrement(pool[id].active_requests)
      BY <1>3, Methods, SlotUse
    <2>2. /\ Leave(id) /\ Change(id, s) /\ FALSE \in BOOLEAN
          /\ tripped' = [tripped EXCEPT ![id] = FALSE]
      BY <1>6 DEF Succeed
    <2> HIDE DEF s
    <2> QED BY <2>1, <2>2, LeaveStep, Zenon
  <1>7. CASE RateLimit(id)
    <2> DEFINE s == RecordRateLimit(pool[id])
    <2>1. /\ s \in KeyState /\ s.active_requests = Decrement(pool[id].active_requests)
          /\ s.consecutive_failures >= pool[id].consecutive_failures
      BY <1>3, Methods, SlotUse, Failures
    <2>2. Leave(id) /\ Change(id, s) /\ UNCHANGED tripped
      BY <1>7 DEF RateLimit
    <2> HIDE DEF s
    <2>3. tripped[id] => s.consecutive_failures >= FailureThreshold
      BY <1>3, <2>1, RisingFailures
    <2> QED BY <1>4, <1>5, <2>1, <2>2, <2>3, LeaveStep
  <1>8. CASE Fail(id)
    <2> DEFINE f == RecordFailure(pool[id])
    <2>1. /\ f \in KeyState /\ f.active_requests = Decrement(pool[id].active_requests)
          /\ f.consecutive_failures >= pool[id].consecutive_failures
      BY <1>3, Methods, SlotUse, Failures
    <2>2. /\ Leave(id)
          /\ IF ReachedThreshold(f)
               THEN Change(id, MarkFailed(f)) /\ tripped' = [tripped EXCEPT ![id] = TRUE]
               ELSE Change(id, f) /\ UNCHANGED tripped
      BY <1>8 DEF Fail
    <2> HIDE DEF f
    <2>3. CASE ReachedThreshold(f)
      <3> DEFINE s == MarkFailed(f)
      <3>1. /\ s \in KeyState /\ s.active_requests = f.active_requests
            /\ s.consecutive_failures = f.consecutive_failures
        BY <2>1, Methods, SlotUse, Failures
      <3> HIDE DEF s
      <3>2. s.consecutive_failures >= FailureThreshold
        BY <2>3, <3>1 DEF ReachedThreshold
      <3>3. Change(id, s) /\ tripped' = [tripped EXCEPT ![id] = TRUE] /\ TRUE \in BOOLEAN
        BY <2>2, <2>3 DEF s
      <3>4. s.active_requests = Decrement(pool[id].active_requests)
        BY <2>1, <3>1
      <3> QED BY <2>2, <3>1, <3>2, <3>3, <3>4, LeaveStep, Zenon
    <2>4. CASE ~ReachedThreshold(f)
      <3>1. tripped[id] => f.consecutive_failures >= FailureThreshold
        BY <1>3, <2>1, RisingFailures
      <3> QED BY <1>4, <1>5, <2>1, <2>2, <2>4, <3>1, LeaveStep
    <2> QED BY <2>3, <2>4
  <1>9. CASE Refuse(id)
    <2> DEFINE s == MarkDisabled(pool[id])
    <2>1. /\ s \in KeyState /\ s.active_requests = pool[id].active_requests
          /\ s.consecutive_failures = pool[id].consecutive_failures
      BY <1>3, Methods, SlotUse, Failures
    <2>2. Change(id, s) /\ UNCHANGED <<counter, enabling, tripped>>
      BY <1>9 DEF Refuse
    <2> HIDE DEF s
    <2>3. /\ inflight[id] - 1 \in 0..MaxCalls /\ drift[id] + 1 \in Int
          /\ s.active_requests = (inflight[id] - 1) + (drift[id] + 1)
          /\ s.active_requests <= MaxParallel
      BY <1>1, <1>3, <1>4, <2>1, ConstantsAreOK DEF ConstantsOK
    <2>4. /\ inflight' = [inflight EXCEPT ![id] = inflight[id] - 1]
          /\ drift' = [drift EXCEPT ![id] = drift[id] + 1]
      BY <1>9 DEF Refuse, PInv, Shape
    <2>5. tripped[id] => s.consecutive_failures >= FailureThreshold
      BY <1>3, <2>1
    <2> QED
      BY <1>2, <1>4, <1>5, <2>1, <2>2, <2>3, <2>4, <2>5, ChangeStep
  <1> QED
    BY <1>6, <1>7, <1>8, <1>9 DEF Outcome

-----------------------------------------------------------------------------

(* A step that touches the states of all keys, but no slot and no counter. *)
LEMMA SweepStep ==
  ASSUME PInv, UNCHANGED <<counter, enabling, calls>>,
         pool' = [id \in Ids |-> pool'[id]], DOMAIN pool' = Ids,
         \A id \in Ids :
           \/ pool[id] = NoState /\ pool'[id] = NoState
           \/ /\ pool[id] \in KeyState /\ pool'[id] \in KeyState
              /\ pool'[id].active_requests = pool[id].active_requests
              /\ pool'[id].consecutive_failures = pool[id].consecutive_failures
  PROVE  PInv'
  <1>1. ASSUME NEW id \in Ids PROVE SoundAt(id)'
    <2>1. SoundAt(id)
      BY DEF PInv
    <2>2. inflight'[id] = inflight[id] /\ drift'[id] = drift[id] /\ tripped'[id] = tripped[id]
      BY DEF calls
    <2>3. CASE pool[id] = NoState /\ pool'[id] = NoState
      BY <2>1, <2>2, <2>3 DEF SoundAt
    <2>4. CASE pool[id] \in KeyState /\ pool'[id] \in KeyState
      BY <2>1, <2>2, <2>4, NoStateIsNone DEF SoundAt, Sound
    <2> QED BY <2>3, <2>4
  <1>2. Present' = Present
    BY NoStateIsNone DEF Present
  <1>3. Shape'
    BY <1>2 DEF PInv, Shape, calls
  <1> QED BY <1>1, <1>3 DEF PInv

LEMMA StatesAreKeys ==
  ASSUME PInv, NEW id \in Ids
  PROVE  /\ pool[id] = NoState \/ pool[id] \in KeyState
         /\ id \in Present <=> pool[id] \in KeyState
  BY NoStateIsNone DEF PInv, SoundAt, Sound, Present

LEMMA ResetStep == PInv /\ ResetExpired => PInv'
  <1> SUFFICES ASSUME PInv, ResetExpired PROVE PInv'
    OBVIOUS
  <1>1. ASSUME NEW id \in Ids
        PROVE  \/ pool[id] = NoState /\ Recovered(pool[id]) = NoState
               \/ /\ pool[id] \in KeyState /\ Recovered(pool[id]) \in KeyState
                  /\ Recovered(pool[id]).active_requests = pool[id].active_requests
                  /\ Recovered(pool[id]).consecutive_failures = pool[id].consecutive_failures
    <2>1. CASE pool[id] = NoState
      BY <2>1 DEF Recovered, NoState
    <2>2. CASE pool[id] \in KeyState
      BY <2>2, Methods, SlotUse, Failures DEF Recovered
    <2> QED BY <2>1, <2>2, StatesAreKeys
  <1>2. \A id \in Ids : pool'[id] = Recovered(pool[id])
    BY DEF ResetExpired
  <1>3. /\ pool' = [id \in Ids |-> pool'[id]] /\ DOMAIN pool' = Ids
        /\ UNCHANGED <<counter, enabling, calls>>
    BY DEF ResetExpired
  <1> QED BY <1>1, <1>2, <1>3, SweepStep

LEMMA TickStep == PInv /\ PoolTick => PInv'
  <1> SUFFICES ASSUME PInv, PoolTick PROVE PInv'
    OBVIOUS
  <1>1. ASSUME NEW id \in Ids
        PROVE  \/ pool[id] = NoState /\ pool'[id] = NoState
               \/ /\ pool[id] \in KeyState /\ pool'[id] \in KeyState
                  /\ pool'[id].active_requests = pool[id].active_requests
                  /\ pool'[id].consecutive_failures = pool[id].consecutive_failures
    <2>1. CASE pool[id] = NoState
      BY <2>1 DEF PoolTick, Present
    <2>2. CASE pool[id] \in KeyState
      <3>1. pool'[id] = Elapse(pool[id])
        BY <2>2, StatesAreKeys DEF PoolTick
      <3> QED BY <2>2, <3>1, Methods, SlotUse, Failures
    <2> QED BY <2>1, <2>2, StatesAreKeys
  <1>2. /\ pool' = [id \in Ids |-> pool'[id]] /\ DOMAIN pool' = Ids
        /\ UNCHANGED <<counter, enabling, calls>>
    BY DEF PoolTick
  <1> QED BY <1>1, <1>2, SweepStep

LEMMA AddStep == PInv /\ AddKey => PInv'
  <1> SUFFICES ASSUME PInv, AddKey PROVE PInv'
    OBVIOUS
  <1>1. PICK id \in FreeIds : counter' = id + 1 /\ Put(id, NewKey)
    BY DEF AddKey
  <1>2. id \in Ids /\ counter' \in 0..NumIds
    BY <1>1, ConstantsAreOK DEF FreeIds, Ids, ConstantsOK
  <1> QED BY <1>1, <1>2, PutStep

LEMMA EnableEndsStep == PInv /\ EnableKeyEnds => PInv'
  <1> SUFFICES ASSUME PInv, EnableKeyEnds PROVE PInv'
    OBVIOUS
  <1> DEFINE s == [pool[enabling] EXCEPT !.cooldown = 0]
  <1>1. /\ enabling \in Present /\ enabling' = Nobody
        /\ Change(enabling, s) /\ UNCHANGED counter /\ UNCHANGED calls
    BY DEF EnableKeyEnds, PInv, Shape
  <1>2. pool[enabling] \in KeyState
    BY <1>1, PresentIsSound
  <1>3. /\ s \in KeyState
        /\ s.active_requests = pool[enabling].active_requests
        /\ s.consecutive_failures = pool[enabling].consecutive_failures
    <2>1. 0 \in 0..CooldownTicks
      BY ConstantsAreOK DEF ConstantsOK
    <2> QED BY <1>2, <2>1 DEF KeyState
  <1> HIDE DEF s
  <1> QED BY <1>1, <1>3, QuietChangeStep

LEMMA PInvStep == PInv /\ [PoolNext]_poolvars => PInv'
  <1> SUFFICES ASSUME PInv, [PoolNext]_poolvars PROVE PInv'
    OBVIOUS
  <1>1. CASE AddKey
    BY <1>1, AddStep
  <1>2. CASE EnableKeyEnds
    BY <1>2, EnableEndsStep
  <1>3. CASE ResetExpired
    BY <1>3, ResetStep
  <1>4. CASE PoolTick
    BY <1>4, TickStep
  <1>5. ASSUME NEW id \in Ids, Operate(id) PROVE PInv'
    BY <1>5, OperatorStep
  <1>6. ASSUME NEW id \in Ids, TakeKey(id) PROVE PInv'
    BY <1>6, TakeStep
  <1>7. ASSUME NEW id \in Ids, Outcome(id) PROVE PInv'
    BY <1>7, OutcomeStep
  <1>8. CASE UNCHANGED poolvars
    BY <1>8 DEF poolvars, PInv, Shape, SoundAt, Sound, Present
  <1> QED
    BY <1>1, <1>2, <1>3, <1>4, <1>5, <1>6, <1>7, <1>8 DEF PoolNext

LEMMA AlwaysPInv == PoolSpec => []PInv
  BY InitPInv, PInvStep, PTL DEF PoolSpec

-----------------------------------------------------------------------------

(* The pool, its counter, its calls and their drift keep their types, for  *)
(* whatever operators do: no key has less than no slot taken.              *)
THEOREM PoolTypeCorrect == PoolSpec => []PoolTypeOK
  <1>1. PInv => PoolTypeOK
    <2> SUFFICES ASSUME PInv PROVE PoolTypeOK
      OBVIOUS
    <2>1. pool \in [Ids -> KeyState \cup {NoState}]
      BY StatesAreKeys DEF PInv, Shape
    <2>2. ASSUME NEW id \in Ids PROVE drift[id] \in -MaxCalls..MaxParallel
      <3>1. drift[id] \in Int /\ inflight[id] \in 0..MaxCalls
        BY DEF PInv, Shape
      <3>2. CASE id \in Present
        BY <3>1, <3>2, PresentIsSound, ConstantsAreOK DEF ConstantsOK
      <3>3. CASE id \notin Present
        <4>1. drift[id] = 0
          BY <3>3, NoStateIsNone, StatesAreKeys DEF PInv, SoundAt, Sound
        <4> QED BY <4>1, ConstantsAreOK DEF ConstantsOK
      <3> QED BY <3>2, <3>3
    <2> QED BY <2>1, <2>2 DEF PoolTypeOK, PInv, Shape
  <1> QED BY <1>1, AlwaysPInv, PTL

(* A key of the pool has more calls under way than its cap only by the     *)
(* slots that mark_unhealthy gave back for calls that never were.          *)
THEOREM PoolCapHolds == PoolSpec => []CapExceededOnlyByOperator
  <1>1. PInv => CapExceededOnlyByOperator
    <2> SUFFICES ASSUME PInv, NEW id \in Present
                 PROVE  inflight[id] <= MaxParallel - drift[id]
      BY DEF CapExceededOnlyByOperator
    <2>1. inflight[id] \in 0..MaxCalls /\ drift[id] \in Int
      BY PresentIsSound DEF PInv, Shape
    <2> QED BY <2>1, PresentIsSound, ConstantsAreOK DEF ConstantsOK
  <1> QED BY <1>1, AlwaysPInv, PTL

(* An idle ACTIVE key can be taken unless refused calls kept its slots.    *)
THEOREM IdleKeysCanBeTaken == PoolSpec => []IdleKeysAvailable
  <1>1. PInv => IdleKeysAvailable
    <2> SUFFICES ASSUME PInv, NEW id \in Present,
                        pool[id].status = "ACTIVE", ~IsCoolingDown(pool[id]),
                        inflight[id] = 0, drift[id] < MaxParallel
                 PROVE  id \in Eligible
      BY DEF IdleKeysAvailable
    <2>1. pool[id].active_requests = inflight[id] + drift[id] /\ drift[id] \in Int
      BY PresentIsSound DEF PInv, Shape
    <2>2. HasFreeSlot(pool[id])
      BY <2>1, ConstantsAreOK DEF HasFreeSlot, ConstantsOK
    <2> QED BY <2>2 DEF Eligible, IsAvailable
  <1> QED BY <1>1, AlwaysPInv, PTL

(* A key whose breaker tripped is retired by its next failure, however     *)
(* often it was enabled, disabled or rate limited meanwhile.               *)
THEOREM EnabledKeysAreOnProbation == PoolSpec => EnabledOnProbation
  <1>1. PInv /\ [PoolNext]_poolvars =>
          [\A id \in Ids : tripped[id] /\ Fail(id) => pool'[id].status = "FAILED"]_poolvars
    <2> SUFFICES ASSUME PInv, NEW id \in Ids, tripped[id], Fail(id)
                 PROVE  pool'[id].status = "FAILED"
      OBVIOUS
    <2> DEFINE f == RecordFailure(pool[id])
    <2>1. id \in Present
      BY CallsArePresent DEF Fail, Leave
    <2>2. /\ pool[id] \in KeyState
          /\ pool[id].consecutive_failures >= FailureThreshold
      BY <2>1, PresentIsSound
    <2>3. f \in KeyState /\ f.consecutive_failures >= pool[id].consecutive_failures
      BY <2>2, Methods, Failures
    <2>4. ReachedThreshold(f)
      <3> HIDE DEF f
      <3> QED BY <2>2, <2>3, RisingFailures DEF ReachedThreshold
    <2>5. Change(id, MarkFailed(f))
      BY <2>4 DEF Fail
    <2>6. pool'[id] = MarkFailed(f)
      <3> HIDE DEF f
      <3> QED BY <2>5 DEF Change, PInv, Shape
    <2>7. MarkFailed(f).status = "FAILED"
      <3> HIDE DEF f
      <3> QED BY <2>3 DEF MarkFailed, KeyState
    <2> QED BY <2>6, <2>7
  <1> QED BY <1>1, AlwaysPInv, PTL DEF PoolSpec, EnabledOnProbation

(* A key that is added under a generated id replaces none.                 *)
THEOREM FreshIdsAreFree == PoolSpec => FreshIdsReplaceNothing
  <1>1. PInv /\ [PoolNext]_poolvars =>
          [AddKey => \A id \in Present : pool'[id] = pool[id]]_poolvars
    <2> SUFFICES ASSUME PInv, AddKey, NEW id \in Present
                 PROVE  pool'[id] = pool[id]
      OBVIOUS
    <2>1. PICK new \in FreeIds : Put(new, NewKey)
      BY DEF AddKey
    <2>2. new # id
      BY DEF FreeIds, Present
    <2> QED BY <2>1, <2>2 DEF Put, PInv, Shape, Present
  <1> QED BY <1>1, AlwaysPInv, PTL DEF PoolSpec, FreshIdsReplaceNothing

(* A key retired, and left by its last call, is brought back by operators  *)
(* alone.                                                                  *)
THEOREM OperatorsAloneRestoreKeys == PoolSpec => OperatorAloneRestores
  <1>1. PInv /\ [PoolNext]_poolvars =>
          [\A id \in Ids :
             pool[id].status \in {"DISABLED", "FAILED"} /\ inflight[id] = 0
               => \/ pool'[id].status \in {"DISABLED", "FAILED"}
                  \/ Operate(id) \/ (AddKey /\ id \in FreeIds)]_poolvars
    <2> SUFFICES ASSUME PInv, PoolNext, NEW id \in Ids,
                        pool[id].status \in {"DISABLED", "FAILED"}, inflight[id] = 0,
                        ~Operate(id), ~(AddKey /\ id \in FreeIds)
                 PROVE  pool'[id].status = pool[id].status
      BY DEF poolvars
    <2>1. pool[id] \in KeyState
      <3>1. pool[id] # NoState
        BY DEF NoState
      <3> QED BY <3>1, StatesAreKeys
    <2>2. CASE AddKey
      <3>1. PICK new \in FreeIds : Put(new, NewKey)
        BY <2>2 DEF AddKey
      <3> QED BY <2>2, <3>1 DEF Put, PInv, Shape
    <2>3. CASE EnableKeyEnds
      BY <2>1, <2>3 DEF EnableKeyEnds, Change, PInv, Shape, KeyState
    <2>4. CASE ResetExpired
      <3>1. pool'[id] = Recovered(pool[id])
        BY <2>4 DEF ResetExpired
      <3> QED BY <3>1 DEF Recovered
    <2>5. CASE PoolTick
      <3>1. pool'[id] = Elapse(pool[id])
        BY <2>1, <2>5, StatesAreKeys DEF PoolTick
      <3> QED BY <2>1, <3>1 DEF Elapse, KeyState
    <2>6. ASSUME NEW other \in Ids, Operate(other) \/ TakeKey(other) \/ Outcome(other)
          PROVE  pool'[id].status = pool[id].status
      <3>1. other # id
        <4>1. ~TakeKey(id)
          BY DEF TakeKey, Eligible, IsAvailable
        <4>2. ~Outcome(id)
          BY DEF Outcome, Succeed, RateLimit, Fail, Refuse, Leave
        <4> QED BY <2>6, <4>1, <4>2
      <3>2. pool'[id] = pool[id]
        BY <2>6, <3>1
        DEF Operate, AddKeyAs, RemoveKey, EnableKey, DisableKey, MarkUnhealthyFailed,
            MarkUnhealthy, TakeKey, Outcome, Succeed, RateLimit, Fail, Refuse, Put,
            Change, PInv, Shape
      <3> QED BY <3>2
    <2> QED BY <2>2, <2>3, <2>4, <2>5, <2>6 DEF PoolNext
  <1> QED BY <1>1, AlwaysPInv, PTL DEF PoolSpec, OperatorAloneRestores

-----------------------------------------------------------------------------

(* Scheduling strategies.                                                  *)

(* The keys of the scheduler, and the heaviest weight among them.          *)
LEMMA MembersFinite ==
  /\ NumMembers \in Nat \ {0}
  /\ IsFiniteSet(Members) /\ Cardinality(Members) = NumMembers
  /\ Members \subseteq Nat /\ 1 \in Members
  /\ \A A \in SUBSET Members : IsFiniteSet(A) /\ Cardinality(A) \in Nat
  <1>1. NumMembers \in Nat \ {0}
    BY StrategiesAssumption
  <1>2. IsFiniteSet(Members) /\ Cardinality(Members) = NumMembers
    BY <1>1, FS_Interval DEF Members
  <1>3. \A A \in SUBSET Members : IsFiniteSet(A) /\ Cardinality(A) \in Nat
    BY <1>2, FS_Subset, FS_CardinalityType
  <1> QED BY <1>1, <1>2, <1>3 DEF Members

LEMMA WeightsArePositive ==
  \A k \in Members : \A limit \in Limits :
    /\ LimitOf(k, limit) \in Nat
    /\ WeightOf(k, limit) \in Nat /\ WeightOf(k, limit) > 0
    /\ Weights(limit)[k] = WeightOf(k, limit)
  BY StrategiesAssumption DEF WeightOf, LimitOf, Weights

(* First finds the least of any candidates.                                *)
LEMMA FirstIs ==
  ASSUME NEW S \in SUBSET Members, S # {}
  PROVE  First(S) \in S /\ \A j \in S : First(S) <= j
  <1> DEFINE f == [k \in Members |-> k]
  <1>1. \A s \in S : f[s] = s /\ f[s] \in Int
    BY MembersFinite
  <1>2. \E k \in S : \A j \in S : f[k] <= f[j]
    <2> HIDE DEF f
    <2> QED BY <1>1, MembersFinite, LeastValue
  <1>3. \E k \in S : \A j \in S : k <= j
    BY <1>1, <1>2
  <1> QED BY <1>3 DEF First

LEMMA LowestIs ==
  ASSUME NEW S \in SUBSET Members, S # {}, NEW f, \A s \in S : f[s] \in Int
  PROVE  LET k == First({i \in S : \A j \in S : f[i] <= f[j]}) IN
         k \in S /\ \A j \in S : f[k] <= f[j]
  <1> DEFINE M == {i \in S : \A j \in S : f[i] <= f[j]}
  <1>1. M # {} /\ M \in SUBSET Members
    <2>1. \E k \in S : \A j \in S : f[k] <= f[j]
      BY MembersFinite, LeastValue
    <2> QED BY <2>1
  <1>2. First(M) \in M
    <2> HIDE DEF M
    <2> QED BY <1>1, FirstIs
  <1> QED BY <1>2

LEMMA HighestIs ==
  ASSUME NEW S \in SUBSET Members, S # {}, NEW f, \A s \in S : f[s] \in Int
  PROVE  LET k == First({i \in S : \A j \in S : f[j] <= f[i]}) IN
         k \in S /\ \A j \in S : f[j] <= f[k]
  <1> DEFINE g == [k \in S |-> 0 - f[k]]
             M == {i \in S : \A j \in S : f[j] <= f[i]}
  <1>1. \A s \in S : g[s] \in Int /\ f[s] = 0 - g[s]
    OBVIOUS
  <1>2. M # {} /\ M \in SUBSET Members
    <2>1. \E k \in S : \A j \in S : g[k] <= g[j]
      <3> HIDE DEF g
      <3> QED BY <1>1, MembersFinite, LeastValue
    <2>2. PICK k \in S : \A j \in S : g[k] <= g[j]
      BY <2>1
    <2>3. \A j \in S : f[j] <= f[k]
      <3> HIDE DEF g
      <3> QED BY <1>1, <2>2
    <2> QED BY <2>3
  <1>3. First(M) \in M
    <2> HIDE DEF M
    <2> QED BY <1>2, FirstIs
  <1> QED BY <1>3

(* A finite set of numbers has a lowest and a highest one.                 *)
LEMMA Extremes ==
  ASSUME NEW S \in SUBSET Nat, IsFiniteSet(S), S # {}
  PROVE  /\ Lowest(S) \in S /\ \A n \in S : Lowest(S) <= n
         /\ Highest(S) \in S /\ \A n \in S : n <= Highest(S)
  <1> DEFINE id == [n \in S |-> n]
             opposite == [n \in S |-> 0 - n]
  <1>1. \A n \in S : id[n] = n /\ id[n] \in Int /\ opposite[n] = 0 - n /\ opposite[n] \in Int
    OBVIOUS
  <1>2. \E n \in S : \A m \in S : n <= m
    <2>1. \E n \in S : \A m \in S : id[n] <= id[m]
      <3> HIDE DEF id
      <3> QED BY <1>1, LeastValue
    <2> QED BY <1>1, <2>1
  <1>3. \E n \in S : \A m \in S : m <= n
    <2>1. \E n \in S : \A m \in S : opposite[n] <= opposite[m]
      <3> HIDE DEF opposite
      <3> QED BY <1>1, LeastValue
    <2>2. PICK n \in S : \A m \in S : opposite[n] <= opposite[m]
      BY <2>1
    <2>3. \A m \in S : m <= n
      <3> HIDE DEF opposite
      <3>1. \A m \in S : m \in Nat /\ opposite[m] = 0 - m
        BY <1>1
      <3> QED BY <2>2, <3>1
    <2> QED BY <2>3
  <1> QED BY <1>2, <1>3 DEF Lowest, Highest

(* The heaviest weight there is, and the least of a key.                   *)
LEMMA TopWeightIs ==
  /\ TopWeight \in Nat
  /\ \A k \in Members : \A limit \in Limits :
       LeastWeight(k) <= WeightOf(k, limit) /\ WeightOf(k, limit) <= TopWeight
  /\ \A k \in Members : LeastWeight(k) \in Nat
  /\ Reach = (NumMembers - 1) * TopWeight
  /\ Reach \in Nat
  <1> DEFINE own == {OwnLimit[k] : k \in Members}
             possible == own \cup Limits \cup {1}
             all == {WeightOf(k, limit) : k \in Members, limit \in Limits}
             of(k) == {WeightOf(k, limit) : limit \in Limits}
  <1>1. IsFiniteSet(possible) /\ possible \in SUBSET Nat
    <2>1. IsFiniteSet(own)
      <3>1. OwnLimit \in Surjection(Members, own)
        BY StrategiesAssumption DEF Surjection
      <3> QED BY <3>1, MembersFinite, FS_Surjection
    <2>2. own \in SUBSET Nat
      BY StrategiesAssumption
    <2>3. IsFiniteSet(own \cup Limits)
      <3> HIDE DEF own
      <3> QED BY <2>1, StrategiesAssumption, FS_Union
    <2>4. IsFiniteSet(possible)
      <3> HIDE DEF own
      <3> QED BY <2>3, FS_AddElement
    <2>5. possible \in SUBSET Nat
      <3> HIDE DEF own
      <3> QED BY <2>2, StrategiesAssumption
    <2> QED BY <2>4, <2>5
  <1>2. \A k \in Members : \A limit \in Limits : WeightOf(k, limit) \in possible
    BY DEF WeightOf, LimitOf
  <1> HIDE DEF possible
  <1>3. /\ all \in SUBSET possible /\ all # {}
        /\ \A k \in Members : of(k) \in SUBSET possible /\ of(k) # {}
    <2>1. PICK limit \in Limits : TRUE
      BY StrategiesAssumption
    <2>2. 1 \in Members
      BY MembersFinite
    <2> QED BY <1>2, <2>1, <2>2
  <1>4. ASSUME NEW T \in SUBSET possible PROVE IsFiniteSet(T) /\ T \in SUBSET Nat
    BY <1>1, FS_Subset
  <1>5. /\ TopWeight = Highest(all)
        /\ \A k \in Members : LeastWeight(k) = Lowest(of(k))
    BY DEF TopWeight, LeastWeight
  <1>6. TopWeight \in all /\ \A n \in all : n <= TopWeight
    <2> HIDE DEF all
    <2> QED BY <1>3, <1>4, <1>5, Extremes
  <1>7. ASSUME NEW k \in Members
        PROVE  LeastWeight(k) \in of(k) /\ \A n \in of(k) : LeastWeight(k) <= n
    <2> DEFINE T == of(k)
    <2>1. T \in SUBSET possible /\ T # {} /\ LeastWeight(k) = Lowest(T)
      BY <1>3, <1>5
    <2> HIDE DEF T
    <2>2. LeastWeight(k) \in T /\ \A n \in T : LeastWeight(k) <= n
      BY <1>4, <2>1, Extremes
    <2> QED BY <2>2 DEF T
  <1>8. TopWeight \in Nat /\ \A k \in Members : LeastWeight(k) \in Nat
    BY <1>3, <1>4, <1>6, <1>7
  <1>9. Reach = (NumMembers - 1) * TopWeight
    BY DEF Reach
  <1>10. Reach \in Nat
    <2>1. NumMembers - 1 \in Nat /\ TopWeight \in Nat
      BY <1>8, MembersFinite
    <2> DEFINE others == NumMembers - 1
    <2> HIDE DEF others
    <2>2. others * TopWeight \in Nat
      BY <2>1 DEF others
    <2>3. Reach = others * TopWeight
      BY <1>9 DEF others
    <2> QED BY <2>2, <2>3
  <1>11. ASSUME NEW k \in Members, NEW limit \in Limits
         PROVE  LeastWeight(k) <= WeightOf(k, limit) /\ WeightOf(k, limit) <= TopWeight
    <2>1. WeightOf(k, limit) \in of(k) /\ WeightOf(k, limit) \in all
      OBVIOUS
    <2> QED BY <1>6, <1>7, <2>1
  <1> HIDE DEF all, of
  <1> QED BY <1>8, <1>9, <1>10, <1>11

-----------------------------------------------------------------------------

(* Where the round stands.                                                 *)
Distance(n, k) == (k - n + NumMembers) % NumMembers

LEMMA OffsetIs ==
  \A k : /\ Offset(k) = Distance(next_index, k)
         /\ Offset(k)' = Distance(next_index', k)
  BY DEF Offset, Distance

LEMMA DistanceIs ==
  ASSUME NEW n \in Members, NEW k \in Members
  PROVE  /\ Distance(n, k) = IF n <= k THEN k - n ELSE k - n + NumMembers
         /\ Distance(n, k) \in Nat /\ Distance(n, k) < NumMembers
  <1>1. NumMembers \in Nat \ {0} /\ k \in 1..NumMembers /\ n \in 1..NumMembers
    BY MembersFinite DEF Members
  <1> DEFINE x == k - n + NumMembers
  <1>2. CASE n <= k
    <2>1. x \in Nat /\ NumMembers <= x /\ x < 2 * NumMembers
      BY <1>1, <1>2
    <2>2. x % NumMembers = x - NumMembers
      <3> HIDE DEF x
      <3> QED BY <1>1, <2>1
    <2> QED BY <1>1, <1>2, <2>2 DEF Distance
  <1>3. CASE ~(n <= k)
    <2>1. x \in Nat /\ x < NumMembers
      BY <1>1, <1>3
    <2>2. x % NumMembers = x
      <3> HIDE DEF x
      <3> QED BY <1>1, <2>1
    <2> QED BY <1>1, <1>3, <2>2 DEF Distance
  <1> QED BY <1>2, <1>3

LEMMA AfterIndexIs ==
  ASSUME NEW k \in Members
  PROVE  /\ AfterIndex(k) \in Members
         /\ AfterIndex(k) = IF k = NumMembers THEN 1 ELSE k + 1
  <1>1. NumMembers \in Nat \ {0} /\ k \in 1..NumMembers
    BY MembersFinite DEF Members
  <1>2. CASE k = NumMembers
    <2>1. k % NumMembers = 0
      BY <1>1, <1>2
    <2> QED BY <1>1, <1>2, <2>1 DEF AfterIndex, Members
  <1>3. CASE k # NumMembers
    <2>1. k % NumMembers = k
      BY <1>1, <1>3
    <2> QED BY <1>1, <1>3, <2>1 DEF AfterIndex, Members
  <1> QED BY <1>2, <1>3

LEMMA RoundRobinIs ==
  ASSUME next_index \in Members, NEW S \in SUBSET Members, S # {}
  PROVE  RoundRobin(S) \in S /\ \A j \in S : Offset(RoundRobin(S)) <= Offset(j)
  <1> DEFINE f == [k \in Members |-> Offset(k)]
  <1>1. \A s \in S : f[s] = Offset(s) /\ f[s] \in Int
    BY OffsetIs, DistanceIs
  <1>2. {i \in S : \A j \in S : f[i] <= f[j]} = {i \in S : \A j \in S : Offset(i) <= Offset(j)}
    BY <1>1
  <1>3. RoundRobin(S) = First({i \in S : \A j \in S : f[i] <= f[j]})
    BY <1>2 DEF RoundRobin, Least
  <1> HIDE DEF f
  <1>4. RoundRobin(S) \in S /\ \A j \in S : f[RoundRobin(S)] <= f[j]
    BY <1>1, <1>3, LowestIs
  <1> QED BY <1>1, <1>4

(* Every other candidate has come nearer.                                  *)
LEMMA RoundGoesOn ==
  ASSUME next_index \in Members, NEW k \in Members, NEW j \in Members, j # k,
         Offset(k) <= Offset(j), next_index' = AfterIndex(k)
  PROVE  next_index' \in Members /\ Offset(j)' <= Offset(j) - 1
  <1>1. /\ NumMembers \in Nat \ {0} /\ k \in 1..NumMembers /\ j \in 1..NumMembers
        /\ next_index \in 1..NumMembers
    BY MembersFinite DEF Members
  <1>2. next_index' \in Members /\ next_index' = IF k = NumMembers THEN 1 ELSE k + 1
    BY AfterIndexIs
  <1>3. next_index' \in 1..NumMembers
    BY <1>2 DEF Members
  <1>4. Offset(j)' = IF next_index' <= j THEN j - next_index'
                                        ELSE j - next_index' + NumMembers
    BY <1>2, OffsetIs, DistanceIs
  <1>5. /\ Offset(j) = IF next_index <= j THEN j - next_index
                                         ELSE j - next_index + NumMembers
        /\ Offset(k) = IF next_index <= k THEN k - next_index
                                         ELSE k - next_index + NumMembers
    BY OffsetIs, DistanceIs
  <1> QED BY <1>1, <1>2, <1>3, <1>4, <1>5

-----------------------------------------------------------------------------

(* The arithmetic of a group of a keys, t of them candidates, when another *)
(* key wins: u is what the group is owed after it, x what the winner was   *)
(* owed before it, p what those of the group were that are no candidates.  *)
LEMMA GroupArithmetic ==
  ASSUME NEW w \in Nat, NEW a \in Nat, NEW t \in Nat, NEW n \in Nat,
         NEW u \in Int, NEW p \in Int, NEW x \in Int, NEW wi \in Int, NEW wT \in Int,
         t <= a, a + 1 <= n,
         u <= p + t * (x + wi),
         u <= w * ((a + 1) * (n - a - 1)) - x + wT,
         p <= w * ((a - t) * (n - a + t)),
         wi <= w, wT <= t * w
  PROVE  u <= w * (a * (n - a))
  <1> DEFINE B == w * (a * (n - a))
             Q == w * ((a + 1) * (n - a - 1))
             P == w * ((a - t) * (n - a + t))
  <1>1. B \in Int /\ Q \in Int /\ P \in Int
    OBVIOUS
  <1>2. P + t * Q + (t * (t + 1)) * w = (t + 1) * B
    OBVIOUS
  <1>3. t * u <= t * (Q - x + wT)
    <2> DEFINE d == Q - x + wT - u
    <2>1. d \in Nat
      OBVIOUS
    <2>2. t * d \in Nat
      <3> HIDE DEF d
      <3> QED BY <2>1
    <2>3. t * (Q - x + wT) - t * u = t * d
      <3> HIDE DEF Q
      <3> QED BY <1>1
    <2> HIDE DEF d, Q
    <2> QED BY <1>1, <2>2, <2>3
  <1>4. t * wi <= t * w /\ t * wT <= t * (t * w)
    OBVIOUS
  <1>5. (t + 1) * u <= (t + 1) * B
    <2> HIDE DEF B, Q, P
    <2> QED BY <1>1, <1>2, <1>3, <1>4 DEF P
  <1>6. u <= B
    <2> HIDE DEF B
    <2> QED BY <1>1, <1>5
  <1> QED BY <1>6

(* What a group of keys is owed at most.                                   *)
GroupBound(A) == TopWeight * (Cardinality(A) * (NumMembers - Cardinality(A)))

Balanced(f) ==
  /\ f \in [Members -> Int]
  /\ SumFunctionOnSet(f, Members) = 0
  /\ \A A \in SUBSET Members : SumFunctionOnSet(f, A) <= GroupBound(A)

(* What the candidates among a group weigh.                                *)
LEMMA WeightOfGroup ==
  ASSUME NEW limit \in Limits, NEW weight, weight = Weights(limit),
         NEW S \in SUBSET Members, NEW A \in SUBSET Members
  PROVE  /\ SumFunctionOnSet(weight, A \cap S) \in Nat
         /\ Total(S, limit) \in Nat
         /\ SumFunctionOnSet(weight, A \cap S) <= Total(S, limit)
         /\ SumFunctionOnSet(weight, A \cap S) <= Cardinality(A \cap S) * TopWeight
  <1> DEFINE zero == [k \in Members |-> 0]
  <1>1. \A B \in SUBSET Members :
          /\ SumFunctionOnSet(weight, B) \in Int
          /\ 0 <= SumFunctionOnSet(weight, B)
    <2> SUFFICES ASSUME NEW B \in SUBSET Members
                 PROVE  /\ SumFunctionOnSet(weight, B) \in Int
                        /\ 0 <= SumFunctionOnSet(weight, B)
      OBVIOUS
    <2>1. \A s \in B : weight[s] \in Nat
      BY WeightsArePositive
    <2>2. /\ IsFiniteSet(B)
          /\ \A s \in B : zero[s] = 0 /\ zero[s] \in Int /\ weight[s] \in Int
                         /\ zero[s] <= weight[s]
      BY <2>1, MembersFinite
    <2> HIDE DEF zero
    <2>3. SumFunctionOnSet(weight, B) \in Int
      BY <2>2, SumSplit
    <2>4. SumFunctionOnSet(zero, B) = 0
      BY <2>2, ZeroSum
    <2>5. SumFunctionOnSet(zero, B) <= SumFunctionOnSet(weight, B)
      BY <2>2, SumMonotone
    <2> QED BY <2>3, <2>4, <2>5
  <1>2. Total(S, limit) = SumFunctionOnSet(weight, S)
    BY DEF Total
  <1>3. SumFunctionOnSet(weight, S) =
          SumFunctionOnSet(weight, S \cap A) + SumFunctionOnSet(weight, S \ A)
    <2>1. IsFiniteSet(S) /\ \A s \in S : weight[s] \in Int
      BY MembersFinite, WeightsArePositive
    <2>2. S \cap A \in SUBSET S /\ S \ A = S \ (S \cap A)
      OBVIOUS
    <2> QED BY <2>1, <2>2, SumParts
  <1>4. S \cap A = A \cap S /\ S \ A \in SUBSET Members /\ A \cap S \in SUBSET Members
    OBVIOUS
  <1>5. SumFunctionOnSet(weight, S \cap A) = SumFunctionOnSet(weight, A \cap S)
    BY <1>4
  <1>6. SumFunctionOnSet(weight, A \cap S) <= Cardinality(A \cap S) * TopWeight
    <2>1. IsFiniteSet(A \cap S)
      BY <1>4, MembersFinite
    <2>2. TopWeight \in Int /\ \A s \in A \cap S : weight[s] \in Int /\ weight[s] <= TopWeight
      BY TopWeightIs, WeightsArePositive
    <2> QED BY <2>1, <2>2, SumAtMost
  <1> QED BY <1>1, <1>2, <1>3, <1>4, <1>5, <1>6

(* A round of smooth weighted round robin: the candidates S are raised by  *)
(* their weights, and the highest of them, i, pays for all.                *)
LEMMA RoundKeepsBalance ==
  ASSUME NEW limit \in Limits, NEW weight, weight = Weights(limit),
         NEW f, Balanced(f), NEW S \in SUBSET Members, NEW i \in S,
         NEW r, r = [k \in Members |-> IF k \in S THEN f[k] + weight[k] ELSE f[k]],
         \A j \in S : r[j] <= r[i],
         NEW g, g = [r EXCEPT ![i] = @ - Total(S, limit)]
  PROVE  Balanced(g)
  <1> DEFINE share == [k \in Members |-> IF k \in S THEN weight[k] ELSE 0]
  <1>1. /\ \A k \in Members : f[k] \in Int /\ r[k] \in Int /\ weight[k] \in Nat
        /\ Total(S, limit) \in Nat /\ i \in Members
    <2>1. \A k \in Members : f[k] \in Int /\ weight[k] \in Nat
      BY WeightsArePositive DEF Balanced
    <2>2. Total(S, limit) \in Nat
      BY WeightOfGroup
    <2> QED BY <2>1, <2>2
  <1>2. /\ g \in [Members -> Int]
        /\ \A k \in Members : g[k] \in Int
        /\ g[i] = r[i] - Total(S, limit)
        /\ \A k \in Members \ {i} : r[k] = g[k]
    BY <1>1
  <1>3. ASSUME NEW A \in SUBSET Members
        PROVE  /\ SumFunctionOnSet(f, A) \in Int
               /\ SumFunctionOnSet(weight, A \cap S) \in Nat
               /\ SumFunctionOnSet(r, A) =
                    SumFunctionOnSet(f, A) + SumFunctionOnSet(weight, A \cap S)
    <2>1. IsFiniteSet(A)
      BY MembersFinite
    <2>2. \A s \in A : f[s] \in Int /\ share[s] \in Int /\ r[s] = f[s] + share[s]
      BY <1>1
    <2>3. /\ \A s \in A \cap S : share[s] = weight[s]
          /\ \A s \in A \ S : share[s] = 0
      OBVIOUS
    <2> HIDE DEF share
    <2>4. SumFunctionOnSet(f, A) \in Int
      BY <2>1, <2>2, SumSplit
    <2>5. SumFunctionOnSet(r, A) = SumFunctionOnSet(f, A) + SumFunctionOnSet(share, A)
      BY <2>1, <2>2, SumOfSums
    <2>6. SumFunctionOnSet(share, A) =
            SumFunctionOnSet(share, A \cap S) + SumFunctionOnSet(share, A \ S)
      <3>1. A \cap S \in SUBSET A /\ A \ S = A \ (A \cap S)
        OBVIOUS
      <3>2. \A s \in A : share[s] \in Int
        BY <2>2
      <3> QED BY <2>1, <3>1, <3>2, SumParts
    <2>7. SumFunctionOnSet(share, A \cap S) = SumFunctionOnSet(weight, A \cap S)
      <3>1. IsFiniteSet(A \cap S)
        BY MembersFinite
      <3> QED BY <2>3, <3>1, SumSame
    <2>8. SumFunctionOnSet(share, A \ S) = 0
      <3>1. IsFiniteSet(A \ S)
        BY MembersFinite
      <3> QED BY <2>3, <3>1, ZeroSum
    <2>9. SumFunctionOnSet(weight, A \cap S) \in Nat
      BY WeightOfGroup
    <2> QED BY <2>4, <2>5, <2>6, <2>7, <2>8, <2>9
  <1>4. ASSUME NEW A \in SUBSET Members, i \in A
        PROVE  SumFunctionOnSet(g, A) =
                 SumFunctionOnSet(f, A) + SumFunctionOnSet(weight, A \cap S) - Total(S, limit)
    <2>1. /\ IsFiniteSet(A)
          /\ \A s \in A : r[s] \in Int /\ g[s] \in Int
          /\ \A s \in A \ {i} : r[s] = g[s]
      BY <1>1, <1>2, MembersFinite
    <2>2. SumFunctionOnSet(g, A) = SumFunctionOnSet(r, A) - r[i] + g[i]
      BY <2>1, <1>4, SumChange
    <2> HIDE DEF share
    <2> QED BY <1>1, <1>2, <1>3, <2>2
  <1>5. SumFunctionOnSet(g, Members) = 0
    <2>1. Members \in SUBSET Members /\ Members \cap S = S
      OBVIOUS
    <2>2. SumFunctionOnSet(weight, Members \cap S) = Total(S, limit)
      BY <2>1 DEF Total
    <2>3. SumFunctionOnSet(f, Members) = 0
      BY DEF Balanced
    <2>4. SumFunctionOnSet(g, Members) =
            SumFunctionOnSet(f, Members)
              + SumFunctionOnSet(weight, Members \cap S) - Total(S, limit)
      BY <1>1, <1>4, <2>1
    <2> QED BY <1>1, <2>2, <2>3, <2>4
  <1>6. ASSUME NEW A \in SUBSET Members PROVE SumFunctionOnSet(g, A) <= GroupBound(A)
    <2> DEFINE n == NumMembers
               a == Cardinality(A)
               t == Cardinality(A \cap S)
    <2>1. SumFunctionOnSet(f, A) <= GroupBound(A) /\ SumFunctionOnSet(f, A) \in Int
      BY <1>3 DEF Balanced
    <2>2. n \in Nat /\ a \in Nat /\ t \in Nat /\ TopWeight \in Nat
      BY MembersFinite, TopWeightIs
    <2>3. CASE i \in A
      <3>1. SumFunctionOnSet(weight, A \cap S) <= Total(S, limit)
        BY WeightOfGroup
      <3>2. GroupBound(A) \in Int
        BY <2>2 DEF GroupBound
      <3>3. SumFunctionOnSet(g, A) =
              SumFunctionOnSet(f, A) + SumFunctionOnSet(weight, A \cap S) - Total(S, limit)
        <4> HIDE DEF share
        <4> QED BY <1>4, <2>3, Zenon
      <3>4. SumFunctionOnSet(weight, A \cap S) \in Nat /\ Total(S, limit) \in Nat
        BY WeightOfGroup
      <3> QED BY <2>1, <3>1, <3>2, <3>3, <3>4
    <2>4. CASE i \notin A
      <3> DEFINE rest == A \ S
                 u == SumFunctionOnSet(g, A)
                 p == SumFunctionOnSet(f, rest)
                 wT == SumFunctionOnSet(weight, A \cap S)
      <3>1. u = SumFunctionOnSet(r, A)
        <4>1. IsFiniteSet(A) /\ \A s \in A : g[s] = r[s]
          BY <1>2, <2>4, MembersFinite
        <4> QED BY <4>1, SumSame
      <3>2. u = SumFunctionOnSet(f, A) + wT /\ wT \in Nat /\ u \in Int
        <4>1. /\ SumFunctionOnSet(f, A) \in Int /\ wT \in Nat
              /\ SumFunctionOnSet(r, A) = SumFunctionOnSet(f, A) + wT
          BY <1>3
        <4> HIDE DEF wT, u
        <4> QED BY <3>1, <4>1
      <3>3. u <= p + t * (f[i] + weight[i]) /\ p \in Int
        <4>1. SumFunctionOnSet(r, A) =
                SumFunctionOnSet(r, A \cap S) + SumFunctionOnSet(r, rest)
          <5>1. IsFiniteSet(A) /\ \A s \in A : r[s] \in Int
            BY <1>1, MembersFinite
          <5>2. A \cap S \in SUBSET A /\ rest = A \ (A \cap S)
            OBVIOUS
          <5> HIDE DEF rest
          <5> QED BY <5>1, <5>2, SumParts
        <4>2. SumFunctionOnSet(r, rest) = p
          <5>1. IsFiniteSet(rest) /\ \A s \in rest : r[s] = f[s]
            BY MembersFinite
          <5> QED BY <5>1, SumSame
        <4>3. SumFunctionOnSet(r, A \cap S) <= t * r[i]
          <5>1. /\ IsFiniteSet(A \cap S) /\ r[i] \in Int
                /\ \A s \in A \cap S : r[s] \in Int /\ r[s] <= r[i]
            BY <1>1, MembersFinite
          <5> QED BY <5>1, SumAtMost
        <4>4. p \in Int
          <5>1. rest \in SUBSET Members
            OBVIOUS
          <5> QED BY <1>3, <5>1
        <4>5. r[i] = f[i] + weight[i]
          BY <1>1
        <4>6. SumFunctionOnSet(r, A \cap S) \in Int
          <5>1. IsFiniteSet(A \cap S) /\ \A s \in A \cap S : r[s] \in Int
            BY <1>1, MembersFinite
          <5> QED BY <5>1, SumSplit
        <4>7. t * r[i] \in Int
          BY <1>1, <2>2
        <4> HIDE DEF u, p, t, rest
        <4> QED BY <3>1, <4>1, <4>2, <4>3, <4>4, <4>5, <4>6, <4>7
      <3>4. t <= a /\ Cardinality(rest) = a - t
        <4>1. IsFiniteSet(A) /\ A \ (A \cap S) = rest
          BY MembersFinite
        <4>2. Cardinality(A \cap S) <= Cardinality(A)
          BY <4>1, FS_Subset
        <4>3. Cardinality(A \ S) = Cardinality(A) - Cardinality(A \cap S)
          BY <4>1, FS_Difference
        <4> QED BY <4>2, <4>3
      <3>5. p <= TopWeight * ((a - t) * (n - a + t))
        <4>1. p <= GroupBound(rest)
          <5>1. rest \in SUBSET Members
            OBVIOUS
          <5> QED BY <5>1 DEF Balanced
        <4>2. n - (a - t) = n - a + t
          BY <2>2
        <4> HIDE DEF p, a, t, n, rest
        <4>3. GroupBound(rest) = TopWeight * ((a - t) * (NumMembers - (a - t)))
          BY <3>4 DEF GroupBound
        <4> QED BY <4>1, <4>2, <4>3 DEF n
      <3>6. a + 1 <= n /\ u <= TopWeight * ((a + 1) * (n - a - 1)) - f[i] + wT
        <4> DEFINE B == A \cup {i}
        <4>1. B \in SUBSET Members /\ Cardinality(B) = a + 1
          BY <1>1, <2>4, MembersFinite, FS_AddElement
        <4>2. Cardinality(B) <= n
          BY <4>1, MembersFinite, FS_Subset
        <4>3. SumFunctionOnSet(f, B) = f[i] + SumFunctionOnSet(f, A)
          <5>1. IsFiniteSet(A) /\ \A s \in A \cup {i} : f[s] \in Int
            BY <1>1, MembersFinite
          <5> QED BY <2>4, <5>1, SumAdd
        <4>4. SumFunctionOnSet(f, B) <= GroupBound(B)
          BY <4>1 DEF Balanced
        <4>5. n - (a + 1) = n - a - 1
          BY <2>2
        <4> HIDE DEF B, a, n
        <4>6. GroupBound(B) = TopWeight * ((a + 1) * (n - a - 1))
          BY <4>1, <4>5 DEF GroupBound, n
        <4>7. GroupBound(B) \in Int /\ f[i] \in Int
          BY <1>1, <2>2, <4>6
        <4> HIDE DEF u, wT
        <4> QED BY <1>1, <2>1, <2>2, <3>2, <4>1, <4>2, <4>3, <4>4, <4>6, <4>7
      <3>7. weight[i] \in Int /\ weight[i] <= TopWeight /\ f[i] \in Int
        BY <1>1, TopWeightIs, WeightsArePositive
      <3>8. wT <= t * TopWeight /\ wT \in Int
        <4>1. SumFunctionOnSet(weight, A \cap S) <= Cardinality(A \cap S) * TopWeight
          BY WeightOfGroup
        <4> QED BY <3>2, <4>1
      <3> HIDE DEF u, wT, p, t, a, n
      <3>9. u <= TopWeight * (a * (n - a))
        BY <2>2, <3>2, <3>3, <3>4, <3>5, <3>6, <3>7, <3>8, GroupArithmetic
      <3> QED BY <3>9 DEF u, a, n, GroupBound
    <2> QED BY <2>3, <2>4
  <1> QED BY <1>2, <1>5, <1>6 DEF Balanced

(* The same of what the strategy remembers.                                *)
LEMMA ChargeKeepsBalance ==
  ASSUME NEW limit \in Limits, Balanced(current),
         NEW S \in SUBSET Members, NEW i \in S,
         \A j \in S : Raised(S, limit)[j] <= Raised(S, limit)[i]
  PROVE  Balanced(Charged(i, S, limit))
  <1> DEFINE f == current
             weight == Weights(limit)
             r == Raised(S, limit)
             g == Charged(i, S, limit)
  <1>1. weight = Weights(limit) /\ Balanced(f) /\ \A j \in S : r[j] <= r[i]
    OBVIOUS
  <1>2. r = [k \in Members |-> IF k \in S THEN f[k] + weight[k] ELSE f[k]]
    BY WeightsArePositive DEF Raised
  <1>3. g = [r EXCEPT ![i] = @ - Total(S, limit)]
    BY DEF Charged
  <1> HIDE DEF f, weight, r, g
  <1>4. Balanced(g)
    BY <1>1, <1>2, <1>3, RoundKeepsBalance
  <1> QED BY <1>4 DEF g

(* What a single key is owed: the bounds for it alone and for the others.  *)
LEMMA OwedWithinReach ==
  ASSUME NEW f, Balanced(f), NEW k \in Members
  PROVE  f[k] \in -Reach .. Reach
  <1> DEFINE others == Members \ {k}
  <1>1. /\ NumMembers \in Nat \ {0} /\ TopWeight \in Nat
        /\ Reach = (NumMembers - 1) * TopWeight /\ Reach \in Nat
        /\ \A j \in Members : f[j] \in Int
    BY MembersFinite, TopWeightIs DEF Balanced
  <1>2. f[k] <= Reach
    <2>1. {k} \in SUBSET Members /\ IsFiniteSet({k}) /\ Cardinality({k}) = 1
      BY FS_Singleton
    <2>2. SumFunctionOnSet(f, {k}) = f[k]
      <3>1. {k} \ {k} = {}
        OBVIOUS
      <3>2. SumFunctionOnSet(f, {k}) = f[k] + SumFunctionOnSet(f, {k} \ {k})
        BY <1>1, <2>1, SumSplit
      <3>3. SumFunctionOnSet(f, {k} \ {k}) = 0
        BY <3>1, EmptySum, Zenon
      <3> QED BY <1>1, <3>2, <3>3
    <2>3. SumFunctionOnSet(f, {k}) <= GroupBound({k})
      BY <2>1 DEF Balanced
    <2>4. GroupBound({k}) = Reach
      BY <1>1, <2>1 DEF GroupBound
    <2> QED BY <2>2, <2>3, <2>4, Zenon
  <1>3. 0 - f[k] <= Reach
    <2>1. others \in SUBSET Members /\ Cardinality(others) = NumMembers - 1
      BY <1>1, MembersFinite, FS_RemoveElement
    <2>2. SumFunctionOnSet(f, Members) = f[k] + SumFunctionOnSet(f, others)
      <3>1. IsFiniteSet(Members) /\ \A j \in Members : f[j] \in Int
        BY <1>1, MembersFinite
      <3> QED BY <3>1, SumSplit
    <2>3. SumFunctionOnSet(f, others) <= GroupBound(others)
      BY <2>1 DEF Balanced
    <2>4. SumFunctionOnSet(f, others) \in Int
      <3>1. IsFiniteSet(others) /\ \A j \in others : f[j] \in Int
        BY <1>1, MembersFinite
      <3> QED BY <3>1, SumSplit
    <2> HIDE DEF others
    <2>5. GroupBound(others) = Reach
      BY <1>1, <2>1 DEF GroupBound
    <2> QED BY <1>1, <2>2, <2>3, <2>4, <2>5 DEF Balanced
  <1> QED BY <1>1, <1>2, <1>3

(* Whom weighted round robin picks.                                        *)
LEMMA HeaviestIs ==
  ASSUME NEW limit \in Limits, NEW S \in SUBSET Members, S # {}, current \in [Members -> Int]
  PROVE  /\ Heaviest(S, limit) \in S
         /\ \A j \in S : Raised(S, limit)[j] <= Raised(S, limit)[Heaviest(S, limit)]
  <1> DEFINE r == Raised(S, limit)
  <1>1. \A s \in S : r[s] \in Int
    BY WeightsArePositive DEF Raised
  <1>2. Heaviest(S, limit) = First({i \in S : \A j \in S : r[j] <= r[i]})
    BY DEF Heaviest, Greatest
  <1> HIDE DEF r
  <1>3. Heaviest(S, limit) \in S /\ \A j \in S : r[j] <= r[Heaviest(S, limit)]
    BY <1>1, <1>2, HighestIs
  <1> QED BY <1>3 DEF r

(* What holds between steps.  A key's turn comes within as many selections *)
(* as it is from where the round goes on; under weighted round robin it    *)
(* has been raised, by its least weight or more, as often as it waited.    *)
WaitBound(k) ==
  /\ strategy = "round_robin" => waits[k] + Offset(k) <= NumMembers - 1
  /\ strategy = "weighted_round_robin" => waits[k] * LeastWeight(k) <= Reach + current[k]
  /\ ~TakesTurns => waits[k] = 0

SInv ==
  /\ StrategiesTypeOK
  /\ Balanced(current)
  /\ \A k \in Members : WaitBound(k)

(* Where everything begins and where a new strategy begins.                *)
LEMMA NobodyIsOwed == Balanced([k \in Members |-> 0])
  <1> DEFINE zero == [k \in Members |-> 0]
  <1>1. \A k \in Members : zero[k] = 0 /\ zero \in [Members -> Int]
    OBVIOUS
  <1> HIDE DEF zero
  <1>2. ASSUME NEW A \in SUBSET Members PROVE SumFunctionOnSet(zero, A) = 0
    <2>1. IsFiniteSet(A) /\ \A k \in A : zero[k] = 0
      BY <1>1, MembersFinite
    <2> QED BY <2>1, ZeroSum
  <1>3. ASSUME NEW A \in SUBSET Members PROVE 0 <= GroupBound(A)
    <2>1. Cardinality(A) <= NumMembers
      BY MembersFinite, FS_Subset
    <2>2. TopWeight \in Nat /\ Cardinality(A) \in Nat /\ NumMembers - Cardinality(A) \in Nat
      BY <2>1, MembersFinite, TopWeightIs
    <2> DEFINE a == Cardinality(A)
               b == NumMembers - Cardinality(A)
    <2> HIDE DEF a, b
    <2>3. a * b \in Nat
      BY <2>2 DEF a, b
    <2>4. TopWeight * (a * b) \in Nat
      <3> DEFINE ab == a * b
      <3> HIDE DEF ab
      <3>1. TopWeight * ab \in Nat
        BY <2>2, <2>3 DEF ab
      <3> QED BY <3>1 DEF ab
    <2> QED BY <2>4 DEF GroupBound, a, b
  <1>4. SumFunctionOnSet(zero, Members) = 0
    BY <1>2
  <1> QED BY <1>1, <1>2, <1>3, <1>4 DEF Balanced, zero

LEMMA FreshWaits ==
  ASSUME NEW k \in Members, next_index \in Members, waits[k] = 0, Balanced(current)
  PROVE  WaitBound(k)
  <1>1. Offset(k) \in Nat /\ Offset(k) < NumMembers
    BY OffsetIs, DistanceIs
  <1>2. /\ Reach \in Nat /\ LeastWeight(k) \in Nat /\ NumMembers \in Nat
        /\ current[k] \in -Reach .. Reach
    BY TopWeightIs, MembersFinite, OwedWithinReach
  <1> QED BY <1>1, <1>2 DEF WaitBound

LEMMA InitSInv == StrategiesInit => SInv
  <1> SUFFICES ASSUME StrategiesInit PROVE SInv
    OBVIOUS
  <1> USE DEF StrategiesInit
  <1>1. StrategiesTypeOK
    <2>1. 0 \in 0..MaxRequests /\ 0 \in 0..Slots /\ 0 \in Int /\ 1 \in Members
      BY StrategiesAssumption, MembersFinite
    <2> QED BY <2>1 DEF StrategiesTypeOK, Strategies
  <1>2. Balanced(current)
    BY NobodyIsOwed
  <1>3. ASSUME NEW k \in Members PROVE WaitBound(k)
    BY <1>1, <1>2, FreshWaits DEF StrategiesTypeOK
  <1> QED BY <1>1, <1>2, <1>3 DEF SInv

(* A selection: the winner comes first, the other candidates come nearer.  *)
LEMMA SelectKeepsSInv ==
  ASSUME SInv, NEW S \in SUBSET {k \in Members : active[k] < Slots}, NEW k \in S,
         NEW limit \in Limits, Select(k, S, limit)
  PROVE  SInv'
  <1> USE DEF Select
  <1>1. /\ S \in SUBSET Members /\ S # {} /\ k \in Members /\ k \in S
        /\ StrategiesTypeOK /\ Balanced(current)
        /\ \A j \in Members : WaitBound(j)
    BY DEF SInv
  <1>2. /\ current \in [Members -> Int] /\ next_index \in Members
        /\ rpm \in [Members -> Nat] /\ active \in [Members -> Nat]
        /\ waits \in [Members -> Nat] /\ strategy \in Strategies
    BY <1>1 DEF StrategiesTypeOK
  <1>3. Balanced(current')
    <2>1. CASE strategy = "weighted_round_robin"
      <3>1. k = Heaviest(S, limit) /\ current' = Charged(k, S, limit)
        BY <2>1 DEF Picks
      <3>2. \A j \in S : Raised(S, limit)[j] <= Raised(S, limit)[k]
        BY <1>1, <1>2, <3>1, HeaviestIs
      <3> QED BY <1>1, <3>1, <3>2, ChargeKeepsBalance
    <2>2. CASE strategy # "weighted_round_robin"
      BY <1>1, <2>2
    <2> QED BY <2>1, <2>2
  <1>4. /\ current' \in [Members -> Int]
        /\ next_index' \in Members
        /\ \A j \in Members : 0 - Reach <= current'[j]
    <2>1. next_index' \in Members
      BY <1>1, <1>2, AfterIndexIs
    <2>2. \A j \in Members : current'[j] \in -Reach .. Reach
      BY <1>3, OwedWithinReach
    <2>3. Reach \in Nat
      BY TopWeightIs
    <2> QED BY <1>3, <2>1, <2>2, <2>3 DEF Balanced
  <1>5. StrategiesTypeOK'
    <2>1. waits' \in [Members -> Nat]
      BY <1>2 DEF Waited
    <2>2. /\ MaxRequests \in Nat /\ Slots \in Nat
          /\ rpm[k] \in 0..MaxRequests /\ active[k] \in 0..Slots
          /\ rpm[k] < MaxRequests /\ active[k] < Slots
      BY <1>1, StrategiesAssumption DEF StrategiesTypeOK
    <2>3. rpm' \in [Members -> 0..MaxRequests] /\ active' \in [Members -> 0..Slots]
      BY <1>1, <2>2 DEF StrategiesTypeOK
    <2> QED BY <1>2, <1>4, <2>1, <2>3 DEF StrategiesTypeOK
  <1>6. ASSUME NEW j \in Members PROVE WaitBound(j)'
    <2>1. /\ Reach \in Nat /\ LeastWeight(j) \in Nat /\ NumMembers \in Nat
          /\ WeightOf(j, limit) \in Nat /\ LeastWeight(j) <= WeightOf(j, limit)
          /\ current[j] \in Int /\ waits[j] \in Nat
          /\ Reach' = Reach
      BY <1>2, TopWeightIs, WeightsArePositive, MembersFinite DEF Reach, TopWeight
    <2>2. waits'[j] = IF TakesTurns /\ j \in S /\ j # k THEN waits[j] + 1 ELSE 0
      BY DEF Waited
    <2>3. CASE strategy = "round_robin"
      <3>1. Offset(j)' \in Nat /\ Offset(j)' < NumMembers
        BY <1>4, OffsetIs, DistanceIs
      <3>2. CASE j \in S /\ j # k
        <4>1. k = RoundRobin(S) /\ next_index' = AfterIndex(k)
          BY <2>3 DEF Picks
        <4>2. Offset(k) <= Offset(j)
          BY <1>1, <1>2, <3>2, <4>1, RoundRobinIs
        <4>3. Offset(j)' <= Offset(j) - 1
          BY <1>1, <1>2, <3>2, <4>1, <4>2, RoundGoesOn
        <4>4. Offset(j) \in Nat /\ waits[j] + Offset(j) <= NumMembers - 1
          BY <1>1, <1>2, <2>3, OffsetIs, DistanceIs DEF WaitBound
        <4>5. waits'[j] + Offset(j)' <= NumMembers - 1
          BY <2>1, <2>2, <3>1, <3>2, <4>3, <4>4
        <4> QED BY <2>3, <4>5 DEF WaitBound, TakesTurns
      <3>3. CASE ~(j \in S /\ j # k)
        <4>1. waits'[j] + Offset(j)' <= NumMembers - 1
          BY <2>1, <2>2, <3>1, <3>3
        <4> QED BY <2>3, <4>1 DEF WaitBound, TakesTurns
      <3> QED BY <3>2, <3>3
    <2>4. CASE strategy = "weighted_round_robin"
      <3>1. waits'[j] * LeastWeight(j) <= Reach + current'[j]
        <4>1. CASE j \in S /\ j # k
          <5>1. waits[j] * LeastWeight(j) <= Reach + current[j]
            BY <1>1, <2>4 DEF WaitBound
          <5>2. current'[j] = current[j] + WeightOf(j, limit)
            BY <1>2, <2>1, <2>4, <4>1 DEF Charged, Raised
          <5>3. waits'[j] = waits[j] + 1
            BY <2>2, <2>4, <4>1 DEF TakesTurns
          <5>4. (waits[j] + 1) * LeastWeight(j) = waits[j] * LeastWeight(j) + LeastWeight(j)
            BY <2>1
          <5>5. waits[j] * LeastWeight(j) \in Int
            BY <2>1
          <5> QED BY <2>1, <5>1, <5>2, <5>3, <5>4, <5>5
        <4>2. CASE ~(j \in S /\ j # k)
          <5>1. waits'[j] = 0
            BY <2>2, <4>2
          <5>2. current'[j] \in Int /\ 0 - Reach <= current'[j]
            BY <1>4
          <5> QED BY <2>1, <5>1, <5>2
        <4> QED BY <4>1, <4>2
      <3> QED BY <2>1, <2>4, <3>1 DEF WaitBound, TakesTurns
    <2>5. CASE ~TakesTurns
      BY <2>2, <2>5 DEF WaitBound, TakesTurns
    <2> QED BY <2>3, <2>4, <2>5 DEF TakesTurns
  <1> QED BY <1>3, <1>5, <1>6 DEF SInv

LEMMA StepKeepsSInv == SInv /\ [StrategiesNext]_strategyvars => SInv'
  <1> SUFFICES ASSUME SInv, [StrategiesNext]_strategyvars PROVE SInv'
    OBVIOUS
  <1>1. /\ StrategiesTypeOK /\ Balanced(current)
        /\ \A j \in Members : WaitBound(j)
    BY DEF SInv
  <1>2. CASE SelectKey
    <2>1. PICK S \in SUBSET {k \in Members : active[k] < Slots} :
                 \E k \in S : \E limit \in Limits : Select(k, S, limit)
      BY <1>2 DEF SelectKey
    <2> QED BY <2>1, SelectKeepsSInv
  <1>3. ASSUME NEW k \in Members, EndRequest(k) \/ RequestAges(k) PROVE SInv'
    <2>1. /\ UNCHANGED <<strategy, next_index, current, waits>>
          /\ rpm' \in [Members -> 0..MaxRequests] /\ active' \in [Members -> 0..Slots]
      <3>1. /\ MaxRequests \in Nat /\ Slots \in Nat
            /\ rpm[k] \in 0..MaxRequests /\ active[k] \in 0..Slots
        BY <1>1, StrategiesAssumption DEF StrategiesTypeOK
      <3>2. CASE EndRequest(k)
        <4>1. active[k] - 1 \in 0..Slots
          BY <3>1, <3>2 DEF EndRequest
        <4> QED BY <1>1, <3>2, <4>1 DEF EndRequest, StrategiesTypeOK
      <3>3. CASE RequestAges(k)
        <4>1. rpm[k] - 1 \in 0..MaxRequests
          BY <3>1, <3>3 DEF RequestAges
        <4> QED BY <1>1, <3>3, <4>1 DEF RequestAges, StrategiesTypeOK
      <3> QED BY <1>3, <3>2, <3>3
    <2>2. StrategiesTypeOK'
      BY <1>1, <2>1 DEF StrategiesTypeOK
    <2>3. Balanced(current')
      BY <1>1, <2>1
    <2>4. ASSUME NEW j \in Members PROVE WaitBound(j)'
      <3>1. WaitBound(j)
        BY <1>1
      <3> QED BY <2>1, <3>1 DEF WaitBound, TakesTurns, Offset, Reach, TopWeight
    <2> QED BY <2>2, <2>3, <2>4 DEF SInv
  <1>4. ASSUME NEW s \in Strategies, SetStrategy(s) PROVE SInv'
    <2> USE <1>4 DEF SetStrategy
    <2>1. StrategiesTypeOK'
      <3>1. 0 \in Int /\ 1 \in Members
        BY MembersFinite
      <3> QED BY <1>1, <3>1 DEF StrategiesTypeOK
    <2>2. Balanced(current')
      BY <1>1, NobodyIsOwed
    <2>3. ASSUME NEW j \in Members PROVE WaitBound(j)'
      <3>1. Offset(j)' \in Nat /\ Offset(j)' < NumMembers
        BY <2>1, OffsetIs, DistanceIs DEF StrategiesTypeOK
      <3>2. current'[j] \in -Reach .. Reach
        BY <2>2, OwedWithinReach
      <3>3. Reach \in Nat /\ LeastWeight(j) \in Nat /\ NumMembers \in Nat
        BY TopWeightIs, MembersFinite
      <3>4. waits'[j] = 0
        OBVIOUS
      <3> QED BY <3>1, <3>2, <3>3, <3>4 DEF WaitBound
    <2> QED BY <2>1, <2>2, <2>3 DEF SInv
  <1>5. CASE UNCHANGED strategyvars
    <2>1. UNCHANGED <<strategy, next_index, current, rpm, active, waits>>
      BY <1>5 DEF strategyvars
    <2>2. ASSUME NEW j \in Members PROVE WaitBound(j)'
      <3>1. WaitBound(j)
        BY <1>1
      <3> QED BY <2>1, <3>1 DEF WaitBound, TakesTurns, Offset, Reach, TopWeight
    <2> QED BY <1>1, <2>1, <2>2 DEF SInv, StrategiesTypeOK
  <1> QED BY <1>2, <1>3, <1>4, <1>5 DEF StrategiesNext

LEMMA AlwaysSInv == StrategiesSpec => []SInv
  BY InitSInv, StepKeepsSInv, PTL DEF StrategiesSpec

(* Smooth weighted round robin never drifts: over any sequence of          *)
(* candidate sets, models and strategies the weights sum to zero, and no   *)
(* key is owed, or owes, more than the heaviest weight for each other key. *)
THEOREM WeightsStayBalanced == StrategiesSpec => []WeightsBalance
  <1>1. SInv => WeightsBalance
    BY OwedWithinReach DEF SInv, Balanced, WeightsBalance
  <1> QED BY <1>1, AlwaysSInv, PTL

(* A key that stays a candidate gets its turn within a bounded number of   *)
(* selections, whoever else drops out and returns meanwhile and whatever   *)
(* the models of the requests make the keys weigh.                         *)
THEOREM TurnsComeAround == StrategiesSpec => []NoCandidateStarves
  <1>1. SInv => NoCandidateStarves
    <2> SUFFICES ASSUME SInv, NEW k \in Members
                 PROVE  IF strategy = "round_robin"
                          THEN waits[k] < NumMembers
                          ELSE waits[k] * LeastWeight(k) <= 2 * Reach
      BY DEF NoCandidateStarves
    <2>1. /\ WaitBound(k) /\ Balanced(current) /\ waits[k] \in Nat /\ next_index \in Members
      BY DEF SInv, StrategiesTypeOK
    <2>2. /\ Reach \in Nat /\ LeastWeight(k) \in Nat /\ NumMembers \in Nat
          /\ current[k] \in -Reach .. Reach
      BY <2>1, OwedWithinReach, TopWeightIs, WeightsArePositive, MembersFinite
    <2>3. Offset(k) \in Nat
      BY <2>1, OffsetIs, DistanceIs
    <2>4. CASE strategy = "round_robin"
      BY <2>1, <2>2, <2>3, <2>4 DEF WaitBound
    <2>5. CASE strategy = "weighted_round_robin"
      <3>1. waits[k] * LeastWeight(k) <= Reach + current[k] /\ waits[k] * LeastWeight(k) \in Int
        BY <2>1, <2>2, <2>5 DEF WaitBound
      <3> QED BY <2>2, <2>5, <3>1
    <2>6. CASE ~TakesTurns
      BY <2>1, <2>2, <2>6 DEF WaitBound, TakesTurns
    <2> QED BY <2>4, <2>5, <2>6 DEF TakesTurns
  <1> QED BY <1>1, AlwaysSInv, PTL

-----------------------------------------------------------------------------

(* Throttling.                                                             *)

(* Eviction takes d entries from the oldest end, old ones all of them.     *)
LEMMA EvictIs ==
  ASSUME NEW T \in SUBSET Int, NEW es \in Seq(T), NEW now \in Int
  PROVE  \E d \in 0..Len(es) :
           /\ Evict(es, now) = SubSeq(es, d + 1, Len(es))
           /\ \A i \in 1..d : es[i] < now - Kept
  <1> DEFINE n == Len(es)
             stays == {i \in DOMAIN es : \E j \in 1..i : ~IsOld(es[j], now - Kept)}
             d == n - Cardinality(stays)
  <1>1. n \in Nat /\ DOMAIN es = 1..n
    BY LenProperties
  <1>2. Evict(es, now) = SubSeq(es, d + 1, n)
    BY DEF Evict
  <1>3. CASE stays = {}
    <2>1. Cardinality(stays) = 0
      BY <1>3, FS_EmptySet
    <2>2. \A i \in 1..n : es[i] < now - Kept
      BY <1>1, <1>3 DEF IsOld
    <2> HIDE DEF stays
    <2>3. d = n /\ d \in 0..n
      BY <1>1, <2>1
    <2> HIDE DEF d, n
    <2> QED BY <1>2, <2>2, <2>3 DEF n
  <1>4. CASE stays # {}
    <2> DEFINE same == [i \in 1..n |-> i]
    <2>1. PICK m \in stays : \A i \in stays : m <= i
      <3>1. IsFiniteSet(stays)
        <4>1. IsFiniteSet(1..n) /\ stays \in SUBSET (1..n)
          BY <1>1, FS_Interval
        <4> HIDE DEF stays, n
        <4> QED BY <4>1, FS_Subset
      <3>2. \A i \in stays : same[i] = i /\ same[i] \in Int
        BY <1>1
      <3> HIDE DEF same, stays
      <3>3. \E k \in stays : \A i \in stays : same[k] <= same[i]
        BY <1>4, <3>1, <3>2, LeastValue
      <3> QED BY <3>2, <3>3
    <2>2. m \in 1..n
      BY <1>1
    <2>3. stays = m..n
      <3>1. \A i \in m..n : i \in stays
        <4> SUFFICES ASSUME NEW i \in m..n PROVE i \in stays
          OBVIOUS
        <4>1. PICK j \in 1..m : ~IsOld(es[j], now - Kept)
          OBVIOUS
        <4>2. j \in 1..i /\ i \in DOMAIN es
          BY <1>1, <2>2
        <4> QED BY <4>1, <4>2
      <3>2. \A i \in stays : i \in m..n
        BY <1>1, <2>1, <2>2
      <3> HIDE DEF stays
      <3> QED BY <3>1, <3>2
    <2>4. d = m - 1
      <3>1. Cardinality(m..n) = n - m + 1
        BY <1>1, <2>2, FS_Interval
      <3> HIDE DEF stays, n
      <3> QED BY <1>1, <2>2, <2>3, <3>1
    <2>5. \A i \in 1..d : es[i] < now - Kept
      <3> SUFFICES ASSUME NEW i \in 1..(m - 1) PROVE es[i] < now - Kept
        BY <2>4
      <3>1. i \notin stays /\ i \in DOMAIN es /\ i \in 1..i
        <4>1. i \notin m..n /\ i \in 1..n /\ i \in 1..i
          BY <1>1, <2>2
        <4> HIDE DEF stays, n
        <4> QED BY <1>1, <2>3, <4>1
      <3> QED BY <3>1 DEF IsOld
    <2>6. d \in 0..n
      BY <1>1, <2>2, <2>4
    <2> HIDE DEF d, n
    <2> QED BY <1>2, <2>5, <2>6 DEF n
  <1> QED BY <1>3, <1>4

(* The window holds the last of what was recorded, and what is missing     *)
(* before the cutoff c no longer counts.                                   *)
Gone(es, ms) == Len(ms) - Len(es)

Suffix(es, ms, c) ==
  /\ Len(es) <= Len(ms)
  /\ \A i \in 1..Len(es) : es[i] = ms[i + Gone(es, ms)]
  /\ \A i \in 1..Gone(es, ms) : ms[i] < c

(* What is gone since one time is gone since any later one.                *)
LEMMA SuffixLater ==
  ASSUME NEW T \in SUBSET Int, NEW es \in Seq(T), NEW ms \in Seq(T),
         NEW b \in Int, NEW c \in Int, b <= c, Suffix(es, ms, b)
  PROVE  Suffix(es, ms, c)
  <1>1. Len(es) <= Len(ms) /\ Len(es) \in Nat /\ Len(ms) \in Nat
    BY LenProperties DEF Suffix
  <1>2. ASSUME NEW i \in 1..Gone(es, ms) PROVE ms[i] < c
    <2>1. ms[i] < b
      BY DEF Suffix
    <2>2. i \in 1..Len(ms)
      BY <1>1 DEF Gone
    <2>3. ms[i] \in T
      BY <2>2, ElementOfSeq
    <2>4. ms[i] \in Int
      BY <2>3
    <2> QED BY <2>1, <2>4
  <1> QED BY <1>2 DEF Suffix


LEMMA EvictKeepsSuffix ==
  ASSUME NEW T \in SUBSET Int, NEW es \in Seq(T), NEW ms \in Seq(T),
         NEW c \in Int, Suffix(es, ms, c),
         NEW now \in Int, now - Kept <= c, Kept \in Int
  PROVE  Evict(es, now) \in Seq(T) /\ Suffix(Evict(es, now), ms, c)
  <1>1. /\ Len(es) \in Nat /\ Len(ms) \in Nat
        /\ \A i \in 1..Len(es) : es[i] \in T
        /\ \A i \in 1..Len(ms) : ms[i] \in Int
    <2>1. Len(es) \in Nat /\ es \in [1..Len(es) -> T]
      BY LenProperties
    <2>2. Len(ms) \in Nat /\ ms \in [1..Len(ms) -> T]
      BY LenProperties
    <2>3. \A i \in 1..Len(ms) : ms[i] \in T
      BY <2>2
    <2>4. \A i \in 1..Len(es) : es[i] \in T
      BY <2>1
    <2> QED BY <2>1, <2>2, <2>3, <2>4
  <1>2. PICK d \in 0..Len(es) :
               /\ Evict(es, now) = SubSeq(es, d + 1, Len(es))
               /\ \A i \in 1..d : es[i] < now - Kept
    BY <1>1, EvictIs
  <1> DEFINE ls == SubSeq(es, d + 1, Len(es))
  <1>3. /\ ls \in Seq(T)
        /\ Len(ls) = Len(es) - d
        /\ \A i \in 1..Len(ls) : ls[i] = es[i + d]
    <2>1. d + 1 \in Int /\ Len(es) \in Int /\ \A i \in (d + 1)..Len(es) : es[i] \in T
      BY <1>1
    <2>2. /\ ls \in Seq(T)
          /\ Len(ls) = IF d + 1 <= Len(es) THEN Len(es) - (d + 1) + 1 ELSE 0
          /\ \A i \in 1..(Len(es) - (d + 1) + 1) : ls[i] = es[(d + 1) + i - 1]
      BY <2>1, SubSeqProperties
    <2> HIDE DEF ls
    <2>3. Len(ls) = Len(es) - d
      BY <1>1, <2>2
    <2>4. ASSUME NEW i \in 1..Len(ls) PROVE ls[i] = es[i + d]
      <3>1. i \in 1..(Len(es) - (d + 1) + 1) /\ (d + 1) + i - 1 = i + d
        BY <1>1, <2>3
      <3> QED BY <2>2, <3>1
    <2> QED BY <2>2, <2>3, <2>4
  <1> HIDE DEF ls
  <1>4. Suffix(ls, ms, c)
    <2> DEFINE g == Gone(es, ms)
    <2>1. Gone(ls, ms) = g + d /\ g \in Nat /\ Len(es) + g = Len(ms)
      BY <1>1, <1>3 DEF Gone, Suffix
    <2>2. \A i \in 1..Len(es) : es[i] = ms[i + g]
      BY DEF Suffix
    <2>3. \A i \in 1..g : ms[i] < c
      BY DEF Suffix
    <2> HIDE DEF g
    <2>4. ASSUME NEW i \in 1..Len(ls) PROVE ls[i] = ms[i + (g + d)]
      <3>1. i + d \in 1..Len(es) /\ (i + d) + g = i + (g + d)
        BY <1>1, <1>3, <2>1
      <3> QED BY <1>3, <2>2, <3>1
    <2>5. ASSUME NEW i \in 1..(g + d) PROVE ms[i] < c
      <3>1. CASE i \in 1..g
        BY <2>3, <3>1
      <3>2. CASE i \notin 1..g
        <4>1. i - g \in 1..d /\ i - g \in 1..Len(es) /\ (i - g) + g = i /\ i \in 1..Len(ms)
          BY <1>1, <2>1, <3>2
        <4>2. ms[i] = es[i - g] /\ es[i - g] < now - Kept /\ ms[i] \in Int
          BY <1>1, <1>2, <2>2, <4>1
        <4> QED BY <4>2
      <3> QED BY <3>1, <3>2
    <2>6. Len(ls) <= Len(ms)
      BY <1>1, <1>3, <2>1
    <2> QED BY <2>1, <2>4, <2>5, <2>6 DEF Suffix
  <1> QED BY <1>2, <1>3, <1>4 DEF ls

LEMMA AppendKeepsSuffix ==
  ASSUME NEW T \in SUBSET Int, NEW es \in Seq(T), NEW ms \in Seq(T),
         NEW c \in Int, Suffix(es, ms, c), NEW ts \in T
  PROVE  /\ Append(es, ts) \in Seq(T) /\ Append(ms, ts) \in Seq(T)
         /\ Suffix(Append(es, ts), Append(ms, ts), c)
  <1> DEFINE ea == Append(es, ts)
             ma == Append(ms, ts)
             g == Gone(es, ms)
  <1>1. /\ ea \in Seq(T) /\ Len(ea) = Len(es) + 1
        /\ \A i \in 1..Len(es) : ea[i] = es[i]
        /\ ea[Len(es) + 1] = ts
        /\ ma \in Seq(T) /\ Len(ma) = Len(ms) + 1
        /\ \A i \in 1..Len(ms) : ma[i] = ms[i]
        /\ ma[Len(ms) + 1] = ts
        /\ Len(es) \in Nat /\ Len(ms) \in Nat
    BY AppendProperties, LenProperties
  <1>2. /\ g \in Nat /\ Len(es) + g = Len(ms)
        /\ \A i \in 1..Len(es) : es[i] = ms[i + g]
        /\ \A i \in 1..g : ms[i] < c
    BY <1>1 DEF Suffix, Gone
  <1>3. Gone(ea, ma) = g
    BY <1>1 DEF Gone
  <1> HIDE DEF ea, ma, g
  <1>4. ASSUME NEW i \in 1..(Len(es) + 1) PROVE ea[i] = ma[i + g]
    <2>1. CASE i \in 1..Len(es)
      <3>1. i + g \in 1..Len(ms)
        BY <1>1, <1>2, <2>1
      <3> QED BY <1>1, <1>2, <2>1, <3>1
    <2>2. CASE i \notin 1..Len(es)
      <3> DEFINE n == Len(es)
      <3>1. n \in Nat /\ i \in 1..(n + 1) /\ i \notin 1..n
        BY <1>1, <2>2
      <3> HIDE DEF n
      <3>2. i = n + 1
        BY <3>1
      <3>3. i = Len(es) + 1 /\ i + g = Len(ms) + 1
        BY <1>1, <1>2, <3>2 DEF n
      <3> QED BY <1>1, <3>3
    <2> QED BY <2>1, <2>2
  <1>5. ASSUME NEW i \in 1..g PROVE ma[i] < c
    <2>1. i \in 1..Len(ms)
      BY <1>1, <1>2
    <2> QED BY <1>1, <1>2, <2>1
  <1>6. Len(ea) <= Len(ma)
    BY <1>1, <1>2
  <1>7. Suffix(ea, ma, c)
    BY <1>1, <1>3, <1>4, <1>5, <1>6 DEF Suffix
  <1> QED BY <1>1, <1>7 DEF ea, ma

(* How many entries count.                                                 *)
LEMMA SinceIs ==
  ASSUME NEW T \in SUBSET Int, NEW es \in Seq(T), NEW c \in Int
  PROVE  /\ IsFiniteSet({i \in DOMAIN es : es[i] >= c})
         /\ Since(es, c) \in Nat /\ Since(es, c) <= Len(es)
         /\ \A b \in Int : b <= c => Since(es, c) <= Since(es, b)
         /\ \A ts \in T : Since(Append(es, ts), c) \in Nat
                          /\ Since(Append(es, ts), c) <= Since(es, c) + 1
  <1> DEFINE n == Len(es)
             counted(b) == {i \in DOMAIN es : es[i] >= b}
  <1>1. n \in Nat /\ DOMAIN es = 1..n /\ \A i \in 1..n : es[i] \in Int
    <2>1. Len(es) \in Nat /\ es \in [1..Len(es) -> T] /\ DOMAIN es = 1..Len(es)
      BY LenProperties
    <2> QED BY <2>1
  <1>2. IsFiniteSet(1..n) /\ Cardinality(1..n) = n
    BY <1>1, FS_Interval
  <1>3. \A b : counted(b) \in SUBSET (1..n)
    BY <1>1
  <1>4. \A b : /\ IsFiniteSet(counted(b)) /\ Cardinality(counted(b)) \in Nat
               /\ Cardinality(counted(b)) <= n
    <2> HIDE DEF counted, n
    <2> QED BY <1>2, <1>3, FS_Subset, FS_CardinalityType
  <1>5. ASSUME NEW b \in Int, b <= c PROVE Since(es, c) <= Since(es, b)
    <2>1. counted(c) \in SUBSET counted(b)
      BY <1>1, <1>5
    <2>2. Cardinality(counted(c)) <= Cardinality(counted(b))
      <3> HIDE DEF counted
      <3> QED BY <1>4, <2>1, FS_Subset
    <2> QED BY <2>2 DEF Since
  <1>6. ASSUME NEW ts \in T
        PROVE  /\ Since(Append(es, ts), c) \in Nat
               /\ Since(Append(es, ts), c) <= Since(es, c) + 1
    <2> DEFINE ea == Append(es, ts)
               more == {i \in DOMAIN ea : ea[i] >= c}
    <2>1. /\ ea \in Seq(T) /\ Len(ea) = n + 1
          /\ \A i \in 1..n : ea[i] = es[i]
      BY AppendProperties
    <2>2. DOMAIN ea = 1..(n + 1)
      <3> HIDE DEF ea, n
      <3> QED BY <2>1, LenProperties
    <2>3. more \in SUBSET (counted(c) \cup {n + 1})
      <3> SUFFICES ASSUME NEW i \in more PROVE i \in counted(c) \cup {n + 1}
        OBVIOUS
      <3>1. i \in 1..(n + 1) /\ ea[i] >= c
        BY <2>2
      <3> HIDE DEF ea, n
      <3>2. i \in 1..n \/ i = n + 1
        BY <1>1, <3>1
      <3> QED BY <1>1, <2>1, <3>1, <3>2
    <2>4. /\ IsFiniteSet(counted(c) \cup {n + 1})
          /\ Cardinality(counted(c) \cup {n + 1}) <= Cardinality(counted(c)) + 1
      <3> HIDE DEF counted, n
      <3>1. /\ IsFiniteSet(counted(c) \cup {n + 1})
            /\ Cardinality(counted(c) \cup {n + 1}) =
                 IF n + 1 \in counted(c) THEN Cardinality(counted(c))
                                        ELSE Cardinality(counted(c)) + 1
        BY <1>4, FS_AddElement
      <3> QED BY <1>4, <3>1
    <2>5. /\ Cardinality(more) \in Nat
          /\ Cardinality(more) <= Cardinality(counted(c) \cup {n + 1})
          /\ Cardinality(counted(c) \cup {n + 1}) \in Nat
      <3> HIDE DEF counted, n, more
      <3> QED BY <2>3, <2>4, FS_Subset, FS_CardinalityType
    <2> HIDE DEF ea
    <2>6. Since(ea, c) = Cardinality(more) /\ Since(es, c) = Cardinality(counted(c))
      BY DEF Since
    <2> HIDE DEF more, counted
    <2>7. Since(ea, c) \in Nat /\ Since(ea, c) <= Since(es, c) + 1
      BY <1>4, <2>4, <2>5, <2>6
    <2> QED BY <2>7 DEF ea
  <1>7. Since(es, c) = Cardinality(counted(c))
    BY DEF Since
  <1> QED BY <1>4, <1>5, <1>6, <1>7

(* What has gone counts no more: the window and the record count the same. *)
LEMMA SuffixCounts ==
  ASSUME NEW T \in SUBSET Int, NEW es \in Seq(T), NEW ms \in Seq(T),
         NEW c \in Int, Suffix(es, ms, c)
  PROVE  Since(es, c) = Since(ms, c)
  <1> DEFINE g == Gone(es, ms)
             A == {i \in DOMAIN es : es[i] >= c}
             B == {i \in DOMAIN ms : ms[i] >= c}
             f == [i \in A |-> i + g]
  <1>1. /\ Len(es) \in Nat /\ DOMAIN es = 1..Len(es)
        /\ Len(ms) \in Nat /\ DOMAIN ms = 1..Len(ms)
        /\ \A i \in 1..Len(ms) : ms[i] \in Int
    <2>1. Len(es) \in Nat /\ DOMAIN es = 1..Len(es)
      BY LenProperties
    <2>2. Len(ms) \in Nat /\ DOMAIN ms = 1..Len(ms) /\ ms \in [1..Len(ms) -> T]
      BY LenProperties
    <2> QED BY <2>1, <2>2
  <1>2. /\ g \in Nat /\ Len(es) + g = Len(ms)
        /\ \A i \in 1..Len(es) : es[i] = ms[i + g]
        /\ \A i \in 1..g : ms[i] < c
    BY <1>1 DEF Suffix, Gone
  <1> HIDE DEF g
  <1>3. ASSUME NEW i \in A PROVE f[i] \in B /\ f[i] = i + g /\ i \in Int
    <2>1. i \in 1..Len(es) /\ es[i] >= c
      BY <1>1
    <2>2. i + g \in 1..Len(ms) /\ ms[i + g] >= c
      BY <1>1, <1>2, <2>1
    <2> QED BY <1>1, <2>1, <2>2
  <1>4. ASSUME NEW j \in B PROVE \E i \in A : f[i] = j
    <2>1. j \in 1..Len(ms) /\ ms[j] >= c /\ ms[j] \in Int
      BY <1>1
    <2>2. j \notin 1..g
      BY <1>2, <2>1
    <2>3. j - g \in 1..Len(es) /\ (j - g) + g = j
      BY <1>1, <1>2, <2>1, <2>2
    <2>4. j - g \in A
      BY <1>1, <1>2, <2>1, <2>3
    <2> QED BY <2>3, <2>4
  <1>5. f \in Bijection(A, B)
    <2>1. f \in [A -> B]
      BY <1>3
    <2>2. \A i, j \in A : f[i] = f[j] => i = j
      BY <1>2, <1>3
    <2> HIDE DEF A, B
    <2> QED BY <1>4, <2>1, <2>2 DEF Bijection, Injection, Surjection, IsInjective
  <1>6. IsFiniteSet(A)
    BY SinceIs
  <1>7. Cardinality(A) = Cardinality(B)
    <2> HIDE DEF A, B, f
    <2> QED BY <1>5, <1>6, FS_Bijection DEF ExistsBijection
  <1> QED BY <1>7 DEF Since

(* The threads that were granted a request and have not recorded it.       *)
Owing == {t \in Threads : step[t] \in {"granted", "recording"}}

(* The windows hold the end of what was recorded, back to what the latest  *)
(* time lets them evict, and the budget is kept up to those who owe.       *)
TInv ==
  /\ ThrottlingTypeOK
  /\ clock <= latest /\ latest - clock <= Kept - Window
  /\ \A t \in Threads : seen[t] <= latest
  /\ Suffix(entries, made, latest - Kept)
  /\ Since(made, latest - Window) + Cardinality(Owing) < RpmLimit + Cardinality(Threads)

Times == 0..MaxClock

LEMMA TimesAreInts ==
  /\ Times \in SUBSET Int /\ MaxClock \in Nat
  /\ Window \in Nat /\ Horizon \in Nat /\ Kept \in Nat /\ Window <= Kept
  /\ RpmLimit \in Nat \ {0} /\ IsFiniteSet(Threads) /\ Cardinality(Threads) \in Nat
  BY ThrottlingAssumption, FS_CardinalityType DEF Times, Kept

LEMMA OwingIsFinite ==
  /\ IsFiniteSet(Owing) /\ Cardinality(Owing) \in Nat
  /\ Cardinality(Owing) <= Cardinality(Threads)
  <1>1. Owing \in SUBSET Threads
    BY DEF Owing
  <1> QED BY <1>1, TimesAreInts, FS_Subset, FS_CardinalityType

LEMMA InitTInv == ThrottlingInit => TInv
  <1> SUFFICES ASSUME ThrottlingInit PROVE TInv
    OBVIOUS
  <1> USE DEF ThrottlingInit
  <1>1. << >> \in Seq(Times) /\ Len(<< >>) = 0
    BY EmptySeq
  <1>2. ThrottlingTypeOK
    <2>1. 0 \in Times
      BY TimesAreInts DEF Times
    <2> QED BY <1>1, <2>1 DEF ThrottlingTypeOK, Remaining, Times
  <1>3. Suffix(entries, made, latest - Kept)
    BY <1>1 DEF Suffix, Gone
  <1>4. Since(made, latest - Window) = 0
    <2>1. {i \in DOMAIN made : made[i] >= latest - Window} = {}
      <3>1. DOMAIN made = 1..0
        BY <1>1, LenProperties
      <3> QED BY <3>1
    <2> QED BY <2>1, FS_EmptySet DEF Since
  <1>5. Cardinality(Owing) = 0
    <2>1. Owing = {}
      BY DEF Owing
    <2> QED BY <2>1, FS_EmptySet
  <1>6. clock <= latest /\ latest - clock <= Kept - Window /\ \A t \in Threads : seen[t] <= latest
    BY TimesAreInts
  <1> QED BY <1>2, <1>3, <1>4, <1>5, <1>6, TimesAreInts DEF TInv

(* What the step of a thread does to the debts.                            *)
LEMMA OwingChange ==
  ASSUME NEW t \in Threads, NEW from, NEW to, ThrottlingTypeOK, Move(t, from, to)
  PROVE  /\ Cardinality(Owing') \in Nat /\ Cardinality(Owing) \in Nat
         /\ (from \in {"granted", "recording"} <=> to \in {"granted", "recording"})
              => Cardinality(Owing') = Cardinality(Owing)
         /\ from \in {"granted", "recording"} /\ to \notin {"granted", "recording"}
              => Cardinality(Owing') = Cardinality(Owing) - 1
         /\ Cardinality(Owing') <= Cardinality(Threads)
  <1>1. /\ step \in [Threads -> {"idle", "checking", "granted", "recording"}]
        /\ step[t] = from /\ step'[t] = to
        /\ \A u \in Threads \ {t} : step'[u] = step[u]
    BY DEF Move, ThrottlingTypeOK
  <1>2. Owing \in SUBSET Threads /\ Owing' \in SUBSET Threads
    BY DEF Owing
  <1>3. Owing \ {t} = Owing' \ {t}
    BY <1>1 DEF Owing
  <1>4. /\ t \in Owing <=> from \in {"granted", "recording"}
        /\ t \in Owing' <=> to \in {"granted", "recording"}
    BY <1>1 DEF Owing
  <1> DEFINE A == Owing
             B == Owing'
  <1>5. /\ Cardinality(A) \in Nat /\ Cardinality(B) \in Nat
        /\ (t \in A <=> t \in B) => Cardinality(B) = Cardinality(A)
        /\ t \in A /\ t \notin B => Cardinality(B) = Cardinality(A) - 1
    <2>1. A \in SUBSET Threads /\ B \in SUBSET Threads /\ A \ {t} = B \ {t}
      BY <1>2, <1>3
    <2> HIDE DEF A, B
    <2> QED BY <2>1, TimesAreInts, CountChange
  <1>6. Cardinality(Owing') <= Cardinality(Threads)
    BY <1>2, TimesAreInts, FS_Subset
  <1> QED BY <1>4, <1>5, <1>6

LEMMA StepKeepsTInv == TInv /\ [ThrottlingNext]_throttlevars => TInv'
  <1> SUFFICES ASSUME TInv, [ThrottlingNext]_throttlevars PROVE TInv'
    OBVIOUS
  <1> DEFINE c == latest - Window
             e == latest - Kept
             owed == Cardinality(Owing)
             all == Cardinality(Threads)
  <1>1. /\ ThrottlingTypeOK /\ Suffix(entries, made, e)
        /\ clock <= latest /\ latest - clock <= Kept - Window
        /\ \A t \in Threads : seen[t] <= latest
        /\ Since(made, c) + owed < RpmLimit + all
    BY DEF TInv
  <1>2. /\ clock \in Times /\ latest \in Times /\ kind \in {"sliding", "rolling"}
        /\ step \in [Threads -> {"idle", "checking", "granted", "recording"}]
        /\ seen \in [Threads -> Times]
        /\ entries \in Seq(Times) /\ made \in Seq(Times)
        /\ quota \in [requests : Remaining, tokens : Remaining]
    BY <1>1 DEF ThrottlingTypeOK, Times
  <1>3. /\ clock \in Nat /\ latest \in Nat /\ c \in Int /\ e \in Int /\ e <= c /\ owed \in Nat /\ all \in Nat
        /\ \A t \in Threads : seen[t] \in Nat /\ seen[t] \in Times
        /\ RpmLimit \in Nat /\ Since(made, c) \in Nat
    <2>1. /\ clock \in Nat /\ latest \in Nat /\ c \in Int /\ e \in Int /\ e <= c
          /\ \A t \in Threads : seen[t] \in Nat /\ seen[t] \in Times
      BY <1>2, TimesAreInts DEF Times
    <2>2. Since(made, c) \in Nat
      BY <1>2, <2>1, TimesAreInts, SinceIs
    <2> QED BY <2>1, <2>2, TimesAreInts, OwingIsFinite
  <1>4. ASSUME NEW t \in Threads, BeginCheck(t) \/ BeginRecord(t) PROVE TInv'
    <2>1. /\ UNCHANGED <<clock, latest, kind, entries, made, quota>>
          /\ seen' = [seen EXCEPT ![t] = clock]
          /\ Move(t, "idle", "checking") \/ Move(t, "granted", "recording")
      BY <1>4 DEF BeginCheck, BeginRecord, ReadClock
    <2>2. ThrottlingTypeOK'
      BY <1>2, <2>1 DEF ThrottlingTypeOK, Times, Move
    <2>3. Cardinality(Owing') = owed
      BY <1>1, <2>1, OwingChange
    <2>4. \A u \in Threads : seen'[u] <= latest
      BY <1>1, <1>2, <1>3, <2>1
    <2>5. /\ Suffix(entries', made', e) /\ Since(made', c) = Since(made, c)
          /\ c' = c /\ e' = e /\ Kept' = Kept
      BY <1>1, <2>1 DEF Kept
    <2> QED BY <1>1, <2>1, <2>2, <2>3, <2>4, <2>5 DEF TInv
  <1>5. ASSUME NEW t \in Threads, CheckBudget(t) PROVE TInv'
    <2> DEFINE left == Evict(entries, seen[t])
    <2>1. /\ UNCHANGED <<clock, latest, kind, seen, made, quota>> /\ entries' = left
          /\ Move(t, "checking",
                  IF WithinBudget(Count(left, seen[t])) THEN "granted" ELSE "idle")
      BY <1>5 DEF CheckBudget
    <2>2. left \in Seq(Times) /\ Suffix(left, made, e)
      <3>1. seen[t] \in Int /\ seen[t] - Kept <= e /\ Kept \in Int
        BY <1>1, <1>3, TimesAreInts
      <3> HIDE DEF e
      <3> QED BY <1>1, <1>2, <1>3, <3>1, TimesAreInts, EvictKeepsSuffix
    <2>3. ThrottlingTypeOK'
      BY <1>2, <2>1, <2>2 DEF ThrottlingTypeOK, Times, Move
    <2>4. Since(made, c) + Cardinality(Owing') < RpmLimit + all
      <3>1. CASE WithinBudget(Count(left, seen[t]))
        <4>1. Since(left, c) = Since(made, c)
          <5> HIDE DEF left, c, e
          <5>1. Suffix(left, made, c)
            BY <1>2, <1>3, <2>2, TimesAreInts, SuffixLater
          <5> QED BY <1>2, <1>3, <2>2, <5>1, TimesAreInts, SuffixCounts
        <4>2. Since(left, c) <= Count(left, seen[t]) /\ Count(left, seen[t]) \in Nat
          <5>1. CASE kind = "sliding"
            <6>1. Since(left, c) <= Len(left) /\ Len(left) \in Nat
              BY <1>3, <2>2, TimesAreInts, SinceIs, LenProperties
            <6> QED BY <5>1, <6>1 DEF Count
          <5>2. CASE kind # "sliding"
            <6>1. seen[t] - Window \in Int /\ seen[t] - Window <= c
              BY <1>1, <1>3, TimesAreInts
            <6>2. /\ Since(left, seen[t] - Window) \in Nat
                  /\ \A b \in Int : b <= c => Since(left, c) <= Since(left, b)
              <7> HIDE DEF left, c
              <7> QED BY <1>3, <2>2, <6>1, TimesAreInts, SinceIs
            <6> QED BY <5>2, <6>1, <6>2 DEF Count
          <5> QED BY <5>1, <5>2
        <4>3. Count(left, seen[t]) < RpmLimit
          BY <3>1 DEF WithinBudget
        <4>4. Cardinality(Owing') <= all /\ Cardinality(Owing') \in Nat
          BY <1>1, <2>1, OwingChange
        <4> HIDE DEF left, c, all
        <4> QED BY <1>3, <4>1, <4>2, <4>3, <4>4
      <3>2. CASE ~WithinBudget(Count(left, seen[t]))
        <4>1. Move(t, "checking", "idle")
          BY <2>1, <3>2
        <4>2. Cardinality(Owing') = owed
          BY <1>1, <4>1, OwingChange
        <4> QED BY <1>1, <4>2
      <3> QED BY <3>1, <3>2
    <2>5. Kept' = Kept
      BY <2>1 DEF Kept
    <2> HIDE DEF left
    <2> QED BY <1>1, <2>1, <2>2, <2>3, <2>4, <2>5 DEF TInv
  <1>6. ASSUME NEW t \in Threads, RecordRequest(t) PROVE TInv'
    <2> DEFINE ea == Append(entries, seen[t])
               left == Evict(ea, seen[t])
               ma == Append(made, seen[t])
    <2>1. /\ UNCHANGED <<clock, latest, kind, seen, quota>> /\ entries' = left /\ made' = ma
          /\ Move(t, "recording", "idle")
      BY <1>6 DEF RecordRequest
    <2>2. ea \in Seq(Times) /\ ma \in Seq(Times) /\ Suffix(ea, ma, e)
      <3> HIDE DEF e
      <3> QED BY <1>1, <1>2, <1>3, TimesAreInts, AppendKeepsSuffix
    <2>3. left \in Seq(Times) /\ Suffix(left, ma, e)
      <3>1. seen[t] \in Int /\ seen[t] - Kept <= e /\ Kept \in Int
        BY <1>1, <1>3, TimesAreInts
      <3> HIDE DEF e, ea, ma
      <3> QED BY <1>3, <2>2, <3>1, TimesAreInts, EvictKeepsSuffix
    <2>4. Since(ma, c) \in Nat /\ Since(ma, c) <= Since(made, c) + 1
      <3> HIDE DEF c
      <3> QED BY <1>2, <1>3, TimesAreInts, SinceIs
    <2> HIDE DEF left, ma, ea
    <2>5. ThrottlingTypeOK'
      BY <1>2, <2>1, <2>2, <2>3 DEF ThrottlingTypeOK, Times, Move
    <2>6. Cardinality(Owing') = owed - 1
      BY <1>1, <2>1, OwingChange
    <2>7. Since(ma, c) + Cardinality(Owing') < RpmLimit + all
      <3> HIDE DEF c, owed, all
      <3> QED BY <1>1, <1>3, <2>4, <2>6
    <2>8. Kept' = Kept
      BY <2>1 DEF Kept
    <2> QED BY <1>1, <2>1, <2>3, <2>5, <2>7, <2>8 DEF TInv
  <1>7. ASSUME clock' \in Times, latest' \in Times, latest <= latest', clock' <= latest',
               latest' - clock' <= Kept - Window, UNCHANGED <<windowvars, quota>>
        PROVE  TInv'
    <2>1. UNCHANGED <<kind, step, seen, entries, made, quota>>
      BY <1>7 DEF windowvars
    <2>2. Kept' = Kept
      BY <2>1 DEF Kept
    <2>3. ThrottlingTypeOK'
      BY <1>2, <1>7, <2>1 DEF ThrottlingTypeOK, Times
    <2> DEFINE d == latest' - Window
               f == latest' - Kept
    <2>4. d \in Int /\ c <= d /\ f \in Int /\ e <= f /\ latest' \in Int
      <3> DEFINE x == latest
                 y == latest'
                 k == Kept
      <3>1. x \in Nat /\ y \in Nat /\ x <= y /\ Window \in Nat /\ k \in Nat
        BY <1>3, <1>7, TimesAreInts DEF Times
      <3> HIDE DEF x, y, k
      <3>2. /\ y - Window \in Int /\ x - Window <= y - Window
            /\ y - k \in Int /\ x - k <= y - k /\ y \in Int
        BY <3>1
      <3> QED BY <3>2 DEF x, y, k
    <2>5. \A u \in Threads : seen'[u] <= latest'
      <3>1. \A u \in Threads : seen'[u] = seen[u] /\ seen[u] <= latest /\ seen[u] \in Nat
        BY <1>1, <1>3, <2>1
      <3> QED BY <1>3, <1>7, <2>4, <3>1
    <2>6. Suffix(entries, made, f)
      <3> HIDE DEF e, f
      <3> QED BY <1>1, <1>2, <1>3, <2>4, TimesAreInts, SuffixLater
    <2>7. Since(made, d) <= Since(made, c) /\ Since(made, d) \in Nat
      <3> HIDE DEF c, d
      <3> QED BY <1>2, <1>3, <2>4, TimesAreInts, SinceIs
    <2>8. Owing' = Owing
      BY <2>1 DEF Owing
    <2>9. Since(made, d) + owed < RpmLimit + all
      <3> HIDE DEF c, d, owed, all
      <3> QED BY <1>1, <1>3, <2>7
    <2> QED BY <1>7, <2>1, <2>2, <2>3, <2>5, <2>6, <2>8, <2>9 DEF TInv
  <1>8. ASSUME quota' \in [requests : Remaining, tokens : Remaining],
               UNCHANGED <<clock, latest, windowvars>>
        PROVE  TInv'
    <2>1. UNCHANGED <<clock, latest, kind, step, seen, entries, made>>
      BY <1>8 DEF windowvars
    <2>2. ThrottlingTypeOK'
      BY <1>2, <1>8, <2>1 DEF ThrottlingTypeOK, Times
    <2>3. Owing' = Owing /\ Kept' = Kept
      BY <2>1 DEF Owing, Kept
    <2> QED BY <1>1, <2>1, <2>2, <2>3 DEF TInv
  <1>9. ASSUME NEW requests \in 0..2, NEW tokens \in 0..2, Consume(requests, tokens)
        PROVE  quota' \in [requests : Remaining, tokens : Remaining]
    <2>1. \A left \in Remaining : \A n \in 0..2 : Consumed(left, n) \in Remaining
      BY ThrottlingAssumption DEF Remaining, Consumed, Unknown
    <2> QED BY <1>2, <1>9, <2>1 DEF Consume
  <1>10. CASE UNCHANGED throttlevars
    BY <1>2, <1>8, <1>10 DEF throttlevars, windowvars
  <1>11. CASE Tick
    <2>1. /\ clock' = clock + 1 /\ clock < MaxClock /\ UNCHANGED <<windowvars, quota>>
          /\ latest' = IF clock < latest THEN latest ELSE clock'
      BY <1>11 DEF Tick
    <2>2. Kept - Window \in Nat /\ latest \in 0..MaxClock
      BY <1>2, TimesAreInts DEF Times
    <2> QED BY <1>1, <1>3, <1>7, <2>1, <2>2, TimesAreInts DEF Times
  <1>12. CASE StepBack
    <2>1. /\ kind = "rolling" /\ clock > 0 /\ latest - clock < Horizon - Window
          /\ clock' = clock - 1 /\ latest' = latest /\ UNCHANGED <<windowvars, quota>>
      BY <1>12 DEF StepBack
    <2>2. Kept = Horizon /\ Horizon \in Nat /\ Window \in Nat
      BY <2>1, TimesAreInts DEF Kept
    <2>3. clock \in 0..MaxClock /\ latest \in 0..MaxClock
      BY <1>2 DEF Times
    <2> QED BY <1>1, <1>3, <1>7, <2>1, <2>2, <2>3, TimesAreInts DEF Times
  <1> QED
    BY <1>4, <1>5, <1>6, <1>8, <1>9, <1>10, <1>11, <1>12
    DEF ThrottlingNext, UpdateFromHeaders, Consume

LEMMA AlwaysTInv == ThrottlingSpec => []TInv
  BY InitTInv, StepKeepsTInv, PTL DEF ThrottlingSpec

(* Eviction forgets no request that counts, in whatever order threads      *)
(* append the times they read before they had the lock, though the wall    *)
(* clock is set back by what a rolling window keeps and does not count.    *)
THEOREM WindowsForgetNothing == ThrottlingSpec => []WindowForgetsNothing
  <1>1. TInv => WindowForgetsNothing
    <2> SUFFICES ASSUME TInv PROVE WindowForgetsNothing
      OBVIOUS
    <2> DEFINE c == clock - Window
    <2> DEFINE e == latest - Kept
    <2>1. /\ entries \in Seq(Times) /\ made \in Seq(Times)
          /\ clock \in Times /\ latest \in Times
          /\ Suffix(entries, made, e) /\ latest - clock <= Kept - Window
      BY DEF TInv, ThrottlingTypeOK, Times
    <2>2. c \in Int /\ e \in Int /\ e <= c
      BY <2>1, TimesAreInts DEF Times
    <2> HIDE DEF c, e
    <2>3. Suffix(entries, made, c)
      BY <2>1, <2>2, TimesAreInts, SuffixLater
    <2>4. Since(entries, c) = Since(made, c)
      BY <2>1, <2>2, <2>3, TimesAreInts, SuffixCounts
    <2> QED BY <2>4 DEF WindowForgetsNothing, c
  <1> QED BY <1>1, AlwaysTInv, PTL

(* The budget is exceeded at most by the threads between the two calls.    *)
THEOREM OvershootIsBounded == ThrottlingSpec => []BudgetOvershoot
  <1>1. TInv => BudgetOvershoot
    <2> SUFFICES ASSUME TInv PROVE BudgetOvershoot
      OBVIOUS
    <2> DEFINE c == latest - Window
    <2>1. made \in Seq(Times) /\ latest \in Times
      BY DEF TInv, ThrottlingTypeOK, Times
    <2>2. c \in Int
      BY <2>1, TimesAreInts DEF Times
    <2> HIDE DEF c
    <2>3. Since(made, c) \in Nat
      BY <2>1, <2>2, TimesAreInts, SinceIs
    <2>4. Since(made, c) + Cardinality(Owing) < RpmLimit + Cardinality(Threads)
      BY DEF TInv, c
    <2> QED BY <2>3, <2>4, OwingIsFinite, TimesAreInts DEF BudgetOvershoot, c
  <1> QED BY <1>1, AlwaysTInv, PTL

(* consume never brings an exhausted quota back.                           *)
THEOREM ExhaustionLasts == ThrottlingSpec => QuotaStaysExhausted
  <1>1. TInv /\ [ThrottlingNext]_throttlevars =>
          [IsExhausted(quota) => IsExhausted(quota') \/ UpdateFromHeaders]_throttlevars
    <2> SUFFICES ASSUME TInv, ThrottlingNext, IsExhausted(quota), ~UpdateFromHeaders
                 PROVE  IsExhausted(quota')
      BY DEF throttlevars
    <2>1. CASE UNCHANGED quota
      BY <2>1
    <2>2. ASSUME NEW requests \in 0..2, NEW tokens \in 0..2, Consume(requests, tokens)
          PROVE  IsExhausted(quota')
      <3>1. \A n \in 0..2 : Consumed(0, n) = 0
        BY DEF Consumed, Unknown
      <3> QED BY <2>2, <3>1 DEF Consume, IsExhausted
    <2> QED
      BY <2>1, <2>2
      DEF ThrottlingNext, BeginCheck, BeginRecord, ReadClock, CheckBudget,
          RecordRequest, Tick, StepBack
  <1> QED BY <1>1, AlwaysTInv, PTL DEF ThrottlingSpec, QuotaStaysExhausted

-----------------------------------------------------------------------------

(* A behaviour of MCPoolParts is one of every part, most of them idle.     *)
LEMMA PartsAreBehaviours == PartsSpec => PoolSpec /\ StrategiesSpec /\ ThrottlingSpec
  <1>1. PartsInit => PoolInit /\ StrategiesInit /\ ThrottlingInit
    BY DEF PartsInit
  <1>2. [PartsNext]_<<part, poolvars, strategyvars, throttlevars>> =>
          /\ [PoolNext]_poolvars
          /\ [StrategiesNext]_strategyvars
          /\ [ThrottlingNext]_throttlevars
    BY DEF PartsNext
  <1> QED BY <1>1, <1>2, PTL DEF PartsSpec, PoolSpec, StrategiesSpec, ThrottlingSpec

(* Each part keeps its types: the states under the ids, the strategies'    *)
(* counters within their bounds, the windows' entries and the snapshot.    *)
THEOREM PartsTypeCorrect == PartsSpec => []PartsTypeOK
  <1>1. SInv => StrategiesTypeOK
    BY DEF SInv
  <1>2. TInv => ThrottlingTypeOK
    BY DEF TInv
  <1>3. PartsTypeOK <=> PoolTypeOK /\ StrategiesTypeOK /\ ThrottlingTypeOK
    BY DEF PartsTypeOK
  <1> QED
    BY <1>1, <1>2, <1>3, PartsAreBehaviours, PoolTypeCorrect, AlwaysSInv, AlwaysTInv, PTL

================================================================================
