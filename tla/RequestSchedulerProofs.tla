----------------------- MODULE RequestSchedulerProofs -----------------------
(***************************************************************************)
(* Theorems about RequestScheduler, for any number of callers and keys and *)
(* any caps, cooldowns and thresholds that the assumptions allow.          *)
(***************************************************************************)
EXTENDS RequestScheduler, FiniteSetTheorems, TLAPS

ConstantsOK ==
  /\ MaxParallel \in Nat \ {0}
  /\ CooldownTicks \in Nat \ {0}
  /\ FailureThreshold \in Nat \ {0}
  /\ CounterCap \in Nat
  /\ CounterCap >= FailureThreshold
  /\ NumKeys \in Nat \ {0}
  /\ NoCaller \notin Callers

LEMMA ConstantsAreOK == ConstantsOK
  BY MaxParallelAssumption, CooldownAssumption, ThresholdAssumption,
     CounterCapAssumption, NumKeysAssumption, CallersAssumption DEF ConstantsOK

(* The methods of a key keep it a key, and what each does to the slots.    *)
LEMMA KeyMethods ==
  ASSUME NEW s \in KeyState
  PROVE  /\ RecordRequestStart(s) \in KeyState
         /\ RecordRequestEnd(s) \in KeyState
         /\ RecordFailure(s) \in KeyState
         /\ RecordRateLimit(s) \in KeyState
         /\ MarkDisabled(s) \in KeyState
         /\ MarkFailed(s) \in KeyState
         /\ ResetCooldown(s) \in KeyState
         /\ Elapse(s) \in KeyState
  <1>1. /\ s.active_requests + 1 \in Nat
        /\ Decrement(s.active_requests) \in Nat
        /\ Decrement(s.cooldown) \in 0..CooldownTicks
        /\ Bump(s.consecutive_failures) \in 0..CounterCap
        /\ Bump(s.consecutive_429s) \in 0..CounterCap
        /\ 0 \in 0..CounterCap
        /\ 0 \in 0..CooldownTicks
        /\ CooldownTicks \in 0..CooldownTicks
    BY ConstantsAreOK DEF ConstantsOK, KeyState, Bump, Decrement
  <1>2. RecordRequestStart(s) \in KeyState
    BY <1>1 DEF RecordRequestStart, KeyState
  <1>3. RecordRequestEnd(s) \in KeyState
    BY <1>1 DEF RecordRequestEnd, KeyState, Status
  <1>4. RecordFailure(s) \in KeyState
    BY <1>1 DEF RecordFailure, KeyState
  <1>5. RecordRateLimit(s) \in KeyState
    BY <1>1 DEF RecordRateLimit, KeyState, Status
  <1>6. MarkDisabled(s) \in KeyState /\ MarkFailed(s) \in KeyState
    BY DEF MarkDisabled, MarkFailed, KeyState, Status
  <1>7. ResetCooldown(s) \in KeyState /\ Elapse(s) \in KeyState
    BY <1>1 DEF ResetCooldown, Elapse, KeyState, Status
  <1> QED BY <1>2, <1>3, <1>4, <1>5, <1>6, <1>7

LEMMA KeySlots ==
  ASSUME NEW s \in KeyState
  PROVE  /\ RecordRequestStart(s).active_requests = s.active_requests + 1
         /\ RecordRequestEnd(s).active_requests = Decrement(s.active_requests)
         /\ RecordFailure(s).active_requests = Decrement(s.active_requests)
         /\ RecordRateLimit(s).active_requests = Decrement(s.active_requests)
         /\ MarkDisabled(s).active_requests = s.active_requests
         /\ MarkFailed(s).active_requests = s.active_requests
         /\ ResetCooldown(s).active_requests = s.active_requests
         /\ Elapse(s).active_requests = s.active_requests
  BY DEF KeyState, RecordRequestStart, RecordRequestEnd, RecordFailure,
         RecordRateLimit, MarkDisabled, MarkFailed, ResetCooldown, Elapse

-----------------------------------------------------------------------------

(* A caller that has a key to report on knows which.                       *)
HeldOK ==
  \A c \in Callers : pc[c] \in {"calling", "check", "trip"} => held[c] \in Keys

TypeInv == TypeOK /\ HeldOK

LEMMA TypeInit == Init => TypeInv
  <1> SUFFICES ASSUME Init PROVE TypeInv
    OBVIOUS
  <1>1. NewKey \in KeyState
    BY ConstantsAreOK DEF ConstantsOK, NewKey, KeyState, Status
  <1> QED
    BY <1>1, ConstantsAreOK DEF Init, TypeInv, TypeOK, HeldOK, ConstantsOK, Keys, NoKey,
       Location, Acquiring, FirstPass, ResetPass, SecondPass

(* NextKey moves the caller within the list and to one of two locations.   *)
LEMMA NextKeyType ==
  ASSUME TypeOK, NEW c \in Callers, NEW same \in Acquiring, NEW after \in Acquiring,
         NextKey(c, same, after)
  PROVE  /\ at' \in [Callers -> Keys]
         /\ pc' \in [Callers -> Location]
         /\ \/ pc' = [pc EXCEPT ![c] = same]
            \/ pc' = [pc EXCEPT ![c] = after]
  <1> USE ConstantsAreOK DEF TypeOK, Location, Keys, ConstantsOK
  <1>1. CASE at[c] < NumKeys
    <2>1. at[c] + 1 \in Keys
      <3>1. at[c] \in 1..NumKeys /\ NumKeys \in Nat
        OBVIOUS
      <3> QED BY <1>1, <3>1
    <2>2. at' = [at EXCEPT ![c] = at[c] + 1] /\ pc' = [pc EXCEPT ![c] = same]
      BY <1>1 DEF NextKey
    <2> QED BY <2>1, <2>2
  <1>2. CASE ~(at[c] < NumKeys)
    <2>1. 1 \in Keys
      OBVIOUS
    <2>2. at' = [at EXCEPT ![c] = 1] /\ pc' = [pc EXCEPT ![c] = after]
      BY <1>2 DEF NextKey
    <2> QED BY <2>1, <2>2
  <1> QED BY <1>1, <1>2

LEMMA TypeStep == TypeInv /\ [Next]_vars => TypeInv'
  <1> SUFFICES ASSUME TypeInv, [Next]_vars PROVE TypeInv'
    OBVIOUS
  <1> USE ConstantsAreOK DEF TypeInv, TypeOK, HeldOK, ConstantsOK
  <1>1. ASSUME NEW c \in Callers, BeginAcquire(c) PROVE TypeInv'
    BY <1>1 DEF BeginAcquire, Location, Acquiring, FirstPass, Keys
  <1>2. ASSUME NEW c \in Callers, AcquireStep(c) PROVE TypeInv'
    <2> USE DEF Acquiring, FirstPass, ResetPass, SecondPass
    <2>1. ASSUME NEW here \in Acquiring, NEW slots \in Acquiring, NEW fallback \in Acquiring,
                 ReadStatus(c, here, slots, fallback)
          PROVE  TypeInv'
      <3>1. Scanned(cands[c], fallback) \in Acquiring
        BY DEF Scanned
      <3>2. CASE NextKey(c, here, Scanned(cands[c], fallback))
        BY <2>1, <3>1, <3>2, NextKeyType DEF ReadStatus
      <3>3. CASE pc' = [pc EXCEPT ![c] = slots] /\ UNCHANGED at
        BY <2>1, <3>3 DEF ReadStatus, Location
      <3> QED BY <2>1, <3>2, <3>3 DEF ReadStatus
    <2>2. ASSUME NEW here \in Acquiring, NEW scan \in Acquiring, NEW fallback \in Acquiring,
                 ReadSlots(c, here, scan, fallback)
          PROVE  TypeInv'
      <3>1. PICK found \in SUBSET Keys :
               /\ cands' = [cands EXCEPT ![c] = found]
               /\ NextKey(c, scan, Scanned(found, fallback))
        BY <2>2 DEF ReadSlots
      <3>2. Scanned(found, fallback) \in Acquiring
        BY DEF Scanned
      <3> QED BY <2>2, <3>1, <3>2, NextKeyType DEF ReadSlots
    <2>3. ASSUME CheckCooling(c) PROVE TypeInv'
      <3>1. CASE NextKey(c, "cool", "rescan")
        BY <2>3, <3>1, NextKeyType DEF CheckCooling
      <3>2. CASE pc' = [pc EXCEPT ![c] = "status"] /\ UNCHANGED at
        BY <2>3, <3>2 DEF CheckCooling, Location
      <3> QED BY <2>3, <3>1, <3>2 DEF CheckCooling
    <2>4. ASSUME CheckRateLimited(c) PROVE TypeInv'
      <3>1. CASE NextKey(c, "cool", "rescan")
        BY <2>4, <3>1, NextKeyType DEF CheckRateLimited
      <3>2. CASE pc' = [pc EXCEPT ![c] = "reset"] /\ UNCHANGED at
        BY <2>4, <3>2 DEF CheckRateLimited, Location
      <3> QED BY <2>4, <3>1, <3>2 DEF CheckRateLimited
    <2>5. ASSUME ResetKey(c) PROVE TypeInv'
      <3>1. keys' \in [Keys -> KeyState]
        BY <2>5, KeyMethods DEF ResetKey
      <3> QED BY <2>5, <3>1, NextKeyType DEF ResetKey
    <2>6. ASSUME SelectKey(c) PROVE TypeInv'
      <3>1. keys' \in [Keys -> KeyState] /\ held' \in [Callers -> Keys \cup {NoKey}]
        BY <2>6, KeyMethods DEF SelectKey
      <3>2. HeldOK'
        BY <2>6 DEF SelectKey
      <3> QED BY <2>6, <3>1, <3>2 DEF SelectKey, Location
    <2>7. ASSUME RaiseNoAvailable(c) PROVE TypeInv'
      BY <2>7 DEF RaiseNoAvailable, Location
    <2> QED
      BY <1>2, <2>1, <2>2, <2>3, <2>4, <2>5, <2>6, <2>7
      DEF AcquireStep, GatherStep, ScanStatus, ScanSlots, RescanStatus, RescanSlots
  <1>3. ASSUME NEW c \in Callers, Outcome(c) \/ BreakerStep(c) PROVE TypeInv'
    <2> USE DEF Location, LeaveKey, NoKey
    <2>1. ASSUME ReleaseKey(c) \/ MarkRateLimited(c) \/ TripBreaker(c) PROVE TypeInv'
      <3>1. keys' \in [Keys -> KeyState]
        BY <2>1, KeyMethods DEF ReleaseKey, MarkRateLimited, TripBreaker
      <3> QED BY <2>1, <3>1 DEF ReleaseKey, MarkRateLimited, TripBreaker
    <2>2. ASSUME MarkFailure(c) PROVE TypeInv'
      <3>1. keys' \in [Keys -> KeyState]
        BY <2>2, KeyMethods DEF MarkFailure
      <3> QED BY <2>2, <3>1 DEF MarkFailure
    <2>3. ASSUME DisableKey(c) \/ AbandonCall(c) PROVE TypeInv'
      <3>1. keys' \in [Keys -> KeyState]
        BY <2>3, KeyMethods DEF DisableKey, AbandonCall
      <3>2. lost' \in [Keys -> Nat]
        BY <2>3 DEF DisableKey, AbandonCall
      <3> QED BY <2>3, <3>1, <3>2 DEF DisableKey, AbandonCall
    <2>4. ASSUME CheckThreshold(c) PROVE TypeInv'
      BY <2>4 DEF CheckThreshold
    <2> QED BY <1>3, <2>1, <2>2, <2>3, <2>4 DEF Outcome, BreakerStep
  <1>4. ASSUME Tick PROVE TypeInv'
    BY <1>4, KeyMethods DEF Tick
  <1>5. CASE UNCHANGED vars
    BY <1>5 DEF vars
  <1> QED BY <1>1, <1>2, <1>3, <1>4, <1>5 DEF Next

(* Every variable keeps its type in every reachable state.                 *)
THEOREM TypeCorrect == Spec => []TypeOK
  <1>1. TypeInv => TypeOK
    BY DEF TypeInv
  <1> QED BY TypeInit, TypeStep, <1>1, PTL DEF Spec

(* Where an outcome may leave its caller.                                  *)
LEMMA OutcomeLocation ==
  ASSUME TypeOK, NEW c \in Callers, Outcome(c)
  PROVE  /\ pc[c] = "calling"
         /\ pc'[c] \in {"idle", "check"}
         /\ \A d \in Callers \ {c} : pc'[d] = pc[d]
  BY DEF TypeOK, Outcome, ReleaseKey, MarkRateLimited, MarkFailure, DisableKey,
         AbandonCall, LeaveKey

(* A scan moves nobody but the caller that makes it.                       *)
LEMMA GatherLocation ==
  ASSUME TypeOK, NEW c \in Callers, GatherStep(c)
  PROVE  /\ pc[c] \in Acquiring
         /\ pc'[c] \in Acquiring
         /\ \A d \in Callers \ {c} : pc'[d] = pc[d]
  BY DEF TypeOK, GatherStep, ScanStatus, ScanSlots, RescanStatus, RescanSlots,
         ReadStatus, ReadSlots, CheckCooling, CheckRateLimited, ResetKey, NextKey,
         Scanned, Acquiring, FirstPass, ResetPass, SecondPass

-----------------------------------------------------------------------------

(* A caller inside acquire_key is the one that holds _sync_lock.           *)
LockInv == \A c \in Callers : pc[c] \in Acquiring => lock = c

(* Candidates exist only inside acquire_key, and each of them still has a  *)
(* free slot: since they were read, slots have only been given back.       *)
CandidatesInv ==
  \A c \in Callers :
    /\ cands[c] # {} => pc[c] \in Acquiring \ {"raise"}
    /\ \A k \in cands[c] : HasFreeSlot(keys[k])

WithinCap == \A k \in Keys : keys[k].active_requests <= MaxParallel

SafeInv ==
  /\ TypeInv
  /\ LockInv
  /\ CandidatesInv
  /\ SlotAccounting
  /\ WithinCap

(* What one step of _gather_candidates may do.                             *)
LEMMA GatherEffect ==
  ASSUME TypeInv, NEW c \in Callers, GatherStep(c)
  PROVE  /\ pc[c] \in Acquiring \ {"select", "raise"}
         /\ \E loc \in Acquiring, found \in SUBSET Keys :
              /\ pc' = [pc EXCEPT ![c] = loc]
              /\ cands' = [cands EXCEPT ![c] = found]
              /\ \A k \in found :
                   k \in cands[c] \/ (HasFreeSlot(keys[k]) /\ ~Retired(keys[k]))
              /\ loc = "raise" => found = {}
         /\ \/ keys' = keys
            \/ keys' = [keys EXCEPT ![at[c]] = ResetCooldown(@)]
         /\ UNCHANGED <<lock, held, lost>>
  <1> USE DEF TypeInv, TypeOK, Acquiring, FirstPass, ResetPass, SecondPass
  <1>1. ASSUME NEW here \in {"scan", "rescan"}, NEW slots \in {"slots", "reslots"},
               NEW fallback \in {"cool", "raise"},
               ReadStatus(c, here, slots, fallback)
        PROVE  \E loc \in Acquiring :
                 /\ pc' = [pc EXCEPT ![c] = loc]
                 /\ loc = "raise" => cands[c] = {}
    <2>1. CASE pc' = [pc EXCEPT ![c] = slots]
      BY <2>1
    <2>2. CASE NextKey(c, here, Scanned(cands[c], fallback))
      BY <2>2 DEF NextKey, Scanned
    <2> QED BY <1>1, <2>1, <2>2 DEF ReadStatus
  <1>2. ASSUME NEW scan \in {"scan", "rescan"}, NEW here \in {"slots", "reslots"},
               NEW fallback \in {"cool", "raise"},
               ReadSlots(c, here, scan, fallback)
        PROVE  \E loc \in Acquiring, found \in SUBSET Keys :
                 /\ pc' = [pc EXCEPT ![c] = loc]
                 /\ cands' = [cands EXCEPT ![c] = found]
                 /\ \A k \in found :
                      k \in cands[c] \/ (HasFreeSlot(keys[k]) /\ ~Retired(keys[k]))
                 /\ loc = "raise" => found = {}
    <2>1. PICK found \in SUBSET Keys :
             /\ cands' = [cands EXCEPT ![c] = found]
             /\ \A k \in found :
                  k \in cands[c] \/ (HasFreeSlot(keys[k]) /\ ~Retired(keys[k]))
             /\ NextKey(c, scan, Scanned(found, fallback))
      BY <1>2 DEF ReadSlots
    <2>2. PICK loc \in Acquiring :
             pc' = [pc EXCEPT ![c] = loc] /\ (loc = "raise" => found = {})
      BY <2>1 DEF NextKey, Scanned
    <2> QED BY <2>1, <2>2
  <1>3. cands = [cands EXCEPT ![c] = cands[c]] /\ cands[c] \in SUBSET Keys
    OBVIOUS
  <1>4. CASE ScanStatus(c) \/ RescanStatus(c)
    BY <1>1, <1>3, <1>4 DEF ScanStatus, RescanStatus, ReadStatus
  <1>5. CASE ScanSlots(c) \/ RescanSlots(c)
    BY <1>2, <1>5 DEF ScanSlots, RescanSlots, ReadSlots
  <1>6. CASE CheckCooling(c)
    BY <1>3, <1>6 DEF CheckCooling, NextKey
  <1>7. CASE CheckRateLimited(c)
    BY <1>3, <1>7 DEF CheckRateLimited, NextKey
  <1>8. CASE ResetKey(c)
    BY <1>3, <1>8 DEF ResetKey, NextKey
  <1> QED BY <1>4, <1>5, <1>6, <1>7, <1>8 DEF GatherStep

(* The four ways in which a step can touch calls and slots.                *)

Calling(c) == pc[c] = "calling"

Quiet ==
  /\ \A d \in Callers : Calling(d)' <=> Calling(d)
  /\ \A d \in Callers : Calling(d) => held'[d] = held[d]
  /\ \A k \in Keys : keys'[k].active_requests = keys[k].active_requests
  /\ lost' = lost

OthersStay(c) ==
  \A d \in Callers \ {c} :
    (Calling(d)' <=> Calling(d)) /\ held'[d] = held[d]

Starts(c, k) ==
  /\ ~Calling(c) /\ Calling(c)' /\ held'[c] = k
  /\ OthersStay(c)
  /\ keys' = [keys EXCEPT ![k] = RecordRequestStart(@)]
  /\ lost' = lost

Ends(c, k) ==
  /\ Calling(c) /\ ~Calling(c)' /\ held[c] = k
  /\ OthersStay(c)
  /\ \E s \in KeyState :
       /\ keys' = [keys EXCEPT ![k] = s]
       /\ s.active_requests = Decrement(keys[k].active_requests)
  /\ lost' = lost

Loses(c, k) ==
  /\ Calling(c) /\ ~Calling(c)' /\ held[c] = k
  /\ OthersStay(c)
  /\ \A l \in Keys : keys'[l].active_requests = keys[l].active_requests
  /\ lost' = [lost EXCEPT ![k] = @ + 1]

LEMMA QuietSteps ==
  ASSUME TypeInv,
         \/ \E c \in Callers : \/ BeginAcquire(c) \/ GatherStep(c)
                               \/ RaiseNoAvailable(c) \/ BreakerStep(c)
         \/ Tick
         \/ UNCHANGED vars
  PROVE  Quiet
  <1> USE DEF TypeInv, TypeOK, Quiet, Calling
  <1>1. ASSUME NEW c \in Callers, BeginAcquire(c) \/ RaiseNoAvailable(c) PROVE Quiet
    BY <1>1 DEF BeginAcquire, RaiseNoAvailable
  <1>2. ASSUME NEW c \in Callers, GatherStep(c) PROVE Quiet
    <2>1. \A k \in Keys : keys'[k].active_requests = keys[k].active_requests
      <3>1. CASE keys' = keys
        BY <3>1
      <3>2. CASE keys' = [keys EXCEPT ![at[c]] = ResetCooldown(@)]
        <4>1. \A k \in Keys : keys'[k] = IF k = at[c] THEN ResetCooldown(keys[k]) ELSE keys[k]
          BY <3>2
        <4> QED BY <4>1, KeySlots
      <3> QED BY <1>2, <3>1, <3>2, GatherEffect
    <2>2. PICK loc \in Acquiring : pc' = [pc EXCEPT ![c] = loc]
      BY <1>2, GatherEffect
    <2>3. pc[c] # "calling" /\ loc # "calling"
      BY <1>2, GatherEffect DEF Acquiring, FirstPass, ResetPass, SecondPass
    <2> QED BY <1>2, <2>1, <2>2, <2>3, GatherEffect
  <1>3. ASSUME NEW c \in Callers, CheckThreshold(c) PROVE Quiet
    BY <1>3 DEF CheckThreshold, LeaveKey
  <1>4. ASSUME NEW c \in Callers, TripBreaker(c) PROVE Quiet
    <2>1. held[c] \in Keys
      BY <1>4 DEF TripBreaker, HeldOK
    <2>2. \A k \in Keys : keys'[k].active_requests = keys[k].active_requests
      BY <1>4, <2>1, KeySlots DEF TripBreaker
    <2> QED BY <1>4, <2>2 DEF TripBreaker, LeaveKey
  <1>5. CASE Tick
    <2>1. \A k \in Keys : keys'[k].active_requests = keys[k].active_requests
      BY <1>5, KeySlots DEF Tick
    <2> QED BY <1>5, <2>1 DEF Tick
  <1>6. CASE UNCHANGED vars
    BY <1>6 DEF vars
  <1> QED BY <1>1, <1>2, <1>3, <1>4, <1>5, <1>6 DEF BreakerStep

LEMMA StartSteps ==
  ASSUME TypeInv, NEW c \in Callers, SelectKey(c)
  PROVE  \E k \in cands[c] : Starts(c, k)
  BY DEF TypeInv, TypeOK, SelectKey, Starts, Calling, OthersStay

LEMMA EndSteps ==
  ASSUME TypeInv, NEW c \in Callers,
         ReleaseKey(c) \/ MarkRateLimited(c) \/ MarkFailure(c)
  PROVE  \E k \in Keys : Ends(c, k)
  <1> USE DEF TypeInv, TypeOK, HeldOK
  <1>1. PICK k \in Keys : held[c] = k /\ keys[k] \in KeyState
    BY DEF ReleaseKey, MarkRateLimited, MarkFailure
  <1>2. PICK s \in KeyState :
           /\ keys' = [keys EXCEPT ![k] = s]
           /\ s.active_requests = Decrement(keys[k].active_requests)
    BY <1>1, KeyMethods, KeySlots DEF ReleaseKey, MarkRateLimited, MarkFailure
  <1>3. Ends(c, k)
    BY <1>1, <1>2
    DEF Ends, Calling, OthersStay, ReleaseKey, MarkRateLimited, MarkFailure, LeaveKey
  <1> QED BY <1>3

LEMMA LoseSteps ==
  ASSUME TypeInv, NEW c \in Callers, DisableKey(c) \/ AbandonCall(c)
  PROVE  \E k \in Keys : Loses(c, k)
  <1> USE DEF TypeInv, TypeOK, HeldOK
  <1>1. PICK k \in Keys : held[c] = k
    BY DEF DisableKey, AbandonCall
  <1>2. \A l \in Keys : keys'[l].active_requests = keys[l].active_requests
    <2>1. CASE keys' = keys
      BY <2>1
    <2>2. CASE keys' = [keys EXCEPT ![k] = MarkDisabled(@)]
      <3>1. \A l \in Keys :
              keys'[l] = IF l = k THEN MarkDisabled(keys[l]) ELSE keys[l]
        BY <2>2
      <3> QED BY <3>1, KeySlots
    <2> QED BY <1>1, <2>1, <2>2 DEF DisableKey, AbandonCall
  <1>3. lost' = [lost EXCEPT ![k] = @ + 1] /\ pc[c] = "calling" /\ LeaveKey(c)
    BY <1>1 DEF DisableKey, AbandonCall
  <1>4. Calling(c) /\ ~Calling(c)' /\ OthersStay(c)
    BY <1>3 DEF Calling, OthersStay, LeaveKey
  <1>5. Loses(c, k)
    BY <1>1, <1>2, <1>3, <1>4 DEF Loses
  <1> QED BY <1>5

(* Every step is one of the four.                                          *)
LEMMA SlotSteps ==
  ASSUME TypeInv, [Next]_vars
  PROVE  \/ Quiet
         \/ \E c \in Callers : SelectKey(c) /\ \E k \in cands[c] : Starts(c, k)
         \/ \E c \in Callers, k \in Keys : Ends(c, k)
         \/ \E c \in Callers, k \in Keys : Loses(c, k)
  BY QuietSteps, StartSteps, EndSteps, LoseSteps DEF Next, AcquireStep, Outcome

-----------------------------------------------------------------------------

LEMMA FlightFinite ==
  ASSUME NEW k \in Keys
  PROVE  IsFiniteSet(InFlight(k)) /\ Cardinality(InFlight(k)) \in Nat
  <1>1. InFlight(k) \subseteq Callers
    BY DEF InFlight
  <1> QED BY <1>1, CallersAssumption, FS_Subset, FS_CardinalityType

LEMMA AccountingStep ==
  ASSUME TypeInv, SlotAccounting, [Next]_vars
  PROVE  SlotAccounting'
  <1> SUFFICES ASSUME NEW k \in Keys
      PROVE keys'[k].active_requests = Cardinality(InFlight(k)') + lost'[k]
    BY DEF SlotAccounting
  <1>1. /\ keys[k].active_requests = Cardinality(InFlight(k)) + lost[k]
        /\ keys[k].active_requests \in Nat /\ lost[k] \in Nat
        /\ Cardinality(InFlight(k)) \in Nat /\ IsFiniteSet(InFlight(k))
    BY FlightFinite DEF SlotAccounting, TypeInv, TypeOK, KeyState
  <1>2. CASE Quiet
    <2>1. InFlight(k)' = InFlight(k)
      BY <1>2 DEF Quiet, InFlight, Calling
    <2> QED BY <1>1, <1>2, <2>1 DEF Quiet
  <1>3. ASSUME NEW c \in Callers, NEW l \in Keys, Starts(c, l)
        PROVE  keys'[k].active_requests = Cardinality(InFlight(k)') + lost'[k]
    <2>1. CASE k = l
      <3>1. c \notin InFlight(k) /\ InFlight(k)' = InFlight(k) \cup {c}
        BY <1>3, <2>1 DEF Starts, InFlight, Calling, OthersStay
      <3>2. Cardinality(InFlight(k)') = Cardinality(InFlight(k)) + 1
        BY <1>1, <3>1, FS_AddElement
      <3>3. keys'[k].active_requests = keys[k].active_requests + 1
        BY <1>3, <2>1, KeySlots DEF Starts, TypeInv, TypeOK
      <3> QED BY <1>1, <1>3, <3>2, <3>3 DEF Starts
    <2>2. CASE k # l
      <3>1. InFlight(k)' = InFlight(k)
        BY <1>3, <2>2 DEF Starts, InFlight, Calling, OthersStay
      <3>2. keys'[k] = keys[k]
        BY <1>3, <2>2 DEF Starts, TypeInv, TypeOK
      <3> QED BY <1>1, <1>3, <3>1, <3>2 DEF Starts
    <2> QED BY <2>1, <2>2
  <1>4. ASSUME NEW c \in Callers, NEW l \in Keys, Ends(c, l) \/ Loses(c, l)
        PROVE  keys'[k].active_requests = Cardinality(InFlight(k)') + lost'[k]
    <2>1. CASE k = l
      <3>1. c \in InFlight(k) /\ InFlight(k)' = InFlight(k) \ {c}
        BY <1>4, <2>1 DEF Ends, Loses, InFlight, Calling, OthersStay
      <3>2. Cardinality(InFlight(k)') = Cardinality(InFlight(k)) - 1
        BY <1>1, <3>1, FS_RemoveElement
      <3>3. Cardinality(InFlight(k)) > 0
        BY <1>1, <3>1, FS_EmptySet
      <3>4. CASE Ends(c, l)
        <4>1. keys'[k].active_requests = Decrement(keys[k].active_requests)
          BY <2>1, <3>4 DEF Ends, TypeInv, TypeOK
        <4> QED BY <1>1, <3>2, <3>3, <3>4, <4>1 DEF Ends, Decrement
      <3>5. CASE Loses(c, l)
        <4>1. lost'[k] = lost[k] + 1
          BY <2>1, <3>5 DEF Loses, TypeInv, TypeOK
        <4> QED BY <1>1, <3>2, <3>3, <3>5, <4>1 DEF Loses
      <3> QED BY <1>4, <3>4, <3>5
    <2>2. CASE k # l
      <3>1. InFlight(k)' = InFlight(k)
        BY <1>4, <2>2 DEF Ends, Loses, InFlight, Calling, OthersStay
      <3>2. keys'[k].active_requests = keys[k].active_requests /\ lost'[k] = lost[k]
        BY <1>4, <2>2 DEF Ends, Loses, TypeInv, TypeOK
      <3> QED BY <1>1, <3>1, <3>2
    <2> QED BY <2>1, <2>2
  <1>5. \A c \in Callers : cands[c] \subseteq Keys
    BY DEF TypeInv, TypeOK
  <1> QED BY <1>2, <1>3, <1>4, <1>5, SlotSteps

-----------------------------------------------------------------------------

LEMMA SafeInit == Init => SafeInv
  <1> SUFFICES ASSUME Init PROVE SafeInv
    OBVIOUS
  <1>1. TypeInv
    BY TypeInit
  <1>2. LockInv /\ CandidatesInv
    BY DEF Init, LockInv, CandidatesInv, Acquiring, FirstPass, ResetPass, SecondPass
  <1>3. SlotAccounting /\ WithinCap
    <2> SUFFICES ASSUME NEW k \in Keys
        PROVE /\ keys[k].active_requests = Cardinality(InFlight(k)) + lost[k]
              /\ keys[k].active_requests <= MaxParallel
      BY DEF SlotAccounting, WithinCap
    <2>1. keys[k].active_requests = 0 /\ lost[k] = 0
      BY DEF Init, NewKey
    <2>2. InFlight(k) = {}
      BY DEF Init, InFlight
    <2> QED BY <2>1, <2>2, FS_EmptySet, MaxParallelAssumption
  <1> QED BY <1>1, <1>2, <1>3 DEF SafeInv

(* Only the holder of the lock is inside acquire_key.                      *)
LEMMA LockStep ==
  ASSUME TypeInv, LockInv, [Next]_vars
  PROVE  LockInv'
  <1> USE DEF TypeInv, TypeOK, LockInv
  <1>1. ASSUME NEW c \in Callers, BeginAcquire(c) PROVE LockInv'
    BY <1>1, CallersAssumption DEF BeginAcquire
  <1>2. ASSUME NEW c \in Callers, GatherStep(c) PROVE LockInv'
    <2>1. PICK loc \in Acquiring : pc' = [pc EXCEPT ![c] = loc]
      BY <1>2, GatherEffect
    <2>2. pc[c] \in Acquiring /\ lock' = lock
      BY <1>2, GatherEffect
    <2> QED BY <2>1, <2>2
  <1>3. ASSUME NEW c \in Callers, SelectKey(c) \/ RaiseNoAvailable(c) PROVE LockInv'
    <2>1. pc[c] \in Acquiring /\ pc'[c] \notin Acquiring
      BY <1>3 DEF SelectKey, RaiseNoAvailable, Acquiring, FirstPass, ResetPass, SecondPass
    <2>2. \A d \in Callers \ {c} : pc'[d] = pc[d]
      BY <1>3 DEF SelectKey, RaiseNoAvailable
    <2> QED BY <2>1, <2>2
  <1>4. ASSUME NEW c \in Callers, Outcome(c) \/ BreakerStep(c) PROVE LockInv'
    <2>1. pc'[c] \notin Acquiring
      BY <1>4
      DEF Outcome, BreakerStep, ReleaseKey, MarkRateLimited, MarkFailure, DisableKey,
          AbandonCall, CheckThreshold, TripBreaker, LeaveKey,
          Acquiring, FirstPass, ResetPass, SecondPass
    <2>2. lock' = lock /\ \A d \in Callers \ {c} : pc'[d] = pc[d]
      BY <1>4
      DEF Outcome, BreakerStep, ReleaseKey, MarkRateLimited, MarkFailure, DisableKey,
          AbandonCall, CheckThreshold, TripBreaker, LeaveKey
    <2> QED BY <2>1, <2>2
  <1>5. CASE Tick \/ UNCHANGED vars
    BY <1>5 DEF Tick, vars
  <1> QED BY <1>1, <1>2, <1>3, <1>4, <1>5 DEF Next, AcquireStep

(* A step other than SelectKey takes no slot.                              *)
LEMMA SlotsOnlyGivenBack ==
  ASSUME TypeInv, [Next]_vars, NEW k \in Keys,
         \A c \in Callers : ~SelectKey(c)
  PROVE  keys'[k].active_requests <= keys[k].active_requests
  <1>1. keys[k].active_requests \in Nat
    BY DEF TypeInv, TypeOK, KeyState
  <1>2. CASE Quiet
    BY <1>1, <1>2 DEF Quiet
  <1>3. ASSUME NEW c \in Callers, NEW l \in Keys, Ends(c, l)
        PROVE  keys'[k].active_requests <= keys[k].active_requests
    BY <1>1, <1>3 DEF Ends, Decrement, TypeInv, TypeOK
  <1>4. ASSUME NEW c \in Callers, NEW l \in Keys, Loses(c, l)
        PROVE  keys'[k].active_requests <= keys[k].active_requests
    BY <1>1, <1>4 DEF Loses
  <1> QED BY <1>2, <1>3, <1>4, SlotSteps

LEMMA CandidatesStep ==
  ASSUME TypeInv, LockInv, CandidatesInv, [Next]_vars
  PROVE  CandidatesInv' /\ (WithinCap => WithinCap')
  <1> USE MaxParallelAssumption DEF TypeInv, TypeOK, HasFreeSlot
  <1>1. ASSUME NEW k \in Keys PROVE /\ keys[k].active_requests \in Nat
                                    /\ TypeInv' => keys'[k].active_requests \in Nat
    BY DEF KeyState
  <1>2. TypeInv'
    BY TypeStep
  <1>3. ASSUME NEW c \in Callers, SelectKey(c)
        PROVE  CandidatesInv' /\ (WithinCap => WithinCap')
    <2>1. PICK k \in cands[c] : keys' = [keys EXCEPT ![k] = RecordRequestStart(@)]
      BY <1>3 DEF SelectKey
    <2>2. HasFreeSlot(keys[k]) /\ k \in Keys
      BY <2>1 DEF CandidatesInv
    <2>3. keys'[k].active_requests = keys[k].active_requests + 1
      BY <2>1, <2>2, KeySlots
    <2>4. WithinCap => WithinCap'
      BY <1>1, <2>1, <2>2, <2>3 DEF WithinCap
    <2>5. \A d \in Callers : cands'[d] = {}
      <3>1. pc[c] \in Acquiring
        BY <1>3 DEF SelectKey, Acquiring
      <3>2. \A d \in Callers : cands[d] # {} => d = c
        BY <3>1 DEF CandidatesInv, LockInv
      <3> QED BY <1>3, <3>2 DEF SelectKey
    <2> QED BY <2>4, <2>5 DEF CandidatesInv
  <1>4. ASSUME \A c \in Callers : ~SelectKey(c)
        PROVE  CandidatesInv' /\ (WithinCap => WithinCap')
    <2>1. \A k \in Keys : keys'[k].active_requests <= keys[k].active_requests
      BY <1>4, SlotsOnlyGivenBack
    <2>2. WithinCap => WithinCap'
      BY <1>1, <1>2, <2>1 DEF WithinCap
    <2>3. \A k \in Keys : HasFreeSlot(keys[k]) => HasFreeSlot(keys'[k])
      BY <1>1, <1>2, <2>1
    <2>4. ASSUME cands' = cands,
                 \A d \in Callers : cands[d] # {} => pc'[d] = pc[d]
          PROVE  CandidatesInv'
      <3>1. ASSUME NEW d \in Callers, NEW k \in cands[d] PROVE HasFreeSlot(keys'[k])
        <4>1. k \in Keys /\ HasFreeSlot(keys[k])
          BY DEF CandidatesInv
        <4> QED BY <2>3, <4>1
      <3>2. \A d \in Callers : cands'[d] # {} => pc'[d] \in Acquiring \ {"raise"}
        BY <2>4 DEF CandidatesInv
      <3>3. \A d \in Callers : \A k \in cands'[d] : HasFreeSlot(keys'[k])
        <4> HIDE DEF HasFreeSlot
        <4> QED BY <2>4, <3>1
      <3> HIDE DEF HasFreeSlot, TypeInv, TypeOK
      <3> QED BY <3>2, <3>3 DEF CandidatesInv
    <2>5. ASSUME NEW c \in Callers, GatherStep(c) PROVE CandidatesInv'
      <3>1. PICK loc \in Acquiring, found \in SUBSET Keys :
               /\ pc' = [pc EXCEPT ![c] = loc]
               /\ cands' = [cands EXCEPT ![c] = found]
               /\ \A k \in found : k \in cands[c] \/ HasFreeSlot(keys[k])
               /\ loc = "raise" => found = {}
        BY <2>5, GatherEffect
      <3> QED BY <2>3, <3>1 DEF CandidatesInv
    <2>6. ASSUME NEW c \in Callers, BeginAcquire(c) PROVE CandidatesInv'
      BY <2>3, <2>6 DEF BeginAcquire, CandidatesInv, Acquiring, FirstPass
    <2>7. ASSUME NEW c \in Callers,
                 RaiseNoAvailable(c) \/ Outcome(c) \/ BreakerStep(c)
          PROVE  CandidatesInv'
      <3>1. cands' = cands /\ \A d \in Callers \ {c} : pc'[d] = pc[d]
        BY <2>7
        DEF RaiseNoAvailable, Outcome, BreakerStep, ReleaseKey, MarkRateLimited,
            MarkFailure, DisableKey, AbandonCall, CheckThreshold, TripBreaker, LeaveKey
      <3>2. pc[c] \notin Acquiring \ {"raise"}
        BY <2>7
        DEF RaiseNoAvailable, Outcome, BreakerStep, ReleaseKey, MarkRateLimited,
            MarkFailure, DisableKey, AbandonCall, CheckThreshold, TripBreaker,
            Acquiring, FirstPass, ResetPass, SecondPass
      <3>3. cands[c] = {}
        BY <3>2 DEF CandidatesInv
      <3> QED BY <2>4, <3>1, <3>3
    <2>8. CASE Tick \/ UNCHANGED vars
      <3>1. cands' = cands /\ pc' = pc
        BY <2>8 DEF Tick, vars
      <3>2. \A d \in Callers : cands[d] # {} => pc'[d] = pc[d]
        BY <3>1
      <3> QED BY <2>2, <2>4, <3>1, <3>2
    <2> QED BY <1>4, <2>2, <2>5, <2>6, <2>7, <2>8 DEF Next, AcquireStep
  <1> QED BY <1>3, <1>4

LEMMA SafeStep == SafeInv /\ [Next]_vars => SafeInv'
  BY TypeStep, LockStep, CandidatesStep, AccountingStep DEF SafeInv

(* active_requests counts exactly the calls in flight and the lost slots.  *)
THEOREM SlotsAccounted == Spec => []SlotAccounting
  <1>1. SafeInv => SlotAccounting
    BY DEF SafeInv
  <1> QED BY SafeInit, SafeStep, <1>1, PTL DEF Spec

(* No key ever carries more calls than max_parallel_requests.              *)
THEOREM CapHolds == Spec => []CapRespected
  <1>1. SafeInv => CapRespected
    <2> SUFFICES ASSUME SafeInv, NEW k \in Keys
        PROVE Cardinality(InFlight(k)) <= MaxParallel
      BY DEF CapRespected
    <2>1. /\ Cardinality(InFlight(k)) \in Nat /\ lost[k] \in Nat
          /\ keys[k].active_requests = Cardinality(InFlight(k)) + lost[k]
          /\ keys[k].active_requests <= MaxParallel
      BY FlightFinite DEF SafeInv, SlotAccounting, WithinCap, TypeInv, TypeOK
    <2> QED BY <2>1, MaxParallelAssumption
  <1> QED BY SafeInit, SafeStep, <1>1, PTL DEF Spec

-----------------------------------------------------------------------------

(* The refinement: under the mapping of Leases, a step that starts a call  *)
(* acquires a lease, one that ends it returns the slot or drops the lease, *)
(* and every other step leaves the leases alone.                           *)

UsedSlots == [k \in Keys |-> keys[k].active_requests]

Holders == [c \in Callers |-> IF pc[c] = "calling" THEN held[c] ELSE NoKey]

LEMMA LeasesInit == Init => Leases!Init
  BY DEF Init, Leases!Init, Leases!Keys, Leases!NoKey, Keys, NoKey, NewKey

LEMMA LeasesStep == SafeInv /\ [Next]_vars => [Leases!Next]_(Leases!vars)
  <1> SUFFICES ASSUME SafeInv, [Next]_vars PROVE [Leases!Next]_(Leases!vars)
    OBVIOUS
  <1>1. TypeInv /\ TypeInv'
    BY TypeStep DEF SafeInv
  <1>2. CASE Quiet
    <2>1. UsedSlots' = UsedSlots
      BY <1>2 DEF Quiet, UsedSlots
    <2>2. Holders' = Holders
      BY <1>2 DEF Quiet, Calling, Holders
    <2> QED BY <2>1, <2>2 DEF UsedSlots, Holders, Leases!vars
  <1>3. ASSUME NEW c \in Callers, SelectKey(c), NEW k \in cands[c], Starts(c, k)
        PROVE  Leases!Acquire(c, k) /\ k \in Keys
    <2>1. k \in Keys /\ keys[k].active_requests < MaxParallel
      BY <1>1, <1>3 DEF SafeInv, CandidatesInv, HasFreeSlot, TypeInv, TypeOK
    <2>2. UsedSlots' = [UsedSlots EXCEPT ![k] = @ + 1]
      BY <1>1, <1>3, <2>1, KeySlots DEF Starts, UsedSlots, TypeInv, TypeOK
    <2>3. Holders[c] = NoKey /\ Holders' = [Holders EXCEPT ![c] = k]
      BY <1>3 DEF Starts, OthersStay, Calling, Holders
    <2> QED
      BY <2>1, <2>2, <2>3 DEF UsedSlots, Holders, Leases!Acquire, Leases!NoKey, NoKey
  <1>4. ASSUME NEW c \in Callers, NEW k \in Keys, Ends(c, k)
        PROVE  Leases!Return(c, k)
    <2>1. c \in InFlight(k)
      BY <1>4 DEF Ends, Calling, InFlight
    <2>2. Cardinality(InFlight(k)) > 0
      BY <1>4, <2>1, FlightFinite, FS_EmptySet
    <2>3. keys[k].active_requests \in Nat /\ keys[k].active_requests > 0
      BY <1>1, <1>4, <2>2, FlightFinite
      DEF SafeInv, SlotAccounting, TypeInv, TypeOK, KeyState
    <2>4. UsedSlots' = [UsedSlots EXCEPT ![k] = @ - 1]
      BY <1>1, <1>4, <2>3 DEF Ends, Decrement, UsedSlots, TypeInv, TypeOK
    <2>5. Holders[c] = k /\ Holders' = [Holders EXCEPT ![c] = NoKey]
      BY <1>4 DEF Ends, OthersStay, Calling, Holders
    <2> QED BY <2>4, <2>5 DEF UsedSlots, Holders, Leases!Return, Leases!NoKey, NoKey
  <1>5. ASSUME NEW c \in Callers, NEW k \in Keys, Loses(c, k)
        PROVE  Leases!Drop(c, k)
    <2>1. UsedSlots' = UsedSlots
      BY <1>5 DEF Loses, UsedSlots
    <2>2. Holders[c] = k /\ Holders' = [Holders EXCEPT ![c] = NoKey]
      BY <1>5 DEF Loses, OthersStay, Calling, Holders
    <2> QED BY <2>1, <2>2 DEF UsedSlots, Holders, Leases!Drop, Leases!NoKey, NoKey
  <1>6. CASE \E c \in Callers : SelectKey(c) /\ \E k \in cands[c] : Starts(c, k)
    BY <1>3, <1>6 DEF Leases!Next, Leases!Keys, Keys
  <1>7. CASE \E c \in Callers, k \in Keys : Ends(c, k)
    BY <1>4, <1>7 DEF Leases!Next, Leases!Keys, Keys
  <1>8. CASE \E c \in Callers, k \in Keys : Loses(c, k)
    BY <1>5, <1>8 DEF Leases!Next, Leases!Keys, Keys
  <1> QED BY <1>1, <1>2, <1>6, <1>7, <1>8, SlotSteps

(* The scheduler implements the leases its callers rely on.                *)
THEOREM SchedulerImplementsKeyLeases == Spec => ImplementsKeyLeases
  BY SafeInit, SafeStep, LeasesInit, LeasesStep, PTL
  DEF Spec, ImplementsKeyLeases, Leases!Spec

-----------------------------------------------------------------------------

(* Only a 429 changes a retired key's status to one that is not retired.   *)
LEMMA RetiredMethods ==
  ASSUME NEW s \in KeyState, Retired(s)
  PROVE  /\ Retired(RecordRequestStart(s)) /\ Retired(RecordRequestEnd(s))
         /\ Retired(RecordFailure(s))
         /\ Retired(MarkDisabled(s)) /\ Retired(MarkFailed(s))
         /\ Retired(ResetCooldown(s)) /\ Retired(Elapse(s))
  BY DEF KeyState, Retired, RecordRequestStart, RecordRequestEnd, RecordFailure,
         MarkDisabled, MarkFailed, ResetCooldown, Elapse

LEMMA OutOfServiceStep ==
  ASSUME SafeInv, [Next]_vars, NEW k \in Keys, OutOfService(k)
  PROVE  OutOfService(k)'
  <1> USE DEF SafeInv, TypeInv, TypeOK, OutOfService
  <1>1. keys[k] \in KeyState /\ Retired(keys[k])
    OBVIOUS
  <1>2. \A c \in Callers : pc[c] = "calling" => held[c] # k
    BY DEF InFlight
  <1>3. ASSUME NEW c \in Callers, BeginAcquire(c) PROVE OutOfService(k)'
    BY <1>3 DEF BeginAcquire, InFlight
  <1>4. ASSUME NEW c \in Callers, GatherStep(c) PROVE OutOfService(k)'
    <2>1. PICK loc \in Acquiring, found \in SUBSET Keys :
             /\ pc' = [pc EXCEPT ![c] = loc]
             /\ cands' = [cands EXCEPT ![c] = found]
             /\ \A l \in found : l \in cands[c] \/ ~Retired(keys[l])
      BY <1>4, GatherEffect
    <2>2. \A d \in Callers : k \notin cands'[d]
      BY <1>1, <2>1
    <2>3. Retired(keys'[k])
      <3>1. CASE keys' = keys
        BY <1>1, <3>1
      <3>2. CASE keys' = [keys EXCEPT ![at[c]] = ResetCooldown(@)]
        BY <1>1, <3>2, RetiredMethods
      <3> QED BY <1>4, <3>1, <3>2, GatherEffect
    <2>4. InFlight(k)' = InFlight(k)
      BY <1>4, <2>1, GatherEffect
      DEF InFlight, Acquiring, FirstPass, ResetPass, SecondPass
    <2> QED BY <2>2, <2>3, <2>4
  <1>5. ASSUME NEW c \in Callers, SelectKey(c) PROVE OutOfService(k)'
    <2>1. PICK l \in cands[c] : /\ keys' = [keys EXCEPT ![l] = RecordRequestStart(@)]
                                /\ held' = [held EXCEPT ![c] = l]
      BY <1>5 DEF SelectKey
    <2>2. l # k
      BY <2>1
    <2>3. Retired(keys'[k])
      BY <1>1, <2>1, <2>2
    <2>4. InFlight(k)' = {}
      BY <1>2, <1>5, <2>1, <2>2 DEF SelectKey, InFlight
    <2>5. \A d \in Callers : k \notin cands'[d]
      BY <1>5 DEF SelectKey
    <2> QED BY <2>3, <2>4, <2>5
  <1>6. ASSUME NEW c \in Callers,
               RaiseNoAvailable(c) \/ Outcome(c) \/ BreakerStep(c)
        PROVE  OutOfService(k)'
    <2>1. cands' = cands
      BY <1>6
      DEF RaiseNoAvailable, Outcome, BreakerStep, ReleaseKey, MarkRateLimited,
          MarkFailure, DisableKey, AbandonCall, CheckThreshold, TripBreaker, LeaveKey
    <2>2. InFlight(k)' = {}
      BY <1>2, <1>6
      DEF RaiseNoAvailable, Outcome, BreakerStep, ReleaseKey, MarkRateLimited,
          MarkFailure, DisableKey, AbandonCall, CheckThreshold, TripBreaker, LeaveKey,
          InFlight
    <2>3. Retired(keys'[k])
      <3>1. CASE TripBreaker(c)
        BY <1>1, <3>1, RetiredMethods DEF TripBreaker
      <3>2. CASE Outcome(c)
        <4>1. held[c] # k
          BY <1>2, <3>2
          DEF Outcome, ReleaseKey, MarkRateLimited, MarkFailure, DisableKey, AbandonCall
        <4>2. keys'[k] = keys[k]
          BY <3>2, <4>1
          DEF Outcome, ReleaseKey, MarkRateLimited, MarkFailure, DisableKey, AbandonCall
        <4> QED BY <1>1, <4>2
      <3>3. CASE RaiseNoAvailable(c) \/ CheckThreshold(c)
        BY <1>1, <3>3 DEF RaiseNoAvailable, CheckThreshold
      <3> QED BY <1>6, <3>1, <3>2, <3>3 DEF BreakerStep
    <2> QED BY <2>1, <2>2, <2>3
  <1>7. CASE Tick
    <2>1. Retired(keys'[k])
      BY <1>1, <1>7, RetiredMethods DEF Tick
    <2> QED BY <1>7, <2>1 DEF Tick, InFlight
  <1>8. CASE UNCHANGED vars
    BY <1>8 DEF vars, InFlight
  <1> QED BY <1>3, <1>4, <1>5, <1>6, <1>7, <1>8 DEF Next, AcquireStep

(* A key out of service, once its last call is gone, never comes back.     *)
THEOREM RetiredKeysStayOut == Spec => OutOfServiceForGood
  <1>1. SafeInv /\ [Next]_vars
        => [\A k \in Keys : OutOfService(k) => OutOfService(k)']_vars
    BY OutOfServiceStep
  <1> QED BY SafeInit, SafeStep, <1>1, PTL DEF Spec, OutOfServiceForGood

-----------------------------------------------------------------------------

(* The failures of this key have reached the threshold, the latest of them *)
(* no 429.                                                                 *)
Due(s) == s.consecutive_failures >= FailureThreshold /\ s.consecutive_429s = 0

(* Somebody has recorded a failure of key k and has yet to act on it.      *)
Watches(c, k) == pc[c] \in {"check", "trip"} /\ held[c] = k

Minded(k) ==
  Due(keys[k]) => Retired(keys[k]) \/ \E c \in Callers : Watches(c, k)

LEMMA MindedKeys == BreakerComplete <=> \A k \in Keys : Minded(k)
  BY DEF BreakerComplete, Minded, Due, Watches

(* A success clears the failures and a 429 names itself as the latest; the *)
(* other methods, but for RecordFailure, leave both counters alone.        *)
LEMMA DueMethods ==
  ASSUME NEW s \in KeyState
  PROVE  /\ Due(RecordRequestStart(s)) <=> Due(s)
         /\ Due(MarkDisabled(s)) <=> Due(s)
         /\ Due(ResetCooldown(s)) <=> Due(s)
         /\ Due(Elapse(s)) <=> Due(s)
         /\ ~Due(RecordRequestEnd(s))
         /\ ~Due(RecordRateLimit(s))
  <1>1. /\ Due(RecordRequestStart(s)) <=> Due(s)
        /\ Due(MarkDisabled(s)) <=> Due(s)
        /\ Due(ResetCooldown(s)) <=> Due(s)
        /\ Due(Elapse(s)) <=> Due(s)
    BY DEF KeyState, Due, RecordRequestStart, MarkDisabled, ResetCooldown, Elapse
  <1>2. RecordRequestEnd(s).consecutive_failures = 0
    BY DEF KeyState, RecordRequestEnd
  <1>3. RecordRateLimit(s).consecutive_429s = Bump(s.consecutive_429s)
    BY DEF KeyState, RecordRateLimit
  <1>4. s.consecutive_429s \in 0..CounterCap /\ CounterCap >= 1
    BY ConstantsAreOK DEF ConstantsOK, KeyState
  <1>5. Bump(s.consecutive_429s) # 0
    BY <1>4, ConstantsAreOK DEF ConstantsOK, Bump
  <1> QED BY <1>1, <1>2, <1>3, <1>5, ConstantsAreOK DEF ConstantsOK, Due

LEMMA MindedStep ==
  ASSUME TypeInv, [Next]_vars, NEW k \in Keys, Minded(k)
  PROVE  Minded(k)'
  <1> USE DEF TypeInv, TypeOK
  <1>1. keys[k] \in KeyState
    OBVIOUS
  <1>2. ASSUME keys'[k] = keys[k], \A c \in Callers : Watches(c, k) => Watches(c, k)'
        PROVE  Minded(k)'
    BY <1>2 DEF Minded
  <1>3. ASSUME NEW c \in Callers, BeginAcquire(c) \/ RaiseNoAvailable(c)
        PROVE  Minded(k)'
    <2>1. keys' = keys /\ \A d \in Callers : Watches(d, k) => Watches(d, k)'
      BY <1>3 DEF BeginAcquire, RaiseNoAvailable, Watches
    <2> QED BY <2>1, <1>2
  <1>4. ASSUME NEW c \in Callers, GatherStep(c) PROVE Minded(k)'
    <2>1. PICK loc \in Acquiring : pc' = [pc EXCEPT ![c] = loc]
      BY <1>4, GatherEffect
    <2>2. pc[c] \in Acquiring /\ held' = held
      BY <1>4, GatherEffect
    <2>3. \A d \in Callers : Watches(d, k) => Watches(d, k)'
      BY <2>1, <2>2 DEF Watches, Acquiring, FirstPass, ResetPass, SecondPass
    <2>4. CASE keys' = keys
      BY <2>3, <2>4, <1>2
    <2>5. CASE keys' = [keys EXCEPT ![at[c]] = ResetCooldown(@)]
      <3>1. keys'[k] = keys[k] \/ keys'[k] = ResetCooldown(keys[k])
        BY <2>5
      <3>2. CASE keys'[k] = keys[k]
        BY <3>2, <2>3, <1>2
      <3>3. CASE keys'[k] = ResetCooldown(keys[k])
        BY <3>3, <2>3, <1>1, DueMethods, RetiredMethods DEF Minded
      <3> QED BY <3>1, <3>2, <3>3
    <2> QED BY <1>4, <2>4, <2>5, GatherEffect
  <1>5. ASSUME NEW c \in Callers, SelectKey(c) PROVE Minded(k)'
    <2>1. PICK l \in cands[c] : /\ keys' = [keys EXCEPT ![l] = RecordRequestStart(@)]
                                /\ held' = [held EXCEPT ![c] = l]
      BY <1>5 DEF SelectKey
    <2>2. \A d \in Callers : Watches(d, k) => Watches(d, k)'
      BY <1>5, <2>1 DEF SelectKey, Watches
    <2>3. keys'[k] = keys[k] \/ keys'[k] = RecordRequestStart(keys[k])
      BY <2>1
    <2>4. CASE keys'[k] = keys[k]
      BY <2>2, <2>4, <1>2
    <2>5. CASE keys'[k] = RecordRequestStart(keys[k])
      BY <2>2, <2>5, <1>1, DueMethods, RetiredMethods DEF Minded
    <2> QED BY <2>3, <2>4, <2>5
  <1>6. ASSUME NEW c \in Callers, Outcome(c) PROVE Minded(k)'
    <2>1. pc[c] = "calling" /\ held[c] \in Keys
      BY <1>6
      DEF HeldOK, Outcome, ReleaseKey, MarkRateLimited, MarkFailure, DisableKey, AbandonCall
    <2>2. \A d \in Callers : Watches(d, k) => Watches(d, k)'
      BY <1>6, <2>1
      DEF Watches, LeaveKey,
          Outcome, ReleaseKey, MarkRateLimited, MarkFailure, DisableKey, AbandonCall
    <2>3. CASE held[c] # k \/ AbandonCall(c)
      <3>1. keys'[k] = keys[k]
        BY <1>6, <2>3
        DEF Outcome, ReleaseKey, MarkRateLimited, MarkFailure, DisableKey, AbandonCall
      <3> QED BY <3>1, <2>2, <1>2
    <2>4. CASE held[c] = k /\ ReleaseKey(c)
      BY <2>4, <1>1, DueMethods DEF ReleaseKey, Minded
    <2>5. CASE held[c] = k /\ MarkRateLimited(c)
      BY <2>5, <1>1, DueMethods DEF MarkRateLimited, Minded
    <2>6. CASE held[c] = k /\ MarkFailure(c)
      <3>1. Watches(c, k)'
        BY <2>6 DEF MarkFailure, Watches
      <3> QED BY <3>1 DEF Minded
    <2>7. CASE held[c] = k /\ DisableKey(c)
      <3>1. Retired(keys'[k])
        BY <2>7, <1>1 DEF DisableKey, MarkDisabled, Retired, KeyState
      <3> QED BY <3>1 DEF Minded
    <2> QED BY <1>6, <2>3, <2>4, <2>5, <2>6, <2>7 DEF Outcome
  <1>7. ASSUME NEW c \in Callers, CheckThreshold(c) PROVE Minded(k)'
    <2>1. keys' = keys
      BY <1>7 DEF CheckThreshold
    <2>2. CASE held[c] # k \/ ReachedThreshold(keys[k])
      <3>1. \A d \in Callers : Watches(d, k) => Watches(d, k)'
        BY <1>7, <2>2 DEF CheckThreshold, LeaveKey, Watches
      <3> QED BY <2>1, <3>1, <1>2
    <2>3. CASE ~ReachedThreshold(keys[k])
      BY <2>1, <2>3 DEF Minded, Due, ReachedThreshold
    <2> QED BY <2>2, <2>3
  <1>8. ASSUME NEW c \in Callers, TripBreaker(c) PROVE Minded(k)'
    <2>1. CASE held[c] # k
      <3>1. keys'[k] = keys[k] /\ \A d \in Callers : Watches(d, k) => Watches(d, k)'
        BY <1>8, <2>1 DEF TripBreaker, LeaveKey, Watches
      <3> QED BY <3>1, <1>2
    <2>2. CASE held[c] = k
      <3>1. Retired(keys'[k])
        BY <1>8, <2>2, <1>1 DEF TripBreaker, MarkFailed, Retired, KeyState
      <3> QED BY <3>1 DEF Minded
    <2> QED BY <2>1, <2>2
  <1>9. CASE Tick
    <2>1. keys'[k] = Elapse(keys[k]) /\ \A d \in Callers : Watches(d, k) => Watches(d, k)'
      BY <1>9 DEF Tick, Watches
    <2> QED BY <2>1, <1>1, DueMethods, RetiredMethods DEF Minded
  <1>10. CASE UNCHANGED vars
    <2>1. keys' = keys /\ \A d \in Callers : Watches(d, k) => Watches(d, k)'
      BY <1>10 DEF vars, Watches
    <2> QED BY <2>1, <1>2
  <1> QED BY <1>3, <1>4, <1>5, <1>6, <1>7, <1>8, <1>9, <1>10
          DEF Next, AcquireStep, BreakerStep

(* The breaker misses no trip: a key whose failures have reached the       *)
(* threshold is out of service, or the caller whose failure did it, or a   *)
(* later one, has yet to look at the counter (mark_key_failure).           *)
THEOREM BreakerMissesNoTrip == Spec => []BreakerComplete
  <1>1. Init => BreakerComplete
    <2> SUFFICES ASSUME Init, NEW k \in Keys PROVE Minded(k)
      BY MindedKeys
    <2>1. keys[k].consecutive_failures = 0
      BY DEF Init, NewKey
    <2> QED BY <2>1, ConstantsAreOK DEF ConstantsOK, Minded, Due
  <1>2. TypeInv /\ BreakerComplete /\ [Next]_vars => BreakerComplete'
    <2> SUFFICES ASSUME TypeInv, BreakerComplete, [Next]_vars PROVE BreakerComplete'
      OBVIOUS
    <2>1. \A k \in Keys : Minded(k)'
      BY MindedKeys, MindedStep
    <2> QED BY <2>1 DEF BreakerComplete, Minded, Due, Watches
  <1> QED BY TypeInit, TypeStep, <1>1, <1>2, PTL DEF Spec

=============================================================================
