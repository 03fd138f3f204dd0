-------------------- MODULE RequestSchedulerHistoryProofs --------------------
(***************************************************************************)
(* acquire_key gives up honestly, for any number of callers and keys.      *)
(***************************************************************************)
EXTENDS RequestSchedulerHistory, RequestSchedulerProofs

(* The history only watches: what holds of the scheduler holds with it.    *)
LEMMA HistoryStep == [HNext]_<<vars, hvars>> => [Next]_vars
  <1> SUFFICES ASSUME [HNext]_<<vars, hvars>> PROVE [Next]_vars
    OBVIOUS
  <1>1. ASSUME NEW c \in Callers,
               HBegin(c) \/ HRateLimited(c) \/ HFailure(c) \/ HRelease(c) \/ HOther(c)
        PROVE  [Next]_vars
    BY <1>1 DEF HBegin, HRateLimited, HFailure, HRelease, HOther, Next, Outcome
  <1>2. CASE HTick
    BY <1>2 DEF HTick, Next
  <1>3. CASE UNCHANGED <<vars, hvars>>
    BY <1>3
  <1> QED BY <1>1, <1>2, <1>3 DEF HNext

LEMMA HistoryIsScheduler == HSpec => Spec
  <1>1. HInit => Init
    BY DEF HInit
  <1> QED BY <1>1, HistoryStep, PTL DEF HSpec, Spec

-----------------------------------------------------------------------------

(* The keys that are watched are usable now.                               *)
WatchedInv == \A u \in usable : u \in Keys /\ Usable(keys[u])

Active(u) == keys[u].status = "ACTIVE"

(* How far a search is: the resetting pass leaves active what it has gone  *)
(* by, the pass after it collects what it has gone by.                     *)
Search(c) ==
  /\ pc[c] \in ResetPass => \A u \in usable : u < at[c] => Active(u)
  /\ pc[c] \in SecondPass =>
       \A u \in usable : Active(u) /\ (u < at[c] => u \in cands[c])
  /\ pc[c] = "raise" => usable = {}

SearchInv == WatchedInv /\ \A c \in Callers : Search(c)

LEMMA SearchInit == HInit => SearchInv
  BY DEF HInit, Init, SearchInv, WatchedInv, Search, ResetPass, SecondPass

(* A key that is active and is changed by anybody is active or unusable.   *)
Methods(s) ==
  {s, RecordRequestStart(s), RecordRequestEnd(s), RecordFailure(s), RecordRateLimit(s),
   MarkDisabled(s), MarkFailed(s), ResetCooldown(s), Elapse(s)}

LEMMA ActiveStays ==
  ASSUME NEW s \in KeyState, s.status = "ACTIVE", NEW t \in Methods(s), Usable(t)
  PROVE  t.status = "ACTIVE"
  <1>1. t # RecordRateLimit(s)
    <2>1. RecordRateLimit(s).cooldown = CooldownTicks
      BY DEF KeyState, RecordRateLimit
    <2> QED BY <2>1, ConstantsAreOK DEF ConstantsOK, Usable, IsCoolingDown
  <1>2. t # MarkDisabled(s) /\ t # MarkFailed(s)
    BY DEF KeyState, MarkDisabled, MarkFailed, Usable
  <1>3. \A m \in {s, RecordRequestStart(s), RecordRequestEnd(s), RecordFailure(s),
                  ResetCooldown(s), Elapse(s)} : m.status = "ACTIVE"
    BY DEF KeyState, RecordRequestStart, RecordRequestEnd, RecordFailure,
           ResetCooldown, Elapse
  <1> QED BY <1>1, <1>2, <1>3 DEF Methods

(* Every step changes keys by their methods.                               *)
LEMMA ByMethods ==
  ASSUME TypeInv, [Next]_vars, NEW k \in Keys
  PROVE  keys'[k] \in Methods(keys[k])
  <1> USE DEF TypeInv, TypeOK, Methods
  <1>1. ASSUME NEW c \in Callers, BeginAcquire(c) \/ RaiseNoAvailable(c) PROVE keys' = keys
    BY <1>1 DEF BeginAcquire, RaiseNoAvailable
  <1>2. ASSUME NEW c \in Callers, GatherStep(c) PROVE keys'[k] \in Methods(keys[k])
    BY <1>2, GatherEffect
  <1>3. ASSUME NEW c \in Callers, SelectKey(c) PROVE keys'[k] \in Methods(keys[k])
    BY <1>3 DEF SelectKey
  <1>4. ASSUME NEW c \in Callers, Outcome(c) PROVE keys'[k] \in Methods(keys[k])
    BY <1>4
    DEF Outcome, ReleaseKey, MarkRateLimited, MarkFailure, DisableKey, AbandonCall
  <1>5. ASSUME NEW c \in Callers, BreakerStep(c) PROVE keys'[k] \in Methods(keys[k])
    BY <1>5 DEF BreakerStep, CheckThreshold, TripBreaker
  <1>6. CASE Tick
    BY <1>6 DEF Tick
  <1>7. CASE UNCHANGED vars
    BY <1>7 DEF vars
  <1> QED BY <1>1, <1>2, <1>3, <1>4, <1>5, <1>6, <1>7 DEF Next, AcquireStep

(* While the keys are watched, those left are usable, and the active among *)
(* them still are.                                                         *)
LEMMA WatchStep ==
  ASSUME TypeInv, WatchedInv, [Next]_vars, Watch \/ UNCHANGED <<keys, usable>>
  PROVE  /\ WatchedInv'
         /\ usable' \subseteq usable
         /\ \A u \in usable' : Active(u) => Active(u)'
  <1>1. WatchedInv' /\ usable' \subseteq usable
    BY DEF WatchedInv, Watch
  <1>2. ASSUME NEW u \in usable', Active(u) PROVE Active(u)'
    <2>1. u \in Keys /\ Usable(keys'[u])
      BY <1>1 DEF WatchedInv
    <2>2. keys[u] \in KeyState /\ keys'[u] \in Methods(keys[u])
      BY <2>1, ByMethods DEF TypeInv, TypeOK
    <2> QED BY <1>2, <2>1, <2>2, ActiveStays DEF Active
  <1> QED BY <1>1, <1>2

(* A search is not disturbed by whoever is not searching.                  *)
LEMMA SearchUndisturbed ==
  ASSUME SearchInv, TypeInv, [Next]_vars, Watch \/ UNCHANGED <<keys, usable>>,
         NEW c \in Callers, UNCHANGED <<pc[c], at[c], cands[c]>>
  PROVE  Search(c)'
  BY WatchStep DEF SearchInv, Search, WatchedInv

LEMMA SearchLeft ==
  ASSUME NEW c \in Callers, pc'[c] \notin ResetPass \cup SecondPass \cup {"raise"}
  PROVE  Search(c)'
  BY DEF Search


(* A step of the search itself.  In the passes that matter, a key goes by  *)
(* only if it is not watched, or is left active, or is collected.          *)
LEMMA OwnSearchStep ==
  ASSUME SearchInv, SafeInv, NEW c \in Callers, GatherStep(c), Watch
  PROVE  Search(c)'
  <1> USE DEF SafeInv, TypeInv, TypeOK
  <1>1. [Next]_vars
    BY DEF Next, AcquireStep
  <1>2. /\ WatchedInv'
        /\ usable' \subseteq usable
        /\ \A u \in usable' : Active(u) => Active(u)'
    BY <1>1, WatchStep DEF SearchInv
  <1>3. \A u \in usable : u \in Keys /\ Usable(keys[u])
    BY DEF SearchInv, WatchedInv
  <1>4. \A u \in Keys : u \in 1..NumKeys
    BY DEF Keys
  <1>5. at[c] \in 1..NumKeys /\ NumKeys \in Nat
    BY ConstantsAreOK DEF Keys, ConstantsOK
  <1>6. Search(c)
    BY DEF SearchInv
  <1>7. CASE ScanStatus(c) \/ ScanSlots(c)
    <2>1. CASE pc'[c] \notin ResetPass
      BY <1>7, <2>1, SearchLeft
      DEF ScanStatus, ReadStatus, ScanSlots, ReadSlots, NextKey, Scanned,
          ResetPass, SecondPass
    <2>2. CASE pc'[c] \in ResetPass
      <3>1. at'[c] = 1
        BY <1>7, <2>2
        DEF ScanStatus, ReadStatus, ScanSlots, ReadSlots, NextKey, Scanned, ResetPass
      <3> QED BY <1>2, <1>3, <1>4, <2>2, <3>1 DEF Search, ResetPass, SecondPass
    <2> QED BY <2>1, <2>2
  <1>8. CASE CheckCooling(c) \/ CheckRateLimited(c) \/ ResetKey(c)
    <2>1. \A u \in usable : u < at[c] => Active(u)
      BY <1>6, <1>8 DEF Search, CheckCooling, CheckRateLimited, ResetKey, ResetPass
    <2>2. CASE NextKey(c, "cool", "rescan")
      <3>1. \A u \in usable' : u <= at[c] => Active(u)'
        <4> SUFFICES ASSUME NEW u \in usable', u <= at[c] PROVE Active(u)'
          OBVIOUS
        <4>1. u \in usable /\ u \in 1..NumKeys /\ Usable(keys[u])
          BY <1>2, <1>3, <1>4
        <4>2. CASE u < at[c]
          BY <1>2, <2>1, <4>1, <4>2
        <4>3. CASE u = at[c] /\ CheckCooling(c)
          <5>1. pc'[c] = "status"
            BY <4>1, <4>3 DEF CheckCooling, Usable
          <5> QED BY <2>2, <5>1 DEF NextKey
        <4>4. CASE u = at[c] /\ CheckRateLimited(c)
          <5>1. pc'[c] # "reset"
            BY <2>2 DEF NextKey
          <5>2. keys[u].status # "RATE_LIMITED"
            BY <4>4, <5>1 DEF CheckRateLimited
          <5> QED BY <1>2, <4>1, <5>2 DEF Usable, Active
        <4>5. CASE u = at[c] /\ ResetKey(c)
          <5>1. keys'[u] = ResetCooldown(keys[u]) /\ keys[u] \in KeyState
            BY <4>1, <4>5 DEF ResetKey, Keys
          <5> QED BY <4>1, <5>1 DEF ResetCooldown, KeyState, Usable, Active
        <4> QED BY <1>5, <1>8, <4>1, <4>2, <4>3, <4>4, <4>5
      <3>2. CASE at[c] < NumKeys
        <4>1. at'[c] = at[c] + 1 /\ pc'[c] = "cool"
          BY <2>2, <3>2 DEF NextKey
        <4> QED BY <1>2, <1>3, <1>4, <1>5, <3>1, <4>1 DEF Search, ResetPass, SecondPass
      <3>3. CASE ~(at[c] < NumKeys)
        <4>1. at'[c] = 1 /\ pc'[c] = "rescan"
          BY <2>2, <3>3 DEF NextKey
        <4> QED BY <1>2, <1>3, <1>4, <1>5, <3>1, <3>3, <4>1 DEF Search, ResetPass, SecondPass
      <3> QED BY <3>2, <3>3
    <2>3. CASE ~NextKey(c, "cool", "rescan")
      <3>1. at' = at /\ pc'[c] \in {"status", "reset"}
        BY <1>8, <2>3 DEF CheckCooling, CheckRateLimited, ResetKey
      <3> QED BY <1>2, <2>1, <3>1 DEF Search, ResetPass, SecondPass
    <2> QED BY <2>2, <2>3
  <1>9. CASE RescanStatus(c) \/ RescanSlots(c)
    <2>1. \A u \in usable : Active(u) /\ (u < at[c] => u \in cands[c])
      BY <1>6, <1>9
      DEF Search, RescanStatus, RescanSlots, ReadStatus, ReadSlots, SecondPass
    <2>2. cands[c] \subseteq cands'[c]
      BY <1>9 DEF RescanStatus, RescanSlots, ReadStatus, ReadSlots
    <2>3. CASE RescanStatus(c) /\ at' = at /\ pc'[c] = "reslots"
      BY <1>2, <2>1, <2>2, <2>3 DEF Search, ResetPass, SecondPass
    <2>4. CASE NextKey(c, "rescan", Scanned(cands'[c], "raise"))
      <3>1. \A u \in usable : u <= at[c] => u \in cands'[c]
        <4> SUFFICES ASSUME NEW u \in usable, u = at[c] PROVE u \in cands'[c]
          BY <1>3, <1>4, <1>5, <2>1, <2>2
        <4>1. keys[u].status = "ACTIVE" /\ ~IsCoolingDown(keys[u]) /\ HasFreeSlot(keys[u])
          BY <1>3, <2>1 DEF Usable, Active
        <4>2. CASE RescanStatus(c)
          <5>1. pc'[c] = "reslots"
            BY <4>1, <4>2 DEF RescanStatus, ReadStatus
          <5> QED BY <2>4, <5>1 DEF NextKey, Scanned
        <4>3. CASE RescanSlots(c)
          BY <4>1, <4>3 DEF RescanSlots, ReadSlots, Retired
        <4> QED BY <1>9, <4>2, <4>3
      <3>2. CASE at[c] < NumKeys
        <4>1. at'[c] = at[c] + 1 /\ pc'[c] = "rescan"
          BY <2>4, <3>2 DEF NextKey
        <4> QED BY <1>2, <1>3, <1>4, <1>5, <2>1, <3>1, <4>1 DEF Search, ResetPass, SecondPass
      <3>3. CASE ~(at[c] < NumKeys)
        <4>1. pc'[c] = Scanned(cands'[c], "raise")
          BY <2>4, <3>3 DEF NextKey
        <4>2. \A u \in usable : u \in cands'[c]
          BY <1>3, <1>4, <1>5, <3>1, <3>3
        <4> QED BY <1>2, <4>1, <4>2 DEF Search, Scanned, ResetPass, SecondPass
      <3> QED BY <3>2, <3>3
    <2>5. \/ at' = at /\ pc'[c] = "reslots" /\ RescanStatus(c)
          \/ NextKey(c, "rescan", Scanned(cands'[c], "raise"))
      <3>1. CASE RescanStatus(c)
        <4>1. cands' = cands
          BY <3>1 DEF RescanStatus, ReadStatus
        <4> QED BY <3>1, <4>1 DEF RescanStatus, ReadStatus
      <3>2. CASE RescanSlots(c)
        BY <3>2 DEF RescanSlots, ReadSlots
      <3> QED BY <1>9, <3>1, <3>2
    <2> QED BY <2>3, <2>4, <2>5
  <1> QED BY <1>7, <1>8, <1>9 DEF GatherStep

(* What a caller does outside a search leaves the searches of others as    *)
(* they are; one at most searches, as it holds the lock.                   *)
LEMMA OthersUntouched ==
  ASSUME TypeInv, NEW c \in Callers,
         \/ BeginAcquire(c) \/ AcquireStep(c) \/ Outcome(c) \/ BreakerStep(c)
  PROVE  \A d \in Callers \ {c} : UNCHANGED <<pc[d], at[d], cands[d]>>
  <1> USE DEF TypeInv, TypeOK
  <1>1. CASE BeginAcquire(c) \/ RaiseNoAvailable(c) \/ SelectKey(c)
    BY <1>1 DEF BeginAcquire, RaiseNoAvailable, SelectKey
  <1>2. CASE GatherStep(c)
    BY <1>2
    DEF GatherStep, ScanStatus, ScanSlots, RescanStatus, RescanSlots, ReadStatus,
        ReadSlots, CheckCooling, CheckRateLimited, ResetKey, NextKey
  <1>3. CASE Outcome(c) \/ BreakerStep(c)
    BY <1>3
    DEF Outcome, ReleaseKey, MarkRateLimited, MarkFailure, DisableKey, AbandonCall,
        BreakerStep, CheckThreshold, TripBreaker, LeaveKey
  <1> QED BY <1>1, <1>2, <1>3 DEF AcquireStep

LEMMA SearchStep ==
  ASSUME SafeInv, SearchInv, [HNext]_<<vars, hvars>>
  PROVE  SearchInv'
  <1> USE DEF SafeInv, TypeInv, TypeOK
  <1>1. [Next]_vars
    BY HistoryStep
  <1>2. ASSUME NEW c \in Callers, HBegin(c) PROVE SearchInv'
    <2>1. WatchedInv'
      BY <1>2 DEF HBegin, BeginAcquire, WatchedInv
    <2>2. ASSUME NEW d \in Callers PROVE Search(d)'
      <3>1. pc'[d] \notin ResetPass \cup SecondPass \cup {"raise"}
        <4>1. CASE d = c
          BY <1>2, <4>1 DEF HBegin, BeginAcquire, ResetPass, SecondPass
        <4>2. CASE d # c
          <5>1. pc'[d] = pc[d] /\ lock = NoCaller
            BY <1>2, <4>2 DEF HBegin, BeginAcquire
          <5>2. pc[d] \notin Acquiring
            BY <5>1, ConstantsAreOK DEF LockInv, ConstantsOK
          <5> QED BY <5>1, <5>2 DEF Acquiring
        <4> QED BY <4>1, <4>2
      <3> QED BY <3>1, SearchLeft
    <2> QED BY <2>1, <2>2 DEF SearchInv
  <1>3. ASSUME NEW c \in Callers, Watch, GatherStep(c) PROVE SearchInv'
    <2>1. ASSUME NEW d \in Callers PROVE Search(d)'
      BY <1>1, <1>3, OwnSearchStep, OthersUntouched, SearchUndisturbed DEF AcquireStep
    <2> QED BY <1>1, <1>3, <2>1, WatchStep DEF SearchInv
  <1>4. ASSUME NEW c \in Callers, Watch,
               \/ SelectKey(c) \/ RaiseNoAvailable(c) \/ Outcome(c) \/ BreakerStep(c)
        PROVE  SearchInv'
    <2>1. ASSUME NEW d \in Callers PROVE Search(d)'
      <3>1. CASE d = c
        <4>1. pc'[c] \in {"calling", "idle", "check", "trip"}
          BY <1>4
          DEF SelectKey, RaiseNoAvailable, Outcome, ReleaseKey, MarkRateLimited,
              MarkFailure, DisableKey, AbandonCall, BreakerStep, CheckThreshold,
              TripBreaker, LeaveKey
        <4> QED BY <3>1, <4>1, SearchLeft DEF ResetPass, SecondPass
      <3>2. CASE d # c
        BY <1>1, <1>4, <3>2, OthersUntouched, SearchUndisturbed DEF AcquireStep
      <3> QED BY <3>1, <3>2
    <2> QED BY <1>1, <1>4, <2>1, WatchStep DEF SearchInv
  <1>5. CASE HTick
    <2>1. ASSUME NEW d \in Callers PROVE Search(d)'
      BY <1>1, <1>5, SearchUndisturbed DEF HTick, Tick
    <2> QED BY <1>1, <1>5, <2>1, WatchStep DEF HTick, SearchInv
  <1>6. CASE UNCHANGED <<vars, hvars>>
    <2>1. ASSUME NEW d \in Callers PROVE Search(d)'
      BY <1>1, <1>6, SearchUndisturbed DEF vars, hvars
    <2> QED BY <1>1, <1>6, <2>1, WatchStep DEF vars, hvars, SearchInv
  <1> QED
    BY <1>2, <1>3, <1>4, <1>5, <1>6
    DEF HNext, HRateLimited, HFailure, HRelease, HOther, AcquireStep, Outcome

(* NoAvailableAPIKeyError is honest: whoever is about to raise it has left *)
(* no key behind that was usable all the time it searched, whatever the    *)
(* outcomes of other calls changed meanwhile (acquire_key,                 *)
(* _gather_candidates).                                                    *)
THEOREM ExhaustionIsReal == HSpec => []NoFalseExhaustion
  <1>1. SearchInv => NoFalseExhaustion
    BY DEF SearchInv, Search, NoFalseExhaustion
  <1>2. HSpec => []SafeInv
    BY HistoryIsScheduler, SafeInit, SafeStep, PTL DEF Spec
  <1> QED BY SearchInit, SearchStep, <1>1, <1>2, PTL DEF HSpec

=============================================================================
