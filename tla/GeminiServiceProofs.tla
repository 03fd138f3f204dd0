------------------------ MODULE GeminiServiceProofs ------------------------
(***************************************************************************)
(* GeminiService is no client of the scheduler as RequestScheduler allows: *)
(* a stream that has failed gives its slot back a second time.  Here it is *)
(* proved what holds nevertheless, for any number of requests, keys and    *)
(* retries: no stream keeps a slot, and a key has no more calls above its  *)
(* cap than streams have failed on it.                                     *)
(***************************************************************************)
EXTENDS GeminiService, RequestSchedulerProofs

Booked == {"returned"} \cup Failures

(* How far a request is, by what its caller does and by what it will get.  *)
Place(c) ==
  /\ pc[c] \in Acquiring \cup {"calling"} => stage[c] = "attempt"
  /\ pc[c] = "calling" => key[c] = held[c]
  /\ stage[c] \in {"new", "attempt"} => result[c] = "none"
  /\ stage[c] \in {"account", "session"} => kind[c] = "call" /\ result[c] \in Booked
  /\ stage[c] = "finally" =>
       kind[c] = "stream" /\ key[c] \in Keys /\ result[c] \in {"broken", "refused"}

ServiceTypes ==
  /\ stage \in [Callers -> Stage]
  /\ kind \in [Callers -> Kind]
  /\ key \in [Callers -> Keys \cup {NoKey}]
  /\ result \in [Callers -> Result]
  /\ usage \in [succeeded : Nat, failed : Nat, retried : Nat]

PlaceInv == TypeInv /\ ServiceTypes /\ \A c \in Callers : Place(c)

LEMMA PlaceInit == RInit => PlaceInv
  <1> SUFFICES ASSUME RInit PROVE PlaceInv
    OBVIOUS
  <1>1. TypeInv
    BY TypeInit DEF RInit
  <1>2. ServiceTypes
    BY DEF RInit, ServiceTypes, Stage, Kind, Result, Keys, NoKey, NoTotals
  <1>3. \A c \in Callers : Place(c)
    BY DEF RInit, Init, Place, Acquiring, FirstPass, ResetPass, SecondPass
  <1> QED BY <1>1, <1>2, <1>3 DEF PlaceInv

-----------------------------------------------------------------------------

(* Only two steps are none of the scheduler's.                             *)
LEMMA ServiceSteps ==
  [GeminiNext]_allvars
  => [Next]_vars \/ \E c \in Callers : StreamDenied(c) \/ FinalRelease(c)
  <1> SUFFICES ASSUME [GeminiNext]_allvars,
                      \A c \in Callers : ~StreamDenied(c) /\ ~FinalRelease(c)
               PROVE  [Next]_vars
    OBVIOUS
  <1>1. ASSUME NEW c \in Callers, Progress(c) PROVE [Next]_vars
    BY <1>1
    DEF Progress, ChooseKey, LoopStep, ResolveSession, StartAttempt, Gather, NoKeyLeft,
        Breaker, RecordUsage, RecordSession, Next, AcquireStep
  <1>2. ASSUME NEW c \in Callers, Answer(c) \/ CallCancelled(c) PROVE [Next]_vars
    BY <1>2
    DEF Answer, CallAnswer, CallReturns, CallFails, CallKeyDisabled, CallDenied,
        StreamEnds, StreamFails, CallCancelled, Outcome, Next
  <1>3. CASE TimePasses \/ SessionExpires
    BY <1>3 DEF TimePasses, SessionExpires, Next
  <1>4. CASE UNCHANGED allvars
    BY <1>4 DEF allvars
  <1> QED BY <1>1, <1>2, <1>3, <1>4 DEF GeminiNext

LEMMA SchedulerTypesStep ==
  ASSUME PlaceInv, [GeminiNext]_allvars
  PROVE  TypeInv'
  <1> USE DEF PlaceInv, TypeInv, TypeOK, HeldOK
  <1>1. ASSUME NEW c \in Callers, StreamDenied(c) PROVE TypeInv'
    <2>1. held[c] \in Keys /\ MarkDisabled(keys[held[c]]) \in KeyState
      BY <1>1, KeyMethods DEF StreamDenied
    <2>2. keys' \in [Keys -> KeyState]
      BY <1>1, <2>1 DEF StreamDenied
    <2>3. pc' \in [Callers -> Location] /\ held' \in [Callers -> Keys \cup {NoKey}]
      BY <1>1 DEF StreamDenied, LeaveKey, Location
    <2>4. HeldOK'
      BY <1>1 DEF StreamDenied, LeaveKey
    <2> QED BY <1>1, <2>2, <2>3, <2>4 DEF StreamDenied
  <1>2. ASSUME NEW c \in Callers, FinalRelease(c) PROVE TypeInv'
    <2>1. key[c] \in Keys
      BY <1>2 DEF FinalRelease, Place
    <2>2. RecordRequestEnd(keys[key[c]]) \in KeyState
      BY <2>1, KeyMethods
    <2>3. keys' \in [Keys -> KeyState]
      BY <1>2, <2>2 DEF FinalRelease
    <2> QED BY <1>2, <2>3 DEF FinalRelease
  <1> QED BY <1>1, <1>2, ServiceSteps, TypeStep

-----------------------------------------------------------------------------

(* A step of one request leaves the others where they are.                 *)
Alone(c) ==
  \A d \in Callers \ {c} :
    /\ stage'[d] = stage[d] /\ kind'[d] = kind[d] /\ key'[d] = key[d]
    /\ result'[d] = result[d] /\ pc'[d] = pc[d] /\ held'[d] = held[d]

(* A request comes out of its call: what becomes of it.                    *)
LEMMA Outcomes ==
  ASSUME PlaceInv, NEW c \in Callers, Answer(c) \/ CallCancelled(c)
  PROVE  /\ Alone(c)
         /\ pc[c] = "calling" /\ stage[c] = "attempt" /\ pc'[c] \in {"idle", "check"}
         /\ UNCHANGED <<kind, key, books>>
         /\ \/ stage'[c] = "attempt" /\ result'[c] = "none"
            \/ stage'[c] = "account" /\ kind[c] = "call" /\ result'[c] \in Booked
            \/ /\ stage'[c] = "finally" /\ kind[c] = "stream"
               /\ result'[c] = IF StreamDenied(c) THEN "refused" ELSE "broken"
            \/ /\ stage'[c] = "done" /\ result'[c] \in Result \ {"broken"}
               /\ kind[c] = "call" => result'[c] \notin Booked
  <1> USE DEF PlaceInv, TypeInv, TypeOK, ServiceTypes
  <1>1. /\ pc[c] = "calling" /\ pc'[c] \in {"idle", "check"}
        /\ \A d \in Callers \ {c} : pc'[d] = pc[d] /\ held'[d] = held[d]
    BY DEF Answer, CallAnswer, CallReturns, CallFails, CallKeyDisabled, CallDenied,
           StreamEnds, StreamFails, StreamDenied, CallCancelled, ReleaseKey,
           MarkRateLimited, MarkFailure, DisableKey, AbandonCall, LeaveKey
  <1>2. stage[c] = "attempt" /\ result[c] = "none"
    BY <1>1 DEF Place
  <1>3. /\ {"returned", "denied", "exhausted"} \subseteq Booked
        /\ {"disabled", "abandoned"} \cap Booked = {}
        /\ {"disabled", "abandoned", "returned"} \subseteq Result \ {"broken"}
    BY DEF Booked, Failures, Result
  <1>4. ASSUME NEW res, Finish(c, res)
        PROVE  /\ \A d \in Callers \ {c} : stage'[d] = stage[d] /\ result'[d] = result[d]
               /\ UNCHANGED <<kind, key, books>>
               /\ stage'[c] = "done" /\ result'[c] = res
    BY <1>4 DEF Finish
  <1>5. ASSUME NEW res, Conclude(c, res)
        PROVE  /\ \A d \in Callers \ {c} : stage'[d] = stage[d] /\ result'[d] = result[d]
               /\ UNCHANGED <<kind, key, books>>
               /\ stage'[c] = "account" /\ result'[c] = res
    BY <1>5 DEF Conclude
  <1>6. ASSUME RetryOrGiveUp(c)
        PROVE  /\ \A d \in Callers \ {c} : stage'[d] = stage[d] /\ result'[d] = result[d]
               /\ UNCHANGED <<kind, key, books>>
               /\ \/ stage'[c] = "attempt" /\ result'[c] = "none"
                  \/ stage'[c] = "account" /\ result'[c] = "exhausted"
    BY <1>2, <1>5, <1>6 DEF RetryOrGiveUp
  <1>7. ASSUME NEW res, Reraise(c, res)
        PROVE  /\ \A d \in Callers \ {c} : stage'[d] = stage[d] /\ result'[d] = result[d]
               /\ UNCHANGED <<kind, key, books>>
               /\ stage'[c] = "finally" /\ result'[c] = res
    BY <1>7 DEF Reraise
  <1>a. StreamFails(c) => ~StreamDenied(c)
    BY DEF StreamFails, StreamDenied, Reraise, ServiceTypes
  <1>8. \/ kind[c] = "call" /\ Conclude(c, "returned")
        \/ kind[c] = "call" /\ RetryOrGiveUp(c)
        \/ kind[c] = "call" /\ Conclude(c, "denied")
        \/ kind[c] = "call" /\ \E res \in {"disabled", "abandoned"} : Finish(c, res)
        \/ kind[c] = "stream" /\ \E res \in {"returned", "abandoned"} : Finish(c, res)
        \/ kind[c] = "stream" /\ Reraise(c, "broken") /\ ~StreamDenied(c)
        \/ kind[c] = "stream" /\ Reraise(c, "refused") /\ StreamDenied(c)
    BY <1>a DEF Answer, CallAnswer, CallReturns, CallFails, CallKeyDisabled, CallDenied,
           StreamEnds, StreamFails, StreamDenied, CallCancelled
  <1>9. CASE kind[c] = "call" /\ Conclude(c, "returned")
    BY <1>1, <1>2, <1>3, <1>5, <1>9 DEF Alone
  <1>10. CASE kind[c] = "call" /\ RetryOrGiveUp(c)
    BY <1>1, <1>2, <1>3, <1>6, <1>10 DEF Alone
  <1>11. CASE kind[c] = "call" /\ Conclude(c, "denied")
    BY <1>1, <1>2, <1>3, <1>5, <1>11 DEF Alone
  <1>12. CASE kind[c] = "call" /\ \E res \in {"disabled", "abandoned"} : Finish(c, res)
    <2>1. PICK res \in {"disabled", "abandoned"} : Finish(c, res)
      BY <1>12
    <2> QED BY <1>1, <1>2, <1>3, <1>4, <2>1 DEF Alone
  <1>13. CASE kind[c] = "stream" /\ \E res \in {"returned", "abandoned"} : Finish(c, res)
    <2>1. PICK res \in {"returned", "abandoned"} : Finish(c, res)
      BY <1>13
    <2> QED BY <1>1, <1>2, <1>3, <1>4, <1>13, <2>1 DEF Alone
  <1>14. CASE kind[c] = "stream" /\ Reraise(c, "broken") /\ ~StreamDenied(c)
    BY <1>1, <1>2, <1>7, <1>14 DEF Alone
  <1>15. CASE kind[c] = "stream" /\ Reraise(c, "refused") /\ StreamDenied(c)
    BY <1>1, <1>2, <1>7, <1>15 DEF Alone
  <1> QED BY <1>8, <1>9, <1>10, <1>11, <1>12, <1>13, <1>14, <1>15

(* The steps of the loop that come before and after the call.              *)
LEMMA LoopMoves ==
  ASSUME PlaceInv, NEW c \in Callers, Progress(c)
  PROVE  /\ Alone(c)
         /\ \/ /\ stage[c] = "new"
               /\ pc'[c] = pc[c] /\ kind'[c] \in Kind /\ key'[c] = key[c]
               /\ \/ stage'[c] = "attempt" /\ result'[c] = "none"
                  \/ stage'[c] = "done" /\ result'[c] = "expired"
            \/ /\ stage[c] = "attempt" /\ stage'[c] = "attempt"
               /\ pc'[c] \in Acquiring
               /\ UNCHANGED <<kind, key, result>>
            \/ /\ stage[c] = "attempt" /\ stage'[c] = "attempt"
               /\ pc'[c] = "calling" /\ key'[c] = held'[c] /\ key'[c] \in Keys
               /\ UNCHANGED <<kind, result>>
            \/ /\ stage[c] = "attempt" /\ stage'[c] = "done"
               /\ pc'[c] = "idle" /\ result'[c] = "unavailable"
               /\ UNCHANGED <<kind, key>>
            \/ /\ pc[c] \in {"check", "trip"} /\ pc'[c] \in {"trip", "idle"}
               /\ UNCHANGED <<stage, kind, key, result>>
            \/ /\ stage[c] \in {"account", "session", "finally"}
               /\ stage'[c] \in {"session", "done"}
               /\ stage'[c] = "session" => stage[c] = "account"
               /\ UNCHANGED <<kind, key, result, pc, held>>
  <1> USE DEF PlaceInv, TypeInv, TypeOK, ServiceTypes
  <1>1. CASE ResolveSession(c)
    <2>1. stage[c] = "new" /\ result[c] = "none" /\ UNCHANGED <<key, pc, held>>
      BY <1>1 DEF ResolveSession, Place, vars
    <2>2. /\ \A d \in Callers \ {c} :
               stage'[d] = stage[d] /\ kind'[d] = kind[d] /\ result'[d] = result[d]
          /\ kind'[c] \in Kind
          /\ \/ stage'[c] = "attempt" /\ result'[c] = result[c]
             \/ stage'[c] = "done" /\ result'[c] = "expired"
      BY <1>1 DEF ResolveSession
    <2> QED BY <2>1, <2>2 DEF Alone
  <1>2. CASE StartAttempt(c)
    <2>1. "scan" \in Acquiring
      BY DEF Acquiring, FirstPass
    <2> QED BY <1>2, <2>1 DEF StartAttempt, BeginAcquire, rvars, Alone
  <1>3. CASE Gather(c)
    <2>1. /\ pc[c] \in Acquiring /\ pc'[c] \in Acquiring /\ held' = held
          /\ \A d \in Callers \ {c} : pc'[d] = pc[d]
      BY <1>3, GatherLocation, GatherEffect DEF Gather
    <2>2. UNCHANGED <<stage, kind, key, result>>
      BY <1>3 DEF Gather, rvars
    <2>3. stage[c] = "attempt"
      BY <2>1 DEF Place
    <2> QED BY <2>1, <2>2, <2>3 DEF Alone
  <1>4. CASE ChooseKey(c)
    <2>1. PICK k \in cands[c] : held' = [held EXCEPT ![c] = k]
      BY <1>4 DEF ChooseKey, SelectKey
    <2>2. /\ pc[c] = "select" /\ pc' = [pc EXCEPT ![c] = "calling"]
          /\ key' = [key EXCEPT ![c] = held'[c]]
          /\ UNCHANGED <<stage, kind, result>>
      BY <1>4 DEF ChooseKey, SelectKey
    <2>3. stage[c] = "attempt"
      BY <2>2 DEF Place, Acquiring
    <2>4. held'[c] \in Keys
      BY <2>1
    <2> QED BY <2>1, <2>2, <2>3, <2>4 DEF Alone
  <1>5. CASE NoKeyLeft(c)
    <2>1. pc[c] = "raise" /\ pc' = [pc EXCEPT ![c] = "idle"] /\ held' = held
      BY <1>5 DEF NoKeyLeft, RaiseNoAvailable
    <2>2. stage[c] = "attempt"
      BY <2>1 DEF Place, Acquiring
    <2> QED BY <1>5, <2>1, <2>2 DEF NoKeyLeft, Finish, Alone
  <1>6. CASE Breaker(c)
    BY <1>6 DEF Breaker, BreakerStep, CheckThreshold, TripBreaker, LeaveKey, rvars, Alone
  <1>7. CASE RecordUsage(c) \/ RecordSession(c) \/ FinalRelease(c)
    BY <1>7 DEF RecordUsage, RecordSession, FinalRelease, vars, Alone
  <1> QED BY <1>1, <1>2, <1>3, <1>4, <1>5, <1>6, <1>7 DEF Progress, LoopStep

(* The usage totals stay totals, and what one record does to them.         *)
LEMMA UsageCounting ==
  ASSUME ServiceTypes, NEW c \in Callers
  PROVE  /\ Counted(usage, c) \in [succeeded : Nat, failed : Nat, retried : Nat]
         /\ result[c] = "returned" =>
              /\ Counted(usage, c).succeeded = usage.succeeded + 1
              /\ Counted(usage, c).failed = usage.failed
         /\ result[c] # "returned" =>
              /\ Counted(usage, c).succeeded = usage.succeeded
              /\ Counted(usage, c).failed = usage.failed + 1
  <1> DEFINE s1 == IF result[c] = "returned" THEN usage.succeeded + 1 ELSE usage.succeeded
             f1 == IF result[c] = "returned" THEN usage.failed ELSE usage.failed + 1
             r1 == IF Retried(c) THEN usage.retried + 1 ELSE usage.retried
  <1>1. usage \in [succeeded : Nat, failed : Nat, retried : Nat]
    BY DEF ServiceTypes
  <1>2. s1 \in Nat /\ f1 \in Nat /\ r1 \in Nat
    BY <1>1
  <1>3. Counted(usage, c) = [usage EXCEPT !.succeeded = s1, !.failed = f1, !.retried = r1]
    BY DEF Counted
  <1>4. /\ Counted(usage, c) \in [succeeded : Nat, failed : Nat, retried : Nat]
        /\ Counted(usage, c).succeeded = s1 /\ Counted(usage, c).failed = f1
    <2> HIDE DEF s1, f1, r1
    <2> QED BY <1>1, <1>2, <1>3
  <1> QED BY <1>4

LEMMA ServiceTypesStep ==
  ASSUME TypeOK, ServiceTypes, NEW c \in Callers,
         Answer(c) \/ CallCancelled(c) \/ Progress(c)
  PROVE  ServiceTypes'
  <1> USE DEF ServiceTypes
  <1>1. /\ {"returned", "denied", "exhausted", "disabled", "abandoned", "broken",
            "refused", "unavailable", "expired"} \subseteq Result
        /\ {"attempt", "account", "session", "finally", "done"} \subseteq Stage
    BY DEF Result, Stage
  <1>2. ASSUME NEW res \in Result, NEW st \in Stage,
               stage' = [stage EXCEPT ![c] = st], result' = [result EXCEPT ![c] = res],
               UNCHANGED <<kind, key, usage>>
        PROVE  ServiceTypes'
    BY <1>2
  <1>3. ASSUME UNCHANGED <<stage, kind, key, result, usage>> PROVE ServiceTypes'
    BY <1>3
  <1>4. ASSUME NEW res \in Result, Finish(c, res) \/ Conclude(c, res) PROVE ServiceTypes'
    BY <1>1, <1>2, <1>4 DEF Finish, Conclude, books
  <1>5. ASSUME RetryOrGiveUp(c) PROVE ServiceTypes'
    BY <1>1, <1>3, <1>4, <1>5 DEF RetryOrGiveUp, books
  <1>6. ASSUME NEW res \in Result, Reraise(c, res) PROVE ServiceTypes'
    BY <1>1, <1>2, <1>6 DEF Reraise, books
  <1>7. CASE Answer(c) \/ CallCancelled(c)
    BY <1>1, <1>4, <1>5, <1>6, <1>7
    DEF Answer, CallAnswer, CallReturns, CallFails, CallKeyDisabled, CallDenied,
        StreamEnds, StreamFails, StreamDenied, CallCancelled
  <1>8. CASE ResolveSession(c)
    <2>1. kind' \in [Callers -> Kind]
      BY <1>8 DEF ResolveSession
    <2>2. stage' \in [Callers -> Stage] /\ result' \in [Callers -> Result]
      BY <1>1, <1>8 DEF ResolveSession
    <2> QED BY <1>8, <2>1, <2>2 DEF ResolveSession
  <1>9. CASE StartAttempt(c) \/ Gather(c) \/ Breaker(c)
    BY <1>3, <1>9 DEF StartAttempt, Gather, Breaker, rvars
  <1>10. CASE ChooseKey(c)
    <2>1. key' \in [Callers -> Keys \cup {NoKey}]
      BY <1>10 DEF ChooseKey, SelectKey, TypeOK
    <2> QED BY <1>10, <2>1 DEF ChooseKey, books
  <1>11. CASE NoKeyLeft(c)
    BY <1>1, <1>4, <1>11 DEF NoKeyLeft
  <1>12. CASE RecordUsage(c)
    <2>1. usage' \in [succeeded : Nat, failed : Nat, retried : Nat]
      BY <1>12, UsageCounting DEF RecordUsage
    <2>2. stage' \in [Callers -> Stage]
      BY <1>1, <1>12 DEF RecordUsage
    <2> QED BY <1>12, <2>1, <2>2 DEF RecordUsage
  <1>13. CASE RecordSession(c) \/ FinalRelease(c)
    <2>1. stage' \in [Callers -> Stage]
      BY <1>1, <1>13 DEF RecordSession, FinalRelease
    <2>2. UNCHANGED <<kind, key, result, usage>>
      BY <1>13 DEF RecordSession, FinalRelease, books
    <2> QED BY <2>1, <2>2
  <1> QED BY <1>7, <1>8, <1>9, <1>10, <1>11, <1>12, <1>13 DEF Progress, LoopStep

LEMMA PlaceStep == PlaceInv /\ [GeminiNext]_allvars => PlaceInv'
  <1> SUFFICES ASSUME PlaceInv, [GeminiNext]_allvars PROVE PlaceInv'
    OBVIOUS
  <1>a. /\ "calling" \notin Acquiring /\ "idle" \notin Acquiring
        /\ "check" \notin Acquiring /\ "trip" \notin Acquiring
    BY DEF Acquiring, FirstPass, ResetPass, SecondPass
  <1>b. TypeInv'
    BY SchedulerTypesStep
  <1>c. TypeInv /\ ServiceTypes /\ \A d \in Callers : Place(d)
    BY DEF PlaceInv
  <1>1. ASSUME NEW c \in Callers, Answer(c) \/ CallCancelled(c)
        PROVE  \A d \in Callers : Place(d)'
    <2>1. \A d \in Callers \ {c} : Place(d)'
      BY <1>c, <1>1, Outcomes DEF Alone, Place
    <2>2. key[c] \in Keys /\ key'[c] = key[c]
      BY <1>c, <1>1, Outcomes DEF Place, TypeInv, HeldOK
    <2>3. Place(c)'
      BY <1>a, <1>1, <2>2, Outcomes DEF Place
    <2> QED BY <2>1, <2>3
  <1>2. ASSUME NEW c \in Callers, Progress(c)
        PROVE  \A d \in Callers : Place(d)'
    <2>1. \A d \in Callers \ {c} : Place(d)'
      BY <1>c, <1>2, LoopMoves DEF Alone, Place
    <2>2. Place(c)'
      BY <1>a, <1>c, <1>2, LoopMoves DEF Place
    <2> QED BY <2>1, <2>2
  <1>3. CASE TimePasses \/ SessionExpires \/ UNCHANGED allvars
    <2>1. UNCHANGED <<stage, kind, key, result, usage, pc, held>>
      BY <1>3 DEF TimePasses, SessionExpires, Tick, allvars, vars, rvars
    <2>2. \A d \in Callers : Place(d)'
      BY <1>c, <2>1 DEF Place
    <2>3. ServiceTypes'
      BY <1>c, <2>1 DEF ServiceTypes
    <2> QED BY <1>b, <2>2, <2>3 DEF PlaceInv
  <1>4. ASSUME NEW c \in Callers, Answer(c) \/ CallCancelled(c) \/ Progress(c)
        PROVE  ServiceTypes'
    BY <1>c, <1>4, ServiceTypesStep DEF TypeInv
  <1> QED BY <1>b, <1>1, <1>2, <1>3, <1>4 DEF GeminiNext, PlaceInv

LEMMA PlaceAlways == GeminiSpec => []PlaceInv
  BY PlaceInit, PlaceStep, PTL DEF GeminiSpec

-----------------------------------------------------------------------------

(* The failed streams that have yet to release key k.                      *)
Releasing(k) == {c \in Callers : stage[c] = "finally" /\ key[c] = k}

(* active_requests may be too small, as a failed stream gives its slot     *)
(* back twice; it is never too large.                                      *)
SlotBound ==
  \A k \in Keys :
    keys[k].active_requests
      <= Cardinality(InFlight(k)) + lost[k] + Cardinality(Releasing(k))

LEMMA ReleasingFinite ==
  ASSUME NEW k
  PROVE  IsFiniteSet(Releasing(k)) /\ Cardinality(Releasing(k)) \in Nat
  <1>1. Releasing(k) \subseteq Callers
    BY DEF Releasing
  <1> QED BY <1>1, CallersAssumption, FS_Subset, FS_CardinalityType

(* Steps of the scheduler's own add no slot to those accounted for.        *)
LEMMA SchedulerBound ==
  ASSUME TypeInv, TypeInv', [Next]_vars, NEW k \in Keys, NEW n \in Nat, NEW m \in Nat,
         n <= m,
         keys[k].active_requests <= Cardinality(InFlight(k)) + lost[k] + n
  PROVE  keys'[k].active_requests <= Cardinality(InFlight(k)') + lost'[k] + m
  <1> DEFINE Bound == keys'[k].active_requests <= Cardinality(InFlight(k)') + lost'[k] + m
  <1>1. /\ keys[k].active_requests \in Nat /\ lost[k] \in Nat
        /\ keys'[k].active_requests \in Nat /\ lost'[k] \in Nat
        /\ Cardinality(InFlight(k)) \in Nat /\ IsFiniteSet(InFlight(k))
    BY FlightFinite DEF TypeInv, TypeOK, KeyState
  <1>2. CASE Quiet
    <2>1. InFlight(k)' = InFlight(k)
      BY <1>2 DEF Quiet, InFlight, Calling
    <2> QED BY <1>1, <1>2, <2>1 DEF Quiet
  <1>3. ASSUME NEW c \in Callers, NEW l \in Keys, Starts(c, l) PROVE Bound
    <2>1. CASE k = l
      <3>1. c \notin InFlight(k) /\ InFlight(k)' = InFlight(k) \cup {c}
        BY <1>3, <2>1 DEF Starts, InFlight, Calling, OthersStay
      <3>2. Cardinality(InFlight(k)') = Cardinality(InFlight(k)) + 1
        BY <1>1, <3>1, FS_AddElement
      <3>3. keys'[k].active_requests = keys[k].active_requests + 1
        BY <1>3, <2>1, KeySlots DEF Starts, TypeInv, TypeOK
      <3> QED BY <1>1, <1>3, <3>2, <3>3 DEF Starts
    <2>2. CASE k # l
      <3>1. InFlight(k)' = InFlight(k)
        BY <1>3, <2>2 DEF Starts, InFlight, Calling, OthersStay
      <3>2. keys'[k] = keys[k]
        BY <1>3, <2>2 DEF Starts, TypeInv, TypeOK
      <3> QED BY <1>1, <1>3, <3>1, <3>2 DEF Starts
    <2> QED BY <2>1, <2>2
  <1>4. ASSUME NEW c \in Callers, NEW l \in Keys, Ends(c, l) \/ Loses(c, l) PROVE Bound
    <2>1. CASE k = l
      <3>1. c \in InFlight(k) /\ InFlight(k)' = InFlight(k) \ {c}
        BY <1>4, <2>1 DEF Ends, Loses, InFlight, Calling, OthersStay
      <3>2. Cardinality(InFlight(k)') = Cardinality(InFlight(k)) - 1
        BY <1>1, <3>1, FS_RemoveElement
      <3>3. Cardinality(InFlight(k)) > 0
        BY <1>1, <3>1, FS_EmptySet
      <3>4. CASE Ends(c, l)
        <4>1. keys'[k].active_requests = Decrement(keys[k].active_requests)
          BY <2>1, <3>4 DEF Ends, TypeInv, TypeOK
        <4> QED BY <1>1, <3>2, <3>3, <3>4, <4>1 DEF Ends, Decrement
      <3>5. CASE Loses(c, l)
        <4>1. lost'[k] = lost[k] + 1
          BY <2>1, <3>5 DEF Loses, TypeInv, TypeOK
        <4> QED BY <1>1, <3>2, <3>3, <3>5, <4>1 DEF Loses
      <3> QED BY <1>4, <3>4, <3>5
    <2>2. CASE k # l
      <3>1. InFlight(k)' = InFlight(k)
        BY <1>4, <2>2 DEF Ends, Loses, InFlight, Calling, OthersStay
      <3>2. keys'[k].active_requests = keys[k].active_requests /\ lost'[k] = lost[k]
        BY <1>4, <2>2 DEF Ends, Loses, TypeInv, TypeOK
      <3> QED BY <1>1, <3>1, <3>2
    <2> QED BY <2>1, <2>2
  <1>5. \A c \in Callers : cands[c] \subseteq Keys
    BY DEF TypeInv, TypeOK
  <1> QED BY <1>2, <1>3, <1>4, <1>5, SlotSteps

(* The final clause is the only step that takes a stream off the list.     *)
LEMMA FinallyStays ==
  ASSUME PlaceInv, NEW c \in Callers, Progress(c), ~FinalRelease(c), stage[c] = "finally"
  PROVE  UNCHANGED <<stage, key, result>>
  <1>1. CASE ResolveSession(c) \/ StartAttempt(c) \/ RecordUsage(c) \/ RecordSession(c)
    BY <1>1 DEF ResolveSession, StartAttempt, RecordUsage, RecordSession
  <1>2. CASE Gather(c) \/ Breaker(c)
    BY <1>2 DEF Gather, Breaker, rvars
  <1>3. CASE NoKeyLeft(c) \/ ChooseKey(c)
    <2>1. pc[c] \in {"raise", "select"}
      BY <1>3 DEF NoKeyLeft, RaiseNoAvailable, ChooseKey, SelectKey
    <2>2. pc[c] \in Acquiring
      BY <2>1 DEF Acquiring
    <2> QED BY <2>2 DEF PlaceInv, Place
  <1> QED BY <1>1, <1>2, <1>3 DEF Progress, LoopStep

LEMMA ReleasingGrows ==
  ASSUME PlaceInv, [GeminiNext]_allvars, \A c \in Callers : ~FinalRelease(c), NEW k
  PROVE  Releasing(k) \subseteq Releasing(k)'
  <1>1. ASSUME NEW c \in Callers, Answer(c) \/ CallCancelled(c)
        PROVE  Releasing(k) \subseteq Releasing(k)'
    BY <1>1, Outcomes DEF Alone, Releasing
  <1>2. ASSUME NEW c \in Callers, Progress(c)
        PROVE  Releasing(k) \subseteq Releasing(k)'
    BY <1>2, FinallyStays, LoopMoves DEF Alone, Releasing
  <1>3. CASE TimePasses \/ SessionExpires \/ UNCHANGED allvars
    BY <1>3 DEF TimePasses, SessionExpires, Tick, allvars, rvars, Releasing
  <1> QED BY <1>1, <1>2, <1>3 DEF GeminiNext

LEMMA SlotBoundInit == RInit => SlotBound
  <1> SUFFICES ASSUME RInit, NEW k \in Keys
               PROVE  keys[k].active_requests
                        <= Cardinality(InFlight(k)) + lost[k] + Cardinality(Releasing(k))
    BY DEF SlotBound
  <1>1. keys[k].active_requests = 0 /\ lost[k] = 0
    BY DEF RInit, Init, NewKey
  <1> QED BY <1>1, FlightFinite, ReleasingFinite

LEMMA SlotBoundStep == PlaceInv /\ SlotBound /\ [GeminiNext]_allvars => SlotBound'
  <1> SUFFICES ASSUME PlaceInv, SlotBound, [GeminiNext]_allvars, NEW k \in Keys
               PROVE  keys'[k].active_requests
                        <= Cardinality(InFlight(k)') + lost'[k] + Cardinality(Releasing(k)')
    BY DEF SlotBound
  <1> DEFINE Bound == keys'[k].active_requests
                        <= Cardinality(InFlight(k)') + lost'[k] + Cardinality(Releasing(k)')
  <1>1. TypeInv /\ TypeInv'
    BY SchedulerTypesStep DEF PlaceInv
  <1>2. /\ keys[k].active_requests \in Nat /\ lost[k] \in Nat
        /\ keys'[k].active_requests \in Nat /\ lost'[k] \in Nat
    BY <1>1 DEF TypeInv, TypeOK, KeyState
  <1>3. /\ IsFiniteSet(InFlight(k)) /\ Cardinality(InFlight(k)) \in Nat
        /\ IsFiniteSet(Releasing(k)) /\ Cardinality(Releasing(k)) \in Nat
    BY FlightFinite, ReleasingFinite
  <1>4. keys[k].active_requests
          <= Cardinality(InFlight(k)) + lost[k] + Cardinality(Releasing(k))
    BY DEF SlotBound
  <1>5. IsFiniteSet(Releasing(k)') /\ Cardinality(Releasing(k)') \in Nat
    <2>1. Releasing(k)' \subseteq Callers
      BY DEF Releasing
    <2> QED BY <2>1, CallersAssumption, FS_Subset, FS_CardinalityType
  <1>6. ASSUME [Next]_vars, \A c \in Callers : ~FinalRelease(c) PROVE Bound
    <2>1. Releasing(k) \subseteq Releasing(k)'
      BY <1>6, ReleasingGrows
    <2>2. Cardinality(Releasing(k)) <= Cardinality(Releasing(k)')
      BY <1>5, <2>1, FS_Subset
    <2> QED BY <1>1, <1>3, <1>4, <1>5, <1>6, <2>2, SchedulerBound
  <1>7. ASSUME NEW c \in Callers, StreamDenied(c) PROVE Bound
    <2>1. /\ pc[c] = "calling" /\ held[c] \in Keys /\ key[c] = held[c]
          /\ stage[c] = "attempt"
      BY <1>1, <1>7 DEF StreamDenied, PlaceInv, Place, TypeInv, HeldOK
    <2>2. /\ pc' = [pc EXCEPT ![c] = "idle"] /\ held' = [held EXCEPT ![c] = NoKey]
          /\ stage' = [stage EXCEPT ![c] = "finally"] /\ UNCHANGED <<key, lost>>
      BY <1>7 DEF StreamDenied, LeaveKey, Reraise
    <2>3. keys'[k].active_requests = keys[k].active_requests
      BY <1>1, <1>7, <2>1, KeySlots DEF StreamDenied, TypeInv, TypeOK
    <2>4. CASE held[c] = k
      <3>1. c \in InFlight(k) /\ InFlight(k)' = InFlight(k) \ {c}
        BY <1>1, <2>1, <2>2, <2>4 DEF InFlight, TypeInv, TypeOK
      <3>2. c \notin Releasing(k) /\ Releasing(k)' = Releasing(k) \cup {c}
        BY <2>1, <2>2, <2>4 DEF Releasing, PlaceInv, ServiceTypes
      <3>3. Cardinality(InFlight(k)') = Cardinality(InFlight(k)) - 1
        BY <1>3, <3>1, FS_RemoveElement
      <3>4. Cardinality(Releasing(k)') = Cardinality(Releasing(k)) + 1
        BY <1>3, <3>2, FS_AddElement
      <3> QED BY <1>2, <1>3, <1>4, <2>2, <2>3, <3>3, <3>4
    <2>5. CASE held[c] # k
      <3>1. InFlight(k)' = InFlight(k)
        BY <1>1, <2>1, <2>2, <2>5 DEF InFlight, TypeInv, TypeOK
      <3>2. Releasing(k)' = Releasing(k)
        BY <2>1, <2>2, <2>5 DEF Releasing, PlaceInv, ServiceTypes
      <3> QED BY <1>4, <2>2, <2>3, <3>1, <3>2
    <2> QED BY <2>4, <2>5
  <1>8. ASSUME NEW c \in Callers, FinalRelease(c) PROVE Bound
    <2>1. /\ stage[c] = "finally" /\ key[c] \in Keys
          /\ stage' = [stage EXCEPT ![c] = "done"]
          /\ keys' = [keys EXCEPT ![key[c]] = RecordRequestEnd(@)]
          /\ UNCHANGED <<key, lost, pc, held>>
      BY <1>8 DEF FinalRelease, PlaceInv, Place
    <2>2. InFlight(k)' = InFlight(k)
      BY <2>1 DEF InFlight
    <2>3. CASE key[c] = k
      <3>1. keys'[k].active_requests = Decrement(keys[k].active_requests)
        BY <1>1, <2>1, <2>3, KeySlots DEF TypeInv, TypeOK
      <3>2. c \in Releasing(k) /\ Releasing(k)' = Releasing(k) \ {c}
        BY <2>1, <2>3 DEF Releasing, PlaceInv, ServiceTypes
      <3>3. Cardinality(Releasing(k)') = Cardinality(Releasing(k)) - 1
        BY <1>3, <3>2, FS_RemoveElement
      <3> QED BY <1>2, <1>3, <1>4, <1>5, <2>1, <2>2, <3>1, <3>3 DEF Decrement
    <2>4. CASE key[c] # k
      <3>1. keys'[k] = keys[k]
        BY <1>1, <2>1, <2>4 DEF TypeInv, TypeOK
      <3>2. Releasing(k)' = Releasing(k)
        BY <2>1, <2>4 DEF Releasing, PlaceInv, ServiceTypes
      <3> QED BY <1>4, <2>1, <2>2, <3>1, <3>2
    <2> QED BY <2>3, <2>4
  <1> QED BY <1>6, <1>7, <1>8, ServiceSteps

-----------------------------------------------------------------------------

LeakyCall(c) == kind[c] = "call" /\ result[c] \in Leaky

(* Only calls lose slots, and their results tell.                          *)
LossInv == (\A c \in Callers : ~LeakyCall(c)) => \A k \in Keys : lost[k] = 0

LEMMA LossStep == PlaceInv /\ LossInv /\ [GeminiNext]_allvars => LossInv'
  <1> SUFFICES ASSUME PlaceInv, LossInv, [GeminiNext]_allvars PROVE LossInv'
    OBVIOUS
  <1>1. "none" \notin Leaky /\ {"denied", "disabled", "abandoned"} \subseteq Leaky
    BY DEF Leaky
  <1>2. ASSUME NEW c \in Callers, Answer(c) \/ CallCancelled(c) PROVE LossInv'
    <2>1. Alone(c) /\ pc[c] = "calling" /\ stage[c] = "attempt" /\ UNCHANGED kind
      BY <1>2, Outcomes
    <2>2. result[c] = "none"
      BY <2>1 DEF PlaceInv, Place
    <2>3. \A d \in Callers : LeakyCall(d) => LeakyCall(d)'
      BY <1>1, <2>1, <2>2 DEF Alone, LeakyCall
    <2>4. lost' = lost \/ LeakyCall(c)'
      <3>1. CASE CallCancelled(c) \/ CallKeyDisabled(c)
        BY <1>1, <2>1, <3>1
        DEF CallCancelled, CallKeyDisabled, Finish, LeakyCall, PlaceInv, ServiceTypes
      <3>2. CASE CallDenied(c)
        BY <1>1, <2>1, <3>2
        DEF CallDenied, Conclude, LeakyCall, PlaceInv, ServiceTypes
      <3>3. CASE CallReturns(c) \/ CallFails(c) \/ StreamEnds(c) \/ StreamFails(c)
        BY <3>3 DEF CallReturns, CallFails, StreamEnds, StreamFails, ReleaseKey,
                    MarkRateLimited, MarkFailure
      <3>4. CASE StreamDenied(c)
        BY <3>4 DEF StreamDenied
      <3> QED BY <1>2, <3>1, <3>2, <3>3, <3>4 DEF Answer, CallAnswer
    <2> QED BY <2>3, <2>4 DEF LossInv
  <1>3. ASSUME NEW c \in Callers, Progress(c) PROVE LossInv'
    <2>1. Alone(c)
      BY <1>3, LoopMoves
    <2>2. LeakyCall(c) => LeakyCall(c)'
      <3>1. result[c] \in Leaky => stage[c] \notin {"new", "attempt"}
        BY <1>1 DEF PlaceInv, Place
      <3> QED BY <1>3, <3>1, LoopMoves DEF LeakyCall
    <2>3. lost' = lost
      BY <1>3
      DEF Progress, LoopStep, ResolveSession, StartAttempt, BeginAcquire, Gather, GatherStep,
          ScanStatus, ScanSlots, RescanStatus, RescanSlots, ReadStatus, ReadSlots,
          CheckCooling, CheckRateLimited, ResetKey, ChooseKey, SelectKey, NoKeyLeft,
          RaiseNoAvailable, Breaker, BreakerStep, CheckThreshold, TripBreaker, RecordUsage,
          RecordSession, FinalRelease, vars
    <2> QED BY <2>1, <2>2, <2>3 DEF Alone, LeakyCall, LossInv
  <1>4. CASE TimePasses \/ SessionExpires \/ UNCHANGED allvars
    BY <1>4 DEF TimePasses, SessionExpires, Tick, allvars, vars, rvars, LossInv, LeakyCall
  <1> QED BY <1>2, <1>3, <1>4 DEF GeminiNext

(* A stream leaves no slot behind, though it may give back one too many.   *)
THEOREM StreamsReleaseTheirSlots == GeminiSpec => []StreamsLeakNothing
  <1>1. PlaceInv /\ SlotBound /\ LossInv => StreamsLeakNothing
    <2> SUFFICES ASSUME PlaceInv, SlotBound, LossInv,
                        \A c \in Callers : /\ Done(c) /\ pc[c] = "idle"
                                           /\ kind[c] = "call" => result[c] \notin Leaky,
                        NEW k \in Keys
                 PROVE  keys[k].active_requests = 0
      BY DEF StreamsLeakNothing
    <2>1. InFlight(k) = {}
      BY DEF InFlight
    <2>2. Releasing(k) = {}
      BY DEF Releasing, Done
    <2>3. lost[k] = 0
      BY DEF LossInv, LeakyCall
    <2>4. keys[k].active_requests
            <= Cardinality(InFlight(k)) + lost[k] + Cardinality(Releasing(k))
      BY DEF SlotBound
    <2>5. Cardinality(InFlight(k)) = 0 /\ Cardinality(Releasing(k)) = 0
      BY <2>1, <2>2, FS_EmptySet
    <2>6. keys[k].active_requests \in Nat
      BY DEF PlaceInv, TypeInv, TypeOK, KeyState
    <2> QED BY <2>3, <2>4, <2>5, <2>6
  <1>2. GeminiSpec => []SlotBound
    BY PlaceAlways, SlotBoundInit, SlotBoundStep, PTL DEF GeminiSpec
  <1>3. RInit => LossInv
    BY DEF RInit, Init, LossInv
  <1>4. GeminiSpec => []LossInv
    BY PlaceAlways, LossStep, <1>3, PTL DEF GeminiSpec
  <1> QED BY PlaceAlways, <1>1, <1>2, <1>4, PTL

-----------------------------------------------------------------------------

(* The refused streams that have yet to give the slot of key k back.       *)
Owed(k) == {c \in Callers : stage[c] = "finally" /\ result[c] = "refused" /\ key[c] = k}

(* active_requests falls short of the calls by the slots given back twice. *)
OverloadInv ==
  \A k \in Keys :
    Cardinality(InFlight(k)) + Cardinality(Owed(k))
      <= keys[k].active_requests + Cardinality(GivenBackTwice(k))

LEMMA StreamSetsFinite ==
  ASSUME NEW k
  PROVE  /\ IsFiniteSet(Owed(k)) /\ Cardinality(Owed(k)) \in Nat
         /\ IsFiniteSet(GivenBackTwice(k)) /\ Cardinality(GivenBackTwice(k)) \in Nat
  <1>1. Owed(k) \subseteq Callers /\ GivenBackTwice(k) \subseteq Callers
    BY DEF Owed, GivenBackTwice, Ended
  <1> QED BY <1>1, CallersAssumption, FS_Subset, FS_CardinalityType

(* A step of the scheduler's own moves calls and slots together.           *)
LEMMA SchedulerOverload ==
  ASSUME TypeInv, TypeInv', [Next]_vars, NEW k \in Keys, NEW n \in Nat, NEW m \in Nat,
         Cardinality(InFlight(k)) + n <= keys[k].active_requests + m
  PROVE  Cardinality(InFlight(k)') + n <= keys'[k].active_requests + m
  <1> DEFINE Bound == Cardinality(InFlight(k)') + n <= keys'[k].active_requests + m
  <1>1. /\ keys[k].active_requests \in Nat /\ keys'[k].active_requests \in Nat
        /\ Cardinality(InFlight(k)) \in Nat /\ IsFiniteSet(InFlight(k))
    BY FlightFinite DEF TypeInv, TypeOK, KeyState
  <1>2. CASE Quiet
    <2>1. InFlight(k)' = InFlight(k)
      BY <1>2 DEF Quiet, InFlight, Calling
    <2> QED BY <1>1, <1>2, <2>1 DEF Quiet
  <1>3. ASSUME NEW c \in Callers, NEW l \in Keys, Starts(c, l) PROVE Bound
    <2>1. CASE k = l
      <3>1. c \notin InFlight(k) /\ InFlight(k)' = InFlight(k) \cup {c}
        BY <1>3, <2>1 DEF Starts, InFlight, Calling, OthersStay
      <3>2. Cardinality(InFlight(k)') = Cardinality(InFlight(k)) + 1
        BY <1>1, <3>1, FS_AddElement
      <3>3. keys'[k].active_requests = keys[k].active_requests + 1
        BY <1>3, <2>1, KeySlots DEF Starts, TypeInv, TypeOK
      <3> QED BY <1>1, <3>2, <3>3
    <2>2. CASE k # l
      <3>1. InFlight(k)' = InFlight(k)
        BY <1>3, <2>2 DEF Starts, InFlight, Calling, OthersStay
      <3>2. keys'[k] = keys[k]
        BY <1>3, <2>2 DEF Starts, TypeInv, TypeOK
      <3> QED BY <3>1, <3>2
    <2> QED BY <2>1, <2>2
  <1>4. ASSUME NEW c \in Callers, NEW l \in Keys, Ends(c, l) \/ Loses(c, l) PROVE Bound
    <2>1. CASE k = l
      <3>1. c \in InFlight(k) /\ InFlight(k)' = InFlight(k) \ {c}
        BY <1>4, <2>1 DEF Ends, Loses, InFlight, Calling, OthersStay
      <3>2. Cardinality(InFlight(k)') = Cardinality(InFlight(k)) - 1
        BY <1>1, <3>1, FS_RemoveElement
      <3>3. CASE Ends(c, l)
        <4>1. keys'[k].active_requests = Decrement(keys[k].active_requests)
          BY <2>1, <3>3 DEF Ends, TypeInv, TypeOK
        <4> QED BY <1>1, <3>2, <4>1 DEF Decrement
      <3>4. CASE Loses(c, l)
        <4>1. keys'[k].active_requests = keys[k].active_requests
          BY <3>4 DEF Loses
        <4> QED BY <1>1, <3>2, <4>1
      <3> QED BY <1>4, <3>3, <3>4
    <2>2. CASE k # l
      <3>1. InFlight(k)' = InFlight(k)
        BY <1>4, <2>2 DEF Ends, Loses, InFlight, Calling, OthersStay
      <3>2. keys'[k].active_requests = keys[k].active_requests
        BY <1>4, <2>2 DEF Ends, Loses, TypeInv, TypeOK
      <3> QED BY <3>1, <3>2
    <2> QED BY <2>1, <2>2
  <1> QED BY <1>2, <1>3, <1>4, SlotSteps DEF TypeInv, TypeOK

(* Only a refused stream and the final clause change the two sets.         *)
LEMMA StreamSetsStay ==
  ASSUME PlaceInv, [GeminiNext]_allvars, NEW k,
         \A c \in Callers : ~StreamDenied(c) /\ ~FinalRelease(c)
  PROVE  Owed(k)' = Owed(k) /\ GivenBackTwice(k)' = GivenBackTwice(k)
  <1> DEFINE Owes(d) == stage[d] = "finally" /\ result[d] = "refused" /\ key[d] = k
             GaveTwice(d) == stage[d] = "done" /\ result[d] = "broken" /\ key[d] = k
  <1>1. SUFFICES \A d \in Callers : (Owes(d)' <=> Owes(d)) /\ (GaveTwice(d)' <=> GaveTwice(d))
    BY DEF Owed, GivenBackTwice, Ended
  <1>2. ASSUME NEW c \in Callers, Answer(c) \/ CallCancelled(c), NEW d \in Callers
        PROVE  (Owes(d)' <=> Owes(d)) /\ (GaveTwice(d)' <=> GaveTwice(d))
    <2>1. CASE d = c
      <3>1. ~Owes(d) /\ ~GaveTwice(d)
        BY <1>2, <2>1, Outcomes
      <3>2. ~Owes(d)' /\ ~GaveTwice(d)'
        BY <1>2, <2>1, Outcomes
      <3> QED BY <3>1, <3>2
    <2>2. CASE d # c
      BY <1>2, <2>2, Outcomes DEF Alone
    <2> QED BY <2>1, <2>2
  <1>3. ASSUME NEW c \in Callers, Progress(c), NEW d \in Callers
        PROVE  (Owes(d)' <=> Owes(d)) /\ (GaveTwice(d)' <=> GaveTwice(d))
    <2>1. CASE d = c /\ stage[c] = "finally"
      BY <1>3, <2>1, FinallyStays
    <2>2. CASE d = c /\ stage[c] # "finally"
      <3>1. stage[c] \in {"account", "session"} => result[c] # "broken"
        BY DEF PlaceInv, Place, Booked, Failures
      <3> QED BY <1>3, <2>2, <3>1, LoopMoves
    <2>3. CASE d # c
      BY <1>3, <2>3, LoopMoves DEF Alone
    <2> QED BY <2>1, <2>2, <2>3
  <1>4. CASE TimePasses \/ SessionExpires \/ UNCHANGED allvars
    BY <1>4 DEF TimePasses, SessionExpires, allvars, rvars
  <1> QED BY <1>2, <1>3, <1>4 DEF GeminiNext

LEMMA OverloadInit == RInit => OverloadInv
  <1> SUFFICES ASSUME RInit, NEW k \in Keys
               PROVE  Cardinality(InFlight(k)) + Cardinality(Owed(k))
                        <= keys[k].active_requests + Cardinality(GivenBackTwice(k))
    BY DEF OverloadInv
  <1>1. InFlight(k) = {} /\ Owed(k) = {} /\ keys[k].active_requests = 0
    BY DEF RInit, Init, NewKey, InFlight, Owed
  <1> QED BY <1>1, FS_EmptySet, StreamSetsFinite

LEMMA OverloadStep == PlaceInv /\ OverloadInv /\ [GeminiNext]_allvars => OverloadInv'
  <1> SUFFICES ASSUME PlaceInv, OverloadInv, [GeminiNext]_allvars, NEW k \in Keys
               PROVE  Cardinality(InFlight(k)') + Cardinality(Owed(k)')
                        <= keys'[k].active_requests + Cardinality(GivenBackTwice(k)')
    BY DEF OverloadInv
  <1> DEFINE Bound == Cardinality(InFlight(k)') + Cardinality(Owed(k)')
                        <= keys'[k].active_requests + Cardinality(GivenBackTwice(k)')
  <1>1. TypeInv /\ TypeInv'
    BY SchedulerTypesStep DEF PlaceInv
  <1>2. /\ keys[k].active_requests \in Nat
        /\ IsFiniteSet(InFlight(k)) /\ Cardinality(InFlight(k)) \in Nat
        /\ IsFiniteSet(Owed(k)) /\ Cardinality(Owed(k)) \in Nat
        /\ IsFiniteSet(GivenBackTwice(k)) /\ Cardinality(GivenBackTwice(k)) \in Nat
    BY <1>1, FlightFinite, StreamSetsFinite DEF TypeInv, TypeOK, KeyState
  <1>3. Cardinality(InFlight(k)) + Cardinality(Owed(k))
          <= keys[k].active_requests + Cardinality(GivenBackTwice(k))
    BY DEF OverloadInv
  <1>4. ASSUME [Next]_vars, \A c \in Callers : ~StreamDenied(c) /\ ~FinalRelease(c)
        PROVE  Bound
    <2>1. Owed(k)' = Owed(k) /\ GivenBackTwice(k)' = GivenBackTwice(k)
      BY <1>4, StreamSetsStay
    <2>2. Cardinality(InFlight(k)') + Cardinality(Owed(k))
            <= keys'[k].active_requests + Cardinality(GivenBackTwice(k))
      BY <1>1, <1>2, <1>3, <1>4, SchedulerOverload
    <2> QED BY <2>1, <2>2
  <1>5. ASSUME NEW c \in Callers, StreamDenied(c) PROVE Bound
    <2>1. /\ pc[c] = "calling" /\ held[c] \in Keys /\ key[c] = held[c]
          /\ stage[c] = "attempt"
      BY <1>1, <1>5 DEF StreamDenied, PlaceInv, Place, TypeInv, HeldOK
    <2>2. /\ pc' = [pc EXCEPT ![c] = "idle"] /\ held' = [held EXCEPT ![c] = NoKey]
          /\ stage' = [stage EXCEPT ![c] = "finally"]
          /\ result' = [result EXCEPT ![c] = "refused"] /\ key' = key
      BY <1>5 DEF StreamDenied, LeaveKey, Reraise
    <2>3. keys'[k].active_requests = keys[k].active_requests
      BY <1>1, <1>5, <2>1, KeySlots DEF StreamDenied, TypeInv, TypeOK
    <2>4. GivenBackTwice(k)' = GivenBackTwice(k)
      BY <2>1, <2>2 DEF GivenBackTwice, Ended, PlaceInv, ServiceTypes
    <2>5. CASE held[c] = k
      <3>1. c \in InFlight(k) /\ InFlight(k)' = InFlight(k) \ {c}
        BY <1>1, <2>1, <2>2, <2>5 DEF InFlight, TypeInv, TypeOK
      <3>2. c \notin Owed(k) /\ Owed(k)' = Owed(k) \cup {c}
        BY <2>1, <2>2, <2>5 DEF Owed, PlaceInv, ServiceTypes
      <3>3. Cardinality(InFlight(k)') = Cardinality(InFlight(k)) - 1
        BY <1>2, <3>1, FS_RemoveElement
      <3>4. Cardinality(Owed(k)') = Cardinality(Owed(k)) + 1
        BY <1>2, <3>2, FS_AddElement
      <3> QED BY <1>2, <1>3, <2>3, <2>4, <3>3, <3>4
    <2>6. CASE held[c] # k
      <3>1. InFlight(k)' = InFlight(k)
        BY <1>1, <2>1, <2>2, <2>6 DEF InFlight, TypeInv, TypeOK
      <3>2. Owed(k)' = Owed(k)
        BY <2>1, <2>2, <2>6 DEF Owed, PlaceInv, ServiceTypes
      <3> QED BY <1>3, <2>3, <2>4, <3>1, <3>2
    <2> QED BY <2>5, <2>6
  <1>6. ASSUME NEW c \in Callers, FinalRelease(c) PROVE Bound
    <2>1. /\ stage[c] = "finally" /\ key[c] \in Keys /\ result[c] \in {"broken", "refused"}
          /\ stage' = [stage EXCEPT ![c] = "done"]
          /\ keys' = [keys EXCEPT ![key[c]] = RecordRequestEnd(@)]
          /\ UNCHANGED <<key, result, pc, held>>
      BY <1>6 DEF FinalRelease, PlaceInv, Place
    <2>2. InFlight(k)' = InFlight(k)
      BY <2>1 DEF InFlight
    <2>3. CASE key[c] = k
      <3>1. keys'[k].active_requests = Decrement(keys[k].active_requests)
        BY <1>1, <2>1, <2>3, KeySlots DEF TypeInv, TypeOK
      <3>2. CASE result[c] = "broken"
        <4>1. Owed(k)' = Owed(k)
          BY <2>1, <3>2 DEF Owed, PlaceInv, ServiceTypes
        <4>2. /\ c \notin GivenBackTwice(k)
              /\ GivenBackTwice(k)' = GivenBackTwice(k) \cup {c}
          BY <2>1, <2>3, <3>2 DEF GivenBackTwice, Ended, PlaceInv, ServiceTypes
        <4>3. Cardinality(GivenBackTwice(k)') = Cardinality(GivenBackTwice(k)) + 1
          BY <1>2, <4>2, FS_AddElement
        <4> QED BY <1>2, <1>3, <2>2, <3>1, <4>1, <4>3 DEF Decrement
      <3>3. CASE result[c] = "refused"
        <4>1. GivenBackTwice(k)' = GivenBackTwice(k)
          BY <2>1, <3>3 DEF GivenBackTwice, Ended, PlaceInv, ServiceTypes
        <4>2. c \in Owed(k) /\ Owed(k)' = Owed(k) \ {c}
          BY <2>1, <2>3, <3>3 DEF Owed, PlaceInv, ServiceTypes
        <4>3. Cardinality(Owed(k)') = Cardinality(Owed(k)) - 1
          BY <1>2, <4>2, FS_RemoveElement
        <4> QED BY <1>2, <1>3, <2>2, <3>1, <4>1, <4>3 DEF Decrement
      <3> QED BY <2>1, <3>2, <3>3
    <2>4. CASE key[c] # k
      <3>1. keys'[k] = keys[k]
        BY <1>1, <2>1, <2>4 DEF TypeInv, TypeOK
      <3>2. Owed(k)' = Owed(k) /\ GivenBackTwice(k)' = GivenBackTwice(k)
        BY <2>1, <2>4 DEF Owed, GivenBackTwice, Ended, PlaceInv, ServiceTypes
      <3> QED BY <1>3, <2>2, <3>1, <3>2
    <2> QED BY <2>3, <2>4
  <1> QED BY <1>4, <1>5, <1>6, ServiceSteps

-----------------------------------------------------------------------------

(* The scheduler's own argument for the cap, without its exact accounting: *)
(* candidates keep their free slot, and a slot is taken from a candidate.  *)
CapInv == LockInv /\ CandidatesInv /\ WithinCap

LEMMA CapInit == RInit => CapInv
  <1> SUFFICES ASSUME RInit PROVE CapInv
    OBVIOUS
  <1>1. SafeInv
    BY SafeInit DEF RInit
  <1> QED BY <1>1 DEF SafeInv, CapInv

(* The two steps that are none of the scheduler's take no slot.            *)
LEMMA CapStep == PlaceInv /\ CapInv /\ [GeminiNext]_allvars => CapInv'
  <1> SUFFICES ASSUME PlaceInv, CapInv, [GeminiNext]_allvars PROVE CapInv'
    OBVIOUS
  <1>1. TypeInv /\ TypeInv'
    BY SchedulerTypesStep DEF PlaceInv
  <1>2. CASE [Next]_vars
    BY <1>1, <1>2, LockStep, CandidatesStep DEF CapInv
  <1>3. ASSUME NEW c \in Callers, StreamDenied(c) \/ FinalRelease(c) PROVE CapInv'
    <2>1. /\ UNCHANGED <<lock, cands>>
          /\ \A d \in Callers \ {c} : pc'[d] = pc[d]
          /\ pc[c] \notin Acquiring /\ pc'[c] \notin Acquiring
      <3>1. "calling" \notin Acquiring /\ "idle" \notin Acquiring
        BY DEF Acquiring, FirstPass, ResetPass, SecondPass
      <3> QED BY <1>1, <1>3, <3>1 DEF StreamDenied, FinalRelease, LeaveKey, TypeInv, TypeOK
    <2>2. /\ \A k \in Keys : keys[k].active_requests \in Nat
          /\ \A k \in Keys : keys'[k].active_requests \in Nat
      BY <1>1 DEF TypeInv, TypeOK, KeyState
    <2>3. \A k \in Keys : keys'[k].active_requests <= keys[k].active_requests
      <3>1. CASE StreamDenied(c)
        BY <1>1, <2>2, <3>1, KeySlots DEF StreamDenied, TypeInv, TypeOK, HeldOK
      <3>2. CASE FinalRelease(c)
        <4>1. key[c] \in Keys /\ keys' = [keys EXCEPT ![key[c]] = RecordRequestEnd(@)]
          BY <3>2 DEF FinalRelease, PlaceInv, Place
        <4>2. ASSUME NEW k \in Keys
              PROVE  keys'[k].active_requests <= keys[k].active_requests
          <5>1. CASE k = key[c]
            <6>1. keys'[k].active_requests = Decrement(keys[k].active_requests)
              BY <1>1, <4>1, <5>1, KeySlots DEF TypeInv, TypeOK
            <6> QED BY <2>2, <6>1 DEF Decrement
          <5>2. CASE k # key[c]
            <6>1. keys'[k] = keys[k]
              BY <1>1, <4>1, <5>2 DEF TypeInv, TypeOK
            <6> QED BY <2>2, <6>1
          <5> QED BY <5>1, <5>2
        <4> QED BY <4>2
      <3> QED BY <1>3, <3>1, <3>2
    <2>4. LockInv'
      BY <2>1 DEF CapInv, LockInv
    <2>5. WithinCap'
      BY <2>2, <2>3, MaxParallelAssumption DEF CapInv, WithinCap
    <2>6. \A k \in Keys : HasFreeSlot(keys[k]) => HasFreeSlot(keys'[k])
      BY <2>2, <2>3, MaxParallelAssumption DEF HasFreeSlot
    <2>7. CandidatesInv'
      <3>1. \A d \in Callers : cands[d] \subseteq Keys
        BY <1>1 DEF TypeInv, TypeOK
      <3>2. \A d \in Callers : cands[d] # {} => pc'[d] \in Acquiring \ {"raise"}
        BY <2>1 DEF CapInv, CandidatesInv
      <3> QED BY <2>1, <2>6, <3>1, <3>2 DEF CapInv, CandidatesInv
    <2> QED BY <2>4, <2>5, <2>7 DEF CapInv
  <1> QED BY <1>2, <1>3, ServiceSteps

(* A key has no more calls above its cap than streams have failed on it.   *)
THEOREM OverloadIsBounded == GeminiSpec => []OverloadBounded
  <1>1. PlaceInv /\ OverloadInv /\ CapInv => OverloadBounded
    <2> SUFFICES ASSUME PlaceInv, OverloadInv, CapInv, NEW k \in Keys
                 PROVE  Cardinality(InFlight(k))
                          <= MaxParallel + Cardinality(GivenBackTwice(k))
      BY DEF OverloadBounded
    <2>1. Cardinality(InFlight(k)) + Cardinality(Owed(k))
            <= keys[k].active_requests + Cardinality(GivenBackTwice(k))
      BY DEF OverloadInv
    <2>2. keys[k].active_requests <= MaxParallel
      BY DEF CapInv, WithinCap
    <2>3. /\ Cardinality(InFlight(k)) \in Nat /\ Cardinality(Owed(k)) \in Nat
          /\ Cardinality(GivenBackTwice(k)) \in Nat
          /\ keys[k].active_requests \in Nat
      BY FlightFinite, StreamSetsFinite DEF PlaceInv, TypeInv, TypeOK, KeyState
    <2> QED BY <2>1, <2>2, <2>3, MaxParallelAssumption
  <1> QED BY PlaceAlways, OverloadInit, OverloadStep, CapInit, CapStep, <1>1, PTL
          DEF GeminiSpec

=============================================================================
