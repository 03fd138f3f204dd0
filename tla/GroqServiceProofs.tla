------------------------- MODULE GroqServiceProofs -------------------------
(***************************************************************************)
(* GroqService uses the scheduler as RequestScheduler allows: every step   *)
(* of the service is a step of the scheduler or leaves it alone, so what   *)
(* is proved of the scheduler holds in the service.  Then the service's    *)
(* own type invariant; that no stream hands over output twice, that slots  *)
(* come back, and that the books agree with what requests came to.         *)
(***************************************************************************)
EXTENDS GroqService, RequestSchedulerProofs, FiniteSums

LEMMA GroqStepIsSchedulerStep == [GroqNext]_allvars => [Next]_vars
  <1> SUFFICES ASSUME [GroqNext]_allvars PROVE [Next]_vars
    OBVIOUS
  <1>1. ASSUME NEW c \in Callers, Progress(c) PROVE [Next]_vars
    <2>1. CASE ChooseKeyAfresh(c)
      BY <2>1 DEF ChooseKeyAfresh, ChooseKey, Next, AcquireStep
    <2>2. CASE LoopStep(c)
      BY <2>2
      DEF LoopStep, ResolveSession, StartAttempt, Gather, NoKeyLeft, Breaker,
          RecordUsage, RecordSession, Next, AcquireStep
    <2> QED BY <1>1, <2>1, <2>2 DEF Progress
  <1>2. ASSUME NEW c \in Callers, Answer(c) \/ GiveUp(c) PROVE [Next]_vars
    <2>1. Outcome(c)
      BY <1>2
      DEF Answer, CallAnswer, CallReturns, CallFails, CallKeyDisabled, CallDenied,
          StreamReturns, StreamFails, GiveUp, CallCancelled, StreamAbandoned, Outcome
    <2> QED BY <2>1 DEF Next
  <1>3. ASSUME NEW c \in Callers, StreamYields(c) PROVE [Next]_vars
    BY <1>3 DEF StreamYields
  <1>4. CASE (TimePasses \/ SessionExpires) /\ UNCHANGED svars
    BY <1>4 DEF TimePasses, SessionExpires, Next
  <1>5. CASE UNCHANGED allvars
    BY <1>5 DEF allvars
  <1> QED BY <1>1, <1>2, <1>3, <1>4, <1>5 DEF GroqNext

(* Whatever holds of the scheduler's behaviours holds of the service's.    *)
THEOREM ServiceIsSchedulerClient == GroqSpec => Spec
  <1>1. GroqInit => Init
    BY DEF GroqInit, RInit
  <1> QED BY <1>1, GroqStepIsSchedulerStep, PTL DEF GroqSpec, Spec

(* The service never has more than max_parallel_requests calls and streams *)
(* in flight on a key.                                                     *)
THEOREM ServiceRespectsCap == GroqSpec => []CapRespected
  BY ServiceIsSchedulerClient, CapHolds

-----------------------------------------------------------------------------

LEMMA GroqTypeInit == GroqInit => GroqTypeOK
  BY RetriesAssumption
  DEF GroqInit, RInit, GroqTypeOK, Stage, Kind, Result, Keys, NoKey, NoTotals, NewSession

(* The ways on from an outcome keep the types of the loop's variables.     *)
LEMMA OutcomeTypes ==
  ASSUME GroqTypeOK, NEW c \in Callers, NEW res \in Result,
         Finish(c, res) \/ Conclude(c, res) \/ RetryOrGiveUp(c),
         UNCHANGED svars
  PROVE  GroqTypeOK'
  <1>1. "exhausted" \in Result
    BY DEF Result
  <1>2. CASE Finish(c, res)
    BY <1>2 DEF GroqTypeOK, Finish, books, svars, Stage
  <1>3. ASSUME NEW r \in Result, Conclude(c, r) PROVE GroqTypeOK'
    BY <1>3 DEF GroqTypeOK, Conclude, books, svars, Stage
  <1>4. CASE RetryOrGiveUp(c) /\ attempt[c] < Retries
    <2>1. attempt' \in [Callers -> 0..Retries]
      BY <1>4, RetriesAssumption DEF GroqTypeOK, RetryOrGiveUp
    <2> QED BY <1>4, <2>1 DEF GroqTypeOK, RetryOrGiveUp, books, svars
  <1>5. CASE RetryOrGiveUp(c) /\ ~(attempt[c] < Retries)
    BY <1>1, <1>3, <1>5 DEF RetryOrGiveUp
  <1> QED BY <1>2, <1>3, <1>4, <1>5

LEMMA CountedType ==
  ASSUME NEW c, NEW S,
         NEW t \in [state : S, succeeded : Nat, failed : Nat, retried : Nat]
  PROVE  Counted(t, c) \in [state : S, succeeded : Nat, failed : Nat, retried : Nat]
  <1> DEFINE s1 == IF result[c] = "returned" THEN t.succeeded + 1 ELSE t.succeeded
             f1 == IF result[c] = "returned" THEN t.failed ELSE t.failed + 1
             r1 == IF Retried(c) THEN t.retried + 1 ELSE t.retried
  <1>1. s1 \in Nat /\ f1 \in Nat /\ r1 \in Nat
    OBVIOUS
  <1>2. Counted(t, c) = [t EXCEPT !.succeeded = s1, !.failed = f1, !.retried = r1]
    BY DEF Counted
  <1> HIDE DEF s1, f1, r1
  <1> QED BY <1>1, <1>2

LEMMA CountedTotalsType ==
  ASSUME NEW c, NEW t \in [succeeded : Nat, failed : Nat, retried : Nat]
  PROVE  Counted(t, c) \in [succeeded : Nat, failed : Nat, retried : Nat]
  <1> DEFINE s1 == IF result[c] = "returned" THEN t.succeeded + 1 ELSE t.succeeded
             f1 == IF result[c] = "returned" THEN t.failed ELSE t.failed + 1
             r1 == IF Retried(c) THEN t.retried + 1 ELSE t.retried
  <1>1. s1 \in Nat /\ f1 \in Nat /\ r1 \in Nat
    OBVIOUS
  <1>2. Counted(t, c) = [t EXCEPT !.succeeded = s1, !.failed = f1, !.retried = r1]
    BY DEF Counted
  <1> HIDE DEF s1, f1, r1
  <1> QED BY <1>1, <1>2

LEMMA GroqTypeStep == TypeOK' /\ GroqTypeOK /\ [GroqNext]_allvars => GroqTypeOK'
  <1> SUFFICES ASSUME TypeOK', GroqTypeOK, [GroqNext]_allvars PROVE GroqTypeOK'
    OBVIOUS
  <1>1. ASSUME NEW c \in Callers, Answer(c) \/ GiveUp(c) PROVE GroqTypeOK'
    <2>1. {"returned", "disabled", "denied", "abandoned", "broken"} \subseteq Result
      BY DEF Result
    <2>2. UNCHANGED svars
      BY <1>1 DEF Answer, GiveUp, StreamReturns, StreamFails, StreamAbandoned
    <2>3. \E res \in Result : Finish(c, res) \/ Conclude(c, res) \/ RetryOrGiveUp(c)
      BY <1>1, <2>1
      DEF Answer, CallAnswer, CallReturns, CallFails, CallKeyDisabled, CallDenied,
          StreamReturns, StreamFails, GiveUp, CallCancelled, StreamAbandoned
    <2> QED BY <2>2, <2>3, OutcomeTypes
  <1>2. ASSUME NEW c \in Callers, ChooseKeyAfresh(c) PROVE GroqTypeOK'
    <2>1. key' \in [Callers -> Keys \cup {NoKey}]
      BY <1>2 DEF ChooseKeyAfresh, ChooseKey, TypeOK, GroqTypeOK
    <2> QED BY <1>2, <2>1 DEF ChooseKeyAfresh, ChooseKey, GroqTypeOK, books
  <1>3. ASSUME NEW c \in Callers, LoopStep(c), UNCHANGED svars PROVE GroqTypeOK'
    <2>1. CASE ResolveSession(c)
      <3>1. session' \in [state : {"absent", "open", "expired"},
                          succeeded : Nat, failed : Nat, retried : Nat]
        BY <2>1 DEF ResolveSession, NewSession, GroqTypeOK
      <3>2. stage' \in [Callers -> Stage \ {"finally"}]
        BY <2>1 DEF ResolveSession, GroqTypeOK, Stage
      <3>3. result' \in [Callers -> Result] /\ kind' \in [Callers -> Kind]
        BY <2>1 DEF ResolveSession, GroqTypeOK, Result, Kind
      <3> QED BY <1>3, <2>1, <3>1, <3>2, <3>3 DEF ResolveSession, GroqTypeOK, svars
    <2>2. CASE StartAttempt(c) \/ Gather(c) \/ Breaker(c)
      BY <1>3, <2>2 DEF StartAttempt, Gather, Breaker, GroqTypeOK, rvars, svars
    <2>3. CASE NoKeyLeft(c)
      BY <1>3, <2>3, OutcomeTypes DEF NoKeyLeft, Result
    <2>4. CASE RecordUsage(c)
      <3>1. usage' \in [succeeded : Nat, failed : Nat, retried : Nat]
        BY <2>4, CountedTotalsType DEF RecordUsage, GroqTypeOK
      <3> QED BY <1>3, <2>4, <3>1 DEF RecordUsage, GroqTypeOK, Stage, svars
    <2>5. CASE RecordSession(c)
      <3>1. session' \in [state : {"absent", "open", "expired"},
                          succeeded : Nat, failed : Nat, retried : Nat]
        BY <2>5, CountedType DEF RecordSession, NewSession, GroqTypeOK
      <3>2. journal' \in Nat
        BY <2>5 DEF RecordSession, GroqTypeOK
      <3> QED BY <1>3, <2>5, <3>1, <3>2 DEF RecordSession, GroqTypeOK, Stage, svars
    <2> QED BY <1>3, <2>1, <2>2, <2>3, <2>4, <2>5 DEF LoopStep
  <1>4. ASSUME NEW c \in Callers, StreamYields(c) PROVE GroqTypeOK'
    <2>1. delivered' \in [Callers -> Nat] /\ first' \in [Callers -> BOOLEAN]
      BY <1>4 DEF StreamYields, GroqTypeOK
    <2> QED BY <1>4, <2>1 DEF StreamYields, GroqTypeOK, rvars
  <1>5. CASE (TimePasses \/ SessionExpires) /\ UNCHANGED svars
    BY <1>5 DEF TimePasses, SessionExpires, GroqTypeOK, rvars, svars
  <1>6. CASE UNCHANGED allvars
    BY <1>6 DEF allvars, GroqTypeOK, rvars, svars
  <1> QED BY <1>1, <1>2, <1>3, <1>4, <1>5, <1>6 DEF GroqNext, Progress

(* The types of the rotation loop and of the streams.                      *)
THEOREM GroqTypeCorrect == GroqSpec => []GroqTypeOK
  BY GroqTypeInit, GroqTypeStep, ServiceIsSchedulerClient, TypeCorrect, PTL DEF GroqSpec

-----------------------------------------------------------------------------

(* A caller searches for a key, or holds one, only within an attempt.      *)
AttemptInv ==
  \A c \in Callers : pc[c] \in Acquiring \cup {"calling"} => stage[c] = "attempt"

(* A request that has handed over output is still in that attempt, or out  *)
(* of the loop for good.                                                   *)
Delivery(c) ==
  \/ delivered[c] = 0 /\ ~first[c]
  \/ /\ delivered[c] = 1
     /\ first[c]
     /\ kind[c] = "stream"
     /\ \/ pc[c] = "calling"
        \/ /\ pc[c] \in {"idle", "check", "trip"}
           /\ stage[c] \in {"account", "session", "done"}

DeliveryInv == AttemptInv /\ \A c \in Callers : Delivery(c)

DeliveryTypes == TypeOK /\ GroqTypeOK

LEMMA DeliveryInit == GroqInit => DeliveryInv
  BY DEF GroqInit, RInit, Init, DeliveryInv, AttemptInv, Delivery, Acquiring,
         FirstPass, ResetPass, SecondPass

LEMMA DeliveryStep == DeliveryTypes /\ DeliveryInv /\ [GroqNext]_allvars => DeliveryInv'
  <1> SUFFICES ASSUME DeliveryTypes, DeliveryInv, [GroqNext]_allvars PROVE DeliveryInv'
    OBVIOUS
  <1> USE DEF DeliveryTypes
  <1>a. "calling" \notin Acquiring /\ "idle" \notin Acquiring
        /\ "check" \notin Acquiring /\ "trip" \notin Acquiring
    BY DEF Acquiring, FirstPass, ResetPass, SecondPass
  <1>1. ASSUME NEW c \in Callers, Answer(c) \/ GiveUp(c) PROVE DeliveryInv'
    <2>1. Outcome(c) /\ UNCHANGED <<svars, kind>>
      BY <1>1
      DEF Answer, CallAnswer, CallReturns, CallFails, CallKeyDisabled, CallDenied,
          StreamReturns, StreamFails, GiveUp, CallCancelled, StreamAbandoned, Outcome,
          Finish, Conclude, RetryOrGiveUp
    <2>2. /\ pc[c] = "calling"
          /\ pc'[c] \in {"idle", "check"}
          /\ \A d \in Callers \ {c} : pc'[d] = pc[d]
      BY <2>1, OutcomeLocation
    <2>3. \A d \in Callers \ {c} : stage'[d] = stage[d]
      BY <1>1
      DEF Answer, CallAnswer, CallReturns, CallFails, CallKeyDisabled, CallDenied,
          StreamReturns, StreamFails, GiveUp, CallCancelled, StreamAbandoned,
          Finish, Conclude, RetryOrGiveUp, GroqTypeOK
    <2>4. kind[c] = "stream" /\ first[c] => stage'[c] \in {"account", "done"}
      BY <1>1
      DEF Answer, CallAnswer, CallReturns, CallFails, CallKeyDisabled, CallDenied,
          StreamReturns, StreamFails, GiveUp, CallCancelled, StreamAbandoned,
          Finish, Conclude, GroqTypeOK
    <2>5. AttemptInv'
      BY <1>a, <2>2, <2>3 DEF DeliveryInv, AttemptInv
    <2>6. ASSUME NEW d \in Callers PROVE Delivery(d)'
      <3>1. CASE d = c
        BY <2>1, <2>2, <2>4, <3>1 DEF DeliveryInv, Delivery, svars
      <3>2. CASE d # c
        BY <2>1, <2>2, <2>3, <3>2 DEF DeliveryInv, Delivery, svars
      <3> QED BY <3>1, <3>2
    <2> QED BY <2>5, <2>6 DEF DeliveryInv
  <1>2. ASSUME NEW c \in Callers, ChooseKeyAfresh(c) PROVE DeliveryInv'
    <2>1. /\ pc[c] = "select" /\ pc' = [pc EXCEPT ![c] = "calling"]
          /\ first' = [first EXCEPT ![c] = FALSE]
          /\ UNCHANGED <<stage, kind, delivered>>
      BY <1>2 DEF ChooseKeyAfresh, ChooseKey, SelectKey
    <2>2. "select" \in Acquiring
      BY DEF Acquiring
    <2>3. AttemptInv'
      BY <2>1, <2>2 DEF DeliveryInv, AttemptInv, TypeOK
    <2>4. \A d \in Callers : Delivery(d)'
      BY <2>1 DEF DeliveryInv, Delivery, TypeOK, GroqTypeOK
    <2> QED BY <2>3, <2>4 DEF DeliveryInv
  <1>3. ASSUME NEW c \in Callers, LoopStep(c), UNCHANGED svars PROVE DeliveryInv'
    <2>1. CASE ResolveSession(c)
      <3>1. /\ stage[c] = "new" /\ UNCHANGED <<pc, first, delivered>>
            /\ \A d \in Callers \ {c} : stage'[d] = stage[d] /\ kind'[d] = kind[d]
        BY <1>3, <2>1 DEF ResolveSession, vars, svars, GroqTypeOK
      <3>2. AttemptInv'
        BY <3>1 DEF DeliveryInv, AttemptInv
      <3>3. delivered[c] = 0 /\ ~first[c]
        BY <3>1 DEF DeliveryInv, AttemptInv, Delivery
      <3>4. \A d \in Callers : Delivery(d)'
        BY <3>1, <3>3 DEF DeliveryInv, Delivery
      <3> QED BY <3>2, <3>4 DEF DeliveryInv
    <2>2. CASE StartAttempt(c)
      <3>1. /\ stage[c] = "attempt" /\ pc[c] = "idle"
            /\ pc' = [pc EXCEPT ![c] = "scan"]
            /\ UNCHANGED <<stage, kind, first, delivered>>
        BY <1>3, <2>2 DEF StartAttempt, BeginAcquire, rvars, svars
      <3>2. AttemptInv'
        BY <3>1 DEF DeliveryInv, AttemptInv, TypeOK
      <3>3. \A d \in Callers : Delivery(d)'
        BY <3>1 DEF DeliveryInv, Delivery, TypeOK
      <3> QED BY <3>2, <3>3 DEF DeliveryInv
    <2>3. CASE Gather(c)
      <3>1. UNCHANGED <<stage, kind, first, delivered>>
        BY <1>3, <2>3 DEF Gather, rvars, svars
      <3>2. /\ pc[c] \in Acquiring
            /\ pc'[c] \in Acquiring
            /\ \A d \in Callers \ {c} : pc'[d] = pc[d]
        BY <2>3, GatherLocation DEF Gather
      <3>3. AttemptInv'
        BY <3>1, <3>2 DEF DeliveryInv, AttemptInv
      <3>4. \A d \in Callers : Delivery(d)'
        BY <1>a, <3>1, <3>2 DEF DeliveryInv, Delivery
      <3> QED BY <3>3, <3>4 DEF DeliveryInv
    <2>4. CASE NoKeyLeft(c)
      <3>1. /\ pc[c] = "raise" /\ pc' = [pc EXCEPT ![c] = "idle"]
            /\ stage' = [stage EXCEPT ![c] = "done"]
            /\ UNCHANGED <<kind, first, delivered>>
        BY <1>3, <2>4 DEF NoKeyLeft, RaiseNoAvailable, Finish, svars
      <3>2. AttemptInv'
        BY <1>a, <3>1 DEF DeliveryInv, AttemptInv, TypeOK, GroqTypeOK
      <3>3. \A d \in Callers : Delivery(d)'
        BY <3>1 DEF DeliveryInv, Delivery, TypeOK, GroqTypeOK
      <3> QED BY <3>2, <3>3 DEF DeliveryInv
    <2>5. CASE Breaker(c)
      <3>1. UNCHANGED <<stage, kind, first, delivered>>
        BY <1>3, <2>5 DEF Breaker, rvars, svars
      <3>2. /\ pc[c] \in {"check", "trip"}
            /\ pc'[c] \in {"trip", "idle"}
            /\ \A d \in Callers \ {c} : pc'[d] = pc[d]
        BY <2>5 DEF Breaker, BreakerStep, CheckThreshold, TripBreaker, LeaveKey, TypeOK
      <3>3. AttemptInv'
        BY <1>a, <3>1, <3>2 DEF DeliveryInv, AttemptInv
      <3>4. \A d \in Callers : Delivery(d)'
        BY <3>1, <3>2 DEF DeliveryInv, Delivery
      <3> QED BY <3>3, <3>4 DEF DeliveryInv
    <2>6. CASE RecordUsage(c) \/ RecordSession(c)
      <3>1. /\ stage[c] \in {"account", "session"}
            /\ stage'[c] \in {"session", "done"}
            /\ \A d \in Callers \ {c} : stage'[d] = stage[d]
            /\ UNCHANGED <<pc, kind, first, delivered>>
        BY <1>3, <2>6 DEF RecordUsage, RecordSession, vars, svars, GroqTypeOK
      <3>2. AttemptInv'
        BY <3>1 DEF DeliveryInv, AttemptInv
      <3>3. \A d \in Callers : Delivery(d)'
        BY <3>1 DEF DeliveryInv, Delivery
      <3> QED BY <3>2, <3>3 DEF DeliveryInv
    <2> QED BY <1>3, <2>1, <2>2, <2>3, <2>4, <2>5, <2>6 DEF LoopStep
  <1>4. ASSUME NEW c \in Callers, StreamYields(c) PROVE DeliveryInv'
    <2>1. /\ kind[c] = "stream" /\ pc[c] = "calling" /\ ~first[c]
          /\ first' = [first EXCEPT ![c] = TRUE]
          /\ delivered' = [delivered EXCEPT ![c] = @ + 1]
          /\ UNCHANGED <<pc, stage, kind>>
      BY <1>4 DEF StreamYields, vars, rvars
    <2>2. delivered[c] = 0
      BY <2>1 DEF DeliveryInv, Delivery
    <2>3. AttemptInv'
      BY <2>1 DEF DeliveryInv, AttemptInv
    <2>4. first'[c] /\ delivered'[c] = 1
      BY <2>1, <2>2 DEF GroqTypeOK
    <2>5. \A d \in Callers \ {c} : first'[d] = first[d] /\ delivered'[d] = delivered[d]
      BY <2>1 DEF GroqTypeOK
    <2>6. \A d \in Callers : Delivery(d)'
      BY <2>1, <2>4, <2>5 DEF DeliveryInv, Delivery
    <2> QED BY <2>3, <2>6 DEF DeliveryInv
  <1>5. CASE (TimePasses \/ SessionExpires) /\ UNCHANGED svars
    BY <1>5 DEF TimePasses, SessionExpires, Tick, DeliveryInv, AttemptInv, Delivery,
                vars, rvars, svars
  <1>6. CASE UNCHANGED allvars
    BY <1>6 DEF allvars, DeliveryInv, AttemptInv, Delivery, vars, rvars, svars
  <1> QED BY <1>1, <1>2, <1>3, <1>4, <1>5, <1>6 DEF GroqNext, Progress

(* No stream hands chunks of two attempts to its caller, however many      *)
(* requests and retries there are.                                         *)
THEOREM StreamsDeliverOnce == GroqSpec => []OutputDeliveredOnce
  <1>1. DeliveryInv => OutputDeliveredOnce
    BY DEF DeliveryInv, Delivery, OutputDeliveredOnce
  <1>2. GroqSpec => []DeliveryTypes
    BY GroqTypeCorrect, ServiceIsSchedulerClient, TypeCorrect, PTL DEF DeliveryTypes
  <1> QED BY DeliveryInit, DeliveryStep, <1>1, <1>2, PTL DEF GroqSpec

-----------------------------------------------------------------------------

(* Slots are lost only by requests that tell it by their result, and a     *)
(* result stays.                                                           *)
LeakInv ==
  /\ \A c \in Callers :
       result[c] # "none" => stage[c] \in {"account", "session", "done"}
  /\ (\A c \in Callers : result[c] \notin Leaky) => \A k \in Keys : lost[k] = 0

LEMMA LeakInit == GroqInit => LeakInv
  BY DEF GroqInit, RInit, Init, LeakInv

(* What a step may do to the results and to the lost slots.                *)
LEMMA LeakEffect ==
  ASSUME DeliveryTypes, DeliveryInv, LeakInv, [GroqNext]_allvars
  PROVE  /\ \A c \in Callers : result[c] # "none" =>
              /\ result'[c] = result[c]
              /\ stage'[c] \in {"account", "session", "done"}
         /\ \A c \in Callers : result'[c] # "none" =>
              stage'[c] \in {"account", "session", "done"}
         /\ lost' = lost \/ \E c \in Callers : result'[c] \in Leaky
  <1> DEFINE Effect ==
        /\ \A c \in Callers : result[c] # "none" =>
              /\ result'[c] = result[c]
              /\ stage'[c] \in {"account", "session", "done"}
        /\ \A c \in Callers : result'[c] # "none" =>
              stage'[c] \in {"account", "session", "done"}
        /\ lost' = lost \/ \E c \in Callers : result'[c] \in Leaky
  <1> USE DEF DeliveryTypes
  <1>1. ASSUME NEW c \in Callers, Answer(c) \/ GiveUp(c) PROVE Effect
    <2>1. Outcome(c)
      BY <1>1
      DEF Answer, CallAnswer, CallReturns, CallFails, CallKeyDisabled, CallDenied,
          StreamReturns, StreamFails, GiveUp, CallCancelled, StreamAbandoned, Outcome
    <2>2. stage[c] = "attempt" /\ result[c] = "none"
      <3>1. pc[c] = "calling"
        BY <2>1, OutcomeLocation
      <3>2. stage[c] = "attempt"
        BY <3>1 DEF DeliveryInv, AttemptInv
      <3> QED BY <3>2 DEF LeakInv
    <2>3. \A d \in Callers \ {c} : stage'[d] = stage[d] /\ result'[d] = result[d]
      BY <1>1
      DEF Answer, CallAnswer, CallReturns, CallFails, CallKeyDisabled, CallDenied,
          StreamReturns, StreamFails, GiveUp, CallCancelled, StreamAbandoned,
          Finish, Conclude, RetryOrGiveUp, GroqTypeOK
    <2>4. result'[c] # "none" => stage'[c] \in {"account", "done"}
      BY <1>1, <2>2
      DEF Answer, CallAnswer, CallReturns, CallFails, CallKeyDisabled, CallDenied,
          StreamReturns, StreamFails, GiveUp, CallCancelled, StreamAbandoned,
          Finish, Conclude, RetryOrGiveUp, GroqTypeOK
    <2>5. lost' = lost \/ result'[c] \in Leaky
      BY <1>1
      DEF Answer, CallAnswer, CallReturns, CallFails, CallKeyDisabled, CallDenied,
          StreamReturns, StreamFails, GiveUp, CallCancelled, StreamAbandoned,
          Finish, Conclude, GroqTypeOK, Leaky, ReleaseKey, MarkRateLimited, MarkFailure
    <2> QED BY <2>2, <2>3, <2>4, <2>5 DEF LeakInv
  <1>2. ASSUME NEW c \in Callers, ChooseKeyAfresh(c) PROVE Effect
    BY <1>2 DEF ChooseKeyAfresh, ChooseKey, SelectKey, LeakInv
  <1>3. ASSUME NEW c \in Callers, LoopStep(c) PROVE Effect
    <2>1. lost' = lost
      BY <1>3
      DEF LoopStep, ResolveSession, StartAttempt, BeginAcquire, Gather, GatherStep,
          ScanStatus, ScanSlots, RescanStatus, RescanSlots, ReadStatus, ReadSlots,
          CheckCooling, CheckRateLimited, ResetKey, NoKeyLeft, RaiseNoAvailable,
          Breaker, BreakerStep, CheckThreshold, TripBreaker, RecordUsage,
          RecordSession, vars
    <2>2. CASE ResolveSession(c)
      BY <2>1, <2>2 DEF ResolveSession, LeakInv, GroqTypeOK
    <2>3. CASE StartAttempt(c) \/ Gather(c) \/ Breaker(c)
      BY <2>1, <2>3 DEF StartAttempt, Gather, Breaker, rvars, LeakInv
    <2>4. CASE NoKeyLeft(c)
      <3>1. pc[c] = "raise"
        BY <2>4 DEF NoKeyLeft, RaiseNoAvailable
      <3>2. stage[c] = "attempt"
        BY <3>1 DEF DeliveryInv, AttemptInv, Acquiring
      <3> QED BY <2>1, <2>4, <3>2 DEF NoKeyLeft, Finish, LeakInv, GroqTypeOK
    <2>5. CASE RecordUsage(c) \/ RecordSession(c)
      BY <2>1, <2>5 DEF RecordUsage, RecordSession, LeakInv, GroqTypeOK
    <2> QED BY <1>3, <2>2, <2>3, <2>4, <2>5 DEF LoopStep
  <1>4. ASSUME NEW c \in Callers, StreamYields(c) PROVE Effect
    BY <1>4 DEF StreamYields, vars, rvars, LeakInv
  <1>5. CASE (TimePasses \/ SessionExpires) /\ UNCHANGED svars
    BY <1>5 DEF TimePasses, SessionExpires, Tick, vars, rvars, LeakInv
  <1>6. CASE UNCHANGED allvars
    BY <1>6 DEF allvars, vars, rvars, LeakInv
  <1> QED BY <1>1, <1>2, <1>3, <1>4, <1>5, <1>6 DEF GroqNext, Progress

LEMMA LeakStep ==
  DeliveryTypes /\ DeliveryInv /\ LeakInv /\ [GroqNext]_allvars => LeakInv'
  BY LeakEffect DEF LeakInv, Leaky

(* However many requests there are and however they end, every attempt     *)
(* gives its slot back, except those of cancelled calls and refused keys.  *)
THEOREM AllSlotsComeBack == GroqSpec => []SlotsComeBack
  <1>1. LeakInv /\ TypeOK /\ SlotAccounting => SlotsComeBack
    <2> SUFFICES ASSUME LeakInv, TypeOK, SlotAccounting,
                        \A c \in Callers :
                          Done(c) /\ pc[c] = "idle" /\ result[c] \notin Leaky,
                        NEW k \in Keys
                 PROVE  keys[k].active_requests = 0
      BY DEF SlotsComeBack
    <2>1. InFlight(k) = {}
      BY DEF InFlight
    <2>2. Cardinality(InFlight(k)) = 0
      BY <2>1, FS_EmptySet
    <2>3. lost[k] = 0
      BY DEF LeakInv
    <2> QED BY <2>2, <2>3 DEF SlotAccounting
  <1>2. GroqSpec => [](DeliveryTypes /\ TypeOK)
    BY GroqTypeCorrect, ServiceIsSchedulerClient, TypeCorrect, PTL DEF DeliveryTypes
  <1>3. GroqSpec => []DeliveryInv
    BY DeliveryInit, DeliveryStep, <1>2, PTL DEF GroqSpec
  <1>4. GroqSpec => []LeakInv
    BY LeakInit, LeakStep, <1>2, <1>3, PTL DEF GroqSpec
  <1>5. GroqSpec => []SlotAccounting
    BY ServiceIsSchedulerClient, SlotsAccounted
  <1> QED BY <1>1, <1>2, <1>4, <1>5, PTL

-----------------------------------------------------------------------------

(* Whom the books have: in the usage totals a request is from the step     *)
(* "session" on, in the others once it is done.  Only a request that came  *)
(* out of the loop with a response or a RetryExhaustedError gets to the    *)
(* books.                                                                  *)
Booked == {"returned"} \cup Failures

Tracked(rs, c) == result[c] \in rs /\ stage[c] \in {"session", "done"}
Closed(rs, c) == result[c] \in rs /\ stage[c] = "done"

TrackedBy(rs) == {c \in Callers : Tracked(rs, c)}
ClosedBy(rs) == {c \in Callers : Closed(rs, c)}

BooksInv ==
  /\ \A c \in Callers : stage[c] \in {"account", "session"} => result[c] \in Booked
  /\ BooksAgree

LEMMA BooksAgreeIs ==
  /\ BooksAgree <=>
       /\ usage.succeeded = Cardinality(TrackedBy({"returned"}))
       /\ usage.failed = Cardinality(TrackedBy(Failures))
       /\ journal = Cardinality(ClosedBy({"returned"}))
       /\ session.succeeded <= Cardinality(ClosedBy({"returned"}))
       /\ session.failed <= Cardinality(ClosedBy(Failures))
  /\ BooksAgree' <=>
       /\ usage'.succeeded = Cardinality(TrackedBy({"returned"})')
       /\ usage'.failed = Cardinality(TrackedBy(Failures)')
       /\ journal' = Cardinality(ClosedBy({"returned"})')
       /\ session'.succeeded <= Cardinality(ClosedBy({"returned"})')
       /\ session'.failed <= Cardinality(ClosedBy(Failures)')
  <1>1. /\ \A rs : Ended(rs, {"session", "done"}) = TrackedBy(rs)
        /\ \A rs : Ended(rs, {"done"}) = ClosedBy(rs)
    BY DEF Ended, TrackedBy, ClosedBy, Tracked, Closed
  <1>2. /\ \A rs : Ended(rs, {"session", "done"})' = TrackedBy(rs)'
        /\ \A rs : Ended(rs, {"done"})' = ClosedBy(rs)'
    BY DEF Ended, TrackedBy, ClosedBy, Tracked, Closed
  <1> QED BY <1>1, <1>2 DEF BooksAgree

LEMMA BooksInit == GroqInit => BooksInv
  <1> SUFFICES ASSUME GroqInit PROVE BooksInv
    OBVIOUS
  <1>1. \A c \in Callers : stage[c] = "new"
    BY DEF GroqInit, RInit
  <1>2. \A rs : TrackedBy(rs) = {} /\ ClosedBy(rs) = {}
    BY <1>1 DEF TrackedBy, ClosedBy, Tracked, Closed
  <1>3. /\ usage.succeeded = 0 /\ usage.failed = 0 /\ journal = 0
        /\ session.succeeded = 0 /\ session.failed = 0
    BY DEF GroqInit, RInit, NoTotals, NewSession
  <1> QED BY <1>1, <1>2, <1>3, BooksAgreeIs, FS_EmptySet DEF BooksInv

LEMMA BooksAreNumbers ==
  ASSUME GroqTypeOK
  PROVE  /\ usage.succeeded \in Nat /\ usage.failed \in Nat /\ journal \in Nat
         /\ session.succeeded \in Nat /\ session.failed \in Nat
         /\ \A rs : Cardinality(TrackedBy(rs)) \in Nat /\ Cardinality(ClosedBy(rs)) \in Nat
  <1>1. ASSUME NEW rs
        PROVE  Cardinality(TrackedBy(rs)) \in Nat /\ Cardinality(ClosedBy(rs)) \in Nat
    <2>1. TrackedBy(rs) \in SUBSET Callers /\ ClosedBy(rs) \in SUBSET Callers
      BY DEF TrackedBy, ClosedBy
    <2> QED BY <2>1, CallersAssumption, FS_Subset, FS_CardinalityType
  <1> QED BY <1>1 DEF GroqTypeOK

(* A step that writes no book, and moves nobody in or out of one.          *)
BooksStay ==
  /\ usage' = usage /\ journal' = journal
  /\ session'.succeeded \in {0, session.succeeded}
  /\ session'.failed \in {0, session.failed}
  /\ \A c \in Callers, rs \in {{"returned"}, Failures} :
       Tracked(rs, c)' = Tracked(rs, c) /\ Closed(rs, c)' = Closed(rs, c)
  /\ \A c \in Callers : stage'[c] \in {"account", "session"} => result'[c] \in Booked

LEMMA BooksStayInv ==
  ASSUME GroqTypeOK, BooksInv, BooksStay
  PROVE  BooksInv'
  <1>1. \A rs \in {{"returned"}, Failures} :
          TrackedBy(rs)' = TrackedBy(rs) /\ ClosedBy(rs)' = ClosedBy(rs)
    BY DEF BooksStay, TrackedBy, ClosedBy
  <1> QED BY <1>1, BooksAgreeIs, BooksAreNumbers DEF BooksInv, BooksStay

(* One caller moves, within the loop or out of it, without being booked.   *)
LEMMA UnbookedMove ==
  ASSUME GroqTypeOK, LeakInv, BooksInv, NEW c \in Callers,
         UNCHANGED <<usage, journal>>,
         session'.succeeded \in {0, session.succeeded},
         session'.failed \in {0, session.failed},
         \A d \in Callers \ {c} : stage'[d] = stage[d] /\ result'[d] = result[d],
         stage[c] \in {"new", "attempt"},
         \/ stage'[c] \in {"new", "attempt"} /\ result'[c] = result[c]
         \/ stage'[c] = "account" /\ result'[c] \in Booked
         \/ stage'[c] = "done" /\ result'[c] \notin Booked
  PROVE  BooksStay
  <1>1. result[c] = "none"
    BY DEF LeakInv
  <1>2. "none" \notin Booked /\ {"returned"} \subseteq Booked /\ Failures \subseteq Booked
    BY DEF Booked, Failures
  <1>3. \A rs \in {{"returned"}, Failures} :
          /\ ~Tracked(rs, c) /\ ~Closed(rs, c)
          /\ ~Tracked(rs, c)' /\ ~Closed(rs, c)'
    BY <1>1, <1>2 DEF Tracked, Closed
  <1>4. \A d \in Callers \ {c}, rs \in {{"returned"}, Failures} :
          Tracked(rs, d)' = Tracked(rs, d) /\ Closed(rs, d)' = Closed(rs, d)
    BY DEF Tracked, Closed
  <1>5. \A d \in Callers : stage'[d] \in {"account", "session"} => result'[d] \in Booked
    BY DEF BooksInv
  <1>6. \A d \in Callers, rs \in {{"returned"}, Failures} :
          Tracked(rs, d)' = Tracked(rs, d) /\ Closed(rs, d)' = Closed(rs, d)
    <2> SUFFICES ASSUME NEW d \in Callers, NEW rs \in {{"returned"}, Failures}
                 PROVE  /\ Tracked(rs, d)' <=> Tracked(rs, d)
                        /\ Closed(rs, d)' <=> Closed(rs, d)
      BY DEF Tracked, Closed
    <2> QED BY <1>3, <1>4
  <1> QED BY <1>5, <1>6 DEF BooksStay

LEMMA BooksEffect ==
  ASSUME DeliveryTypes, DeliveryInv, LeakInv, BooksInv, [GroqNext]_allvars
  PROVE  BooksStay \/ \E c \in Callers : RecordUsage(c) \/ RecordSession(c)
  <1> USE DEF DeliveryTypes
  <1>0. /\ {"returned", "denied", "exhausted"} \subseteq Booked
        /\ {"disabled", "abandoned", "broken", "unavailable", "expired"} \cap Booked = {}
    BY DEF Booked, Failures
  <1>1. ASSUME NEW c \in Callers, Answer(c) \/ GiveUp(c) PROVE BooksStay
    <2>1. stage[c] = "attempt"
      <3>1. Outcome(c)
        BY <1>1
        DEF Answer, CallAnswer, CallReturns, CallFails, CallKeyDisabled, CallDenied,
            StreamReturns, StreamFails, GiveUp, CallCancelled, StreamAbandoned, Outcome
      <3>2. pc[c] = "calling"
        BY <3>1, OutcomeLocation
      <3> QED BY <3>2 DEF DeliveryInv, AttemptInv
    <2>2. \/ \E res \in {"disabled", "abandoned", "broken"} : Finish(c, res)
          \/ \E res \in {"returned", "denied"} : Conclude(c, res)
          \/ RetryOrGiveUp(c)
      BY <1>1
      DEF Answer, CallAnswer, CallReturns, CallFails, CallKeyDisabled, CallDenied,
          StreamReturns, StreamFails, GiveUp, CallCancelled, StreamAbandoned
    <2>3. UNCHANGED <<usage, session, journal>>
      BY <2>2 DEF Finish, Conclude, RetryOrGiveUp, books
    <2>4. \A d \in Callers \ {c} : stage'[d] = stage[d] /\ result'[d] = result[d]
      BY <2>2 DEF Finish, Conclude, RetryOrGiveUp, GroqTypeOK
    <2>5. \/ stage'[c] = "attempt" /\ result'[c] = result[c]
          \/ stage'[c] = "account" /\ result'[c] \in Booked
          \/ stage'[c] = "done" /\ result'[c] \notin Booked
      <3>1. CASE \E res \in {"disabled", "abandoned", "broken"} : Finish(c, res)
        BY <1>0, <3>1 DEF Finish, GroqTypeOK
      <3>2. ASSUME NEW res \in {"returned", "denied", "exhausted"}, Conclude(c, res)
            PROVE  stage'[c] = "account" /\ result'[c] \in Booked
        BY <1>0, <3>2 DEF Conclude, GroqTypeOK
      <3>3. CASE RetryOrGiveUp(c)
        BY <2>1, <3>2, <3>3 DEF RetryOrGiveUp
      <3> QED BY <2>2, <3>1, <3>2, <3>3
    <2> QED BY <2>1, <2>3, <2>4, <2>5, UnbookedMove
  <1>2. ASSUME UNCHANGED <<stage, result, usage, journal>>,
               session'.succeeded = session.succeeded, session'.failed = session.failed
        PROVE  BooksStay
    BY <1>2 DEF BooksStay, Tracked, Closed, BooksInv
  <1>3. ASSUME NEW c \in Callers, ChooseKeyAfresh(c) PROVE BooksStay
    BY <1>2, <1>3 DEF ChooseKeyAfresh, ChooseKey, books
  <1>4. ASSUME NEW c \in Callers, LoopStep(c), ~RecordUsage(c), ~RecordSession(c)
        PROVE  BooksStay
    <2>1. CASE ResolveSession(c)
      <3>1. /\ session'.succeeded \in {0, session.succeeded}
            /\ session'.failed \in {0, session.failed}
        BY <2>1 DEF ResolveSession, NewSession
      <3>2. /\ UNCHANGED <<usage, journal>> /\ stage[c] = "new"
            /\ \A d \in Callers \ {c} : stage'[d] = stage[d] /\ result'[d] = result[d]
            /\ \/ stage'[c] = "done" /\ result'[c] = "expired"
               \/ stage'[c] = "attempt" /\ result'[c] = result[c]
        BY <2>1 DEF ResolveSession, GroqTypeOK
      <3> QED BY <1>0, <3>1, <3>2, UnbookedMove
    <2>2. CASE StartAttempt(c) \/ Gather(c) \/ Breaker(c)
      BY <1>2, <2>2 DEF StartAttempt, Gather, Breaker, rvars
    <2>3. CASE NoKeyLeft(c)
      <3>1. pc[c] = "raise"
        BY <2>3 DEF NoKeyLeft, RaiseNoAvailable
      <3>2. stage[c] = "attempt"
        BY <3>1 DEF DeliveryInv, AttemptInv, Acquiring
      <3>3. /\ UNCHANGED <<usage, session, journal>>
            /\ \A d \in Callers \ {c} : stage'[d] = stage[d] /\ result'[d] = result[d]
            /\ stage'[c] = "done" /\ result'[c] = "unavailable"
        BY <2>3 DEF NoKeyLeft, Finish, books, GroqTypeOK
      <3> QED BY <1>0, <3>2, <3>3, UnbookedMove
    <2> QED BY <1>4, <2>1, <2>2, <2>3 DEF LoopStep
  <1>5. ASSUME NEW c \in Callers, StreamYields(c) PROVE BooksStay
    BY <1>2, <1>5 DEF StreamYields, rvars
  <1>6. CASE (TimePasses \/ SessionExpires) /\ UNCHANGED svars
    <2>1. CASE TimePasses
      BY <1>2, <2>1 DEF TimePasses, rvars
    <2>2. CASE SessionExpires
      BY <1>2, <2>2 DEF SessionExpires, GroqTypeOK
    <2> QED BY <1>6, <2>1, <2>2
  <1>7. CASE UNCHANGED allvars
    BY <1>2, <1>7 DEF allvars, rvars
  <1> QED BY <1>1, <1>3, <1>4, <1>5, <1>6, <1>7 DEF GroqNext, Progress

(* What one caller does to the sizes of the sets above.                    *)
LEMMA BookedMove ==
  ASSUME NEW c \in Callers, NEW rs,
         \A d \in Callers \ {c} : stage'[d] = stage[d] /\ result'[d] = result[d]
  PROVE  /\ Cardinality(TrackedBy(rs)) \in Nat /\ Cardinality(ClosedBy(rs)) \in Nat
         /\ (Tracked(rs, c) <=> Tracked(rs, c)') =>
              Cardinality(TrackedBy(rs)') = Cardinality(TrackedBy(rs))
         /\ ~Tracked(rs, c) /\ Tracked(rs, c)' =>
              Cardinality(TrackedBy(rs)') = Cardinality(TrackedBy(rs)) + 1
         /\ (Closed(rs, c) <=> Closed(rs, c)') =>
              Cardinality(ClosedBy(rs)') = Cardinality(ClosedBy(rs))
         /\ ~Closed(rs, c) /\ Closed(rs, c)' =>
              Cardinality(ClosedBy(rs)') = Cardinality(ClosedBy(rs)) + 1
  <1> DEFINE A == TrackedBy(rs)
             B == TrackedBy(rs)'
             C == ClosedBy(rs)
             D == ClosedBy(rs)'
  <1>1. /\ A \in SUBSET Callers /\ B \in SUBSET Callers /\ A \ {c} = B \ {c}
        /\ c \in A <=> Tracked(rs, c)
        /\ c \in B <=> Tracked(rs, c)'
    BY DEF TrackedBy, Tracked
  <1>2. /\ C \in SUBSET Callers /\ D \in SUBSET Callers /\ C \ {c} = D \ {c}
        /\ c \in C <=> Closed(rs, c)
        /\ c \in D <=> Closed(rs, c)'
    BY DEF ClosedBy, Closed
  <1> HIDE DEF A, B, C, D
  <1>3. /\ Cardinality(A) \in Nat
        /\ (Tracked(rs, c) <=> Tracked(rs, c)') => Cardinality(B) = Cardinality(A)
        /\ ~Tracked(rs, c) /\ Tracked(rs, c)' => Cardinality(B) = Cardinality(A) + 1
    BY <1>1, CountChange, CallersAssumption
  <1>4. /\ Cardinality(C) \in Nat
        /\ (Closed(rs, c) <=> Closed(rs, c)') => Cardinality(D) = Cardinality(C)
        /\ ~Closed(rs, c) /\ Closed(rs, c)' => Cardinality(D) = Cardinality(C) + 1
    BY <1>2, CountChange, CallersAssumption
  <1> QED BY <1>3, <1>4 DEF A, B, C, D

LEMMA Counting ==
  ASSUME NEW t, NEW c, DOMAIN t = {"state", "succeeded", "failed", "retried"}
                       \/ DOMAIN t = {"succeeded", "failed", "retried"}
  PROVE  /\ result[c] = "returned" =>
              /\ Counted(t, c).succeeded = t.succeeded + 1
              /\ Counted(t, c).failed = t.failed
         /\ result[c] # "returned" =>
              /\ Counted(t, c).succeeded = t.succeeded
              /\ Counted(t, c).failed = t.failed + 1
  <1> DEFINE s1 == IF result[c] = "returned" THEN t.succeeded + 1 ELSE t.succeeded
             f1 == IF result[c] = "returned" THEN t.failed ELSE t.failed + 1
             r1 == IF Retried(c) THEN t.retried + 1 ELSE t.retried
  <1>1. Counted(t, c) = [t EXCEPT !.succeeded = s1, !.failed = f1, !.retried = r1]
    BY DEF Counted
  <1>2. Counted(t, c).succeeded = s1 /\ Counted(t, c).failed = f1
    <2> HIDE DEF s1, f1, r1
    <2> QED BY <1>1
  <1> QED BY <1>2

(* A caller that moves on in its books: what is to be told of the step.    *)
LEMMA RecordedMove ==
  ASSUME GroqTypeOK, BooksInv, NEW c \in Callers,
         RecordUsage(c) \/ RecordSession(c)
  PROVE  /\ result' = result
         /\ result[c] \in Booked
         /\ stage'[c] \in {"session", "done"}
         /\ \A d \in Callers \ {c} : stage'[d] = stage[d] /\ result'[d] = result[d]
         /\ \A d \in Callers : stage'[d] \in {"account", "session"} => result'[d] \in Booked
  BY DEF RecordUsage, RecordSession, GroqTypeOK, BooksInv

LEMMA UsageBooked ==
  ASSUME GroqTypeOK, BooksInv, NEW c \in Callers, RecordUsage(c)
  PROVE  BooksInv'
  <1>1. /\ stage[c] = "account" /\ stage'[c] = "session" /\ result' = result
        /\ UNCHANGED <<session, journal>> /\ usage' = Counted(usage, c)
    BY DEF RecordUsage, GroqTypeOK
  <1>2. /\ result[c] \in Booked
        /\ \A d \in Callers \ {c} : stage'[d] = stage[d] /\ result'[d] = result[d]
        /\ \A d \in Callers : stage'[d] \in {"account", "session"} => result'[d] \in Booked
    BY RecordedMove
  <1>3. DOMAIN usage = {"succeeded", "failed", "retried"}
    BY DEF GroqTypeOK
  <1>4. \A rs : ~Tracked(rs, c) /\ (Tracked(rs, c)' <=> result[c] \in rs)
    BY <1>1 DEF Tracked
  <1>5. \A rs : ~Closed(rs, c) /\ ~Closed(rs, c)'
    BY <1>1 DEF Closed
  <1>6. \A rs :
          /\ Cardinality(TrackedBy(rs)) \in Nat
          /\ Cardinality(ClosedBy(rs)') = Cardinality(ClosedBy(rs))
          /\ result[c] \notin rs =>
               Cardinality(TrackedBy(rs)') = Cardinality(TrackedBy(rs))
          /\ result[c] \in rs =>
               Cardinality(TrackedBy(rs)') = Cardinality(TrackedBy(rs)) + 1
    BY <1>2, <1>4, <1>5, BookedMove
  <1>7. /\ result[c] = "returned" =>
             /\ usage'.succeeded = usage.succeeded + 1 /\ usage'.failed = usage.failed
             /\ result[c] \in {"returned"} /\ result[c] \notin Failures
        /\ result[c] # "returned" =>
             /\ usage'.succeeded = usage.succeeded /\ usage'.failed = usage.failed + 1
             /\ result[c] \notin {"returned"} /\ result[c] \in Failures
    <2>1. result[c] = "returned" => result[c] \notin Failures
      BY DEF Failures
    <2>2. result[c] # "returned" => result[c] \in Failures
      BY <1>2 DEF Booked
    <2> QED BY <1>1, <1>3, <2>1, <2>2, Counting
  <1>8. BooksAgree'
    <2>1. CASE result[c] = "returned"
      BY <1>1, <1>6, <1>7, <2>1, BooksAgreeIs DEF BooksInv
    <2>2. CASE result[c] # "returned"
      BY <1>1, <1>6, <1>7, <2>2, BooksAgreeIs DEF BooksInv
    <2> QED BY <2>1, <2>2
  <1> QED BY <1>2, <1>8 DEF BooksInv

LEMMA SessionBooked ==
  ASSUME GroqTypeOK, BooksInv, NEW c \in Callers, RecordSession(c)
  PROVE  BooksInv'
  <1>1. /\ stage[c] = "session" /\ stage'[c] = "done" /\ result' = result
        /\ usage' = usage
        /\ journal' = IF result[c] = "returned" THEN journal + 1 ELSE journal
    BY DEF RecordSession, GroqTypeOK
  <1>2. /\ result[c] \in Booked
        /\ \A d \in Callers \ {c} : stage'[d] = stage[d] /\ result'[d] = result[d]
        /\ \A d \in Callers : stage'[d] \in {"account", "session"} => result'[d] \in Booked
    BY RecordedMove
  <1>3. DOMAIN session = {"state", "succeeded", "failed", "retried"}
    BY DEF GroqTypeOK
  <1>4. \A rs : Tracked(rs, c)' <=> Tracked(rs, c)
    BY <1>1 DEF Tracked
  <1>5. \A rs : ~Closed(rs, c) /\ (Closed(rs, c)' <=> result[c] \in rs)
    BY <1>1 DEF Closed
  <1>6. \A rs :
          /\ Cardinality(ClosedBy(rs)) \in Nat
          /\ Cardinality(TrackedBy(rs)') = Cardinality(TrackedBy(rs))
          /\ result[c] \notin rs =>
               Cardinality(ClosedBy(rs)') = Cardinality(ClosedBy(rs))
          /\ result[c] \in rs =>
               Cardinality(ClosedBy(rs)') = Cardinality(ClosedBy(rs)) + 1
    BY <1>2, <1>4, <1>5, BookedMove
  <1>7. /\ result[c] = "returned" =>
             result[c] \in {"returned"} /\ result[c] \notin Failures
        /\ result[c] # "returned" =>
             result[c] \notin {"returned"} /\ result[c] \in Failures
    <2>1. result[c] = "returned" => result[c] \notin Failures
      BY DEF Failures
    <2>2. result[c] # "returned" => result[c] \in Failures
      BY <1>2 DEF Booked
    <2> QED BY <2>1, <2>2
  <1>8. \/ session' = Counted(session, c)
        \/ session'.succeeded = 0 /\ session'.failed = 0
        \/ session' = session
    BY DEF RecordSession, NewSession
  <1>9. /\ result[c] = "returned" =>
             /\ session'.succeeded \in {0, session.succeeded, session.succeeded + 1}
             /\ session'.failed \in {0, session.failed}
        /\ result[c] # "returned" =>
             /\ session'.succeeded \in {0, session.succeeded}
             /\ session'.failed \in {0, session.failed, session.failed + 1}
    BY <1>3, <1>8, Counting
  <1>10. BooksAgree'
    <2>1. CASE result[c] = "returned"
      BY <1>1, <1>6, <1>7, <1>9, <2>1, BooksAgreeIs, BooksAreNumbers DEF BooksInv
    <2>2. CASE result[c] # "returned"
      BY <1>1, <1>6, <1>7, <1>9, <2>2, BooksAgreeIs, BooksAreNumbers DEF BooksInv
    <2> QED BY <2>1, <2>2
  <1> QED BY <1>2, <1>10 DEF BooksInv

LEMMA BooksStep ==
  DeliveryTypes /\ DeliveryInv /\ LeakInv /\ BooksInv /\ [GroqNext]_allvars => BooksInv'
  BY BooksEffect, BooksStayInv, UsageBooked, SessionBooked DEF DeliveryTypes

(* However many requests end in whatever order, and whenever the session   *)
(* expires, the usage totals and the journal are what the outcomes of the  *)
(* requests say, and the session never counts more than there was.         *)
THEOREM OutcomesAreBooked == GroqSpec => []BooksAgree
  <1>1. GroqSpec => []DeliveryTypes
    BY GroqTypeCorrect, ServiceIsSchedulerClient, TypeCorrect, PTL DEF DeliveryTypes
  <1>2. GroqSpec => []DeliveryInv
    BY DeliveryInit, DeliveryStep, <1>1, PTL DEF GroqSpec
  <1>3. GroqSpec => []LeakInv
    BY LeakInit, LeakStep, <1>1, <1>2, PTL DEF GroqSpec
  <1>4. BooksInv => BooksAgree
    BY DEF BooksInv
  <1> QED BY BooksInit, BooksStep, <1>1, <1>2, <1>3, <1>4, PTL DEF GroqSpec

=============================================================================
