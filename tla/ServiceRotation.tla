-------------------------- MODULE ServiceRotation --------------------------
(***************************************************************************)
(* The retry loop of GroqService and GeminiService (_run_with_rotation and *)
(* its generic and async twins), on top of RequestScheduler.  Each caller  *)
(* sends one request: it resolves its session, then acquires a key, calls  *)
(* upstream and reports the outcome, once per attempt, until the request   *)
(* returns, is given up or is cut short; then the books are written.       *)
(*                                                                         *)
(* Every step of the scheduler here is an action of RequestScheduler taken *)
(* together with what the loop does around it.  The services add their     *)
(* streams to this module: GroqService retries them, GeminiService does    *)
(* not.  All requests of a service instance share one session, as they do  *)
(* when no session_id is given.                                            *)
(***************************************************************************)
EXTENDS RequestScheduler

CONSTANTS
  Retries,   (* config.retries: attempts after the first                   *)
  Strategy   (* "any" candidate, or the one "priority_failover" selects    *)

ASSUME RetriesAssumption == Retries \in Nat
ASSUME StrategyAssumption == Strategy \in {"any", "priority_failover"}

VARIABLES
  stage,    (* how far each request is                                     *)
  kind,     (* a call of _run_with_rotation, or a stream                   *)
  attempt,  (* the attempt it is at, from 0                                *)
  key,      (* the key of its latest attempt                               *)
  result,   (* what its caller gets                                        *)
  usage,    (* lifetime totals of the usage tracker                        *)
  session,  (* the shared session and its totals                           *)
  journal   (* entries of the request journal                              *)

books == <<usage, session, journal>>

rvars == <<stage, kind, attempt, key, result, usage, session, journal>>

Stage == {"new", "attempt", "account", "session", "finally", "done"}

Kind == {"call", "stream"}

(* returned    the response, or the whole stream                           *)
(* exhausted   RetryExhaustedError after the last attempt                  *)
(* denied      RetryExhaustedError after an authentication error           *)
(* disabled    APIKeyDisabledError                                         *)
(* unavailable NoAvailableAPIKeyError                                      *)
(* broken      a stream's own error, after its slot was given back         *)
(* refused     a stream's own error, after its key was disabled            *)
(* abandoned   nothing: the caller cancelled, or dropped the stream        *)
(* expired     SessionExpiredError                                         *)
Result ==
  {"none", "returned", "exhausted", "denied", "disabled", "unavailable",
   "broken", "refused", "abandoned", "expired"}

NoTotals == [succeeded |-> 0, failed |-> 0, retried |-> 0]

NewSession(state) ==
  [state |-> state, succeeded |-> 0, failed |-> 0, retried |-> 0]

RInit ==
  /\ Init
  /\ stage = [c \in Callers |-> "new"]
  /\ kind = [c \in Callers |-> "call"]
  /\ attempt = [c \in Callers |-> 0]
  /\ key = [c \in Callers |-> NoKey]
  /\ result = [c \in Callers |-> "none"]
  /\ usage = NoTotals
  /\ session = NewSession("absent")
  /\ journal = 0

-----------------------------------------------------------------------------

(* The request ends here, and leaves no trace in the books.                *)
Finish(c, res) ==
  /\ stage' = [stage EXCEPT ![c] = "done"]
  /\ result' = [result EXCEPT ![c] = res]
  /\ UNCHANGED <<kind, attempt, key, books>>

(* The loop is over; _record_success or _record_failure comes next.        *)
Conclude(c, res) ==
  /\ stage' = [stage EXCEPT ![c] = "account"]
  /\ result' = [result EXCEPT ![c] = res]
  /\ UNCHANGED <<kind, attempt, key, books>>

(* Mutant of RetryOrGiveUp: the attempt is not counted.                    *)
RetryForever(c) == UNCHANGED rvars

(* Mutant of RetryOrGiveUp: one attempt too many.                          *)
RetryOnceMore(c) ==
  IF attempt[c] <= Retries
    THEN /\ attempt' = [attempt EXCEPT ![c] = @ + 1]
         /\ UNCHANGED <<stage, kind, key, result, books>>
    ELSE Conclude(c, "exhausted")

(* The next attempt, or RetryExhaustedError after the last one.            *)
RetryOrGiveUp(c) ==
  IF attempt[c] < Retries
    THEN /\ attempt' = [attempt EXCEPT ![c] = @ + 1]
         /\ UNCHANGED <<stage, kind, key, result, books>>
    ELSE Conclude(c, "exhausted")

(* get_or_create: an expired session is dropped and fails the request.     *)
ResolveSession(c) ==
  /\ stage[c] = "new"
  /\ \E d \in Kind : kind' = [kind EXCEPT ![c] = d]
  /\ IF session.state = "expired"
       THEN /\ stage' = [stage EXCEPT ![c] = "done"]
            /\ result' = [result EXCEPT ![c] = "expired"]
            /\ session' = NewSession("absent")
       ELSE /\ stage' = [stage EXCEPT ![c] = "attempt"]
            /\ session' = IF session.state = "open" THEN session
                                                    ELSE NewSession("open")
            /\ UNCHANGED result
  /\ UNCHANGED <<vars, attempt, key, usage, journal>>

StartAttempt(c) ==
  /\ stage[c] = "attempt"
  /\ BeginAcquire(c)
  /\ UNCHANGED rvars

Gather(c) == GatherStep(c) /\ UNCHANGED rvars

(* PriorityFailoverStrategy takes the candidate that is first in the list. *)
ChooseKey(c) ==
  /\ SelectKey(c)
  /\ Strategy = "priority_failover" =>
       \A k \in cands[c] : held'[c] <= k
  /\ key' = [key EXCEPT ![c] = held'[c]]
  /\ UNCHANGED <<stage, kind, attempt, result, books>>

NoKeyLeft(c) == RaiseNoAvailable(c) /\ Finish(c, "unavailable")

CallReturns(c) ==
  /\ kind[c] = "call"
  /\ ReleaseKey(c)
  /\ Conclude(c, "returned")

CallFails(c) ==
  /\ kind[c] = "call"
  /\ MarkRateLimited(c) \/ MarkFailure(c)
  /\ RetryOrGiveUp(c)

(* APIKeyDisabledError is raised again at once.                            *)
CallKeyDisabled(c) ==
  /\ kind[c] = "call"
  /\ DisableKey(c)
  /\ Finish(c, "disabled")

(* Any other authentication error ends the loop.                           *)
CallDenied(c) ==
  /\ kind[c] = "call"
  /\ DisableKey(c)
  /\ Conclude(c, "denied")

(* Cancellation is no Exception: neither except clause sees it.            *)
CallCancelled(c) ==
  /\ kind[c] = "call"
  /\ AbandonCall(c)
  /\ Finish(c, "abandoned")

Breaker(c) == BreakerStep(c) /\ UNCHANGED rvars

-----------------------------------------------------------------------------

(* The flag says that there was a retry; for a failure the code derives it *)
(* from the configuration alone.                                           *)
Retried(c) == IF result[c] = "returned" THEN attempt[c] > 0 ELSE Retries > 0

(* Mutant of Counted: a failure counts as a success as well.               *)
CountedTwice(totals, c) ==
  [totals EXCEPT
     !.succeeded = @ + 1,
     !.failed = IF result[c] = "returned" THEN @ ELSE @ + 1,
     !.retried = IF Retried(c) THEN @ + 1 ELSE @]

Counted(totals, c) ==
  [totals EXCEPT
     !.succeeded = IF result[c] = "returned" THEN @ + 1 ELSE @,
     !.failed = IF result[c] = "returned" THEN @ ELSE @ + 1,
     !.retried = IF Retried(c) THEN @ + 1 ELSE @]

(* TrackingManager.record_success or record_failure.                       *)
RecordUsage(c) ==
  /\ stage[c] = "account"
  /\ pc[c] = "idle"
  /\ usage' = Counted(usage, c)
  /\ stage' = [stage EXCEPT ![c] = "session"]
  /\ UNCHANGED <<vars, kind, attempt, key, result, session, journal>>

(* SessionManager.get drops an expired session, and then nothing is added  *)
(* to it; only successes reach the journal.                                *)
RecordSession(c) ==
  /\ stage[c] = "session"
  /\ session' = CASE session.state = "open"    -> Counted(session, c)
                  [] session.state = "expired" -> NewSession("absent")
                  [] OTHER                     -> session
  /\ journal' = IF result[c] = "returned" THEN journal + 1 ELSE journal
  /\ stage' = [stage EXCEPT ![c] = "done"]
  /\ UNCHANGED <<vars, kind, attempt, key, result, usage>>

SessionExpires ==
  /\ session.state = "open"
  /\ session' = [session EXCEPT !.state = "expired"]
  /\ UNCHANGED <<vars, stage, kind, attempt, key, result, usage, journal>>

TimePasses == Tick /\ UNCHANGED rvars

-----------------------------------------------------------------------------

(* The loop's own steps, up to the answer of the upstream call.            *)
LoopStep(c) ==
  \/ ResolveSession(c) \/ StartAttempt(c) \/ Gather(c) \/ NoKeyLeft(c)
  \/ Breaker(c) \/ RecordUsage(c) \/ RecordSession(c)

(* What may come of a call.                                                *)
CallAnswer(c) ==
  CallReturns(c) \/ CallFails(c) \/ CallKeyDisabled(c) \/ CallDenied(c)

-----------------------------------------------------------------------------

Done(c) == stage[c] = "done"

(* The requests whose result is among rs and that are at one of stages ss. *)
Ended(rs, ss) == {c \in Callers : result[c] \in rs /\ stage[c] \in ss}

Failures == {"exhausted", "denied"}

(* The ways out of a call that do not give its slot back.                  *)
Leaky == {"abandoned", "disabled", "denied"}

(* The books tell what happened: each request that returned is in the      *)
(* usage totals as one success, each RetryExhaustedError as one failure,   *)
(* no other outcome leaves a trace, the journal has the successes, and a   *)
(* session has never counted more than the usage tracker, though requests  *)
(* end in any order and the session may expire between two records         *)
(* (_record_success, _record_failure).                                     *)
BooksAgree ==
  LET tracked == {"session", "done"} IN
  /\ usage.succeeded = Cardinality(Ended({"returned"}, tracked))
  /\ usage.failed = Cardinality(Ended(Failures, tracked))
  /\ journal = Cardinality(Ended({"returned"}, {"done"}))
  /\ session.succeeded <= Cardinality(Ended({"returned"}, {"done"}))
  /\ session.failed <= Cardinality(Ended(Failures, {"done"}))

(* Once every request is over, the only slots still taken are those of     *)
(* calls that were cancelled or whose key was refused: all other ways out  *)
(* of the loop give back the slot of every attempt.                        *)
SlotsComeBack ==
  (\A c \in Callers :
     Done(c) /\ pc[c] = "idle" /\ result[c] \notin Leaky)
  => \A k \in Keys : keys[k].active_requests = 0

(* Every request comes to an end: attempts run out, and nobody keeps the   *)
(* scheduler's lock from the others.                                       *)
RequestsEnd == \A c \in Callers : (stage[c] = "attempt") ~> Done(c)

(* provider.py:606-613: "each retry should acquire a *different* key from  *)
(* the pool".  A retry that has another key to choose does not take the    *)
(* one that has just failed.  The strategies know nothing of the request:  *)
(* priority_failover chooses a failing primary again and again.            *)
RetryChangesKey ==
  [][\A c \in Callers :
       /\ pc[c] = "select" /\ pc'[c] = "calling"
       /\ attempt[c] > 0
       /\ cands[c] # {key[c]}
       => held'[c] # key[c]]_<<vars, rvars>>

=============================================================================
