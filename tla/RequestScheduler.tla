-------------------------- MODULE RequestScheduler --------------------------
(***************************************************************************)
(* RequestScheduler (pool/scheduler.py) shared by concurrent callers.      *)
(*                                                                         *)
(* acquire_key runs under _sync_lock, but reads the keys one attribute at  *)
(* a time while calls that already hold a key report their outcome without *)
(* that lock.  A caller therefore takes one step per read of a key, and    *)
(* the outcome handlers interleave with those reads:                       *)
(*                                                                         *)
(*   idle -> scan/slots -> [cool/status/reset -> rescan/reslots] -> select *)
(*        -> calling -> idle, or -> check -> trip -> idle on a failure     *)
(*                                                                         *)
(* A caller is a thread or task of a service; it may acquire again after   *)
(* every outcome.  The strategy's choice among the candidates is left open *)
(* here: any candidate may be selected.                                    *)
(***************************************************************************)
EXTENDS APIKeyState, FiniteSets

CONSTANTS
  Callers,   (* concurrent users of the scheduler                          *)
  NoCaller,  (* nobody: the lock is free                                   *)
  NumKeys    (* the scheduler's keys, in the order of its list             *)

ASSUME CallersAssumption == IsFiniteSet(Callers) /\ NoCaller \notin Callers
ASSUME NumKeysAssumption == NumKeys \in Nat \ {0}

Keys == 1..NumKeys

NoKey == 0

VARIABLES
  keys,    (* the state of each key                                        *)
  lock,    (* the caller inside _sync_lock                                 *)
  pc,      (* where each caller is                                         *)
  at,      (* the key its current pass over the list has reached           *)
  cands,   (* the candidates that pass has collected                       *)
  held,    (* the key acquire_key returned to it                           *)
  lost     (* per key, slots no running call holds and no one gives back   *)

vars == <<keys, lock, pc, at, cands, held, lost>>

FirstPass == {"scan", "slots"}

ResetPass == {"cool", "status", "reset"}

SecondPass == {"rescan", "reslots"}

Acquiring == FirstPass \cup ResetPass \cup SecondPass \cup {"select", "raise"}

Location == {"idle", "calling", "check", "trip"} \cup Acquiring

(* The calls that occupy a slot of key k.                                  *)
InFlight(k) == {c \in Callers : pc[c] = "calling" /\ held[c] = k}

-----------------------------------------------------------------------------

Init ==
  /\ keys = [k \in Keys |-> NewKey]
  /\ lock = NoCaller
  /\ pc = [c \in Callers |-> "idle"]
  /\ at = [c \in Callers |-> 1]
  /\ cands = [c \in Callers |-> {}]
  /\ held = [c \in Callers |-> NoKey]
  /\ lost = [k \in Keys |-> 0]

(* Mutant of NextKey: a pass that stops one key short.                     *)
NextKeyShort(c, same, after) ==
  IF at[c] < NumKeys - 1
    THEN /\ at' = [at EXCEPT ![c] = @ + 1]
         /\ pc' = [pc EXCEPT ![c] = same]
    ELSE /\ at' = [at EXCEPT ![c] = 1]
         /\ pc' = [pc EXCEPT ![c] = after]

(* Continue the pass with the next key, or go on to what follows the pass. *)
NextKey(c, same, after) ==
  IF at[c] < NumKeys
    THEN /\ at' = [at EXCEPT ![c] = @ + 1]
         /\ pc' = [pc EXCEPT ![c] = same]
    ELSE /\ at' = [at EXCEPT ![c] = 1]
         /\ pc' = [pc EXCEPT ![c] = after]

(* After a scan: select if it found anything, else the given fallback.     *)
Scanned(found, fallback) == IF found # {} THEN "select" ELSE fallback

BeginAcquire(c) ==
  /\ pc[c] = "idle"
  /\ lock = NoCaller
  /\ lock' = c
  /\ pc' = [pc EXCEPT ![c] = "scan"]
  /\ at' = [at EXCEPT ![c] = 1]
  /\ cands' = [cands EXCEPT ![c] = {}]
  /\ UNCHANGED <<keys, held, lost>>

(* is_available, first half: status and cooldown of the key.               *)
ReadStatus(c, here, slots, fallback) ==
  /\ pc[c] = here
  /\ LET s == keys[at[c]] IN
       IF s.status = "ACTIVE" /\ ~IsCoolingDown(s)
         THEN /\ pc' = [pc EXCEPT ![c] = slots]
              /\ UNCHANGED at
         ELSE NextKey(c, here, Scanned(cands[c], fallback))
  /\ UNCHANGED <<keys, lock, cands, held, lost>>

(* is_available, second half: the slot count; then the second look at the  *)
(* status that the comprehension takes before it keeps the key.            *)
ReadSlots(c, here, scan, fallback) ==
  /\ pc[c] = here
  /\ LET s == keys[at[c]]
         found == IF HasFreeSlot(s) /\ ~Retired(s)
                    THEN cands[c] \cup {at[c]} ELSE cands[c]
     IN /\ cands' = [cands EXCEPT ![c] = found]
        /\ NextKey(c, scan, Scanned(found, fallback))
  /\ UNCHANGED <<keys, lock, held, lost>>

ScanStatus(c) == ReadStatus(c, "scan", "slots", "cool")

ScanSlots(c) == ReadSlots(c, "slots", "scan", "cool")

(* Nothing available: look for keys whose cooldown has run out.            *)
CheckCooling(c) ==
  /\ pc[c] = "cool"
  /\ IF IsCoolingDown(keys[at[c]])
       THEN NextKey(c, "cool", "rescan")
       ELSE /\ pc' = [pc EXCEPT ![c] = "status"]
            /\ UNCHANGED at
  /\ UNCHANGED <<keys, lock, cands, held, lost>>

CheckRateLimited(c) ==
  /\ pc[c] = "status"
  /\ IF keys[at[c]].status = "RATE_LIMITED"
       THEN /\ pc' = [pc EXCEPT ![c] = "reset"]
            /\ UNCHANGED at
       ELSE NextKey(c, "cool", "rescan")
  /\ UNCHANGED <<keys, lock, cands, held, lost>>

ResetKey(c) ==
  /\ pc[c] = "reset"
  /\ keys' = [keys EXCEPT ![at[c]] = ResetCooldown(@)]
  /\ NextKey(c, "cool", "rescan")
  /\ UNCHANGED <<lock, cands, held, lost>>

(* Mutant of RescanStatus: keep waiting for a key while holding the lock.  *)
RescanForever(c) == ReadStatus(c, "rescan", "reslots", "cool")

RescanStatus(c) == ReadStatus(c, "rescan", "reslots", "raise")

RescanSlots(c) == ReadSlots(c, "reslots", "rescan", "raise")

(* The strategy picks a candidate, its slot is taken, the lock is left.    *)
SelectKey(c) ==
  /\ pc[c] = "select"
  /\ \E k \in cands[c] :
       /\ keys' = [keys EXCEPT ![k] = RecordRequestStart(@)]
       /\ held' = [held EXCEPT ![c] = k]
  /\ cands' = [cands EXCEPT ![c] = {}]
  /\ lock' = NoCaller
  /\ pc' = [pc EXCEPT ![c] = "calling"]
  /\ UNCHANGED <<at, lost>>

(* NoAvailableAPIKeyError leaves the lock and the caller.                  *)
RaiseNoAvailable(c) ==
  /\ pc[c] = "raise"
  /\ lock' = NoCaller
  /\ pc' = [pc EXCEPT ![c] = "idle"]
  /\ UNCHANGED <<keys, at, cands, held, lost>>

-----------------------------------------------------------------------------

(* The outcomes of a call; none of them takes _sync_lock.                  *)

LeaveKey(c) ==
  /\ held' = [held EXCEPT ![c] = NoKey]
  /\ pc' = [pc EXCEPT ![c] = "idle"]

ReleaseKey(c) ==
  /\ pc[c] = "calling"
  /\ keys' = [keys EXCEPT ![held[c]] = RecordRequestEnd(@)]
  /\ LeaveKey(c)
  /\ UNCHANGED <<lock, at, cands, lost>>

MarkRateLimited(c) ==
  /\ pc[c] = "calling"
  /\ keys' = [keys EXCEPT ![held[c]] = RecordRateLimit(@)]
  /\ LeaveKey(c)
  /\ UNCHANGED <<lock, at, cands, lost>>

(* mark_key_failure for any other error: the failure is recorded under the *)
(* key's lock, the counter is read and the key is marked after it.         *)
MarkFailure(c) ==
  /\ pc[c] = "calling"
  /\ keys' = [keys EXCEPT ![held[c]] = RecordFailure(@)]
  /\ pc' = [pc EXCEPT ![c] = "check"]
  /\ UNCHANGED <<lock, at, cands, held, lost>>

CheckThreshold(c) ==
  /\ pc[c] = "check"
  /\ IF ReachedThreshold(keys[held[c]])
       THEN /\ pc' = [pc EXCEPT ![c] = "trip"]
            /\ UNCHANGED held
       ELSE LeaveKey(c)
  /\ UNCHANGED <<keys, lock, at, cands, lost>>

TripBreaker(c) ==
  /\ pc[c] = "trip"
  /\ keys' = [keys EXCEPT ![held[c]] = MarkFailed(@)]
  /\ LeaveKey(c)
  /\ UNCHANGED <<lock, at, cands, lost>>

(* mark_key_disabled does not give the slot back.                          *)
DisableKey(c) ==
  /\ pc[c] = "calling"
  /\ keys' = [keys EXCEPT ![held[c]] = MarkDisabled(@)]
  /\ lost' = [lost EXCEPT ![held[c]] = @ + 1]
  /\ LeaveKey(c)
  /\ UNCHANGED <<lock, at, cands>>

(* A cancelled task or an abandoned stream reports no outcome at all.      *)
AbandonCall(c) ==
  /\ pc[c] = "calling"
  /\ lost' = [lost EXCEPT ![held[c]] = @ + 1]
  /\ LeaveKey(c)
  /\ UNCHANGED <<keys, lock, at, cands>>

Tick ==
  /\ \E k \in Keys : IsCoolingDown(keys[k])
  /\ keys' = [k \in Keys |-> Elapse(keys[k])]
  /\ UNCHANGED <<lock, pc, at, cands, held, lost>>

-----------------------------------------------------------------------------

(* One step of _gather_candidates.                                         *)
GatherStep(c) ==
  \/ ScanStatus(c) \/ ScanSlots(c)
  \/ CheckCooling(c) \/ CheckRateLimited(c) \/ ResetKey(c)
  \/ RescanStatus(c) \/ RescanSlots(c)

(* One step of acquire_key after the lock is taken.                        *)
AcquireStep(c) == GatherStep(c) \/ SelectKey(c) \/ RaiseNoAvailable(c)

Outcome(c) ==
  \/ ReleaseKey(c) \/ MarkRateLimited(c) \/ MarkFailure(c)
  \/ DisableKey(c) \/ AbandonCall(c)

BreakerStep(c) == CheckThreshold(c) \/ TripBreaker(c)

Next ==
  \/ \E c \in Callers :
       BeginAcquire(c) \/ AcquireStep(c) \/ Outcome(c) \/ BreakerStep(c)
  \/ Tick

Spec == Init /\ [][Next]_vars

(* A running thread is scheduled again and again: whoever is inside        *)
(* acquire_key or mark_key_failure gets to its end.  Nothing is assumed of *)
(* the calls themselves, of the clock or of who asks for a key.            *)
FairSpec ==
  Spec /\ \A c \in Callers : WF_vars(AcquireStep(c)) /\ WF_vars(BreakerStep(c))

-----------------------------------------------------------------------------

(* Type invariant.                                                         *)
TypeOK ==
  /\ keys \in [Keys -> KeyState]
  /\ lock \in Callers \cup {NoCaller}
  /\ pc \in [Callers -> Location]
  /\ at \in [Callers -> Keys]
  /\ cands \in [Callers -> SUBSET Keys]
  /\ held \in [Callers -> Keys \cup {NoKey}]
  /\ lost \in [Keys -> Nat]

(* active_requests is exact: it counts the calls in flight on the key and  *)
(* the slots that were lost, and nothing else, whatever outcomes race with *)
(* each other (record_request_start/_end, record_failure).                 *)
SlotAccounting ==
  \A k \in Keys :
    keys[k].active_requests = Cardinality(InFlight(k)) + lost[k]

(* GROQ_MAX_ACTIVE: no more than max_parallel_requests calls are in flight *)
(* on one key, although the free slot is seen several steps before it is   *)
(* taken in acquire_key.                                                   *)
CapRespected == \A k \in Keys : Cardinality(InFlight(k)) <= MaxParallel

(* The circuit breaker misses no trip: a key whose failures have reached   *)
(* the threshold, the latest not being a 429, is out of service or some    *)
(* caller is about to look at it (mark_key_failure reads the counter after *)
(* record_failure has left the key's lock).                                *)
BreakerComplete ==
  \A k \in Keys :
    /\ keys[k].consecutive_failures >= FailureThreshold
    /\ keys[k].consecutive_429s = 0
    => \/ Retired(keys[k])
       \/ \E c \in Callers : pc[c] \in {"check", "trip"} /\ held[c] = k

(* A key that is disabled or failed, with no call left on it and in no     *)
(* scan's candidates.                                                      *)
OutOfService(k) ==
  /\ Retired(keys[k])
  /\ InFlight(k) = {}
  /\ \A c \in Callers : k \notin cands[c]

(* Such a key stays that way: neither a scan that read it earlier nor the  *)
(* reset of expired cooldowns brings it back or hands it out.              *)
OutOfServiceForGood ==
  [][\A k \in Keys : OutOfService(k) => OutOfService(k)']_vars

(* acquire_key always ends, with a key or with NoAvailableAPIKeyError; it  *)
(* never keeps _sync_lock for good.                                        *)
AcquireCompletes ==
  \A c \in Callers : (lock = c) ~> (pc[c] \in {"calling", "idle"})

(* What the scheduler promises its callers: it implements KeyLeases.  A    *)
(* key is leased only while it has a free slot, and an outcome gives back  *)
(* at most the slot of its own call.                                       *)
Leases ==
  INSTANCE KeyLeases WITH
    used <- [k \in Keys |-> keys[k].active_requests],
    holder <- [c \in Callers |-> IF pc[c] = "calling" THEN held[c] ELSE NoKey]

ImplementsKeyLeases == Leases!Spec

-----------------------------------------------------------------------------

(* For the recovery of rate-limited keys: time passes as well.             *)
TimedFairSpec == FairSpec /\ WF_vars(Tick)

AllRateLimited == \A k \in Keys : keys[k].status = "RATE_LIMITED"

(* A pool whose keys are all rate limited comes back to life, as long as   *)
(* somebody keeps asking it for a key: cooldowns run out and the next      *)
(* _gather_candidates resets a key, whatever late outcomes arrive.         *)
RateLimitedPoolRecovers ==
  []<>(lock # NoCaller) => (AllRateLimited ~> ~AllRateLimited)

=============================================================================
