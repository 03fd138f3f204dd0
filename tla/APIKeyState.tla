---------------------------- MODULE APIKeyState ----------------------------
(***************************************************************************)
(* The runtime state of one pooled API key (pool/key_pool.py, class        *)
(* APIKeyState).  Each operator below is one method of that class: the     *)
(* methods take the key's own lock, so each is applied in a single step.   *)
(* The properties is_cooling_down and is_available take no lock; modules   *)
(* that use them decide at which grain they are read.                      *)
(*                                                                         *)
(* Time is the number of clock ticks a cooldown still has to run, so that  *)
(* "now < cooldown_until" reads cooldown > 0.  The two failure counters    *)
(* are only ever compared with a threshold or with zero; they saturate at  *)
(* CounterCap, which is at least that threshold.  Token, latency and       *)
(* request-rate statistics feed scores and reports only and are left out.  *)
(***************************************************************************)
EXTENDS Integers

CONSTANTS
  MaxParallel,       (* max_parallel_requests, the concurrency cap of a key *)
  CooldownTicks,     (* length of the cooldown that a 429 starts            *)
  FailureThreshold,  (* consecutive failures that trip the circuit breaker  *)
  CounterCap         (* where the consecutive-failure counters saturate     *)

ASSUME MaxParallelAssumption == MaxParallel \in Nat \ {0}
ASSUME CooldownAssumption == CooldownTicks \in Nat \ {0}
ASSUME ThresholdAssumption == FailureThreshold \in Nat \ {0}
ASSUME CounterCapAssumption == CounterCap \in Nat /\ CounterCap >= FailureThreshold

-----------------------------------------------------------------------------

(* The statuses the code ever assigns; COOLDOWN and EXHAUSTED are declared *)
(* in the enumeration but written nowhere.                                 *)
Status == {"ACTIVE", "RATE_LIMITED", "FAILED", "DISABLED"}

KeyState ==
  [status               : Status,
   cooldown             : 0..CooldownTicks,
   active_requests      : Nat,
   consecutive_failures : 0..CounterCap,
   consecutive_429s     : 0..CounterCap]

NewKey ==
  [status |-> "ACTIVE", cooldown |-> 0, active_requests |-> 0,
   consecutive_failures |-> 0, consecutive_429s |-> 0]

Bump(n) == IF n < CounterCap THEN n + 1 ELSE n

(* Mutant of Decrement: the max(0, ...) is missing.                        *)
DecrementBelowZero(n) == n - 1

(* max(0, n - 1)                                                           *)
Decrement(n) == IF n > 0 THEN n - 1 ELSE 0

IsCoolingDown(s) == s.cooldown > 0

(* Mutant of HasFreeSlot: one slot too many.                               *)
HasFreeSlotOffByOne(s) == s.active_requests <= MaxParallel

HasFreeSlot(s) == s.active_requests < MaxParallel

(* Mutant of ReachedThreshold: the threshold itself does not trip.         *)
ExceedsThreshold(s) == s.consecutive_failures > FailureThreshold

ReachedThreshold(s) == s.consecutive_failures >= FailureThreshold

Retired(s) == s.status \in {"DISABLED", "FAILED"}

IsAvailable(s) ==
  /\ s.status = "ACTIVE"
  /\ ~IsCoolingDown(s)
  /\ HasFreeSlot(s)

RecordRequestStart(s) == [s EXCEPT !.active_requests = @ + 1]

(* A success clears both failure counters and a RATE_LIMITED status, but   *)
(* leaves a running cooldown alone.                                        *)
RecordRequestEnd(s) ==
  [s EXCEPT !.active_requests = Decrement(@),
            !.consecutive_429s = 0,
            !.consecutive_failures = 0,
            !.status = IF @ = "RATE_LIMITED" THEN "ACTIVE" ELSE @]

(* Mutant of RecordFailure: the slot of the failed call is kept.           *)
RecordFailureKeepsSlot(s) ==
  [s EXCEPT !.consecutive_failures = Bump(@), !.consecutive_429s = 0]

RecordFailure(s) ==
  [s EXCEPT !.active_requests = Decrement(@),
            !.consecutive_failures = Bump(@),
            !.consecutive_429s = 0]

(* A 429 overwrites the status whatever it was.                            *)
RecordRateLimit(s) ==
  [s EXCEPT !.active_requests = Decrement(@),
            !.consecutive_failures = Bump(@),
            !.consecutive_429s = Bump(@),
            !.status = "RATE_LIMITED",
            !.cooldown = CooldownTicks]

MarkDisabled(s) == [s EXCEPT !.status = "DISABLED"]

MarkFailed(s) == [s EXCEPT !.status = "FAILED"]

(* Mutant of ResetCooldown: the status is not restored.                    *)
ResetCooldownOnly(s) == [s EXCEPT !.cooldown = 0]

(* Mutant of ResetCooldown: every status becomes ACTIVE.                   *)
ResetCooldownAlways(s) == [s EXCEPT !.cooldown = 0, !.status = "ACTIVE"]

ResetCooldown(s) ==
  [s EXCEPT !.cooldown = 0,
            !.status = IF @ = "RATE_LIMITED" THEN "ACTIVE" ELSE @]

(* One tick of the clock, as seen by a running cooldown.                   *)
Elapse(s) == [s EXCEPT !.cooldown = Decrement(@)]

=============================================================================
