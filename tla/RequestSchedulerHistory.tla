---------------------- MODULE RequestSchedulerHistory ----------------------
(***************************************************************************)
(* RequestScheduler with history variables, for the properties that relate *)
(* a state of the pool to earlier ones.  The history only watches: every   *)
(* step is a step of RequestScheduler, and none is forbidden.              *)
(***************************************************************************)
EXTENDS RequestScheduler

VARIABLES
  usable,  (* keys that could have been handed out at every moment since   *)
           (* the current acquire_key took the lock                        *)
  due,     (* per key, how much cooldown its latest 429 still calls for    *)
  streak   (* per key, failures other than 429s since its last success     *)

hvars == <<usable, due, streak>>

(* A key acquire_key may hand out, at once or after resetting its cooldown *)
Usable(s) ==
  /\ s.status \in {"ACTIVE", "RATE_LIMITED"}
  /\ ~IsCoolingDown(s)
  /\ HasFreeSlot(s)

HInit ==
  /\ Init
  /\ usable = {}
  /\ due = [k \in Keys |-> 0]
  /\ streak = [k \in Keys |-> 0]

Watch == usable' = {k \in usable : Usable(keys'[k])}

(* A new acquisition starts to watch the keys.                             *)
HBegin(c) ==
  /\ BeginAcquire(c)
  /\ usable' = {k \in Keys : Usable(keys[k])}
  /\ UNCHANGED <<due, streak>>

HRateLimited(c) ==
  /\ MarkRateLimited(c)
  /\ Watch
  /\ due' = [due EXCEPT ![held[c]] = CooldownTicks]
  /\ UNCHANGED streak

HFailure(c) ==
  /\ MarkFailure(c)
  /\ Watch
  /\ streak' = [streak EXCEPT ![held[c]] = Bump(@)]
  /\ UNCHANGED due

HRelease(c) ==
  /\ ReleaseKey(c)
  /\ Watch
  /\ streak' = [streak EXCEPT ![held[c]] = 0]
  /\ UNCHANGED due

HOther(c) ==
  /\ AcquireStep(c) \/ BreakerStep(c) \/ DisableKey(c) \/ AbandonCall(c)
  /\ Watch
  /\ UNCHANGED <<due, streak>>

HTick ==
  /\ Tick
  /\ Watch
  /\ due' = [k \in Keys |-> Decrement(due[k])]
  /\ UNCHANGED streak

HNext ==
  \/ \E c \in Callers :
       HBegin(c) \/ HRateLimited(c) \/ HFailure(c) \/ HRelease(c) \/ HOther(c)
  \/ HTick

HSpec == HInit /\ [][HNext]_<<vars, hvars>>

-----------------------------------------------------------------------------

(* NoAvailableAPIKeyError is honest: when acquire_key raises it, no key    *)
(* was usable all the time it searched.  The list is read key by key while *)
(* statuses, cooldowns and slot counts change, in two passes around a pass *)
(* of resets; a key must not slip between them.                            *)
NoFalseExhaustion == \A c \in Callers : pc[c] = "raise" => usable = {}

(* ".env.example:43: Seconds a key is held in cooldown after receiving a   *)
(* 429": the cooldown that a 429 calls for is never cut short.  The code   *)
(* breaks this: _gather_candidates checks is_cooling_down, then resets the *)
(* key, and a 429 that lands in between loses its cooldown.                *)
HeldInCooldown == \A k \in Keys : keys[k].cooldown >= due[k]

(* ".env.example:47: Consecutive non-rate-limit failures before a key is   *)
(* marked FAILED": whoever is about to mark a key FAILED does so after     *)
(* that many.  The code breaks this: record_failure also counts 429s.      *)
TripsOnOtherFailures ==
  \A c \in Callers : pc[c] = "trip" => streak[held[c]] >= FailureThreshold

=============================================================================
