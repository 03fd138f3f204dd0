------------------------------ MODULE KeyPool ------------------------------
(***************************************************************************)
(* KeyPool (pool/key_pool.py): the keys by id, and what an operator does   *)
(* to them - adding, replacing, removing, enabling, disabling and marking  *)
(* keys unhealthy - while calls that took a key from the pool are under    *)
(* way and report their outcome.                                           *)
(*                                                                         *)
(* The reads of a search and the breaker's read after unlock are the       *)
(* subject of RequestScheduler; here a search and an outcome are one step  *)
(* each.  enable_key, which writes two fields without the key's lock, is   *)
(* two.                                                                    *)
(***************************************************************************)
EXTENDS APIKeyState, FiniteSets

CONSTANTS
  NumIds,    (* the ids are key_0 up to key_(NumIds - 1), a bound           *)
  MaxCalls,  (* bound on the calls that are under way with one key          *)
  Nobody     (* no key is being enabled                                     *)

ASSUME PoolAssumption == NumIds \in Nat \ {0} /\ MaxCalls \in Nat

Ids == 0 .. NumIds - 1

ASSUME NobodyAssumption == Nobody \notin Ids

VARIABLES
  pool,      (* the state under each id, or NoState                         *)
  counter,   (* of _next_key_id                                             *)
  enabling,  (* the id enable_key is at, and with it the pool's lock        *)
  inflight,  (* calls under way with the state under an id                  *)
  drift,     (* slots kept by refused calls, less those that mark_unhealthy *)
             (* gave back for calls that never were; history                *)
  tripped    (* the breaker tripped, and nothing succeeded since; history   *)

poolvars == <<pool, counter, enabling, inflight, drift, tripped>>

calls == <<inflight, drift, tripped>>

NoState == [status |-> "ABSENT"]

Present == {id \in Ids : pool[id] # NoState}

PoolInit ==
  /\ pool = [id \in Ids |-> NoState]
  /\ counter = 0
  /\ enabling = Nobody
  /\ inflight = [id \in Ids |-> 0]
  /\ drift = [id \in Ids |-> 0]
  /\ tripped = [id \in Ids |-> FALSE]

-----------------------------------------------------------------------------

(* A state comes or goes: the calls under way keep theirs, but the pool    *)
(* knows nothing of them any more.                                         *)
Put(id, state) ==
  /\ enabling = Nobody
  /\ pool' = [pool EXCEPT ![id] = state]
  /\ inflight' = [inflight EXCEPT ![id] = 0]
  /\ drift' = [drift EXCEPT ![id] = 0]
  /\ tripped' = [tripped EXCEPT ![id] = FALSE]
  /\ UNCHANGED enabling

(* Mutant of FreeIds: ids that were given by hand are not looked up.       *)
AllIds == {id \in Ids : id >= counter}

FreeIds == {id \in Ids : id >= counter /\ pool[id] = NoState}

AddKey ==
  \E id \in FreeIds :
    /\ \A other \in FreeIds : id <= other
    /\ counter' = id + 1
    /\ Put(id, NewKey)

(* add_key with a key_id, or add_key_state of a new state                  *)
AddKeyAs(id) == Put(id, NewKey) /\ UNCHANGED counter

RemoveKey(id) == id \in Present /\ Put(id, NoState) /\ UNCHANGED counter

Change(id, state) == pool' = [pool EXCEPT ![id] = state]

(* Mutant of Enabled: the key starts afresh.                               *)
EnabledAfresh(s) == [s EXCEPT !.status = "ACTIVE", !.consecutive_failures = 0]

Enabled(s) == [s EXCEPT !.status = "ACTIVE"]

EnableKey(id) ==
  /\ enabling = Nobody
  /\ id \in Present
  /\ enabling' = id
  /\ Change(id, Enabled(pool[id]))
  /\ UNCHANGED <<counter, calls>>

(* The second write of enable_key.                                         *)
EnableKeyEnds ==
  /\ enabling # Nobody
  /\ enabling' = Nobody
  /\ Change(enabling, [pool[enabling] EXCEPT !.cooldown = 0])
  /\ UNCHANGED <<counter, calls>>

(* disable_key and mark_unhealthy only look the key up under the pool's    *)
(* lock: they may write between the two writes of enable_key.              *)
DisableKey(id) ==
  /\ id \in Present
  /\ Change(id, MarkDisabled(pool[id]))
  /\ UNCHANGED <<counter, enabling, calls>>

MarkUnhealthyFailed(id) ==
  /\ id \in Present
  /\ Change(id, MarkFailed(pool[id]))
  /\ UNCHANGED <<counter, enabling, calls>>

(* Without failed=True it is a 429 of a call that never was.               *)
MarkUnhealthy(id) ==
  /\ id \in Present
  /\ Change(id, RecordRateLimit(pool[id]))
  /\ drift' = [drift EXCEPT ![id] = IF pool[id].active_requests > 0 THEN @ - 1 ELSE @]
  /\ UNCHANGED <<counter, enabling, inflight, tripped>>

-----------------------------------------------------------------------------

Eligible == {id \in Present : IsAvailable(pool[id])}

(* get_key, whose score may prefer any eligible key, and the call begins.  *)
TakeKey(id) ==
  /\ enabling = Nobody
  /\ id \in Eligible
  /\ inflight[id] < MaxCalls
  /\ Change(id, RecordRequestStart(pool[id]))
  /\ inflight' = [inflight EXCEPT ![id] = @ + 1]
  /\ UNCHANGED <<counter, enabling, drift, tripped>>

(* A call gives its slot back, if mark_unhealthy has not done so before.   *)
Leave(id) ==
  /\ inflight[id] > 0
  /\ inflight' = [inflight EXCEPT ![id] = @ - 1]
  /\ drift' = [drift EXCEPT ![id] = IF pool[id].active_requests = 0 THEN @ + 1 ELSE @]
  /\ UNCHANGED <<counter, enabling>>

Succeed(id) ==
  /\ Leave(id)
  /\ Change(id, RecordRequestEnd(pool[id]))
  /\ tripped' = [tripped EXCEPT ![id] = FALSE]

RateLimit(id) ==
  /\ Leave(id)
  /\ Change(id, RecordRateLimit(pool[id]))
  /\ UNCHANGED tripped

Fail(id) ==
  LET failed == RecordFailure(pool[id]) IN
  /\ Leave(id)
  /\ IF ReachedThreshold(failed)
       THEN Change(id, MarkFailed(failed)) /\ tripped' = [tripped EXCEPT ![id] = TRUE]
       ELSE Change(id, failed) /\ UNCHANGED tripped

(* The provider refuses the key: it is disabled, its slot stays taken.     *)
Refuse(id) ==
  /\ inflight[id] > 0
  /\ inflight' = [inflight EXCEPT ![id] = @ - 1]
  /\ drift' = [drift EXCEPT ![id] = @ + 1]
  /\ Change(id, MarkDisabled(pool[id]))
  /\ UNCHANGED <<counter, enabling, tripped>>

Outcome(id) == Succeed(id) \/ RateLimit(id) \/ Fail(id) \/ Refuse(id)

(* Mutant of Recovered: whatever the status, the key becomes ACTIVE.       *)
RecoveredWhatever(s) ==
  IF s # NoState /\ s.cooldown = 0 THEN [s EXCEPT !.status = "ACTIVE"] ELSE s

Recovered(s) ==
  IF s.status = "RATE_LIMITED" /\ ~IsCoolingDown(s) THEN ResetCooldown(s) ELSE s

(* A search that finds no candidate resets what has cooled down.           *)
ResetExpired ==
  /\ Eligible = {}
  /\ pool' = [id \in Ids |-> Recovered(pool[id])]
  /\ UNCHANGED <<counter, enabling, calls>>

PoolTick ==
  /\ pool' = [id \in Ids |-> IF id \in Present THEN Elapse(pool[id]) ELSE NoState]
  /\ UNCHANGED <<counter, enabling, calls>>

Operate(id) ==
  \/ AddKeyAs(id) \/ RemoveKey(id) \/ EnableKey(id) \/ DisableKey(id)
  \/ MarkUnhealthyFailed(id) \/ MarkUnhealthy(id)

PoolNext ==
  \/ AddKey \/ EnableKeyEnds \/ ResetExpired \/ PoolTick
  \/ \E id \in Ids : Operate(id) \/ TakeKey(id) \/ Outcome(id)

PoolSpec == PoolInit /\ [][PoolNext]_poolvars

-----------------------------------------------------------------------------

PoolTypeOK ==
  /\ pool \in [Ids -> KeyState \cup {NoState}]
  /\ counter \in 0..NumIds
  /\ enabling \in Ids \cup {Nobody}
  /\ inflight \in [Ids -> 0..MaxCalls]
  /\ drift \in [Ids -> -MaxCalls..MaxParallel]
  /\ tripped \in [Ids -> BOOLEAN]

(* A key has more calls under way than max_parallel_requests only by the   *)
(* slots that mark_unhealthy gave back for calls that never were.          *)
CapExceededOnlyByOperator ==
  \A id \in Present : inflight[id] <= MaxParallel - drift[id]

(* An ACTIVE key that is idle can be taken, unless refused calls have kept *)
(* all its slots: enable_key does not bring them back.                     *)
IdleKeysAvailable ==
  \A id \in Present :
    /\ pool[id].status = "ACTIVE" /\ ~IsCoolingDown(pool[id])
    /\ inflight[id] = 0 /\ drift[id] < MaxParallel
    => id \in Eligible

(* A key whose breaker tripped and that an operator enabled is on          *)
(* probation: until it serves a request, its next failure retires it       *)
(* again, for enable_key leaves consecutive_failures alone.                *)
EnabledOnProbation ==
  [][\A id \in Ids : tripped[id] /\ Fail(id) => pool'[id].status = "FAILED"]_poolvars

(* A retired key with no call under way comes back by an operator only: by *)
(* enable_key or a new state, but also by mark_unhealthy, whose cooldown   *)
(* ends by itself.                                                         *)
OperatorAloneRestores ==
  [][\A id \in Ids :
       pool[id].status \in {"DISABLED", "FAILED"} /\ inflight[id] = 0
         => \/ pool'[id].status \in {"DISABLED", "FAILED"}
            \/ Operate(id) \/ (AddKey /\ id \in FreeIds)]_poolvars

(* A key that is added without an id replaces none, whatever ids were      *)
(* given by hand or have become free.                                      *)
FreshIdsReplaceNothing ==
  [][AddKey => \A id \in Present : pool'[id] = pool[id]]_poolvars

=============================================================================
