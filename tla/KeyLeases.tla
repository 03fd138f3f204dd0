----------------------------- MODULE KeyLeases -----------------------------
(***************************************************************************)
(* What the key pool promises to those who call upstream through it, as an *)
(* abstract specification: every key is a counting semaphore of            *)
(* MaxParallel slots.  A client leases a slot of one key, makes its call,  *)
(* and gives that slot back at most once.  It may also drop the lease      *)
(* without giving the slot back (a cancelled task, an abandoned stream, a  *)
(* key that is disabled): the slot is then lost.                           *)
(***************************************************************************)
EXTENDS Integers

CONSTANTS Callers, NumKeys, MaxParallel

Keys == 1..NumKeys

NoKey == 0

VARIABLES
  used,    (* the slots of each key that are taken                         *)
  holder   (* the key each client holds a lease on                         *)

vars == <<used, holder>>

Init ==
  /\ used = [k \in Keys |-> 0]
  /\ holder = [c \in Callers |-> NoKey]

Acquire(c, k) ==
  /\ holder[c] = NoKey
  /\ used[k] < MaxParallel
  /\ used' = [used EXCEPT ![k] = @ + 1]
  /\ holder' = [holder EXCEPT ![c] = k]

Return(c, k) ==
  /\ holder[c] = k
  /\ used' = [used EXCEPT ![k] = @ - 1]
  /\ holder' = [holder EXCEPT ![c] = NoKey]

Drop(c, k) ==
  /\ holder[c] = k
  /\ holder' = [holder EXCEPT ![c] = NoKey]
  /\ UNCHANGED used

Next ==
  \E c \in Callers, k \in Keys : Acquire(c, k) \/ Return(c, k) \/ Drop(c, k)

Spec == Init /\ [][Next]_vars

=============================================================================
