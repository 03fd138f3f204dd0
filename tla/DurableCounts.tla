--------------------------- MODULE DurableCounts ---------------------------
(***************************************************************************)
(* What the tracking files promise, as an abstract specification: a set of *)
(* counters, each with its live value in memory and the value that a       *)
(* restart would find.  Saving a group of counters brings their saved      *)
(* values forward, never beyond the live ones; a crash leaves the live     *)
(* values where the saved ones are.                                        *)
(***************************************************************************)
EXTENDS Integers

CONSTANTS
  Counters,  (* what is counted                                            *)
  Groups     (* sets of counters that are saved together                   *)

VARIABLES live, saved

vars == <<live, saved>>

Init ==
  /\ live = [c \in Counters |-> 0]
  /\ saved = [c \in Counters |-> 0]

Count(c) ==
  /\ live' = [live EXCEPT ![c] = @ + 1]
  /\ UNCHANGED saved

Save(G) ==
  /\ saved' = [c \in Counters |-> IF c \in G THEN saved'[c] ELSE saved[c]]
  /\ \A c \in G : saved'[c] \in saved[c]..live[c]
  /\ UNCHANGED live

Crash ==
  /\ live' = saved
  /\ UNCHANGED saved

Next == (\E c \in Counters : Count(c)) \/ (\E G \in Groups : Save(G)) \/ Crash

Spec == Init /\ [][Next]_vars

=============================================================================
