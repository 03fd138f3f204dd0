---------------------------- MODULE MCPoolParts ----------------------------
(* Model-checking instance of KeyPool, SchedulingStrategies and            *)
(* Throttling.  They share no state and call nothing of one another, so    *)
(* their interleavings are of no interest: a behaviour is one of one part, *)
(* chosen at the start, while the others stay as they began.               *)
EXTENDS KeyPool, SchedulingStrategies, Throttling

VARIABLE part  (* the part whose behaviour it is                            *)

MCOwnLimit == <<0, 2, 0>>

PartsInit ==
  /\ PoolInit
  /\ StrategiesInit
  /\ ThrottlingInit
  /\ part \in {"pool", "strategies", "throttling"}
  /\ part # "throttling" => kind = "sliding"

PartsNext ==
  /\ UNCHANGED part
  /\ \/ part = "pool" /\ PoolNext /\ UNCHANGED <<strategyvars, throttlevars>>
     \/ part = "strategies" /\ StrategiesNext /\ UNCHANGED <<poolvars, throttlevars>>
     \/ part = "throttling" /\ ThrottlingNext /\ UNCHANGED <<poolvars, strategyvars>>

PartsSpec == PartsInit /\ [][PartsNext]_<<part, poolvars, strategyvars, throttlevars>>

(* Each part keeps its types: states, counters, windows and snapshots.     *)
PartsTypeOK == PoolTypeOK /\ StrategiesTypeOK /\ ThrottlingTypeOK

=============================================================================
