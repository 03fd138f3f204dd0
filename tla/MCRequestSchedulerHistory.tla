--------------------- MODULE MCRequestSchedulerHistory ---------------------
(* Model-checking instance of RequestSchedulerHistory.                     *)
EXTENDS RequestSchedulerHistory, TLC

(* Callers are interchangeable, also for the history.                      *)
CallerSymmetry == Permutations(Callers)

=============================================================================
