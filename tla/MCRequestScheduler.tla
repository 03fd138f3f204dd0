------------------------ MODULE MCRequestScheduler ------------------------
(* Model-checking instance of RequestScheduler.                            *)
EXTENDS RequestScheduler, TLC

(* Callers are interchangeable; the invariants and action properties do    *)
(* not tell them apart.                                                    *)
CallerSymmetry == Permutations(Callers)

=============================================================================
