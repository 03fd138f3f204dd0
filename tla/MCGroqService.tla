--------------------------- MODULE MCGroqService ---------------------------
(* Model-checking instance of GroqService.                                 *)
EXTENDS GroqService, TLC

CallerSymmetry == Permutations(Callers)

=============================================================================
