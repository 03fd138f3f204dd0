-------------------------- MODULE MCGeminiService --------------------------
(* Model-checking instance of GeminiService.                                 *)
EXTENDS GeminiService, TLC

CallerSymmetry == Permutations(Callers)

=============================================================================
