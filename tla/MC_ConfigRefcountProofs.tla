---------------------- MODULE MC_ConfigRefcountProofs ----------------------
(* Model-checking instance of the strengthened invariant RefInv, with the  *)
(* constants of MC_ConfigRefcount.                                          *)
EXTENDS ConfigRefcountProofs, TLC

CONSTANTS h1, h2, h3, h4

MC_Handles == {h1, h2, h3, h4}
MC_UsizeModulus == 8
MC_Symmetry == Permutations(MC_Handles)
=============================================================================
