------------------------- MODULE MC_ConfigRefcount -------------------------
(* Model-checking instance of ConfigRefcount: four Config values and a    *)
(* small usize, so that a wrapped counter stays visible to TLC.            *)
EXTENDS ConfigRefcount, TLC

CONSTANTS h1, h2, h3, h4

MC_Handles == {h1, h2, h3, h4}
MC_UsizeModulus == 8
MC_Symmetry == Permutations(MC_Handles)
=============================================================================
