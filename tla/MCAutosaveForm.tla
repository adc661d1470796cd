--------------------------- MODULE MCAutosaveForm ---------------------------
(***************************************************************************)
(* Small instances of AutosaveForm for TLC.                                *)
(***************************************************************************)
EXTENDS AutosaveForm, TLC

Symmetry == Permutations(Values)
=============================================================================
