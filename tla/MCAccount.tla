----------------------------- MODULE MCAccount -----------------------------
(***************************************************************************)
(* Small instances of Account for TLC.                                     *)
(***************************************************************************)
EXTENDS Account, TLC

Symmetry == Permutations(Requests) \union Permutations(Passwords)
=============================================================================
