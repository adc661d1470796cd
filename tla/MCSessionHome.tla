--------------------------- MODULE MCSessionHome ----------------------------
(***************************************************************************)
(* Small instances of SessionHome for TLC.                                 *)
(***************************************************************************)
EXTENDS SessionHome, TLC

DeviceSymmetry == Permutations(Devices)
=============================================================================
