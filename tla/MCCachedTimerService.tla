------------------------ MODULE MCCachedTimerService ------------------------
(***************************************************************************)
(* Small instances of CachedTimerService for TLC.                          *)
(***************************************************************************)
EXTENDS CachedTimerService, TLC

OneTime == {1}
TwoTimes == 1..2
RunningConvention == {-1}

Symmetry == Permutations(EntryIds) \cup Permutations(Pollers)
=============================================================================
