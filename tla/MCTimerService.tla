--------------------------- MODULE MCTimerService ---------------------------
(***************************************************************************)
(* Small instances of TimerService for TLC.  The times are a few seconds   *)
(* after the epoch; the durations sent by clients are one negative (the    *)
(* convention for a running entry), zero and one positive.                 *)
(***************************************************************************)
EXTENDS TimerService, TLC

TwoTimes == 1..2
RunningConvention == {-1}
ClientDurations == {-1, 0, 1}

Symmetry == Permutations(Requests) \cup Permutations(EntryIds) \cup Permutations(Workspaces)
=============================================================================
