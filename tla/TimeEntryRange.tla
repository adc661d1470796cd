--------------------------- MODULE TimeEntryRange ---------------------------
(***************************************************************************)
(* The arithmetic of a time entry's start, stop and duration:              *)
(* normalizeTimeEntryRange of the tracking service.  Times are whole       *)
(* seconds of Unix time (the code truncates start and stop to the second   *)
(* before it compares them); None is Go's nil pointer.                     *)
(***************************************************************************)
EXTENDS Integers

CONSTANT None

\* nil is not a number.
ASSUME NoneIsNotATime == None \notin Int

Optional(S) == S \cup {None}

\* ErrInvalidTimeRange.
InvalidRange == [start |-> None, stop |-> None, duration |-> None]

\* A running entry carries duration = -(start epoch); a stopped one stop - start.
RunningRange(start) == [start |-> start, stop |-> None, duration |-> -start]
StoppedRange(start, stop) == [start |-> start, stop |-> stop, duration |-> stop - start]

Range == [start : Int, stop : Optional(Int), duration : Int]

\* Mutant: a negative duration wins over a stop.
NormalizeDurationFirst(start, stop, duration) ==
  LET backwards == stop # None /\ stop < start
      disagrees == stop # None /\ duration # None /\ duration >= 0 /\ duration # stop - start
  IN  IF backwards \/ disagrees THEN InvalidRange
      ELSE IF duration # None /\ duration < 0 THEN RunningRange(start)
      ELSE IF stop # None THEN StoppedRange(start, stop)
      ELSE IF duration # None THEN StoppedRange(start, start + duration)
      ELSE RunningRange(start)

\* Mutant: a stop before the start is accepted.
NormalizeUnordered(start, stop, duration) ==
  IF stop # None THEN StoppedRange(start, stop)
  ELSE IF duration # None /\ duration >= 0 THEN StoppedRange(start, start + duration)
  ELSE RunningRange(start)

\* stop wins over a negative duration, must agree with any other, and a
\* duration alone (>= 0) fixes the stop; otherwise the entry is running.
NormalizeRange(start, stop, duration) ==
  LET backwards == stop # None /\ stop < start
      disagrees == stop # None /\ duration # None /\ duration >= 0 /\ duration # stop - start
  IN  IF backwards \/ disagrees THEN InvalidRange
      ELSE IF stop # None THEN StoppedRange(start, stop)
      ELSE IF duration # None /\ duration >= 0 THEN StoppedRange(start, start + duration)
      ELSE RunningRange(start)

\* The range UpdateTimeEntry normalises for a row and an edit command: fields
\* the command omits come from the row, the duration only when the command
\* names neither a start nor a stop.
EditedRange(row, edit) ==
  NormalizeRange(
    IF edit.start # None THEN edit.start ELSE row.start,
    IF edit.stop # None THEN edit.stop ELSE row.stop,
    IF edit.duration # None THEN edit.duration
      ELSE IF edit.start = None /\ edit.stop = None THEN row.duration ELSE None)

\* A running row has no stop and carries -start; a stopped one does not end
\* before it starts and its duration is the length of its interval.
WellFormedRange(row) ==
  IF row.stop = None THEN row.duration = -row.start
  ELSE row.stop >= row.start /\ row.duration = row.stop - row.start
=============================================================================
