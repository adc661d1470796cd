\* One request of the user at a time; the report lock may move and any
\* store call may fail.
SPECIFICATION Spec
CONSTANTS
  None = None
  Requests = {r1}
  EntryIds = {e1, e2, e3}
  Workspaces = {wA, wB}
  Times <- TwoTimes
  Durations <- RunningConvention
SYMMETRY Symmetry
INVARIANT TypeOK
INVARIANT AtMostOneRunning
INVARIANT RunningEntryIsCurrent
PROPERTY StoppedStaysStopped
PROPERTY ImplementsRunningTimer
