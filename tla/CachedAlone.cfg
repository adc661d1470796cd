\* One request at a time and no lost deletion of the cached answer.
SPECIFICATION ReliableSpec
CONSTANTS
  None = None
  Empty = Empty
  Requests = {r1}
  Pollers = {}
  EntryIds = {e1, e2}
  Workspaces = {wA}
  Times <- TwoTimes
  Durations <- RunningConvention
SYMMETRY Symmetry
INVARIANT CacheIsTrue
PROPERTY ImplementsRunningTimer
