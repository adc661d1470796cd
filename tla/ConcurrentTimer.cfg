\* Two requests of the user in flight at once, in any interleaving.
SPECIFICATION Spec
CONSTANTS
  None = None
  Requests = {r1, r2}
  EntryIds = {e1, e2}
  Workspaces = {wA}
  Times <- TwoTimes
  Durations <- RunningConvention
SYMMETRY Symmetry
INVARIANT RowsWellFormed
PROPERTY DeletedStaysDeleted
