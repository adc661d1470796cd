\* Two creates of one user interleave.
SPECIFICATION Spec
CONSTANTS
  None = None
  Requests = {r1, r2}
  EntryIds = {e1, e2}
  Workspaces = {wA}
  Times <- TwoTimes
  Durations <- RunningConvention
INVARIANT AtMostOneRunning
