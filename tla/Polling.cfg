\* One request at a time under a report lock nobody moves; polls of the
\* current entry go on after any history of other requests.
SPECIFICATION PollingSpec
CONSTANTS
  None = None
  Requests = {r1}
  EntryIds = {e1, e2}
  Workspaces = {wA}
  Times <- TwoTimes
  Durations <- ClientDurations
PROPERTY LockedEntriesImmutable
PROPERTY PollsRestorePointer
