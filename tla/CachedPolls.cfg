\* A client that starts and stops timers while two others poll, with lost
\* deletions and failing lookups.
SPECIFICATION ExpiringSpec
CONSTANTS
  None = None
  Empty = Empty
  Requests = {r1, r2, r3}
  Pollers = {r2, r3}
  EntryIds = {e1}
  Workspaces = {wA}
  Times <- OneTime
  Durations <- RunningConvention
INVARIANT CacheInv
PROPERTY CacheBecomesTrue
