\* Two handlers, two passwords, three reset links, one an hour.
SPECIFICATION AccountSpec
CONSTANTS
  Requests = {r1, r2}
  Passwords = {p1, p2}
  NoPassword = NoPassword
  ResetLimit = 1
  MaxResets = 3
SYMMETRY Symmetry
INVARIANT AccountTypeOK
INVARIANT LinkMatchesCredentials
INVARIANT ResetRevokesSessions
INVARIANT ResetsAreLimited
INVARIANT ClosedTimerHasJob
PROPERTY AloneItLives
CHECK_DEADLOCK FALSE
