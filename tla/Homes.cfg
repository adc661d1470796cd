\* Two devices of one person, a manager of the shared workspace, two invites,
\* two organizations that may be provisioned and one failure.
SPECIFICATION HomeSpec
CONSTANTS
  Managers = {m1}
  Administered = {1}
  Devices = {d1, d2}
  MaxWorkspaces = 3
  MaxTokens = 2
  MaxFailures = 1
INVARIANT HomeTypeOK
INVARIANT MembersEntered
INVARIANT HomeIsReachable
INVARIANT OrphansAreFailures
PROPERTY AloneMembersLive
PROPERTY ProvisionsOnlyTheHomeless
SYMMETRY DeviceSymmetry
CHECK_DEADLOCK FALSE
