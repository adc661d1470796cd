\* Two calls of any kind, over no row, a running or a stopped one.
SPECIFICATION PageSpec
CONSTANTS
  MaxCalls = 2
  Texts = {t1, t2}
  Kinds = {"start", "create", "stop", "update", "delete"}
  Unknown = Unknown
  Nothing = Nothing
INVARIANT PageTypeOK
INVARIANT QuietIsTrue
INVARIANT OneRunningBlock
PROPERTY PollsRepair
