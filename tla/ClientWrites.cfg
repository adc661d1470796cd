\* Two writes of one client, with failing fetches, replays that fail twice, a
\* worker that is stopped once and a request that expires.
SPECIFICATION ClientSpec
CONSTANTS
  client = client
  NoWrite = NoWrite
  Writes = {w1, w2}
  Requests = {w1, w2}
  Keys = {client}
  KeyOf <- MCKeyOf
  MaxFailures = 2
  MaxStops = 1
  MaxExpired = 1
INVARIANT QueueInv
INVARIANT OnlyFailedWritesAreOvertaken
PROPERTY QueueEmpties
CHECK_DEADLOCK FALSE
