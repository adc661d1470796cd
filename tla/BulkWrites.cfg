\* Two batches over two clients; the user may leave the page in between.
SPECIFICATION BulkWritesSpec
CONSTANTS
  NoWrite = NoWrite
  NoBatch = NoBatch
  Ids = {i1, i2}
  Batches = {b1, b2}
  Keys = {i1, i2}
  Writes <- MCWrites
  KeyOf <- MCKeyOf
INVARIANT BulkInv
INVARIANT OneWriteAtATime
PROPERTY EndKeepsChoice
PROPERTY BatchesEnd
PROPERTY ImplementsSerialWrites
CHECK_DEADLOCK FALSE
