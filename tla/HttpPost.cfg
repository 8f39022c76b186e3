SPECIFICATION FairSpec
CONSTANTS
  c1 = c1
  c2 = c2
  Conns = {c1, c2}
  Forms <- OnePoster
  MaxSegments = 3
  Pieces = 2
  PoolSize = 3
  QueueLen = 1
  MaxRetries = 4
  Resets = TRUE
INVARIANTS
  TypeOK
  BufferSafe
PROPERTIES
  UploadFinished
  KeepsSession
  ConnectionsReleased
