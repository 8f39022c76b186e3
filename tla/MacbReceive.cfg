SPECIFICATION FairSpec
CONSTANTS
  NbRx = 5
  BufferSize = 2
  PbufSize = 3
  Pool = 3
  Lengths = {1, 4}
  Faults = {"fragment"}
INVARIANTS
  TypeOK
  FrameWhole
  RingAgrees
  NoSleepOnFrame
PROPERTIES
  FramesLeave
