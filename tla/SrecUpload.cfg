CHECK_DEADLOCK FALSE
CONSTANTS
  Plain = Plain
  Files = {Plain}
  Body <- MCBody
  Bytes <- MCBytes
  ByteSize <- MCByteSize
  Start <- MCStart
  LineSize = 11
  Page = 2
  AreaSize = 6
  AddressSpace = 64
  SegmentSizes = {5, 9}
  Faults = {"retry", "fin", "abort", "damage"}
  S0 = S0
  S3 = S3
  S7 = S7
  NL = NL
  Dash = Dash
  Other = Other
  None = None
SPECIFICATION FairSpec
INVARIANTS
  TypeOK
  
PROPERTIES
  SoundUploadAccepted
  DoWorkReturns
