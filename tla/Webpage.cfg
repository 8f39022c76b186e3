CONSTANTS
  c1 = c1
  c2 = c2
  Conns = {c1}
  File <- MCFile
  LeadIn <- MCLeadIn
  LeadOut <- MCLeadOut
  White = {" "}
  MaxName = 1
  Tables <- MCTables
  Texts <- MCTexts
  RowCounts = {1, 2}
  InsertLen = 2
  SndBuf = 3
  MaxRetries = 2
  Blocks = 3
  Faults = {"cut"}
SPECIFICATION FairSpec
INVARIANTS
  TypeOK
  PageInOrder
  ArrayHeld
  NeverStalls
PROPERTIES
  ClosedWhenComplete
  PagesEnd
