SPECIFICATION FairSpec
CONSTANTS
  NbTx = 4
  BufferSize = 2
  Chains <- MCChains
  Faults = {"late"}
INVARIANTS
  BuffersReturn
