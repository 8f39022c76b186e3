SPECIFICATION FairSpec
CONSTANTS
  u1 = u1
  i1 = i1
  i2 = i2
  i3 = i3
  t = t
  NoKey = NoKey
  Keys = {u1, i1, i2, i3, t}
  UpdateKeys = {u1}
  Slots = 16
  SectorSlots = 4
  Values = {0, 2}
  Home <- KernelHome
  Default <- KernelDefault
  LoaderKeys <- Update
  KernelKeys <- Kernel
  TaskKeys <- Task
INVARIANTS
  TypeOK
  KeysFound
  KeysInitialized
  SizeCovers
PROPERTIES
  UpdateKeysKept
  StartCompletes
