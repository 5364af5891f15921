CONSTANTS
  c1 = c1
  c2 = c2
  c3 = c3
  b1 = b1
  b2 = b2
  CPUs = {c1, c2, c3}
  BootCPU = c1
  Blocks = {b1, b2}
  Systems <- MCSystems
  Null = Null
  NoOwner = NoOwner
SPECIFICATION FairSpec
INVARIANTS NoDoubleAllocation HolderIsRunning FlagIsRestored EntryPointsInv
PROPERTIES PromisedSpec LockIsReleased GLockIsGranted
