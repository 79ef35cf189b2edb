CONSTANTS
  Size = 3
  App = {1}
  Idle = 2
  Call <- MCCall
  NoCall = NoCall
  MaxNest = 1
  MaxLock = 1
SPECIFICATION FairSpec
INVARIANTS
  EntriesKeepReady
  OneInKernel
  SliceOfPreempted
PROPERTIES
  ImplementsAbs
