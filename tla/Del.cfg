CONSTANTS
  hi = hi
  mid1 = mid1
  mid2 = mid2
  idle = idle
  tick = tick
  s1 = s1
  none = none
  Task <- MCTask
  Idle = idle
  TickTask = tick
  PrioMax = 2
  Obj = {s1}
  NoObj = none
  MaxDly = 1
  InitPrio <- MCInitPrio
  CallOpts <- PostOpts
  MaxNest = 1
  MaxLock = 0
  MaxSusp = 1
  InitCtr <- MCInitCtr
  MaxCtr = 1
  Uses = {"del", "suspend", "yield", "timeout", "abort", "set"}
  Careless = {}
  Renewed = {s1}
SPECIFICATION DelSpec
SYMMETRY Mids
INVARIANTS
  TypeOK
  NoLostSignal
  ListsAgree
  HighestRuns
  DeletedIsEmpty
PROPERTIES
  ImplementsAbs
  ToldOfDeletion
