CONSTANTS
  hi = hi
  mid = mid
  idle = idle
  tick = tick
  g1 = g1
  qa = qa
  none = none
  fa = fa
  fb = fb
  ma = ma
  mb = mb
  nothing = nothing
  Task <- MCTask
  Idle = idle
  TickTask = tick
  PrioMax = 2
  Obj = {g1, qa}
  NoObj = none
  MaxDly = 1
  InitPrio <- MCInitPrio
  Uses = {"timeout", "del", "abort"}
  CallOpts <- MCOpts
  MaxNest = 1
  MaxLock = 0
  MaxSusp = 1
  Grp = {g1}
  Flag = {fa, fb}
  Masks <- MCMasks
  Wants <- MCWants
  Queue = {qa}
  Msg = {ma, mb}
  NoMsg = nothing
  Size <- MCSize
  PoolSize = 2
  Careless = {}
  Renewed = {g1, qa}
SPECIFICATION Spec
SYMMETRY Symmetric
VIEW MCView
INVARIANTS
  NoWaiterSatisfied
  OkMeansEnough
  NoMessageWaits
PROPERTIES
  ImplementsAbs
