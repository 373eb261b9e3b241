SPECIFICATION Spec
CONSTANTS
  j1 = j1  j2 = j2  j3 = j3  j4 = j4  j5 = j5  k1 = k1
  w1 = w1  w2 = w2  c1 = c1  c2 = c2
  NoJob = NoJob  NoKey = NoKey
  Job <- TwoUnique  KeyOf <- TwoUniqueKey  Parent <- TwoUniqueParent
  Worker = {w1}
  Canceller = {c1}
  Deleter = {d1}
  Watcher = {}
  Capacity = 1
  Deadlines = {}
  MayShutdown = FALSE
  MayStop = FALSE
  MayLeave = {}
CHECK_DEADLOCK FALSE
INVARIANT QueuedCancelSucceeds
