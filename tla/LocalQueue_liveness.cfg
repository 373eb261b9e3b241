SPECIFICATION FairSpec
CONSTANTS
  j1 = j1  j2 = j2  j3 = j3  j4 = j4  j5 = j5  k1 = k1
  w1 = w1  w2 = w2  c1 = c1  c2 = c2
  NoJob = NoJob  NoKey = NoKey
  Job <- Family  KeyOf <- FamilyKey  Parent <- FamilyParent
  Worker = {w1, w2}
  Canceller = {}
  Deleter = {}
  Watcher = {}
  Capacity = 1
  Deadlines = {}
  MayShutdown = TRUE
  MayStop = TRUE
  MayLeave = {}
CHECK_DEADLOCK FALSE
PROPERTIES AcceptedJobSettles DrainCompletes
