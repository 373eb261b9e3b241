SPECIFICATION Spec
CONSTANTS
  j1 = j1  j2 = j2  j3 = j3  j4 = j4  j5 = j5  k1 = k1
  w1 = w1  w2 = w2  c1 = c1  c2 = c2
  NoJob = NoJob  NoKey = NoKey
  Job <- TwoUnique  KeyOf <- TwoUniqueKey  Parent <- TwoUniqueParent
  Worker = {w1, w2}
  Canceller = {c1, c2}
  Deleter = {d1}
  Watcher = {x1}
  Capacity = 1
  Deadlines <- Second
  MayShutdown = TRUE
  MayStop = FALSE
  MayLeave <- First
CHECK_DEADLOCK FALSE
INVARIANTS UniqueJobsExclude NoJobStranded CancelInterruptsRun WatchersHearOutcome 
PROPERTY ImplementsContract
SYMMETRY ThreadSymmetry
