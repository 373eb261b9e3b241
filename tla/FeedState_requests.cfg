SPECIFICATION Spec
CONSTANTS
  p1 = p1  p2 = p2  p3 = p3  f1 = f1  v1 = v1  v2 = v2
  Proc = {p1, p2, p3}
  Feed = {f1}  Version = {v1, v2}  FeedOf <- BothOfOne
  NoVersion = NoVersion  NoRow = NoRow
  Request <- Requests
CHECK_DEADLOCK FALSE
INVARIANT FeedsReconciled
PROPERTIES VisibilityKeepsActive SyncRepairsTables
SYMMETRY CallerSymmetry
