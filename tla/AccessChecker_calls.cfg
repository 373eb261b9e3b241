SPECIFICATION Spec
CONSTANTS
  u1 = u1  u2 = u2  u3 = u3  root = root  t1 = t1  t2 = t2
  g1 = g1  g2 = g2  g3 = g3  f1 = f1  v1 = v1  c1 = c1  c2 = c2  c3 = c3
  User = {u1, u2, u3, root}  GlobalAdmin = {root}  Everyone = Everyone
  Tenant = {t1, t2}  Group = {g1, g2, g3}  NewGroup = {g3}  Feed = {f1}  FeedVersion = {v1}
  FeedOf <- VersionOfFeed  Initial <- Start  Request <- Requests
  Call = {c1, c2, c3}  None = None
SYMMETRY Symmetric
CHECK_DEADLOCK FALSE
INVARIANTS SettledSlotsHoldOne GainsAreGiven
PROPERTY NoGapInAccess
