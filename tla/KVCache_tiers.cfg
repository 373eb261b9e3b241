SPECIFICATION KVSpec
CONSTANTS
  server = server  worker = worker  g1 = g1  g2 = g2  s = s  t1 = t1  t2 = t2
  Process = {server, worker}
  Getter = {g1, g2}  Setter = {s}  Ticker = {t1, t2}  Home <- Homes
  Refreshing = {server, worker}
  Recheck = 1  Expires = 2  NegativeTTL = 1  RefreshTimeout = 1
  MaxTruth = 1  Absent = {1}
  None = None  Expired = Expired  NoAgent = NoAgent
INVARIANTS StalenessBounded OneTicker
SYMMETRY Alike
