SPECIFICATION FairBackendSpec
CONSTANTS
  r1 = r1  r2 = r2  s1 = s1  o1 = o1  p1 = p1
  RunCall = {r1, r2}  StopCall = {s1}  Observer = {o1}  ShutdownCall = {o1}
  Periodic = {p1}  MaxTicks = 1  Buffer = 1  None = None
CHECK_DEADLOCK FALSE
INVARIANT EndIsSeen
PROPERTY PeriodicsEnd
