SPECIFICATION Spec
CONSTANTS
  server = server  worker = worker  r1 = r1  r2 = r2  f1 = f1  f2 = f2
  Server = {server}  Reader = {r1, r2}  Fetcher = {f1}  ServerOf <- OneServer
  MaxVersion = 3  MaxDrops = 1  Undecodable = {2}  Modes <- BothModes
CHECK_DEADLOCK FALSE
INVARIANT HeldSnapshotsAreCurrent
PROPERTIES SnapshotsNeverGoBack AbandonedReadsTeachNothing TopicIsEventuallyServed
