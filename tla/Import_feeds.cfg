SPECIFICATION ImportSpec
CONSTANTS
  Call = {c1, c2, c3, c4}  Fetcher = c1
  NoCall = NoCall
  Content = {x}  NoContent = NoContent
  MaxVersion = 2
  Request <- FetchAndFirst
  Feed <- AllFeeds
  Options <- AllOptions
  BatchSize = 2
  ChunkSize = 2
  NoId = ""
  NoTrip = NoTrip
CHECK_DEADLOCK FALSE
INVARIANTS CommittedHasFile VisibleIsWhole OneImporter ActiveIsImported NoDanglingReferences NothingLeftOutWithoutCause StopPatternsFollowStops TimesRecoverable ReaderKeepsContract
PROPERTY FailedIsFinal
SYMMETRY CallSymmetry
