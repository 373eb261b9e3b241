SPECIFICATION Spec
CONSTANTS
  WeekLength = 2
  LastDay = 7
  RowLimit = 3
  FeedVersion <- AllVersions
  NoTimes = NoTimes  Once = Once  NoWindow = NoWindow  None = None
INVARIANT FallbackInWindow
