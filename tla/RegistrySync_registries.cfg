SPECIFICATION Spec
CONSTANTS
  f1 = f1  f2 = f2  o1 = o1  a1 = a1  a2 = a2  v1 = v1  v2 = v2
  plain = plain  tagged = tagged
  Feed = {f1, f2}  Operator = {o1}  Content = {plain, tagged}  Excluded = {tagged}
  Agency = {a1, a2}  AgenciesOf <- AgenciesByVersion  VersionsOf <- VersionsByFeed
  NoVersion = NoVersion  NoOperator = NoOperator  NoAgency = NoAgency  NoChange = NoChange
  Request <- Requests
  MaxSyncs = 3  MaxActivations = 2
CHECK_DEADLOCK FALSE
PROPERTIES OnlyUnseenAreHidden AgenciesKeepAnOperator AssociationsFollowRegistry
