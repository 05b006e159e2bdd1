SPECIFICATION FairSpec
CONSTANTS
  Files <- MCFiles
  NoOffset = NoOffset
INVARIANTS
  EveryContainerIsHanded
  OnlyWrappersRepeat
  RejectedFilesHoldNothing
  ReportAccountsForEveryContainer
PROPERTIES
  DiscoveryEnds
CHECK_DEADLOCK FALSE
