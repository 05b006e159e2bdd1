CONSTANTS
  NoArch = NoArch
  NoEntry = NoEntry
  Pending = Pending
  Containers <- MCContainers
  Targets <- MCTargets
SPECIFICATION Spec
INVARIANTS
  TypeOK
  PositionNeverOverturnsContent
  ForcingOnlyRemovesCubins
  ReportAgainstTheRule
PROPERTIES
  ScanOnlyClimbs
  ImplementsRule
CHECK_DEADLOCK FALSE
