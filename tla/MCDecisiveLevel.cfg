CONSTANTS
  NoArch = NoArch
  NoEntry = NoEntry
  NoLevel = NoLevel
  Containers <- MCContainers
  Targets <- MCTargets
SPECIFICATION Spec
INVARIANTS
  LevelSeparates
  ColumnsMean
PROPERTY DecideImplementsRule
CHECK_DEADLOCK FALSE
