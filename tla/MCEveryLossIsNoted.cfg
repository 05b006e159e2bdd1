CONSTANTS
  NoArch = NoArch
  BadKind = BadKind
  Fixed = 4
  HalfWord = 16
  Images <- MCShortHeader
SPECIFICATION Spec
INVARIANT EveryLossIsNoted
CHECK_DEADLOCK FALSE
