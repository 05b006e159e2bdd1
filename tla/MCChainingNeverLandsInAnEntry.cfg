SPECIFICATION Spec
CONSTANTS
  Files <- MCCrossingEntry
  NoOffset = NoOffset
INVARIANT ChainingNeverLandsInAnEntry
CHECK_DEADLOCK FALSE
