CONSTANTS
  NoArch = NoArch
  NotELF = NotELF
  MinHint = 1
  Growth = 2
  MaxOutput = 2
  Inputs <- MCInputs
SPECIFICATION Spec
INVARIANTS
  TypeOK
  HashesWhatTheDriverReads
  ExactlyTheGapsAreNoted
  WhatIsMissingIsExplained
CHECK_DEADLOCK FALSE
