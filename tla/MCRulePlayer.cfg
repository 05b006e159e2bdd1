SPECIFICATION FairPlayerSpec
CONSTANTS
  NoArch = NoArch
  Handles <- MCHandles
  MaxClicks = 4
  NoTimer = NoTimer
  NoLevel = NoLevel
INVARIANTS
  OneTimerWhilePlaying
  PictureFollowsTheRule
PROPERTY PlaysOn
CHECK_DEADLOCK FALSE
