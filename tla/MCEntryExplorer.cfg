SPECIFICATION Spec
CONSTANTS
  NoArch = NoArch
  Capacity = 3
  EditKinds <- MCKinds
  TypedArchs <- MCArchs
  EditBits <- MCBits
  NoEntry = NoEntry
  NoPreset = NoPreset
INVARIANTS
  PageShowsTheRule
  EveryLoserIsExplained
