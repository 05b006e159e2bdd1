CONSTANTS
  NoArch = NoArch
  BadKind = BadKind
  NoEdit = NoEdit
  NoFile = NoFile
  Unchanged = Unchanged
  Fixed = 4
  HalfWord = 16
  Word64 = 128
  Images <- MCEditImages
  Originals <- MCOriginals
  Edits <- MCEdits
  Unknown <- MCUnknown
SPECIFICATION FairEditSpec
INVARIANTS
  EditTypeOK
  ReportsWhatTheDriverReads
  LossIsNotedUnlessHeaderShort
  FurtherEntryIsDead
  OnlyTheLastEntryExtends
  EditsTheListedEntry
  ReachOfTheEditors
  SizesMoveOnlyWhatFollows
  AppendedEntryCountsByOneUnit
PROPERTY CallsReturn
CHECK_DEADLOCK FALSE
