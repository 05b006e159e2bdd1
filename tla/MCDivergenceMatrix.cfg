CONSTANTS
  NoArch = NoArch
  NoChild = NoChild
  Absent = Absent
  Broken = Broken
  Files <- MCFiles
  Cases <- MCCases
  Corpora <- MCCorpora
  Hosts <- MCHosts
SPECIFICATION FairSpec
INVARIANTS
  MatrixTypeOK
  ColumnIsWhatRan
  CleanExitIsEvidence
  WrongRowsAreExplained
PROPERTIES
  MatrixEnds
CHECK_DEADLOCK FALSE
