SPECIFICATION Spec
CONSTANT Corpora <- MCCorpora
INVARIANTS
  SweepsCountTheSameContainers
  ZeroNotesMeansLiveContainersAreClean
CHECK_DEADLOCK FALSE
