SPECIFICATION Spec
CONSTANT Corpora <- MCTruncated
INVARIANT ZeroNotesMeansParsedCleanly
CHECK_DEADLOCK FALSE
