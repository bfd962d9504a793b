SPECIFICATION Spec
CONSTANTS
  Protocol = 1
  NumDesigners = 2
  MaxRounds = 2
  MaxCycles = 2
  MaxContents = 8
  MaxCrashes = 1
  MaxShutdowns = 0
  MaxConflicts = 1
  MaxFailures = 1
  MaxDisconnects = 0
INVARIANTS RevealBarrier ConsensusBeforeRecording ClearedByVerifier OneOpenConflict
PROPERTIES EndIsFinal ProtocolKept
CHECK_DEADLOCK FALSE
