SPECIFICATION Spec
CONSTANTS
  Protocol = 2
  NumDesigners = 2
  MaxRounds = 2
  MaxCycles = 2
  MaxContents = 7
  MaxCrashes = 1
  MaxShutdowns = 1
  MaxConflicts = 0
  MaxFailures = 1
  MaxDisconnects = 1
INVARIANTS OneVoicePerRound ResultIsItemized OneOwner
PROPERTIES CycleEnds
CHECK_DEADLOCK FALSE
