SPECIFICATION Spec
CONSTANTS
  Protocol = 2
  NumDesigners = 1
  MaxRounds = 2
  MaxCycles = 2
  MaxContents = 5
  MaxCrashes = 0
  MaxShutdowns = 0
  MaxConflicts = 0
  MaxFailures = 0
  MaxDisconnects = 0
PROPERTIES ReconveneBegins
CHECK_DEADLOCK FALSE
