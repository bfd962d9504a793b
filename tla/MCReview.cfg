SPECIFICATION Spec
CONSTANTS
  Handlers = {h1, h2}
  Texts = {t1, t2}
  None = none
  MaxContents = 2
  MaxItems = 2
  MaxCandidates = 2
  MaxCycles = 2
  MaxTorn = 1
  MaxCrashes = 1
INVARIANTS  DecidedAsAWhole RejectionReachesSwarm ReviewIsPossible
PROPERTIES DecisionsStay
SYMMETRY Symmetry
CHECK_DEADLOCK FALSE
