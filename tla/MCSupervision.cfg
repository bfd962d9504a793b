SPECIFICATION Spec
CONSTANTS
  old = old
  new = new
  Daemons = {old, new}
  Latest <- BuildsLatest
  Nobody = nobody
  MaxStarts = 2
  MaxCommits = 1
  Tools = {"codex", "opencode"}
  Children <- InGroup
  MaxRuns = 2
  MaxSteps = 2
INVARIANTS AcceptedIsWhole ServesItsSchema SocketLeadsToOwner MigratedIsBackedUp
PROPERTIES SessionKept RunEnds
CHECK_DEADLOCK FALSE
