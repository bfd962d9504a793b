SPECIFICATION SpecGate
CONSTANTS
  Projects = {a, b}
  Dirs = {x, y}
  Branches = {main}
  NoDir = nodir
  NoBranch = nobranch
  MaxLength = 6
  Handlers = {h1, h2}
  NoProject = noproject
  DirOf <- OwnDirs
  BranchOf <- Mains
  Losses = {"project", "meetings", "contents"}
  Works = TRUE
  Cancels = TRUE
INVARIANTS GateCovers CommandOnSound
PROPERTIES ReplayRepairs
SYMMETRY Symmetry
CHECK_DEADLOCK FALSE
