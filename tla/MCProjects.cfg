SPECIFICATION Spec
CONSTANTS
  Projects = {a, b}
  Dirs = {x, y}
  Branches = {main}
  NoDir = nodir
  NoBranch = nobranch
  MaxLength = 5
  Handlers = {h1, h2}
  NoProject = noproject
  Relinks = TRUE
  Commits = {c1, c2}
  MaxMoves = 1
INVARIANTS OneOwner ProjectionFollows RealitiesAdvance
SYMMETRY Symmetry
CHECK_DEADLOCK FALSE
