SPECIFICATION Spec
CONSTANTS
  Seats = 2
  MaxEdits = 3
  MaxDeaths = 1
INVARIANTS BundleIsReality EditsAreNoticed WorkdirsRestored
CHECK_DEADLOCK FALSE
