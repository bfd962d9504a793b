SPECIFICATION Spec
CONSTANTS
  Writers = {w1, w2, w3}
  Contents = {a, b}
  None = none
  MaxKills = 1
  MaxPowerLosses = 1
INVARIANTS NeverTorn ReferencesHold
SYMMETRY Symmetry
CHECK_DEADLOCK FALSE
