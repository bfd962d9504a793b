SPECIFICATION Spec
CONSTANTS
  Publishers = {p1, p2}
  Conns = {k1}
  None = none
  QueueSize = 1
  MaxEvents = 3
  Cancels = TRUE
  Afters = {0}
INVARIANTS NeverInTheGap ChannelClosedOnce
PROPERTIES NobodyWaits
CHECK_DEADLOCK TRUE
