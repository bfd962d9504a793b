SPECIFICATION WebSpec
CONSTANTS
  Publishers = {p1}
  Conns = {k1}
  None = none
  QueueSize = 1
  MaxEvents = 2
  Cancels = FALSE
  Afters = {}
  Tabs = {t1}
  MaxFetches = 2
  Failures = TRUE
PROPERTIES CaughtUp
CHECK_DEADLOCK FALSE
