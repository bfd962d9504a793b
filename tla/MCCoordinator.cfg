SPECIFICATION Spec
CONSTANTS
  Meetings = {m1, m2, m3}
  Handlers = {h1, h2}
  Main = main
  NoMeeting = none
INVARIANTS AcceptedOnce NoLostWakeup
PROPERTIES QueueSpec BootIsRun
CHECK_DEADLOCK TRUE
