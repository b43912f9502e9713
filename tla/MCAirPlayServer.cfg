SPECIFICATION Spec
CONSTANTS
  Sockets <- TwoSockets
  Sessions = {A}
  NoSession = NoSession
  ALL = ALL
  NULL = NULL
  States = {"STOPPED"}
  MaxTasks = 1
  MaxSlides = 2
INVARIANTS TypeOK EventSocketsLive SlideSocketsLive SlideTimerRuns
PROPERTY DisconnectServed
CHECK_DEADLOCK FALSE
