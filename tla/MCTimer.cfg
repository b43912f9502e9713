SPECIFICATION Spec
CONSTANTS
  ClockMod = 4
  Timeouts = {1, 2}
  MaxStarts = 3
INVARIANTS TypeOK NoUseAfterFree
PROPERTIES NotEarly StopMeansStopped StopReturns
CHECK_DEADLOCK FALSE
