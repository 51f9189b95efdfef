SPECIFICATION Spec
CONSTANTS
  Timers = {1,2}
  Delays = {0,1}
  Intervals = {2}
  MaxTime = 4
  MaxCalls = 2
INVARIANTS NeverAhead RunInDueOrder RemovedStaysOut
CHECK_DEADLOCK FALSE
