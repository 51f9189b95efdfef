SPECIFICATION Spec
CONSTANTS
  Timers = {1,2}
  Delays = {0,1}
  Intervals = {2}
  MaxTime = 7
  MaxCalls = 1
INVARIANT BoundedWait
CHECK_DEADLOCK FALSE
