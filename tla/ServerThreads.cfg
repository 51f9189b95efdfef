SPECIFICATION Spec
CONSTANTS
  Clients = {c1,c2}
  NumThreads = 2
  MaxStarts = 2
  MaxFds = 3
  MaxOthers = 3
INVARIANTS LoopsAlive Balanced
PROPERTIES StartAndStopEnd EveryoneAnswered
CHECK_DEADLOCK FALSE
