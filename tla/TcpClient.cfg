CONSTANTS
  MaxFds = 4
  MaxCalls = 4
SPECIFICATION Spec
INVARIANTS SocketsAccounted
CHECK_DEADLOCK FALSE
