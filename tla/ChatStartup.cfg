CONSTANTS
  Chats = {"hello", "bye"}
  MaxFaults = 3
  MaxStarts = 3
  MaxList = 4
SPECIFICATION Spec
INVARIANTS CleanStartRecovers InitMeansComplete HistoryOutlivesDbFailure
CHECK_DEADLOCK FALSE
