CONSTANTS
  kCheapPrepend = 8
  kInitialSize = 16
  ExtraSize = 32
  MAX_PACKAGE_SIZE = 40
  Pieces = {7}
  MaxOthers = 1
  Scripts <- MCScripts
  OtherMessages <- MCOtherMessages
  NotLogin <- MCNotLogin
SPECIFICATION Spec
INVARIANTS RequestsExact InputIntact AnswersReadable
PROPERTIES BadPackageCloses Implements
CHECK_DEADLOCK FALSE
