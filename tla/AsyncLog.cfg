SPECIFICATION Spec
CONSTANTS
    Threads = {t1, t2}
    Levels = {2, 6, 7}
    Wordy = t2
    Length <- MCLength
    RollSize = 2
    MaxLines = 1
    MaxInits = 2
    MaxSeconds = 2
INVARIANTS LinesInOrder ExitDrains 
PROPERTY LineIsPrinted
CHECK_DEADLOCK FALSE
