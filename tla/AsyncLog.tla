------------------------------ MODULE AsyncLog ------------------------------
(***************************************************************************)
(* The asynchronous log of base/AsyncLog.cpp.  Any thread calls output,    *)
(* which appends a line to a list under a mutex; one thread,               *)
(* writeThreadProc, takes the lines off, prints them and writes them to a  *)
(* file that is replaced when it has grown to the roll size.  A FATAL line *)
(* bypasses the list: the caller writes it to the same file, without the   *)
(* mutex, and crashes the process.  uninit asks the thread to end.         *)
(*                                                                         *)
(* A line is its sender and number; Length gives its bytes.  A file is the *)
(* lines in it, each with the offset it begins at, and is named by the     *)
(* base name and the second of its creation.                               *)
(***************************************************************************)
EXTENDS Naturals, Sequences, FiniteSets

CONSTANTS
    Threads,    \* the threads that log
    Levels,     \* bound: the levels they log at and set
    RollSize,   \* m_nFileRollSize
    Length,     \* strLine.length(), by line
    MaxLines,   \* bound: lines accepted from one thread
    MaxInits,   \* bound: calls of init
    MaxSeconds  \* bound: seconds the clock shows

FATAL == 6
CRITICAL == 7

ASSUME LevelsAssumption == Levels \subseteq 0..CRITICAL
ASSUME RollSizeAssumption == RollSize \in Nat \ {0}
ASSUME LogBoundsAssumption == MaxLines \in Nat /\ MaxInits \in Nat /\ MaxSeconds \in Nat \ {0}

Line == [from : Threads, no : 1..MaxLines]
FatalLine(t) == [from |-> t, no |-> 0]
DiskLine == Line \cup {FatalLine(t) : t \in Threads}

FileName == {"default", "log"} \X (1..MaxSeconds)
NoFile == <<"", 0>>

\* Every line has at least its prefix.
ASSUME LengthAssumption == Length \in [DiskLine -> Nat \ {0}]

\* A line on the disk, and the offset it begins at.
Entry == [line : DiskLine, at : Nat]

\* The size of a file.
EndOf(file) ==
    IF file = <<>> THEN 0 ELSE file[Len(file)].at + Length[file[Len(file)].line]

\* Where writeThreadProc is.  "tested": it has found the list empty and m_bExit
\* false, and holds the mutex until wait releases it.  "returned" and "failed"
\* are its ends, at m_bExit and at a file error.
WriterAt == {"none", "start", "roll", "create", "open", "test", "tested", "waiting",
             "print", "write", "returned", "failed"}
\* Where output is in a thread that logs at FATAL.
FatalAt == {"no", "check", "create", "open", "write"}

VARIABLES
    m_listLinesToWrite, \* the lines accepted and not yet taken by the writer
    m_strFileName,      \* the base of file names, empty for the console only
    m_hLogFile,         \* the file the pointer stands for, NoFile for nullptr
    isOpen,             \* ... and whether it has not been closed
    m_nCurrentWrittenSize,
    m_nCurrentLevel,
    m_bExit, m_bRunning,
    joinable,           \* m_spWriteThread->joinable()
    writer,             \* the writing thread
    strLine,            \* its local: the line taken, not yet printed (a sequence)
    uninitAt,           \* uninit: "no", or the step it is about to make
    fatal,              \* output at FATAL, by thread
    crashed,            \* the process has ended
    files,              \* what is on the disk
    now,                \* time(NULL)
    inits,              \* bound counter
    accepted,           \* history: lines in the order output accepted them
    printed,            \* history: lines in the order the writer printed them
    asked               \* history: Len(accepted) when m_bExit was set

queueVars == <<m_listLinesToWrite, accepted>>
fileVars == <<m_hLogFile, isOpen, files>>
threadVars == <<m_bRunning, joinable, inits, m_strFileName>>
vars == <<m_listLinesToWrite, m_strFileName, m_hLogFile, isOpen, m_nCurrentWrittenSize,
          m_nCurrentLevel, m_bExit, m_bRunning, joinable, writer, strLine, uninitAt, fatal,
          crashed, files, now, inits, accepted, printed, asked>>

TypeOK ==
    /\ m_listLinesToWrite \in Seq(Line)
    /\ m_strFileName \in {"", "default", "log"}
    /\ m_hLogFile \in FileName \cup {NoFile}
    /\ isOpen \in BOOLEAN
    /\ m_nCurrentWrittenSize \in Nat
    /\ m_nCurrentLevel \in 0..FATAL
    /\ m_bExit \in BOOLEAN /\ m_bRunning \in BOOLEAN /\ joinable \in BOOLEAN
    /\ writer \in WriterAt
    /\ strLine \in Seq(Line)
    /\ uninitAt \in {"no", "notify", "join", "close"}
    /\ fatal \in [Threads -> FatalAt]
    /\ crashed \in BOOLEAN
    /\ files \in [FileName -> Seq(Entry)]
    /\ now \in 1..MaxSeconds
    /\ inits \in 0..MaxInits
    /\ accepted \in Seq(Line)
    /\ printed \in Seq(Line)
    /\ asked \in Nat

\* The static initialisers.
Init ==
    /\ m_listLinesToWrite = <<>>
    /\ m_strFileName = "default"
    /\ m_hLogFile = NoFile
    /\ isOpen = FALSE
    /\ m_nCurrentWrittenSize = 0
    /\ m_nCurrentLevel = 2
    /\ m_bExit = FALSE /\ m_bRunning = FALSE /\ joinable = FALSE
    /\ writer = "none"
    /\ strLine = <<>>
    /\ uninitAt = "no"
    /\ fatal = [t \in Threads |-> "no"]
    /\ crashed = FALSE
    /\ files = [f \in FileName |-> <<>>]
    /\ now = 1
    /\ inits = 0
    /\ accepted = <<>>
    /\ printed = <<>>
    /\ asked = 0

-----------------------------------------------------------------------------
(* Files.  A FILE that has been closed and is used again is undefined      *)
(* behaviour: the process ends, or the call fails.                         *)

\* createNewFile up to fopen: close the present file, whoever opened it.
CloseOld ==
    /\ UNCHANGED <<m_hLogFile, files>>
    /\ isOpen' = FALSE
    /\ \/ crashed' = crashed
       \/ m_hLogFile # NoFile /\ ~isOpen /\ crashed' = TRUE

\* fopen fails.
OpenFails == m_hLogFile' = NoFile /\ isOpen' = FALSE /\ UNCHANGED files

\* fopen(name, "w+") succeeds: an existing file of that name is emptied.
OpenNew ==
    LET name == <<m_strFileName, now>>
    IN  /\ m_hLogFile' = name
        /\ isOpen' = TRUE
        /\ files' = [files EXCEPT ![name] = <<>>]

\* writeToFile succeeds: the whole line is in the file, and flushed.
WriteToFile(line) ==
    /\ m_hLogFile # NoFile /\ isOpen
    /\ files' = [files EXCEPT ![m_hLogFile] = Append(@, [line |-> line, at |-> EndOf(@)])]
    /\ UNCHANGED <<m_hLogFile, isOpen>>

-----------------------------------------------------------------------------
(* Logging.                                                                *)

MutexFree == writer # "tested"

LinesOf(t) == Cardinality({i \in DOMAIN accepted : accepted[i].from = t})

\* m_cvWrite.notify_one(): lost unless the writer waits.
NotifyOne == writer' = IF writer = "waiting" THEN "test" ELSE writer

\* Fault: the condition variable is not notified.
PushSilent(t) ==
    LET line == [from |-> t, no |-> LinesOf(t) + 1]
    IN  /\ MutexFree
        /\ LinesOf(t) < MaxLines
        /\ m_listLinesToWrite' = Append(m_listLinesToWrite, line)
        /\ accepted' = Append(accepted, line)
        /\ UNCHANGED writer

\* Fault: the line goes to the front of the list.
PushFront(t) ==
    LET line == [from |-> t, no |-> LinesOf(t) + 1]
    IN  /\ MutexFree
        /\ LinesOf(t) < MaxLines
        /\ m_listLinesToWrite' = <<line>> \o m_listLinesToWrite
        /\ accepted' = Append(accepted, line)
        /\ NotifyOne

\* push_back and notify_one, under the mutex.
Push(t) ==
    LET line == [from |-> t, no |-> LinesOf(t) + 1]
    IN  /\ MutexFree
        /\ LinesOf(t) < MaxLines
        /\ m_listLinesToWrite' = Append(m_listLinesToWrite, line)
        /\ accepted' = Append(accepted, line)
        /\ NotifyOne

\* The level test at the head of both output functions.
LevelOn(level) == level = CRITICAL \/ level >= m_nCurrentLevel

Output(t, level) ==
    /\ fatal[t] = "no"
    /\ level # FATAL
    /\ LevelOn(level)
    /\ Push(t)
    /\ UNCHANGED <<m_nCurrentWrittenSize, m_nCurrentLevel, m_bExit, strLine, uninitAt, fatal,
                   crashed, now, printed, asked, fileVars, threadVars>>

\* outputBinary has no level.
OutputBinary(t) ==
    /\ fatal[t] = "no"
    /\ Push(t)
    /\ UNCHANGED <<m_nCurrentWrittenSize, m_nCurrentLevel, m_bExit, strLine, uninitAt, fatal,
                   crashed, now, printed, asked, fileVars, threadVars>>

SetLevel(level) ==
    /\ level <= FATAL
    /\ m_nCurrentLevel' = level
    /\ UNCHANGED <<m_nCurrentWrittenSize, m_bExit, writer, strLine, uninitAt, fatal, crashed,
                   now, printed, asked, queueVars, fileVars, threadVars>>

-----------------------------------------------------------------------------
(* output at FATAL, step by step: no lock is held.                         *)

FatalFrame ==
    UNCHANGED <<m_nCurrentWrittenSize, m_nCurrentLevel, m_bExit, writer, strLine, uninitAt,
                now, printed, asked, queueVars, threadVars>>

OutputFatal(t) ==
    /\ fatal[t] = "no"
    /\ FATAL \in Levels /\ LevelOn(FATAL)
    /\ fatal' = [fatal EXCEPT ![t] = "check"]
    /\ UNCHANGED <<crashed, fileVars>>
    /\ FatalFrame

\* With no file name crash at once; with no file create one first.
FatalCheck(t) ==
    /\ fatal[t] = "check"
    /\ fatal' = [fatal EXCEPT ![t] = IF m_hLogFile = NoFile THEN "create" ELSE "write"]
    /\ crashed' = (m_strFileName = "")
    /\ UNCHANGED fileVars
    /\ FatalFrame

FatalCreate(t) ==
    /\ fatal[t] = "create"
    /\ fatal' = [fatal EXCEPT ![t] = "open"]
    /\ CloseOld
    /\ FatalFrame

\* When the file cannot be created output returns false, and there is no crash.
FatalOpen(t) ==
    /\ fatal[t] = "open"
    /\ \/ OpenNew /\ fatal' = [fatal EXCEPT ![t] = "write"]
       \/ OpenFails /\ fatal' = [fatal EXCEPT ![t] = "no"]
    /\ UNCHANGED crashed
    /\ FatalFrame

\* writeToFile, then crash, whether or not the line could be written.
FatalWrite(t) ==
    /\ fatal[t] = "write"
    /\ \/ WriteToFile(FatalLine(t))
       \/ UNCHANGED fileVars
    /\ crashed' = TRUE
    /\ UNCHANGED fatal
    /\ FatalFrame

Fatal(t) == OutputFatal(t) \/ FatalCheck(t) \/ FatalCreate(t) \/ FatalOpen(t) \/ FatalWrite(t)

-----------------------------------------------------------------------------
(* The writing thread.                                                     *)

WriterFrame ==
    UNCHANGED <<m_nCurrentLevel, m_bExit, joinable, inits, m_strFileName, uninitAt, fatal,
                now, accepted, asked>>

Start ==
    /\ writer = "start"
    /\ m_bRunning' = TRUE
    /\ writer' = "roll"
    /\ UNCHANGED <<m_listLinesToWrite, m_nCurrentWrittenSize, strLine, crashed, printed, fileVars>>
    /\ WriterFrame

\* Fault: a file is replaced only when it has outgrown the roll size.
MustRollLate == m_hLogFile = NoFile \/ m_nCurrentWrittenSize > RollSize

MustRoll == m_hLogFile = NoFile \/ m_nCurrentWrittenSize >= RollSize

\* The head of the loop.
Roll ==
    /\ writer = "roll"
    /\ IF m_strFileName # "" /\ MustRoll
         THEN writer' = "create" /\ m_nCurrentWrittenSize' = 0
         ELSE writer' = "test" /\ UNCHANGED m_nCurrentWrittenSize
    /\ UNCHANGED <<m_listLinesToWrite, m_bRunning, strLine, crashed, printed, fileVars>>
    /\ WriterFrame

Create ==
    /\ writer = "create"
    /\ writer' = "open"
    /\ CloseOld
    /\ UNCHANGED <<m_listLinesToWrite, m_nCurrentWrittenSize, m_bRunning, strLine, printed>>
    /\ WriterFrame

Open ==
    /\ writer = "open"
    /\ \/ OpenNew /\ writer' = "test"
       \/ OpenFails /\ writer' = "failed"
    /\ UNCHANGED <<m_listLinesToWrite, m_nCurrentWrittenSize, m_bRunning, strLine, crashed, printed>>
    /\ WriterFrame

\* Fault: the thread honours m_bExit before it looks at the list.
TestExitFirst ==
    /\ writer = "test"
    /\ \/ /\ m_listLinesToWrite # <<>> /\ ~m_bExit
          /\ strLine' = <<Head(m_listLinesToWrite)>>
          /\ m_listLinesToWrite' = Tail(m_listLinesToWrite)
          /\ writer' = "print"
       \/ /\ m_bExit \/ m_listLinesToWrite = <<>>
          /\ writer' = IF m_bExit THEN "returned" ELSE "tested"
          /\ UNCHANGED <<m_listLinesToWrite, strLine>>
    /\ UNCHANGED <<m_nCurrentWrittenSize, m_bRunning, crashed, printed, fileVars>>
    /\ WriterFrame

\* With the mutex: take the first line; with none, return when asked to.
Test ==
    /\ writer = "test"
    /\ \/ /\ m_listLinesToWrite # <<>>
          /\ strLine' = <<Head(m_listLinesToWrite)>>
          /\ m_listLinesToWrite' = Tail(m_listLinesToWrite)
          /\ writer' = "print"
       \/ /\ m_listLinesToWrite = <<>>
          /\ writer' = IF m_bExit THEN "returned" ELSE "tested"
          /\ UNCHANGED <<m_listLinesToWrite, strLine>>
    /\ UNCHANGED <<m_nCurrentWrittenSize, m_bRunning, crashed, printed, fileVars>>
    /\ WriterFrame

\* m_cvWrite.wait releases the mutex and blocks.  m_bExit may have been set,
\* and its notification made, since the test: uninit does not take the mutex.
Wait ==
    /\ writer = "tested"
    /\ writer' = "waiting"
    /\ UNCHANGED <<m_listLinesToWrite, m_nCurrentWrittenSize, m_bRunning, strLine, crashed,
                   printed, fileVars>>
    /\ WriterFrame

\* A condition variable may wake its waiter for no reason.
Spurious ==
    /\ writer = "waiting"
    /\ writer' = "test"
    /\ UNCHANGED <<m_listLinesToWrite, m_nCurrentWrittenSize, m_bRunning, strLine, crashed,
                   printed, fileVars>>
    /\ WriterFrame

\* The line goes to the console, and with a file name to the file.
PrintLine ==
    /\ writer = "print"
    /\ printed' = printed \o strLine
    /\ strLine' = <<>>
    /\ writer' = IF m_strFileName = "" THEN "roll" ELSE "write"
    /\ UNCHANGED <<m_listLinesToWrite, m_nCurrentWrittenSize, m_bRunning, crashed, fileVars>>
    /\ WriterFrame

\* A write that fails ends the thread; through a closed file it may do worse.
Write ==
    /\ writer = "write"
    /\ \/ /\ WriteToFile(printed[Len(printed)])
          /\ m_nCurrentWrittenSize' = m_nCurrentWrittenSize + Length[printed[Len(printed)]]
          /\ writer' = "roll"
          /\ UNCHANGED crashed
       \/ /\ writer' = "failed"
          /\ \/ UNCHANGED crashed
             \/ ~(m_hLogFile # NoFile /\ isOpen) /\ crashed' = TRUE
          /\ UNCHANGED <<m_nCurrentWrittenSize, fileVars>>
    /\ UNCHANGED <<m_listLinesToWrite, m_bRunning, strLine, printed>>
    /\ WriterFrame

\* What the thread does by itself.
WriterStep == Start \/ Roll \/ Create \/ Open \/ Test \/ Wait \/ PrintLine \/ Write

-----------------------------------------------------------------------------
(* init and uninit, called by one thread in turn, with none inside output. *)

Ended == writer \in {"none", "returned", "failed"}

\* A file name, or none; the thread of an earlier init has been joined.
\* m_bExit keeps its value.
InitLog ==
    /\ inits < MaxInits
    /\ Ended /\ ~joinable /\ uninitAt = "no"
    /\ \A t \in Threads : fatal[t] = "no"
    /\ m_strFileName' \in {"", "log"}
    /\ joinable' = TRUE
    /\ writer' = "start"
    /\ inits' = inits + 1
    /\ UNCHANGED <<m_nCurrentWrittenSize, m_nCurrentLevel, m_bExit, m_bRunning, strLine,
                   uninitAt, fatal, crashed, now, printed, asked, queueVars, fileVars>>

UninitFrame ==
    UNCHANGED <<m_nCurrentWrittenSize, m_nCurrentLevel, m_bRunning, inits, m_strFileName,
                strLine, fatal, now, printed, queueVars>>

UninitExit ==
    /\ uninitAt = "no" /\ writer # "none"
    /\ m_bExit' = TRUE
    /\ asked' = IF m_bExit THEN asked ELSE Len(accepted)
    /\ uninitAt' = "notify"
    /\ UNCHANGED <<joinable, writer, crashed, fileVars>>
    /\ UninitFrame

UninitNotify ==
    /\ uninitAt = "notify"
    /\ NotifyOne
    /\ uninitAt' = "join"
    /\ UNCHANGED <<joinable, m_bExit, asked, crashed, fileVars>>
    /\ UninitFrame

UninitJoin ==
    /\ uninitAt = "join"
    /\ joinable => Ended
    /\ joinable' = FALSE
    /\ uninitAt' = "close"
    /\ UNCHANGED <<m_bExit, asked, writer, crashed, fileVars>>
    /\ UninitFrame

UninitClose ==
    /\ uninitAt = "close"
    /\ uninitAt' = "no"
    /\ m_hLogFile' = NoFile
    /\ isOpen' = FALSE
    /\ \/ UNCHANGED crashed
       \/ m_hLogFile # NoFile /\ ~isOpen /\ crashed' = TRUE
    /\ UNCHANGED <<files, joinable, m_bExit, asked, writer>>
    /\ UninitFrame

Uninit == UninitExit \/ UninitNotify \/ UninitJoin \/ UninitClose

\* The second time(NULL) shows changes.
Tick ==
    /\ now < MaxSeconds
    /\ now' = now + 1
    /\ UNCHANGED <<m_nCurrentWrittenSize, m_nCurrentLevel, m_bExit, writer, strLine, uninitAt,
                   fatal, crashed, printed, asked, queueVars, fileVars, threadVars>>

Next ==
    /\ ~crashed
    /\ \/ \E t \in Threads : \/ \E level \in Levels : Output(t, level)
                             \/ OutputBinary(t)
                             \/ Fatal(t)
       \/ \E level \in Levels : SetLevel(level)
       \/ WriterStep
       \/ Spurious
       \/ InitLog
       \/ Uninit
       \/ Tick

\* The operating system schedules the writing thread.
Fairness == WF_vars(~crashed /\ WriterStep)

Spec == Init /\ [][Next]_vars /\ Fairness

-----------------------------------------------------------------------------
(* Properties.                                                             *)

\* LinesInOrder: the writer prints the lines output accepted, each once, in the
\* order of acceptance, whatever threads, roll-overs, FATAL lines, uninit and a
\* second init do in between (writeThreadProc, output).
LinesInOrder == accepted = printed \o strLine \o m_listLinesToWrite

\* ExitDrains: a writer that returned at m_bExit has printed every line accepted
\* before uninit set it (writeThreadProc tests the list before the flag).
ExitDrains == writer = "returned" => Len(printed) >= asked

\* RollBound: a file outgrows the roll size by its last line only: whatever the
\* lengths, a line of the list begins below the roll size, and beyond it there
\* is at most the FATAL line the process ends with, although FATAL lines and
\* the files they make are not counted in m_nCurrentWrittenSize and the count
\* survives uninit (writeThreadProc, output).
RollBound ==
    \A f \in FileName : \A i \in DOMAIN files[f] :
        files[f][i].at >= RollSize => i = Len(files[f]) /\ files[f][i].line.no = 0

\* Does not hold: writeThreadProc compares before the line is written and adds
\* its length after.
\* m_nFileRollSize is the largest size of one log file (AsyncLog.h).
FileSizeBound == \A f \in FileName : EndOf(files[f]) <= RollSize

\* LineIsPrinted: a line in the list of a live writer is printed, unless the
\* thread ends at a file error or the process crashes; no wake-up for a line
\* is lost (output notifies under the mutex).
LineIsPrinted ==
    \A line \in Line :
        /\ \E i \in DOMAIN m_listLinesToWrite : m_listLinesToWrite[i] = line
        /\ ~Ended
        ~> \/ \E i \in DOMAIN printed : printed[i] = line
           \/ writer = "failed"
           \/ crashed

\* KeptOnDisk does not hold: a second file of the same second has the same name.
\* createNewFile "always creates a new file" (AsyncLog.cpp:411), so
\* what is in a file stays there.
KeptOnDisk ==
    [][\A f \in FileName : \A i \in DOMAIN files[f] :
           i \in DOMAIN files'[f] /\ files'[f][i] = files[f][i]]_vars

=============================================================================
