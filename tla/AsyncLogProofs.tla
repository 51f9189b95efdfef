--------------------------- MODULE AsyncLogProofs ---------------------------
(***************************************************************************)
(* The log keeps every line it accepts, in order, and uninit loses none,   *)
(* for any number of threads, lines, restarts and files.                   *)
(***************************************************************************)
EXTENDS AsyncLog, SequenceTheorems, FiniteSetTheorems, TLAPS

(***************************************************************************)
(* Types.  A new file takes its name from m_strFileName, so the type of    *)
(* m_hLogFile needs that nobody creates a file when the name is empty.     *)
(***************************************************************************)
NameKnown ==
    /\ writer \in {"create", "open", "write"} => m_strFileName # ""
    /\ \A t \in Threads :
           fatal[t] \in {"create", "open", "write"} /\ crashed = FALSE => m_strFileName # ""

\* The writer has a line in hand between taking and printing it, and only then.
LineInHand ==
    /\ writer = "print" => Len(strLine) = 1
    /\ writer # "print" => strLine = <<>>
    /\ writer = "write" => printed # <<>>

Typed == TypeOK /\ NameKnown /\ LineInHand

\* The number of lines of a thread is a number: the history is finite.
LEMMA LinesOfType ==
    ASSUME TypeOK, NEW t \in Threads
    PROVE  LinesOf(t) \in Nat
<1> DEFINE mine == {i \in DOMAIN accepted : accepted[i].from = t}
<1>1. accepted \in Seq(Line)
    BY DEF TypeOK
<1>2. Len(accepted) \in Nat /\ DOMAIN accepted = 1..Len(accepted)
    BY <1>1, LenProperties
<1>3. IsFiniteSet(1..Len(accepted))
    BY <1>2, FS_Interval
<1>4. mine \in SUBSET (1..Len(accepted))
    BY <1>2
<1>5. IsFiniteSet(mine)
    BY <1>3, <1>4, FS_Subset
<1>6. Cardinality(mine) \in Nat
    BY <1>5, FS_CardinalityType
<1> QED
    BY <1>6 DEF LinesOf

\* What Push leaves behind has its type.
LEMMA PushTyped ==
    ASSUME TypeOK, NEW t \in Threads, Push(t)
    PROVE  /\ m_listLinesToWrite' \in Seq(Line)
           /\ accepted' \in Seq(Line)
           /\ writer' \in WriterAt
           /\ writer' = writer \/ (writer = "waiting" /\ writer' = "test")
<1> DEFINE line == [from |-> t, no |-> LinesOf(t) + 1]
<1>1. LinesOf(t) \in Nat
    BY LinesOfType
<1>2. LinesOf(t) + 1 \in 1..MaxLines
    BY <1>1, LogBoundsAssumption DEF Push
<1>3. line \in Line
    BY <1>2 DEF Line
<1>4. /\ m_listLinesToWrite' = Append(m_listLinesToWrite, line)
      /\ accepted' = Append(accepted, line)
      /\ NotifyOne
    BY DEF Push
<1>5. m_listLinesToWrite \in Seq(Line) /\ accepted \in Seq(Line) /\ writer \in WriterAt
    BY DEF TypeOK
<1> HIDE DEF line
<1>6. m_listLinesToWrite' \in Seq(Line) /\ accepted' \in Seq(Line)
    BY <1>3, <1>4, <1>5
<1>7. /\ writer' \in WriterAt
      /\ writer' = writer \/ (writer = "waiting" /\ writer' = "test")
    BY <1>4, <1>5 DEF NotifyOne, WriterAt
<1> QED
    BY <1>6, <1>7

\* The size of a file is a number, and a line makes it larger by its length.
LEMMA EndType ==
    ASSUME NEW s \in Seq(Entry)
    PROVE  /\ EndOf(s) \in Nat
           /\ \A e \in Entry : EndOf(Append(s, e)) = e.at + Length[e.line]
<1>1. Len(s) \in Nat /\ DOMAIN s = 1..Len(s)
    BY LenProperties
<1>2. CASE s = <<>>
    BY <1>2 DEF EndOf
<1>3. CASE s # <<>>
    <2>1. s[Len(s)] \in Entry
        BY <1>3, ElementOfSeq
    <2>2. s[Len(s)].at \in Nat /\ s[Len(s)].line \in DiskLine
        BY <2>1 DEF Entry
    <2>3. Length[s[Len(s)].line] \in Nat
        BY <2>2, LengthAssumption
    <2> QED
        BY <1>3, <2>2, <2>3 DEF EndOf
<1>4. ASSUME NEW e \in Entry
      PROVE  EndOf(Append(s, e)) = e.at + Length[e.line]
    <2>1. PICK p, n : p = Append(s, e) /\ n = Len(s) + 1
        OBVIOUS
    <2>2. p # <<>> /\ Len(p) = n /\ p[n] = e
        BY <2>1
    <2> QED
        BY <2>1, <2>2 DEF EndOf
<1> QED
    BY <1>2, <1>3, <1>4

\* Each way a step treats the files keeps their types.
LEMMA FilesTyped ==
    ASSUME TypeOK,
           \/ CloseOld
           \/ OpenNew /\ m_strFileName # ""
           \/ OpenFails
           \/ \E line \in DiskLine : WriteToFile(line)
           \/ UNCHANGED fileVars
    PROVE  /\ m_hLogFile' \in FileName \cup {NoFile}
           /\ isOpen' \in BOOLEAN
           /\ files' \in [FileName -> Seq(Entry)]
<1>1. /\ m_hLogFile \in FileName \cup {NoFile}
      /\ isOpen \in BOOLEAN
      /\ files \in [FileName -> Seq(Entry)]
    BY DEF TypeOK
<1>2. CASE CloseOld
    BY <1>1, <1>2 DEF CloseOld
<1>3. CASE OpenNew /\ m_strFileName # ""
    <2>1. <<m_strFileName, now>> \in FileName
        BY <1>3 DEF TypeOK, FileName
    <2>2. << >> \in Seq(Entry)
        BY EmptySeq
    <2> QED
        BY <1>1, <1>3, <2>1, <2>2 DEF OpenNew
<1>4. CASE OpenFails
    BY <1>1, <1>4 DEF OpenFails
<1>5. CASE \E line \in DiskLine : WriteToFile(line)
    <2>1. PICK line \in DiskLine : WriteToFile(line)
        BY <1>5
    <2>2. m_hLogFile \in FileName
        BY <1>1, <2>1 DEF WriteToFile
    <2>3. files[m_hLogFile] \in Seq(Entry)
        BY <1>1, <2>2
    <2> DEFINE entry == [line |-> line, at |-> EndOf(files[m_hLogFile])]
    <2>7. entry \in Entry
        BY <2>3, EndType DEF Entry
    <2>4. files' = [files EXCEPT ![m_hLogFile] = Append(files[m_hLogFile], entry)]
        BY <2>1 DEF WriteToFile
    <2> HIDE DEF entry
    <2>6. Append(files[m_hLogFile], entry) \in Seq(Entry)
        BY <2>3, <2>7, AppendProperties
    <2>5. m_hLogFile' = m_hLogFile /\ isOpen' = isOpen
        BY <2>1 DEF WriteToFile
    <2> QED
        BY <1>1, <2>6, <2>4, <2>5
<1>6. CASE UNCHANGED fileVars
    BY <1>1, <1>6 DEF fileVars
<1> QED
    BY <1>2, <1>3, <1>4, <1>5, <1>6

\* Typed is preserved by every step.
LEMMA TypedStep ==
    ASSUME Typed, [Next]_vars
    PROVE  Typed'
<1> TypeOK /\ NameKnown /\ LineInHand
    BY DEF Typed
<1>0. fatal \in [Threads -> FatalAt]
    BY DEF TypeOK
<1>01. ~crashed => crashed = FALSE
    BY DEF TypeOK
<1>1. CASE UNCHANGED vars
    <2>t1. TypeOK'
        BY <1>1 DEF vars, TypeOK
    <2>t2. NameKnown'
        BY <1>1 DEF vars, NameKnown
    <2>t3. LineInHand'
        BY <1>1 DEF vars, LineInHand
    <2> QED
        BY <2>t1, <2>t2, <2>t3 DEF Typed
<1>2. ASSUME NEW t \in Threads, NEW level \in Levels, ~crashed, Output(t, level)
      PROVE  Typed'
    <2>t1. TypeOK'
        BY <1>2, PushTyped DEF Output, fileVars, threadVars, TypeOK
    <2>t2. NameKnown'
        BY <1>2, PushTyped DEF Output, fileVars, threadVars, NameKnown
    <2>t3. LineInHand'
        BY <1>2, PushTyped DEF Output, fileVars, threadVars, LineInHand
    <2> QED
        BY <2>t1, <2>t2, <2>t3 DEF Typed
<1>3. ASSUME NEW t \in Threads, ~crashed, OutputBinary(t)
      PROVE  Typed'
    <2>t1. TypeOK'
        BY <1>3, PushTyped DEF OutputBinary, fileVars, threadVars, TypeOK
    <2>t2. NameKnown'
        BY <1>3, PushTyped DEF OutputBinary, fileVars, threadVars, NameKnown
    <2>t3. LineInHand'
        BY <1>3, PushTyped DEF OutputBinary, fileVars, threadVars, LineInHand
    <2> QED
        BY <2>t1, <2>t2, <2>t3 DEF Typed
<1>4. ASSUME NEW t \in Threads, ~crashed, OutputFatal(t)
      PROVE  Typed'
    <2>t1. TypeOK'
        BY <1>4 DEF OutputFatal, FatalFrame, FatalAt, fileVars, threadVars, queueVars, TypeOK
    <2>t2. NameKnown'
        BY <1>4, <1>0 DEF OutputFatal, FatalFrame, FatalAt, fileVars, threadVars, queueVars, NameKnown
    <2>t3. LineInHand'
        BY <1>4 DEF OutputFatal, FatalFrame, FatalAt, fileVars, threadVars, queueVars, LineInHand
    <2> QED
        BY <2>t1, <2>t2, <2>t3 DEF Typed
<1>5. ASSUME NEW t \in Threads, ~crashed, FatalCheck(t)
      PROVE  Typed'
    <2>t1. TypeOK'
        BY <1>5 DEF FatalCheck, FatalFrame, FatalAt, fileVars, threadVars, queueVars, TypeOK
    <2>t2. NameKnown'
        BY <1>5 DEF FatalCheck, FatalFrame, FatalAt, fileVars, threadVars, queueVars, NameKnown
    <2>t3. LineInHand'
        BY <1>5 DEF FatalCheck, FatalFrame, FatalAt, fileVars, threadVars, queueVars, LineInHand
    <2> QED
        BY <2>t1, <2>t2, <2>t3 DEF Typed
<1>6. ASSUME NEW t \in Threads, ~crashed, FatalCreate(t)
      PROVE  Typed'
    <2>t1. TypeOK'
        BY <1>6 DEF FatalCreate, CloseOld, FatalFrame, FatalAt, threadVars, queueVars, TypeOK
    <2>t2. NameKnown'
        BY <1>6 DEF FatalCreate, CloseOld, FatalFrame, FatalAt, threadVars, queueVars, NameKnown
    <2>t3. LineInHand'
        BY <1>6 DEF FatalCreate, CloseOld, FatalFrame, FatalAt, threadVars, queueVars, LineInHand
    <2> QED
        BY <2>t1, <2>t2, <2>t3 DEF Typed
<1>7. ASSUME NEW t \in Threads, ~crashed, FatalOpen(t)
      PROVE  Typed'
    <2>1. m_strFileName # ""
        BY <1>7, <1>01 DEF FatalOpen, NameKnown
    <2>2. /\ m_hLogFile' \in FileName \cup {NoFile}
          /\ isOpen' \in BOOLEAN
          /\ files' \in [FileName -> Seq(Entry)]
        BY <1>7, <2>1, FilesTyped DEF FatalOpen
    <2>t1. TypeOK'
        BY <1>7, <2>2 DEF FatalOpen, FatalFrame, FatalAt, threadVars, queueVars, TypeOK
    <2>t2. NameKnown'
        BY <1>7, <2>2 DEF FatalOpen, FatalFrame, FatalAt, threadVars, queueVars, NameKnown
    <2>t3. LineInHand'
        BY <1>7, <2>2 DEF FatalOpen, FatalFrame, FatalAt, threadVars, queueVars, LineInHand
    <2> QED
        BY <2>t1, <2>t2, <2>t3 DEF Typed
<1>8. ASSUME NEW t \in Threads, ~crashed, FatalWrite(t)
      PROVE  Typed'
    <2>1. FatalLine(t) \in DiskLine
        BY DEF DiskLine
    <2>2. /\ m_hLogFile' \in FileName \cup {NoFile}
          /\ isOpen' \in BOOLEAN
          /\ files' \in [FileName -> Seq(Entry)]
        BY <1>8, <2>1, FilesTyped DEF FatalWrite
    <2>t1. TypeOK'
        BY <1>8, <2>2 DEF FatalWrite, FatalFrame, threadVars, queueVars, TypeOK
    <2>t2. NameKnown'
        BY <1>8, <2>2 DEF FatalWrite, FatalFrame, threadVars, queueVars, NameKnown
    <2>t3. LineInHand'
        BY <1>8, <2>2 DEF FatalWrite, FatalFrame, threadVars, queueVars, LineInHand
    <2> QED
        BY <2>t1, <2>t2, <2>t3 DEF Typed
<1>9. ASSUME NEW level \in Levels, ~crashed, SetLevel(level)
      PROVE  Typed'
    <2>1. m_nCurrentLevel' \in 0..FATAL
        BY <1>9, LevelsAssumption DEF SetLevel, FATAL, CRITICAL
    <2>t1. TypeOK'
        BY <1>9, <2>1 DEF SetLevel, fileVars, threadVars,
               queueVars, TypeOK
    <2>t2. NameKnown'
        BY <1>9, LevelsAssumption DEF SetLevel, FATAL, CRITICAL, fileVars, threadVars,
               queueVars, NameKnown
    <2>t3. LineInHand'
        BY <1>9, LevelsAssumption DEF SetLevel, FATAL, CRITICAL, fileVars, threadVars,
               queueVars, LineInHand
    <2> QED
        BY <2>t1, <2>t2, <2>t3 DEF Typed
<1>10. ASSUME ~crashed, WriterStep
       PROVE  Typed'
    <2>1. CASE Start
        <3>t1. TypeOK'
            BY <2>1 DEF Start, WriterFrame, WriterAt, fileVars, TypeOK
        <3>t2. NameKnown'
            BY <2>1 DEF Start, WriterFrame, WriterAt, fileVars, NameKnown
        <3>t3. LineInHand'
            BY <2>1 DEF Start, WriterFrame, WriterAt, fileVars, LineInHand
        <3> QED
            BY <3>t1, <3>t2, <3>t3 DEF Typed
    <2>2. CASE Roll
        <3>1. m_nCurrentWrittenSize \in Nat
            BY DEF Typed, TypeOK
        <3>2. /\ m_nCurrentWrittenSize' \in Nat
              /\ writer' = "create" \/ writer' = "test"
              /\ writer' = "create" => m_strFileName # ""
            <4>1. CASE m_strFileName # "" /\ MustRoll
                <5>1. writer' = "create" /\ m_nCurrentWrittenSize' = 0
                    BY <2>2, <4>1 DEF Roll
                <5> QED
                    BY <4>1, <5>1
            <4>2. CASE ~(m_strFileName # "" /\ MustRoll)
                BY <2>2, <3>1, <4>2 DEF Roll
            <4> QED
                BY <4>1, <4>2
        <3>3. writer = "roll" /\ UNCHANGED <<m_listLinesToWrite, m_bRunning, strLine, crashed,
                                             printed, fileVars>> /\ WriterFrame
            BY <2>2 DEF Roll
        <3>t1. TypeOK'
            BY ZenonT(60), <3>2, <3>3 DEF WriterFrame, WriterAt, fileVars, TypeOK
        <3>t2. NameKnown'
            BY <3>2, <3>3 DEF WriterFrame, WriterAt, fileVars, NameKnown
        <3>t3. LineInHand'
            BY <3>2, <3>3 DEF WriterFrame, WriterAt, fileVars, LineInHand
        <3> QED
            BY <3>t1, <3>t2, <3>t3 DEF Typed
    <2>3. CASE Create
        <3>t1. TypeOK'
            BY <1>10, <2>3 DEF Create, CloseOld, WriterFrame, WriterAt, TypeOK
        <3>t2. NameKnown'
            BY <1>10, <2>3 DEF Create, CloseOld, WriterFrame, WriterAt, NameKnown
        <3>t3. LineInHand'
            BY <1>10, <2>3 DEF Create, CloseOld, WriterFrame, WriterAt, LineInHand
        <3> QED
            BY <3>t1, <3>t2, <3>t3 DEF Typed
    <2>4. CASE Open
        <3>1. m_strFileName # ""
            BY <2>4 DEF Open, NameKnown
        <3>2. /\ m_hLogFile' \in FileName \cup {NoFile}
              /\ isOpen' \in BOOLEAN
              /\ files' \in [FileName -> Seq(Entry)]
            BY <2>4, <3>1, FilesTyped DEF Open
        <3>t1. TypeOK'
            BY <2>4, <3>2 DEF Open, WriterFrame, WriterAt, TypeOK
        <3>t2. NameKnown'
            BY <2>4, <3>2 DEF Open, WriterFrame, WriterAt, NameKnown
        <3>t3. LineInHand'
            BY <2>4, <3>2 DEF Open, WriterFrame, WriterAt, LineInHand
        <3> QED
            BY <3>t1, <3>t2, <3>t3 DEF Typed
    <2>5. CASE Test
        <3>1. m_listLinesToWrite \in Seq(Line) /\ strLine \in Seq(Line) /\ printed \in Seq(Line)
            BY DEF Typed, TypeOK
        <3>2. /\ m_listLinesToWrite' \in Seq(Line)
              /\ strLine' \in Seq(Line)
              /\ writer' = "print" => Len(strLine') = 1
              /\ writer' # "print" => strLine' = <<>>
              /\ writer' \in {"print", "returned", "tested"}
            <4>1. CASE m_listLinesToWrite # <<>> /\ strLine' = <<Head(m_listLinesToWrite)>>
                       /\ m_listLinesToWrite' = Tail(m_listLinesToWrite) /\ writer' = "print"
                <5>1. Head(m_listLinesToWrite) \in Line /\ Tail(m_listLinesToWrite) \in Seq(Line)
                    BY <3>1, <4>1, HeadTailProperties
                <5> QED
                    BY <4>1, <5>1
            <4>2. CASE UNCHANGED <<m_listLinesToWrite, strLine>>
                       /\ writer' = IF m_bExit THEN "returned" ELSE "tested"
                BY <2>5, <3>1, <4>2 DEF Test, LineInHand
            <4> QED
                BY <2>5, <4>1, <4>2 DEF Test
        <3>t1. TypeOK'
            BY ZenonT(60), <2>5, <3>2 DEF Test, WriterFrame, WriterAt, fileVars, TypeOK
        <3>t2. NameKnown'
            BY <2>5, <3>2 DEF Test, WriterFrame, WriterAt, fileVars, NameKnown
        <3>t3. LineInHand'
            BY <2>5, <3>2 DEF Test, WriterFrame, WriterAt, fileVars, LineInHand
        <3> QED
            BY <3>t1, <3>t2, <3>t3 DEF Typed
    <2>6. CASE Wait
        <3>t1. TypeOK'
            BY <2>6 DEF Wait, WriterFrame, WriterAt, fileVars, TypeOK
        <3>t2. NameKnown'
            BY <2>6 DEF Wait, WriterFrame, WriterAt, fileVars, NameKnown
        <3>t3. LineInHand'
            BY <2>6 DEF Wait, WriterFrame, WriterAt, fileVars, LineInHand
        <3> QED
            BY <3>t1, <3>t2, <3>t3 DEF Typed
    <2>7. CASE PrintLine
        <3>1. printed \in Seq(Line) /\ strLine \in Seq(Line) /\ Len(strLine) = 1
            BY <2>7 DEF TypeOK, PrintLine, LineInHand
        <3>2. printed' \in Seq(Line) /\ printed' # <<>>
            <4>4. /\ printed \o strLine \in Seq(Line)
                  /\ Len(printed \o strLine) = Len(printed) + Len(strLine)
                BY <3>1, ConcatProperties
            <4>1. /\ printed \o strLine \in Seq(Line)
                  /\ Len(printed \o strLine) = Len(printed) + 1
                BY <3>1, <4>4
            <4>2. Len(printed) \in Nat /\ Len(<<>>) = 0
                BY <3>1, LenProperties, EmptySeq
            <4>3. printed \o strLine # <<>>
                BY <4>1, <4>2
            <4> QED
                BY <2>7, <4>1, <4>3 DEF PrintLine
        <3>3. strLine' = <<>> /\ strLine' \in Seq(Line)
            BY <2>7, EmptySeq DEF PrintLine
        <3>t1. TypeOK'
            BY <2>7, <3>2, <3>3 DEF PrintLine, WriterFrame, WriterAt, fileVars, TypeOK
        <3>t2. NameKnown'
            BY <2>7, <3>2, <3>3 DEF PrintLine, WriterFrame, WriterAt, fileVars, NameKnown
        <3>t3. LineInHand'
            BY <2>7, <3>2, <3>3 DEF PrintLine, WriterFrame, WriterAt, fileVars, LineInHand
        <3> QED
            BY <3>t1, <3>t2, <3>t3 DEF Typed
    <2>8. CASE Write
        <3>1. printed \in Seq(Line) /\ printed # <<>>
            BY <2>8 DEF TypeOK, Write, LineInHand
        <3>2. Len(printed) \in 1..Len(printed)
            BY <3>1, EmptySeq
        <3>3. printed[Len(printed)] \in DiskLine
            BY <3>1, <3>2, ElementOfSeq DEF DiskLine
        <3>4. /\ m_hLogFile' \in FileName \cup {NoFile}
              /\ isOpen' \in BOOLEAN
              /\ files' \in [FileName -> Seq(Entry)]
            BY <2>8, <3>3, FilesTyped DEF Write
        <3>5. m_nCurrentWrittenSize' \in Nat /\ writer' \in WriterAt /\ crashed' \in BOOLEAN
            <4>1. m_nCurrentWrittenSize \in Nat /\ crashed \in BOOLEAN
                BY DEF TypeOK
            <4>0. Length[printed[Len(printed)]] \in Nat
                BY <3>3, LengthAssumption
            <4>2. \/ /\ m_nCurrentWrittenSize' = m_nCurrentWrittenSize
                                                     + Length[printed[Len(printed)]]
                     /\ writer' = "roll"
                     /\ crashed' = crashed
                  \/ /\ m_nCurrentWrittenSize' = m_nCurrentWrittenSize
                     /\ writer' = "failed"
                     /\ crashed' = crashed \/ crashed' = TRUE
                BY <2>8 DEF Write
            <4>3. m_nCurrentWrittenSize' \in Nat
                BY <4>0, <4>1, <4>2
            <4>4. writer' \in WriterAt
                BY <4>2 DEF WriterAt
            <4>5. crashed' \in BOOLEAN
                BY <4>1, <4>2
            <4> QED
                BY <4>3, <4>4, <4>5
        <3>6. WriterFrame /\ UNCHANGED <<m_listLinesToWrite, m_bRunning, strLine, printed>>
            BY <2>8 DEF Write
        <3>t1. TypeOK'
            BY <3>4, <3>5, <3>6 DEF WriterFrame, TypeOK
        <3>t2. NameKnown'
            BY <1>10, <2>8, <3>4 DEF Write, WriterFrame, WriterAt, NameKnown
        <3>t3. LineInHand'
            BY <1>10, <2>8, <3>4 DEF Write, WriterFrame, WriterAt, LineInHand
        <3> QED
            BY <3>t1, <3>t2, <3>t3 DEF Typed
    <2> QED
        BY <1>10, <2>1, <2>2, <2>3, <2>4, <2>5, <2>6, <2>7, <2>8 DEF WriterStep
<1>11. ASSUME ~crashed, Spurious
       PROVE  Typed'
    <2>t1. TypeOK'
        BY <1>11 DEF Spurious, WriterFrame, WriterAt, fileVars, TypeOK
    <2>t2. NameKnown'
        BY <1>11 DEF Spurious, WriterFrame, WriterAt, fileVars, NameKnown
    <2>t3. LineInHand'
        BY <1>11 DEF Spurious, WriterFrame, WriterAt, fileVars, LineInHand
    <2> QED
        BY <2>t1, <2>t2, <2>t3 DEF Typed
<1>12. ASSUME ~crashed, InitLog
       PROVE  Typed'
    <2>1. inits' \in 0..MaxInits /\ m_strFileName' \in {"", "default", "log"}
        <3>1. inits \in 0..MaxInits
            BY DEF TypeOK
        <3>2. inits < MaxInits /\ inits' = inits + 1
            BY <1>12 DEF InitLog
        <3>3. inits' \in 0..MaxInits
            BY <3>1, <3>2, LogBoundsAssumption
        <3>4. m_strFileName' \in {"", "default", "log"}
            BY <1>12 DEF InitLog
        <3> QED
            BY <3>3, <3>4
    <2>t1. TypeOK'
        BY <1>12, <2>1 DEF InitLog, Ended, WriterAt, fileVars, queueVars, TypeOK
    <2>t2. NameKnown'
        BY <1>12 DEF InitLog, Ended, WriterAt, fileVars, queueVars, NameKnown
    <2>t3. LineInHand'
        BY <1>12 DEF InitLog, Ended, WriterAt, fileVars, queueVars, LineInHand
    <2> QED
        BY <2>t1, <2>t2, <2>t3 DEF Typed
<1>13. ASSUME ~crashed, Uninit
       PROVE  Typed'
    <2>1. CASE UninitExit
        <3>1. Len(accepted) \in Nat
            BY LenProperties DEF TypeOK
        <3>t1. TypeOK'
            BY <2>1, <3>1 DEF UninitExit, UninitFrame, fileVars, queueVars, TypeOK
        <3>t2. NameKnown'
            BY <2>1, <3>1 DEF UninitExit, UninitFrame, fileVars, queueVars, NameKnown
        <3>t3. LineInHand'
            BY <2>1, <3>1 DEF UninitExit, UninitFrame, fileVars, queueVars, LineInHand
        <3> QED
            BY <3>t1, <3>t2, <3>t3 DEF Typed
    <2>2. CASE UninitNotify
        <3>t1. TypeOK'
            BY <2>2 DEF UninitNotify, NotifyOne, UninitFrame, WriterAt, fileVars, queueVars,
                   TypeOK
        <3>t2. NameKnown'
            BY <2>2 DEF UninitNotify, NotifyOne, UninitFrame, WriterAt, fileVars, queueVars,
                   NameKnown
        <3>t3. LineInHand'
            BY <2>2 DEF UninitNotify, NotifyOne, UninitFrame, WriterAt, fileVars, queueVars,
                   LineInHand
        <3> QED
            BY <3>t1, <3>t2, <3>t3 DEF Typed
    <2>3. CASE UninitJoin
        <3>t1. TypeOK'
            BY <2>3 DEF UninitJoin, UninitFrame, fileVars, queueVars, TypeOK
        <3>t2. NameKnown'
            BY <2>3 DEF UninitJoin, UninitFrame, fileVars, queueVars, NameKnown
        <3>t3. LineInHand'
            BY <2>3 DEF UninitJoin, UninitFrame, fileVars, queueVars, LineInHand
        <3> QED
            BY <3>t1, <3>t2, <3>t3 DEF Typed
    <2>4. CASE UninitClose
        <3>t1. TypeOK'
            BY <1>13, <2>4 DEF UninitClose, UninitFrame, queueVars, TypeOK
        <3>t2. NameKnown'
            BY <1>13, <2>4 DEF UninitClose, UninitFrame, queueVars, NameKnown
        <3>t3. LineInHand'
            BY <1>13, <2>4 DEF UninitClose, UninitFrame, queueVars, LineInHand
        <3> QED
            BY <3>t1, <3>t2, <3>t3 DEF Typed
    <2> QED
        BY <1>13, <2>1, <2>2, <2>3, <2>4 DEF Uninit
<1>14. ASSUME ~crashed, Tick
       PROVE  Typed'
    <2>2. now \in 1..MaxSeconds
        BY DEF TypeOK
    <2>1. now' \in 1..MaxSeconds
        BY <1>14, <2>2, LogBoundsAssumption DEF Tick
    <2>t1. TypeOK'
        BY <1>14, <2>1 DEF Tick, fileVars, threadVars, queueVars, TypeOK
    <2>t2. NameKnown'
        BY <1>14, LogBoundsAssumption DEF Tick, fileVars, threadVars, queueVars, NameKnown
    <2>t3. LineInHand'
        BY <1>14, LogBoundsAssumption DEF Tick, fileVars, threadVars, queueVars, LineInHand
    <2> QED
        BY <2>t1, <2>t2, <2>t3 DEF Typed
<1> QED
    BY <1>1, <1>2, <1>3, <1>4, <1>5, <1>6, <1>7, <1>8, <1>9, <1>10, <1>11, <1>12, <1>13, <1>14
    DEF Next, Fatal

\* The static initialisers have their types.
LEMMA TypedInit ==
    ASSUME Init
    PROVE  Typed
<1>1. TypeOK
    <2>1. <<>> \in Seq(Line) /\ <<>> \in Seq(Entry)
        BY EmptySeq
    <2>2. 1 \in 1..MaxSeconds /\ 0 \in 0..MaxInits /\ 2 \in 0..FATAL
        BY LogBoundsAssumption DEF FATAL
    <2> QED
        BY <2>1, <2>2 DEF Init, TypeOK, WriterAt, FatalAt
<1>2. NameKnown
    BY DEF Init, NameKnown
<1>3. LineInHand
    BY DEF Init, LineInHand
<1> QED
    BY <1>1, <1>2, <1>3 DEF Typed

\* TypeOK holds throughout: the fields of AsyncLog keep their types, and files
\* are created only under a name (createNewFile).
THEOREM LogTypeCorrect == Spec => []TypeOK
<1>1. Init => Typed
    BY TypedInit
<1>2. Typed /\ [Next]_vars => Typed'
    BY TypedStep
<1>3. Typed => TypeOK
    BY DEF Typed
<1> QED
    BY <1>1, <1>2, <1>3, PTL DEF Spec

(***************************************************************************)
(* Order.                                                                  *)
(***************************************************************************)

\* A line that is accepted goes behind those that wait.
LEMMA AcceptedBehind ==
    ASSUME NEW a \in Seq(Line), NEW q \in Seq(Line), NEW x \in Line
    PROVE  Append(a \o q, x) = a \o Append(q, x)
OBVIOUS

\* The first line in the list moves to the writer's hand.
LEMMA TakenFirst ==
    ASSUME NEW S, NEW p \in Seq(S), NEW q \in Seq(S), q # <<>>
    PROVE  (p \o <<>>) \o q = (p \o <<Head(q)>>) \o Tail(q)
<1>1. Head(q) \in S /\ Tail(q) \in Seq(S)
    BY HeadTailProperties
<1>2. <<Head(q)>> \in Seq(S)
    BY <1>1
<1>3. q = <<Head(q)>> \o Tail(q)
    <2>1. /\ Len(Tail(q)) = Len(q) - 1
          /\ \A i \in 1..Len(Tail(q)) : Tail(q)[i] = q[i + 1]
        BY HeadTailProperties
    <2>2. Len(q) \in Nat
        BY LenProperties
    <2>3. Len(<<Head(q)>>) = 1 /\ <<Head(q)>>[1] = q[1]
        OBVIOUS
    <2>4. /\ <<Head(q)>> \o Tail(q) \in Seq(S)
          /\ Len(<<Head(q)>> \o Tail(q)) = Len(<<Head(q)>>) + Len(Tail(q))
          /\ \A i \in 1..(Len(<<Head(q)>>) + Len(Tail(q))) :
                 (<<Head(q)>> \o Tail(q))[i] =
                     IF i <= Len(<<Head(q)>>) THEN <<Head(q)>>[i]
                                              ELSE Tail(q)[i - Len(<<Head(q)>>)]
        BY <1>1, <1>2, ConcatProperties
    <2> DEFINE r == <<Head(q)>> \o Tail(q)
    <2>5. Len(r) = Len(q)
        BY <2>1, <2>2, <2>3, <2>4
    <2>6. \A i \in 1..Len(q) : q[i] = r[i]
        BY <2>1, <2>2, <2>3, <2>4
    <2> QED
        BY <2>4, <2>5, <2>6, SeqEqual
<1>4. (p \o <<Head(q)>>) \o Tail(q) = p \o (<<Head(q)>> \o Tail(q))
    BY <1>1, <1>2, ConcatAssociative
<1>5. p \o <<>> = p
    BY ConcatEmptySeq
<1> QED
    BY <1>3, <1>4, <1>5

Order == Typed /\ LinesInOrder

\* Every step keeps the lines in order: it moves at most one boundary between
\* printed, in hand and waiting.
LEMMA OrderStep ==
    ASSUME Order, [Next]_vars
    PROVE  LinesInOrder'
<1>0. TypeOK /\ LineInHand
    BY DEF Order, Typed
<1>01. printed \in Seq(Line) /\ strLine \in Seq(Line) /\ m_listLinesToWrite \in Seq(Line)
    BY <1>0 DEF TypeOK
<1>02. accepted = (printed \o strLine) \o m_listLinesToWrite
    BY DEF Order, LinesInOrder
<1>1. CASE UNCHANGED <<accepted, printed, strLine, m_listLinesToWrite>>
    BY <1>02, <1>1 DEF LinesInOrder
<1>2. ASSUME NEW t \in Threads, Push(t), UNCHANGED <<strLine, printed>>
      PROVE  LinesInOrder'
    <2> DEFINE line == [from |-> t, no |-> LinesOf(t) + 1]
    <2>1. LinesOf(t) \in Nat
        BY <1>0, LinesOfType
    <2>2. LinesOf(t) + 1 \in 1..MaxLines
        BY <1>2, <2>1, LogBoundsAssumption DEF Push
    <2>3. line \in Line
        BY <2>2 DEF Line
    <2>4. /\ m_listLinesToWrite' = Append(m_listLinesToWrite, line)
          /\ accepted' = Append(accepted, line)
        BY <1>2 DEF Push
    <2> HIDE DEF line
    <2>5. printed \o strLine \in Seq(Line)
        BY <1>01, ConcatProperties
    <2>6. Append((printed \o strLine) \o m_listLinesToWrite, line)
            = (printed \o strLine) \o Append(m_listLinesToWrite, line)
        BY <1>01, <2>3, <2>5, AcceptedBehind, Zenon
    <2> QED
        BY <1>02, <1>2, <2>4, <2>6 DEF LinesInOrder
<1>3. CASE Test
    <2>1. CASE UNCHANGED <<m_listLinesToWrite, strLine>>
        BY <1>1, <1>3, <2>1 DEF Test, WriterFrame
    <2>2. CASE /\ m_listLinesToWrite # <<>>
               /\ strLine' = <<Head(m_listLinesToWrite)>>
               /\ m_listLinesToWrite' = Tail(m_listLinesToWrite)
        <3>1. strLine = <<>> /\ accepted' = accepted /\ printed' = printed
            BY <1>0, <1>3 DEF Test, WriterFrame, LineInHand
        <3> QED
            BY <1>01, <1>02, <2>2, <3>1, TakenFirst DEF LinesInOrder
    <2> QED
        BY <1>3, <2>1, <2>2 DEF Test
<1>4. CASE PrintLine
    <2>1. /\ printed' = printed \o strLine
          /\ strLine' = <<>>
          /\ m_listLinesToWrite' = m_listLinesToWrite
          /\ accepted' = accepted
        BY <1>4 DEF PrintLine, WriterFrame
    <2>2. printed \o strLine \in Seq(Line)
        BY <1>01, ConcatProperties
    <2>3. (printed \o strLine) \o <<>> = printed \o strLine
        BY <2>2, ConcatEmptySeq
    <2> QED
        BY <1>02, <2>1, <2>3 DEF LinesInOrder
<1>5. CASE UNCHANGED vars
    BY <1>1, <1>5 DEF vars
<1>6. ASSUME NEW t \in Threads, NEW level \in Levels, Output(t, level)
      PROVE  LinesInOrder'
    BY <1>2, <1>6 DEF Output
<1>7. ASSUME NEW t \in Threads, OutputBinary(t)
      PROVE  LinesInOrder'
    BY <1>2, <1>7 DEF OutputBinary
<1>8. ASSUME NEW t \in Threads, Fatal(t)
      PROVE  LinesInOrder'
    BY <1>1, <1>8 DEF Fatal, OutputFatal, FatalCheck, FatalCreate, FatalOpen, FatalWrite,
                      FatalFrame, queueVars
<1>9. ASSUME NEW level \in Levels, SetLevel(level)
      PROVE  LinesInOrder'
    BY <1>1, <1>9 DEF SetLevel, queueVars
<1>10. CASE Start \/ Roll \/ Create \/ Open \/ Wait \/ Write \/ Spurious
    BY <1>1, <1>10 DEF Start, Roll, Create, Open, Wait, Write, Spurious, WriterFrame
<1>11. CASE InitLog \/ Uninit \/ Tick
    BY <1>1, <1>11 DEF InitLog, Uninit, UninitExit, UninitNotify, UninitJoin, UninitClose,
                       UninitFrame, Tick, queueVars
<1> QED
    BY <1>3, <1>4, <1>5, <1>6, <1>7, <1>8, <1>9, <1>10, <1>11 DEF Next, WriterStep

(***************************************************************************)
(* Exit.                                                                   *)
(***************************************************************************)

\* What uninit asked for is part of what was accepted; the writer returns only
\* when asked to, so a later uninit does not ask for more.
ExitAsked ==
    /\ asked <= Len(accepted)
    /\ writer = "returned" => m_bExit = TRUE /\ asked <= Len(printed)

LogInv == Typed /\ LinesInOrder /\ ExitAsked

\* Every step preserves that a writer told to stop leaves nothing of before.
LEMMA ExitStep ==
    ASSUME LogInv, [Next]_vars
    PROVE  ExitAsked'
<1>0. /\ TypeOK /\ LineInHand /\ LinesInOrder
      /\ accepted \in Seq(Line) /\ Len(accepted) \in Nat
      /\ printed \in Seq(Line) /\ Len(printed) \in Nat
      /\ asked \in Nat
    BY LenProperties DEF LogInv, Typed, TypeOK
<1>01. ExitAsked
    BY DEF LogInv
<1>02. m_bExit => m_bExit = TRUE
    BY <1>0 DEF TypeOK
\* Steps that ask for nothing, move no line and do not make the writer return.
<1>1. CASE /\ UNCHANGED <<accepted, printed, asked, m_bExit>>
           /\ writer' = writer \/ writer' # "returned"
    BY <1>01, <1>1 DEF ExitAsked
<1>2. ASSUME NEW t \in Threads, Push(t), UNCHANGED <<printed, asked, m_bExit>>
      PROVE  ExitAsked'
    <2>1. Len(accepted') = Len(accepted) + 1
        <3> DEFINE line == [from |-> t, no |-> LinesOf(t) + 1]
        <3>1. accepted' = Append(accepted, line)
            BY <1>2 DEF Push
        <3> HIDE DEF line
        <3> QED
            BY <1>0, <3>1
    <2>2. writer' = "returned" => writer = "returned"
        BY <1>2 DEF Push, NotifyOne
    <2> QED
        BY <1>0, <1>01, <1>2, <2>1, <2>2 DEF ExitAsked
<1>3. CASE Test
    <2>1. /\ accepted' = accepted /\ printed' = printed /\ asked' = asked /\ m_bExit' = m_bExit
          /\ writer = "test"
        BY <1>3 DEF Test, WriterFrame
    <2>2. CASE writer' # "returned"
        BY <1>1, <2>1, <2>2
    <2>3. CASE writer' = "returned"
        <3>1. m_listLinesToWrite = <<>> /\ m_bExit
            BY <1>3, <2>3 DEF Test
        <3>2. strLine = <<>>
            BY <1>0, <2>1 DEF LineInHand
        <3>3. accepted = printed
            BY <1>0, <3>1, <3>2, ConcatEmptySeq DEF LinesInOrder
        <3> QED
            BY <1>01, <1>02, <2>1, <3>1, <3>3 DEF ExitAsked
    <2> QED
        BY <2>2, <2>3
<1>4. CASE PrintLine
    <2>1. /\ accepted' = accepted /\ asked' = asked
          /\ writer' = "roll" \/ writer' = "write"
        BY <1>4 DEF PrintLine, WriterFrame
    <2> QED
        BY <1>01, <2>1 DEF ExitAsked
<1>5. CASE UninitExit
    <2>1. /\ accepted' = accepted /\ printed' = printed /\ writer' = writer /\ m_bExit' = TRUE
          /\ asked' = IF m_bExit THEN asked ELSE Len(accepted)
        BY <1>5 DEF UninitExit, UninitFrame, queueVars
    <2>2. CASE m_bExit
        BY <1>01, <2>1, <2>2 DEF ExitAsked
    <2>3. CASE ~m_bExit
        <3>1. writer # "returned"
            BY <1>01, <2>3 DEF ExitAsked
        <3>2. asked' = Len(accepted)
            BY <2>1, <2>3
        <3> QED
            BY <1>0, <2>1, <3>1, <3>2 DEF ExitAsked
    <2> QED
        BY <2>2, <2>3
<1>6. CASE UNCHANGED vars
    BY <1>1, <1>6 DEF vars
<1>7. ASSUME NEW t \in Threads, NEW level \in Levels, Output(t, level)
      PROVE  ExitAsked'
    BY <1>2, <1>7 DEF Output
<1>8. ASSUME NEW t \in Threads, OutputBinary(t)
      PROVE  ExitAsked'
    BY <1>2, <1>8 DEF OutputBinary
<1>9. ASSUME NEW t \in Threads, Fatal(t)
      PROVE  ExitAsked'
    BY <1>1, <1>9 DEF Fatal, OutputFatal, FatalCheck, FatalCreate, FatalOpen, FatalWrite,
                      FatalFrame, queueVars
<1>10. ASSUME NEW level \in Levels, SetLevel(level)
       PROVE  ExitAsked'
    BY <1>1, <1>10 DEF SetLevel, queueVars
<1>11. CASE Start \/ Create \/ Open \/ Wait \/ Write \/ Spurious
    BY <1>1, <1>11 DEF Start, Create, Open, Wait, Write, Spurious, WriterFrame
<1>12. CASE Roll
    BY <1>1, <1>12 DEF Roll, WriterFrame
<1>13. CASE InitLog \/ UninitNotify \/ UninitJoin \/ UninitClose \/ Tick
    BY <1>1, <1>13 DEF InitLog, UninitNotify, NotifyOne, UninitJoin, UninitClose,
                       UninitFrame, Tick, queueVars
<1> QED
    BY <1>3, <1>4, <1>5, <1>6, <1>7, <1>8, <1>9, <1>10, <1>11, <1>12, <1>13
    DEF Next, WriterStep, Uninit

\* The three together hold always.
LEMMA LogInvHolds == Spec => []LogInv
<1>1. Init => LogInv
    <2> SUFFICES ASSUME Init PROVE LogInv
        OBVIOUS
    <2>1. Typed
        BY TypedInit
    <2>2. LinesInOrder
        <3>1. <<>> \o <<>> = <<>>
            BY EmptySeq, ConcatEmptySeq
        <3> QED
            BY <3>1 DEF Init, LinesInOrder
    <2>3. ExitAsked
        BY EmptySeq DEF Init, ExitAsked
    <2> QED
        BY <2>1, <2>2, <2>3 DEF LogInv
<1>2. LogInv /\ [Next]_vars => LogInv'
    BY TypedStep, OrderStep, ExitStep DEF LogInv, Order
<1> QED
    BY <1>1, <1>2, PTL DEF Spec

\* LinesInOrder for any number of threads and lines: the writer prints what
\* output accepted, each line once, in order.
THEOREM LogKeepsOrder == Spec => []LinesInOrder
<1>1. LogInv => LinesInOrder
    BY DEF LogInv
<1> QED
    BY <1>1, LogInvHolds, PTL

\* ExitDrains: uninit loses no line accepted before it, unless a file error or
\* a crash ended the thread.
THEOREM LogExitDrains == Spec => []ExitDrains
<1>1. LogInv => ExitDrains
    <2> SUFFICES ASSUME LogInv, writer = "returned" PROVE Len(printed) >= asked
        BY DEF ExitDrains
    <2>1. printed \in Seq(Line) /\ asked \in Nat /\ asked <= Len(printed)
        BY DEF LogInv, Typed, TypeOK, ExitAsked
    <2>2. Len(printed) \in Nat
        BY <2>1, LenProperties
    <2> QED
        BY <2>1, <2>2
<1> QED
    BY <1>1, LogInvHolds, PTL

(***************************************************************************)
(* RollBound.  Until the process ends, no line begins at the roll size or  *)
(* beyond, and m_nCurrentWrittenSize is at least the size of the present   *)
(* file, except between the reset of the count and the new file, when the  *)
(* writer does not write.  A FATAL line is not counted, but the process    *)
(* ends with it.                                                           *)
(***************************************************************************)
Below(f) == \A i \in DOMAIN files[f] : files[f][i].at < RollSize

AllBelow == ~crashed => \A f \in FileName : Below(f)

Counted ==
    ~crashed /\ writer \notin {"create", "open"} /\ m_hLogFile # NoFile =>
        EndOf(files[m_hLogFile]) <= m_nCurrentWrittenSize

\* Between the head of the loop and the next, there is room for a line.
RoomLeft ==
    /\ writer \in {"create", "open"} => m_nCurrentWrittenSize = 0
    /\ writer \in {"test", "tested", "waiting", "print", "write"} /\ m_strFileName # "" =>
           m_nCurrentWrittenSize < RollSize

RollInv == RollBound /\ AllBelow /\ Counted /\ RoomLeft

\* A file all of whose lines begin below the roll size is within the bound.
LEMMA BelowBound ==
    ASSUME NEW s \in Seq(Entry), NEW i \in DOMAIN s, s[i].at < RollSize
    PROVE  ~(s[i].at >= RollSize)
<1>1. s[i] \in Entry
    OBVIOUS
<1>2. s[i].at \in Nat
    BY <1>1 DEF Entry
<1> QED
    BY <1>2, RollSizeAssumption

\* Nothing begins in an empty file.
LEMMA EmptyBelow ==
    ASSUME NEW s, s = <<>>
    PROVE  \A i \in DOMAIN s : s[i].at < RollSize
OBVIOUS

\* How fopen changes the files: the new one is empty, the others as before.
LEMMA OpenSizes ==
    ASSUME TypeOK, m_strFileName # "", OpenNew
    PROVE  /\ m_hLogFile' \in FileName /\ EndOf(files'[m_hLogFile']) = 0
           /\ \A f \in FileName : Below(f) => Below(f)'
<1>1. PICK name : name = <<m_strFileName, now>>
    OBVIOUS
<1>2. name \in FileName
    BY <1>1 DEF TypeOK, FileName
<1>3. m_hLogFile' = name /\ files' = [files EXCEPT ![name] = <<>>]
    BY <1>1 DEF OpenNew
<1>4. files'[name] = <<>> /\ \A f \in FileName : f # name => files'[f] = files[f]
    BY <1>2, <1>3 DEF TypeOK
<1>5. EndOf(<<>>) = 0
    BY DEF EndOf
<1>6. Below(name)'
    BY <1>4, EmptyBelow DEF Below
<1>7. \A f \in FileName : f # name /\ Below(f) => Below(f)'
    BY <1>4 DEF Below
<1> QED
    BY <1>2, <1>3, <1>4, <1>5, <1>6, <1>7

\* How a line written changes them.
LEMMA WriteSizes ==
    ASSUME TypeOK, NEW line \in DiskLine, WriteToFile(line)
    PROVE  /\ m_hLogFile \in FileName /\ m_hLogFile' = m_hLogFile
           /\ \A f \in FileName : f # m_hLogFile => files'[f] = files[f]
           /\ EndOf(files[m_hLogFile]) \in Nat
           /\ EndOf(files'[m_hLogFile]) = EndOf(files[m_hLogFile]) + Length[line]
           /\ DOMAIN files'[m_hLogFile] = 1..Len(files'[m_hLogFile])
           /\ Len(files'[m_hLogFile]) = Len(files[m_hLogFile]) + 1
           /\ \A i \in DOMAIN files'[m_hLogFile] :
                  \/ i \in DOMAIN files[m_hLogFile] /\ files'[m_hLogFile][i] = files[m_hLogFile][i]
                  \/ /\ i = Len(files'[m_hLogFile])
                     /\ files'[m_hLogFile][i].line = line
                     /\ files'[m_hLogFile][i].at = EndOf(files[m_hLogFile])
<1>1. PICK h, e : h = m_hLogFile /\ e = [line |-> line, at |-> EndOf(files[h])]
    OBVIOUS
<1>2. /\ h \in FileName /\ m_hLogFile' = h
      /\ files \in [FileName -> Seq(Entry)]
      /\ files' = [files EXCEPT ![h] = Append(files[h], e)]
    BY <1>1 DEF TypeOK, WriteToFile
<1>3. PICK s \in Seq(Entry) : s = files[h]
    BY <1>2
<1>4. files'[h] = Append(s, e) /\ \A f \in FileName : f # h => files'[f] = files[f]
    BY <1>2, <1>3
<1>5. EndOf(s) \in Nat
    BY EndType
<1>6. e \in Entry /\ e.line = line /\ e.at = EndOf(s)
    BY <1>1, <1>3, <1>5 DEF Entry
<1>7. EndOf(Append(s, e)) = EndOf(s) + Length[line]
    BY <1>6, EndType
<1>8. PICK p : p = Append(s, e)
    OBVIOUS
<1>9. /\ Len(s) \in Nat /\ DOMAIN p = 1..Len(p) /\ Len(p) = Len(s) + 1
      /\ \A i \in DOMAIN p : (i \in DOMAIN s /\ p[i] = s[i]) \/ (i = Len(p) /\ p[i] = e)
    BY <1>6, <1>8
<1> QED
    BY <1>1, <1>2, <1>3, <1>4, <1>5, <1>6, <1>7, <1>8, <1>9

\* Every step keeps the count and the room.
LEMMA RollStep ==
    ASSUME Typed, RollInv, [Next]_vars
    PROVE  RollInv'
<1>a. TypeOK /\ NameKnown /\ LineInHand /\ RollBound /\ AllBelow /\ Counted /\ RoomLeft
    BY DEF Typed, RollInv
<1>b. m_nCurrentWrittenSize \in Nat /\ RollSize \in Nat /\ RollSize > 0
    <2>1. m_nCurrentWrittenSize \in Nat
        BY <1>a DEF TypeOK
    <2> QED
        BY <2>1, RollSizeAssumption
<1>d. files \in [FileName -> Seq(Entry)]
    BY <1>a DEF TypeOK
<1>c. files' \in [FileName -> Seq(Entry)]
    BY TypedStep DEF Typed, TypeOK
<1>1. CASE UNCHANGED vars
    BY <1>a, <1>1 DEF vars, RollInv, RollBound, AllBelow, Below, Counted, RoomLeft
<1> SUFFICES ASSUME ~crashed, Next PROVE RollInv'
    BY <1>1 DEF Next
<1>2. \A f \in FileName : Below(f)
    BY <1>a DEF AllBelow
<1>3. ASSUME \A f \in FileName : Below(f)'
      PROVE  RollBound' /\ AllBelow'
    BY <1>c, <1>3, BelowBound DEF RollBound, AllBelow, Below
\* Steps that leave the files alone.
<1>4. CASE /\ files' = files /\ m_nCurrentWrittenSize' = m_nCurrentWrittenSize
           /\ m_hLogFile' = m_hLogFile \/ m_hLogFile' = NoFile
           /\ \/ writer' = writer /\ m_strFileName' = m_strFileName
              \/ /\ writer \in {"test", "tested", "waiting", "print"}
                 /\ writer' \in {"test", "tested", "waiting", "print", "write", "returned"}
                 /\ m_strFileName' = m_strFileName
              \/ writer \notin {"create", "open"} /\ writer' \in {"start", "roll", "failed"}
              \/ /\ writer = "create" /\ writer' = "open"
                 /\ m_strFileName' = m_strFileName
              \/ m_hLogFile' = NoFile /\ writer' = "failed"
    <2>1. RollBound' /\ AllBelow'
        BY <1>2, <1>3, <1>4 DEF Below
    <2>2. Counted'
        BY <1>a, <1>4 DEF Counted
    <2>3. RoomLeft'
        BY <1>a, <1>4 DEF RoomLeft
    <2> QED
        BY <2>1, <2>2, <2>3 DEF RollInv
<1>5. ASSUME NEW t \in Threads, Push(t), UNCHANGED <<m_nCurrentWrittenSize, fileVars, threadVars>>
      PROVE  RollInv'
    <2>1. writer' = writer \/ (writer = "waiting" /\ writer' = "test")
        BY <1>5 DEF Push, NotifyOne
    <2> QED
        BY <1>4, <1>5, <2>1 DEF fileVars, threadVars
<1>6. ASSUME NEW t \in Threads, (\E level \in Levels : Output(t, level)) \/ OutputBinary(t)
      PROVE  RollInv'
    BY <1>5, <1>6 DEF Output, OutputBinary
<1>7. ASSUME NEW t \in Threads, OutputFatal(t) \/ FatalCheck(t) \/ FatalCreate(t)
      PROVE  RollInv'
    BY <1>4, <1>7 DEF OutputFatal, FatalCheck, FatalCreate, CloseOld, FatalFrame, fileVars,
                      threadVars
<1>8. ASSUME NEW t \in Threads, FatalOpen(t)
      PROVE  RollInv'
    <2>1. /\ writer' = writer /\ m_strFileName' = m_strFileName
          /\ m_nCurrentWrittenSize' = m_nCurrentWrittenSize
        BY <1>8 DEF FatalOpen, FatalFrame, threadVars
    <2>2. CASE OpenFails
        BY <1>4, <2>1, <2>2 DEF OpenFails
    <2>3. CASE OpenNew
        <3>1. m_strFileName # ""
            BY <1>a, <1>8 DEF FatalOpen, NameKnown, TypeOK
        <3>2. /\ EndOf(files'[m_hLogFile']) = 0
              /\ \A f \in FileName : Below(f) => Below(f)'
            BY <1>a, <2>3, <3>1, OpenSizes
        <3>3. RollBound' /\ AllBelow'
            BY <1>2, <1>3, <3>2
        <3>4. Counted'
            BY <1>b, <2>1, <3>2 DEF Counted
        <3>5. RoomLeft'
            BY <1>a, <2>1 DEF RoomLeft
        <3> QED
            BY <3>3, <3>4, <3>5 DEF RollInv
    <2> QED
        BY <1>8, <2>2, <2>3 DEF FatalOpen
<1>9. ASSUME NEW t \in Threads, FatalWrite(t)
      PROVE  RollInv'
    <2>1. /\ writer' = writer /\ m_strFileName' = m_strFileName /\ crashed' = TRUE
          /\ m_nCurrentWrittenSize' = m_nCurrentWrittenSize
        BY <1>9 DEF FatalWrite, FatalFrame, threadVars
    <2>2. CASE UNCHANGED fileVars
        BY <1>4, <2>1, <2>2 DEF fileVars
    <2>3. CASE WriteToFile(FatalLine(t))
        <3>1. FatalLine(t) \in DiskLine /\ FatalLine(t).no = 0
            BY DEF DiskLine, FatalLine
        <3>2. PICK h \in FileName :
                 /\ \A f \in FileName : f # h => files'[f] = files[f]
                 /\ \A i \in DOMAIN files'[h] :
                        \/ i \in DOMAIN files[h] /\ files'[h][i] = files[h][i]
                        \/ i = Len(files'[h]) /\ files'[h][i].line = FatalLine(t)
            BY <1>a, <2>3, <3>1, WriteSizes
        <3>3. RollBound'
            <4> SUFFICES ASSUME NEW f \in FileName, NEW i \in DOMAIN files'[f],
                                files'[f][i].at >= RollSize
                         PROVE  i = Len(files'[f]) /\ files'[f][i].line.no = 0
                BY DEF RollBound
            <4>1. CASE i \in DOMAIN files[f] /\ files'[f][i] = files[f][i]
                BY <1>d, <1>2, <4>1, BelowBound DEF Below
            <4>2. CASE f = h /\ i = Len(files'[h]) /\ files'[h][i].line = FatalLine(t)
                BY <3>1, <4>2
            <4> QED
                BY <3>2, <4>1, <4>2
        <3>4. AllBelow' /\ Counted'
            BY <2>1 DEF AllBelow, Counted
        <3>5. RoomLeft'
            BY <1>a, <2>1 DEF RoomLeft
        <3> QED
            BY <3>3, <3>4, <3>5 DEF RollInv
    <2> QED
        BY <1>9, <2>2, <2>3 DEF FatalWrite
<1>10. ASSUME NEW level \in Levels, SetLevel(level)
       PROVE  RollInv'
    BY <1>4, <1>10 DEF SetLevel, fileVars, threadVars
<1>11. CASE Start \/ Create \/ Test \/ Wait \/ PrintLine \/ Spurious
    BY <1>4, <1>11 DEF Start, Create, CloseOld, Test, Wait, PrintLine, Spurious, WriterFrame,
                       fileVars
<1>12. CASE Roll
    <2>1. /\ writer = "roll" /\ files' = files /\ m_hLogFile' = m_hLogFile
          /\ m_strFileName' = m_strFileName
        BY <1>12 DEF Roll, fileVars, WriterFrame
    <2>2. RollBound' /\ AllBelow'
        BY <1>2, <1>3, <2>1 DEF Below
    <2>3. CASE writer' = "create" /\ m_nCurrentWrittenSize' = 0
        BY <2>2, <2>3 DEF RollInv, Counted, RoomLeft
    <2>4. CASE /\ writer' = "test" /\ m_nCurrentWrittenSize' = m_nCurrentWrittenSize
               /\ ~(m_strFileName # "" /\ MustRoll)
        <3>1. m_strFileName # "" => m_nCurrentWrittenSize < RollSize
            <4>1. m_strFileName # "" => ~(m_nCurrentWrittenSize >= RollSize)
                BY <2>4 DEF MustRoll
            <4>2. ~(m_nCurrentWrittenSize >= RollSize) => m_nCurrentWrittenSize < RollSize
                BY <1>b
            <4> QED
                BY <4>1, <4>2
        <3>2. Counted'
            BY <1>a, <2>1, <2>4 DEF Counted
        <3>3. RoomLeft'
            BY <2>1, <2>4, <3>1 DEF RoomLeft
        <3> QED
            BY <2>2, <3>2, <3>3 DEF RollInv
    <2> QED
        BY <1>12, <2>3, <2>4 DEF Roll
<1>13. CASE Open
    <2>1. /\ writer = "open" /\ m_nCurrentWrittenSize' = m_nCurrentWrittenSize
          /\ m_nCurrentWrittenSize = 0 /\ m_strFileName # ""
        BY <1>a, <1>13 DEF Open, RoomLeft, NameKnown
    <2>2. CASE OpenFails /\ writer' = "failed"
        BY <1>4, <2>1, <2>2 DEF OpenFails
    <2>3. CASE OpenNew /\ writer' = "test"
        <3>1. /\ EndOf(files'[m_hLogFile']) = 0
              /\ \A f \in FileName : Below(f) => Below(f)'
            BY <1>a, <2>1, <2>3, OpenSizes
        <3>2. RollBound' /\ AllBelow'
            BY <1>2, <1>3, <3>1
        <3>3. m_nCurrentWrittenSize' = 0 /\ m_nCurrentWrittenSize' < RollSize
            BY <1>b, <2>1
        <3>4. Counted'
            <4>1. PICK e : e = EndOf(files'[m_hLogFile']) /\ e = 0
                BY <3>1
            <4>2. e <= m_nCurrentWrittenSize'
                BY <3>3, <4>1
            <4> QED
                BY <4>1, <4>2 DEF Counted
        <3>5. RoomLeft'
            BY <2>3, <3>3 DEF RoomLeft
        <3> QED
            BY <3>2, <3>4, <3>5 DEF RollInv
    <2> QED
        BY <1>13, <2>2, <2>3 DEF Open
<1>14. CASE Write
    <2>1. /\ writer = "write" /\ m_strFileName # "" /\ m_strFileName' = m_strFileName
          /\ m_nCurrentWrittenSize < RollSize
        BY <1>a, <1>14 DEF Write, NameKnown, RoomLeft, WriterFrame
    <2>2. CASE /\ writer' = "failed"
               /\ UNCHANGED <<m_nCurrentWrittenSize, fileVars>>
        BY <1>4, <2>1, <2>2 DEF fileVars
    <2>3. CASE /\ WriteToFile(printed[Len(printed)]) /\ writer' = "roll"
               /\ m_nCurrentWrittenSize' = m_nCurrentWrittenSize + Length[printed[Len(printed)]]
        <3>1. PICK line \in DiskLine : line = printed[Len(printed)]
            <4>1. printed \in Seq(Line) /\ printed # <<>>
                BY <1>a, <2>1 DEF TypeOK, LineInHand
            <4>2. printed[Len(printed)] \in Line
                BY <4>1
            <4> QED
                BY <4>2 DEF DiskLine
        <3>2. m_hLogFile # NoFile
            BY <2>3 DEF WriteToFile
        <3>3. PICK h, s, e, n :
                 /\ h \in FileName /\ h = m_hLogFile /\ m_hLogFile' = h /\ s = files'[h] /\ n = Length[line]
                 /\ e = EndOf(files[h]) /\ e \in Nat /\ EndOf(s) = e + n
                 /\ \A f \in FileName : f # h => files'[f] = files[f]
                 /\ \A i \in DOMAIN s : \/ i \in DOMAIN files[h] /\ s[i] = files[h][i]
                                        \/ s[i].at = e
            BY <1>a, <2>3, <3>1, WriteSizes
        <3>4. n \in Nat
            BY <3>1, <3>3, LengthAssumption
        <3>5. e <= m_nCurrentWrittenSize /\ e < RollSize
            <4>1. e <= m_nCurrentWrittenSize
                BY <1>a, <2>1, <3>2, <3>3 DEF Counted
            <4>2. e < RollSize
                <5>1. e \in Nat /\ m_nCurrentWrittenSize < RollSize
                    BY <2>1, <3>3
                <5> QED
                    BY <1>b, <4>1, <5>1
            <4> QED
                BY <4>1, <4>2
        <3>6. \A f \in FileName : Below(f)'
            BY <1>2, <3>3, <3>5 DEF Below
        <3>7. EndOf(files'[m_hLogFile']) <= m_nCurrentWrittenSize'
            <4>1. EndOf(files'[m_hLogFile']) = e + n /\ m_nCurrentWrittenSize' = m_nCurrentWrittenSize + n
                BY <2>3, <3>1, <3>3
            <4> QED
                BY <1>b, <3>3, <3>4, <3>5, <4>1
        <3>8. Counted' /\ RoomLeft'
            BY <2>3, <3>7 DEF Counted, RoomLeft
        <3> QED
            BY <1>3, <3>6, <3>8 DEF RollInv
    <2> QED
        BY <1>14, <2>2, <2>3 DEF Write
<1>15. CASE InitLog
    BY <1>4, <1>15 DEF InitLog, Ended, fileVars
<1>16. CASE UninitExit \/ UninitNotify \/ UninitJoin \/ UninitClose
    BY <1>4, <1>16 DEF UninitExit, UninitNotify, NotifyOne, UninitJoin, UninitClose,
                       UninitFrame, fileVars
<1>17. CASE Tick
    BY <1>4, <1>17 DEF Tick, fileVars, threadVars
<1> QED
    BY <1>6, <1>7, <1>8, <1>9, <1>10, <1>11, <1>12, <1>13, <1>14, <1>15, <1>16, <1>17
    DEF Next, WriterStep, Uninit, Fatal

\* RollBound for any roll size, any lengths of the lines, any number of threads,
\* restarts and FATAL lines: a file outgrows the roll size by its last line of
\* the list and, when the process ends with one, by a FATAL line.
THEOREM LogFilesBounded == Spec => []RollBound
<1>1. Init => RollInv
    <2> SUFFICES ASSUME Init PROVE RollInv
        OBVIOUS
    <2>1. Counted /\ RoomLeft
        BY DEF Init, Counted, RoomLeft
    <2>2. \A f \in FileName : files[f] = <<>>
        BY DEF Init
    <2>3. RollBound /\ AllBelow
        BY <2>2 DEF RollBound, AllBelow, Below
    <2> QED
        BY <2>1, <2>3 DEF RollInv
<1>2. Typed /\ RollInv /\ [Next]_vars => RollInv'
    BY RollStep
<1>3. LogInv => Typed
    BY DEF LogInv
<1>4. RollInv => RollBound
    BY DEF RollInv
<1> QED
    BY <1>1, <1>2, <1>3, <1>4, LogInvHolds, PTL DEF Spec
=============================================================================
