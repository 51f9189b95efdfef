----------------------------- MODULE SessionStream -----------------------------
(***************************************************************************)
(* The bytes of one connection: TcpConnection reads them into its input    *)
(* buffer, ChatSession::onRead cuts them into packages and answers each,   *)
(* and the answers leave through the output buffer, together with what     *)
(* other threads send.  The session is not logged in, so every command     *)
(* gets the same answer (ChatServer models what the commands do), and the  *)
(* connection object outlives its callbacks (TcpServer models when it does *)
(* not).                                                                   *)
(***************************************************************************)
EXTENDS ByteBuffer, ProtocolStream

CONSTANTS Scripts,        \* what a client may send: sequences of packages
          OtherMessages,  \* what other threads send to this session
          MaxOthers,      \* bound: number of such sends
          Pieces,         \* bound: how many bytes the kernel moves at once, or all
          NotLogin,       \* the text of the answer
          MAX_PACKAGE_SIZE

ASSUME StreamAssumption == /\ MaxOthers \in Nat
                           /\ Pieces \subseteq Nat \ {0}
                           /\ MAX_PACKAGE_SIZE \in Nat

Int32 == {i \in Int : -2147483647 - 1 <= i /\ i <= 2147483647}

\* What TcpSession::send takes: the length of the package, at most 19 bytes more
\* than that of the string, has to be an int32_t.
MaxString == 2147483628

Message == [cmd : Int32, seq : Int32, data : {d \in Seq(Byte) : Len(d) <= MaxString}]

ASSUME MessagesAssumption == /\ OtherMessages \subseteq Message
                             /\ NotLogin \in Seq(Byte) /\ Len(NotLogin) <= MaxString

VARIABLES script,     \* the client's packages: [bytes, legal, msg]
          toSend,     \* bytes of the script the server has not read
          peer,       \* "open", "closed" (its end of the stream) or "reset"
          inBuf, outBuf, m_state,
          writing,    \* m_channel->isWriting()
          reading,    \* m_channel->isReading(): false once handleClose has run
          pc,         \* of the loop thread: "tasks", "events" or "parse"
          events,     \* of the last poll, still to be handled
          functors,   \* m_pendingFunctors
          batch,      \* the functors doOtherTasks has taken
          socket,     \* bytes the kernel took from the server
          fin,        \* shutdownWrite was called
          processed,  \* requests that reached process() whole
          others,     \* sends of other threads
          sender,     \* what another thread's send has tested m_state for, or Nobody
          stopper,    \* where another thread's shutdown is
          aborted     \* an exception nobody catches

buffers == <<inBuf, outBuf>>
loopVars == <<pc, events, batch>>
otherVars == <<others, sender, stopper>>
vars == <<script, toSend, peer, inBuf, outBuf, m_state, writing, reading, pc, events,
          functors, batch, socket, fin, processed, others, sender, stopper, aborted>>

Nobody == <<>>

HeaderSize == 4

Answer(m) == [cmd |-> m.cmd, seq |-> m.seq, data |-> NotLogin]

Concat(ps) ==
  LET c[i \in 0..Len(ps)] == IF i = 0 THEN <<>> ELSE c[i - 1] \o ps[i].bytes IN c[Len(ps)]

\* The stream t starts with a package that has a right header and is all there.
StartsWhole(t) ==
  /\ Len(t) >= HeaderSize
  /\ LET size == FromHostOrder(t) IN
     0 <= size /\ size <= MAX_PACKAGE_SIZE /\ HeaderSize + size <= Len(t)

FirstBody(t) == SubSeq(t, HeaderSize + 1, HeaderSize + FromHostOrder(t))

\* It starts with a package process() reads.
StartsLegal(t) == StartsWhole(t) /\ ReadPackage(FirstBody(t)).ok

\* It starts with one on which read7BitEncoded overruns its buffer.
StartsOverrun(t) == StartsWhole(t) /\ PackageOverruns(FirstBody(t))

\* p is one such package and nothing else.
IsRequest(p) ==
  /\ StartsLegal(p.bytes) /\ Len(p.bytes) = HeaderSize + FromHostOrder(p.bytes)
  /\ ReadPackage(SubSeq(p.bytes, HeaderSize + 1, Len(p.bytes))).msg = p.msg

\* A script is a stream of bytes, any stream, cut where its legal packages end;
\* where one is illegal no legal one starts, whatever follows.
ASSUME ScriptsAssumption ==
  \A s \in Scripts :
    /\ s \in Seq({s[i] : i \in DOMAIN s})
    /\ \A i \in 1..Len(s) :
         /\ s[i].bytes \in Seq(Byte) /\ s[i].legal \in BOOLEAN
         /\ s[i].legal => IsRequest(s[i])
         /\ ~s[i].legal => ~StartsLegal(Concat(SubSeq(s, i, Len(s))))

Functor(name, data) == [name |-> name, data |-> data]

TypeOK ==
  /\ script \in Scripts
  /\ peer \in {"open", "closed", "reset"}
  /\ IsBuffer(inBuf) /\ IsBuffer(outBuf)
  /\ m_state \in {"kConnected", "kDisconnecting", "kDisconnected"}
  /\ pc \in {"tasks", "events", "parse"}
  /\ events \subseteq {"in", "out", "hup"}
  /\ others \in 0..MaxOthers
  /\ sender \in OtherMessages \cup {Nobody}
  /\ stopper \in {"idle", "tested", "set"}
  /\ writing \in BOOLEAN /\ reading \in BOOLEAN /\ fin \in BOOLEAN /\ aborted \in BOOLEAN

Init ==
  /\ script \in Scripts
  /\ toSend = Concat(script)
  /\ peer = "open"
  /\ inBuf = NewBuffer /\ outBuf = NewBuffer
  /\ m_state = "kConnected"
  /\ writing = FALSE /\ reading = TRUE
  /\ pc = "tasks" /\ events = {}
  /\ functors = <<>> /\ batch = <<>>
  /\ socket = <<>> /\ fin = FALSE
  /\ processed = <<>>
  /\ others = 0 /\ sender = Nobody /\ stopper = "idle"
  /\ aborted = FALSE

\* how many of n bytes a read or a write moves
Moved(n) == {k \in Pieces : k < n} \cup {n}

(***************************************************************************)
(* TcpConnection                                                           *)
(***************************************************************************)
\* write() fails: the peer is gone, or this end was shut down
Unwritable == fin \/ peer = "reset"

\* Fault: writes at once although bytes are waiting.
sendInLoopAtOnce(data) ==
  IF m_state = "kDisconnected" \/ Unwritable THEN UNCHANGED <<socket, outBuf, writing>>
  ELSE \E k \in {0} \cup Moved(Len(data)) :
         LET rest == SubSeq(data, k + 1, Len(data)) IN
         /\ socket' = socket \o SubSeq(data, 1, k)
         /\ outBuf' = IF rest = <<>> THEN outBuf ELSE append(outBuf, rest)
         /\ writing' = (writing \/ rest # <<>>)

sendInLoop(data) ==
  IF m_state = "kDisconnected" THEN UNCHANGED <<socket, outBuf, writing>>
  ELSE IF writing \/ readableBytes(outBuf) # 0
  THEN outBuf' = append(outBuf, data) /\ writing' = TRUE /\ UNCHANGED socket
  ELSE IF Unwritable THEN UNCHANGED <<socket, outBuf, writing>>
  ELSE \E k \in {0} \cup Moved(Len(data)) :   \* 0: EWOULDBLOCK
         LET rest == SubSeq(data, k + 1, Len(data)) IN
         /\ socket' = socket \o SubSeq(data, 1, k)
         /\ outBuf' = IF rest = <<>> THEN outBuf ELSE append(outBuf, rest)
         /\ writing' = (rest # <<>>)

\* TcpSession::send in the thread of the loop
send(m) ==
  IF m_state = "kConnected" THEN sendInLoop(Frame(m))
  ELSE UNCHANGED <<socket, outBuf, writing>>

\* Fault: only the state is set.
forceCloseLater == m_state' = "kDisconnecting" /\ UNCHANGED functors

forceClose ==
  IF m_state = "kDisconnected" THEN UNCHANGED <<m_state, functors>>
  ELSE /\ m_state' = "kDisconnecting"
       /\ functors' = Append(functors, Functor("forceCloseInLoop", <<>>))

\* handleClose, up to the callbacks; the output buffer keeps its bytes
handleClose ==
  IF m_state = "kDisconnected" THEN UNCHANGED <<m_state, writing, reading>>
  ELSE m_state' = "kDisconnected" /\ writing' = FALSE /\ reading' = FALSE

\* handleError ends in handleClose; so does Channel's close callback
HandleHup ==
  /\ ~aborted /\ pc = "events" /\ "hup" \in events
  /\ handleClose
  /\ events' = events \ {"hup"}
  /\ UNCHANGED <<script, toSend, peer, buffers, pc, functors, batch, socket, fin, processed,
                 otherVars, aborted>>

HandleRead ==
  /\ ~aborted /\ pc = "events" /\ "in" \in events /\ "hup" \notin events
  /\ events' = events \ {"in"}
  /\ IF toSend # <<>> /\ peer # "reset"
     THEN /\ \E k \in Moved(IF Len(toSend) < Capacity(inBuf) THEN Len(toSend)
                             ELSE Capacity(inBuf)) :
               /\ inBuf' = readFd(inBuf, SubSeq(toSend, 1, k))
               /\ toSend' = SubSeq(toSend, k + 1, Len(toSend))
          /\ pc' = "parse"
          /\ UNCHANGED <<m_state, writing, reading>>
     ELSE \* the end of the stream, or an error
          /\ handleClose
          /\ UNCHANGED <<inBuf, toSend, pc>>
  /\ UNCHANGED <<script, peer, outBuf, functors, batch, socket, fin, processed, otherVars, aborted>>

\* what handleWrite does when the buffer has run empty
Drained(b) ==
  /\ writing' = (readableBytes(b) # 0)
  /\ fin' = (fin \/ (readableBytes(b) = 0 /\ m_state = "kDisconnecting"))

HandleWrite ==
  /\ ~aborted /\ pc = "events" /\ events = {"out"}
  /\ events' = {}
  /\ IF ~writing THEN UNCHANGED <<socket, outBuf, writing, reading, fin, m_state>>
     ELSE \* write() returns 0 or less, which it may on a sound socket too
          \/ handleClose /\ UNCHANGED <<socket, outBuf, fin>>
          \/ /\ ~Unwritable
             /\ \E k \in Moved(readableBytes(outBuf)) :
                  /\ socket' = socket \o SubSeq(Contents(outBuf), 1, k)
                  /\ outBuf' = retrieve(outBuf, k)
                  /\ Drained(outBuf')
                  /\ UNCHANGED <<m_state, reading>>
  /\ UNCHANGED <<script, toSend, peer, inBuf, pc, functors, batch, processed, otherVars, aborted>>

shutdownInLoop == fin' = (fin \/ (~writing /\ peer # "reset"))

(***************************************************************************)
(* ChatSession::onRead, one turn of its loop per action                    *)
(***************************************************************************)
Waiting == Contents(inBuf)

originsize == FromHostOrder(Waiting)

\* (size_t)originsize + sizeof(chat_msg_header) <= readableBytes(): the sum wraps
Complete == 0 <= originsize + HeaderSize /\ originsize + HeaderSize <= Len(Waiting)

HeaderWrong == originsize > MAX_PACKAGE_SIZE

Body == SubSeq(Waiting, HeaderSize + 1, HeaderSize + originsize)

\* Fault: looks for the next package only when more bytes come.
AfterPackageOnce == "events"

AfterPackage == "parse"

Package == retrieve(retrieve(inBuf, HeaderSize), originsize)

onReadWaits ==
  /\ ~aborted /\ pc = "parse"
  /\ Len(Waiting) >= HeaderSize => ~HeaderWrong /\ ~Complete
  /\ pc' = "events"
  /\ UNCHANGED <<script, toSend, peer, buffers, m_state, writing, reading, events, functors, batch,
                 socket, fin, processed, otherVars, aborted>>

onReadRefusesHeader ==
  /\ ~aborted /\ pc = "parse"
  /\ Len(Waiting) >= HeaderSize /\ HeaderWrong
  /\ forceClose
  /\ pc' = "events"
  /\ UNCHANGED <<script, toSend, peer, buffers, writing, reading, events, batch, socket, fin, processed,
                 otherVars, aborted>>

\* string::append of more bytes than a string can hold throws length_error
onReadThrows ==
  /\ ~aborted /\ pc = "parse"
  /\ Len(Waiting) >= HeaderSize /\ ~HeaderWrong /\ Complete /\ originsize < 0
  /\ aborted' = TRUE
  /\ inBuf' = retrieve(inBuf, HeaderSize)
  /\ UNCHANGED <<script, toSend, peer, outBuf, m_state, writing, reading, pc, events, functors, batch,
                 socket, fin, processed, otherVars>>

onReadPackage ==
  /\ ~aborted /\ pc = "parse"
  /\ Len(Waiting) >= HeaderSize /\ ~HeaderWrong /\ Complete /\ originsize >= 0
  /\ inBuf' = Package
  /\ \E request \in Readings(Body) :
     IF request.ok
     THEN /\ processed' = Append(processed, request.msg)
          /\ send(Answer(request.msg))
          /\ pc' = AfterPackage
          /\ UNCHANGED <<m_state, functors>>
     ELSE /\ forceClose
          /\ pc' = "events"
          /\ UNCHANGED <<processed, socket, outBuf, writing>>
  /\ UNCHANGED <<script, toSend, peer, reading, events, batch, fin, otherVars, aborted>>

(***************************************************************************)
(* EventLoop: poll, the events of the channel in the order of              *)
(* Channel::handleEvent, then the functors queued so far.                  *)
(***************************************************************************)
Ready ==
  (IF reading /\ (toSend # <<>> \/ peer # "open") THEN {"in"} ELSE {})
  \cup (IF writing THEN {"out"} ELSE {})
  \cup (IF (reading \/ writing) /\ peer = "reset" THEN {"hup"} ELSE {})

Polled(ready) ==
  /\ ~aborted /\ pc = "tasks" /\ batch = <<>>
  /\ ready # {} \/ functors # <<>>
  /\ "hup" \in Ready => "hup" \in ready
  /\ events' = ready
  /\ pc' = "events"
  /\ UNCHANGED <<script, toSend, peer, buffers, m_state, writing, reading, functors, batch, socket, fin,
                 processed, otherVars, aborted>>

Poll == \E ready \in SUBSET Ready : Polled(ready)

BeginTasks ==
  /\ ~aborted /\ pc = "events" /\ events = {}
  /\ pc' = "tasks"
  /\ batch' = functors
  /\ functors' = <<>>
  /\ UNCHANGED <<script, toSend, peer, buffers, m_state, writing, reading, events, socket, fin, processed,
                 otherVars, aborted>>

RunTask ==
  /\ ~aborted /\ pc = "tasks" /\ batch # <<>>
  /\ batch' = Tail(batch)
  /\ \/ /\ Head(batch).name = "sendInLoop"
        /\ sendInLoop(Head(batch).data)
        /\ UNCHANGED <<m_state, reading, fin>>
     \/ /\ Head(batch).name = "shutdownInLoop"
        /\ shutdownInLoop
        /\ UNCHANGED <<m_state, reading, socket, outBuf, writing>>
     \/ /\ Head(batch).name = "forceCloseInLoop"
        /\ handleClose
        /\ UNCHANGED <<socket, outBuf, fin>>
  /\ UNCHANGED <<script, toSend, peer, inBuf, pc, events, functors, processed, otherVars, aborted>>

(***************************************************************************)
(* Other threads and the client                                            *)
(***************************************************************************)
OtherSend(m) ==
  /\ ~aborted /\ others < MaxOthers /\ sender = Nobody
  /\ m_state = "kConnected"
  /\ others' = others + 1 /\ sender' = m
  /\ UNCHANGED <<script, toSend, peer, buffers, m_state, writing, reading, loopVars, functors,
                 socket, fin, processed, stopper, aborted>>

OtherQueues ==
  /\ ~aborted /\ sender # Nobody
  /\ sender' = Nobody
  /\ functors' = Append(functors, Functor("sendInLoop", Frame(sender)))
  /\ UNCHANGED <<script, toSend, peer, buffers, m_state, writing, reading, loopVars, socket,
                 fin, processed, others, stopper, aborted>>

(***************************************************************************)
(* TcpConnection::shutdown, called by another thread: the test, the        *)
(* assignment and the functor.  If the loop closes the connection between  *)
(* the first two, m_state goes back from kDisconnected to kDisconnecting.  *)
(***************************************************************************)
shutdown ==
  /\ ~aborted /\ stopper = "idle"
  /\ m_state = "kConnected"
  /\ stopper' = "tested"
  /\ UNCHANGED <<script, toSend, peer, buffers, m_state, writing, reading, loopVars, functors,
                 socket, fin, processed, others, sender, aborted>>

ShutdownSets ==
  /\ ~aborted /\ stopper = "tested"
  /\ m_state' = "kDisconnecting" /\ stopper' = "set"
  /\ UNCHANGED <<script, toSend, peer, buffers, writing, reading, loopVars, functors, socket,
                 fin, processed, others, sender, aborted>>

ShutdownQueues ==
  /\ ~aborted /\ stopper = "set"
  /\ functors' = Append(functors, Functor("shutdownInLoop", <<>>)) /\ stopper' = "idle"
  /\ UNCHANGED <<script, toSend, peer, buffers, m_state, writing, reading, loopVars, socket,
                 fin, processed, others, sender, aborted>>

PeerEnds ==
  /\ peer = "open"
  /\ \/ peer' = "closed" /\ toSend = <<>>
     \/ peer' = "reset"
  /\ UNCHANGED <<script, toSend, buffers, m_state, writing, reading, loopVars, functors, socket,
                 fin, processed, otherVars, aborted>>

Loop ==
  \/ Poll \/ HandleHup \/ HandleRead \/ HandleWrite
  \/ onReadWaits \/ onReadRefusesHeader \/ onReadThrows \/ onReadPackage
  \/ BeginTasks \/ RunTask

Next == Loop \/ (\E m \in OtherMessages : OtherSend(m)) \/ OtherQueues
        \/ shutdown \/ ShutdownSets \/ ShutdownQueues \/ PeerEnds

(***************************************************************************)
(* The loop thread keeps running.  Bytes of the client arrive and a client *)
(* that is there keeps reading, so poll, which is level-triggered, reports *)
(* both again and again.                                                   *)
(***************************************************************************)
PollReadable == \E ready \in SUBSET Ready : "in" \in ready /\ Polled(ready)
PollWritable == \E ready \in SUBSET Ready : "out" \in ready /\ Polled(ready)

\* ENABLED Loop, spelt out: TLC is slow at it with the buffers' copying
LoopCanRun ==
  /\ ~aborted
  /\ \/ pc # "tasks" \/ batch # <<>> \/ functors # <<>> \/ Ready # {}

\* weak fairness of Loop
LoopRuns == []<>(~LoopCanRun) \/ []<><<Loop>>_vars

Fairness == LoopRuns /\ WF_vars(ShutdownQueues) /\ SF_vars(PollReadable) /\ SF_vars(PollWritable)

Spec == Init /\ [][Next]_vars /\ Fairness

(***************************************************************************)
(* Properties                                                              *)
(***************************************************************************)
\* The first n packages have arrived.
Whole(n) == Len(Concat(SubSeq(script, 1, n))) <= Len(Concat(script)) - Len(toSend)

\* The first n requests are the client's first n packages.
Exact(n) == /\ n <= Len(script) /\ Whole(n)
            /\ \A i \in 1..n : script[i].legal /\ processed[i] = script[i].msg

\* Package k + 1 made read7BitEncoded overrun, and was not refused.
PastOverrun(k) ==
  /\ k < Len(processed) /\ k < Len(script)
  /\ StartsOverrun(Concat(SubSeq(script, k + 1, Len(script))))

\* However the kernel cuts the stream into reads, and however the buffer has
\* moved or grown, onRead hands process() the client's packages in order and
\* unchanged, none twice, none before it is whole, none past an illegal one, and
\* when it waits for more bytes no whole package is left in the buffer; only an
\* illegal package whose length overruns read7BitEncoded's buffer may be taken
\* all the same, and up to there the requests are exact.
RequestsExact ==
  LET n == Len(processed) IN
  \/ /\ Exact(n)
     /\ ~aborted /\ pc # "parse" /\ reading
          => n = Len(script) \/ ~script[n + 1].legal \/ ~Whole(n + 1)
  \/ \E k \in 0..Len(script) : PastOverrun(k) /\ Exact(k)

\* readFd neither loses, repeats nor moves a byte, whichever of them went through
\* extrabuf and whatever makeSpace copied: the bytes that wait in the input
\* buffer, followed by those still to be read, are the end of what the client
\* sends, also after a package was cut out, refused or given up in the middle.
InputIntact ==
  LET all == Concat(script)
      ahead == Waiting \o toSend
  IN ahead = SubSeq(all, Len(all) - Len(ahead) + 1, Len(all))

\* A package whose header names more than MAX_PACKAGE_SIZE, or one with a body
\* process() cannot read, makes the session close its connection, whatever is
\* still being written and whoever else is sending.  Nothing is said of negative
\* lengths (WrongHeaderCloses) and of overruns, which may not be refused.
BadPackage ==
  /\ pc = "parse" /\ ~aborted
  /\ Len(Waiting) >= HeaderSize
  /\ \/ HeaderWrong
     \/ Complete /\ originsize >= 0 /\ ~ReadPackage(Body).ok /\ ~PackageOverruns(Body)

BadPackageCloses == BadPackage ~> ~reading

\* "The header is wrong, close the connection at once" (ChatSession.cpp:68): so
\* with a length that is too large, and with one below zero.  Does not hold:
\* originsize is signed and only compared with the maximum (line 69); below -4 its
\* conversion to size_t makes onRead wait for ever (line 79), from -4 to -1 append
\* throws (line 84).
WrongHeaderCloses ==
  (/\ pc = "parse" /\ ~aborted
   /\ Len(Waiting) >= HeaderSize /\ (HeaderWrong \/ originsize < 0)) ~> ~reading

\* The sending side implements OrderedStream: sendInLoop accepts a message
\* whole, the socket gets the accepted bytes in order, the end of the stream
\* comes last, and all of it arrives unless the connection breaks.
gone == peer = "reset" \/ ~reading \/ aborted

\* What process() may make of a package that starts anywhere in the stream t.
Readable(t) ==
  LET tail(i) == SubSeq(t, i, Len(t)) IN
  UNION {{r \in Readings(FirstBody(tail(i))) : r.ok} : i \in {j \in 1..Len(t) : StartsWhole(tail(j))}}

Sendable ==
  {Frame(m) : m \in OtherMessages}
  \cup {Frame(Answer(r.msg)) : r \in UNION {Readable(Concat(s)) : s \in Scripts}}

Pipe == INSTANCE OrderedStream WITH
          Messages <- Sendable,
          delivered <- socket,
          queue <- Contents(outBuf),
          closing <- m_state # "kConnected",
          broken <- gone

Implements == Pipe!Spec

\* The packages a client cuts out of a stream, with the server's own reader.
Packages(s) ==
  LET size(i) == FromHostOrder(SubSeq(s, i + 1, i + HeaderSize))
      p[i \in 0..Len(s)] ==
        IF i + HeaderSize > Len(s) \/ size(i) < 0 \/ i + HeaderSize + size(i) > Len(s) THEN <<>>
        ELSE LET r == ReadPackage(SubSeq(s, i + HeaderSize + 1, i + HeaderSize + size(i))) IN
             <<IF r.ok THEN r.msg ELSE Refused>> \o p[i + HeaderSize + size(i)]
  IN p[0]

\* What BinaryStreamWriter packs and the socket delivers, however it was cut and
\* mixed with the sends of other threads, BinaryStreamReader unpacks again: each
\* package the client reads is the answer to its next request, for the cmd and
\* seq it asked with, or something another thread has sent (the first i packages
\* hold answers[i] answers).
AnswersReadable ==
  LET got == Packages(socket) IN
  \E answers \in [0..Len(got) -> 0..Len(processed)] :
    /\ answers[0] = 0
    /\ \A i \in 1..Len(got) :
         \/ answers[i] = answers[i - 1] + 1 /\ got[i] = Answer(processed[answers[i]])
         \/ answers[i] = answers[i - 1] /\ got[i] \in OtherMessages
    /\ Len(got) - answers[Len(got)] <= others

=============================================================================
