----------------------------- MODULE TcpServer -----------------------------
(***************************************************************************)
(* The connections of net/TcpServer.cpp and net/TcpConnection.cpp, and the *)
(* event loops (net/EventLoop.cpp, net/Channel.cpp, net/EpollPoller.cpp)   *)
(* that carry them.  The main loop accepts and forgets connections; every  *)
(* connection lives on one I/O loop, which polls its channel and runs its  *)
(* callbacks.  Loops talk to each other only by queueing functors.         *)
(*                                                                         *)
(* A TcpConnection is reference counted: m_connections, queued functors    *)
(* bound to a shared_ptr, and stack variables of running calls hold it;    *)
(* the poller and the functors of TcpConnection::send hold raw pointers.   *)
(* The count itself is not state here, Alive is computed from the holders. *)
(***************************************************************************)
EXTENDS Naturals, Sequences

CONSTANTS
    Conns,      \* every TcpConnection that may ever be created
    NoConn,     \* "no connection", for threads that are not using one
    IoLoops,    \* the loops of EventLoopThreadPool
    MainLoop,   \* the base loop, with the acceptor
    Payload,    \* what user code sends
    Reported,   \* bound: the event masks the kernel reports
    Writes,     \* bound: what a write to an idle socket may do
    MaxSends    \* bound: calls of TcpConnection::send made by one thread

ASSUME ConnAssumption == NoConn \notin Conns
ASSUME LoopAssumption == MainLoop \notin IoLoops
ASSUME MaxSendsAssumption == MaxSends \in Nat

EventBit == {"XPOLLHUP", "XPOLLERR", "XPOLLIN", "XPOLLRDHUP", "XPOLLOUT"}
ASSUME WritesAssumption == Writes # {} /\ Writes \subseteq {"written", "buffered", "failed"}
ASSUME ReportedAssumption == Reported \subseteq SUBSET EventBit

Loops == IoLoops \cup {MainLoop}

\* TcpConnection::StateE; "none" is a connection not created yet.
StateE == {"none", "kConnecting", "kConnected", "kDisconnecting", "kDisconnected"}

\* The callbacks of a Channel, in the order handleEvent calls them.
Rank == [close |-> 1, error |-> 2, read |-> 3, write |-> 4]
Callbacks == DOMAIN Rank

\* A message carries the thread that sent it and its number in that thread,
\* so that properties can tell one send from another.
Msg == [from : Loops, no : 1..MaxSends, body : Payload]
NoMsg == [from |-> MainLoop, no |-> 0]

FunctorName == {"connectEstablished", "connectDestroyed", "forceCloseInLoop",
                "removeConnectionInLoop"}
\* A functor bound to a shared_ptr, or TcpConnection::send's, bound to "this".
Functor == [fn : FunctorName, conn : Conns, msg : {NoMsg}]
             \cup [fn : {"sendInLoop"}, conn : Conns, msg : Msg]

VARIABLES
    m_state,            \* TcpConnection::m_state
    m_loop,             \* TcpConnection::m_loop
    m_connections,      \* TcpServer::m_connections
    m_events,           \* Channel::m_events, a subset of {"read", "write"}
    m_index,            \* Channel::m_index: what EPollPoller knows of the channel
    epoll,              \* the channels registered in the kernel's epoll sets
    m_pendingFunctors,  \* EventLoop::m_pendingFunctors
    functors,           \* doOtherTasks's local vector: the part still to run
    kept,               \* ... and the connections its part already run still holds
    polled,             \* has the iteration's poll returned, its tasks not yet run?
    m_activeChannels,   \* channels poll returned whose handleEvent has not begun
    current,            \* the handleEvent in progress
    sending,            \* a send to another loop between its check and its queueing
    callbacks,          \* history: connection callbacks made, up and down
    output,             \* history: messages sendInLoop wrote or buffered
    faulted,            \* history: connections where it dropped one (EPIPE, ECONNRESET)
    sent                \* history: sends made by each thread

pollVars == <<m_index, epoll>>
loopVars == <<functors, kept, polled>>
outVars == <<output, faulted>>
vars == <<m_state, m_loop, m_connections, m_events, m_index, epoll, m_pendingFunctors,
          functors, kept, polled, m_activeChannels, current, sending, callbacks,
          output, faulted, sent>>

NoEvent == [conn |-> NoConn, todo |-> {}, inCallback |-> FALSE]
Idle == [conn |-> NoConn, msg |-> NoMsg]

TypeOK ==
    /\ m_state \in [Conns -> StateE]
    /\ m_loop \in [Conns -> Loops]
    /\ m_connections \subseteq Conns
    /\ m_events \in [Conns -> SUBSET {"read", "write"}]
    /\ m_index \in [Conns -> {"kNew", "kAdded", "kDeleted"}]
    /\ epoll \subseteq Conns
    /\ m_pendingFunctors \in [Loops -> Seq(Functor)]
    /\ functors \in [Loops -> Seq(Functor)]
    /\ kept \in [Loops -> SUBSET Conns]
    /\ polled \in [Loops -> BOOLEAN]
    /\ m_activeChannels \in [Loops -> SUBSET Conns]
    /\ current \in [Loops -> [conn : Conns \cup {NoConn}, todo : SUBSET Callbacks,
                              inCallback : BOOLEAN]]
    /\ sending \in [Loops -> [conn : Conns, msg : Msg] \cup {Idle}]
    /\ callbacks \in [Conns -> [up : Nat, down : Nat]]
    /\ output \in [Conns -> Seq(Msg)]
    /\ faulted \subseteq Conns
    /\ sent \in [Loops -> 0..MaxSends]

Init ==
    /\ m_state = [c \in Conns |-> "none"]
    /\ m_loop = [c \in Conns |-> MainLoop]
    /\ m_connections = {}
    /\ m_events = [c \in Conns |-> {}]
    /\ m_index = [c \in Conns |-> "kNew"]
    /\ epoll = {}
    /\ m_pendingFunctors = [l \in Loops |-> <<>>]
    /\ functors = [l \in Loops |-> <<>>]
    /\ kept = [l \in Loops |-> {}]
    /\ polled = [l \in Loops |-> FALSE]
    /\ m_activeChannels = [l \in Loops |-> {}]
    /\ current = [l \in Loops |-> NoEvent]
    /\ sending = [l \in Loops |-> Idle]
    /\ callbacks = [c \in Conns |-> [up |-> 0, down |-> 0]]
    /\ output = [c \in Conns |-> <<>>]
    /\ faulted = {}
    /\ sent = [l \in Loops |-> 0]

-----------------------------------------------------------------------------
(* Lifetime.                                                               *)

Shared(name, c) == [fn |-> name, conn |-> c, msg |-> NoMsg]

\* Fault: the functor does not carry the message.
RawSendEmpty(c, msg) == [fn |-> "sendInLoop", conn |-> c, msg |-> NoMsg]

RawSend(c, msg) == [fn |-> "sendInLoop", conn |-> c, msg |-> msg]

\* A queue of functors holds a connection through each shared_ptr bound in it.
HeldBy(queue, c) == \E i \in DOMAIN queue : /\ queue[i].conn = c
                                            /\ queue[i].fn # "sendInLoop"

\* Some shared_ptr to the connection exists.
Alive(c) ==
    \/ c \in m_connections
    \/ \E l \in Loops : \/ HeldBy(m_pendingFunctors[l], c)
                        \/ HeldBy(functors[l], c)
                        \/ c \in kept[l]
                        \/ sending[l].conn = c
                        \/ current[l].conn = c /\ current[l].inCallback

\* The last shared_ptr is gone: ~TcpConnection has run.
Destroyed(c) == m_state[c] # "none" /\ ~Alive(c)

-----------------------------------------------------------------------------
(* Pieces of TcpConnection that several handlers call.                     *)

\* Fault: the functor jumps the queue.
queueFirst(l, f) ==
    m_pendingFunctors' = [m_pendingFunctors EXCEPT ![l] = <<f>> \o @]

queueInLoop(l, f) ==
    m_pendingFunctors' = [m_pendingFunctors EXCEPT ![l] = Append(@, f)]

\* Fault: no test of kDisconnected, every close reports the connection down.
handleCloseAgain(c) ==
    /\ m_state' = [m_state EXCEPT ![c] = "kDisconnected"]
    /\ m_events' = [m_events EXCEPT ![c] = {}]
    /\ m_index' = [m_index EXCEPT ![c] = IF c \in epoll THEN "kDeleted" ELSE @]
    /\ epoll' = epoll \ {c}
    /\ callbacks' = [callbacks EXCEPT ![c].down = @ + 1]
    /\ queueInLoop(MainLoop, Shared("removeConnectionInLoop", c))

\* The down-callback, deregistration and hand-over to the main loop; nothing
\* when the connection is closed already.
handleClose(c) ==
    \/ /\ m_state[c] = "kDisconnected"
       /\ UNCHANGED <<m_state, m_events, pollVars, callbacks, m_pendingFunctors>>
    \/ /\ m_state[c] # "kDisconnected"
       /\ m_state' = [m_state EXCEPT ![c] = "kDisconnected"]
       /\ m_events' = [m_events EXCEPT ![c] = {}]
       /\ m_index' = [m_index EXCEPT ![c] = IF c \in epoll THEN "kDeleted" ELSE @]
       /\ epoll' = epoll \ {c}
       /\ callbacks' = [callbacks EXCEPT ![c].down = @ + 1]
       /\ queueInLoop(MainLoop, Shared("removeConnectionInLoop", c))

\* Written at once, buffered for handleWrite, or dropped on EPIPE/ECONNRESET.
sendInLoop(c, msg) ==
    \/ /\ m_state[c] = "kDisconnected"
       /\ UNCHANGED <<m_events, outVars>>
    \/ /\ m_state[c] # "kDisconnected"
       /\ output' = [output EXCEPT ![c] = Append(@, msg)]
       /\ \/ "write" \notin m_events[c] /\ "written" \in Writes /\ UNCHANGED m_events
          \/ /\ "write" \in m_events[c] \/ "buffered" \in Writes
             /\ m_events' = [m_events EXCEPT ![c] = @ \cup {"write"}]
       /\ UNCHANGED faulted
    \/ /\ m_state[c] # "kDisconnected"
       /\ "write" \notin m_events[c] /\ "failed" \in Writes
       /\ faulted' = faulted \cup {c}
       /\ UNCHANGED <<m_events, output>>

-----------------------------------------------------------------------------
(* One iteration of EventLoop::loop: poll, handle events, run functors.    *)

\* Is the thread between two calls, neither in a callback nor in a functor?
AtRest(l) == current[l] = NoEvent /\ functors[l] = <<>>

Watched(l) == {c \in epoll : m_loop[c] = l}

\* Fault: the loop polls again before it has run its functors.
pollBeforeTasks(l) ==
    /\ AtRest(l) /\ m_activeChannels[l] = {}
    /\ \E A \in (SUBSET Watched(l)) \ {{}} :
         m_activeChannels' = [m_activeChannels EXCEPT ![l] = A]
    /\ polled' = [polled EXCEPT ![l] = TRUE]
    /\ UNCHANGED <<m_state, m_loop, m_connections, m_events, pollVars, m_pendingFunctors,
                   functors, kept, current, sending, callbacks, outVars, sent>>

poll(l) ==
    /\ AtRest(l) /\ ~polled[l]
    /\ \E A \in (SUBSET Watched(l)) \ {{}} :
         m_activeChannels' = [m_activeChannels EXCEPT ![l] = A]
    /\ polled' = [polled EXCEPT ![l] = TRUE]
    /\ UNCHANGED <<m_state, m_loop, m_connections, m_events, pollVars, m_pendingFunctors,
                   functors, kept, current, sending, callbacks, outVars, sent>>

\* What handleEvent will call for the events poll reported.
CallbacksFor(revents) ==
    {cb \in Callbacks :
       \/ cb = "close" /\ "XPOLLHUP" \in revents /\ "XPOLLIN" \notin revents
       \/ cb = "error" /\ "XPOLLERR" \in revents
       \/ cb = "read"  /\ revents \cap {"XPOLLIN", "XPOLLRDHUP"} # {}
       \/ cb = "write" /\ "XPOLLOUT" \in revents}

\* The kernel reports errors always, the rest only where there is interest.
Revents(c) ==
    {r \in Reported :
       /\ r \cap {"XPOLLIN", "XPOLLRDHUP"} # {} => "read" \in m_events[c]
       /\ "XPOLLOUT" \in r => "write" \in m_events[c]}

handleEvent(l, c) ==
    /\ AtRest(l) /\ c \in m_activeChannels[l]
    /\ m_activeChannels' = [m_activeChannels EXCEPT ![l] = @ \ {c}]
    /\ \E r \in Revents(c) :
         /\ CallbacksFor(r) # {}
         /\ current' = [current EXCEPT ![l] =
                          [conn |-> c, todo |-> CallbacksFor(r), inCallback |-> FALSE]]
    /\ UNCHANGED <<m_state, m_loop, m_connections, m_events, pollVars, m_pendingFunctors,
                   loopVars, sending, callbacks, outVars, sent>>

\* The callback cb is the next one the handleEvent of l calls.
Calls(l, cb) ==
    /\ cb \in current[l].todo /\ ~current[l].inCallback
    /\ \A other \in current[l].todo : Rank[cb] <= Rank[other]

\* The handleEvent of l is done with callback cb.
Returns(l, cb) ==
    current' = [current EXCEPT ![l] =
                  IF @.todo = {cb} THEN NoEvent
                  ELSE [conn |-> @.conn, todo |-> @.todo \ {cb}, inCallback |-> FALSE]]

\* m_closeCallback and m_errorCallback: TcpConnection::handleClose, ::handleError.
onCloseEvent(l) ==
    /\ \E cb \in {"close", "error"} : Calls(l, cb) /\ Returns(l, cb)
    /\ handleClose(current[l].conn)
    /\ UNCHANGED <<m_loop, m_connections, loopVars, m_activeChannels, sending, outVars, sent>>

\* handleRead with n > 0: the message callback begins.
handleReadData(l) ==
    /\ Calls(l, "read")
    /\ current' = [current EXCEPT ![l].inCallback = TRUE]
    /\ UNCHANGED <<m_state, m_loop, m_connections, m_events, pollVars, m_pendingFunctors,
                   loopVars, m_activeChannels, sending, callbacks, outVars, sent>>

\* handleRead with n <= 0.
handleReadEnd(l) ==
    /\ Calls(l, "read") /\ Returns(l, "read")
    /\ handleClose(current[l].conn)
    /\ UNCHANGED <<m_loop, m_connections, loopVars, m_activeChannels, sending, outVars, sent>>

\* The buffer drains, or not yet; the channel may have been disabled meanwhile.
handleWrite(l) ==
    /\ Calls(l, "write") /\ Returns(l, "write")
    /\ \/ UNCHANGED m_events
       \/ m_events' = [m_events EXCEPT ![current[l].conn] = @ \ {"write"}]
    /\ UNCHANGED <<m_state, m_loop, m_connections, pollVars, m_pendingFunctors,
                   loopVars, m_activeChannels, sending, callbacks, outVars, sent>>

handleWriteFails(l) ==
    /\ Calls(l, "write") /\ Returns(l, "write")
    /\ "write" \in m_events[current[l].conn]
    /\ handleClose(current[l].conn)
    /\ UNCHANGED <<m_loop, m_connections, loopVars, m_activeChannels, sending, outVars, sent>>

-----------------------------------------------------------------------------
(* What a message callback may do before it returns.                       *)

InCallback(l) == current[l].inCallback /\ sending[l] = Idle

NewMsg(l, body) == [from |-> l, no |-> sent[l] + 1, body |-> body]

\* TcpConnection::send to a connection of this thread.
sendHere(l, c, body) ==
    /\ InCallback(l) /\ Alive(c) /\ sent[l] < MaxSends
    /\ m_state[c] = "kConnected" /\ m_loop[c] = l
    /\ sendInLoop(c, NewMsg(l, body))
    /\ sent' = [sent EXCEPT ![l] = @ + 1]
    /\ UNCHANGED <<m_state, m_loop, m_connections, pollVars, m_pendingFunctors, loopVars,
                   m_activeChannels, current, sending, callbacks>>

\* ... to a connection of another thread: the caller holds a shared_ptr and
\* has seen kConnected,
sendChecked(l, c, body) ==
    /\ InCallback(l) /\ Alive(c) /\ sent[l] < MaxSends
    /\ m_state[c] = "kConnected" /\ m_loop[c] # l
    /\ sending' = [sending EXCEPT ![l] = [conn |-> c, msg |-> NewMsg(l, body)]]
    /\ sent' = [sent EXCEPT ![l] = @ + 1]
    /\ UNCHANGED <<m_state, m_loop, m_connections, m_events, pollVars, m_pendingFunctors,
                   loopVars, m_activeChannels, current, callbacks, outVars>>

\* ... then queues sendInLoop bound to the raw pointer and lets the pointer go.
sendQueued(l) ==
    /\ sending[l] # Idle
    /\ queueInLoop(m_loop[sending[l].conn], RawSend(sending[l].conn, sending[l].msg))
    /\ sending' = [sending EXCEPT ![l] = Idle]
    /\ UNCHANGED <<m_state, m_loop, m_connections, m_events, pollVars, loopVars,
                   m_activeChannels, current, callbacks, outVars, sent>>

\* The callback returns ...
messageReturn(l) ==
    /\ InCallback(l) /\ Returns(l, "read")
    /\ UNCHANGED <<m_state, m_loop, m_connections, m_events, pollVars, m_pendingFunctors,
                   loopVars, m_activeChannels, sending, callbacks, outVars, sent>>

\* Fault: the state is set but forceCloseInLoop is not queued.
forceCloseNotQueued(l) ==
    /\ InCallback(l) /\ Returns(l, "read")
    /\ m_state' = [m_state EXCEPT ![current[l].conn] =
                     IF @ = "kConnected" THEN "kDisconnecting" ELSE @]
    /\ UNCHANGED <<m_loop, m_connections, m_events, pollVars, m_pendingFunctors, loopVars,
                   m_activeChannels, sending, callbacks, outVars, sent>>

\* ... or calls TcpConnection::forceClose on its own connection and returns.
forceClose(l) ==
    /\ InCallback(l) /\ Returns(l, "read")
    /\ LET c == current[l].conn IN
         \/ /\ m_state[c] \in {"kConnected", "kDisconnecting"}
            /\ m_state' = [m_state EXCEPT ![c] = "kDisconnecting"]
            /\ queueInLoop(m_loop[c], Shared("forceCloseInLoop", c))
         \/ /\ m_state[c] \notin {"kConnected", "kDisconnecting"}
            /\ UNCHANGED <<m_state, m_pendingFunctors>>
    /\ UNCHANGED <<m_loop, m_connections, m_events, pollVars, loopVars, m_activeChannels,
                   sending, callbacks, outVars, sent>>

-----------------------------------------------------------------------------
(* EventLoop::doOtherTasks and the functors it runs.                       *)

doOtherTasks(l) ==
    /\ AtRest(l) /\ m_activeChannels[l] = {}
    /\ polled[l] \/ m_pendingFunctors[l] # <<>>
    /\ functors' = [functors EXCEPT ![l] = m_pendingFunctors[l]]
    /\ m_pendingFunctors' = [m_pendingFunctors EXCEPT ![l] = <<>>]
    /\ polled' = [polled EXCEPT ![l] = FALSE]
    /\ UNCHANGED <<m_state, m_loop, m_connections, m_events, pollVars, kept,
                   m_activeChannels, current, sending, callbacks, outVars, sent>>

\* The next functor of l is called name.  The local vector, and what it
\* holds, goes when the last functor has run.
Runs(l, name) ==
    /\ functors[l] # <<>> /\ Head(functors[l]).fn = name
    /\ functors' = [functors EXCEPT ![l] = Tail(@)]
    /\ kept' = [kept EXCEPT ![l] =
                  IF Len(functors[l]) = 1 THEN {}
                  ELSE @ \cup (IF name = "sendInLoop" THEN {} ELSE {Head(functors[l]).conn})]
    /\ UNCHANGED <<m_loop, polled, m_activeChannels, current, sending, sent>>

connectEstablished(l) ==
    /\ Runs(l, "connectEstablished")
    /\ LET c == Head(functors[l]).conn IN
         \/ /\ m_state[c] # "kConnecting"
            /\ UNCHANGED <<m_state, m_events, pollVars, callbacks, m_pendingFunctors>>
         \/ /\ m_state[c] = "kConnecting"
            /\ m_state' = [m_state EXCEPT ![c] = "kConnected"]
            /\ m_events' = [m_events EXCEPT ![c] = {"read"}]
            /\ m_index' = [m_index EXCEPT ![c] = "kAdded"]
            /\ epoll' = epoll \cup {c}
            /\ callbacks' = [callbacks EXCEPT ![c].up = @ + 1]
            /\ UNCHANGED m_pendingFunctors
    /\ UNCHANGED <<m_connections, outVars>>

\* The same with enableReading failing: the channel is marked kAdded but
\* epoll_ctl refused it, and handleClose runs.
connectEstablishedFails(l) ==
    /\ Runs(l, "connectEstablished")
    /\ LET c == Head(functors[l]).conn IN
         /\ m_state[c] = "kConnecting"
         /\ m_state' = [m_state EXCEPT ![c] = "kDisconnected"]
         /\ m_events' = [m_events EXCEPT ![c] = {}]
         /\ m_index' = [m_index EXCEPT ![c] = "kAdded"]
         /\ callbacks' = [callbacks EXCEPT ![c].down = @ + 1]
         /\ queueInLoop(MainLoop, Shared("removeConnectionInLoop", c))
    /\ UNCHANGED <<m_connections, epoll, outVars>>

\* Fault: the functor runs and the message is lost.
runSendDropped(l) ==
    /\ Runs(l, "sendInLoop")
    /\ UNCHANGED <<m_state, m_connections, m_events, pollVars, m_pendingFunctors, callbacks,
                   outVars>>

runSendInLoop(l) ==
    /\ Runs(l, "sendInLoop")
    /\ sendInLoop(Head(functors[l]).conn, Head(functors[l]).msg)
    /\ UNCHANGED <<m_state, m_connections, pollVars, m_pendingFunctors, callbacks>>

forceCloseInLoop(l) ==
    /\ Runs(l, "forceCloseInLoop")
    /\ LET c == Head(functors[l]).conn IN
         \/ m_state[c] \in {"kConnected", "kDisconnecting"} /\ handleClose(c)
         \/ /\ m_state[c] \notin {"kConnected", "kDisconnecting"}
            /\ UNCHANGED <<m_state, m_events, pollVars, callbacks, m_pendingFunctors>>
    /\ UNCHANGED <<m_connections, outVars>>

\* Fault: erased, but connectDestroyed is not queued.
removeWithoutDestroy(l) ==
    /\ Runs(l, "removeConnectionInLoop")
    /\ m_connections' = m_connections \ {Head(functors[l]).conn}
    /\ UNCHANGED <<m_state, m_events, pollVars, m_pendingFunctors, callbacks, outVars>>

\* Fault: connectDestroyed is queued, but the entry is not erased.
removeWithoutErase(l) ==
    /\ Runs(l, "removeConnectionInLoop")
    /\ LET c == Head(functors[l]).conn
       IN  queueInLoop(m_loop[c], Shared("connectDestroyed", c))
    /\ UNCHANGED <<m_state, m_connections, m_events, pollVars, callbacks, outVars>>

removeConnectionInLoop(l) ==
    /\ Runs(l, "removeConnectionInLoop")
    /\ LET c == Head(functors[l]).conn IN
         /\ m_connections' = m_connections \ {c}
         /\ \/ /\ c \in m_connections
               /\ queueInLoop(m_loop[c], Shared("connectDestroyed", c))
            \/ c \notin m_connections /\ UNCHANGED m_pendingFunctors
    /\ UNCHANGED <<m_state, m_events, pollVars, callbacks, outVars>>

\* Channel::remove gives up while the channel still has events.
connectDestroyed(l) ==
    /\ Runs(l, "connectDestroyed")
    /\ LET c == Head(functors[l]).conn
           up == m_state[c] = "kConnected"
           events == IF up THEN {} ELSE m_events[c]
       IN  /\ m_state' = [m_state EXCEPT ![c] = IF up THEN "kDisconnected" ELSE @]
           /\ m_events' = [m_events EXCEPT ![c] = events]
           /\ callbacks' = [callbacks EXCEPT ![c].down = IF up THEN @ + 1 ELSE @]
           /\ m_index' = [m_index EXCEPT ![c] = IF events = {} THEN "kNew" ELSE @]
           /\ epoll' = IF events = {} THEN epoll \ {c} ELSE epoll
    /\ UNCHANGED <<m_connections, m_pendingFunctors, outVars>>

-----------------------------------------------------------------------------
\* Fault: the connection is not entered in m_connections.
newConnectionNotHeld(c, l) ==
    /\ AtRest(MainLoop)
    /\ m_state[c] = "none"
    /\ m_state' = [m_state EXCEPT ![c] = "kConnecting"]
    /\ m_loop' = [m_loop EXCEPT ![c] = l]
    /\ queueInLoop(l, Shared("connectEstablished", c))
    /\ UNCHANGED <<m_connections, m_events, pollVars, loopVars, m_activeChannels, current,
                   sending, callbacks, outVars, sent>>

\* Fault: connectEstablished is queued twice.
newConnectionTwice(c, l) ==
    /\ AtRest(MainLoop)
    /\ m_state[c] = "none"
    /\ m_state' = [m_state EXCEPT ![c] = "kConnecting"]
    /\ m_loop' = [m_loop EXCEPT ![c] = l]
    /\ m_connections' = m_connections \cup {c}
    /\ m_pendingFunctors' = [m_pendingFunctors EXCEPT ![l] =
         @ \o <<Shared("connectEstablished", c), Shared("connectEstablished", c)>>]
    /\ UNCHANGED <<m_events, pollVars, loopVars, m_activeChannels, current, sending,
                   callbacks, outVars, sent>>

\* Fault: connectEstablished is not queued.
newConnectionNotQueued(c, l) ==
    /\ AtRest(MainLoop)
    /\ m_state[c] = "none"
    /\ m_state' = [m_state EXCEPT ![c] = "kConnecting"]
    /\ m_loop' = [m_loop EXCEPT ![c] = l]
    /\ m_connections' = m_connections \cup {c}
    /\ UNCHANGED <<m_events, pollVars, m_pendingFunctors, loopVars, m_activeChannels, current,
                   sending, callbacks, outVars, sent>>

\* The acceptor's callback in the main loop; getNextLoop picks the I/O loop.
newConnection(c, l) ==
    /\ AtRest(MainLoop)
    /\ m_state[c] = "none"
    /\ m_state' = [m_state EXCEPT ![c] = "kConnecting"]
    /\ m_loop' = [m_loop EXCEPT ![c] = l]
    /\ m_connections' = m_connections \cup {c}
    /\ queueInLoop(l, Shared("connectEstablished", c))
    /\ UNCHANGED <<m_events, pollVars, loopVars, m_activeChannels, current, sending,
                   callbacks, outVars, sent>>

RunFunctor(l) ==
    \/ connectEstablished(l)
    \/ connectEstablishedFails(l)
    \/ runSendInLoop(l)
    \/ forceCloseInLoop(l)
    \/ removeConnectionInLoop(l)
    \/ connectDestroyed(l)

\* Steps of EventLoop::loop and of the handlers it calls, message callback apart.
LoopStep(l) ==
    \/ poll(l)
    \/ \E c \in Conns : handleEvent(l, c)
    \/ onCloseEvent(l)
    \/ handleReadData(l)
    \/ handleReadEnd(l)
    \/ handleWrite(l)
    \/ handleWriteFails(l)
    \/ doOtherTasks(l)
    \/ RunFunctor(l)

CallbackStep(l) ==
    \/ \E c \in Conns, body \in Payload : sendHere(l, c, body) \/ sendChecked(l, c, body)
    \/ sendQueued(l)
    \/ messageReturn(l)
    \/ forceClose(l)

Next ==
    \/ \E l \in Loops : LoopStep(l) \/ CallbackStep(l)
    \/ \E c \in Conns, l \in IoLoops : newConnection(c, l)

\* A thread in its loop goes on (poll waits at most kPollTimeMs), and so does
\* a callback; nobody is bound to connect.
Fairness == \A l \in Loops : WF_vars(LoopStep(l) \/ CallbackStep(l))

Spec == Init /\ [][Next]_vars

FairSpec == Spec /\ Fairness
-----------------------------------------------------------------------------
(* Properties.                                                             *)

\* Functors queued in a loop, whether swapped out already or not.
Has(queue, f) == \E i \in DOMAIN queue : queue[i] = f
Queued(l, name, c) ==
    Has(functors[l], Shared(name, c)) \/ Has(m_pendingFunctors[l], Shared(name, c))

\* The connection callback reports a connection up at most once and down at
\* most once, and down exactly when it is closed: however close, error, end of
\* file, failed write and forceCloseInLoop coincide, ChatServer::onDisconnected
\* runs once (the guard of TcpConnection::handleClose).
CallbackOnce ==
    \A c \in Conns :
        /\ callbacks[c].up <= 1
        /\ callbacks[c].down = (IF m_state[c] = "kDisconnected" THEN 1 ELSE 0)
        /\ m_state[c] \in {"kConnected", "kDisconnecting"} => callbacks[c].up = 1

\* The raw Channel pointers that EPollPoller, m_activeChannels and a running
\* handleEvent keep always belong to a connection that still exists: the chain
\* handleClose, removeConnectionInLoop, connectDestroyed deregisters the channel
\* before the last shared_ptr goes.
NoDanglingChannel ==
    \A c \in Conns :
        \/ m_index[c] # "kNew"
        \/ c \in epoll
        \/ \E l \in Loops : c \in m_activeChannels[l] \/ current[l].conn = c
        => Alive(c)

\* A connection is destroyed only after it was closed and reported down (what
\* the commented assertion of ~TcpConnection says).
DestroyedAfterClose == \A c \in Conns : Destroyed(c) => m_state[c] = "kDisconnected"

\* removeConnectionInLoop always finds its entry, in whichever of the five ways the
\* connection was closed and however early: its "n != 1" branch is dead, although
\* the comment in it (TcpServer.cpp:119) says when it is taken.
RemovalFindsEntry ==
    \A c \in Conns : Queued(MainLoop, "removeConnectionInLoop", c) => c \in m_connections

\* What that comment says: a connection has no entry to remove when the peer was
\* gone while it was being created, that is, before it was reported up.  Does not
\* hold: newConnection makes the entry first (line 95), and a connection whose
\* enableReading fails (TcpConnection.cpp:281) is removed like any other.
EarlyLossHasNoEntry ==
    \A c \in Conns :
        Queued(MainLoop, "removeConnectionInLoop", c) /\ callbacks[c].up = 0
          => c \notin m_connections

\* connectEstablished always finds kConnecting: its early return is the branch
\* that, in the words of the code, must never be taken.
EstablishedWhenConnecting ==
    \A c \in Conns, l \in Loops :
        Queued(l, "connectEstablished", c) => m_state[c] = "kConnecting"

\* After forceClose no message callback begins on the connection: the functor
\* it queued runs before the loop polls again.
NoReadAfterForceClose ==
    [][\A l \in Loops :
         current'[l].inCallback /\ ~current[l].inCallback
           => m_state[current[l].conn] # "kDisconnecting"]_vars

\* The messages one thread sends to a connection reach its output in the order
\* of the calls, across direct writes, queued functors and batch swaps.
SenderOrder ==
    \A c \in Conns : \A i, j \in DOMAIN output[c] :
        i < j /\ output[c][i].from = output[c][j].from => output[c][i].no < output[c][j].no

-----------------------------------------------------------------------------
(* The inductive invariant behind the lifetime properties.                 *)

\* A poll result or a handleEvent in progress refers to the channel.
InUse(c) == \E l \in Loops : c \in m_activeChannels[l] \/ current[l].conn = c

\* A loop handles events of its own connections only, one after the other, and
\* never while it runs functors.
LoopDiscipline ==
    \A l \in Loops :
        /\ \A c \in m_activeChannels[l] : m_loop[c] = l
        /\ current[l].conn = NoConn => current[l] = NoEvent
        /\ current[l].conn # NoConn => /\ m_loop[current[l].conn] = l
                                       /\ current[l].conn \notin m_activeChannels[l]
        /\ functors[l] # <<>> => m_activeChannels[l] = {} /\ current[l] = NoEvent
        /\ m_activeChannels[l] # {} \/ current[l] # NoEvent => polled[l]

\* Before connectEstablished the poller does not know the connection.
NotYetPolled(c) ==
    m_state[c] \in {"none", "kConnecting"} =>
        m_index[c] = "kNew" /\ c \notin epoll /\ ~InUse(c) /\ callbacks[c].up = 0

\* Until it is closed, m_connections holds it.
HeldWhileOpen(c) ==
    m_state[c] \in {"kConnecting", "kConnected", "kDisconnecting"} => c \in m_connections

\* Once closed it is on its way out: to be erased, to be deregistered, or gone.
OnItsWayOut(c) ==
    m_state[c] = "kDisconnected" =>
        /\ m_events[c] = {} /\ c \notin epoll
        /\ \/ c \in m_connections /\ Queued(MainLoop, "removeConnectionInLoop", c)
           \/ Queued(m_loop[c], "connectDestroyed", c)
           \/ m_index[c] = "kNew" /\ ~InUse(c)

\* Only closed connections are erased and deregistered, in their own loop.
OnlyClosedRemoved(c) ==
    \A l \in Loops :
        /\ Queued(l, "removeConnectionInLoop", c) => m_state[c] = "kDisconnected"
        /\ Queued(l, "connectDestroyed", c) => m_state[c] = "kDisconnected" /\ m_loop[c] = l

\* After forceClose: the functor is queued, and runs before the next poll.
CloseIsComing(c) ==
    m_state[c] = "kDisconnecting" =>
        /\ \A l \in Loops : /\ c \notin m_activeChannels[l]
                            /\ current[l].conn = c => "read" \notin current[l].todo
        /\ \/ Has(functors[m_loop[c]], Shared("forceCloseInLoop", c))
           \/ /\ Has(m_pendingFunctors[m_loop[c]], Shared("forceCloseInLoop", c))
              /\ polled[m_loop[c]]

\* The conjunction is inductive: the parts above support each other along the
\* chain handleClose, removeConnectionInLoop, connectDestroyed.
LifetimeInv ==
    /\ LoopDiscipline
    /\ \A c \in Conns : /\ NotYetPolled(c)
                        /\ HeldWhileOpen(c)
                        /\ OnItsWayOut(c)
                        /\ OnlyClosedRemoved(c)
                        /\ CloseIsComing(c)

\* A sendInLoop functor that is about to run refers to an existing connection.
\* It does not hold: the functor is bound to a raw pointer, and the sender may
\* hold the last shared_ptr.
SendTargetAlive ==
    \A l \in Loops : functors[l] # <<>> => Alive(Head(functors[l]).conn)

\* Every closed connection is eventually destroyed, and every accepted one
\* eventually leaves kConnecting.
ClosedIsDestroyed == \A c \in Conns : m_state[c] = "kDisconnected" ~> Destroyed(c)
AcceptedIsEstablished == \A c \in Conns : m_state[c] = "kConnecting" ~> m_state[c] # "kConnecting"

\* A message on its way to a connection: a send in progress, or its functor.
OnItsWay(c, msg) ==
    \E l \in Loops : \/ sending[l] = [conn |-> c, msg |-> msg]
                    \/ Has(m_pendingFunctors[l], RawSend(c, msg))
                    \/ Has(functors[l], RawSend(c, msg))

\* A message sent from another thread eventually reaches the output of its
\* connection, unless that is closed or its socket has failed by then.
SentArrives ==
    \A c \in Conns, msg \in Msg :
        OnItsWay(c, msg) ~> \/ Has(output[c], msg)
                           \/ m_state[c] = "kDisconnected"
                           \/ c \in faulted
=============================================================================
