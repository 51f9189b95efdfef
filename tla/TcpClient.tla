------------------------------- MODULE TcpClient -------------------------------
(***************************************************************************)
(* net/Connector and net/TcpClient: one loop thread that makes a           *)
(* connection, loses it and makes it again, and another thread that calls  *)
(* connect, disconnect and stop.  A file descriptor stands for the socket  *)
(* and for the Channel or TcpConnection made for it; descriptors are not   *)
(* reused here.                                                            *)
(***************************************************************************)
EXTENDS Naturals, Sequences, FiniteSets

CONSTANTS MaxFds,    \* bound: sockets created
          MaxCalls   \* bound: calls of connect, disconnect and stop

ASSUME ClientAssumption == MaxFds \in Nat /\ MaxCalls \in Nat

None == 0
Fds == 1..MaxFds

VARIABLES m_retry,      \* set once, before connect
          clientConnect,  \* TcpClient::m_connect
          m_connect,    \* Connector::m_connect
          m_state,      \* of the Connector
          m_channel,    \* descriptor of the Connector's channel, or None
          polled,       \* channels of Connectors in the poller
          m_connection, \* descriptor of the TcpConnection, or None
          open,         \* open descriptors
          pc,           \* of the loop: "poll", "tasks", "restart" or "start"
          functors, batch,
          caller,       \* of the other thread: "idle", or how far a call is
          made,         \* sockets created
          calls,
          crashed,      \* a destroyed channel was used
          late          \* history: sockets created with a resetChannel on its way

vars == <<m_retry, clientConnect, m_connect, m_state, m_channel, polled, m_connection, open, pc,
          functors, batch, caller, made, calls, crashed, late>>
connectorVars == <<m_connect, m_state, m_channel, polled, open, made, crashed, late>>

Functor(name, fd) == [name |-> name, fd |-> fd]

Init ==
  /\ m_retry \in BOOLEAN
  /\ clientConnect = TRUE /\ m_connect = FALSE
  /\ m_state = "kDisconnected"
  /\ m_channel = None /\ polled = {}
  /\ m_connection = None
  /\ open = {}
  /\ pc = "poll" /\ functors = <<>> /\ batch = <<>>
  /\ caller = "idle" /\ made = 0 /\ calls = 0
  /\ crashed = FALSE /\ late = {}

(***************************************************************************)
(* Connector.  The functors it queues go behind those already waiting.     *)
(***************************************************************************)
ResetOnItsWay == \E i \in DOMAIN (batch \o functors) : (batch \o functors)[i].name = "resetChannel"

\* connecting(): the Channel replaces the one before, if it is still there.  The
\* result of enableWriting, which registers the new one, is ignored.
connecting(fd) ==
  /\ m_state' = "kConnecting"
  /\ m_channel' = fd
  /\ polled' \in {polled, polled \cup {fd}}
  /\ open' = open \cup {fd}
  /\ late' = IF ResetOnItsWay THEN late \cup {fd} ELSE late

\* connect(): a socket that cannot connect is closed again (at once, or by
\* retry, which sets no timer)
connect ==
  /\ made < MaxFds /\ made' = made + 1
  /\ \/ connecting(made')
     \/ m_state' = "kDisconnected" /\ UNCHANGED <<m_channel, polled, open, late>>

\* Fault: an attempt under way does not hold up another.
startInLoopAlways(wanted) ==
  IF wanted THEN connect
  ELSE UNCHANGED <<m_state, m_channel, polled, open, made, late>>

startInLoop(wanted) ==
  IF m_state = "kDisconnected" /\ wanted THEN connect
  ELSE UNCHANGED <<m_state, m_channel, polled, open, made, late>>

\* removeAndResetChannel, then retry: the socket is closed
GiveUp ==
  /\ polled' = polled \ {m_channel}
  /\ open' = open \ {m_channel}
  /\ m_state' = "kDisconnected"

stopInLoop ==
  IF m_state # "kConnecting" THEN UNCHANGED <<polled, open, m_state, crashed, functors>>
  ELSE IF m_channel = None   \* resetChannel came late
  THEN crashed' = TRUE /\ UNCHANGED <<polled, open, m_state, functors>>
  ELSE GiveUp /\ functors' = Append(functors, Functor("resetChannel", None)) /\ UNCHANGED crashed

\* SO_ERROR or a connection to itself: retry; else the client gets the socket,
\* unless stop was called
handleWrite(ok) ==
  IF ~ok THEN GiveUp /\ UNCHANGED m_connection
  ELSE /\ polled' = polled \ {m_channel}
       /\ m_state' = "kConnected"
       /\ IF m_connect THEN m_connection' = m_channel /\ UNCHANGED open
          ELSE open' = open \ {m_channel} /\ UNCHANGED m_connection

(***************************************************************************)
(* The loop: one event, then the functors queued by then.                  *)
(***************************************************************************)
\* after the event, with the functors it has queued
ToTasks(fs) == pc' = "tasks" /\ batch' = functors \o fs /\ functors' = <<>>

\* handleError is handleWrite with an error
ConnectorEvent ==
  /\ ~crashed /\ pc = "poll"
  /\ \E fd \in polled :
       IF fd # m_channel
       THEN crashed' = TRUE
            /\ UNCHANGED <<polled, open, m_state, m_connection, pc, batch, functors>>
       ELSE /\ \E ok \in BOOLEAN : handleWrite(ok)
            /\ ToTasks(<<Functor("resetChannel", None)>>)
            /\ UNCHANGED crashed
  /\ UNCHANGED <<m_retry, clientConnect, m_connect, m_channel, caller, made, calls, late>>

\* the connection ends: TcpClient::removeConnection, up to restart
removeConnection ==
  /\ ~crashed /\ pc = "poll" /\ m_connection # None
  /\ m_connection' = None
  /\ IF m_retry /\ clientConnect
     THEN /\ pc' = "restart"
          /\ functors' = Append(functors, Functor("connectDestroyed", m_connection))
          /\ UNCHANGED batch
     ELSE ToTasks(<<Functor("connectDestroyed", m_connection)>>)
  /\ UNCHANGED <<m_retry, clientConnect, connectorVars, caller, calls>>

\* connectEstablished fails inside newConnection: the connection ends before
\* handleWrite returns
NewConnectionFails ==
  /\ ~crashed /\ pc = "poll" /\ m_connect
  /\ m_state = "kConnecting" /\ m_channel \in polled
  /\ polled' = polled \ {m_channel}
  /\ m_state' = "kConnected"
  /\ LET fs == <<Functor("resetChannel", None), Functor("connectDestroyed", m_channel)>> IN
     IF m_retry /\ clientConnect
     THEN pc' = "restart" /\ functors' = functors \o fs /\ UNCHANGED batch
     ELSE ToTasks(fs)
  /\ UNCHANGED <<m_retry, clientConnect, m_connect, m_channel, m_connection, open, caller, made,
                 calls, crashed, late>>

restart ==
  /\ ~crashed /\ pc = "restart"
  /\ m_state' = "kDisconnected" /\ m_connect' = TRUE
  /\ pc' = "start"
  /\ UNCHANGED <<m_retry, clientConnect, m_channel, polled, m_connection, open, functors, batch,
                 caller, made, calls, crashed, late>>

\* ... and calls startInLoop; a stop may have come between
RestartStarts ==
  /\ ~crashed /\ pc = "start"
  /\ startInLoop(m_connect)
  /\ ToTasks(<<>>)
  /\ UNCHANGED <<m_retry, clientConnect, m_connect, m_connection, caller, calls, crashed>>

WakeUp ==
  /\ ~crashed /\ pc = "poll" /\ functors # <<>>
  /\ ToTasks(<<>>)
  /\ UNCHANGED <<m_retry, clientConnect, connectorVars, m_connection, caller, calls>>

RunTask ==
  /\ ~crashed /\ pc = "tasks" /\ batch # <<>>
  /\ batch' = Tail(batch)
  /\ \/ /\ Head(batch).name = "startInLoop"
        /\ startInLoop(m_connect)
        /\ UNCHANGED <<functors, crashed>>
     \/ /\ Head(batch).name = "stopInLoop"
        /\ stopInLoop
        /\ UNCHANGED <<m_channel, made, late>>
     \/ /\ Head(batch).name = "resetChannel"
        /\ m_channel' = None
        /\ UNCHANGED <<m_state, polled, open, made, functors, crashed, late>>
     \/ \* the last reference goes; the socket is closed
        /\ Head(batch).name = "connectDestroyed"
        /\ open' = open \ {Head(batch).fd}
        /\ UNCHANGED <<m_state, m_channel, polled, made, functors, crashed, late>>
  /\ UNCHANGED <<m_retry, clientConnect, m_connect, m_connection, pc, caller, calls>>

EndTasks ==
  /\ ~crashed /\ pc = "tasks" /\ batch = <<>>
  /\ pc' = "poll"
  /\ UNCHANGED <<m_retry, clientConnect, connectorVars, m_connection, functors, batch, caller,
                 calls>>

(***************************************************************************)
(* The other thread: the client's flag, the Connector's, the functor.      *)
(***************************************************************************)
CallConnect ==
  /\ ~crashed /\ caller = "idle" /\ calls < MaxCalls
  /\ clientConnect' = TRUE
  /\ caller' = "connect" /\ calls' = calls + 1
  /\ UNCHANGED <<m_retry, connectorVars, m_connection, pc, functors, batch>>

CallStop ==
  /\ ~crashed /\ caller = "idle" /\ calls < MaxCalls
  /\ clientConnect' = FALSE
  /\ caller' = "stop" /\ calls' = calls + 1
  /\ UNCHANGED <<m_retry, connectorVars, m_connection, pc, functors, batch>>

\* Connector::start and stop
CallSets ==
  /\ ~crashed /\ caller \in {"connect", "stop"}
  /\ m_connect' = (caller = "connect")
  /\ caller' = IF caller = "connect" THEN "starting" ELSE "stopping"
  /\ UNCHANGED <<m_retry, clientConnect, m_state, m_channel, polled, m_connection, open, pc,
                 functors, batch, made, calls, crashed, late>>

CallQueues ==
  /\ ~crashed /\ caller \in {"starting", "stopping"}
  /\ functors' = Append(functors, Functor(IF caller = "stopping" THEN "stopInLoop"
                                          ELSE "startInLoop", None))
  /\ caller' = "idle"
  /\ UNCHANGED <<m_retry, clientConnect, connectorVars, m_connection, pc, batch, calls>>

\* the connection's shutdown makes the peer close (removeConnection); the
\* Connector is not told
disconnect ==
  /\ ~crashed /\ caller = "idle" /\ calls < MaxCalls
  /\ clientConnect' = FALSE /\ calls' = calls + 1
  /\ UNCHANGED <<m_retry, connectorVars, m_connection, pc, functors, batch, caller>>

Next ==
  \/ ConnectorEvent \/ removeConnection \/ NewConnectionFails \/ restart \/ RestartStarts
  \/ WakeUp \/ RunTask \/ EndTasks
  \/ CallConnect \/ CallStop \/ CallSets \/ CallQueues \/ disconnect

Spec == Init /\ [][Next]_vars

(***************************************************************************)
(* Properties                                                              *)
(***************************************************************************)
Held ==   \* by the Channel of the Connector's attempt and by the client's connection
  (IF m_state = "kConnecting" /\ m_channel # None THEN {m_channel} ELSE {})
  \cup (IF m_connection # None THEN {m_connection} ELSE {})

Dying ==
  LET fs == batch \o functors IN
  {fs[i].fd : i \in {j \in DOMAIN fs : fs[j].name = "connectDestroyed"}}

\* However connect, disconnect and stop fall between the events of the loop, a
\* client has at most one attempt or one connection at a time, no socket of theirs
\* is closed, and every open socket has an owner: the attempt's Channel, the
\* connection, or the functor that destroys a connection (retry, stop, restart,
\* removeConnection).  The only sockets that may lose their owner, and the only
\* cause of a use of a destroyed Channel, are attempts begun while the resetChannel
\* of an earlier one was still queued.
SocketsAccounted ==
  /\ crashed => late # {}
  /\ ~crashed => /\ Cardinality(Held) <= 1
                 /\ Held \cup Dying \subseteq open
                 /\ open \ late \subseteq Held \cup Dying

\* Does not hold: a connect that follows a stop in the same batch, or the restart
\* after a failed connectEstablished, begins an attempt before resetChannel has run,
\* which then destroys the new attempt's Channel.
\* connecting finds no Channel (its commented-out assertion): whenever startInLoop
\* is about to connect, that of the last attempt is gone.
ChannelFree ==
  /\ ~crashed /\ m_state = "kDisconnected" /\ m_connect
  /\ pc = "start" \/ (pc = "tasks" /\ batch # <<>> /\ Head(batch).name = "startInLoop")
  => m_channel = None

=============================================================================
