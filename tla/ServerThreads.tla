---------------------------- MODULE ServerThreads ----------------------------
(***************************************************************************)
(* How a TcpServer starts, accepts and stops: TcpServer::start and stop,   *)
(* EventLoopThreadPool, EventLoopThread, EventLoop::loop and quit, and the *)
(* Acceptor with its spare descriptor.  One main thread, a pool of I/O     *)
(* threads whose EventLoop is a local variable of the thread function: the *)
(* loop is gone when the thread has ended.  Connections appear only as     *)
(* far as start and stop reach them; module TcpServer has the rest.        *)
(***************************************************************************)
EXTENDS Naturals, Sequences, FiniteSets

CONSTANTS Clients,      \* clients, and the connections made for them
          NumThreads,   \* m_numThreads
          MaxStarts,    \* bound on calls of TcpServer::start
          MaxFds,       \* descriptors left for connections, spare and others
          MaxOthers     \* bound on descriptors taken by other code

ASSUME ThreadsAssumption == NumThreads \in Nat \ {0} /\ MaxStarts \in Nat
ASSUME FdsAssumption == MaxFds \in Nat \ {0} /\ MaxOthers \in Nat

VARIABLES
  main,            \* where the main thread is
  m_started,       \* TcpServer::m_started
  starts,          \* calls of start so far
  m_loops,         \* EventLoopThreadPool::m_loops (m_threads is the same list)
  m_next,          \* EventLoopThreadPool::m_next
  joined,          \* threads the present stop has joined
  todo,            \* entries of m_connections the present stop has not reached
  m_listenning,    \* Acceptor::m_listenning
  m_idleFd,        \* does the acceptor hold its spare descriptor?
  others,          \* descriptors held by other code
  stolen,          \* history: other code took one while the spare was given up
  client,          \* what has become of each client
  m_connections,   \* entries that own their connection
  emptied,         \* entries stop has reset
  m_state, ioLoop, \* TcpConnection::m_state, m_loop
  removals,        \* removeConnectionInLoop functors of the main loop
  pending,         \* functors of each I/O loop
  thread,          \* where each I/O thread is
  m_loop,          \* the threads that have published their loop
  m_quit,          \* EventLoop::m_quit of each thread
  given            \* history: connections given to each loop

poolVars == <<m_started, starts, m_loops, m_next, given>>
fdVars == <<m_idleFd, others, stolen>>
connVars == <<m_connections, emptied, m_state, ioLoop, removals, pending>>
threadVars == <<thread, m_loop, m_quit>>
vars == <<main, poolVars, joined, todo, m_listenning, fdVars, client, connVars, threadVars>>

\* one EventLoopThread object for each thread of each start
Threads == 1..(NumThreads * MaxStarts)

Functors == [fn : {"connectEstablished", "connectDestroyed"}, conn : Clients]

TypeOK ==
  /\ main \in {"poll", "starting", "testing", "waiting", "full", "refusing", "reopening",
               "stopping", "quitting", "waking", "joining", "crashed"}
  /\ m_started \in BOOLEAN
  /\ starts \in 0..MaxStarts
  /\ m_loops \in Seq(Threads) /\ m_next \in Nat /\ joined \in 0..NumThreads
  /\ todo \subseteq Clients
  /\ m_listenning \in BOOLEAN /\ m_idleFd \in BOOLEAN /\ stolen \in BOOLEAN
  /\ others \in 0..MaxOthers
  /\ client \in [Clients -> {"away", "waiting", "accepted", "refused"}]
  /\ m_connections \subseteq Clients /\ emptied \subseteq Clients
  /\ m_state \in [Clients -> {"none", "kConnecting", "kConnected", "kDisconnected"}]
  /\ ioLoop \in [Clients -> Threads \cup {0}]
  /\ removals \in Seq(Clients) /\ pending \in [Threads -> Seq(Functors)]
  /\ thread \in [Threads -> {"none", "made", "ready", "test", "polling", "left", "ended"}]
  /\ m_loop \subseteq Threads /\ m_quit \in [Threads -> BOOLEAN]
  /\ given \in [Threads -> Nat]

Init ==
  /\ main = "poll" /\ m_started = FALSE /\ starts = 0 /\ m_loops = <<>> /\ m_next = 0 /\ joined = 0 /\ todo = {}
  /\ m_listenning = FALSE /\ m_idleFd = TRUE /\ others = 0 /\ stolen = FALSE
  /\ client = [c \in Clients |-> "away"]
  /\ m_connections = {} /\ emptied = {}
  /\ m_state = [c \in Clients |-> "none"] /\ ioLoop = [c \in Clients |-> 0]
  /\ removals = <<>> /\ pending = [t \in Threads |-> <<>>]
  /\ thread = [t \in Threads |-> "none"] /\ m_loop = {}
  /\ m_quit = [t \in Threads |-> FALSE] /\ given = [t \in Threads |-> 0]

-----------------------------------------------------------------------------
(***************************************************************************)
(* Descriptors.  A connection has one as long as something owns it: its    *)
(* entry, or a functor.                                                    *)
(***************************************************************************)
Owned(c) ==
  \/ c \in m_connections
  \/ \E i \in DOMAIN removals : removals[i] = c
  \/ \E t \in Threads : \E i \in DOMAIN pending[t] : pending[t][i].conn = c

Used == Cardinality({c \in Clients : Owned(c)}) + others + (IF m_idleFd THEN 1 ELSE 0)

FdFree == Used < MaxFds

\* Other code of the process opens and closes files and sockets.
OtherOpens ==
  /\ FdFree /\ others < MaxOthers
  /\ others' = others + 1
  /\ stolen' = (stolen \/ main \in {"full", "refusing", "reopening"})
  /\ UNCHANGED <<main, poolVars, joined, todo, m_listenning, m_idleFd, client, connVars,
                 threadVars>>

OtherCloses ==
  /\ others > 0
  /\ others' = others - 1
  /\ UNCHANGED <<main, poolVars, joined, todo, m_listenning, m_idleFd, stolen, client,
                 connVars, threadVars>>

ClientConnects(c) ==
  /\ client[c] = "away" /\ m_listenning
  /\ client' = [client EXCEPT ![c] = "waiting"]
  /\ UNCHANGED <<main, poolVars, joined, todo, m_listenning, fdVars, connVars, threadVars>>

-----------------------------------------------------------------------------
(***************************************************************************)
(* TcpServer::start: a new pool, its threads one by one, then listen.      *)
(***************************************************************************)
StartServer ==
  /\ main = "poll" /\ ~m_started /\ starts < MaxStarts
  /\ main' = "starting" /\ starts' = starts + 1
  /\ m_loops' = <<>> /\ m_next' = 0
  /\ UNCHANGED <<m_started, given, joined, todo, m_listenning, fdVars, client, connVars, threadVars>>

\* the EventLoopThread startLoop is called on
Starting == (starts - 1) * NumThreads + Len(m_loops) + 1

StartThread ==
  /\ main = "starting" /\ Len(m_loops) < NumThreads
  /\ main' = "testing"
  /\ thread' = [thread EXCEPT ![Starting] = "made"]
  /\ UNCHANGED <<poolVars, joined, todo, m_listenning, fdVars, client, connVars, m_loop,
                 m_quit>>

\* startLoop, with the mutex: it returns the loop, or begins to wait and
\* gives the mutex up in the same step
TestLoop ==
  /\ main = "testing"
  /\ IF Starting \in m_loop
     THEN main' = "starting" /\ m_loops' = Append(m_loops, Starting)
     ELSE main' = "waiting" /\ UNCHANGED m_loops
  /\ UNCHANGED <<m_started, starts, m_next, given, joined, todo, m_listenning, fdVars, client,
                 connVars, threadVars>>

\* Fault: startLoop waits once (if instead of while).
SpuriousWakeupReturns ==
  /\ main = "waiting"
  /\ main' = "starting" /\ m_loops' = Append(m_loops, Starting)
  /\ UNCHANGED <<m_started, starts, m_next, given, joined, todo, m_listenning, fdVars, client,
                 connVars, threadVars>>

\* m_cond.wait may return although nobody has notified
SpuriousWakeup ==
  /\ main = "waiting"
  /\ main' = "testing"
  /\ UNCHANGED <<poolVars, joined, todo, m_listenning, fdVars, client, connVars, threadVars>>

Listen ==
  /\ main = "starting" /\ Len(m_loops) = NumThreads
  /\ main' = "poll" /\ m_started' = TRUE /\ m_listenning' = TRUE
  /\ UNCHANGED <<starts, m_loops, m_next, given, joined, todo, fdVars, client, connVars, threadVars>>

-----------------------------------------------------------------------------
(***************************************************************************)
(* Acceptor::handleRead and TcpServer::newConnection.  Nothing stops the   *)
(* acceptor: after stop it goes on, with a pool of loops that are gone.    *)
(***************************************************************************)
queueInLoop(t, name, c) ==
  pending' = [pending EXCEPT ![t] = Append(@, [fn |-> name, conn |-> c])]

\* Fault: the index turns round one loop early.
NextIndexEarly == IF m_next + 1 >= Len(m_loops) - 1 THEN 0 ELSE m_next + 1

NextIndex == IF m_next + 1 >= Len(m_loops) THEN 0 ELSE m_next + 1

newConnection(c, t) ==
  /\ m_next' = NextIndex
  /\ given' = [given EXCEPT ![t] = @ + 1]
  /\ client' = [client EXCEPT ![c] = "accepted"]
  /\ m_connections' = m_connections \cup {c}
  /\ m_state' = [m_state EXCEPT ![c] = "kConnecting"]
  /\ ioLoop' = [ioLoop EXCEPT ![c] = t]
  /\ IF thread[t] = "ended"
     THEN main' = "crashed" /\ UNCHANGED pending
     ELSE main' = main /\ queueInLoop(t, "connectEstablished", c)

Accept(c) ==
  /\ main = "poll" /\ client[c] = "waiting" /\ FdFree
  /\ newConnection(c, m_loops[m_next + 1])
  /\ UNCHANGED <<m_started, starts, m_loops, joined, todo, m_listenning, fdVars, emptied, removals,
                 threadVars>>

\* EMFILE: the spare descriptor is closed ...
Full(c) ==
  /\ main = "poll" /\ client[c] = "waiting" /\ ~FdFree
  /\ main' = "full" /\ m_idleFd' = FALSE
  /\ UNCHANGED <<poolVars, joined, todo, m_listenning, others, stolen, client, connVars,
                 threadVars>>

\* ... used to accept the client, unless somebody else has taken it ...
AcceptSpare ==
  /\ main = "full"
  /\ main' = "refusing"
  /\ m_idleFd' = FdFree
  /\ IF FdFree
     THEN \E c \in Clients : client[c] = "waiting" /\ client' = [client EXCEPT ![c] = "refused"]
     ELSE UNCHANGED client
  /\ UNCHANGED <<poolVars, joined, todo, m_listenning, others, stolen, connVars, threadVars>>

\* ... closed again ...
CloseSpare ==
  /\ main = "refusing"
  /\ main' = "reopening" /\ m_idleFd' = FALSE
  /\ UNCHANGED <<poolVars, joined, todo, m_listenning, others, stolen, client, connVars,
                 threadVars>>

\* Fault: the spare descriptor is not opened again.
LeaveSpareClosed == FALSE

SpareOpened == FdFree

\* ... and opened again.
OpenSpare ==
  /\ main = "reopening"
  /\ main' = "poll"
  /\ m_idleFd' = SpareOpened
  /\ UNCHANGED <<poolVars, joined, todo, m_listenning, others, stolen, client, connVars,
                 threadVars>>

(***************************************************************************)
(* TcpServer::removeConnectionInLoop.  An entry that stop has emptied is   *)
(* erased all the same, and its loop used.                                 *)
(***************************************************************************)
RemoveConnection ==
  LET c == Head(removals) IN
  /\ main = "poll" /\ removals # <<>>
  /\ removals' = Tail(removals)
  /\ m_connections' = m_connections \ {c} /\ emptied' = emptied \ {c}
  /\ IF c \notin m_connections \cup emptied
     THEN UNCHANGED <<main, pending>>
     ELSE IF thread[ioLoop[c]] = "ended"
          THEN main' = "crashed" /\ UNCHANGED pending
          ELSE main' = main /\ queueInLoop(ioLoop[c], "connectDestroyed", c)
  /\ UNCHANGED <<poolVars, joined, todo, m_listenning, fdVars, client, m_state, ioLoop,
                 threadVars>>

-----------------------------------------------------------------------------
(***************************************************************************)
(* TcpServer::stop: connectDestroyed for every connection, then quit and   *)
(* join the threads one by one.  The entries stay; a later stop would use  *)
(* their null pointers.                                                    *)
(***************************************************************************)
StopServer ==
  /\ main = "poll" /\ m_started
  /\ main' = "stopping" /\ todo' = m_connections \cup emptied /\ joined' = 0
  /\ UNCHANGED <<poolVars, m_listenning, fdVars, client, connVars, threadVars>>

StopConnection(c) ==
  /\ main = "stopping" /\ c \in todo
  /\ todo' = todo \ {c}
  /\ IF c \in emptied
     THEN main' = "crashed" /\ UNCHANGED <<m_connections, emptied, pending>>
     ELSE /\ main' = main
          /\ m_connections' = m_connections \ {c} /\ emptied' = emptied \cup {c}
          /\ queueInLoop(ioLoop[c], "connectDestroyed", c)
  /\ UNCHANGED <<poolVars, joined, m_listenning, fdVars, client, m_state, ioLoop, removals,
                 threadVars>>

StopThreads ==
  /\ main = "stopping" /\ todo = {}
  /\ main' = "quitting"
  /\ UNCHANGED <<poolVars, joined, todo, m_listenning, fdVars, client, connVars, threadVars>>

Stopping == m_loops[joined + 1]

\* Fault: a loop that has been published is not told to quit.
quitUnpublished(t) == m_quit' = [m_quit EXCEPT ![t] = @ \/ t \notin m_loop]

\* EventLoop::quit through m_loop, if it is not NULL: first the flag ...
quit(t) == m_quit' = [m_quit EXCEPT ![t] = @ \/ t \in m_loop]

QuitThread ==
  /\ main = "quitting" /\ joined < Len(m_loops)
  /\ main' = IF Stopping \in m_loop THEN "waking" ELSE "joining"
  /\ quit(Stopping)
  /\ UNCHANGED <<poolVars, joined, todo, m_listenning, fdVars, client, connVars, thread,
                 m_loop>>

\* ... then wakeup, on a loop that may have seen the flag and be gone: whether
\* the use of the dead object ends the process is not defined
WakeUp ==
  /\ main = "waking"
  /\ main' \in {"joining"} \cup (IF thread[Stopping] = "ended" THEN {"crashed"} ELSE {})
  /\ UNCHANGED <<poolVars, joined, todo, m_listenning, fdVars, client, connVars, threadVars>>

JoinThread ==
  /\ main = "joining" /\ thread[Stopping] = "ended"
  /\ main' = "quitting" /\ joined' = joined + 1
  /\ UNCHANGED <<poolVars, todo, m_listenning, fdVars, client, connVars, threadVars>>

Stopped ==
  /\ main = "quitting" /\ joined = Len(m_loops)
  /\ main' = "poll" /\ m_started' = FALSE /\ joined' = 0
  /\ UNCHANGED <<starts, m_loops, m_next, given, todo, m_listenning, fdVars, client, connVars, threadVars>>

-----------------------------------------------------------------------------
(***************************************************************************)
(* EventLoopThread::threadFunc and EventLoop::loop.                        *)
(***************************************************************************)
\* Fault: the thread does not notify.
notifyNobody(t) == main' = main

\* m_cond.notify_all of the EventLoopThread: a notification wakes who is waiting
\* and is not remembered
notify_all(t) == main' = IF main = "waiting" /\ t = Starting THEN "testing" ELSE main

\* with the mutex
Publish(t) ==
  /\ thread[t] = "made"
  /\ thread' = [thread EXCEPT ![t] = "ready"] /\ m_loop' = m_loop \cup {t}
  /\ notify_all(t)
  /\ UNCHANGED <<poolVars, joined, todo, m_listenning, fdVars, client, connVars, m_quit>>

\* loop() begins by resetting m_quit: a quit that came before is lost
EnterLoop(t) ==
  /\ thread[t] = "ready"
  /\ thread' = [thread EXCEPT ![t] = "test"] /\ m_quit' = [m_quit EXCEPT ![t] = FALSE]
  /\ UNCHANGED <<main, poolVars, joined, todo, m_listenning, fdVars, client, connVars, m_loop>>

TestQuit(t) ==
  /\ thread[t] = "test"
  /\ thread' = [thread EXCEPT ![t] = IF m_quit[t] THEN "left" ELSE "polling"]
  /\ UNCHANGED <<main, poolVars, joined, todo, m_listenning, fdVars, client, connVars,
                 m_loop, m_quit>>

\* the peer closes: TcpConnection::handleClose, TcpServer::removeConnection
HandleClose(t, c) ==
  /\ thread[t] = "polling" /\ ioLoop[c] = t /\ m_state[c] = "kConnected"
  /\ m_state' = [m_state EXCEPT ![c] = "kDisconnected"]
  /\ removals' = Append(removals, c)
  /\ UNCHANGED <<main, poolVars, joined, todo, m_listenning, fdVars, client, m_connections,
                 emptied, ioLoop, pending, threadVars>>

Queued(t, name, c) == \E i \in DOMAIN pending[t] : pending[t][i] = [fn |-> name, conn |-> c]

\* doOtherTasks; connectEstablished always comes before connectDestroyed
DoOtherTasks(t) ==
  /\ thread[t] = "polling"
  /\ thread' = [thread EXCEPT ![t] = "test"]
  /\ m_state' = [c \in Clients |->
       CASE Queued(t, "connectDestroyed", c) -> "kDisconnected"
         [] Queued(t, "connectEstablished", c) /\ ~Queued(t, "connectDestroyed", c) -> "kConnected"
         [] OTHER -> m_state[c]]
  /\ pending' = [pending EXCEPT ![t] = <<>>]
  /\ UNCHANGED <<main, poolVars, joined, todo, m_listenning, fdVars, client, m_connections,
                 emptied, ioLoop, removals, m_loop, m_quit>>

\* m_loop = NULL; the loop is destroyed with the functors it has not run
EndThread(t) ==
  /\ thread[t] = "left"
  /\ thread' = [thread EXCEPT ![t] = "ended"] /\ m_loop' = m_loop \ {t}
  /\ pending' = [pending EXCEPT ![t] = <<>>]
  /\ UNCHANGED <<main, poolVars, joined, todo, m_listenning, fdVars, client, m_connections,
                 emptied, m_state, ioLoop, removals, m_quit>>

-----------------------------------------------------------------------------
MainStep ==
  \/ StartThread \/ TestLoop \/ Listen
  \/ \E c \in Clients : Accept(c) \/ Full(c) \/ StopConnection(c)
  \/ AcceptSpare \/ CloseSpare \/ OpenSpare \/ RemoveConnection
  \/ StopThreads \/ QuitThread \/ WakeUp \/ JoinThread \/ Stopped

LoopStep(t) ==
  Publish(t) \/ EnterLoop(t) \/ TestQuit(t) \/ DoOtherTasks(t) \/ EndThread(t)

Next ==
  \/ MainStep \/ StartServer \/ StopServer \/ SpuriousWakeup
  \/ \E t \in Threads : LoopStep(t) \/ \E c \in Clients : HandleClose(t, c)
  \/ \E c \in Clients : ClientConnects(c)
  \/ OtherOpens \/ OtherCloses

\* Threads are scheduled; nobody has to start, stop, connect or disconnect, and
\* no wait has to end without a notification.
Fairness == WF_vars(MainStep) /\ \A t \in Threads : WF_vars(LoopStep(t))

Spec == Init /\ [][Next]_vars /\ Fairness

-----------------------------------------------------------------------------
(***************************************************************************)
(* While the server runs, the pool has all its loops, and each is there    *)
(* and not leaving: startLoop returns only what the thread has published,  *)
(* so newConnection and removeConnectionInLoop never meet a null or a      *)
(* destroyed loop before stop.                                             *)
(***************************************************************************)
LoopsAlive ==
  m_started /\ main \notin {"quitting", "waking", "joining", "crashed"} =>
    /\ Len(m_loops) = NumThreads
    /\ \A i \in DOMAIN m_loops :
         m_loops[i] \in m_loop /\ thread[m_loops[i]] \in {"ready", "test", "polling"}

(***************************************************************************)
(* getNextLoop spreads connections evenly: the loops of a pool never       *)
(* differ by more than one, across refused clients and restarts.           *)
(***************************************************************************)
Balanced ==
  \A i, j \in DOMAIN m_loops :
     Len(m_loops) = NumThreads => given[m_loops[i]] <= given[m_loops[j]] + 1

(***************************************************************************)
(* start returns: whichever of the new thread and startLoop comes first,   *)
(* the notification is not missed.  A stop that finds every loop in its    *)
(* while returns, unless it meets an entry an earlier stop has emptied or  *)
(* calls wakeup on a loop that has already seen the flag and gone          *)
(* (EventLoop.cpp:143-145).  StopReturns is about the other stops.         *)
(***************************************************************************)
Running == \A i \in DOMAIN m_loops : thread[m_loops[i]] \in {"test", "polling"}

StartAndStopEnd ==
  /\ main = "starting" ~> m_started
  /\ (main = "stopping" /\ Running) ~> main = "crashed" \/ ~m_started

(***************************************************************************)
(* quit ends its loop (EventLoop.h:44, "Quits loop."), so stop, which      *)
(* joins every thread after quit, returns.  Does not hold: loop() resets   *)
(* m_quit when it begins (EventLoop.cpp:99), after the thread has          *)
(* published its loop; a quit in between is lost, and join waits for ever. *)
(***************************************************************************)
StopReturns == main = "stopping" ~> main = "crashed" \/ ~m_started

(***************************************************************************)
(* A client that connects is accepted or refused, also when descriptors    *)
(* have run out, as long as nobody takes the spare one in the moments it   *)
(* is given up, and the server is not stopped.                             *)
(***************************************************************************)
EveryoneAnswered ==
  \A c \in Clients :
     client[c] = "waiting" ~>
       \/ client[c] \in {"accepted", "refused"}
       \/ stolen
       \/ ~m_started \/ main \in {"stopping", "quitting", "waking", "joining", "crashed"}

=============================================================================
