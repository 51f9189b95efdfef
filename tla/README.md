# A TLA+ verification of 414chatroom

414chatroom is a chat server in C++: a reactor library in the style of muduo
(`net/`), a session layer on top of it (`chatserversrc/`), a MySQL wrapper
(`mysqlapi/`, `mysqlmgr/`) and utilities (`base/`). These modules model the
server from start-up to the last byte of an answer, check it with TLC on small
instances and prove its central invariants with TLAPS for any number of clients
and threads. The repository has some 52,000 lines, of which all but 10,700 are
the vendored JSON and Redis libraries; the models are of the rest.

## The system

One *main loop* (an `EventLoop` in the main thread) owns the listening socket
and `TcpServer::m_connections`. Six *I/O loops*, one per thread, own the
connections: each `TcpConnection` belongs to one I/O loop for life. A loop
repeats: poll, `handleEvent` for each channel returned, then `doOtherTasks`,
which swaps the queue of pending functors out and runs it. Loops share nothing
but these queues, the session list (a mutex), Redis, and, without any lock,
the fields of connections and sessions.

| Component | State | Operations | Hard because |
|---|---|---|---|
| TcpServer, TcpConnection | `m_connections`, `m_state`, buffers | newConnection, connectEstablished, send, forceClose, handleRead/Write/Close/Error, removeConnectionInLoop, connectDestroyed | closed in one thread, forgotten in another, destroyed by whoever drops the last `shared_ptr`; five causes of closing may coincide |
| EventLoop | `m_pendingFunctors`, active channels, `m_quit` | loop, queueInLoop, runInLoop, doOtherTasks, quit, timers | batches swapped while others append; quit before loop |
| Channel, EPollPoller | interest set, index, fd map | update, remove, poll, handleEvent | raw pointers in the kernel and in the active list |
| EventLoopThread(Pool) | threads, loops, round-robin index | start, stop, getNextLoop | start-up handshake, lost quit |
| TimerQueue, Timer | timers by due time, repeat counts | addTimer, removeTimer, cancel, doTimer | timers added and removed from callbacks |
| ByteBuffer, ProtocolStream | indices, bytes | append, retrieve, makeSpace, 7-bit integers | boundaries |
| Acceptor, Connector, TcpClient | sockets, spare descriptor | listen, handleRead, connect, retry | descriptor exhaustion, retry |
| ChatServer | `m_sessions` | onConnected, onDisconnected, getSessions, getSessionByUserId | called from every loop |
| ChatSession, TcpSession | `m_userinfo`, `m_isLogin`, `weak_ptr` to the connection | onRead, process, login with kick, chat broadcast, queries | look-up and update not atomic, raw pointer in the message callback |
| MsgCacheManager, UserManager | the Redis list, the user cache | init from the database, addChatMsgToRedis, look-ups | a store may fail; restart |
| CDatabaseMysql, CMysqlManager | a MySQL connection | query, execute, create schema | reconnection |
| AsyncLog | a list, a writing thread | output, writeThreadProc, uninit | lost wake-up, no bound |

What makes each correct: a connection is reported up and down once, destroyed
only when closed, and its channel deregistered before that; messages of a
thread keep their order; the session list is the set of connections that are
up; a user has one session and a kicked one is offline; what is broadcast was
stored, and reaches everybody who is connected. The hazards are listed line by
line in `PROJECT.json`.

## Modules

* **TcpServer** models `net/TcpServer.cpp`, `TcpConnection.cpp` and the parts
  of `EventLoop`, `Channel` and `EPollPoller` they use. One action per handler;
  `LoopStep` is what a loop does by itself, `CallbackStep` what user code may
  do in a message callback. The variables keep the source's names. Reference
  counts are not state: `Alive(c)` says that a holder exists (an entry of
  `m_connections`, a functor bound to a `shared_ptr`, the local vector of
  `doOtherTasks`, a call in progress). `functors` and `kept` are that vector:
  the functors still to run and the connections held by those that have run,
  which go when the vector does. A send to another loop is two actions, the
  test of `m_state` and the queueing, because the other loop runs between them.
* **ChatServer** extends it with the session list and `ChatSession`. A session
  is named by its connection. `job[l]` is the place in `process` thread `l` has
  reached: login is look-up, kick, invalidate, record; chat is store, copy of
  the list, one send per session. `raced` is a history: the users of whom two
  logins have overlapped between look-up and record. The connection callback is
  part of the step of the loop that makes it (it runs inside
  `connectEstablished` or `handleClose`, and only the session list is visible to
  others in between).
* **AsyncLog** models `base/AsyncLog.cpp`: `Output`, `OutputBinary` and
  `SetLevel` are the callers' operations, `Fatal` is `output` at FATAL, taken
  apart because it uses the file without the mutex, `WriterStep` is
  `writeThreadProc`, `Uninit` the four steps of `uninit`. The mutex is held over
  more than one step only between the test of `m_bExit` and `wait`
  (`writer = "tested"`). `Length` gives each line its length, which `Write` adds
  to `m_nCurrentWrittenSize`; a line in a file is kept with the place it begins
  at. `accepted`, `printed` and `asked` are histories.
* **ServerThreads** models `TcpServer::start` and `stop`, EventLoopThreadPool,
  EventLoopThread, `EventLoop::loop` and `quit` and the Acceptor with its spare
  descriptor. `main` and `thread[t]` are the places the threads have reached; a
  loop is a local variable of its thread and is in `m_loop` from its publication
  to its end. `startLoop` tests, waits and is woken: a notification wakes who
  is waiting and is not remembered, and a wait may end without one. `m_quit` is
  reset by `loop`, after publication; `quit` sets it in one step and calls
  `wakeup` in another, between which the loop may see the flag and be gone.
  `main = "crashed"` is a use of a null or destroyed loop. Connections appear as
  far as start and stop reach them.
* **TimerQueue** models `net/TimerQueue.cpp`, `Timer` and the operations of
  EventLoop in front of them. The loop alternates `doTimer` (one action for each
  timer skipped, called or returned from), handlers and `doOtherTasks`; other
  threads queue functors. The moving and the copying overload of `addTimer` are
  told apart because they differ in the code. `ran`, `since`, `seen` and
  `removed` are histories: runs of a timer, when it was inserted or last resumed,
  the entries `doTimer` found and nobody has cancelled since, queued removals that
  have run.
* **ByteBuffer** and **ProtocolStream** are the two pure modules: buffers as
  records of bytes and indices, packages as bytes (`htonl`, 7-bit lengths of at
  most five groups). The sum of the groups is a `uint32_t` and wraps. Five bytes
  with the high bit make `read7BitEncoded` read on behind its buffer
  (`Overruns`): what it then returns is not defined, so `Readings` has the
  package refused or taken with any length that fits.
* **SessionStream** composes them into the bytes of one connection:
  `handleRead`, `ChatSession::onRead` with its framing, `send` from the loop and
  from another thread (test of `m_state`, then queueing), `sendInLoop`,
  `handleWrite`, `shutdown` from another thread (test, assignment, queueing),
  `handleClose`. The client's bytes are a script of packages; the kernel moves a
  piece or everything.
* **OrderedStream** is the abstract specification of the sending side: messages
  accepted one after the other are delivered in that order, whole, before the
  end of the stream. `SessionStream!Implements` is its specification under the
  mapping: the queue is the readable bytes of the output buffer, closing is
  `m_state # kConnected`, broken is a reset, a channel taken out of the poller
  or a dead process.
* **ChatStartup** models `main` up to the loop with CMysqlManager,
  CDatabaseMysql, UserManager and MsgCacheManager, over a database and a Redis
  list that outlive the process. Every call may fail and the process may die
  between any two steps and be started again.
* **TcpClient** models Connector and TcpClient: the loop thread, and another
  thread whose `connect` and `stop` are taken apart where the code writes the
  client's flag, the Connector's flag and the queue. A new attempt's Channel may
  fail to be registered, which the code ignores. `late` is a history: the
  attempts begun while the `resetChannel` of an earlier one was still queued.
* **MCTcpServer**, **MCChatServer**, **MCSessionStream**, **MCAsyncLog** give
  TLC the event masks, payloads, scripts, lengths of lines and symmetry sets.
  MCSessionStream also has TLC evaluate that the encodings round-trip at the
  boundaries of their lengths.
* **TcpServerProofs**, **ChatServerProofs**, **AsyncLogProofs**,
  **TimerQueueProofs**, **ServerThreadsProofs**, **ChatStartupProofs**,
  **TcpClientProofs** and **SessionStreamProofs** hold the theorems about the
  module they are named after (the last also those about ByteBuffer and
  ProtocolStream).

Operators commented `Fault:` are wrong versions of the definition after them;
putting one in its place must violate a property (`mutants` in `PROJECT.json`).

### Abstractions

* Payloads are labels. `sendInLoop` writes at once, buffers, or drops the
  message on EPIPE/ECONNRESET (`faulted`); the content of the buffer is not
  state, `output` is the history of what was accepted for the socket.
* The kernel reports any mask of `Reported` compatible with the interest set.
  The mask is chosen when `handleEvent` begins; interest can only have grown
  since the poll, so this adds behaviours and loses none.
* The order in which `epoll_wait` returns channels is arbitrary
  (`m_activeChannels` is a set).
* A poll that returns nothing is not a step of its own: a loop with functors
  goes on to `doOtherTasks`, one without stays. The wake-up descriptor only
  shortens a wait of at most `kPollTimeMs`.
* The acceptor's callback is `newConnection`, which `getNextLoop` may send to
  any I/O loop (a superset of the round robin).
* `m_state`, `userid` and `m_isLogin` are read and written without locks. They
  are aligned words; the model lets each access happen at any point between the
  others and does not model reordering within a thread.
* A package is a request or illegal. `Users` is the cache loaded at start-up; a
  name it lacks has userid 0 and an empty password, as in `onLoginResponse`.
* In `onDisconnected` the loop erases every session of the connection; the
  model erases one, which is the same because there is at most one
  (`SessionsMatchConnections`, proved).

* In ChatServer request bodies are well formed JSON: a malformed one makes
  `json::parse` throw, and nothing catches it (listed as a hazard). Malformed
  packages are SessionStream's.
* SessionStream: the session is not logged in, so that every request has the
  same answer; the connection outlives its callbacks. Both are what the other
  modules are about. A length that makes `std::string` throw ends the process
  (`aborted`). `m_state` is assigned without a lock, so `shutdown` may overwrite
  what `handleClose` has just written.
  A write on a sound socket may fail and close the connection. What is on the
  stack behind the buffer of `read7BitEncoded` has a byte without the high bit
  before the stack ends, so an overrun ends.
* TimerQueue: time is a natural number and passes while the loop polls or a
  callback runs; the loop goes round at least once per unit (`fresh`), which is
  what `BoundedWait` counts in. Addresses are not reused, as `removeTimer` deletes
  nothing before the queue dies. An iterator whose entry is gone ends the process.
* ServerThreads: `newConnection`, `removeConnectionInLoop` and `connectDestroyed`
  are one step each (their parts are TcpServer's). Other code takes and gives
  back descriptors at any time. A use of a destroyed loop may go unnoticed in
  `wakeup`; elsewhere it ends the process.
* ChatStartup: a table is absent, empty or full; a MySQL call is its outcome
  (done, failed, lost connection and reconnected or not). Reconnection after
  `mysql_close` uses the freed handle: it works or ends the process.
* TcpClient: a descriptor stands for the socket and what is built on it and is
  not reused. The destructor is left out.
* `TypeOK` of TimerQueue, ServerThreads, SessionStream and AsyncLog documents the
  variables; no run lists it (AsyncLog's is proved).
* TcpServer: descriptors are not reused, so `enableReading` does not fail because
  its descriptor is still in `m_channels` (`EpollPoller.cpp:106`).
* AsyncLog: of the text of a line only its length is kept (any positive number,
  the same each time the line is written); a file is its base name and the second of
  its creation, read when it is opened; a call through a closed `FILE` fails or
  ends the process; `init` and `uninit` are called by one thread and `init` not
  during a FATAL line. The console output of FATAL lines is left out.

## Runs

| Run | Instance | Shows |
|---|---|---|
| `tcp_server` | 2 connections, 2 I/O loops, 5 masks, 2 sends per thread; 890,000 states | one callback each way, no dangling channel, dead branches are dead, sender order, the inductive invariant |
| `tcp_live` | the same with 1 send per thread, 4 masks, fairness; 67,000 states | closed connections are destroyed, accepted ones established, sent messages arrive |
| `chat` | 2 clients, 2 I/O loops, 2 users, 2 requests; 1,079,000 states | session list, store before broadcast, complete broadcast, two sessions of a user only if two of its logins overlapped, implementation of TcpServer |
| `log` | 2 threads with a line each, of lengths 1 and 2, 3 levels, roll size 2, 2 inits, 2 seconds; 1,248,000 states | lines printed once, in order and in time; `uninit` drains; a file outgrows the roll size by its last line only |
| `threads` | 2 clients, 2 threads, 2 starts, 3 descriptors, 3 taken by others, fairness; 198,000 states | loops are published before they are used; connections are spread evenly; start returns, and so does a stop of running loops; every client is accepted or refused |
| `timers` | 2 timers, delays 0 and 1, interval 2, time up to 4, 2 calls; 10,200,000 states | nothing runs ahead of its schedule, one-shot timers in due order, queued removals final |
| `timer_wait` | 2 timers, delays 0 and 1, interval 2, time up to 7, 1 call; 3,665,000 states | waiting for the first run, behind a repeated timer too, is bounded |
| `stream` | 8 scripts, pieces of 7 bytes or everything, 1 message of another thread, shutdown, fairness; 326,000 states | no byte lost on the way in, requests whole and in order, answers readable, oversized and malformed packages close, the sending side implements OrderedStream (with its liveness) |
| `startup` | 3 starts, 3 failing calls, 2 chat messages; 179,000 states | a start without failures recovers from whatever was left; `init` returns true only for a full database; a database failure leaves the history alone |
| `client` | 4 sockets, 4 calls; 34,000 states | at most one attempt or connection; no socket loses its owner but to a late `resetChannel` |
| `raw_send`, `duplicate_login` | as `tcp_server` and `chat` | violated: see Findings |

Seven more configurations, one for each property that does not hold and is
quoted from the source, reproduce the counterexamples described under Findings;
they are not in the list of runs.

Deadlock is not checked: connections, requests, lines, calls, starts and time
are bounded, so the system may come to rest when all have been used.

**Bounds.** Two connections on two loops give every relation that matters (same
loop or not, sender's or another's, with the main loop as third thread); nothing
in the code relates three connections. Two sends per thread are what an order
needs. Two requests let one session act on the other, and two logins of a user
follow each other or overlap. `Writes` is everything a write to a socket may do
(in `tcp_live` nothing is buffered, to keep the graph small). The masks are
data, room to write, hang-up, error with data, and everything at once without
data, which calls all four callbacks in a row. `MaxSends = 6` in the chat runs
is more than the requests can cause, so it never blocks one. In `log` lines of 1
and 2 and a roll size of 2 give files that are filled exactly, overrun and left
half full, two lines are what an order and a drain need, the second init meets
the flags the first left, and two seconds let a roll-over keep or change the
file name; INFO is filtered once the level is FATAL, CRITICAL never.

In `stream` packages are 19 to 25 bytes long and the buffers start with 16
bytes, an extra buffer of 32 and packages of at most 40: a read cuts headers and
bodies, spills into the extra buffer, and `makeSpace` both moves and grows. The
scripts hold two good packages, a length above the maximum, a body too short for
its fields, a string longer than its body, a package that breaks off behind one
whose string length wraps, a length that overruns, and the lengths -1 and -5,
which behave differently once converted to `size_t`. In `threads` two threads
and two clients tell round robin from any other choice (that the index turns
round correctly for longer rows is left to the proof), a second start meets what
the first left, and three descriptors are the spare one, one connection and one
to be fought over. In `timers` two timers give every order of due times; an
interval of 2 and four units of time let a timer be late and repeat; two calls
of remove or cancel are a cancellation and its end, or a removal and a late
cancellation, at every place. An entry behind a repeated timer has a bound of 5
or 6, counted from the start, so `timer_wait` goes on to 7, with a call less. In
`startup` three starts are a first one, one that is cut short and one that must
recover; three failures are enough for a reconnection to fail and a later call
too. In `client` four sockets and four calls allow connect, loss, restart and a
stop between their steps.

**Fairness.** `Fairness` is weak fairness of each loop's steps together: the
thread is scheduled, a poll ends after `kPollTimeMs` (1 ms), no handler blocks
on another loop (the only lock held is the session mutex, around list
operations). Clients are under no obligation. The choice among a loop's own
steps is not assumed fair. In AsyncLog the writing thread's steps are weakly
fair together; spurious wake-ups, callers and `uninit` are not. In ServerThreads
the main thread and each loop are weakly fair; nobody has to start, stop,
connect or disconnect, and no wait has to end without a notification. In
SessionStream the loop is weakly fair (`LoopRuns`, with ENABLED spelt out
because TLC evaluates it slowly), a caller that has begun `shutdown` finishes
it, and polls that report data or room are strongly fair: epoll is
level-triggered, the client's bytes arrive, and a client that is there keeps
reading. TimerQueue, ChatStartup and TcpClient are checked for safety only.

## Findings

The following properties state what the source says of itself, and do not hold
(`raw_send` and `duplicate_login` are runs; the others are named with their
configuration).

* `raw_send`: `TcpConnection::send` from another thread binds a raw `this`
  (marked FIXME); the functor can run after the destructor.
* `EarlyLossHasNoEntry` (`TcpServerEarlyLoss.cfg`): the comment at
  `TcpServer.cpp:119` says that `removeConnectionInLoop` finds no entry when the
  peer disconnects while the connection is being created. `newConnection` makes
  the entry before it queues `connectEstablished`, so a peer that goes during
  either is removed like any other; the branch under the comment is never taken
  (`RemovalFindsEntry`).
* `duplicate_login`: look-up and recording of a login are not atomic, so two
  loops log the same user in twice, where a comment says the first is kicked.
  That this overlap is the only way to two sessions is `OneSessionUnlessRaced`.
* `KickHitsSameUser` (`ChatStaleKick.cfg`): look-up and kick are not atomic
  either. The session that was found may, on its own loop, log in as somebody
  else before `makeSessionInvalid` runs, and loses that login.
* `FileSizeBound` (`LogFileSize.cfg`): `AsyncLog.h:83` calls the roll size the
  largest number of bytes of a file. It is compared before a line is written, so
  a file exceeds it by up to a line (`RollBound` says by no more, but for a
  FATAL line).
* `RunsOnce` (`TimerRunsOnce.cfg`): `EventLoop.cpp:184` says that `runAt`
  executes once. The copying overload of `addTimer` drops the repeat count:
  `runAt` and `runAfter` repeat.
* `StopReturns` (`ServerLostQuit.cfg`): `loop` resets `m_quit` (with a FIXME
  that asks about it); a `quit` between the publication of the loop and this
  reset is lost, and `stop` joins for ever.
* `WrongHeaderCloses` (`NegativeLength.cfg`): the comment at
  `ChatSession.cpp:68` says that a wrong header closes the connection at once. A
  negative length passes the test: -1 to -4 end the process in `append`, the
  others wait for ever.
* `ChannelFree` (`TcpClientReset.cfg`): `connecting` expects no Channel (an
  assertion, commented out). The Channel of the last attempt waits for a queued
  `resetChannel`; when an attempt begins before it runs, it destroys the new
  Channel, whose socket nobody owns any more and whose address stays in the
  poller.

Three more are stated as properties of the modules that do not hold, without a
run: `ChatNeedsPassword` (a wrong password sets `m_isLogin` too,
`ChatSession.cpp:282`), `CallbackSessionAlive` (error and data in one
`handleEvent`: the session is dropped, then `onRead` is called through the raw
pointer, `ChatServer.cpp:53`) and `KeptOnDisk` (file names have the resolution of
a second and `"w+"` empties a file that exists, so rolling over twice in a second
loses lines, `AsyncLog.cpp:467`).

The models also contain the following behaviours; the properties are stated
around them.

* Sessions. A kicked session keeps `m_isLogin` and goes on chatting. A message
  Redis did not store is broadcast. Sessions in a broadcast's copy of the list
  outlive their connections.
* Log. An `uninit` whose notification falls between the writer's test and its
  `wait` joins for ever; a second `init` starts a thread that returns as soon as
  the list is empty. `main.cpp:63` has the call of `init` commented out, so in the
  server nothing drains the list at all.
* Timers. A removal in the loop thread of a timer whose addition is still queued
  is lost. A callback
  that removes its own timer leaves `doTimer` with a dangling iterator. A
  repeated timer keeps its first due time in the set, so a short interval
  behind a long one runs at the long one's rate.
* Threads. `quit` calls `wakeup` on a loop that may have seen the flag and be
  destroyed (the comment at `EventLoop.cpp:143` says so). `stop` leaves the
  acceptor running, so a later connection or removal uses a destroyed loop; stop,
  start, stop meets null entries. `connectDestroyed` queued to a loop that quits
  is dropped. The spare descriptor can be lost to other code between its close
  and its reopening.
* Stream. `shutdown` (FIXME: compare and swap) can bring `m_state` back from
  kDisconnected to kDisconnecting, after which `handleClose` can run twice. A
  message of another thread queued before `shutdown` is lost when `handleWrite`
  empties the buffer and ends the stream first. A package whose string length
  overruns may be taken for a good one.
* Start-up goes on after failures and may serve without users. Every start that
  reaches Redis replaces the history with the two default messages. `execute`
  returns false after a repeated statement that worked.
* Client. `Connector::retry` never retries. An attempt whose `enableWriting`
  failed stays kConnecting for ever. After a connection is lost without
  `m_retry` the Connector stays kConnected and `connect` does nothing. A `stop`
  between flag and queue can be overtaken by a restart; `disconnect` does not
  reach an attempt in progress.

## Proofs

Assumptions: `NoConn` is no connection, the main loop no I/O loop, the bounds
are naturals, `Writes` and `Reported` are within their ranges, user 0 is not in
`Users`, `Payload` has what the server sends and the labels of chat texts differ
from those of the server's answers; in AsyncLog the roll size and the number of
seconds are positive and levels are those of the enumeration; a pool has a
thread and the server a descriptor; timers and delays are naturals and intervals
positive; messages have an `int32_t` command and sequence number and a string so
short that the length of its package is one too (the code computes it as one).
What a client sends is any string of bytes: a script is such a string cut where
its legal packages end, and where it says "illegal" no legal package starts
(`ScriptsAssumption`); every string can be cut in this way. Sets may be infinite
or empty. Each inductive invariant below was checked by TLC on the bounds of its
run (the number of timers made is finite, though `Timers` need not be).

Some of the results are inductions over data: what a recursive definition makes
of a stream, or of a set, of any size. The library's induction theorems cannot be
instantiated by the provers here, so these proofs look at the least number for
which the claim fails (`LeastNat`, from the well-foundedness of the naturals;
`AllNat`), and show in the same way that the recursive functions exist.

**TcpServer**

* `TypeCorrect`. The type invariant needs one addition to be inductive: a loop
  without a current connection has nothing to call.
* `Lifetime`: `LifetimeInv` is inductive. Its parts: loops handle only their
  own connections and never while running functors (`LoopDiscipline`); the
  poller does not know a connection before `connectEstablished`
  (`NotYetPolled`); an open one is in `m_connections` (`HeldWhileOpen`); a
  closed one is about to be removed, about to be deregistered, or deregistered
  and unused (`OnItsWayOut`); only closed ones are removed and deregistered,
  in their own loop (`OnlyClosedRemoved`); after `forceClose` the functor runs
  before the next poll (`CloseIsComing`). None is inductive alone: that
  `connectDestroyed` leaves no reference needs that the loop handles no event
  meanwhile, which needs that the channel left epoll at `handleClose`. Most
  steps change at most one link of this chain for one connection; the lemmas
  `LifetimeFrame` and `LifetimeClose` treat them together.
* `ChannelsNeverDangle`, `DestroyedOnlyAfterClose`, `ForceCloseStopsReading`
  follow from it.
* `CallbacksMadeOnce`: the counters move only with `m_state`.
* `RemovalAlwaysFindsEntry`, `EstablishedOnlyFromConnecting`: each functor is
  in its loop's queue at most once (`QueuedOnce`), where the queue is the vector
  swapped out followed by the pending one, so that a swap changes nothing.
* `SendsStayInOrder`: `OrderInv` numbers the sends of a thread. What is in an
  output is older than what is queued, queued sends of one thread are in order,
  and the send between its check and its queueing is the youngest; a connection
  of the sender's own loop has no queued sends of that thread, so a direct write
  cannot overtake.

**ChatServer**

* `ChatImplementsTcpServer`: every step of ChatServer is a TcpServer step or
  leaves its variables alone; hence `ChatChannelsNeverDangle`, and in the same
  way every theorem about TcpServer's `Spec`.
* `ChatTypeCorrect`, `SessionsAreConnections`: the session list for any number
  of clients and loops, from the TcpServer invariant through the same mapping.
* `ChatStoredBeforeBroadcast`: a message is *carried* to a connection when it is
  in the output or on its way. Loops, queues and closing connections carry
  nothing new (`Conserves`); only `send` does, and a chat text is sent only by
  the thread whose job holds it, after `onChat` has stored it (`TextStored`).
* `ChatBroadcastComplete`: the same lemmas read the other way, that nothing
  carried is lost but by a close or a failed socket. The invariant adds that
  whoever is in the copied list was connected, so that "not connected" means
  gone for good, and that a connected one is alive (`HeldWhileOpen`), so that the
  `weak_ptr` locks.
* `OneSession`, for any number of loops. Consider the users no two logins of
  whom have overlapped. Only one thread at a time is in a login as such a user
  (`LoginsApart`), since a second one would have been noted; a login that kicks
  has found the only session of the user (`TargetIsOnly`), one that records has
  none in the list (`NoneToRecord`). That a handler of another loop may be at any
  place meanwhile costs nothing: it writes the `userid` of its own session, or
  makes one invalid, which gives nobody a session. Connections may open and close:
  a new session is nobody's, and callbacks run only on loops of the pool
  (`PoolUse`).

**AsyncLog**

* `LogTypeCorrect`: the type of `m_hLogFile` needs that no file is created while
  the name is empty, and that the writer has a line in hand exactly between
  taking and printing it.
* `LogKeepsOrder`: accepted lines are those printed, the one in hand and the
  list, in this order; each step moves one boundary.
* `LogExitDrains`: from that equation, and that the writer returns only with an
  empty list and `m_bExit` set, after which `asked` no longer moves.
* `LogFilesBounded`, for lines of any length: `m_nCurrentWrittenSize` is at least
  the size of the open file (`Counted`), and below the roll size whenever the
  writer may write without rolling over (`RoomLeft`). A FATAL line is not counted,
  but the process ends with it, so until then every line begins below the roll
  size (`AllBelow`).

**TimerQueue**

* `TimersNeverAhead`, `TimersRunInDueOrder`, `RemovalIsFinal` from `TimerInv`:
  every entry is filed under the first due time of its timer, the iterator is an
  entry or the end, a queued removal comes after the queued insertion of its
  timer, a moved timer runs once, expiry times keep to the schedule, and what
  `doTimer` has seen and not called is not before the iterator. That `First` and
  `After` are `begin()` and `++iter` is proved from the least element of a set of
  naturals.
* `WaitIsBounded` from `WaitInv`. Consider an entry that has not run and may, and
  the time its wait is counted from. Every timer in front of it is due again no
  later than that time and the intervals from this timer up to the entry, added
  up (`InTurn`), unless the pass under way meets nothing but due timers on its way
  to the entry (`Clear`). A timer that runs is due an interval later; if the pass
  does not get to the entry, another timer further on was not due, and *its* share
  ends later, so that the one that ran is still within its own. Hence a pass that
  stops short ends before the bound (`Early`), and time passes only after a pass at
  the present time. A pass begun after the wait cannot go beyond the entry
  (`NotReached`). Removing or cancelling a timer in front, adding one or resuming
  the entry, in a callback in the middle of the pass too, keeps all this. The bound
  is one tick above the longest wait TLC finds, and speaks of first runs: later
  ones can be as late as the timers in front make them each time. The sum
  is `MapThenSumSet`, of which it is proved first that it is the same in any order,
  grows with the set, and grows by the interval of a timer added.
* The first attempt at `TimersRunInDueOrder` failed for a good reason: an entry
  cancelled when `doTimer` begins and resumed by a callback can run out of
  order, which one call of cancel could not show. `RunInDueOrder` and
  `BoundedWait` now speak of entries not cancelled, and the run allows two calls.

**ServerThreads**: `PoolLoopsAlive` and `PoolBalanced` from `PoolInv`: where the
main thread is in `start` and `stop` determines how many threads exist, which
have published their loop and which may leave; the round-robin index determines
how far the counts of two loops may differ. A thread whose `quit` was lost stays
in its loop, which only `stop` waits for.

**ChatStartup**: `CleanStartAlwaysRecovers`, `InitOnlyWhenComplete` and
`HistorySurvivesDbFailure` from `StartupInv`: what is known of the tables at each
place of start-up while every call has worked, that `initOk` was only set with
all tables full, and that Redis is touched only after MySQL has answered.

**TcpClient**: `ClientSocketsAccounted` from `ClientInv`: the sockets of queued
`connectDestroyed` functors, of the attempt's Channel and of the connection are
disjoint and open, and all others that are open are in `late`; the Connector's
state says which of the two exists. A queued `resetChannel` finds the Channel of
an attempt only if the attempt is in `late` (`LateKnown`).

**SessionStream, ByteBuffer, ProtocolStream**

* `PackageInverse`, `FrameInverse`: the reader undoes the writer for every
  message, not only at the lengths TLC tries, and `onRead` cuts a frame out of
  whatever follows it. The argument goes field by field: the four bytes of
  `htonl` are digits in base 256 (two's complement for the first), the groups of
  a length are digits in base 128 of which only the last has no high bit, so the
  reader finds the same number of groups, and each field lies where the ones
  before it end. The model has the 7-bit coding as a sum of at most five groups,
  which is what a length can have, and so needs no induction here.
* `BufferAppends`, `BufferReads`: the readable bytes of a buffer are a queue. A
  buffer that grew, moved its bytes to the front or took part of a read through
  `extrabuf` has the same readable bytes with the new ones behind. `retrieve` has
  the corresponding lemma (`Retrieved`).
* `StreamImplements`: the steps of SessionStream are steps of OrderedStream (its
  safety part), under the mapping of `Implements` with every frame allowed as a
  message. The invariant, `StreamInv`: while the channel is registered it watches
  for room exactly when bytes wait (`WritingHasBytes`, `IdleIsEmpty`), without
  which a direct write could overtake the buffer or `shutdownInLoop` end the
  stream before it is empty; the stream is ended only after `m_state` has left
  kConnected and not while writing (`FinIsLast`), so nothing is written after the
  end; and a `shutdownInLoop` in a queue, or about to be, means that `m_state` has
  been set (`StopMeansClosing`). Closing keeps the bytes of the buffer, which is
  why the first two speak of a channel that is registered.
* `InputIsIntact`: what onRead has taken, the readable bytes and the bytes to be
  read are together the client's stream (`InputInv`). The first part is no
  variable, so the invariant says that there is such a string. It holds whatever
  the client sends.
* `RequestsAreExact`: either `RequestsInv` holds, or a package whose length
  overruns was taken and everything before it was exact (`Past`), which stays so
  because requests are only ever appended (`Recorded`). In `RequestsInv`, what
  `process` got are the first packages of the stream, all legal
  (`OnlyRequests`), and the bytes that wait and those to come begin right behind
  them, unless the connection is closing or the process is dead (`InStep`); when
  `onRead` is not running no whole legal package waits (`NoneLeft`). The weak
  place is a refused package: after `forceClose` the input is out of step, and
  more of it could be parsed before `forceCloseInLoop` runs. `EventsFollow` and
  `ClosedIsDeaf` rule that out: the functor runs before the next poll, a read
  happens once per poll, and a closed channel is not polled, although `shutdown`
  may overwrite kDisconnected. A piece of the step is that the header and the
  body `onRead` sees are those of the package, whatever follows in the buffer,
  and that an incomplete package is not taken for a complete one.
* `AnswersAreReadable` from `AnswersInv`: the bytes in the socket and in the
  output buffer are together a row of whole frames, the answers to the first
  requests in order and between them messages of other threads (`Sent`), and
  there is an account of the latter: those accepted, those in the two queues and
  the one between its test and its queueing are no more than were begun. All
  requests have been answered unless no answer will be sent any more (`Silent`),
  without which a later answer could follow a dropped one. That the client's
  reader makes these messages of the bytes, also of a socket that ends in the
  middle of a frame, is `FrameInverse` repeated (`SentReads`).

Every invariant and every safety action property of the runs is stated by a
theorem. Model-checked only: the liveness properties (`tcp_live`,
`LineIsPrinted`, `StartAndStopEnd`, `EveryoneAnswered`, `BadPackageCloses` and the
liveness of `Implements`), which rest on fairness and ENABLED and are beyond the
proof system. Of `Implements` it is left to TLC, too, that the frames sent are
those of `Sendable`; `StreamImplements` allows any frame (that only answers and
messages of other threads are sent is in `AnswersAreReadable`).

## Not modelled, and the plan

1. Channel and EPollPoller by file descriptor, with reuse of descriptors.
2. The destructor of TcpClient.

Left out for good: PollPoller and SelectPoller (not used on Linux), system-call
wrappers, configuration parsing, the text of log lines and JSON, operations
nothing calls (integers and prepend of ByteBuffer, the other types of
ProtocolStream, `getLoopForHash`), the vendored JSON and Redis libraries, demos,
and source that is commented out (heartbeat, registration, friends and groups;
most of `UserManager.cpp`).
