--------------------------- MODULE TcpServerProofs ---------------------------
(***************************************************************************)
(* Proofs about TcpServer: type correctness, the lifetime of connections   *)
(* and channels, the connection callbacks, what the queues of functors     *)
(* hold and the order of sends, for any number of connections and loops.   *)
(***************************************************************************)
EXTENDS TcpServer, SequenceTheorems, TLAPS

-----------------------------------------------------------------------------
(* Functors and queues of functors.                                        *)

\* What newConnection, forceClose, handleClose and removeConnectionInLoop
\* queue is a functor.
LEMMA SharedType ==
    ASSUME NEW c \in Conns, NEW name \in FunctorName
    PROVE  Shared(name, c) \in Functor
  BY DEF Shared, Functor

\* What TcpConnection::send queues is a functor.
LEMMA RawSendType ==
    ASSUME NEW c \in Conns, NEW msg \in Msg
    PROVE  RawSend(c, msg) \in Functor
  BY DEF RawSend, Functor

\* The fields of a functor that doOtherTasks runs next.
LEMMA HeadType ==
    ASSUME NEW q \in Seq(Functor), q # <<>>
    PROVE  /\ Head(q) \in Functor
           /\ Tail(q) \in Seq(Functor)
           /\ Head(q).conn \in Conns
           /\ Head(q).fn = "sendInLoop" => Head(q).msg \in Msg
           /\ Head(q).fn # "sendInLoop" => /\ Head(q).fn \in FunctorName
                                           /\ Head(q) = Shared(Head(q).fn, Head(q).conn)
  <1>1. Head(q) \in Functor /\ Tail(q) \in Seq(Functor)
    OBVIOUS
  <1>2. \A f \in Functor :
          /\ f.conn \in Conns
          /\ f.fn = "sendInLoop" => f.msg \in Msg
          /\ f.fn # "sendInLoop" => f.fn \in FunctorName /\ f = Shared(f.fn, f.conn)
    BY DEF Functor, FunctorName, Shared
  <1>3. QED BY <1>1, <1>2

\* Appending a functor.
LEMMA HasAppend ==
    ASSUME NEW q \in Seq(Functor), NEW g \in Functor, NEW f
    PROVE  Has(Append(q, g), f) <=> Has(q, f) \/ f = g
  <1>1. ASSUME Has(Append(q, g), f) PROVE Has(q, f) \/ f = g
    BY <1>1 DEF Has
  <1>2. ASSUME Has(q, f) PROVE Has(Append(q, g), f)
    BY <1>2 DEF Has
  <1>3. ASSUME f = g PROVE Has(Append(q, g), f)
    <2>1. Len(q) + 1 \in DOMAIN Append(q, g) /\ Append(q, g)[Len(q) + 1] = g
      OBVIOUS
    <2>2. QED BY <1>3, <2>1 DEF Has
  <1>4. QED BY <1>1, <1>2, <1>3

\* Running the first functor of a vector.
LEMMA HasTail ==
    ASSUME NEW q \in Seq(Functor), q # <<>>, NEW f
    PROVE  Has(q, f) <=> Has(Tail(q), f) \/ f = Head(q)
  <1>1. ASSUME Has(q, f) PROVE Has(Tail(q), f) \/ f = Head(q)
    <2>1. PICK i \in 1..Len(q) : q[i] = f
      BY <1>1 DEF Has
    <2>2. CASE i = 1
      BY <2>1, <2>2
    <2>3. CASE i # 1
      <3>1. i - 1 \in DOMAIN Tail(q) /\ Tail(q)[i - 1] = f
        BY <2>1, <2>3
      <3>2. QED BY <3>1 DEF Has
    <2>4. QED BY <2>2, <2>3
  <1>2. ASSUME Has(Tail(q), f) PROVE Has(q, f)
    <2>1. PICK i \in 1..Len(Tail(q)) : Tail(q)[i] = f
      BY <1>2 DEF Has
    <2>2. i + 1 \in 1..Len(q) /\ q[i + 1] = f
      BY <2>1
    <2>3. QED BY <2>2 DEF Has
  <1>3. ASSUME f = Head(q) PROVE Has(q, f)
    <2>1. 1 \in 1..Len(q) /\ q[1] = f
      BY <1>3
    <2>2. QED BY <2>1 DEF Has
  <1>4. QED BY <1>1, <1>2, <1>3

\* An empty queue holds no functor.
LEMMA HasNothing == \A f : ~Has(<<>>, f)
  BY DEF Has

-----------------------------------------------------------------------------
(* Types.                                                                  *)

\* A thread outside handleEvent has nothing to call.
IdleIsIdle == \A l \in Loops : current[l].conn = NoConn => current[l] = NoEvent

TypeInv == TypeOK /\ IdleIsIdle

\* A handleEvent with a callback to make, or in one, is about a connection.
LEMMA CurrentConn ==
    ASSUME TypeInv, NEW l \in Loops, current[l] # NoEvent
    PROVE  current[l].conn \in Conns
  BY DEF TypeInv, TypeOK, IdleIsIdle

\* Queueing a functor keeps the queues typed.
LEMMA QueueType ==
    ASSUME TypeOK, NEW l \in Loops, NEW f \in Functor, queueInLoop(l, f)
    PROVE  m_pendingFunctors' \in [Loops -> Seq(Functor)]
  <1>1. m_pendingFunctors \in [Loops -> Seq(Functor)]
    BY DEF TypeOK
  <1>2. Append(m_pendingFunctors[l], f) \in Seq(Functor)
    BY <1>1
  <1>3. QED BY <1>1, <1>2 DEF queueInLoop

\* The typed part of handleClose.
LEMMA HandleCloseType ==
    ASSUME TypeOK, NEW c \in Conns, handleClose(c)
    PROVE  /\ m_state' \in [Conns -> StateE]
           /\ m_events' \in [Conns -> SUBSET {"read", "write"}]
           /\ m_index' \in [Conns -> {"kNew", "kAdded", "kDeleted"}]
           /\ epoll' \subseteq Conns
           /\ callbacks' \in [Conns -> [up : Nat, down : Nat]]
           /\ m_pendingFunctors' \in [Loops -> Seq(Functor)]
  <1>1. Shared("removeConnectionInLoop", c) \in Functor
    BY SharedType DEF FunctorName
  <1>2. MainLoop \in Loops
    BY DEF Loops
  <1>3. CASE m_state[c] = "kDisconnected"
    BY <1>3 DEF TypeOK, handleClose, pollVars
  <1>4. CASE m_state[c] # "kDisconnected"
    <2>1. m_pendingFunctors' \in [Loops -> Seq(Functor)]
      BY <1>1, <1>2, <1>4, QueueType DEF handleClose
    <2>2. callbacks' \in [Conns -> [up : Nat, down : Nat]]
      <3>1. callbacks' = [callbacks EXCEPT ![c].down = @ + 1]
        BY <1>4 DEF handleClose
      <3>2. callbacks \in [Conns -> [up : Nat, down : Nat]]
        BY DEF TypeOK
      <3>3. QED BY <3>1, <3>2
    <2>3. QED BY <1>4, <2>1, <2>2 DEF TypeOK, handleClose, StateE
  <1>5. QED BY <1>3, <1>4

\* The typed part of sendInLoop.
LEMMA SendInLoopType ==
    ASSUME TypeOK, NEW c \in Conns, NEW msg \in Msg, sendInLoop(c, msg)
    PROVE  /\ m_events' \in [Conns -> SUBSET {"read", "write"}]
           /\ output' \in [Conns -> Seq(Msg)]
           /\ faulted' \subseteq Conns
  <1>1. /\ m_events \in [Conns -> SUBSET {"read", "write"}]
        /\ output \in [Conns -> Seq(Msg)]
        /\ faulted \subseteq Conns
    BY DEF TypeOK
  <1>2. Append(output[c], msg) \in Seq(Msg)
    BY <1>1
  <1>3. output' \in [Conns -> Seq(Msg)]
    BY <1>1, <1>2 DEF sendInLoop, outVars
  <1>4. m_events' \in [Conns -> SUBSET {"read", "write"}] /\ faulted' \subseteq Conns
    BY <1>1 DEF sendInLoop, outVars
  <1>5. QED BY <1>3, <1>4

\* The typed part of leaving a callback.
LEMMA ReturnsType ==
    ASSUME TypeInv, NEW l \in Loops, NEW cb, Returns(l, cb), current[l].conn \in Conns
    PROVE  /\ current' \in [Loops -> [conn : Conns \cup {NoConn}, todo : SUBSET Callbacks,
                                      inCallback : BOOLEAN]]
           /\ IdleIsIdle'
           /\ \A k \in Loops : k # l => current'[k] = current[k]
           /\ current'[l] = NoEvent \/ /\ current'[l].conn = current[l].conn
                                       /\ current'[l].todo = current[l].todo \ {cb}
                                       /\ current'[l].inCallback = FALSE
  <1>1. current[l] \in [conn : Conns \cup {NoConn}, todo : SUBSET Callbacks, inCallback : BOOLEAN]
    BY DEF TypeInv, TypeOK
  <1>2. NoEvent \in [conn : Conns \cup {NoConn}, todo : SUBSET Callbacks, inCallback : BOOLEAN]
    BY DEF NoEvent
  <1>3. current'[l] = IF current[l].todo = {cb} THEN NoEvent
                      ELSE [conn |-> current[l].conn, todo |-> current[l].todo \ {cb},
                            inCallback |-> FALSE]
    <2>1. l \in DOMAIN current
      BY DEF TypeInv, TypeOK
    <2>2. QED BY <2>1 DEF Returns
  <1>4. \A k \in Loops : k # l => current'[k] = current[k]
    BY DEF Returns, TypeInv, TypeOK
  <1>5. current' = [k \in Loops |-> current'[k]]
    BY DEF Returns, TypeInv, TypeOK
  <1>6. current'[l] = NoEvent \/ /\ current'[l].conn = current[l].conn
                                 /\ current'[l].todo = current[l].todo \ {cb}
                                 /\ current'[l].inCallback = FALSE
    BY <1>1, <1>3
  <1>7. current'[l] \in [conn : Conns \cup {NoConn}, todo : SUBSET Callbacks, inCallback : BOOLEAN]
    BY <1>1, <1>2, <1>3
  <1>8. IdleIsIdle'
    BY <1>4, <1>6, ConnAssumption DEF IdleIsIdle, TypeInv
  <1>9. QED
    BY ZenonT(60), <1>4, <1>5, <1>6, <1>7, <1>8 DEF TypeInv, TypeOK

\* The typed part of running a functor.
LEMMA RunsType ==
    ASSUME TypeInv, NEW l \in Loops, NEW name, Runs(l, name)
    PROVE  /\ Head(functors[l]).conn \in Conns
           /\ Head(functors[l]).fn = name
           /\ name = "sendInLoop" => Head(functors[l]).msg \in Msg
           /\ functors' \in [Loops -> Seq(Functor)]
           /\ kept' \in [Loops -> SUBSET Conns]
           /\ m_loop' \in [Conns -> Loops]
           /\ polled' \in [Loops -> BOOLEAN]
           /\ m_activeChannels' \in [Loops -> SUBSET Conns]
           /\ current' \in [Loops -> [conn : Conns \cup {NoConn}, todo : SUBSET Callbacks,
                                      inCallback : BOOLEAN]]
           /\ sending' \in [Loops -> [conn : Conns, msg : Msg] \cup {Idle}]
           /\ sent' \in [Loops -> 0..MaxSends]
           /\ IdleIsIdle'
  <1>1. functors[l] \in Seq(Functor) /\ functors[l] # <<>>
    BY DEF TypeInv, TypeOK, Runs
  <1>2. /\ Head(functors[l]).conn \in Conns /\ Tail(functors[l]) \in Seq(Functor)
        /\ Head(functors[l]).fn = "sendInLoop" => Head(functors[l]).msg \in Msg
    BY <1>1, HeadType
  <1>3. functors' \in [Loops -> Seq(Functor)]
    BY <1>2 DEF TypeInv, TypeOK, Runs
  <1>4. kept' \in [Loops -> SUBSET Conns]
    BY <1>2 DEF TypeInv, TypeOK, Runs
  <1>5. QED BY <1>2, <1>3, <1>4 DEF TypeInv, TypeOK, Runs, IdleIsIdle
\* In a callback the thread has a connection.
LEMMA CallbackConn ==
    ASSUME TypeInv, NEW l \in Loops,
           current[l].inCallback \/ \E cb : cb \in current[l].todo
    PROVE  current[l].conn \in Conns /\ current[l] # NoEvent
  <1>1. current[l] # NoEvent
    BY DEF NoEvent
  <1>2. QED BY <1>1, CurrentConn

\* The initial state is typed.
LEMMA TypeInit == Init => TypeInv
  <1> SUFFICES ASSUME Init PROVE TypeInv
    OBVIOUS
  <1>1. IdleIsIdle
    BY DEF Init, IdleIsIdle
  <1>2. MainLoop \in Loops
    BY DEF Loops
  <1>3. NoEvent \in [conn : Conns \cup {NoConn}, todo : SUBSET Callbacks, inCallback : BOOLEAN]
    BY DEF NoEvent
  <1>4. [up |-> 0, down |-> 0] \in [up : Nat, down : Nat]
    OBVIOUS
  <1>5. 0 \in 0..MaxSends
    BY MaxSendsAssumption
  <1>6. QED
    BY <1>1, <1>2, <1>3, <1>4, <1>5 DEF TypeInv, TypeOK, Init, StateE

\* Steps of poll, handleEvent and the channel's callbacks keep the types.
LEMMA TypeLoop ==
    ASSUME TypeInv, NEW l \in Loops,
           \/ poll(l)
           \/ \E c \in Conns : handleEvent(l, c)
           \/ onCloseEvent(l)
           \/ handleReadData(l)
           \/ handleReadEnd(l)
           \/ handleWrite(l)
           \/ handleWriteFails(l)
           \/ doOtherTasks(l)
    PROVE  TypeInv'
  <1> USE DEF pollVars, loopVars, outVars
  <1>1. CASE poll(l)
    <2>1. m_activeChannels' \in [Loops -> SUBSET Conns] /\ polled' \in [Loops -> BOOLEAN]
      BY <1>1 DEF poll, Watched, TypeInv, TypeOK
    <2>2. QED BY <1>1, <2>1 DEF poll, TypeInv, TypeOK, IdleIsIdle
  <1>2. ASSUME NEW c \in Conns, handleEvent(l, c) PROVE TypeInv'
    <2>1. PICK r \in Revents(c) :
            current' = [current EXCEPT ![l] =
                          [conn |-> c, todo |-> CallbacksFor(r), inCallback |-> FALSE]]
      BY <1>2 DEF handleEvent
    <2>2. CallbacksFor(r) \subseteq Callbacks
      BY DEF CallbacksFor
    <2>3. current' \in [Loops -> [conn : Conns \cup {NoConn}, todo : SUBSET Callbacks,
                                  inCallback : BOOLEAN]]
      BY <2>1, <2>2 DEF TypeInv, TypeOK
    <2>4. IdleIsIdle'
      BY <2>1, ConnAssumption DEF IdleIsIdle, TypeInv, TypeOK
    <2>5. m_activeChannels' \in [Loops -> SUBSET Conns]
      BY <1>2 DEF handleEvent, TypeInv, TypeOK
    <2>6. QED BY <1>2, <2>3, <2>4, <2>5 DEF handleEvent, TypeInv, TypeOK
  <1>3. ASSUME NEW cb, cb \in current[l].todo, Returns(l, cb), handleClose(current[l].conn),
               UNCHANGED <<m_loop, m_connections, loopVars, m_activeChannels, sending,
                           outVars, sent>>
        PROVE  TypeInv'
    <2>1. current[l].conn \in Conns
      BY <1>3, CallbackConn
    <2>2. /\ IdleIsIdle'
          /\ current' \in [Loops -> [conn : Conns \cup {NoConn}, todo : SUBSET Callbacks,
                                     inCallback : BOOLEAN]]
      BY <1>3, <2>1, ReturnsType
    <2>3. /\ m_state' \in [Conns -> StateE]
          /\ m_events' \in [Conns -> SUBSET {"read", "write"}]
          /\ m_index' \in [Conns -> {"kNew", "kAdded", "kDeleted"}]
          /\ epoll' \subseteq Conns
          /\ callbacks' \in [Conns -> [up : Nat, down : Nat]]
          /\ m_pendingFunctors' \in [Loops -> Seq(Functor)]
      BY <1>3, <2>1, HandleCloseType DEF TypeInv
    <2>4. QED BY <1>3, <2>2, <2>3 DEF TypeInv, TypeOK
  <1>4. CASE onCloseEvent(l)
    BY <1>4, <1>3 DEF onCloseEvent, Calls
  <1>5. CASE handleReadData(l)
    <2>1. current[l].conn \in Conns
      BY <1>5, CallbackConn DEF handleReadData, Calls
    <2>2. current' \in [Loops -> [conn : Conns \cup {NoConn}, todo : SUBSET Callbacks,
                                  inCallback : BOOLEAN]]
      <3>1. current' = [current EXCEPT ![l].inCallback = TRUE]
        BY <1>5 DEF handleReadData
      <3>2. current \in [Loops -> [conn : Conns \cup {NoConn}, todo : SUBSET Callbacks,
                                   inCallback : BOOLEAN]]
        BY DEF TypeInv, TypeOK
      <3>3. QED BY <3>1, <3>2
    <2>3. IdleIsIdle'
      BY <1>5, <2>1, ConnAssumption DEF handleReadData, IdleIsIdle, TypeInv, TypeOK
    <2>4. QED BY <1>5, <2>2, <2>3 DEF handleReadData, TypeInv, TypeOK
  <1>6. CASE handleReadEnd(l)
    BY <1>6, <1>3 DEF handleReadEnd, Calls
  <1>7. CASE handleWrite(l)
    <2>1. current[l].conn \in Conns
      BY <1>7, CallbackConn DEF handleWrite, Calls
    <2>2. /\ IdleIsIdle'
          /\ current' \in [Loops -> [conn : Conns \cup {NoConn}, todo : SUBSET Callbacks,
                                     inCallback : BOOLEAN]]
      BY <1>7, <2>1, ReturnsType DEF handleWrite
    <2>3. m_events' \in [Conns -> SUBSET {"read", "write"}]
      <3>1. \/ UNCHANGED m_events
            \/ m_events' = [m_events EXCEPT ![current[l].conn] = @ \ {"write"}]
        BY <1>7 DEF handleWrite
      <3>2. m_events \in [Conns -> SUBSET {"read", "write"}]
        BY DEF TypeInv, TypeOK
      <3>3. QED BY <3>1, <3>2
    <2>4. QED BY <1>7, <2>2, <2>3 DEF handleWrite, TypeInv, TypeOK
  <1>8. CASE handleWriteFails(l)
    BY <1>8, <1>3 DEF handleWriteFails, Calls
  <1>9. CASE doOtherTasks(l)
    <2>1. /\ functors' \in [Loops -> Seq(Functor)]
          /\ m_pendingFunctors' \in [Loops -> Seq(Functor)]
          /\ polled' \in [Loops -> BOOLEAN]
      BY <1>9 DEF doOtherTasks, TypeInv, TypeOK
    <2>2. QED BY <1>9, <2>1 DEF doOtherTasks, TypeInv, TypeOK, IdleIsIdle
  <1>10. QED BY <1>1, <1>2, <1>4, <1>5, <1>6, <1>7, <1>8, <1>9
\* Sends and returns of a message callback keep the types.
LEMMA TypeCallback ==
    ASSUME TypeInv, NEW l \in Loops, CallbackStep(l)
    PROVE  TypeInv'
  <1> USE DEF pollVars, loopVars, outVars
  <1>1. \A body \in Payload : sent[l] < MaxSends => NewMsg(l, body) \in Msg
    BY MaxSendsAssumption DEF NewMsg, Msg, TypeInv, TypeOK
  <1>2. ASSUME sent[l] < MaxSends, sent' = [sent EXCEPT ![l] = @ + 1]
        PROVE  sent' \in [Loops -> 0..MaxSends]
    BY <1>2, MaxSendsAssumption DEF TypeInv, TypeOK
  <1>3. ASSUME NEW c \in Conns, NEW body \in Payload, sendHere(l, c, body) PROVE TypeInv'
    <2>1. NewMsg(l, body) \in Msg /\ sent' \in [Loops -> 0..MaxSends]
      BY <1>1, <1>2, <1>3 DEF sendHere
    <2>2. /\ m_events' \in [Conns -> SUBSET {"read", "write"}]
          /\ output' \in [Conns -> Seq(Msg)]
          /\ faulted' \subseteq Conns
      BY <1>3, <2>1, SendInLoopType DEF sendHere, TypeInv
    <2>3. QED BY <1>3, <2>1, <2>2 DEF sendHere, TypeInv, TypeOK, IdleIsIdle
  <1>4. ASSUME NEW c \in Conns, NEW body \in Payload, sendChecked(l, c, body) PROVE TypeInv'
    <2>1. NewMsg(l, body) \in Msg /\ sent' \in [Loops -> 0..MaxSends]
      BY <1>1, <1>2, <1>4 DEF sendChecked
    <2>2. sending' \in [Loops -> [conn : Conns, msg : Msg] \cup {Idle}]
      BY <1>4, <2>1 DEF sendChecked, TypeInv, TypeOK
    <2>3. QED BY <1>4, <2>1, <2>2 DEF sendChecked, TypeInv, TypeOK, IdleIsIdle
  <1>5. CASE sendQueued(l)
    <2>1. sending[l].conn \in Conns /\ sending[l].msg \in Msg
      BY <1>5 DEF sendQueued, TypeInv, TypeOK
    <2>2. m_pendingFunctors' \in [Loops -> Seq(Functor)]
      <3>1. RawSend(sending[l].conn, sending[l].msg) \in Functor
        BY <2>1, RawSendType
      <3>2. m_loop[sending[l].conn] \in Loops
        BY <2>1 DEF TypeInv, TypeOK
      <3>3. QED BY <1>5, <3>1, <3>2, QueueType DEF sendQueued, TypeInv
    <2>3. sending' \in [Loops -> [conn : Conns, msg : Msg] \cup {Idle}]
      BY <1>5 DEF sendQueued, TypeInv, TypeOK
    <2>4. QED BY <1>5, <2>2, <2>3 DEF sendQueued, TypeInv, TypeOK, IdleIsIdle
  <1>6. ASSUME InCallback(l), Returns(l, "read")
        PROVE  /\ current[l].conn \in Conns
               /\ IdleIsIdle'
               /\ current' \in [Loops -> [conn : Conns \cup {NoConn}, todo : SUBSET Callbacks,
                                          inCallback : BOOLEAN]]
    BY <1>6, CallbackConn, ReturnsType DEF InCallback
  <1>7. CASE messageReturn(l)
    BY <1>6, <1>7 DEF messageReturn, TypeInv, TypeOK
  <1>8. CASE forceClose(l)
    <2>1. /\ current[l].conn \in Conns
          /\ IdleIsIdle'
          /\ current' \in [Loops -> [conn : Conns \cup {NoConn}, todo : SUBSET Callbacks,
                                     inCallback : BOOLEAN]]
      BY <1>6, <1>8 DEF forceClose
    <2>2. m_pendingFunctors' \in [Loops -> Seq(Functor)]
      <3>1. Shared("forceCloseInLoop", current[l].conn) \in Functor
        BY <2>1, SharedType DEF FunctorName
      <3>2. m_loop[current[l].conn] \in Loops
        BY <2>1 DEF TypeInv, TypeOK
      <3>3. \/ queueInLoop(m_loop[current[l].conn], Shared("forceCloseInLoop", current[l].conn))
            \/ UNCHANGED m_pendingFunctors
        BY <1>8 DEF forceClose
      <3>4. QED BY <3>1, <3>2, <3>3, QueueType DEF TypeInv, TypeOK
    <2>3. m_state' \in [Conns -> StateE]
      BY <1>8, <2>1 DEF forceClose, TypeInv, TypeOK, StateE
    <2>4. QED BY <1>8, <2>1, <2>2, <2>3 DEF forceClose, TypeInv, TypeOK
  <1>9. QED BY <1>3, <1>4, <1>5, <1>7, <1>8 DEF CallbackStep

\* The functors doOtherTasks runs keep the types.
LEMMA TypeFunctor ==
    ASSUME TypeInv, NEW l \in Loops, RunFunctor(l)
    PROVE  TypeInv'
  <1> USE DEF pollVars, loopVars, outVars
  <1> DEFINE c == Head(functors[l]).conn
  <1>1. CASE connectEstablished(l)
    <2>1. c \in Conns
      BY <1>1, RunsType DEF connectEstablished
    <2>2. callbacks' \in [Conns -> [up : Nat, down : Nat]]
      <3>1. UNCHANGED callbacks \/ callbacks' = [callbacks EXCEPT ![c].up = @ + 1]
        BY <1>1 DEF connectEstablished
      <3>2. callbacks \in [Conns -> [up : Nat, down : Nat]]
        BY DEF TypeInv, TypeOK
      <3>3. QED BY <2>1, <3>1, <3>2
    <2>3. /\ m_state' \in [Conns -> StateE]
          /\ m_events' \in [Conns -> SUBSET {"read", "write"}]
          /\ m_index' \in [Conns -> {"kNew", "kAdded", "kDeleted"}]
          /\ epoll' \subseteq Conns
      <3>1. \/ UNCHANGED <<m_state, m_events, m_index, epoll>>
            \/ /\ m_state' = [m_state EXCEPT ![c] = "kConnected"]
               /\ m_events' = [m_events EXCEPT ![c] = {"read"}]
               /\ m_index' = [m_index EXCEPT ![c] = "kAdded"]
               /\ epoll' = epoll \cup {c}
        BY <1>1 DEF connectEstablished
      <3>2. /\ m_state \in [Conns -> StateE]
            /\ m_events \in [Conns -> SUBSET {"read", "write"}]
            /\ m_index \in [Conns -> {"kNew", "kAdded", "kDeleted"}]
            /\ epoll \subseteq Conns
        BY DEF TypeInv, TypeOK
      <3>3. QED BY <2>1, <3>1, <3>2 DEF StateE
    <2>4. QED BY ZenonT(60), <1>1, <2>2, <2>3, RunsType DEF connectEstablished, TypeInv, TypeOK
  <1>2. CASE connectEstablishedFails(l)
    <2>1. c \in Conns
      BY <1>2, RunsType DEF connectEstablishedFails
    <2>2. callbacks' \in [Conns -> [up : Nat, down : Nat]]
      <3>1. callbacks' = [callbacks EXCEPT ![c].down = @ + 1]
        BY <1>2 DEF connectEstablishedFails
      <3>2. callbacks \in [Conns -> [up : Nat, down : Nat]]
        BY DEF TypeInv, TypeOK
      <3>3. QED BY <2>1, <3>1, <3>2
    <2>3. m_pendingFunctors' \in [Loops -> Seq(Functor)]
      <3>1. Shared("removeConnectionInLoop", c) \in Functor /\ MainLoop \in Loops
        BY <2>1, SharedType DEF FunctorName, Loops
      <3>2. QED BY <1>2, <3>1, QueueType DEF connectEstablishedFails, TypeInv
    <2>4. /\ m_state' \in [Conns -> StateE]
          /\ m_events' \in [Conns -> SUBSET {"read", "write"}]
          /\ m_index' \in [Conns -> {"kNew", "kAdded", "kDeleted"}]
      BY <1>2, <2>1 DEF connectEstablishedFails, TypeInv, TypeOK, StateE
    <2>5. QED BY <1>2, <2>2, <2>3, <2>4, RunsType DEF connectEstablishedFails, TypeInv, TypeOK
  <1>3. CASE runSendInLoop(l)
    <2>1. c \in Conns /\ Head(functors[l]).msg \in Msg
      BY <1>3, RunsType DEF runSendInLoop
    <2>2. /\ m_events' \in [Conns -> SUBSET {"read", "write"}]
          /\ output' \in [Conns -> Seq(Msg)]
          /\ faulted' \subseteq Conns
      BY <1>3, <2>1, SendInLoopType DEF runSendInLoop, TypeInv
    <2>3. QED BY <1>3, <2>2, RunsType DEF runSendInLoop, TypeInv, TypeOK
  <1>4. CASE forceCloseInLoop(l)
    <2>1. c \in Conns
      BY <1>4, RunsType DEF forceCloseInLoop
    <2>2. \/ handleClose(c)
          \/ UNCHANGED <<m_state, m_events, m_index, epoll, callbacks, m_pendingFunctors>>
      BY <1>4 DEF forceCloseInLoop
    <2>3. /\ m_state' \in [Conns -> StateE]
          /\ m_events' \in [Conns -> SUBSET {"read", "write"}]
          /\ m_index' \in [Conns -> {"kNew", "kAdded", "kDeleted"}]
          /\ epoll' \subseteq Conns
          /\ callbacks' \in [Conns -> [up : Nat, down : Nat]]
          /\ m_pendingFunctors' \in [Loops -> Seq(Functor)]
      BY <2>1, <2>2, HandleCloseType DEF TypeInv, TypeOK
    <2>4. QED BY <1>4, <2>3, RunsType DEF forceCloseInLoop, TypeInv, TypeOK
  <1>5. CASE removeConnectionInLoop(l)
    <2>1. c \in Conns
      BY <1>5, RunsType DEF removeConnectionInLoop
    <2>2. m_pendingFunctors' \in [Loops -> Seq(Functor)]
      <3>1. Shared("connectDestroyed", c) \in Functor /\ m_loop[c] \in Loops
        BY <2>1, SharedType DEF FunctorName, TypeInv, TypeOK
      <3>2. queueInLoop(m_loop[c], Shared("connectDestroyed", c)) \/ UNCHANGED m_pendingFunctors
        BY <1>5 DEF removeConnectionInLoop
      <3>3. QED BY <3>1, <3>2, QueueType DEF TypeInv, TypeOK
    <2>3. QED BY <1>5, <2>2, RunsType DEF removeConnectionInLoop, TypeInv, TypeOK
  <1>6. CASE connectDestroyed(l)
    <2>1. c \in Conns
      BY <1>6, RunsType DEF connectDestroyed
    <2>2. callbacks' \in [Conns -> [up : Nat, down : Nat]]
      <3>1. callbacks' = [callbacks EXCEPT ![c].down =
                            IF m_state[c] = "kConnected" THEN @ + 1 ELSE @]
        BY <1>6 DEF connectDestroyed
      <3>2. callbacks \in [Conns -> [up : Nat, down : Nat]]
        BY DEF TypeInv, TypeOK
      <3>3. QED BY <2>1, <3>1, <3>2
    <2>3. /\ m_state' \in [Conns -> StateE]
          /\ m_events' \in [Conns -> SUBSET {"read", "write"}]
          /\ m_index' \in [Conns -> {"kNew", "kAdded", "kDeleted"}]
          /\ epoll' \subseteq Conns
      BY <1>6, <2>1 DEF connectDestroyed, TypeInv, TypeOK, StateE
    <2>4. QED BY <1>6, <2>2, <2>3, RunsType DEF connectDestroyed, TypeInv, TypeOK
  <1>7. QED BY <1>1, <1>2, <1>3, <1>4, <1>5, <1>6 DEF RunFunctor

\* A new connection keeps the types.
LEMMA TypeNew ==
    ASSUME TypeInv, NEW c \in Conns, NEW l \in IoLoops, newConnection(c, l)
    PROVE  TypeInv'
  <1>1. l \in Loops
    BY DEF Loops
  <1>2. Shared("connectEstablished", c) \in Functor
    BY SharedType DEF FunctorName
  <1>3. m_pendingFunctors' \in [Loops -> Seq(Functor)]
    BY <1>1, <1>2, QueueType DEF newConnection, TypeInv
  <1>4. m_state' \in [Conns -> StateE] /\ m_loop' \in [Conns -> Loops]
    BY <1>1 DEF newConnection, TypeInv, TypeOK, StateE
  <1>5. QED
    BY <1>3, <1>4 DEF newConnection, TypeInv, TypeOK, IdleIsIdle, pollVars, loopVars, outVars

\* Every step keeps the types.
LEMMA TypeStep == TypeInv /\ [Next]_vars => TypeInv'
  <1> SUFFICES ASSUME TypeInv, [Next]_vars PROVE TypeInv'
    OBVIOUS
  <1>1. CASE UNCHANGED vars
    BY <1>1 DEF vars, TypeInv, TypeOK, IdleIsIdle
  <1>2. ASSUME NEW l \in Loops, LoopStep(l) PROVE TypeInv'
    BY <1>2, TypeLoop, TypeFunctor DEF LoopStep
  <1>3. QED BY <1>1, <1>2, TypeCallback, TypeNew DEF Next

\* Every variable keeps its type: queues hold functors of existing connections,
\* a thread in a callback has a connection, and no thread exceeds its bound of
\* sends.
THEOREM TypeCorrect == Spec => []TypeOK
  <1>1. TypeInv => TypeOK
    BY DEF TypeInv
  <1>2. QED BY <1>1, TypeInit, TypeStep, PTL DEF Spec
-----------------------------------------------------------------------------
(* Lifetime.  A step preserves LifetimeInv by one of few arguments: it     *)
(* leaves the chain of functors alone (LifetimeFrame), it closes a         *)
(* connection (LifetimeClose), or it is one of the links of the chain.     *)

\* Two shared functors are the same only if they are the same call.
LEMMA SharedInjective ==
    \A n1, n2, c1, c2 : Shared(n1, c1) = Shared(n2, c2) <=> n1 = n2 /\ c1 = c2
  BY DEF Shared

\* A raw send is none of the shared functors.
LEMMA RawSendNotShared ==
    \A n, c, d, msg : n # "sendInLoop" => Shared(n, c) # RawSend(d, msg)
  BY DEF Shared, RawSend

\* What queueInLoop does to the functors of every loop.
LEMMA QueueAppend ==
    ASSUME TypeInv, NEW l \in Loops, NEW g \in Functor, queueInLoop(l, g)
    PROVE  \A k \in Loops : \A f : Has(m_pendingFunctors'[k], f)
                                     <=> Has(m_pendingFunctors[k], f) \/ (k = l /\ f = g)
  <1> TAKE k \in Loops
  <1> TAKE f
  <1>1. m_pendingFunctors \in [Loops -> Seq(Functor)]
    BY DEF TypeInv, TypeOK
  <1>2. CASE k = l
    <2>1. m_pendingFunctors'[k] = Append(m_pendingFunctors[k], g)
      BY <1>1, <1>2 DEF queueInLoop
    <2>2. m_pendingFunctors[k] \in Seq(Functor)
      BY <1>1
    <2>3. QED BY <1>2, <2>1, <2>2, HasAppend
  <1>3. CASE k # l
    <2>1. m_pendingFunctors'[k] = m_pendingFunctors[k]
      BY <1>1, <1>3 DEF queueInLoop
    <2>2. QED BY <1>3, <2>1
  <1>4. QED BY <1>2, <1>3

\* What running a functor does to the functors of every loop.
LEMMA QueueRun ==
    ASSUME TypeInv, NEW l \in Loops, NEW name, Runs(l, name)
    PROVE  /\ \A k \in Loops : \A f : Has(functors[k], f)
                                  <=> Has(functors'[k], f) \/ (k = l /\ f = Head(functors[l]))
           /\ name # "sendInLoop" =>
                Head(functors[l]) = Shared(name, Head(functors[l]).conn)
           /\ name = "sendInLoop" => \A n \in FunctorName : \A d :
                Shared(n, d) # Head(functors[l])
           /\ \A k \in Loops : functors[k] = <<>> => functors'[k] = <<>>
  <1>1. functors \in [Loops -> Seq(Functor)] /\ functors[l] # <<>>
    BY DEF TypeInv, TypeOK, Runs
  <1>2. functors' = [functors EXCEPT ![l] = Tail(@)] /\ Head(functors[l]).fn = name
    BY DEF Runs
  <1>3. functors[l] \in Seq(Functor)
    BY <1>1
  <1>4. ASSUME NEW k \in Loops, NEW f
        PROVE  Has(functors[k], f) <=> Has(functors'[k], f) \/ (k = l /\ f = Head(functors[l]))
    <2>1. CASE k = l
      <3>1. functors'[k] = Tail(functors[k])
        BY <1>1, <1>2, <2>1
      <3>2. QED BY <1>1, <1>3, <2>1, <3>1, HasTail
    <2>2. CASE k # l
      <3>1. functors'[k] = functors[k]
        BY <1>1, <1>2, <2>2
      <3>2. QED BY <2>2, <3>1
    <2>3. QED BY <2>1, <2>2
  <1>5. name # "sendInLoop" => Head(functors[l]) = Shared(name, Head(functors[l]).conn)
    BY <1>1, <1>2, <1>3, HeadType
  <1>6. name = "sendInLoop" => \A n \in FunctorName : \A d : Shared(n, d) # Head(functors[l])
    BY <1>2 DEF FunctorName, Shared
  <1>7. \A k \in Loops : functors[k] = <<>> => functors'[k] = <<>>
    BY <1>1, <1>2
  <1>8. QED BY <1>4, <1>5, <1>6, <1>7

\* A step that at most leaves callbacks.
Leaves ==
    \A l \in Loops :
        \/ current'[l] = current[l]
        \/ current'[l] = NoEvent
        \/ /\ current[l].conn # NoConn
           /\ current'[l].conn = current[l].conn
           /\ current'[l].todo \subseteq current[l].todo

\* ... and that neither adds nor drops what LifetimeInv looks for, except
\* that it may be done with closing connection c.
QueuesKept(c) ==
    \A l \in Loops :
        /\ functors[l] = <<>> => functors'[l] = <<>>
        /\ \A d \in Conns :
             /\ Queued(l, "removeConnectionInLoop", d)' <=> Queued(l, "removeConnectionInLoop", d)
             /\ Queued(l, "connectDestroyed", d)' <=> Queued(l, "connectDestroyed", d)
             /\ d # c =>
                  /\ Has(functors[l], Shared("forceCloseInLoop", d))
                       => Has(functors[l], Shared("forceCloseInLoop", d))'
                  /\ Has(m_pendingFunctors[l], Shared("forceCloseInLoop", d))
                       => Has(m_pendingFunctors[l], Shared("forceCloseInLoop", d))'

\* Leaving callbacks keeps the discipline of the loops.
LEMMA DisciplineFrame ==
    ASSUME TypeInv, LoopDiscipline, Leaves, UNCHANGED <<m_loop, polled, m_activeChannels>>,
           \A l \in Loops : functors[l] = <<>> => functors'[l] = <<>>
    PROVE  LoopDiscipline'
  <1>1. NoEvent.conn = NoConn
    BY DEF NoEvent
  <1>2. SUFFICES ASSUME NEW l \in Loops
                 PROVE  /\ \A c \in m_activeChannels[l] : m_loop[c] = l
                        /\ current'[l].conn = NoConn => current'[l] = NoEvent
                        /\ current'[l].conn # NoConn =>
                             /\ m_loop[current'[l].conn] = l
                             /\ current'[l].conn \notin m_activeChannels[l]
                        /\ functors'[l] # <<>> =>
                             m_activeChannels[l] = {} /\ current'[l] = NoEvent
                        /\ m_activeChannels[l] # {} \/ current'[l] # NoEvent => polled[l]
    BY DEF LoopDiscipline, NoEvent
  <1>3. /\ \A c \in m_activeChannels[l] : m_loop[c] = l
        /\ current[l].conn = NoConn => current[l] = NoEvent
        /\ current[l].conn # NoConn => /\ m_loop[current[l].conn] = l
                                       /\ current[l].conn \notin m_activeChannels[l]
        /\ functors[l] # <<>> => m_activeChannels[l] = {} /\ current[l] = NoEvent
        /\ m_activeChannels[l] # {} \/ current[l] # NoEvent => polled[l]
    BY DEF LoopDiscipline
  <1>4. CASE current'[l] = current[l]
    BY <1>3, <1>4
  <1>5. CASE current'[l] = NoEvent
    BY <1>1, <1>3, <1>5
  <1>6. CASE current[l].conn # NoConn /\ current'[l].conn = current[l].conn
    BY <1>1, <1>3, <1>6
  <1>7. QED BY <1>4, <1>5, <1>6 DEF Leaves

\* Leaving callbacks puts no channel in use.
LEMMA LeavesInUse ==
    ASSUME TypeInv, Leaves, UNCHANGED m_activeChannels, NEW c \in Conns
    PROVE  /\ ~InUse(c) => ~InUse(c)'
           /\ \A l \in Loops : current'[l].conn = c => /\ current[l].conn = c
                                                       /\ current'[l].todo \subseteq current[l].todo
  BY ConnAssumption DEF Leaves, InUse, NoEvent

\* A step that moves nothing along the chain.
LEMMA LifetimeFrame ==
    ASSUME TypeInv, LifetimeInv, Leaves, NEW x, QueuesKept(x),
           x \in Conns => m_state[x] # "kDisconnecting",
           UNCHANGED <<m_state, m_loop, m_connections, m_index, epoll, polled,
                       m_activeChannels, callbacks>>,
           \A c \in Conns : m_state[c] = "kDisconnected" => m_events'[c] \subseteq m_events[c]
    PROVE  LifetimeInv'
  <1>1. LoopDiscipline'
    BY DisciplineFrame DEF LifetimeInv, QueuesKept
  <1>2. ASSUME NEW c \in Conns
        PROVE  /\ NotYetPolled(c)'
               /\ HeldWhileOpen(c)'
               /\ OnItsWayOut(c)'
               /\ OnlyClosedRemoved(c)'
               /\ CloseIsComing(c)'
    <2>1. NotYetPolled(c)'
      BY LeavesInUse DEF LifetimeInv, NotYetPolled
    <2>2. HeldWhileOpen(c)'
      BY DEF LifetimeInv, HeldWhileOpen
    <2>3. OnItsWayOut(c)'
      <3>1. MainLoop \in Loops /\ m_loop[c] \in Loops
        BY DEF TypeInv, TypeOK, Loops
      <3>2. m_state[c] = "kDisconnected" => m_events'[c] = {} /\ c \notin epoll'
        BY DEF LifetimeInv, OnItsWayOut
      <3>3. QED BY <3>1, <3>2, LeavesInUse DEF LifetimeInv, OnItsWayOut, QueuesKept
    <2>4. OnlyClosedRemoved(c)'
      BY DEF LifetimeInv, OnlyClosedRemoved, QueuesKept
    <2>5. CloseIsComing(c)'
      <3>1. SUFFICES ASSUME m_state[c] = "kDisconnecting" PROVE CloseIsComing(c)'
        BY DEF CloseIsComing
      <3>2. c # x /\ m_loop[c] \in Loops
        BY <3>1 DEF TypeInv, TypeOK
      <3>3. QED BY <3>1, <3>2, LeavesInUse DEF LifetimeInv, CloseIsComing, QueuesKept
    <2>6. QED BY <2>1, <2>2, <2>3, <2>4, <2>5
  <1>3. QED BY <1>1, <1>2 DEF LifetimeInv
\* The part of QueuesKept about the functors swapped out already.
FunctorsKept(c) ==
    \A l \in Loops :
        /\ functors[l] = <<>> => functors'[l] = <<>>
        /\ \A d \in Conns :
             /\ Has(functors[l], Shared("removeConnectionInLoop", d))'
                  <=> Has(functors[l], Shared("removeConnectionInLoop", d))
             /\ Has(functors[l], Shared("connectDestroyed", d))'
                  <=> Has(functors[l], Shared("connectDestroyed", d))
             /\ d # c => (Has(functors[l], Shared("forceCloseInLoop", d))
                            => Has(functors[l], Shared("forceCloseInLoop", d))')

\* Nothing is queued.
LEMMA KeptUnqueued ==
    ASSUME NEW c, FunctorsKept(c), UNCHANGED m_pendingFunctors
    PROVE  QueuesKept(c)
  BY DEF FunctorsKept, QueuesKept, Queued

\* No functor runs.
LEMMA KeptUnchanged ==
    ASSUME NEW c, UNCHANGED functors
    PROVE  FunctorsKept(c)
  BY DEF FunctorsKept

\* Running a functor that is no link of the chain.
LEMMA KeptRun ==
    ASSUME TypeInv, NEW l \in Loops,
           NEW name \in {"connectEstablished", "sendInLoop", "forceCloseInLoop"}, Runs(l, name)
    PROVE  FunctorsKept(Head(functors[l]).conn)
  <1>1. ASSUME NEW n \in FunctorName, NEW d \in Conns, NEW k \in Loops
        PROVE  /\ Has(functors'[k], Shared(n, d)) => Has(functors[k], Shared(n, d))
               /\ n # name \/ d # Head(functors[l]).conn =>
                    (Has(functors[k], Shared(n, d)) => Has(functors'[k], Shared(n, d)))
    BY QueueRun, SharedInjective
  <1>2. {"removeConnectionInLoop", "connectDestroyed", "forceCloseInLoop"} \subseteq FunctorName
    BY DEF FunctorName
  <1>3. \A k \in Loops : functors[k] = <<>> => functors'[k] = <<>>
    BY QueueRun
  <1>4. QED BY <1>1, <1>2, <1>3 DEF FunctorsKept

\* Leaving a callback.
LEMMA ReturnsLeaves ==
    ASSUME TypeInv, NEW l \in Loops, NEW cb, Returns(l, cb), current[l].conn \in Conns
    PROVE  Leaves
  BY ReturnsType, ConnAssumption DEF Leaves

\* handleClose begins the chain: whatever made it run, the connection is in
\* m_connections and removeConnectionInLoop is now queued for it.
LEMMA LifetimeClose ==
    ASSUME TypeInv, LifetimeInv, Leaves, NEW c \in Conns, FunctorsKept(c), handleClose(c),
           m_state[c] \in {"kConnected", "kDisconnecting", "kDisconnected"},
           UNCHANGED <<m_loop, m_connections, polled, m_activeChannels>>
    PROVE  LifetimeInv'
  <1>1. CASE m_state[c] = "kDisconnected"
    <2>1. UNCHANGED <<m_state, m_events, m_index, epoll, callbacks, m_pendingFunctors>>
      BY <1>1 DEF handleClose, pollVars
    <2>2. QueuesKept(c)
      BY <2>1, KeptUnqueued
    <2>3. QED BY <1>1, <2>1, <2>2, LifetimeFrame
  <1>2. CASE m_state[c] # "kDisconnected"
    <2>1. /\ m_state' = [m_state EXCEPT ![c] = "kDisconnected"]
          /\ m_events' = [m_events EXCEPT ![c] = {}]
          /\ m_index' = [m_index EXCEPT ![c] = IF c \in epoll THEN "kDeleted" ELSE @]
          /\ epoll' = epoll \ {c}
          /\ callbacks' = [callbacks EXCEPT ![c].down = @ + 1]
          /\ queueInLoop(MainLoop, Shared("removeConnectionInLoop", c))
      BY <1>2 DEF handleClose
    <2>2. /\ \A d \in Conns : d # c => m_state'[d] = m_state[d]
          /\ m_state'[c] = "kDisconnected"
          /\ \A d \in Conns : d # c => m_events'[d] = m_events[d]
          /\ m_events'[c] = {}
          /\ \A d \in Conns : d # c => m_index'[d] = m_index[d]
          /\ \A d \in Conns : d # c => callbacks'[d] = callbacks[d]
      BY <2>1 DEF TypeInv, TypeOK
    <2>3. Shared("removeConnectionInLoop", c) \in Functor /\ MainLoop \in Loops
      BY SharedType DEF FunctorName, Loops
    <2>4. \A k \in Loops : \A f : Has(m_pendingFunctors'[k], f) <=>
            Has(m_pendingFunctors[k], f) \/ (k = MainLoop /\ f = Shared("removeConnectionInLoop", c))
      BY <2>1, <2>3, QueueAppend
    <2>5. \A k \in Loops, d \in Conns :
            /\ Queued(k, "removeConnectionInLoop", d)'
                 <=> Queued(k, "removeConnectionInLoop", d) \/ (k = MainLoop /\ d = c)
            /\ Queued(k, "connectDestroyed", d)' <=> Queued(k, "connectDestroyed", d)
            /\ d # c => /\ Has(functors[k], Shared("forceCloseInLoop", d))
                             => Has(functors'[k], Shared("forceCloseInLoop", d))
                        /\ Has(m_pendingFunctors[k], Shared("forceCloseInLoop", d))
                             => Has(m_pendingFunctors'[k], Shared("forceCloseInLoop", d))
      BY SMTT(40), <2>4, SharedInjective DEF Queued, FunctorsKept
    <2>6. LoopDiscipline'
      BY DisciplineFrame DEF LifetimeInv, FunctorsKept
    <2>7. ASSUME NEW d \in Conns
          PROVE  /\ NotYetPolled(d)'
                 /\ HeldWhileOpen(d)'
                 /\ OnItsWayOut(d)'
                 /\ OnlyClosedRemoved(d)'
                 /\ CloseIsComing(d)'
      <3>1. NotYetPolled(d)'
        BY <2>1, <2>2, LeavesInUse DEF LifetimeInv, NotYetPolled
      <3>2. HeldWhileOpen(d)'
        BY <2>2 DEF LifetimeInv, HeldWhileOpen
      <3>3. OnItsWayOut(d)'
        <4>1. CASE d = c
          <5>1. c \in m_connections'
            BY <1>2 DEF LifetimeInv, HeldWhileOpen
          <5>2. QED BY <4>1, <5>1, <2>1, <2>2, <2>3, <2>5 DEF OnItsWayOut
        <4>2. CASE d # c
          <5>1. m_loop[d] \in Loops
            BY DEF TypeInv, TypeOK
          <5>2. OnItsWayOut(d)
            BY DEF LifetimeInv
          <5>3. QED BY <4>2, <5>1, <5>2, <2>1, <2>2, <2>3, <2>5, LeavesInUse DEF OnItsWayOut
        <4>3. QED BY <4>1, <4>2
      <3>4. OnlyClosedRemoved(d)'
        <4>1. OnlyClosedRemoved(d)
          BY DEF LifetimeInv
        <4>2. QED BY <4>1, <1>2, <2>2, <2>5 DEF OnlyClosedRemoved
      <3>5. CloseIsComing(d)'
        <4>1. CASE d = c
          BY <4>1, <2>2 DEF CloseIsComing
        <4>2. CASE d # c
          <5>1. m_loop[d] \in Loops /\ CloseIsComing(d)
            BY DEF TypeInv, TypeOK, LifetimeInv
          <5>2. QED BY <4>2, <5>1, <2>2, <2>5, LeavesInUse DEF CloseIsComing
        <4>3. QED BY <4>1, <4>2
      <3>6. QED BY <3>1, <3>2, <3>3, <3>4, <3>5
    <2>8. QED BY <2>6, <2>7 DEF LifetimeInv
  <1>3. QED BY <1>1, <1>2
\* A connection whose channel is being handled has left kConnecting.
LEMMA HandledIsOpen ==
    ASSUME TypeInv, LifetimeInv, NEW l \in Loops, NEW cb, cb \in current[l].todo
    PROVE  /\ current[l].conn \in Conns
           /\ m_state[current[l].conn] \in {"kConnected", "kDisconnecting", "kDisconnected"}
  <1>1. current[l].conn \in Conns
    BY CallbackConn
  <1>2. InUse(current[l].conn) /\ NotYetPolled(current[l].conn)
    BY <1>1 DEF InUse, LifetimeInv
  <1>3. m_state[current[l].conn] \in StateE
    BY <1>1 DEF TypeInv, TypeOK
  <1>4. QED BY <1>1, <1>2, <1>3 DEF NotYetPolled, StateE

\* poll reports only registered channels: open connections of this loop, none
\* of them waiting for forceCloseInLoop.
LEMMA LifetimePoll ==
    ASSUME TypeInv, LifetimeInv, NEW l \in Loops, poll(l)
    PROVE  LifetimeInv'
  <1> USE DEF pollVars, outVars
  <1>1. PICK A \in SUBSET Watched(l) : m_activeChannels' = [m_activeChannels EXCEPT ![l] = A]
    BY DEF poll
  <1>2. /\ m_activeChannels'[l] = A
        /\ \A k \in Loops : k # l => m_activeChannels'[k] = m_activeChannels[k]
        /\ polled'[l] = TRUE
        /\ \A k \in Loops : k # l => polled'[k] = polled[k]
    BY <1>1 DEF poll, TypeInv, TypeOK
  <1>3. UNCHANGED <<m_state, m_loop, m_connections, m_events, m_index, epoll,
                    m_pendingFunctors, functors, current, callbacks>>
    BY DEF poll
  <1>4. current[l] = NoEvent /\ functors[l] = <<>> /\ ~polled[l]
    BY DEF poll, AtRest
  <1>5. \A c \in A : c \in epoll /\ m_loop[c] = l
    BY DEF Watched
  <1>6. \A c \in Conns : InUse(c)' => InUse(c) \/ c \in epoll
    BY <1>2, <1>3, <1>5 DEF InUse
  <1>7. LoopDiscipline'
    BY <1>2, <1>3, <1>4, <1>5 DEF LifetimeInv, LoopDiscipline, NoEvent
  <1>8. ASSUME NEW c \in Conns
        PROVE  /\ NotYetPolled(c)'
               /\ HeldWhileOpen(c)'
               /\ OnItsWayOut(c)'
               /\ OnlyClosedRemoved(c)'
               /\ CloseIsComing(c)'
    <2>1. NotYetPolled(c)'
      BY <1>3, <1>6 DEF LifetimeInv, NotYetPolled
    <2>2. HeldWhileOpen(c)'
      BY <1>3 DEF LifetimeInv, HeldWhileOpen
    <2>3. OnItsWayOut(c)'
      BY <1>3, <1>6 DEF LifetimeInv, OnItsWayOut, Queued
    <2>4. OnlyClosedRemoved(c)'
      BY <1>3 DEF LifetimeInv, OnlyClosedRemoved, Queued
    <2>5. CloseIsComing(c)'
      <3>1. CloseIsComing(c) /\ m_loop[c] \in Loops
        BY DEF LifetimeInv, TypeInv, TypeOK
      <3>2. m_state[c] = "kDisconnecting" => m_loop[c] # l
        BY <1>4, <3>1, HasNothing DEF CloseIsComing
      <3>3. QED BY <1>2, <1>3, <1>5, <3>1, <3>2 DEF CloseIsComing
    <2>6. QED BY <2>1, <2>2, <2>3, <2>4, <2>5
  <1>9. QED BY <1>7, <1>8 DEF LifetimeInv

\* handleEvent takes a channel out of the poll result into use.
LEMMA LifetimeHandleEvent ==
    ASSUME TypeInv, LifetimeInv, NEW l \in Loops, NEW x \in Conns, handleEvent(l, x)
    PROVE  LifetimeInv'
  <1> USE DEF pollVars, loopVars, outVars
  <1>1. PICK r \in Revents(x) :
          current' = [current EXCEPT ![l] =
                        [conn |-> x, todo |-> CallbacksFor(r), inCallback |-> FALSE]]
    BY DEF handleEvent
  <1>2. /\ current'[l].conn = x
        /\ \A k \in Loops : k # l => current'[k] = current[k]
        /\ m_activeChannels'[l] = m_activeChannels[l] \ {x}
        /\ \A k \in Loops : k # l => m_activeChannels'[k] = m_activeChannels[k]
    BY <1>1 DEF handleEvent, TypeInv, TypeOK
  <1>3. UNCHANGED <<m_state, m_loop, m_connections, m_events, m_index, epoll,
                    m_pendingFunctors, functors, polled, callbacks>>
    BY DEF handleEvent
  <1>4. current[l] = NoEvent /\ functors[l] = <<>> /\ x \in m_activeChannels[l]
    BY DEF handleEvent, AtRest
  <1>5. \A c \in Conns : InUse(c)' => InUse(c)
    BY <1>2, <1>3, <1>4 DEF InUse
  <1>6. LoopDiscipline'
    BY <1>2, <1>3, <1>4, ConnAssumption DEF LifetimeInv, LoopDiscipline, NoEvent
  <1>7. ASSUME NEW c \in Conns
        PROVE  /\ NotYetPolled(c)'
               /\ HeldWhileOpen(c)'
               /\ OnItsWayOut(c)'
               /\ OnlyClosedRemoved(c)'
               /\ CloseIsComing(c)'
    <2>1. NotYetPolled(c)'
      BY <1>3, <1>5 DEF LifetimeInv, NotYetPolled
    <2>2. HeldWhileOpen(c)'
      BY <1>3 DEF LifetimeInv, HeldWhileOpen
    <2>3. OnItsWayOut(c)'
      BY <1>3, <1>5 DEF LifetimeInv, OnItsWayOut, Queued
    <2>4. OnlyClosedRemoved(c)'
      BY <1>3 DEF LifetimeInv, OnlyClosedRemoved, Queued
    <2>5. CloseIsComing(c)'
      <3>1. CloseIsComing(c)
        BY DEF LifetimeInv
      <3>2. QED BY <1>2, <1>3, <1>4, <3>1 DEF CloseIsComing
    <2>6. QED BY <2>1, <2>2, <2>3, <2>4, <2>5
  <1>8. QED BY <1>6, <1>7 DEF LifetimeInv

\* doOtherTasks swaps a loop's functors out; none is lost or added.
LEMMA LifetimeSwap ==
    ASSUME TypeInv, LifetimeInv, NEW l \in Loops, doOtherTasks(l)
    PROVE  LifetimeInv'
  <1> USE DEF pollVars, outVars
  <1>1. /\ functors'[l] = m_pendingFunctors[l]
        /\ m_pendingFunctors'[l] = <<>>
        /\ polled'[l] = FALSE
        /\ \A k \in Loops : k # l => /\ functors'[k] = functors[k]
                                     /\ m_pendingFunctors'[k] = m_pendingFunctors[k]
                                     /\ polled'[k] = polled[k]
    BY DEF doOtherTasks, TypeInv, TypeOK
  <1>2. UNCHANGED <<m_state, m_loop, m_connections, m_events, m_index, epoll,
                    m_activeChannels, current, callbacks>>
    BY DEF doOtherTasks
  <1>3. functors[l] = <<>> /\ m_activeChannels[l] = {} /\ current[l] = NoEvent
    BY DEF doOtherTasks, AtRest
  <1>4. \A k \in Loops, c \in Conns : \A n : Queued(k, n, c)' <=> Queued(k, n, c)
    BY <1>1, <1>3, HasNothing DEF Queued
  <1>5. \A c \in Conns : InUse(c)' <=> InUse(c)
    BY <1>2 DEF InUse
  <1>6. LoopDiscipline'
    BY <1>1, <1>2, <1>3 DEF LifetimeInv, LoopDiscipline, NoEvent
  <1>7. ASSUME NEW c \in Conns
        PROVE  /\ NotYetPolled(c)'
               /\ HeldWhileOpen(c)'
               /\ OnItsWayOut(c)'
               /\ OnlyClosedRemoved(c)'
               /\ CloseIsComing(c)'
    <2> MainLoop \in Loops /\ m_loop[c] \in Loops
      BY DEF Loops, TypeInv, TypeOK
    <2>1. NotYetPolled(c)'
      BY <1>2, <1>5 DEF LifetimeInv, NotYetPolled
    <2>2. HeldWhileOpen(c)'
      BY <1>2 DEF LifetimeInv, HeldWhileOpen
    <2>3. OnItsWayOut(c)'
      BY <1>2, <1>4, <1>5 DEF LifetimeInv, OnItsWayOut
    <2>4. OnlyClosedRemoved(c)'
      BY <1>2, <1>4 DEF LifetimeInv, OnlyClosedRemoved
    <2>5. CloseIsComing(c)'
      <3>1. CloseIsComing(c)
        BY DEF LifetimeInv
      <3>2. QED BY <1>1, <1>2, <1>3, <3>1, HasNothing DEF CloseIsComing
    <2>6. QED BY <2>1, <2>2, <2>3, <2>4, <2>5
  <1>8. QED BY <1>6, <1>7 DEF LifetimeInv

\* The callbacks of a channel.
LEMMA LifetimeLoop ==
    ASSUME TypeInv, LifetimeInv, NEW l \in Loops,
           \/ onCloseEvent(l)
           \/ handleReadData(l)
           \/ handleReadEnd(l)
           \/ handleWrite(l)
           \/ handleWriteFails(l)
    PROVE  LifetimeInv'
  <1> USE DEF pollVars, loopVars, outVars
  <1>1. ASSUME NEW cb, cb \in current[l].todo, Returns(l, cb), handleClose(current[l].conn),
               UNCHANGED <<m_loop, m_connections, loopVars, m_activeChannels>>
        PROVE  LifetimeInv'
    <2>1. /\ current[l].conn \in Conns
          /\ m_state[current[l].conn] \in {"kConnected", "kDisconnecting", "kDisconnected"}
      BY <1>1, HandledIsOpen
    <2>2. Leaves /\ FunctorsKept(current[l].conn)
      BY <1>1, <2>1, ReturnsLeaves, KeptUnchanged
    <2>3. QED BY <1>1, <2>1, <2>2, LifetimeClose
  <1>2. CASE onCloseEvent(l)
    BY <1>1, <1>2 DEF onCloseEvent, Calls
  <1>3. CASE handleReadEnd(l)
    BY <1>1, <1>3 DEF handleReadEnd, Calls
  <1>4. CASE handleWriteFails(l)
    BY <1>1, <1>4 DEF handleWriteFails, Calls
  <1>5. CASE handleReadData(l)
    <2>1. current[l].conn \in Conns
      BY <1>5, HandledIsOpen DEF handleReadData, Calls
    <2>2. Leaves
      BY <1>5, <2>1, ConnAssumption DEF handleReadData, Leaves, TypeInv, TypeOK
    <2>3. QueuesKept(NoConn)
      BY <1>5, KeptUnchanged, KeptUnqueued DEF handleReadData
    <2>4. QED
      BY <1>5, <2>2, <2>3, ConnAssumption, LifetimeFrame DEF handleReadData
  <1>6. CASE handleWrite(l)
    <2>1. current[l].conn \in Conns
      BY <1>6, HandledIsOpen DEF handleWrite, Calls
    <2>2. Leaves
      BY <1>6, <2>1, ReturnsLeaves DEF handleWrite
    <2>3. QueuesKept(NoConn)
      BY <1>6, KeptUnchanged, KeptUnqueued DEF handleWrite
    <2>4. \A c \in Conns : m_events'[c] \subseteq m_events[c]
      <3>1. \/ UNCHANGED m_events
            \/ m_events' = [m_events EXCEPT ![current[l].conn] = @ \ {"write"}]
        BY <1>6 DEF handleWrite
      <3>2. m_events \in [Conns -> SUBSET {"read", "write"}]
        BY DEF TypeInv, TypeOK
      <3>3. QED BY <3>1, <3>2
    <2>5. QED
      BY <1>6, <2>2, <2>3, <2>4, ConnAssumption, LifetimeFrame DEF handleWrite
  <1>7. QED BY <1>2, <1>3, <1>4, <1>5, <1>6
\* sendInLoop touches no closed connection.
LEMMA SendEvents ==
    ASSUME TypeInv, NEW x \in Conns, NEW msg, sendInLoop(x, msg)
    PROVE  \A c \in Conns : m_state[c] = "kDisconnected" => m_events'[c] \subseteq m_events[c]
  <1>1. \/ UNCHANGED m_events
        \/ /\ m_state[x] # "kDisconnected"
           /\ m_events' = [m_events EXCEPT ![x] = @ \cup {"write"}]
    BY DEF sendInLoop
  <1>2. m_events \in [Conns -> SUBSET {"read", "write"}]
    BY DEF TypeInv, TypeOK
  <1>3. QED BY <1>1, <1>2

\* forceClose: the functor that will close the connection is queued in its own
\* loop, which is still handling the events of this poll.
LEMMA LifetimeForceClose ==
    ASSUME TypeInv, LifetimeInv, NEW l \in Loops, forceClose(l)
    PROVE  LifetimeInv'
  <1> USE DEF pollVars, loopVars, outVars
  <1> DEFINE x == current[l].conn
  <1>1. x \in Conns /\ current[l] # NoEvent
    BY CallbackConn DEF forceClose, InCallback
  <1>2. Leaves /\ UNCHANGED <<m_loop, m_connections, m_events, m_index, epoll, functors, polled,
                              m_activeChannels, callbacks>>
    BY <1>1, ReturnsLeaves DEF forceClose
  <1>3. CASE UNCHANGED <<m_state, m_pendingFunctors>>
    <2>1. QueuesKept(NoConn)
      BY <1>2, <1>3, KeptUnchanged, KeptUnqueued
    <2>2. QED BY <1>2, <1>3, <2>1, ConnAssumption, LifetimeFrame
  <1>4. CASE /\ m_state[x] \in {"kConnected", "kDisconnecting"}
             /\ m_state' = [m_state EXCEPT ![x] = "kDisconnecting"]
             /\ queueInLoop(m_loop[x], Shared("forceCloseInLoop", x))
    <2>1. /\ m_state'[x] = "kDisconnecting"
          /\ \A c \in Conns : c # x => m_state'[c] = m_state[c]
      BY <1>1, <1>4 DEF TypeInv, TypeOK
    <2>2. Shared("forceCloseInLoop", x) \in Functor /\ m_loop[x] \in Loops
      BY <1>1, SharedType DEF FunctorName, TypeInv, TypeOK
    <2>3. \A k \in Loops : \A f : Has(m_pendingFunctors'[k], f) <=>
            Has(m_pendingFunctors[k], f) \/ (k = m_loop[x] /\ f = Shared("forceCloseInLoop", x))
      BY <1>4, <2>2, QueueAppend
    <2>4. \A k \in Loops, c \in Conns :
            /\ Queued(k, "removeConnectionInLoop", c)' <=> Queued(k, "removeConnectionInLoop", c)
            /\ Queued(k, "connectDestroyed", c)' <=> Queued(k, "connectDestroyed", c)
      BY <1>2, <2>3, SharedInjective DEF Queued
    <2>5. m_loop[x] = l /\ polled[l] /\ x \notin m_activeChannels[l]
      BY <1>1, ConnAssumption DEF LifetimeInv, LoopDiscipline
    <2>6. LoopDiscipline'
      BY <1>2, DisciplineFrame DEF LifetimeInv
    <2>7. ASSUME NEW c \in Conns
          PROVE  /\ NotYetPolled(c)'
                 /\ HeldWhileOpen(c)'
                 /\ OnItsWayOut(c)'
                 /\ OnlyClosedRemoved(c)'
                 /\ CloseIsComing(c)'
      <3>0. MainLoop \in Loops /\ m_loop[c] \in Loops
        BY DEF Loops, TypeInv, TypeOK
      <3>1. NotYetPolled(c)'
        BY <1>2, <2>1, LeavesInUse DEF LifetimeInv, NotYetPolled
      <3>2. HeldWhileOpen(c)'
        BY <1>2, <1>4, <2>1 DEF LifetimeInv, HeldWhileOpen
      <3>3. OnItsWayOut(c)'
        BY <1>2, <2>1, <2>4, <3>0, LeavesInUse DEF LifetimeInv, OnItsWayOut
      <3>4. OnlyClosedRemoved(c)'
        <4>1. OnlyClosedRemoved(c)
          BY DEF LifetimeInv
        <4>2. QED BY <1>2, <1>4, <2>1, <2>4, <4>1 DEF OnlyClosedRemoved
      <3>5. CloseIsComing(c)'
        <4>1. CASE c = x
          <5>1. \A k \in Loops : /\ c \notin m_activeChannels'[k]
                                 /\ current'[k].conn = c => "read" \notin current'[k].todo
            <6>1. ASSUME NEW k \in Loops, k # l
                  PROVE  c \notin m_activeChannels'[k] /\ current'[k].conn # c
              BY <1>2, <2>5, <4>1, <6>1, ConnAssumption, LeavesInUse
                 DEF LifetimeInv, LoopDiscipline
            <6>2. current'[l].conn = c => "read" \notin current'[l].todo
              <7>1. Returns(l, "read")
                BY DEF forceClose
              <7>2. current'[l] = NoEvent \/ current'[l].todo = current[l].todo \ {"read"}
                BY <1>1, <7>1, ReturnsType
              <7>3. QED BY <7>2 DEF NoEvent
            <6>3. QED BY <1>2, <2>5, <4>1, <6>1, <6>2
          <5>2. /\ Has(m_pendingFunctors'[m_loop[c]], Shared("forceCloseInLoop", c))
                /\ polled'[m_loop[c]]
            BY <1>2, <2>2, <2>3, <2>5, <4>1
          <5>3. QED BY <1>2, <5>1, <5>2 DEF CloseIsComing
        <4>2. CASE c # x
          <5>1. CloseIsComing(c)
            BY DEF LifetimeInv
          <5>2. QED BY <1>2, <2>1, <2>3, <3>0, <4>2, <5>1, LeavesInUse DEF CloseIsComing
        <4>3. QED BY <4>1, <4>2
      <3>6. QED BY <3>1, <3>2, <3>3, <3>4, <3>5
    <2>8. QED BY <2>6, <2>7 DEF LifetimeInv
  <1>5. QED BY <1>3, <1>4 DEF forceClose

\* The steps of a message callback.
LEMMA LifetimeCallback ==
    ASSUME TypeInv, LifetimeInv, NEW l \in Loops, CallbackStep(l)
    PROVE  LifetimeInv'
  <1> USE DEF pollVars, loopVars, outVars
  <1>1. ASSUME UNCHANGED current PROVE Leaves
    BY <1>1 DEF Leaves
  <1>2. ASSUME UNCHANGED <<functors, m_pendingFunctors>> PROVE QueuesKept(NoConn)
    BY <1>2, KeptUnchanged, KeptUnqueued
  <1>3. ASSUME NEW c \in Conns, NEW body \in Payload, sendHere(l, c, body) PROVE LifetimeInv'
    <2>1. \A d \in Conns : m_state[d] = "kDisconnected" => m_events'[d] \subseteq m_events[d]
      BY <1>3, SendEvents DEF sendHere
    <2>2. Leaves /\ QueuesKept(NoConn)
      BY <1>1, <1>2, <1>3 DEF sendHere
    <2>3. QED BY <1>3, <2>1, <2>2, ConnAssumption, LifetimeFrame DEF sendHere
  <1>4. ASSUME NEW c \in Conns, NEW body \in Payload, sendChecked(l, c, body) PROVE LifetimeInv'
    <2>1. Leaves /\ QueuesKept(NoConn)
      BY <1>1, <1>2, <1>4 DEF sendChecked
    <2>2. QED BY <1>4, <2>1, ConnAssumption, LifetimeFrame DEF sendChecked
  <1>5. CASE sendQueued(l)
    <2>1. sending[l].conn \in Conns /\ sending[l].msg \in Msg
      BY <1>5 DEF sendQueued, TypeInv, TypeOK
    <2>2. /\ RawSend(sending[l].conn, sending[l].msg) \in Functor
          /\ m_loop[sending[l].conn] \in Loops
      BY <2>1, RawSendType DEF TypeInv, TypeOK
    <2>3. \A k \in Loops : \A f : Has(m_pendingFunctors'[k], f) <=>
            \/ Has(m_pendingFunctors[k], f)
            \/ k = m_loop[sending[l].conn] /\ f = RawSend(sending[l].conn, sending[l].msg)
      BY <1>5, <2>2, QueueAppend DEF sendQueued
    <2>4. \A k \in Loops : \A n, d : n # "sendInLoop" =>
            (Has(m_pendingFunctors'[k], Shared(n, d)) <=> Has(m_pendingFunctors[k], Shared(n, d)))
      BY <2>3, RawSendNotShared
    <2>5. UNCHANGED functors
      BY <1>5 DEF sendQueued
    <2>6. QueuesKept(NoConn)
      BY <2>4, <2>5 DEF QueuesKept, Queued
    <2>7. Leaves
      BY <1>1, <1>5 DEF sendQueued
    <2>8. QED BY <1>5, <2>6, <2>7, ConnAssumption, LifetimeFrame DEF sendQueued
  <1>6. CASE messageReturn(l)
    <2>1. Leaves
      BY <1>6, CallbackConn, ReturnsLeaves DEF messageReturn, InCallback
    <2>2. QueuesKept(NoConn)
      BY <1>2, <1>6 DEF messageReturn
    <2>3. QED BY <1>6, <2>1, <2>2, ConnAssumption, LifetimeFrame DEF messageReturn
  <1>7. CASE forceClose(l)
    BY <1>7, LifetimeForceClose
  <1>8. QED BY <1>3, <1>4, <1>5, <1>6, <1>7 DEF CallbackStep
\* connectEstablished: up and registered, or closed at once.
LEMMA LifetimeEstablished ==
    ASSUME TypeInv, LifetimeInv, NEW l \in Loops,
           connectEstablished(l) \/ connectEstablishedFails(l)
    PROVE  LifetimeInv'
  <1> USE DEF pollVars, outVars
  <1> DEFINE x == Head(functors[l]).conn
  <1>1. Runs(l, "connectEstablished")
    BY DEF connectEstablished, connectEstablishedFails
  <1>2. x \in Conns /\ FunctorsKept(x)
    BY <1>1, RunsType, KeptRun
  <1>3. UNCHANGED <<m_loop, polled, m_activeChannels, current, m_connections>>
    BY <1>1 DEF Runs, connectEstablished, connectEstablishedFails
  <1>4. Leaves
    BY <1>3 DEF Leaves
  <1>5. LoopDiscipline'
    BY <1>2, <1>3, <1>4, DisciplineFrame DEF LifetimeInv, FunctorsKept
  <1>6. \A k \in Loops, c \in Conns :
          Has(functors[k], Shared("forceCloseInLoop", c))
            => Has(functors'[k], Shared("forceCloseInLoop", c))
    BY <1>1, QueueRun, SharedInjective
  <1>7. CASE connectEstablished(l) /\ m_state[x] # "kConnecting"
    <2>1. UNCHANGED <<m_state, m_events, m_index, epoll, callbacks, m_pendingFunctors>>
      BY <1>7 DEF connectEstablished
    <2>2. QueuesKept(x)
      BY <1>2, <2>1, KeptUnqueued
    <2>3. QueuesKept(NoConn)
      BY <1>6, <2>1, <2>2 DEF QueuesKept
    <2>4. QED BY <1>3, <1>4, <2>1, <2>3, ConnAssumption, LifetimeFrame
  <1>8. CASE connectEstablished(l) /\ m_state[x] = "kConnecting"
    <2>1. /\ m_state' = [m_state EXCEPT ![x] = "kConnected"]
          /\ m_index' = [m_index EXCEPT ![x] = "kAdded"]
          /\ m_events' = [m_events EXCEPT ![x] = {"read"}]
          /\ epoll' = epoll \cup {x}
          /\ callbacks' = [callbacks EXCEPT ![x].up = @ + 1]
          /\ UNCHANGED m_pendingFunctors
      BY <1>8 DEF connectEstablished
    <2>2. /\ m_state'[x] = "kConnected"
          /\ \A c \in Conns : c # x => /\ m_state'[c] = m_state[c]
                                       /\ m_index'[c] = m_index[c]
                                       /\ m_events'[c] = m_events[c]
                                       /\ callbacks'[c] = callbacks[c]
                                       /\ c \in epoll' <=> c \in epoll
      BY <1>2, <2>1 DEF TypeInv, TypeOK
    <2>3. ASSUME NEW c \in Conns
          PROVE  /\ NotYetPolled(c)'
                 /\ HeldWhileOpen(c)'
                 /\ OnItsWayOut(c)'
                 /\ OnlyClosedRemoved(c)'
                 /\ CloseIsComing(c)'
      <3>0. MainLoop \in Loops /\ m_loop[c] \in Loops
        BY DEF Loops, TypeInv, TypeOK
      <3>1. NotYetPolled(c)'
        BY <1>3, <1>4, <2>2, LeavesInUse DEF LifetimeInv, NotYetPolled
      <3>2. HeldWhileOpen(c)'
        BY <1>3, <1>8, <2>2 DEF LifetimeInv, HeldWhileOpen
      <3>3. OnItsWayOut(c)'
        BY <1>2, <1>3, <1>4, <2>1, <2>2, <3>0, LeavesInUse
           DEF LifetimeInv, OnItsWayOut, Queued, FunctorsKept
      <3>4. OnlyClosedRemoved(c)'
        <4>1. OnlyClosedRemoved(c)
          BY DEF LifetimeInv
        <4>2. QED BY <1>2, <1>3, <1>8, <2>1, <2>2, <4>1 DEF OnlyClosedRemoved, Queued, FunctorsKept
      <3>5. CloseIsComing(c)'
        <4>1. CloseIsComing(c)
          BY DEF LifetimeInv
        <4>2. QED BY <1>3, <1>6, <2>1, <2>2, <3>0, <4>1 DEF CloseIsComing
      <3>6. QED BY <3>1, <3>2, <3>3, <3>4, <3>5
    <2>4. QED BY <1>5, <2>3 DEF LifetimeInv
  <1>9. CASE connectEstablishedFails(l)
    <2>1. /\ m_state[x] = "kConnecting"
          /\ m_state' = [m_state EXCEPT ![x] = "kDisconnected"]
          /\ m_index' = [m_index EXCEPT ![x] = "kAdded"]
          /\ callbacks' = [callbacks EXCEPT ![x].down = @ + 1]
          /\ queueInLoop(MainLoop, Shared("removeConnectionInLoop", x))
          /\ m_events' = [m_events EXCEPT ![x] = {}]
          /\ UNCHANGED epoll
      BY <1>9 DEF connectEstablishedFails
    <2>2. /\ m_state'[x] = "kDisconnected"
          /\ m_events'[x] = {}
          /\ \A c \in Conns : c # x => /\ m_state'[c] = m_state[c]
                                       /\ m_index'[c] = m_index[c]
                                       /\ m_events'[c] = m_events[c]
                                       /\ callbacks'[c] = callbacks[c]
      BY <1>2, <2>1 DEF TypeInv, TypeOK
    <2>3. Shared("removeConnectionInLoop", x) \in Functor /\ MainLoop \in Loops
      BY <1>2, SharedType DEF FunctorName, Loops
    <2>4. \A k \in Loops : \A f : Has(m_pendingFunctors'[k], f) <=>
            Has(m_pendingFunctors[k], f) \/ (k = MainLoop /\ f = Shared("removeConnectionInLoop", x))
      BY <2>1, <2>3, QueueAppend
    <2>5. \A k \in Loops, d \in Conns :
            /\ Queued(k, "removeConnectionInLoop", d)'
                 <=> Queued(k, "removeConnectionInLoop", d) \/ (k = MainLoop /\ d = x)
            /\ Queued(k, "connectDestroyed", d)' <=> Queued(k, "connectDestroyed", d)
            /\ Has(m_pendingFunctors[k], Shared("forceCloseInLoop", d))
                 => Has(m_pendingFunctors'[k], Shared("forceCloseInLoop", d))
      BY SMTT(40), <1>2, <2>4, SharedInjective DEF Queued, FunctorsKept
    <2>6. ASSUME NEW c \in Conns
          PROVE  /\ NotYetPolled(c)'
                 /\ HeldWhileOpen(c)'
                 /\ OnItsWayOut(c)'
                 /\ OnlyClosedRemoved(c)'
                 /\ CloseIsComing(c)'
      <3>0. MainLoop \in Loops /\ m_loop[c] \in Loops
        BY DEF Loops, TypeInv, TypeOK
      <3>1. NotYetPolled(c)'
        BY <1>3, <1>4, <2>1, <2>2, LeavesInUse DEF LifetimeInv, NotYetPolled
      <3>2. HeldWhileOpen(c)'
        BY <1>3, <2>2 DEF LifetimeInv, HeldWhileOpen
      <3>3. OnItsWayOut(c)'
        <4>1. CASE c = x
          <5>1. c \in m_connections /\ c \notin epoll
            BY <2>1, <4>1 DEF LifetimeInv, HeldWhileOpen, NotYetPolled
          <5>2. QED BY <1>3, <2>1, <2>2, <2>5, <3>0, <4>1, <5>1 DEF OnItsWayOut
        <4>2. CASE c # x
          BY <1>3, <1>4, <2>1, <2>2, <2>5, <3>0, <4>2, LeavesInUse DEF LifetimeInv, OnItsWayOut
        <4>3. QED BY <4>1, <4>2
      <3>4. OnlyClosedRemoved(c)'
        <4>1. OnlyClosedRemoved(c)
          BY DEF LifetimeInv
        <4>2. QED BY <1>3, <2>1, <2>2, <2>5, <4>1 DEF OnlyClosedRemoved
      <3>5. CloseIsComing(c)'
        <4>1. CloseIsComing(c)
          BY DEF LifetimeInv
        <4>2. QED BY <1>3, <1>6, <2>2, <2>5, <3>0, <4>1 DEF CloseIsComing
      <3>6. QED BY <3>1, <3>2, <3>3, <3>4, <3>5
    <2>7. QED BY <1>5, <2>6 DEF LifetimeInv
  <1>10. QED BY <1>7, <1>8, <1>9
\* removeConnectionInLoop erases a closed connection and queues the last link.
LEMMA LifetimeRemove ==
    ASSUME TypeInv, LifetimeInv, NEW l \in Loops, removeConnectionInLoop(l)
    PROVE  LifetimeInv'
  <1> USE DEF pollVars, outVars
  <1> DEFINE x == Head(functors[l]).conn
  <1>1. Runs(l, "removeConnectionInLoop")
    BY DEF removeConnectionInLoop
  <1>2. x \in Conns /\ Head(functors[l]) = Shared("removeConnectionInLoop", x)
    BY <1>1, RunsType, QueueRun
  <1>3. /\ UNCHANGED <<m_loop, polled, m_activeChannels, current,
                       m_state, m_events, m_index, epoll, callbacks>>
        /\ m_connections' = m_connections \ {x}
    BY <1>1 DEF Runs, removeConnectionInLoop
  <1>4. /\ \A k \in Loops : \A f : Has(functors[k], f)
              <=> Has(functors'[k], f) \/ (k = l /\ f = Head(functors[l]))
        /\ \A k \in Loops : functors[k] = <<>> => functors'[k] = <<>>
    BY <1>1, QueueRun
  <1>5. Leaves
    BY <1>3 DEF Leaves
  <1>6. LoopDiscipline'
    BY <1>3, <1>4, <1>5, DisciplineFrame DEF LifetimeInv
  <1>7. m_state[x] = "kDisconnected"
    <2>1. Queued(l, "removeConnectionInLoop", x)
      BY <1>2, <1>4 DEF Queued
    <2>2. OnlyClosedRemoved(x)
      BY <1>2 DEF LifetimeInv
    <2>3. QED BY <2>1, <2>2 DEF OnlyClosedRemoved
  <1>8. Shared("connectDestroyed", x) \in Functor /\ m_loop[x] \in Loops
    BY <1>2, SharedType DEF FunctorName, TypeInv, TypeOK
  <1>9. \A k \in Loops : \A f : Has(m_pendingFunctors'[k], f) <=>
          \/ Has(m_pendingFunctors[k], f)
          \/ x \in m_connections /\ k = m_loop[x] /\ f = Shared("connectDestroyed", x)
    <2>1. CASE x \in m_connections
      <3>1. queueInLoop(m_loop[x], Shared("connectDestroyed", x))
        BY <2>1 DEF removeConnectionInLoop
      <3>2. \A k \in Loops : \A f : Has(m_pendingFunctors'[k], f) <=>
              Has(m_pendingFunctors[k], f) \/ (k = m_loop[x] /\ f = Shared("connectDestroyed", x))
        BY <1>8, <3>1, QueueAppend
      <3>3. QED BY <2>1, <3>2
    <2>2. CASE x \notin m_connections
      BY <2>2 DEF removeConnectionInLoop
    <2>3. QED BY <2>1, <2>2
  <1>10. \A k \in Loops, c \in Conns :
           /\ Queued(k, "removeConnectionInLoop", c)' => Queued(k, "removeConnectionInLoop", c)
           /\ c # x => (Queued(k, "removeConnectionInLoop", c)
                          => Queued(k, "removeConnectionInLoop", c)')
           /\ Queued(k, "connectDestroyed", c)' <=>
                \/ Queued(k, "connectDestroyed", c)
                \/ x \in m_connections /\ k = m_loop[x] /\ c = x
           /\ Has(functors[k], Shared("forceCloseInLoop", c))
                => Has(functors'[k], Shared("forceCloseInLoop", c))
           /\ Has(m_pendingFunctors[k], Shared("forceCloseInLoop", c))
                => Has(m_pendingFunctors'[k], Shared("forceCloseInLoop", c))
    <2> TAKE k \in Loops, c \in Conns
    <2>1. \A n : /\ Has(functors'[k], Shared(n, c)) => Has(functors[k], Shared(n, c))
                 /\ n # "removeConnectionInLoop" \/ c # x =>
                      (Has(functors[k], Shared(n, c)) => Has(functors'[k], Shared(n, c)))
      BY <1>2, <1>4, SharedInjective
    <2>2. \A n : Has(m_pendingFunctors'[k], Shared(n, c)) <=>
            \/ Has(m_pendingFunctors[k], Shared(n, c))
            \/ x \in m_connections /\ k = m_loop[x] /\ n = "connectDestroyed" /\ c = x
      BY <1>9, SharedInjective
    <2>3. QED BY <2>1, <2>2 DEF Queued
  <1>11. ASSUME NEW c \in Conns
         PROVE  /\ NotYetPolled(c)'
                /\ HeldWhileOpen(c)'
                /\ OnItsWayOut(c)'
                /\ OnlyClosedRemoved(c)'
                /\ CloseIsComing(c)'
    <2>0. MainLoop \in Loops /\ m_loop[c] \in Loops
      BY DEF Loops, TypeInv, TypeOK
    <2>1. NotYetPolled(c)'
      BY <1>3, <1>5, LeavesInUse DEF LifetimeInv, NotYetPolled
    <2>2. HeldWhileOpen(c)'
      BY <1>3, <1>7 DEF LifetimeInv, HeldWhileOpen
    <2>3. OnItsWayOut(c)'
      BY <1>3, <1>5, <1>10, <2>0, LeavesInUse DEF LifetimeInv, OnItsWayOut
    <2>4. OnlyClosedRemoved(c)'
      <3>1. OnlyClosedRemoved(c)
        BY DEF LifetimeInv
      <3>2. QED BY <1>3, <1>7, <1>10, <3>1 DEF OnlyClosedRemoved
    <2>5. CloseIsComing(c)'
      <3>1. CloseIsComing(c)
        BY DEF LifetimeInv
      <3>2. QED BY <1>3, <1>10, <2>0, <3>1 DEF CloseIsComing
    <2>6. QED BY <2>1, <2>2, <2>3, <2>4, <2>5
  <1>12. QED BY <1>6, <1>11 DEF LifetimeInv

\* connectDestroyed ends the chain: it runs in the connection's own loop, which
\* is not handling events, so the channel it deregisters is not in use.
LEMMA LifetimeDestroyed ==
    ASSUME TypeInv, LifetimeInv, NEW l \in Loops, connectDestroyed(l)
    PROVE  LifetimeInv'
  <1> USE DEF pollVars, outVars
  <1> DEFINE x == Head(functors[l]).conn
  <1>1. Runs(l, "connectDestroyed")
    BY DEF connectDestroyed
  <1>2. x \in Conns /\ Head(functors[l]) = Shared("connectDestroyed", x) /\ functors[l] # <<>>
    BY <1>1, RunsType, QueueRun DEF Runs
  <1>3. UNCHANGED <<m_loop, polled, m_activeChannels, current, m_connections, m_pendingFunctors>>
    BY <1>1 DEF Runs, connectDestroyed
  <1>4. /\ \A k \in Loops : \A f : Has(functors[k], f)
              <=> Has(functors'[k], f) \/ (k = l /\ f = Head(functors[l]))
        /\ \A k \in Loops : functors[k] = <<>> => functors'[k] = <<>>
    BY <1>1, QueueRun
  <1>5. Leaves
    BY <1>3 DEF Leaves
  <1>6. LoopDiscipline'
    BY <1>3, <1>4, <1>5, DisciplineFrame DEF LifetimeInv
  <1>7. m_state[x] = "kDisconnected" /\ m_loop[x] = l
    <2>1. Queued(l, "connectDestroyed", x)
      BY <1>2, <1>4 DEF Queued
    <2>2. OnlyClosedRemoved(x)
      BY <1>2 DEF LifetimeInv
    <2>3. QED BY <2>1, <2>2 DEF OnlyClosedRemoved
  <1>8. m_events[x] = {} /\ x \notin epoll
    BY <1>2, <1>7 DEF LifetimeInv, OnItsWayOut
  <1>9. ~InUse(x)
    <2>1. m_activeChannels[l] = {} /\ current[l].conn = NoConn
      BY <1>2 DEF LifetimeInv, LoopDiscipline, NoEvent
    <2>2. \A k \in Loops : k # l => x \notin m_activeChannels[k] /\ current[k].conn # x
      BY <1>2, <1>7, ConnAssumption DEF LifetimeInv, LoopDiscipline
    <2>3. QED BY <1>2, <2>1, <2>2, ConnAssumption DEF InUse
  <1>10. /\ m_state' = m_state
         /\ m_events' = m_events
         /\ m_index' = [m_index EXCEPT ![x] = "kNew"]
         /\ epoll' = epoll
         /\ \A c \in Conns : callbacks'[c] = callbacks[c]
    <2>1. m_state' = [m_state EXCEPT ![x] = IF m_state[x] = "kConnected" THEN "kDisconnected"
                                            ELSE @]
      BY DEF connectDestroyed
    <2>2. m_events' = [m_events EXCEPT ![x] = IF m_state[x] = "kConnected" THEN {} ELSE m_events[x]]
      BY DEF connectDestroyed
    <2>3. callbacks' = [callbacks EXCEPT ![x].down = IF m_state[x] = "kConnected" THEN @ + 1 ELSE @]
      BY DEF connectDestroyed
    <2>4. callbacks \in [Conns -> [up : Nat, down : Nat]]
      BY DEF TypeInv, TypeOK
    <2>5. \A c \in Conns : callbacks'[c] = callbacks[c]
      BY <1>2, <1>7, <2>3, <2>4
    <2>6. m_state' = m_state /\ m_events' = m_events
      BY <1>2, <1>7, <2>1, <2>2 DEF TypeInv, TypeOK
    <2>7. m_index' = [m_index EXCEPT ![x] = "kNew"] /\ epoll' = epoll
      BY <1>7, <1>8 DEF connectDestroyed
    <2>8. QED BY <2>5, <2>6, <2>7
  <1>11. /\ m_index'[x] = "kNew"
         /\ \A c \in Conns : c # x => m_index'[c] = m_index[c]
    BY <1>2, <1>10 DEF TypeInv, TypeOK
  <1>12. \A k \in Loops, c \in Conns :
           /\ Queued(k, "removeConnectionInLoop", c)' <=> Queued(k, "removeConnectionInLoop", c)
           /\ Queued(k, "connectDestroyed", c)' => Queued(k, "connectDestroyed", c)
           /\ c # x => (Queued(k, "connectDestroyed", c) => Queued(k, "connectDestroyed", c)')
           /\ Has(functors[k], Shared("forceCloseInLoop", c))
                => Has(functors'[k], Shared("forceCloseInLoop", c))
    <2> TAKE k \in Loops, c \in Conns
    <2>1. \A n : /\ Has(functors'[k], Shared(n, c)) => Has(functors[k], Shared(n, c))
                 /\ n # "connectDestroyed" \/ c # x =>
                      (Has(functors[k], Shared(n, c)) => Has(functors'[k], Shared(n, c)))
      BY <1>2, <1>4, SharedInjective
    <2>2. QED BY <1>3, <2>1 DEF Queued
  <1>13. ASSUME NEW c \in Conns
         PROVE  /\ NotYetPolled(c)'
                /\ HeldWhileOpen(c)'
                /\ OnItsWayOut(c)'
                /\ OnlyClosedRemoved(c)'
                /\ CloseIsComing(c)'
    <2>0. MainLoop \in Loops /\ m_loop[c] \in Loops
      BY DEF Loops, TypeInv, TypeOK
    <2>1. NotYetPolled(c)'
      BY <1>3, <1>5, <1>10, <1>11, LeavesInUse DEF LifetimeInv, NotYetPolled
    <2>2. HeldWhileOpen(c)'
      BY <1>3, <1>10 DEF LifetimeInv, HeldWhileOpen
    <2>3. OnItsWayOut(c)'
      <3>1. CASE c = x
        BY <1>5, <1>3, <1>8, <1>9, <1>10, <1>11, <3>1, LeavesInUse DEF OnItsWayOut
      <3>2. CASE c # x
        BY <1>3, <1>5, <1>10, <1>11, <1>12, <2>0, <3>2, LeavesInUse DEF LifetimeInv, OnItsWayOut
      <3>3. QED BY <3>1, <3>2
    <2>4. OnlyClosedRemoved(c)'
      <3>1. OnlyClosedRemoved(c)
        BY DEF LifetimeInv
      <3>2. QED BY <1>3, <1>10, <1>12, <3>1 DEF OnlyClosedRemoved
    <2>5. CloseIsComing(c)'
      <3>1. CloseIsComing(c)
        BY DEF LifetimeInv
      <3>2. QED BY <1>3, <1>10, <1>12, <2>0, <3>1 DEF CloseIsComing
    <2>6. QED BY <2>1, <2>2, <2>3, <2>4, <2>5
  <1>14. QED BY <1>6, <1>13 DEF LifetimeInv
\* forceCloseInLoop and sendInLoop.
LEMMA LifetimeForceCloseInLoop ==
    ASSUME TypeInv, LifetimeInv, NEW l \in Loops, forceCloseInLoop(l) \/ runSendInLoop(l)
    PROVE  LifetimeInv'
  <1> USE DEF pollVars, outVars
  <1> DEFINE x == Head(functors[l]).conn
  <1>1. CASE forceCloseInLoop(l)
    <2>1. Runs(l, "forceCloseInLoop")
      BY <1>1 DEF forceCloseInLoop
    <2>2. x \in Conns /\ FunctorsKept(x)
      BY <2>1, RunsType, KeptRun
    <2>3. UNCHANGED <<m_loop, polled, m_activeChannels, current, m_connections>>
      BY <1>1, <2>1 DEF Runs, forceCloseInLoop
    <2>4. Leaves
      BY <2>3 DEF Leaves
    <2>5. CASE m_state[x] \in {"kConnected", "kDisconnecting"}
      <3>1. handleClose(x)
        BY <1>1, <2>5 DEF forceCloseInLoop
      <3>2. QED BY <2>2, <2>3, <2>4, <2>5, <3>1, LifetimeClose
    <2>6. CASE m_state[x] \notin {"kConnected", "kDisconnecting"}
      <3>1. UNCHANGED <<m_state, m_events, m_index, epoll, callbacks, m_pendingFunctors>>
        BY <1>1, <2>6 DEF forceCloseInLoop
      <3>2. QueuesKept(x)
        BY <2>2, <3>1, KeptUnqueued
      <3>3. QED BY <2>3, <2>4, <2>6, <3>1, <3>2, LifetimeFrame
    <2>7. QED BY <2>5, <2>6
  <1>2. CASE runSendInLoop(l)
    <2>1. Runs(l, "sendInLoop")
      BY <1>2 DEF runSendInLoop
    <2>2. x \in Conns
      BY <2>1, RunsType
    <2>3. UNCHANGED <<m_loop, polled, m_activeChannels, current,
                      m_state, m_connections, m_index, epoll, m_pendingFunctors, callbacks>>
      BY <1>2, <2>1 DEF Runs, runSendInLoop
    <2>4. \A k \in Loops : \A n \in FunctorName : \A d :
            Has(functors'[k], Shared(n, d)) <=> Has(functors[k], Shared(n, d))
      BY <2>1, QueueRun
    <2>5. QueuesKept(NoConn)
      <3>1. {"removeConnectionInLoop", "connectDestroyed", "forceCloseInLoop"} \subseteq FunctorName
        BY DEF FunctorName
      <3>2. \A k \in Loops : functors[k] = <<>> => functors'[k] = <<>>
        BY <2>1, QueueRun
      <3>3. FunctorsKept(NoConn)
        BY <2>4, <3>1, <3>2 DEF FunctorsKept
      <3>4. QED BY <2>3, <3>3, KeptUnqueued
    <2>6. \A c \in Conns : m_state[c] = "kDisconnected" => m_events'[c] \subseteq m_events[c]
      BY <1>2, <2>2, SendEvents DEF runSendInLoop
    <2>7. Leaves
      BY <2>3 DEF Leaves
    <2>8. QED BY <2>3, <2>5, <2>6, <2>7, ConnAssumption, LifetimeFrame
  <1>3. QED BY <1>1, <1>2

\* A new connection is held by m_connections and unknown to the poller.
LEMMA LifetimeNew ==
    ASSUME TypeInv, LifetimeInv, NEW x \in Conns, NEW l \in IoLoops, newConnection(x, l)
    PROVE  LifetimeInv'
  <1> USE DEF pollVars, loopVars, outVars
  <1>1. /\ m_state[x] = "none" /\ l \in Loops
        /\ UNCHANGED <<m_events, m_index, epoll, functors, polled, m_activeChannels, current,
                       callbacks>>
        /\ m_connections' = m_connections \cup {x}
    BY DEF newConnection, Loops
  <1>2. /\ m_state'[x] = "kConnecting"
        /\ \A c \in Conns : c # x => m_state'[c] = m_state[c] /\ m_loop'[c] = m_loop[c]
    BY DEF newConnection, TypeInv, TypeOK
  <1>3. NotYetPolled(x) /\ OnlyClosedRemoved(x)
    BY DEF LifetimeInv
  <1>4. Shared("connectEstablished", x) \in Functor
    BY SharedType DEF FunctorName
  <1>5. \A k \in Loops : \A f : Has(m_pendingFunctors'[k], f) <=>
          Has(m_pendingFunctors[k], f) \/ (k = l /\ f = Shared("connectEstablished", x))
    BY <1>1, <1>4, QueueAppend DEF newConnection
  <1>6. \A k \in Loops : \A n, c : n # "connectEstablished" =>
          (Has(m_pendingFunctors'[k], Shared(n, c)) <=> Has(m_pendingFunctors[k], Shared(n, c)))
    BY <1>5, SharedInjective
  <1>7. \A k \in Loops, c \in Conns : \A n :
          n # "connectEstablished" => (Queued(k, n, c)' <=> Queued(k, n, c))
    BY <1>1, <1>6 DEF Queued
  <1>8. \A c \in Conns : InUse(c)' <=> InUse(c)
    BY <1>1 DEF InUse
  <1>9. LoopDiscipline'
    <2>1. \A k \in Loops : x \notin m_activeChannels[k] /\ current[k].conn # x
      BY <1>1, <1>3 DEF NotYetPolled, InUse
    <2>2. \A k \in Loops : /\ m_activeChannels[k] \subseteq Conns
                           /\ current[k].conn # NoConn => current[k].conn \in Conns
      BY DEF TypeInv, TypeOK
    <2>3. \A k \in Loops : /\ \A c \in m_activeChannels[k] : m_loop'[c] = m_loop[c]
                           /\ current[k].conn # NoConn =>
                                m_loop'[current[k].conn] = m_loop[current[k].conn]
      BY <1>2, <2>1, <2>2
    <2>4. NoEvent' = NoEvent
      BY DEF NoEvent
    <2>5. QED BY <1>1, <2>3, <2>4 DEF LifetimeInv, LoopDiscipline
  <1>10. ASSUME NEW c \in Conns
         PROVE  /\ NotYetPolled(c)'
                /\ HeldWhileOpen(c)'
                /\ OnItsWayOut(c)'
                /\ OnlyClosedRemoved(c)'
                /\ CloseIsComing(c)'
    <2>0. MainLoop \in Loops /\ m_loop[c] \in Loops
      BY DEF Loops, TypeInv, TypeOK
    <2>1. NotYetPolled(c)'
      BY <1>1, <1>2, <1>3, <1>8 DEF LifetimeInv, NotYetPolled
    <2>2. HeldWhileOpen(c)'
      BY <1>1, <1>2 DEF LifetimeInv, HeldWhileOpen
    <2>3. OnItsWayOut(c)'
      BY <1>1, <1>2, <1>7, <1>8, <2>0 DEF LifetimeInv, OnItsWayOut
    <2>4. OnlyClosedRemoved(c)'
      <3>1. OnlyClosedRemoved(c)
        BY DEF LifetimeInv
      <3>2. QED BY <1>1, <1>2, <1>7, <3>1 DEF OnlyClosedRemoved
    <2>5. CloseIsComing(c)'
      <3>1. CloseIsComing(c)
        BY DEF LifetimeInv
      <3>2. QED BY <1>1, <1>2, <1>6, <2>0, <3>1 DEF CloseIsComing
    <2>6. QED BY <2>1, <2>2, <2>3, <2>4, <2>5
  <1>11. QED BY <1>9, <1>10 DEF LifetimeInv

\* Initially there is no connection.
LEMMA LifetimeInit == Init => LifetimeInv
  <1> SUFFICES ASSUME Init PROVE LifetimeInv
    OBVIOUS
  <1>1. LoopDiscipline
    BY DEF Init, LoopDiscipline, NoEvent
  <1>2. ASSUME NEW c \in Conns
        PROVE  /\ NotYetPolled(c) /\ HeldWhileOpen(c) /\ OnItsWayOut(c)
               /\ OnlyClosedRemoved(c) /\ CloseIsComing(c)
    <2>1. m_state[c] = "none" /\ \A l \in Loops : \A n : ~Queued(l, n, c)
      BY HasNothing DEF Init, Queued
    <2>2. NotYetPolled(c)
      BY ConnAssumption DEF Init, NotYetPolled, InUse, NoEvent
    <2>3. QED
      BY <2>1, <2>2 DEF HeldWhileOpen, OnItsWayOut, OnlyClosedRemoved, CloseIsComing
  <1>3. QED BY <1>1, <1>2 DEF LifetimeInv

\* Every step keeps the chain.
LEMMA LifetimeStep == TypeInv /\ LifetimeInv /\ [Next]_vars => LifetimeInv'
  <1> SUFFICES ASSUME TypeInv, LifetimeInv, [Next]_vars PROVE LifetimeInv'
    OBVIOUS
  <1>1. CASE UNCHANGED vars
    <2>1. Leaves /\ QueuesKept(NoConn)
      BY <1>1, KeptUnchanged, KeptUnqueued DEF vars, Leaves
    <2>2. QED BY <1>1, <2>1, ConnAssumption, LifetimeFrame DEF vars
  <1>2. ASSUME NEW l \in Loops, LoopStep(l) PROVE LifetimeInv'
    <2>1. CASE RunFunctor(l)
      BY <2>1, LifetimeEstablished, LifetimeForceCloseInLoop, LifetimeRemove, LifetimeDestroyed
         DEF RunFunctor
    <2>2. QED
      BY <1>2, <2>1, LifetimePoll, LifetimeHandleEvent, LifetimeLoop, LifetimeSwap DEF LoopStep
  <1>3. QED BY <1>1, <1>2, LifetimeCallback, LifetimeNew DEF Next

\* The chain handleClose, removeConnectionInLoop, connectDestroyed holds for
\* every number of connections and loops: each connection is held by
\* m_connections until it is closed, then by the functor that will take it one
\* link further, until the poller has forgotten it.
THEOREM Lifetime == Spec => []LifetimeInv
  BY TypeInit, TypeStep, LifetimeInit, LifetimeStep, PTL DEF Spec
-----------------------------------------------------------------------------
(* What follows from the chain.                                            *)

\* A queued shared functor holds its connection.
LEMMA QueuedIsAlive ==
    ASSUME NEW l \in Loops, NEW name \in FunctorName, NEW c \in Conns, Queued(l, name, c)
    PROVE  Alive(c)
  <1>1. name # "sendInLoop"
    BY DEF FunctorName
  <1>2. \A q : Has(q, Shared(name, c)) => HeldBy(q, c)
    BY <1>1 DEF Has, HeldBy, Shared
  <1>3. QED BY <1>2 DEF Queued, Alive

\* Whoever is still known to the poller, or in use, is alive.
LEMMA ChainHolds == TypeInv /\ LifetimeInv => NoDanglingChannel /\ DestroyedAfterClose
  <1> SUFFICES ASSUME TypeInv, LifetimeInv, NEW c \in Conns
               PROVE  /\ m_index[c] # "kNew" \/ c \in epoll \/ InUse(c) => Alive(c)
                      /\ Destroyed(c) => m_state[c] = "kDisconnected"
    BY DEF NoDanglingChannel, DestroyedAfterClose, InUse
  <1>1. c \in m_connections => Alive(c)
    BY DEF Alive
  <1>2. MainLoop \in Loops /\ m_loop[c] \in Loops /\ m_state[c] \in StateE
    BY DEF TypeInv, TypeOK, Loops
  <1>3. NotYetPolled(c) /\ HeldWhileOpen(c) /\ OnItsWayOut(c)
    BY DEF LifetimeInv
  <1>4. CASE m_state[c] \in {"none", "kConnecting"}
    BY <1>1, <1>3, <1>4 DEF NotYetPolled, HeldWhileOpen, Destroyed
  <1>5. CASE m_state[c] \in {"kConnected", "kDisconnecting"}
    BY <1>1, <1>3, <1>5 DEF HeldWhileOpen, Destroyed
  <1>6. CASE m_state[c] = "kDisconnected"
    <2>1. "connectDestroyed" \in FunctorName
      BY DEF FunctorName
    <2>2. Queued(m_loop[c], "connectDestroyed", c) => Alive(c)
      BY <1>2, <2>1, QueuedIsAlive
    <2>3. QED BY <1>1, <1>3, <1>6, <2>2 DEF OnItsWayOut
  <1>7. QED BY <1>2, <1>4, <1>5, <1>6 DEF StateE

\* The raw Channel pointers kept by the poller, by a poll result and by a
\* running handleEvent never dangle.
THEOREM ChannelsNeverDangle == Spec => []NoDanglingChannel
  BY TypeInit, TypeStep, LifetimeInit, LifetimeStep, ChainHolds, PTL DEF Spec

\* No TcpConnection is destroyed before it was closed.
THEOREM DestroyedOnlyAfterClose == Spec => []DestroyedAfterClose
  BY TypeInit, TypeStep, LifetimeInit, LifetimeStep, ChainHolds, PTL DEF Spec

\* After forceClose, ChatSession::onRead is not entered again for the
\* connection, although handleRead does not look at the state.
THEOREM ForceCloseStopsReading == Spec => NoReadAfterForceClose
  <1> DEFINE Step == \A l \in Loops :
                       current'[l].inCallback /\ ~current[l].inCallback
                         => m_state[current[l].conn] # "kDisconnecting"
  <1>1. ASSUME TypeInv, LifetimeInv, [Next]_vars PROVE [Step]_vars
    <2>1. CASE UNCHANGED vars
      BY <2>1
    <2>2. ASSUME NEW l \in Loops, ~current[l].inCallback, current'[l].inCallback, Next
          PROVE  "read" \in current[l].todo
      <3>1. ASSUME NEW k \in Loops, LoopStep(k) PROVE "read" \in current[l].todo
        <4>1. CASE handleReadData(k)
          BY <2>2, <4>1 DEF handleReadData, Calls, TypeInv, TypeOK
        <4>2. CASE UNCHANGED current
          BY <2>2, <4>2
        <4>3. ASSUME NEW cb, cb \in current[k].todo, Returns(k, cb) PROVE FALSE
          <5>1. current[k].conn \in Conns
            BY <1>1, <4>3, CallbackConn
          <5>2. \/ current'[k] = NoEvent
                \/ current'[k].inCallback = FALSE
            BY <1>1, <4>3, <5>1, ReturnsType
          <5>3. k # l => current'[l] = current[l]
            BY <1>1, <4>3, <5>1, ReturnsType
          <5>4. QED BY <2>2, <5>2, <5>3 DEF NoEvent
        <4>4. ASSUME NEW c \in Conns, handleEvent(k, c) PROVE FALSE
          BY <2>2, <4>4 DEF handleEvent, TypeInv, TypeOK
        <4>5. RunFunctor(k) => UNCHANGED current
          BY DEF RunFunctor, connectEstablished, connectEstablishedFails, runSendInLoop,
                 forceCloseInLoop, removeConnectionInLoop, connectDestroyed, Runs
        <4>6. poll(k) \/ doOtherTasks(k) => UNCHANGED current
          BY DEF poll, doOtherTasks
        <4>7. onCloseEvent(k) \/ handleReadEnd(k) \/ handleWrite(k) \/ handleWriteFails(k)
                => \E cb : cb \in current[k].todo /\ Returns(k, cb)
          BY DEF onCloseEvent, handleReadEnd, handleWrite, handleWriteFails, Calls
        <4>8. QED BY <3>1, <4>1, <4>2, <4>3, <4>4, <4>5, <4>6, <4>7 DEF LoopStep
      <3>2. ASSUME NEW k \in Loops, CallbackStep(k) PROVE FALSE
        <4>1. UNCHANGED current \/ (current[k].inCallback /\ Returns(k, "read"))
          BY <3>2 DEF CallbackStep, sendHere, sendChecked, sendQueued, messageReturn, forceClose,
                      InCallback
        <4>2. CASE current[k].inCallback /\ Returns(k, "read")
          <5>1. current[k].conn \in Conns
            BY <1>1, <4>2, CallbackConn
          <5>2. \/ current'[k] = NoEvent
                \/ current'[k].inCallback = FALSE
            BY <1>1, <4>2, <5>1, ReturnsType
          <5>3. k # l => current'[l] = current[l]
            BY <1>1, <4>2, <5>1, ReturnsType
          <5>4. QED BY <2>2, <5>2, <5>3 DEF NoEvent
        <4>3. QED BY <2>2, <4>1, <4>2
      <3>3. ASSUME NEW c \in Conns, NEW k \in IoLoops, newConnection(c, k) PROVE FALSE
        BY <2>2, <3>3 DEF newConnection
      <3>4. QED BY <2>2, <3>1, <3>2, <3>3 DEF Next
    <2>3. ASSUME NEW l \in Loops, "read" \in current[l].todo
          PROVE  m_state[current[l].conn] # "kDisconnecting"
      <3>1. current[l].conn \in Conns
        BY <1>1, <2>3, CallbackConn
      <3>2. CloseIsComing(current[l].conn)
        BY <1>1, <3>1 DEF LifetimeInv
      <3>3. QED BY <2>3, <3>2 DEF CloseIsComing
    <2>4. QED BY <1>1, <2>1, <2>2, <2>3
  <1>2. QED
    BY <1>1, TypeInit, TypeStep, LifetimeInit, LifetimeStep, PTL DEF Spec, NoReadAfterForceClose
-----------------------------------------------------------------------------
(* The connection callbacks.                                               *)

\* CallbackOnce, strengthened: nothing was reported up before it is kConnected.
CallbackInv == /\ CallbackOnce
               /\ \A c \in Conns : m_state[c] \in {"none", "kConnecting"} => callbacks[c].up = 0

\* The moves a connection makes, with the callback each of them makes.
Moves(x, s, up, down) ==
    /\ m_state' = [m_state EXCEPT ![x] = s]
    /\ callbacks'[x] = [up |-> callbacks[x].up + up, down |-> callbacks[x].down + down]
    /\ \A c \in Conns : c # x => callbacks'[c] = callbacks[c]

\* These moves keep the callbacks in step with the state.
LEMMA MovesKeep ==
    ASSUME TypeInv, CallbackInv, NEW x \in Conns,
           \/ m_state[x] = "none" /\ Moves(x, "kConnecting", 0, 0)
           \/ m_state[x] = "kConnecting" /\ Moves(x, "kConnected", 1, 0)
           \/ m_state[x] # "kDisconnected" /\ Moves(x, "kDisconnected", 0, 1)
           \/ /\ m_state[x] \in {"kConnected", "kDisconnecting"}
              /\ Moves(x, "kDisconnecting", 0, 0)
    PROVE  CallbackInv'
  <1> SUFFICES ASSUME NEW c \in Conns
               PROVE  /\ callbacks'[c].up <= 1
                      /\ callbacks'[c].down = (IF m_state'[c] = "kDisconnected" THEN 1 ELSE 0)
                      /\ m_state'[c] \in {"kConnected", "kDisconnecting"} => callbacks'[c].up = 1
                      /\ m_state'[c] \in {"none", "kConnecting"} => callbacks'[c].up = 0
    BY DEF CallbackInv, CallbackOnce
  <1>1. /\ callbacks[c].up <= 1
        /\ callbacks[c].down = (IF m_state[c] = "kDisconnected" THEN 1 ELSE 0)
        /\ m_state[c] \in {"kConnected", "kDisconnecting"} => callbacks[c].up = 1
        /\ m_state[c] \in {"none", "kConnecting"} => callbacks[c].up = 0
        /\ callbacks[c].up \in Nat
    BY DEF CallbackInv, CallbackOnce, TypeInv, TypeOK
  <1>2. CASE c # x
    <2>1. m_state'[c] = m_state[c] /\ callbacks'[c] = callbacks[c]
      BY <1>2 DEF Moves, TypeInv, TypeOK
    <2>2. QED BY <1>1, <2>1
  <1>3. CASE c = x
    <2>1. x \in DOMAIN m_state
      BY DEF TypeInv, TypeOK
    <2>2. QED BY <1>1, <1>3, <2>1 DEF Moves
  <1>4. QED BY <1>2, <1>3

\* handleClose is one of the moves, or none.
LEMMA CloseMoves ==
    ASSUME TypeInv, NEW x \in Conns, handleClose(x)
    PROVE  \/ UNCHANGED <<m_state, callbacks>>
           \/ m_state[x] # "kDisconnected" /\ Moves(x, "kDisconnected", 0, 1)
  <1>1. callbacks \in [Conns -> [up : Nat, down : Nat]]
    BY DEF TypeInv, TypeOK
  <1>2. CASE m_state[x] # "kDisconnected"
    <2>1. callbacks' = [callbacks EXCEPT ![x].down = @ + 1]
      BY <1>2 DEF handleClose
    <2>2. /\ callbacks'[x] = [up |-> callbacks[x].up + 0, down |-> callbacks[x].down + 1]
          /\ \A c \in Conns : c # x => callbacks'[c] = callbacks[c]
      BY <1>1, <2>1
    <2>3. QED BY <1>2, <2>2 DEF handleClose, Moves
  <1>3. CASE m_state[x] = "kDisconnected"
    BY <1>3 DEF handleClose
  <1>4. QED BY <1>2, <1>3

\* No connection moves and no callback is made.
NoMove == m_state' = m_state /\ \A c \in Conns : callbacks'[c] = callbacks[c]

\* The steps of a loop open a connection, close one, or neither.
LEMMA LoopMoves ==
    ASSUME TypeInv, NEW l \in Loops, LoopStep(l)
    PROVE  \/ NoMove
           \/ \E x \in Conns : m_state[x] = "kConnecting" /\ Moves(x, "kConnected", 1, 0)
           \/ \E x \in Conns : m_state[x] # "kDisconnected" /\ Moves(x, "kDisconnected", 0, 1)
  <1> USE DEF pollVars, outVars
  <1> DEFINE Goal == \/ NoMove
                     \/ \E x \in Conns : m_state[x] = "kConnecting" /\ Moves(x, "kConnected", 1, 0)
                     \/ \E x \in Conns : /\ m_state[x] # "kDisconnected"
                                         /\ Moves(x, "kDisconnected", 0, 1)
  <1>1. callbacks \in [Conns -> [up : Nat, down : Nat]]
    BY DEF TypeInv, TypeOK
  <1>2. ASSUME UNCHANGED <<m_state, callbacks>> PROVE Goal
    BY <1>2 DEF NoMove
  <1>3. CASE RunFunctor(l)
    <2> DEFINE x == Head(functors[l]).conn
    <2>1. x \in Conns
      BY <1>3, RunsType DEF RunFunctor, connectEstablished, connectEstablishedFails, runSendInLoop,
                            forceCloseInLoop, removeConnectionInLoop, connectDestroyed
    <2>2. CASE connectEstablished(l)
      <3>1. CASE m_state[x] = "kConnecting"
        <4>1. callbacks' = [callbacks EXCEPT ![x].up = @ + 1]
          BY <2>2, <3>1 DEF connectEstablished
        <4>2. /\ callbacks'[x] = [up |-> callbacks[x].up + 1, down |-> callbacks[x].down + 0]
              /\ \A c \in Conns : c # x => callbacks'[c] = callbacks[c]
          BY <1>1, <2>1, <4>1
        <4>3. Moves(x, "kConnected", 1, 0)
          BY <2>2, <3>1, <4>2 DEF connectEstablished, Moves
        <4>4. QED BY <2>1, <3>1, <4>3
      <3>2. CASE m_state[x] # "kConnecting"
        BY <1>2, <2>2, <3>2 DEF connectEstablished
      <3>3. QED BY <3>1, <3>2
    <2>3. CASE connectEstablishedFails(l)
      <3>1. callbacks' = [callbacks EXCEPT ![x].down = @ + 1]
        BY <2>3 DEF connectEstablishedFails
      <3>2. /\ callbacks'[x] = [up |-> callbacks[x].up + 0, down |-> callbacks[x].down + 1]
            /\ \A c \in Conns : c # x => callbacks'[c] = callbacks[c]
        BY <1>1, <2>1, <3>1
      <3>3. m_state[x] # "kDisconnected" /\ Moves(x, "kDisconnected", 0, 1)
        BY <2>3, <3>2 DEF connectEstablishedFails, Moves
      <3>4. QED BY <2>1, <3>3
    <2>4. CASE forceCloseInLoop(l)
      <3>1. handleClose(x) \/ UNCHANGED <<m_state, callbacks>>
        BY <2>4 DEF forceCloseInLoop
      <3>2. QED BY <1>2, <2>1, <3>1, CloseMoves
    <2>5. CASE connectDestroyed(l)
      <3>1. /\ m_state' = [m_state EXCEPT ![x] = IF m_state[x] = "kConnected"
                                                 THEN "kDisconnected" ELSE @]
            /\ callbacks' = [callbacks EXCEPT ![x].down =
                               IF m_state[x] = "kConnected" THEN @ + 1 ELSE @]
        BY <2>5 DEF connectDestroyed
      <3>2. CASE m_state[x] = "kConnected"
        <4>1. /\ callbacks'[x] = [up |-> callbacks[x].up + 0, down |-> callbacks[x].down + 1]
              /\ \A c \in Conns : c # x => callbacks'[c] = callbacks[c]
          BY <1>1, <2>1, <3>1, <3>2
        <4>2. m_state[x] # "kDisconnected" /\ Moves(x, "kDisconnected", 0, 1)
          BY <3>1, <3>2, <4>1 DEF Moves
        <4>3. QED BY <2>1, <4>2
      <3>3. CASE m_state[x] # "kConnected"
        <4>1. m_state' = m_state
          BY <2>1, <3>1, <3>3 DEF TypeInv, TypeOK
        <4>2. \A c \in Conns : callbacks'[c] = callbacks[c]
          BY <1>1, <2>1, <3>1, <3>3
        <4>3. QED BY <4>1, <4>2 DEF NoMove
      <3>4. QED BY <3>2, <3>3
    <2>6. CASE runSendInLoop(l) \/ removeConnectionInLoop(l)
      BY <1>2, <2>6 DEF runSendInLoop, removeConnectionInLoop
    <2>7. QED BY <1>3, <2>2, <2>3, <2>4, <2>5, <2>6 DEF RunFunctor
  <1>4. ASSUME handleClose(current[l].conn), \E cb : cb \in current[l].todo PROVE Goal
    BY <1>2, <1>4, CallbackConn, CloseMoves
  <1>5. CASE onCloseEvent(l) \/ handleReadEnd(l) \/ handleWriteFails(l)
    BY <1>4, <1>5 DEF onCloseEvent, handleReadEnd, handleWriteFails, Calls
  <1>6. CASE poll(l) \/ (\E c \in Conns : handleEvent(l, c)) \/ handleReadData(l)
               \/ handleWrite(l) \/ doOtherTasks(l)
    BY <1>2, <1>6 DEF poll, handleEvent, handleReadData, handleWrite, doOtherTasks
  <1>7. QED BY <1>3, <1>5, <1>6 DEF LoopStep

\* Every step keeps the callbacks in step with the state.
LEMMA CallbackStepKeeps == TypeInv /\ CallbackInv /\ [Next]_vars => CallbackInv'
  <1> SUFFICES ASSUME TypeInv, CallbackInv, [Next]_vars PROVE CallbackInv'
    OBVIOUS
  <1>1. ASSUME UNCHANGED <<m_state, callbacks>> PROVE CallbackInv'
    BY <1>1 DEF CallbackInv, CallbackOnce
  <1>2. ASSUME NoMove PROVE CallbackInv'
    BY <1>2 DEF CallbackInv, CallbackOnce, NoMove
  <1>3. \A x \in Conns : callbacks[x] = [up |-> callbacks[x].up + 0, down |-> callbacks[x].down + 0]
    BY DEF TypeInv, TypeOK
  <1>4. ASSUME NEW l \in Loops, LoopStep(l) PROVE CallbackInv'
    BY <1>2, <1>4, LoopMoves, MovesKeep
  <1>5. ASSUME NEW l \in Loops, CallbackStep(l) PROVE CallbackInv'
    <2>1. CASE forceClose(l)
      <3>1. current[l].conn \in Conns
        BY <2>1, CallbackConn DEF forceClose, InCallback
      <3>2. \/ UNCHANGED <<m_state, callbacks>>
            \/ /\ m_state[current[l].conn] \in {"kConnected", "kDisconnecting"}
               /\ Moves(current[l].conn, "kDisconnecting", 0, 0)
        BY <1>3, <2>1, <3>1 DEF forceClose, Moves
      <3>3. QED BY <1>1, <3>1, <3>2, MovesKeep
    <2>2. CASE messageReturn(l) \/ sendQueued(l)
                 \/ \E c \in Conns, body \in Payload : sendHere(l, c, body) \/ sendChecked(l, c, body)
      BY <1>1, <2>2 DEF messageReturn, sendQueued, sendHere, sendChecked
    <2>3. QED BY <1>5, <2>1, <2>2 DEF CallbackStep
  <1>6. ASSUME NEW x \in Conns, NEW l \in IoLoops, newConnection(x, l) PROVE CallbackInv'
    <2>1. m_state[x] = "none" /\ Moves(x, "kConnecting", 0, 0)
      BY <1>3, <1>6 DEF newConnection, Moves
    <2>2. QED BY <2>1, MovesKeep
  <1>7. QED BY <1>1, <1>4, <1>5, <1>6 DEF Next, vars

\* onConnected and onDisconnected run at most once for each connection, and a
\* connection is reported down exactly when it is kDisconnected.
THEOREM CallbacksMadeOnce == Spec => []CallbackOnce
  <1>1. Init => CallbackInv
    BY DEF Init, CallbackInv, CallbackOnce
  <1>2. CallbackInv => CallbackOnce
    BY DEF CallbackInv
  <1>3. QED BY <1>1, <1>2, TypeInit, TypeStep, CallbackStepKeeps, PTL DEF Spec
-----------------------------------------------------------------------------
(* The functors of a loop as one queue: those swapped out, then those      *)
(* pending.  doOtherTasks leaves it alone, queueInLoop appends to it and   *)
(* running a functor takes its head.                                       *)

Chain(l) == functors[l] \o m_pendingFunctors[l]

\* The two parts of a queue, and the whole, are typed.
LEMMA ChainType ==
    ASSUME TypeInv, NEW l \in Loops
    PROVE  /\ Chain(l) \in Seq(Functor)
           /\ functors[l] \in Seq(Functor) /\ m_pendingFunctors[l] \in Seq(Functor)
  BY DEF Chain, TypeInv, TypeOK

\* A functor is in the whole when it is in one of the two parts.
LEMMA ChainHas ==
    ASSUME NEW p \in Seq(Functor), NEW q \in Seq(Functor), NEW f
    PROVE  Has(p \o q, f) <=> Has(p, f) \/ Has(q, f)
  <1>1. ASSUME Has(p \o q, f) PROVE Has(p, f) \/ Has(q, f)
    <2>1. PICK i \in DOMAIN (p \o q) : (p \o q)[i] = f
      BY <1>1 DEF Has
    <2>2. CASE i <= Len(p)
      BY <2>1, <2>2 DEF Has
    <2>3. CASE ~(i <= Len(p))
      <3>1. i - Len(p) \in DOMAIN q /\ q[i - Len(p)] = f
        BY <2>1, <2>3
      <3>2. QED BY <3>1 DEF Has
    <2>4. QED BY <2>2, <2>3
  <1>2. ASSUME Has(p, f) PROVE Has(p \o q, f)
    <2>1. PICK i \in DOMAIN p : p[i] = f
      BY <1>2 DEF Has
    <2>2. i \in DOMAIN (p \o q) /\ (p \o q)[i] = f
      BY <2>1
    <2>3. QED BY <2>2 DEF Has
  <1>3. ASSUME Has(q, f) PROVE Has(p \o q, f)
    <2>1. PICK i \in DOMAIN q : q[i] = f
      BY <1>3 DEF Has
    <2>2. i + Len(p) \in DOMAIN (p \o q) /\ (p \o q)[i + Len(p)] = f
      BY <2>1
    <2>3. QED BY <2>2 DEF Has
  <1>4. QED BY <1>1, <1>2, <1>3

\* Queued, of one queue.
LEMMA ChainQueued ==
    ASSUME TypeInv, NEW l \in Loops, NEW name, NEW c
    PROVE  Queued(l, name, c) <=> Has(Chain(l), Shared(name, c))
  BY ChainType, ChainHas DEF Queued, Chain

\* Nothing is queued or run.
LEMMA ChainKept ==
    ASSUME UNCHANGED <<functors, m_pendingFunctors>>
    PROVE  \A l \in Loops : Chain(l)' = Chain(l)
  BY DEF Chain

\* Appending to the second part is appending to the whole.
LEMMA ConcatAppend ==
    ASSUME NEW p \in Seq(Functor), NEW q \in Seq(Functor), NEW f \in Functor
    PROVE  p \o Append(q, f) = Append(p \o q, f)
  <1>1. /\ p \o Append(q, f) \in Seq(Functor) /\ Append(p \o q, f) \in Seq(Functor)
        /\ Len(p \o Append(q, f)) = Len(p) + Len(q) + 1
        /\ Len(Append(p \o q, f)) = Len(p) + Len(q) + 1
    OBVIOUS
  <1>2. ASSUME NEW i \in 1..(Len(p) + Len(q) + 1)
        PROVE  (p \o Append(q, f))[i] = Append(p \o q, f)[i]
    <2>1. CASE i <= Len(p)
      BY <2>1
    <2>2. CASE i > Len(p) /\ i <= Len(p) + Len(q)
      BY <2>2
    <2>3. CASE i = Len(p) + Len(q) + 1
      BY <2>3
    <2>4. QED BY <2>1, <2>2, <2>3
  <1>3. QED BY <1>1, <1>2, SeqEqual

\* queueInLoop.
LEMMA ChainAdds ==
    ASSUME TypeInv, NEW m \in Loops, NEW f \in Functor, queueInLoop(m, f), UNCHANGED functors
    PROVE  \A k \in Loops : Chain(k)' = IF k = m THEN Append(Chain(k), f) ELSE Chain(k)
  <1> TAKE k \in Loops
  <1>1. CASE k # m
    BY <1>1 DEF queueInLoop, Chain, TypeInv, TypeOK
  <1>2. CASE k = m
    <2>1. m_pendingFunctors'[k] = Append(m_pendingFunctors[k], f)
      BY <1>2 DEF queueInLoop, TypeInv, TypeOK
    <2>2. functors[k] \o Append(m_pendingFunctors[k], f)
            = Append(functors[k] \o m_pendingFunctors[k], f)
      BY ChainType, ConcatAppend
    <2>3. QED BY <1>2, <2>1, <2>2 DEF Chain
  <1>3. QED BY <1>1, <1>2

\* A functor runs, and may queue another one.
LEMMA ChainRuns ==
    ASSUME TypeInv, NEW l \in Loops, NEW name, Runs(l, name)
    PROVE  /\ Chain(l) # <<>> /\ Head(Chain(l)) = Head(functors[l])
           /\ UNCHANGED m_pendingFunctors =>
                \A k \in Loops : Chain(k)' = IF k = l THEN Tail(Chain(k)) ELSE Chain(k)
           /\ \A m \in Loops : \A f \in Functor : queueInLoop(m, f) =>
                \A k \in Loops :
                   Chain(k)' = LET mid == IF k = l THEN Tail(Chain(k)) ELSE Chain(k)
                               IN  IF k = m THEN Append(mid, f) ELSE mid
  <1>1. /\ functors[l] # <<>> /\ functors[l] \in Seq(Functor)
        /\ functors' = [functors EXCEPT ![l] = Tail(@)] /\ functors \in [Loops -> Seq(Functor)]
    BY DEF Runs, TypeInv, TypeOK
  <1>2. ASSUME NEW p \in Seq(Functor), NEW q \in Seq(Functor), p # <<>>
        PROVE  p \o q # <<>> /\ Head(p \o q) = Head(p) /\ Tail(p \o q) = Tail(p) \o q
    <2>1. p \o q # <<>> /\ Head(p \o q) = Head(p)
      BY <1>2
    <2>2. Tail(p \o q) = Tail(p) \o q
      BY <1>2
    <2>3. QED BY <2>1, <2>2
  <1>3. Chain(l) # <<>> /\ Head(Chain(l)) = Head(functors[l])
    BY <1>1, <1>2, ChainType DEF Chain
  <1>4. \A k \in Loops : functors'[k] = IF k = l THEN Tail(functors[k]) ELSE functors[k]
    BY <1>1
  <1>5. ASSUME NEW k \in Loops
        PROVE  functors'[k] \o m_pendingFunctors[k] = IF k = l THEN Tail(Chain(k)) ELSE Chain(k)
    BY ZenonT(60), <1>1, <1>2, <1>4, ChainType DEF Chain
  <1>6. UNCHANGED m_pendingFunctors =>
                \A k \in Loops : Chain(k)' = IF k = l THEN Tail(Chain(k)) ELSE Chain(k)
    BY <1>5 DEF Chain
  <1>7. ASSUME NEW m \in Loops, NEW f \in Functor, queueInLoop(m, f), NEW k \in Loops
        PROVE  Chain(k)' = LET mid == IF k = l THEN Tail(Chain(k)) ELSE Chain(k)
                           IN  IF k = m THEN Append(mid, f) ELSE mid
    <2>1. functors'[k] \in Seq(Functor)
      BY <1>1, <1>4, ChainType, HeadType
    <2>2. m_pendingFunctors'[k] = IF k = m THEN Append(m_pendingFunctors[k], f)
                                  ELSE m_pendingFunctors[k]
      BY <1>7 DEF queueInLoop, TypeInv, TypeOK
    <2>3. functors'[k] \o Append(m_pendingFunctors[k], f)
            = Append(functors'[k] \o m_pendingFunctors[k], f)
      BY <1>7, <2>1, ChainType, ConcatAppend
    <2>4. QED BY <1>5, <2>2, <2>3 DEF Chain
  <1>8. QED BY <1>3, <1>6, <1>7

\* doOtherTasks swaps the pending functors out.
LEMMA ChainSwaps ==
    ASSUME TypeInv, NEW l \in Loops, doOtherTasks(l)
    PROVE  \A k \in Loops : Chain(k)' = Chain(k)
  <1> TAKE k \in Loops
  <1>1. CASE k # l
    BY <1>1 DEF doOtherTasks, Chain, TypeInv, TypeOK
  <1>2. CASE k = l
    <2>1. functors[k] = <<>> /\ functors'[k] = m_pendingFunctors[k] /\ m_pendingFunctors'[k] = <<>>
      BY <1>2 DEF doOtherTasks, AtRest, TypeInv, TypeOK
    <2>2. m_pendingFunctors[k] \o <<>> = <<>> \o m_pendingFunctors[k]
      BY ChainType
    <2>3. QED BY <2>1, <2>2 DEF Chain
  <1>3. QED BY <1>1, <1>2
-----------------------------------------------------------------------------
(* connectEstablished and removeConnectionInLoop are queued at most once   *)
(* for a connection, which is why their branches for other states are dead.*)

Once(q, f) == \A i, j \in DOMAIN q : q[i] = f /\ q[j] = f => i = j

Removal(c) == Shared("removeConnectionInLoop", c)
Establishment(c) == Shared("connectEstablished", c)

RemovalOnce(l, c) ==
    /\ Once(Chain(l), Removal(c))
    /\ Has(Chain(l), Removal(c)) => l = MainLoop /\ c \in m_connections

EstablishmentOnce(l, c) ==
    /\ Once(Chain(l), Establishment(c))
    /\ Has(Chain(l), Establishment(c)) => l = m_loop[c] /\ m_state[c] = "kConnecting"

QueuedOnce == \A l \in Loops, c \in Conns : RemovalOnce(l, c) /\ EstablishmentOnce(l, c)

\* Appending a functor that is not there yet.
LEMMA OnceAppend ==
    ASSUME NEW q \in Seq(Functor), NEW g \in Functor, NEW f, Once(q, f), g = f => ~Has(q, f)
    PROVE  Once(Append(q, g), f)
  <1> SUFFICES ASSUME NEW i \in 1..(Len(q) + 1), NEW j \in 1..(Len(q) + 1),
                      Append(q, g)[i] = f, Append(q, g)[j] = f
               PROVE  i = j
    BY DEF Once
  <1>1. \A k \in 1..(Len(q) + 1) : Append(q, g)[k] = IF k <= Len(q) THEN q[k] ELSE g
    OBVIOUS
  <1>2. g = f => \A k \in 1..Len(q) : q[k] # f
    BY DEF Has
  <1>3. CASE g = f
    BY <1>1, <1>2, <1>3
  <1>4. CASE g # f
    BY <1>1, <1>4 DEF Once
  <1>5. QED BY <1>3, <1>4

\* Running the first functor.
LEMMA OnceTail ==
    ASSUME NEW q \in Seq(Functor), q # <<>>, NEW f, Once(q, f)
    PROVE  Once(Tail(q), f) /\ (Head(q) = f => ~Has(Tail(q), f))
  <1>1. /\ Tail(q) \in Seq(Functor) /\ Len(Tail(q)) = Len(q) - 1
        /\ \A i \in 1..(Len(q) - 1) : Tail(q)[i] = q[i + 1]
    OBVIOUS
  <1>2. Once(Tail(q), f)
    BY <1>1 DEF Once
  <1>3. ASSUME Head(q) = f, Has(Tail(q), f) PROVE FALSE
    <2>1. PICK i \in 1..(Len(q) - 1) : Tail(q)[i] = f
      BY <1>1, <1>3 DEF Has
    <2>2. q[1] = f /\ q[i + 1] = f /\ 1 \in DOMAIN q /\ i + 1 \in DOMAIN q
      BY <1>1, <1>3, <2>1
    <2>3. QED BY <2>1, <2>2 DEF Once
  <1>4. QED BY <1>2, <1>3

\* What a step does to the queues: the loops of R run their first functor, those
\* of A are given functor g.
ChainStep(R, A, g) ==
    /\ \A l \in R : Chain(l) # <<>>
    /\ A # {} => g \in Functor
    /\ \A l \in Loops :
         Chain(l)' = LET mid == IF l \in R THEN Tail(Chain(l)) ELSE Chain(l)
                     IN  IF l \in A THEN Append(mid, g) ELSE mid

\* A step of the queues brings in at most the functor appended, once if it was
\* not there; the one that ran is gone.
LEMMA OnceChainStep ==
    ASSUME TypeInv, NEW R, NEW A, NEW g, ChainStep(R, A, g), NEW l \in Loops, NEW f,
           Once(Chain(l), f)
    PROVE  /\ Has(Chain(l)', f) => Has(Chain(l), f) \/ (f = g /\ l \in A)
           /\ (f = g /\ l \in A => ~Has(Chain(l), f)) => Once(Chain(l)', f)
           /\ l \in R /\ Head(Chain(l)) = f /\ ~(f = g /\ l \in A) => ~Has(Chain(l)', f)
  <1> DEFINE q == Chain(l)
             mid == IF l \in R THEN Tail(q) ELSE q
             r == Chain(l)'
  <1>1. q \in Seq(Functor) /\ (l \in R => q # <<>>) /\ (l \in A => g \in Functor)
    BY ChainType DEF ChainStep
  <1>2. r = IF l \in A THEN Append(mid, g) ELSE mid
    BY DEF ChainStep
  <1>3. mid \in Seq(Functor) /\ Once(mid, f)
    BY <1>1, OnceTail
  <1>4. Has(mid, f) => Has(q, f)
    BY <1>1, HasTail
  <1>5. l \in R /\ Head(q) = f => ~Has(mid, f)
    BY <1>1, OnceTail
  <1>6. Once(q, f)
    OBVIOUS
  <1> HIDE DEF mid, q, r
  <1>7. /\ Has(r, f) => Has(q, f) \/ (f = g /\ l \in A)
        /\ (f = g /\ l \in A => ~Has(q, f)) => Once(r, f)
        /\ l \in R /\ Head(q) = f /\ ~(f = g /\ l \in A) => ~Has(r, f)
    <2>1. CASE l \notin A
      BY <1>2, <1>3, <1>4, <1>5, <2>1
    <2>2. CASE l \in A
      <3>1. Has(r, f) <=> Has(mid, f) \/ f = g
        BY <1>1, <1>2, <1>3, <2>2, HasAppend
      <3>2. (f = g => ~Has(mid, f)) => Once(r, f)
        BY <1>1, <1>2, <1>3, <2>2, OnceAppend
      <3>3. QED BY <1>4, <1>5, <2>2, <3>1, <3>2
    <2>3. QED BY <2>1, <2>2
  <1>8. QED BY <1>7 DEF q, r

\* The conditions under which a step of the queues keeps functors unique.
LEMMA QueuedOnceStep ==
    ASSUME TypeInv, QueuedOnce, NEW R, NEW A, NEW g, ChainStep(R, A, g),
           \A l \in Loops, c \in Conns :
              /\ l \in A /\ g = Removal(c) =>
                   ~Has(Chain(l), g) /\ l = MainLoop /\ c \in m_connections'
              /\ l \in A /\ g = Establishment(c) =>
                   ~Has(Chain(l), g) /\ l = m_loop'[c] /\ m_state'[c] = "kConnecting"
              /\ Has(Chain(l), Removal(c)) =>
                   c \in m_connections' \/ (l \in R /\ Head(Chain(l)) = Removal(c))
              /\ Has(Chain(l), Establishment(c)) =>
                   \/ m_loop'[c] = m_loop[c] /\ m_state'[c] = m_state[c]
                   \/ l \in R /\ Head(Chain(l)) = Establishment(c)
    PROVE  QueuedOnce'
  <1> SUFFICES ASSUME NEW l \in Loops, NEW c \in Conns
               PROVE  RemovalOnce(l, c)' /\ EstablishmentOnce(l, c)'
    BY DEF QueuedOnce
  <1>1. RemovalOnce(l, c) /\ EstablishmentOnce(l, c)
    BY DEF QueuedOnce
  <1>2. RemovalOnce(l, c)'
    <2>1. /\ Has(Chain(l)', Removal(c)) => Has(Chain(l), Removal(c)) \/ (Removal(c) = g /\ l \in A)
          /\ (Removal(c) = g /\ l \in A => ~Has(Chain(l), Removal(c))) => Once(Chain(l)', Removal(c))
          /\ l \in R /\ Head(Chain(l)) = Removal(c) /\ ~(Removal(c) = g /\ l \in A)
               => ~Has(Chain(l)', Removal(c))
      BY <1>1, OnceChainStep DEF RemovalOnce
    <2>2. Removal(c)' = Removal(c)
      BY DEF Removal, Shared
    <2>3. QED BY <1>1, <2>1, <2>2 DEF RemovalOnce
  <1>3. EstablishmentOnce(l, c)'
    <2>1. /\ Has(Chain(l)', Establishment(c))
               => Has(Chain(l), Establishment(c)) \/ (Establishment(c) = g /\ l \in A)
          /\ (Establishment(c) = g /\ l \in A => ~Has(Chain(l), Establishment(c)))
               => Once(Chain(l)', Establishment(c))
          /\ l \in R /\ Head(Chain(l)) = Establishment(c) /\ ~(Establishment(c) = g /\ l \in A)
               => ~Has(Chain(l)', Establishment(c))
      BY <1>1, OnceChainStep DEF EstablishmentOnce
    <2>2. QED BY <1>1, <2>1 DEF EstablishmentOnce
  <1>4. QED BY <1>2, <1>3

\* Steps that neither queue nor run one of the two, and leave what they depend
\* on alone.
LEMMA OnceKept ==
    ASSUME TypeInv, QueuedOnce, NEW R, NEW A, NEW g, ChainStep(R, A, g),
           UNCHANGED <<m_connections, m_loop>>,
           \A c \in Conns : m_state[c] = "kConnecting" => m_state'[c] = m_state[c],
           \A c \in Conns : A # {} => g # Removal(c) /\ g # Establishment(c)
    PROVE  QueuedOnce'
  <1>1. \A l \in Loops, c \in Conns : RemovalOnce(l, c) /\ EstablishmentOnce(l, c)
    BY DEF QueuedOnce
  <1>2. \A l \in Loops, c \in Conns :
              /\ l \in A => g # Removal(c) /\ g # Establishment(c)
              /\ Has(Chain(l), Removal(c)) => c \in m_connections'
              /\ Has(Chain(l), Establishment(c)) => m_loop'[c] = m_loop[c] /\ m_state'[c] = m_state[c]
    BY <1>1 DEF RemovalOnce, EstablishmentOnce
  <1>3. QED BY <1>2, QueuedOnceStep

\* A connection that is not closed is closed: by handleClose when it was
\* established, by connectEstablished when the poller refuses it.
LEMMA OnceClose ==
    ASSUME TypeInv, LifetimeInv, QueuedOnce, NEW R, NEW x \in Conns,
           ChainStep(R, {MainLoop}, Removal(x)),
           UNCHANGED <<m_connections, m_loop>>,
           \A c \in Conns : c # x => m_state'[c] = m_state[c],
           \/ m_state[x] \in {"kConnected", "kDisconnecting"}
           \/ /\ m_state[x] = "kConnecting"
              /\ \A l \in Loops : Has(Chain(l), Establishment(x)) =>
                     l \in R /\ Head(Chain(l)) = Establishment(x)
    PROVE  QueuedOnce'
  <1>1. \A l \in Loops, c \in Conns : RemovalOnce(l, c) /\ EstablishmentOnce(l, c)
    BY DEF QueuedOnce
  <1>2. x \in m_connections
    BY DEF LifetimeInv, HeldWhileOpen
  <1>3. ~Has(Chain(MainLoop), Removal(x))
    <2>1. MainLoop \in Loops
      BY DEF Loops
    <2>2. ~Queued(MainLoop, "removeConnectionInLoop", x)
      BY <2>1 DEF LifetimeInv, OnlyClosedRemoved
    <2>3. QED BY <2>1, <2>2, ChainQueued DEF Removal
  <1>4. \A c, d : (Removal(c) = Removal(d) => c = d) /\ Removal(c) # Establishment(d)
    BY DEF Removal, Establishment, Shared
  <1>5. \A l \in Loops, c \in Conns :
              /\ l \in {MainLoop} /\ Removal(x) = Removal(c) =>
                   ~Has(Chain(l), Removal(x)) /\ l = MainLoop /\ c \in m_connections'
              /\ l \in {MainLoop} /\ Removal(x) = Establishment(c) =>
                   ~Has(Chain(l), Removal(x)) /\ l = m_loop'[c] /\ m_state'[c] = "kConnecting"
              /\ Has(Chain(l), Removal(c)) =>
                   c \in m_connections' \/ (l \in R /\ Head(Chain(l)) = Removal(c))
    BY <1>1, <1>2, <1>3, <1>4 DEF RemovalOnce
  <1>6. ASSUME NEW l \in Loops, NEW c \in Conns, Has(Chain(l), Establishment(c))
        PROVE  \/ m_loop'[c] = m_loop[c] /\ m_state'[c] = m_state[c]
               \/ l \in R /\ Head(Chain(l)) = Establishment(c)
    BY <1>1, <1>6 DEF EstablishmentOnce
  <1>7. QED BY <1>5, <1>6, QueuedOnceStep

\* handleClose of a connection in the hands of its loop.
LEMMA OnceHandleClose ==
    ASSUME TypeInv, LifetimeInv, QueuedOnce, NEW x \in Conns, handleClose(x),
           m_state[x] \in {"kConnected", "kDisconnecting", "kDisconnected"},
           UNCHANGED <<m_connections, m_loop, functors>>
    PROVE  QueuedOnce'
  <1>1. CASE m_state[x] = "kDisconnected"
    <2>1. UNCHANGED <<m_state, m_pendingFunctors>>
      BY <1>1 DEF handleClose
    <2>2. ChainStep({}, {}, Removal(x))
      BY <2>1, ChainKept DEF ChainStep
    <2>3. QED BY <2>1, <2>2, OnceKept
  <1>2. CASE m_state[x] # "kDisconnected"
    <2>1. /\ MainLoop \in Loops /\ Removal(x) \in Functor
          /\ queueInLoop(MainLoop, Removal(x))
          /\ m_state' = [m_state EXCEPT ![x] = "kDisconnected"]
      BY <1>2, SharedType DEF handleClose, Loops, Removal, FunctorName
    <2>2. ChainStep({}, {MainLoop}, Removal(x))
      BY <2>1, ChainAdds DEF ChainStep
    <2>3. \A c \in Conns : c # x => m_state'[c] = m_state[c]
      BY <2>1 DEF TypeInv, TypeOK
    <2>4. QED BY <1>2, <2>2, <2>3, OnceClose
  <1>3. QED BY <1>1, <1>2

\* The steps of a loop up to its functors keep the two unique.
LEMMA OnceLoop ==
    ASSUME TypeInv, LifetimeInv, QueuedOnce, NEW l \in Loops,
           \/ poll(l)
           \/ \E c \in Conns : handleEvent(l, c)
           \/ onCloseEvent(l)
           \/ handleReadData(l)
           \/ handleReadEnd(l)
           \/ handleWrite(l)
           \/ handleWriteFails(l)
           \/ doOtherTasks(l)
    PROVE  QueuedOnce'
  <1> USE DEF loopVars
  <1>1. ASSUME UNCHANGED <<m_state, m_connections, m_loop, functors, m_pendingFunctors>>
        PROVE  QueuedOnce'
    <2>1. ChainStep({}, {}, NoMsg)
      BY <1>1, ChainKept DEF ChainStep
    <2>2. QED BY <1>1, <2>1, OnceKept
  <1>2. ASSUME NEW cb, cb \in current[l].todo, handleClose(current[l].conn),
               UNCHANGED <<m_connections, m_loop, functors>>
        PROVE  QueuedOnce'
    BY <1>2, HandledIsOpen, OnceHandleClose
  <1>3. CASE doOtherTasks(l)
    <2>1. ChainStep({}, {}, NoMsg)
      BY <1>3, ChainSwaps DEF ChainStep
    <2>2. UNCHANGED <<m_state, m_connections, m_loop>>
      BY <1>3 DEF doOtherTasks
    <2>3. QED BY <2>1, <2>2, OnceKept
  <1>4. CASE onCloseEvent(l) \/ handleReadEnd(l) \/ handleWriteFails(l)
    BY <1>2, <1>4 DEF onCloseEvent, handleReadEnd, handleWriteFails, Calls
  <1>5. CASE poll(l) \/ (\E c \in Conns : handleEvent(l, c)) \/ handleReadData(l) \/ handleWrite(l)
    BY <1>1, <1>5 DEF poll, handleEvent, handleReadData, handleWrite
  <1>6. QED BY <1>3, <1>4, <1>5

\* So do the steps of a message callback.
LEMMA OnceCallback ==
    ASSUME TypeInv, LifetimeInv, QueuedOnce, NEW l \in Loops, CallbackStep(l)
    PROVE  QueuedOnce'
  <1> USE DEF loopVars
  <1>1. ASSUME UNCHANGED <<m_state, m_connections, m_loop, functors, m_pendingFunctors>>
        PROVE  QueuedOnce'
    <2>1. ChainStep({}, {}, NoMsg)
      BY <1>1, ChainKept DEF ChainStep
    <2>2. QED BY <1>1, <2>1, OnceKept
  <1>2. ASSUME NEW m \in Loops, NEW g \in Functor, queueInLoop(m, g),
               \A c \in Conns : g # Removal(c) /\ g # Establishment(c),
               UNCHANGED <<m_connections, m_loop, functors>>,
               \A c \in Conns : m_state[c] = "kConnecting" => m_state'[c] = m_state[c]
        PROVE  QueuedOnce'
    <2>1. ChainStep({}, {m}, g)
      BY <1>2, ChainAdds DEF ChainStep
    <2>2. QED BY <1>2, <2>1, OnceKept
  <1>3. CASE sendQueued(l)
    <2> DEFINE c == sending[l].conn
               msg == sending[l].msg
    <2>1. c \in Conns /\ msg \in Msg /\ m_loop[c] \in Loops
      BY <1>3 DEF sendQueued, TypeInv, TypeOK
    <2>2. /\ queueInLoop(m_loop[c], RawSend(c, msg))
          /\ UNCHANGED <<m_state, m_connections, m_loop, functors>>
      BY <1>3 DEF sendQueued
    <2>3. RawSend(c, msg) \in Functor
      BY <2>1, RawSendType
    <2>4. \A d \in Conns : RawSend(c, msg) # Removal(d) /\ RawSend(c, msg) # Establishment(d)
      BY DEF RawSend, Removal, Establishment, Shared
    <2>5. QED BY <1>2, <2>1, <2>2, <2>3, <2>4
  <1>4. CASE forceClose(l)
    <2> DEFINE x == current[l].conn
    <2>1. x \in Conns
      BY <1>4, CallbackConn DEF forceClose, InCallback
    <2>2. CASE m_state[x] \in {"kConnected", "kDisconnecting"}
      <3>1. /\ queueInLoop(m_loop[x], Shared("forceCloseInLoop", x))
            /\ m_state' = [m_state EXCEPT ![x] = "kDisconnecting"]
            /\ UNCHANGED <<m_connections, m_loop, functors>>
        BY <1>4, <2>2 DEF forceClose
      <3>2. m_loop[x] \in Loops /\ Shared("forceCloseInLoop", x) \in Functor
        BY <2>1, SharedType DEF TypeInv, TypeOK, FunctorName
      <3>3. \A c \in Conns : m_state[c] = "kConnecting" => m_state'[c] = m_state[c]
        BY <2>2, <3>1 DEF TypeInv, TypeOK
      <3>4. \A d \in Conns : /\ Shared("forceCloseInLoop", x) # Removal(d)
                             /\ Shared("forceCloseInLoop", x) # Establishment(d)
        BY DEF Removal, Establishment, Shared
      <3>5. QED BY <1>2, <3>1, <3>2, <3>3, <3>4
    <2>3. CASE m_state[x] \notin {"kConnected", "kDisconnecting"}
      BY <1>1, <1>4, <2>3 DEF forceClose
    <2>4. QED BY <2>2, <2>3
  <1>5. CASE messageReturn(l)
               \/ \E c \in Conns, body \in Payload : sendHere(l, c, body) \/ sendChecked(l, c, body)
    BY <1>1, <1>5 DEF messageReturn, sendHere, sendChecked
  <1>6. QED BY <1>3, <1>4, <1>5 DEF CallbackStep

\* And the functors.
LEMMA OnceFunctor ==
    ASSUME TypeInv, LifetimeInv, QueuedOnce, NEW l \in Loops, RunFunctor(l)
    PROVE  QueuedOnce'
  <1> DEFINE x == Head(functors[l]).conn
  <1>1. \A k \in Loops, c \in Conns : RemovalOnce(k, c) /\ EstablishmentOnce(k, c)
    BY DEF QueuedOnce
  <1>2. MainLoop \in Loops
    BY DEF Loops
  <1>3. ASSUME NEW name, Runs(l, name), UNCHANGED m_pendingFunctors
        PROVE  ChainStep({l}, {}, NoMsg)
    BY <1>3, ChainRuns DEF ChainStep
  <1>4. ASSUME NEW name, Runs(l, name), NEW m \in Loops, NEW g \in Functor, queueInLoop(m, g)
        PROVE  ChainStep({l}, {m}, g)
    BY <1>4, ChainRuns DEF ChainStep
  <1>5. ASSUME NEW name, Runs(l, name), UNCHANGED <<m_connections, m_pendingFunctors>>,
               \A c \in Conns : m_state[c] = "kConnecting" => m_state'[c] = m_state[c]
        PROVE  QueuedOnce'
    <2>1. UNCHANGED m_loop
      BY <1>5 DEF Runs
    <2>2. QED BY <1>3, <1>5, <2>1, OnceKept
  <1>6. ASSUME NEW name, Runs(l, name), name # "sendInLoop"
        PROVE  /\ x \in Conns /\ m_loop[x] \in Loops /\ UNCHANGED m_loop
               /\ Head(Chain(l)) = Shared(name, x) /\ Has(Chain(l), Shared(name, x))
    <2>1. Head(Chain(l)) = Head(functors[l]) /\ Chain(l) # <<>> /\ Chain(l) \in Seq(Functor)
      BY <1>6, ChainRuns, ChainType
    <2>2. Head(functors[l]) = Shared(name, x)
      BY <1>6, QueueRun
    <2>3. Has(Chain(l), Shared(name, x))
      BY <2>1, <2>2, HasTail
    <2>4. x \in Conns
      BY <1>6, RunsType
    <2>5. UNCHANGED m_loop
      BY <1>6 DEF Runs
    <2>6. m_loop[x] \in Loops
      BY <2>4 DEF TypeInv, TypeOK
    <2>7. QED BY <2>1, <2>2, <2>3, <2>4, <2>5, <2>6
  <1>7. CASE connectEstablished(l)
    <2>1. Runs(l, "connectEstablished") /\ UNCHANGED <<m_connections, m_pendingFunctors>>
      BY <1>7 DEF connectEstablished
    <2>2. CASE m_state[x] # "kConnecting"
      BY <1>5, <1>7, <2>1, <2>2 DEF connectEstablished
    <2>3. CASE m_state[x] = "kConnecting"
      <3>1. x \in Conns /\ UNCHANGED m_loop /\ Head(Chain(l)) = Establishment(x)
            /\ Has(Chain(l), Establishment(x))
        BY <1>6, <2>1 DEF Establishment
      <3>2. l = m_loop[x]
        BY <1>1, <3>1 DEF EstablishmentOnce
      <3>3. \A c \in Conns : c # x => m_state'[c] = m_state[c]
        BY <1>7, <2>3 DEF connectEstablished, TypeInv, TypeOK
      <3>4. ASSUME NEW k \in Loops, NEW c \in Conns, Has(Chain(k), Establishment(c))
            PROVE  \/ m_loop'[c] = m_loop[c] /\ m_state'[c] = m_state[c]
                   \/ k \in {l} /\ Head(Chain(k)) = Establishment(c)
        BY <1>1, <3>1, <3>2, <3>3, <3>4 DEF EstablishmentOnce
      <3>5. \A k \in Loops, c \in Conns : Has(Chain(k), Removal(c)) => c \in m_connections'
        BY <1>1, <2>1 DEF RemovalOnce
      <3>6. ChainStep({l}, {}, NoMsg)
        BY <1>3, <2>1
      <3>7. QED BY <3>4, <3>5, <3>6, QueuedOnceStep
    <2>4. QED BY <2>2, <2>3
  <1>8. CASE connectEstablishedFails(l)
    <2>1. /\ Runs(l, "connectEstablished") /\ UNCHANGED m_connections
          /\ m_state[x] = "kConnecting" /\ m_state' = [m_state EXCEPT ![x] = "kDisconnected"]
          /\ queueInLoop(MainLoop, Removal(x))
      BY <1>8 DEF connectEstablishedFails, Removal
    <2>2. x \in Conns /\ UNCHANGED m_loop /\ Head(Chain(l)) = Establishment(x)
          /\ Has(Chain(l), Establishment(x))
      BY <1>6, <2>1 DEF Establishment
    <2>3. \A k \in Loops : Has(Chain(k), Establishment(x)) =>
                     k \in {l} /\ Head(Chain(k)) = Establishment(x)
      BY <1>1, <2>2 DEF EstablishmentOnce
    <2>4. \A c \in Conns : c # x => m_state'[c] = m_state[c]
      BY <2>1 DEF TypeInv, TypeOK
    <2>5. Removal(x) \in Functor
      BY <2>2, SharedType DEF Removal, FunctorName
    <2>6. ChainStep({l}, {MainLoop}, Removal(x))
      BY <1>2, <1>4, <2>1, <2>5
    <2>7. QED BY <2>1, <2>2, <2>3, <2>4, <2>6, OnceClose
  <1>9. CASE runSendInLoop(l)
    BY <1>5, <1>9 DEF runSendInLoop
  <1>10. CASE forceCloseInLoop(l)
    <2>1. Runs(l, "forceCloseInLoop") /\ UNCHANGED m_connections
      BY <1>10 DEF forceCloseInLoop
    <2>2. CASE m_state[x] \in {"kConnected", "kDisconnecting"}
      <3>1. /\ queueInLoop(MainLoop, Removal(x))
            /\ m_state' = [m_state EXCEPT ![x] = "kDisconnected"]
        BY <1>10, <2>2 DEF forceCloseInLoop, handleClose, Removal
      <3>2. x \in Conns /\ UNCHANGED m_loop
        BY <1>6, <2>1
      <3>3. Removal(x) \in Functor
        BY <3>2, SharedType DEF Removal, FunctorName
      <3>4. ChainStep({l}, {MainLoop}, Removal(x))
        BY <1>2, <1>4, <2>1, <3>1, <3>3
      <3>5. \A c \in Conns : c # x => m_state'[c] = m_state[c]
        BY <3>1 DEF TypeInv, TypeOK
      <3>6. QED BY <2>1, <2>2, <3>2, <3>4, <3>5, OnceClose
    <2>3. CASE m_state[x] \notin {"kConnected", "kDisconnecting"}
      <3>1. UNCHANGED <<m_state, m_pendingFunctors>>
        BY <1>10, <2>3 DEF forceCloseInLoop
      <3>2. QED BY <1>5, <2>1, <3>1
    <2>4. QED BY <2>2, <2>3
  <1>11. CASE removeConnectionInLoop(l)
    <2>1. /\ Runs(l, "removeConnectionInLoop") /\ UNCHANGED m_state
          /\ m_connections' = m_connections \ {x}
      BY <1>11 DEF removeConnectionInLoop
    <2>2. /\ x \in Conns /\ m_loop[x] \in Loops /\ UNCHANGED m_loop
          /\ Head(Chain(l)) = Removal(x) /\ Has(Chain(l), Removal(x))
      BY <1>6, <2>1 DEF Removal
    <2>3. l = MainLoop /\ x \in m_connections
      BY <1>1, <2>2 DEF RemovalOnce
    <2> DEFINE g == Shared("connectDestroyed", x)
    <2>4. queueInLoop(m_loop[x], g) /\ g \in Functor
      BY <1>11, <2>2, <2>3, SharedType DEF removeConnectionInLoop, FunctorName
    <2>5. ChainStep({l}, {m_loop[x]}, g)
      BY <1>4, <2>1, <2>2, <2>4
    <2>6. \A c \in Conns : g # Removal(c) /\ g # Establishment(c)
      BY DEF Removal, Establishment, Shared
    <2>7. ASSUME NEW k \in Loops, NEW c \in Conns, Has(Chain(k), Removal(c))
          PROVE  c \in m_connections' \/ (k \in {l} /\ Head(Chain(k)) = Removal(c))
      BY <1>1, <2>1, <2>2, <2>3, <2>7 DEF RemovalOnce
    <2>8. QED BY <2>1, <2>2, <2>5, <2>6, <2>7, QueuedOnceStep
  <1>12. CASE connectDestroyed(l)
    <2>1. /\ Runs(l, "connectDestroyed") /\ UNCHANGED <<m_connections, m_pendingFunctors>>
          /\ m_state' = [m_state EXCEPT ![x] = IF m_state[x] = "kConnected"
                                               THEN "kDisconnected" ELSE @]
      BY <1>12 DEF connectDestroyed
    <2>2. \A c \in Conns : m_state[c] = "kConnecting" => m_state'[c] = m_state[c]
      BY <2>1 DEF TypeInv, TypeOK
    <2>3. QED BY <1>5, <2>1, <2>2
  <1>13. QED BY <1>7, <1>8, <1>9, <1>10, <1>11, <1>12 DEF RunFunctor

\* A new connection is queued for its loop, once.
LEMMA OnceNew ==
    ASSUME TypeInv, LifetimeInv, QueuedOnce, NEW x \in Conns, NEW l \in IoLoops,
           newConnection(x, l)
    PROVE  QueuedOnce'
  <1>1. \A k \in Loops, c \in Conns : RemovalOnce(k, c) /\ EstablishmentOnce(k, c)
    BY DEF QueuedOnce
  <1>2. /\ queueInLoop(l, Establishment(x)) /\ UNCHANGED functors
        /\ m_state[x] = "none" /\ m_state' = [m_state EXCEPT ![x] = "kConnecting"]
        /\ m_loop' = [m_loop EXCEPT ![x] = l] /\ m_connections' = m_connections \cup {x}
    BY DEF newConnection, Establishment, loopVars
  <1>3. l \in Loops /\ Establishment(x) \in Functor
    BY SharedType DEF Loops, Establishment, FunctorName
  <1>4. ChainStep({}, {l}, Establishment(x))
    BY <1>2, <1>3, ChainAdds DEF ChainStep
  <1>5. \A k \in Loops : ~Has(Chain(k), Establishment(x))
    BY <1>1, <1>2 DEF EstablishmentOnce
  <1>6. /\ m_loop'[x] = l /\ m_state'[x] = "kConnecting"
        /\ \A c \in Conns : c # x => m_loop'[c] = m_loop[c] /\ m_state'[c] = m_state[c]
    BY <1>2 DEF TypeInv, TypeOK
  <1>7. \A c, d : (Establishment(c) = Establishment(d) => c = d) /\ Establishment(c) # Removal(d)
    BY DEF Removal, Establishment, Shared
  <1>8. ASSUME NEW k \in Loops, NEW c \in Conns
        PROVE /\ k \in {l} /\ Establishment(x) = Removal(c) =>
                   ~Has(Chain(k), Establishment(x)) /\ k = MainLoop /\ c \in m_connections'
              /\ k \in {l} /\ Establishment(x) = Establishment(c) =>
                   ~Has(Chain(k), Establishment(x)) /\ k = m_loop'[c] /\ m_state'[c] = "kConnecting"
              /\ Has(Chain(k), Removal(c)) => c \in m_connections'
              /\ Has(Chain(k), Establishment(c)) => m_loop'[c] = m_loop[c] /\ m_state'[c] = m_state[c]
    BY <1>1, <1>2, <1>5, <1>6, <1>7 DEF RemovalOnce, EstablishmentOnce
  <1>9. QED BY <1>4, <1>8, QueuedOnceStep

\* No queue holds anything at first.
LEMMA OnceInit == Init => QueuedOnce
  <1> SUFFICES ASSUME Init, NEW l \in Loops PROVE Chain(l) = <<>>
    BY DEF QueuedOnce, RemovalOnce, EstablishmentOnce, Once, Has
  <1>1. functors[l] = <<>> /\ m_pendingFunctors[l] = <<>>
    BY DEF Init
  <1>2. QED BY <1>1 DEF Chain

\* Every step keeps the two functors unique.
LEMMA OnceStep == TypeInv /\ LifetimeInv /\ QueuedOnce /\ [Next]_vars => QueuedOnce'
  <1> SUFFICES ASSUME TypeInv, LifetimeInv, QueuedOnce, [Next]_vars PROVE QueuedOnce'
    OBVIOUS
  <1>1. CASE UNCHANGED vars
    <2>1. UNCHANGED <<m_state, m_connections, m_loop, functors, m_pendingFunctors>>
      BY <1>1 DEF vars
    <2>2. ChainStep({}, {}, NoMsg)
      BY <2>1, ChainKept DEF ChainStep
    <2>3. QED BY <2>1, <2>2, OnceKept
  <1>2. ASSUME NEW l \in Loops, LoopStep(l) PROVE QueuedOnce'
    BY <1>2, OnceLoop, OnceFunctor DEF LoopStep
  <1>3. QED BY <1>1, <1>2, OnceCallback, OnceNew DEF Next

\* What the two properties say of the queues.
LEMMA OnceGives == TypeInv /\ QueuedOnce => RemovalFindsEntry /\ EstablishedWhenConnecting
  <1> SUFFICES ASSUME TypeInv, QueuedOnce PROVE RemovalFindsEntry /\ EstablishedWhenConnecting
    OBVIOUS
  <1>1. MainLoop \in Loops
    BY DEF Loops
  <1>2. RemovalFindsEntry
    BY <1>1, ChainQueued DEF RemovalFindsEntry, QueuedOnce, RemovalOnce, Removal
  <1>3. EstablishedWhenConnecting
    BY ChainQueued DEF EstablishedWhenConnecting, QueuedOnce, EstablishmentOnce, Establishment
  <1>4. QED BY <1>2, <1>3

\* removeConnectionInLoop never runs for a connection that is no longer in
\* m_connections.
THEOREM RemovalAlwaysFindsEntry == Spec => []RemovalFindsEntry
  BY TypeInit, TypeStep, LifetimeInit, LifetimeStep, OnceInit, OnceStep, OnceGives, PTL DEF Spec

\* connectEstablished never runs for a connection that is not kConnecting.
THEOREM EstablishedOnlyFromConnecting == Spec => []EstablishedWhenConnecting
  BY TypeInit, TypeStep, LifetimeInit, LifetimeStep, OnceInit, OnceStep, OnceGives, PTL DEF Spec
-----------------------------------------------------------------------------
(* The order of the messages one thread sends to a connection.             *)

\* Sends of thread s that are written, queued or dropped: all but the one
\* between its check and its queueing.
Settled(s) == IF sending[s] = Idle THEN sent[s] ELSE sent[s] - 1

\* Of two queued sends of one thread to one connection the first is the older.
Before(f, g) ==
    /\ f.fn = "sendInLoop" /\ g.fn = "sendInLoop"
    /\ f.conn = g.conn /\ f.msg.from = g.msg.from
    => f.msg.no < g.msg.no

InOrder(q) == \A i, j \in DOMAIN q : i < j => Before(q[i], q[j])

\* A queued send is in its connection's loop, comes from another thread, and is
\* younger than what its connection has of that thread.
SendReady(l, f) ==
    f.fn = "sendInLoop" =>
        /\ m_state[f.conn] # "none" /\ m_loop[f.conn] = l /\ f.msg.from # l
        /\ f.msg.no <= Settled(f.msg.from)
        /\ \A j \in DOMAIN output[f.conn] :
             output[f.conn][j].from = f.msg.from => output[f.conn][j].no < f.msg.no

QueuedSends ==
    \A l \in Loops : /\ \A f \in Functor : Has(Chain(l), f) => SendReady(l, f)
                     /\ InOrder(Chain(l))

OutputSettled ==
    \A c \in Conns : \A i \in DOMAIN output[c] :
        output[c][i].no <= Settled(output[c][i].from)

\* A send between its check and its queueing is the youngest of its thread, to
\* a connection of another one.
SendsInProgress ==
    \A s \in Loops : sending[s] # Idle =>
        /\ m_state[sending[s].conn] # "none" /\ m_loop[sending[s].conn] # s
        /\ sending[s].msg.from = s /\ sending[s].msg.no = sent[s]

OrderInv == SenderOrder /\ OutputSettled /\ SendsInProgress /\ QueuedSends

\* Appending the youngest keeps a queue in order.
LEMMA InOrderAppend ==
    ASSUME NEW q \in Seq(Functor), NEW g \in Functor, InOrder(q),
           \A i \in DOMAIN q : Before(q[i], g)
    PROVE  InOrder(Append(q, g))
  <1> SUFFICES ASSUME NEW i \in 1..(Len(q) + 1), NEW j \in 1..(Len(q) + 1), i < j
               PROVE  Before(Append(q, g)[i], Append(q, g)[j])
    BY DEF InOrder
  <1>1. \A k \in 1..(Len(q) + 1) : Append(q, g)[k] = IF k <= Len(q) THEN q[k] ELSE g
    OBVIOUS
  <1>2. i \in 1..Len(q) /\ Append(q, g)[i] = q[i]
    BY <1>1
  <1>3. CASE j <= Len(q)
    <2>1. Append(q, g)[j] = q[j] /\ j \in 1..Len(q)
      BY <1>1, <1>3
    <2>2. QED BY <1>2, <2>1 DEF InOrder
  <1>4. CASE ~(j <= Len(q))
    <2>1. Append(q, g)[j] = g
      BY <1>1, <1>4
    <2>2. QED BY <1>2, <2>1
  <1>5. QED BY <1>3, <1>4

\* So does running the first functor, which is older than the rest.
LEMMA InOrderTail ==
    ASSUME NEW q \in Seq(Functor), q # <<>>, InOrder(q)
    PROVE  InOrder(Tail(q)) /\ \A i \in DOMAIN Tail(q) : Before(Head(q), Tail(q)[i])
  <1>1. /\ Tail(q) \in Seq(Functor) /\ Len(Tail(q)) = Len(q) - 1
        /\ \A i \in 1..(Len(q) - 1) : Tail(q)[i] = q[i + 1]
        /\ Head(q) = q[1] /\ Len(q) \in Nat /\ Len(q) > 0
    OBVIOUS
  <1>2. ASSUME NEW i \in 1..(Len(q) - 1), NEW j \in 1..(Len(q) - 1), i < j
        PROVE  Before(Tail(q)[i], Tail(q)[j])
    <2>1. i + 1 \in DOMAIN q /\ j + 1 \in DOMAIN q /\ i + 1 < j + 1
      BY <1>1, <1>2
    <2>2. Before(q[i + 1], q[j + 1])
      BY <2>1 DEF InOrder
    <2>3. QED BY <1>1, <2>2
  <1>3. ASSUME NEW i \in 1..(Len(q) - 1) PROVE Before(Head(q), Tail(q)[i])
    <2>1. 1 \in DOMAIN q /\ i + 1 \in DOMAIN q /\ 1 < i + 1
      BY <1>1
    <2>2. Before(q[1], q[i + 1])
      BY <2>1 DEF InOrder
    <2>3. QED BY <1>1, <2>2
  <1>4. DOMAIN Tail(q) = 1..(Len(q) - 1)
    BY <1>1
  <1>5. QED BY <1>2, <1>3, <1>4 DEF InOrder

\* What is in a queue after a step was there before or was appended, and the
\* order is kept if it fits behind what was there.
LEMMA InOrderStep ==
    ASSUME TypeInv, NEW R, NEW A, NEW g, ChainStep(R, A, g), NEW l \in Loops, InOrder(Chain(l)),
           l \in A => \A f \in Functor : Has(Chain(l), f) => Before(f, g)
    PROVE  /\ InOrder(Chain(l)')
           /\ \A f : Has(Chain(l)', f) =>
                \/ l \in A /\ f = g
                \/ Has(Chain(l), f) /\ (l \in R => Before(Head(Chain(l)), f))
  <1> DEFINE q == Chain(l)
             mid == IF l \in R THEN Tail(q) ELSE q
             r == Chain(l)'
  <1>1. q \in Seq(Functor) /\ (l \in R => q # <<>>) /\ (l \in A => g \in Functor)
    BY ChainType DEF ChainStep
  <1>2. r = IF l \in A THEN Append(mid, g) ELSE mid
    BY DEF ChainStep
  <1>3. l \in R => Len(Tail(q)) = Len(q) - 1 /\ \A i \in 1..(Len(q) - 1) : Tail(q)[i] = q[i + 1]
    BY <1>1
  <1>4. mid \in Seq(Functor) /\ InOrder(mid)
    BY <1>1, InOrderTail
  <1>5. \A k \in DOMAIN mid : \E i \in DOMAIN q :
            mid[k] = q[i] /\ (l \in R => Before(Head(q), q[i]))
    <2> SUFFICES ASSUME NEW k \in DOMAIN mid
                 PROVE  \E i \in DOMAIN q : mid[k] = q[i] /\ (l \in R => Before(Head(q), q[i]))
      OBVIOUS
    <2>1. CASE l \in R
      <3>1. k + 1 \in DOMAIN q /\ mid[k] = q[k + 1] /\ k \in DOMAIN Tail(q)
        BY <1>1, <1>3, <2>1
      <3>2. Before(Head(q), Tail(q)[k])
        BY <1>1, <2>1, <3>1, InOrderTail
      <3>3. QED BY <2>1, <3>1, <3>2
    <2>2. CASE l \notin R
      BY <2>2
    <2>3. QED BY <2>1, <2>2
  <1>6. l \in A => \A k \in DOMAIN mid : Before(mid[k], g)
    <2>1. \A i \in DOMAIN q : q[i] \in Functor /\ Has(q, q[i])
      BY <1>1 DEF Has
    <2>2. QED BY <1>5, <2>1
  <1> HIDE DEF mid, q, r
  <1>7. InOrder(r)
    BY <1>1, <1>2, <1>4, <1>6, InOrderAppend
  <1>8. ASSUME NEW k \in DOMAIN r
        PROVE  (l \in A /\ r[k] = g) \/ (k \in DOMAIN mid /\ r[k] = mid[k])
    BY <1>1, <1>2, <1>4
  <1>9. \A f : Has(r, f) =>
                \/ l \in A /\ f = g
                \/ Has(q, f) /\ (l \in R => Before(Head(q), f))
    BY <1>5, <1>8 DEF Has
  <1>10. QED BY <1>7, <1>9 DEF q, r

\* Types of a message and of the number of a send.
LEMMA SendTypes ==
    ASSUME TypeInv
    PROVE  /\ \A s \in Loops : sent[s] \in Nat /\ Settled(s) \in Int /\ Settled(s) <= sent[s]
           /\ \A c \in Conns : output[c] \in Seq(Msg)
           /\ \A c \in Conns : \A i \in DOMAIN output[c] :
                output[c][i].from \in Loops /\ output[c][i].no \in Nat
           /\ \A f \in Functor : f.fn = "sendInLoop" =>
                f.conn \in Conns /\ f.msg.from \in Loops /\ f.msg.no \in Nat
           /\ \A s \in Loops : sending[s] # Idle =>
                sending[s].conn \in Conns /\ sending[s].msg \in Msg
  <1>1. ASSUME NEW s \in Loops PROVE sent[s] \in Nat /\ Settled(s) \in Int /\ Settled(s) <= sent[s]
    <2>1. sent[s] \in Nat
      BY MaxSendsAssumption DEF TypeInv, TypeOK
    <2>2. QED BY <2>1 DEF Settled
  <1>2. \A m \in Msg : m.from \in Loops /\ m.no \in Nat
    BY MaxSendsAssumption DEF Msg
  <1>3. \A c \in Conns : output[c] \in Seq(Msg)
    BY DEF TypeInv, TypeOK
  <1>4. \A c \in Conns : \A i \in DOMAIN output[c] :
          output[c][i].from \in Loops /\ output[c][i].no \in Nat
    BY <1>2, <1>3
  <1>5. \A f \in Functor : f.fn = "sendInLoop" => f.conn \in Conns /\ f.msg \in Msg
    BY DEF Functor, FunctorName
  <1>6. \A s \in Loops : sending[s] # Idle => sending[s].conn \in Conns /\ sending[s].msg \in Msg
    BY DEF TypeInv, TypeOK
  <1>7. QED BY <1>1, <1>2, <1>3, <1>4, <1>5, <1>6

\* Steps that send nothing: no send is queued, and connections that exist stay
\* in their loop.
LEMMA OrderQuiet ==
    ASSUME TypeInv, OrderInv, NEW R, NEW A, NEW g, ChainStep(R, A, g),
           A # {} => g.fn # "sendInLoop",
           UNCHANGED <<output, sending, sent>>,
           \A c \in Conns : m_state[c] # "none" => m_state'[c] # "none" /\ m_loop'[c] = m_loop[c]
    PROVE  OrderInv'
  <1>1. SenderOrder' /\ OutputSettled'
    BY DEF OrderInv, SenderOrder, OutputSettled, Settled
  <1>2. SendsInProgress'
    BY SendTypes DEF OrderInv, SendsInProgress
  <1>3. ASSUME NEW l \in Loops
        PROVE  InOrder(Chain(l)') /\ \A f \in Functor : Has(Chain(l)', f) => SendReady(l, f)'
    <2>1. InOrder(Chain(l)) /\ \A f \in Functor : Has(Chain(l), f) => SendReady(l, f)
      BY DEF OrderInv, QueuedSends
    <2>2. l \in A => \A f \in Functor : Has(Chain(l), f) => Before(f, g)
      BY DEF Before
    <2>3. /\ InOrder(Chain(l)')
          /\ \A f : Has(Chain(l)', f) => (l \in A /\ f = g) \/ Has(Chain(l), f)
      BY <2>1, <2>2, InOrderStep
    <2>4. ASSUME NEW f \in Functor, SendReady(l, f) PROVE SendReady(l, f)'
      BY <2>4, SendTypes DEF SendReady, Settled
    <2>5. ASSUME l \in A PROVE SendReady(l, g)'
      BY <2>5 DEF SendReady
    <2>6. QED BY <2>1, <2>3, <2>4, <2>5
  <1>4. QueuedSends'
    BY <1>3 DEF QueuedSends
  <1>5. QED BY <1>1, <1>2, <1>4 DEF OrderInv

\* sendInLoop at most appends to the output of its connection.
LEMMA OutputAppends ==
    ASSUME TypeInv, NEW c \in Conns, NEW msg \in Msg, sendInLoop(c, msg)
    PROVE  \A d \in Conns : \/ output'[d] = output[d]
                            \/ d = c /\ output'[d] = Append(output[d], msg)
  BY DEF sendInLoop, outVars, TypeInv, TypeOK

\* The output stays in order when what is appended is younger than what is there
\* of the same thread.
LEMMA OutputGrows ==
    ASSUME TypeInv, SenderOrder, OutputSettled, NEW c \in Conns, NEW msg \in Msg,
           \A d \in Conns : \/ output'[d] = output[d]
                            \/ d = c /\ output'[d] = Append(output[d], msg),
           \A j \in DOMAIN output[c] : output[c][j].from = msg.from => output[c][j].no < msg.no,
           \A s \in Loops : Settled(s)' \in Int /\ Settled(s) <= Settled(s)',
           msg.no <= Settled(msg.from)'
    PROVE  /\ SenderOrder' /\ OutputSettled'
           /\ \A d \in Conns : \A j \in DOMAIN output'[d] :
                \/ j \in DOMAIN output[d] /\ output'[d][j] = output[d][j]
                \/ d = c /\ output'[d][j] = msg
  <1>1. msg.from \in Loops /\ msg.no \in Nat
    BY MaxSendsAssumption DEF Msg
  <1>2. ASSUME NEW d \in Conns, NEW j \in DOMAIN output'[d]
        PROVE  \/ j \in DOMAIN output[d] /\ output'[d][j] = output[d][j]
               \/ /\ d = c /\ output'[d][j] = msg
                  /\ \A i \in DOMAIN output'[d] : i <= j
    <2>1. output[d] \in Seq(Msg)
      BY SendTypes
    <2>2. CASE output'[d] = output[d]
      BY <2>2
    <2>3. CASE d = c /\ output'[d] = Append(output[d], msg)
      BY <1>2, <2>1, <2>3
    <2>4. QED BY <2>2, <2>3
  <1>3. ASSUME NEW d \in Conns, NEW i \in DOMAIN output'[d], NEW j \in DOMAIN output'[d],
               i < j, output'[d][i].from = output'[d][j].from
        PROVE  output'[d][i].no < output'[d][j].no
    <2>1. i \in Nat /\ j \in Nat
      <3>1. output[d] \in Seq(Msg)
        BY SendTypes
      <3>2. output'[d] = output[d] \/ output'[d] = Append(output[d], msg)
        OBVIOUS
      <3>3. QED BY <3>1, <3>2
    <2>2. i \in DOMAIN output[d] /\ output'[d][i] = output[d][i]
      BY <1>2, <1>3, <2>1
    <2>3. CASE j \in DOMAIN output[d] /\ output'[d][j] = output[d][j]
      BY <1>3, <2>2, <2>3 DEF SenderOrder
    <2>4. CASE d = c /\ output'[d][j] = msg
      BY <1>3, <2>2, <2>4
    <2>5. QED BY <1>2, <2>3, <2>4
  <1>4. SenderOrder'
    BY <1>3 DEF SenderOrder
  <1>5. ASSUME NEW d \in Conns, NEW j \in DOMAIN output'[d]
        PROVE  output'[d][j].no <= Settled(output[d][j].from)'
    <2>1. CASE j \in DOMAIN output[d] /\ output'[d][j] = output[d][j]
      <3>1. /\ output[d][j].from \in Loops /\ output[d][j].no \in Nat
            /\ output[d][j].no <= Settled(output[d][j].from)
        BY <2>1, SendTypes DEF OutputSettled
      <3>2. ASSUME NEW m, m.from \in Loops, m.no \in Nat, m.no <= Settled(m.from)
            PROVE  m.no <= Settled(m.from)'
        BY <3>2, SendTypes
      <3>3. QED BY <2>1, <3>1, <3>2
    <2>2. CASE output'[d][j] = msg
      BY <2>2
    <2>3. QED BY <1>2, <2>1, <2>2
  <1>6. OutputSettled'
    BY <1>5 DEF OutputSettled
  <1>7. QED BY <1>2, <1>4, <1>6

\* A send to a connection of the calling thread: nothing of this thread is
\* queued for it.
LEMMA OrderHere ==
    ASSUME TypeInv, OrderInv, NEW l \in Loops, NEW c \in Conns, NEW body \in Payload,
           sendHere(l, c, body)
    PROVE  OrderInv'
  <1>0. PICK msg : msg = NewMsg(l, body)
    OBVIOUS
  <1>1. /\ sending[l] = Idle /\ sent[l] < MaxSends /\ m_loop[c] = l
        /\ sendInLoop(c, msg) /\ sent' = [sent EXCEPT ![l] = @ + 1]
        /\ UNCHANGED <<m_state, m_loop, m_pendingFunctors, functors, sending>>
    BY <1>0 DEF sendHere, InCallback, loopVars
  <1>2. msg \in Msg /\ msg.from = l /\ msg.no = sent[l] + 1
    BY <1>0, <1>1, MaxSendsAssumption DEF NewMsg, Msg, TypeInv, TypeOK
  <1>3. \A s \in Loops : sent'[s] = IF s = l THEN sent[s] + 1 ELSE sent[s]
    BY <1>1 DEF TypeInv, TypeOK
  <1>4. \A s \in Loops : Settled(s)' = IF s = l THEN sent[s] + 1 ELSE Settled(s)
    BY <1>1, <1>3 DEF Settled
  <1>5. Settled(l) = sent[l]
    BY <1>1 DEF Settled
  <1>6. \A s \in Loops : Settled(s)' \in Int /\ Settled(s) <= Settled(s)'
    BY <1>4, <1>5, SendTypes
  <1>7. \A j \in DOMAIN output[c] : output[c][j].from = msg.from => output[c][j].no < msg.no
    BY <1>2, <1>5, SendTypes DEF OrderInv, OutputSettled
  <1>8. \A d \in Conns : \/ output'[d] = output[d]
                         \/ d = c /\ output'[d] = Append(output[d], msg)
    BY <1>1, <1>2, OutputAppends
  <1>9. msg.no <= Settled(msg.from)'
    BY <1>2, <1>4, SendTypes
  <1>10. /\ SenderOrder' /\ OutputSettled'
         /\ \A d \in Conns : \A j \in DOMAIN output'[d] :
                \/ j \in DOMAIN output[d] /\ output'[d][j] = output[d][j]
                \/ d = c /\ output'[d][j] = msg
    BY <1>2, <1>6, <1>7, <1>8, <1>9, OutputGrows DEF OrderInv
  <1>11. SendsInProgress'
    BY <1>1, <1>3 DEF OrderInv, SendsInProgress
  <1>12. QueuedSends'
    <2>1. \A k \in Loops : Chain(k)' = Chain(k)
      BY <1>1, ChainKept
    <2>2. ASSUME NEW k \in Loops, NEW f \in Functor, SendReady(k, f) PROVE SendReady(k, f)'
      <3> SUFFICES ASSUME f.fn = "sendInLoop" PROVE SendReady(k, f)'
        BY DEF SendReady
      <3>1. f.conn \in Conns /\ f.msg.from \in Loops /\ f.msg.no \in Nat
        BY SendTypes
      <3>2. /\ m_state[f.conn] # "none" /\ m_loop[f.conn] = k /\ f.msg.from # k
            /\ f.msg.no <= Settled(f.msg.from)
            /\ \A j \in DOMAIN output[f.conn] :
                 output[f.conn][j].from = f.msg.from => output[f.conn][j].no < f.msg.no
        BY <2>2 DEF SendReady
      <3>3. f.msg.no <= Settled(f.msg.from)'
        BY <1>6, <3>1, <3>2, SendTypes
      <3>4. f.conn = c => f.msg.from # msg.from
        BY <1>1, <1>2, <3>2
      <3>5. \A j \in DOMAIN output'[f.conn] :
                 output'[f.conn][j].from = f.msg.from => output'[f.conn][j].no < f.msg.no
        BY <1>10, <3>1, <3>2, <3>4
      <3>6. QED BY <1>1, <3>2, <3>3, <3>5 DEF SendReady
    <2>3. QED BY <2>1, <2>2 DEF OrderInv, QueuedSends
  <1>13. QED BY <1>10, <1>11, <1>12 DEF OrderInv

\* A send to a connection of another thread, up to the check of its state.
LEMMA OrderChecked ==
    ASSUME TypeInv, OrderInv, NEW l \in Loops, NEW c \in Conns, NEW body \in Payload,
           sendChecked(l, c, body)
    PROVE  OrderInv'
  <1>1. /\ sending[l] = Idle /\ m_loop[c] # l /\ m_state[c] = "kConnected"
        /\ sending' = [sending EXCEPT ![l] = [conn |-> c, msg |-> NewMsg(l, body)]]
        /\ sent' = [sent EXCEPT ![l] = @ + 1]
        /\ UNCHANGED <<m_state, m_loop, m_pendingFunctors, functors, output>>
    BY DEF sendChecked, InCallback, loopVars, outVars
  <1>2. /\ \A s \in Loops : sent'[s] = IF s = l THEN sent[s] + 1 ELSE sent[s]
        /\ \A s \in Loops : s # l => sending'[s] = sending[s]
        /\ sending'[l].conn = c /\ sending'[l].msg = NewMsg(l, body)
    BY <1>1 DEF TypeInv, TypeOK
  <1>3. NewMsg(l, body).from = l /\ NewMsg(l, body).no = sent[l] + 1
    BY DEF NewMsg
  <1>4. sending'[l] # Idle
    BY <1>2, ConnAssumption DEF Idle
  <1>5. \A s \in Loops : Settled(s)' = Settled(s)
    BY <1>1, <1>2, <1>4, SendTypes DEF Settled
  <1>6. SenderOrder' /\ OutputSettled'
    BY <1>1, <1>5, SendTypes DEF OrderInv, SenderOrder, OutputSettled
  <1>7. SendsInProgress'
    BY <1>1, <1>2, <1>3 DEF OrderInv, SendsInProgress
  <1>8. QueuedSends'
    <2>1. \A k \in Loops : Chain(k)' = Chain(k)
      BY <1>1, ChainKept
    <2>2. ASSUME NEW k \in Loops, NEW f \in Functor, SendReady(k, f) PROVE SendReady(k, f)'
      BY <1>1, <1>5, <2>2, SendTypes DEF SendReady
    <2>3. QED BY <2>1, <2>2 DEF OrderInv, QueuedSends
  <1>9. QED BY <1>6, <1>7, <1>8 DEF OrderInv

\* The functor of a send to another thread is queued: it is the youngest of its
\* thread.
LEMMA OrderQueued ==
    ASSUME TypeInv, OrderInv, NEW l \in Loops, sendQueued(l)
    PROVE  OrderInv'
  <1>0. PICK c, msg : c = sending[l].conn /\ msg = sending[l].msg
    OBVIOUS
  <1> DEFINE g == RawSend(c, msg)
  <1>1. /\ sending[l] # Idle /\ queueInLoop(m_loop[c], g)
        /\ sending' = [sending EXCEPT ![l] = Idle]
        /\ UNCHANGED <<m_state, m_loop, functors, output, sent>>
    BY <1>0 DEF sendQueued, loopVars, outVars
  <1>2. /\ c \in Conns /\ msg \in Msg /\ m_loop[c] \in Loops /\ m_loop[c] # l
        /\ m_state[c] # "none" /\ msg.from = l /\ msg.no = sent[l]
    BY <1>0, <1>1, SendTypes DEF OrderInv, SendsInProgress, TypeInv, TypeOK
  <1>3. g \in Functor /\ g.fn = "sendInLoop" /\ g.conn = c /\ g.msg = msg
    BY <1>2, RawSendType DEF RawSend
  <1>4. /\ \A s \in Loops : s # l => sending'[s] = sending[s]
        /\ sending'[l] = Idle
    BY <1>1 DEF TypeInv, TypeOK
  <1>5. \A s \in Loops : Settled(s)' = IF s = l THEN sent[l] ELSE Settled(s)
    BY <1>1, <1>4 DEF Settled
  <1>6. Settled(l) = sent[l] - 1
    BY <1>1 DEF Settled
  <1>7. ChainStep({}, {m_loop[c]}, g)
    BY <1>1, <1>2, <1>3, ChainAdds DEF ChainStep
  <1>8. \A s \in Loops : Settled(s)' \in Int /\ Settled(s) <= Settled(s)'
    BY <1>5, SendTypes
  <1>9. SenderOrder'
    BY <1>1 DEF OrderInv, SenderOrder
  <1>10. OutputSettled'
    <2>1. ASSUME NEW d \in Conns, NEW j \in DOMAIN output[d]
          PROVE  output[d][j].no <= Settled(output[d][j].from)'
      <3>1. /\ output[d][j].from \in Loops /\ output[d][j].no \in Nat
            /\ output[d][j].no <= Settled(output[d][j].from)
        BY SendTypes DEF OrderInv, OutputSettled
      <3>2. ASSUME NEW m, m.from \in Loops, m.no \in Nat, m.no <= Settled(m.from)
            PROVE  m.no <= Settled(m.from)'
        BY <1>8, <3>2, SendTypes
      <3>3. output'[d][j] = output[d][j]
        BY <1>1
      <3>4. QED BY <3>1, <3>2, <3>3
    <2>2. QED BY <1>1, <2>1 DEF OutputSettled
  <1>11. SendsInProgress'
    BY <1>1, <1>4 DEF OrderInv, SendsInProgress
  <1>12. ASSUME NEW k \in Loops
         PROVE  InOrder(Chain(k)') /\ \A f \in Functor : Has(Chain(k)', f) => SendReady(k, f)'
    <2>1. InOrder(Chain(k)) /\ \A f \in Functor : Has(Chain(k), f) => SendReady(k, f)
      BY DEF OrderInv, QueuedSends
    <2>2. ASSUME NEW f \in Functor, SendReady(k, f) PROVE Before(f, g)
      BY <1>2, <1>3, <1>6, <2>2, SendTypes DEF Before, SendReady
    <2>3. /\ InOrder(Chain(k)')
          /\ \A f : Has(Chain(k)', f) => (k = m_loop[c] /\ f = g) \/ Has(Chain(k), f)
      BY <1>7, <2>1, <2>2, InOrderStep
    <2>4. ASSUME NEW f \in Functor, SendReady(k, f) PROVE SendReady(k, f)'
      <3> SUFFICES ASSUME f.fn = "sendInLoop" PROVE SendReady(k, f)'
        BY DEF SendReady
      <3>1. f.conn \in Conns /\ f.msg.from \in Loops /\ f.msg.no \in Nat
        BY SendTypes
      <3>2. f.msg.no <= Settled(f.msg.from)'
        BY <1>8, <2>4, <3>1, SendTypes DEF SendReady
      <3>3. QED BY <1>1, <2>4, <3>2 DEF SendReady
    <2>5. ASSUME k = m_loop[c] PROVE SendReady(k, g)'
      <3>1. g.msg.no <= Settled(g.msg.from)'
        BY <1>2, <1>3, <1>5, SendTypes
      <3>2. \A j \in DOMAIN output[c] : output[c][j].from = msg.from => output[c][j].no < msg.no
        BY <1>2, <1>6, SendTypes DEF OrderInv, OutputSettled
      <3>3. QED BY <1>1, <1>2, <1>3, <2>5, <3>1, <3>2 DEF SendReady
    <2>6. QED BY <2>1, <2>3, <2>4, <2>5
  <1>13. QueuedSends'
    BY <1>12 DEF QueuedSends
  <1>14. QED BY <1>9, <1>10, <1>11, <1>13 DEF OrderInv

\* A queued send runs: what is still queued of its thread is younger.
LEMMA OrderRuns ==
    ASSUME TypeInv, OrderInv, NEW l \in Loops, runSendInLoop(l)
    PROVE  OrderInv'
  <1>0. PICK h : h = Head(functors[l])
    OBVIOUS
  <1> DEFINE c == h.conn
             msg == h.msg
  <1>1. /\ Runs(l, "sendInLoop") /\ sendInLoop(c, msg)
        /\ UNCHANGED <<m_state, m_pendingFunctors>>
    BY <1>0 DEF runSendInLoop
  <1>2. h.fn = "sendInLoop" /\ UNCHANGED <<m_loop, sending, sent>>
    BY <1>0, <1>1 DEF Runs
  <1>3. c \in Conns /\ msg \in Msg
    BY <1>0, <1>1, RunsType
  <1>4. Head(Chain(l)) = h /\ ChainStep({l}, {}, NoMsg)
    BY <1>0, <1>1, ChainRuns DEF ChainStep
  <1>5. h \in Functor /\ Has(Chain(l), h)
    <2>1. Chain(l) \in Seq(Functor) /\ Chain(l) # <<>>
      BY <1>1, ChainType, ChainRuns
    <2>2. QED BY <1>4, <2>1, HasTail, HeadType
  <1>6. SendReady(l, h)
    BY <1>5 DEF OrderInv, QueuedSends
  <1>7. \A s \in Loops : Settled(s)' = Settled(s)
    BY <1>2 DEF Settled
  <1>8. \A d \in Conns : \/ output'[d] = output[d]
                         \/ d = c /\ output'[d] = Append(output[d], msg)
    BY <1>1, <1>3, OutputAppends
  <1>9. /\ m_loop[c] = l /\ msg.no <= Settled(msg.from) /\ msg.from \in Loops
        /\ \A j \in DOMAIN output[c] : output[c][j].from = msg.from => output[c][j].no < msg.no
    BY <1>2, <1>5, <1>6, SendTypes DEF SendReady
  <1>10. msg.no <= Settled(msg.from)'
    BY <1>7, <1>9
  <1>11. \A s \in Loops : Settled(s)' \in Int /\ Settled(s) <= Settled(s)'
    BY <1>7, SendTypes
  <1>12. /\ SenderOrder' /\ OutputSettled'
         /\ \A d \in Conns : \A j \in DOMAIN output'[d] :
                \/ j \in DOMAIN output[d] /\ output'[d][j] = output[d][j]
                \/ d = c /\ output'[d][j] = msg
    BY SMTT(40), <1>3, <1>8, <1>9, <1>10, <1>11, OutputGrows DEF OrderInv
  <1>13. SendsInProgress'
    BY <1>1, <1>2 DEF OrderInv, SendsInProgress
  <1>14. ASSUME NEW k \in Loops
         PROVE  InOrder(Chain(k)') /\ \A f \in Functor : Has(Chain(k)', f) => SendReady(k, f)'
    <2>1. InOrder(Chain(k)) /\ \A f \in Functor : Has(Chain(k), f) => SendReady(k, f)
      BY DEF OrderInv, QueuedSends
    <2>2. /\ InOrder(Chain(k)')
          /\ \A f : Has(Chain(k)', f) => Has(Chain(k), f) /\ (k = l => Before(h, f))
      BY <1>4, <2>1, InOrderStep
    <2>3. ASSUME NEW f \in Functor, SendReady(k, f), k = l => Before(h, f)
          PROVE  SendReady(k, f)'
      <3> SUFFICES ASSUME f.fn = "sendInLoop" PROVE SendReady(k, f)'
        BY DEF SendReady
      <3>1. f.conn \in Conns /\ f.msg.from \in Loops /\ f.msg.no \in Nat
        BY SendTypes
      <3>2. /\ m_state[f.conn] # "none" /\ m_loop[f.conn] = k /\ f.msg.from # k
            /\ f.msg.no <= Settled(f.msg.from)
            /\ \A j \in DOMAIN output[f.conn] :
                 output[f.conn][j].from = f.msg.from => output[f.conn][j].no < f.msg.no
        BY <2>3 DEF SendReady
      <3>3. f.msg.no <= Settled(f.msg.from)'
        BY <1>7, <3>1, <3>2
      <3>4. f.conn = c /\ f.msg.from = msg.from => msg.no < f.msg.no
        BY <1>2, <1>9, <2>3, <3>2 DEF Before
      <3>5. \A j \in DOMAIN output'[f.conn] :
                 output'[f.conn][j].from = f.msg.from => output'[f.conn][j].no < f.msg.no
        BY <1>12, <3>1, <3>2, <3>4
      <3>6. QED BY <1>1, <1>2, <3>2, <3>3, <3>5 DEF SendReady
    <2>4. QED BY <2>1, <2>2, <2>3
  <1>15. QueuedSends'
    BY <1>14 DEF QueuedSends
  <1>16. QED BY <1>12, <1>13, <1>15 DEF OrderInv

\* A connection that exists keeps existing in its loop.
LEMMA NeverNoneAgain ==
    ASSUME TypeInv, NEW x \in Conns, UNCHANGED m_loop,
           \/ UNCHANGED m_state
           \/ \E s \in StateE \ {"none"} : m_state' = [m_state EXCEPT ![x] = s]
    PROVE  \A c \in Conns : m_state[c] # "none" => m_state'[c] # "none" /\ m_loop'[c] = m_loop[c]
  BY DEF TypeInv, TypeOK

\* handleClose sends nothing, whether a functor runs it or a channel's callback.
LEMMA OrderClose ==
    ASSUME TypeInv, OrderInv, NEW x \in Conns, handleClose(x),
           UNCHANGED <<m_loop, output, sending, sent>>,
           UNCHANGED functors \/ \E l \in Loops, name \in FunctorName : Runs(l, name)
    PROVE  OrderInv'
  <1>1. MainLoop \in Loops /\ Removal(x) \in Functor /\ Removal(x).fn # "sendInLoop"
    BY SharedType DEF Loops, Removal, FunctorName, Shared
  <1>2. UNCHANGED m_pendingFunctors \/ queueInLoop(MainLoop, Removal(x))
    BY DEF handleClose, Removal
  <1>3. \A c \in Conns : m_state[c] # "none" => m_state'[c] # "none" /\ m_loop'[c] = m_loop[c]
    BY NeverNoneAgain DEF handleClose, StateE
  <1>4. \E R, A : ChainStep(R, A, Removal(x))
    <2>1. ASSUME UNCHANGED functors, UNCHANGED m_pendingFunctors
          PROVE  ChainStep({}, {}, Removal(x))
      BY <2>1, ChainKept DEF ChainStep
    <2>2. ASSUME UNCHANGED functors, queueInLoop(MainLoop, Removal(x))
          PROVE  ChainStep({}, {MainLoop}, Removal(x))
      BY <1>1, <2>2, ChainAdds DEF ChainStep
    <2>3. ASSUME NEW l \in Loops, NEW name \in FunctorName, Runs(l, name),
                 UNCHANGED m_pendingFunctors
          PROVE  ChainStep({l}, {}, Removal(x))
      BY <2>3, ChainRuns DEF ChainStep
    <2>4. ASSUME NEW l \in Loops, NEW name \in FunctorName, Runs(l, name),
                 queueInLoop(MainLoop, Removal(x))
          PROVE  ChainStep({l}, {MainLoop}, Removal(x))
      BY <1>1, <2>4, ChainRuns DEF ChainStep
    <2>5. QED BY <1>2, <2>1, <2>2, <2>3, <2>4
  <1>5. QED BY <1>1, <1>3, <1>4, OrderQuiet

\* The functors other than sends.
LEMMA OrderFunctor ==
    ASSUME TypeInv, OrderInv, NEW l \in Loops,
           \/ connectEstablished(l)
           \/ connectEstablishedFails(l)
           \/ forceCloseInLoop(l)
           \/ removeConnectionInLoop(l)
           \/ connectDestroyed(l)
    PROVE  OrderInv'
  <1> DEFINE x == Head(functors[l]).conn
  <1>1. PICK name \in FunctorName : Runs(l, name)
    BY DEF connectEstablished, connectEstablishedFails, forceCloseInLoop,
           removeConnectionInLoop, connectDestroyed, FunctorName
  <1>2. UNCHANGED <<m_loop, output, sending, sent>>
    BY <1>1 DEF Runs, connectEstablished, connectEstablishedFails, forceCloseInLoop,
           removeConnectionInLoop, connectDestroyed, outVars
  <1>3. x \in Conns /\ m_loop[x] \in Loops /\ MainLoop \in Loops
    <2>1. x \in Conns
      BY <1>1, RunsType
    <2>2. QED BY <2>1 DEF TypeInv, TypeOK, Loops
  <1>4. ASSUME UNCHANGED m_pendingFunctors,
               \/ UNCHANGED m_state
               \/ \E s \in StateE \ {"none"} : m_state' = [m_state EXCEPT ![x] = s]
        PROVE  OrderInv'
    <2>1. ChainStep({l}, {}, NoMsg)
      BY <1>1, <1>4, ChainRuns DEF ChainStep
    <2>2. \A c \in Conns : m_state[c] # "none" => m_state'[c] # "none" /\ m_loop'[c] = m_loop[c]
      BY <1>2, <1>3, <1>4, NeverNoneAgain
    <2>3. QED BY <1>2, <2>1, <2>2, OrderQuiet
  <1>5. ASSUME NEW m \in Loops, NEW n \in FunctorName, queueInLoop(m, Shared(n, x)),
               \/ UNCHANGED m_state
               \/ \E s \in StateE \ {"none"} : m_state' = [m_state EXCEPT ![x] = s]
        PROVE  OrderInv'
    <2>1. PICK g \in Functor : g = Shared(n, x)
      BY <1>3, SharedType
    <2>2. g.fn # "sendInLoop" /\ queueInLoop(m, g)
      BY <1>5, <2>1 DEF Shared, FunctorName
    <2>3. ChainStep({l}, {m}, g)
      BY <1>1, <2>2, ChainRuns DEF ChainStep
    <2>4. \A c \in Conns : m_state[c] # "none" => m_state'[c] # "none" /\ m_loop'[c] = m_loop[c]
      BY <1>2, <1>3, <1>5, NeverNoneAgain
    <2>5. QED BY <1>2, <2>2, <2>3, <2>4, OrderQuiet
  <1>6. CASE connectEstablished(l)
    BY <1>4, <1>6 DEF connectEstablished, StateE
  <1>7. CASE connectEstablishedFails(l)
    BY <1>3, <1>5, <1>7 DEF connectEstablishedFails, StateE, FunctorName
  <1>8. CASE forceCloseInLoop(l)
    <2>1. handleClose(x) \/ UNCHANGED <<m_state, m_pendingFunctors>>
      BY <1>8 DEF forceCloseInLoop
    <2>2. QED BY <1>1, <1>2, <1>3, <1>4, <2>1, OrderClose
  <1>9. CASE removeConnectionInLoop(l)
    BY <1>3, <1>4, <1>5, <1>9 DEF removeConnectionInLoop, FunctorName
  <1>10. CASE connectDestroyed(l)
    <2>1. /\ UNCHANGED m_pendingFunctors
          /\ m_state' = [m_state EXCEPT ![x] = IF m_state[x] = "kConnected"
                                               THEN "kDisconnected" ELSE @]
      BY <1>10 DEF connectDestroyed
    <2>2. \/ UNCHANGED m_state
          \/ \E s \in StateE \ {"none"} : m_state' = [m_state EXCEPT ![x] = s]
      <3>1. CASE m_state[x] = "kConnected"
        BY <2>1, <3>1 DEF StateE
      <3>2. CASE m_state[x] # "kConnected"
        BY <1>3, <2>1, <3>2 DEF TypeInv, TypeOK
      <3>3. QED BY <3>1, <3>2
    <2>3. QED BY <1>4, <2>1, <2>2
  <1>11. QED BY <1>6, <1>7, <1>8, <1>9, <1>10

\* Every step keeps the sends in order.
LEMMA OrderStep == TypeInv /\ OrderInv /\ [Next]_vars => OrderInv'
  <1> SUFFICES ASSUME TypeInv, OrderInv, [Next]_vars PROVE OrderInv'
    OBVIOUS
  <1> USE DEF loopVars, outVars
  <1>1. ASSUME UNCHANGED <<m_state, m_loop, functors, m_pendingFunctors, output, sending, sent>>
        PROVE  OrderInv'
    <2>1. ChainStep({}, {}, NoMsg)
      BY <1>1, ChainKept DEF ChainStep
    <2>2. QED BY <1>1, <2>1, OrderQuiet
  <1>2. CASE UNCHANGED vars
    BY <1>1, <1>2 DEF vars
  <1>3. ASSUME NEW l \in Loops, LoopStep(l) PROVE OrderInv'
    <2>1. ASSUME NEW cb, cb \in current[l].todo, handleClose(current[l].conn),
                 UNCHANGED <<m_loop, functors, output, sending, sent>>
          PROVE  OrderInv'
      BY <2>1, CallbackConn, OrderClose
    <2>2. CASE doOtherTasks(l)
      <3>1. ChainStep({}, {}, NoMsg)
        BY <2>2, ChainSwaps DEF ChainStep
      <3>2. UNCHANGED <<m_state, m_loop, output, sending, sent>>
        BY <2>2 DEF doOtherTasks
      <3>3. QED BY <3>1, <3>2, OrderQuiet
    <2>3. CASE onCloseEvent(l) \/ handleReadEnd(l) \/ handleWriteFails(l)
      BY <2>1, <2>3 DEF onCloseEvent, handleReadEnd, handleWriteFails, Calls
    <2>4. CASE poll(l) \/ (\E c \in Conns : handleEvent(l, c)) \/ handleReadData(l) \/ handleWrite(l)
      BY <1>1, <2>4 DEF poll, handleEvent, handleReadData, handleWrite
    <2>5. QED BY <1>3, <2>2, <2>3, <2>4, OrderFunctor, OrderRuns DEF LoopStep, RunFunctor
  <1>4. ASSUME NEW l \in Loops, CallbackStep(l) PROVE OrderInv'
    <2>1. CASE forceClose(l)
      <3> DEFINE x == current[l].conn
      <3>1. x \in Conns /\ m_loop[x] \in Loops
        BY <2>1, CallbackConn DEF forceClose, InCallback, TypeInv, TypeOK
      <3>2. UNCHANGED <<m_loop, functors, output, sending, sent>>
        BY <2>1 DEF forceClose
      <3>3. CASE m_state[x] \in {"kConnected", "kDisconnecting"}
        <4>1. PICK g \in Functor : g = Shared("forceCloseInLoop", x)
          BY <3>1, SharedType DEF FunctorName
        <4>2. g.fn # "sendInLoop" /\ queueInLoop(m_loop[x], g)
          BY <2>1, <3>3, <4>1 DEF forceClose, Shared
        <4>3. ChainStep({}, {m_loop[x]}, g)
          BY <3>1, <3>2, <4>2, ChainAdds DEF ChainStep
        <4>4. \A c \in Conns : m_state[c] # "none" => m_state'[c] # "none" /\ m_loop'[c] = m_loop[c]
          BY <2>1, <3>1, <3>2, <3>3, NeverNoneAgain DEF forceClose, StateE
        <4>5. QED BY <3>2, <4>2, <4>3, <4>4, OrderQuiet
      <3>4. CASE m_state[x] \notin {"kConnected", "kDisconnecting"}
        BY <1>1, <2>1, <3>2, <3>4 DEF forceClose
      <3>5. QED BY <3>3, <3>4
    <2>2. CASE messageReturn(l)
      BY <1>1, <2>2 DEF messageReturn
    <2>3. QED BY <1>4, <2>1, <2>2, OrderHere, OrderChecked, OrderQueued DEF CallbackStep
  <1>5. ASSUME NEW x \in Conns, NEW l \in IoLoops, newConnection(x, l) PROVE OrderInv'
    <2>1. l \in Loops
      BY DEF Loops
    <2>2. PICK g \in Functor : g = Shared("connectEstablished", x)
      BY SharedType DEF FunctorName
    <2>3. g.fn # "sendInLoop" /\ queueInLoop(l, g) /\ UNCHANGED <<functors, output, sending, sent>>
      BY <1>5, <2>2 DEF newConnection, Shared
    <2>4. ChainStep({}, {l}, g)
      BY <2>1, <2>3, ChainAdds DEF ChainStep
    <2>5. \A c \in Conns : m_state[c] # "none" => m_state'[c] # "none" /\ m_loop'[c] = m_loop[c]
      BY <1>5 DEF newConnection, TypeInv, TypeOK
    <2>6. QED BY <2>3, <2>4, <2>5, OrderQuiet
  <1>6. QED BY <1>2, <1>3, <1>4, <1>5 DEF Next

\* The messages of one thread reach a connection's output in the order of its
\* calls of TcpConnection::send.
THEOREM SendsStayInOrder == Spec => []SenderOrder
  <1>1. Init => OrderInv
    <2> SUFFICES ASSUME Init PROVE OrderInv
      OBVIOUS
    <2>1. \A c \in Conns : output[c] = <<>>
      BY DEF Init
    <2>2. \A l \in Loops : sending[l] = Idle
      BY DEF Init
    <2>3. ASSUME NEW l \in Loops PROVE Chain(l) = <<>>
      <3>1. functors[l] = <<>> /\ m_pendingFunctors[l] = <<>>
        BY DEF Init
      <3>2. QED BY <3>1 DEF Chain
    <2>4. SenderOrder /\ OutputSettled /\ SendsInProgress
      BY <2>1, <2>2 DEF SenderOrder, OutputSettled, SendsInProgress
    <2>5. QueuedSends
      BY <2>3 DEF QueuedSends, InOrder, Has
    <2>6. QED BY <2>4, <2>5 DEF OrderInv
  <1>2. OrderInv => SenderOrder
    BY DEF OrderInv
  <1>3. QED BY <1>1, <1>2, TypeInit, TypeStep, OrderStep, PTL DEF Spec
=============================================================================
