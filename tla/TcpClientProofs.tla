---------------------------- MODULE TcpClientProofs ----------------------------
(***************************************************************************)
(* Proofs about TcpClient: every open socket is the attempt's, the         *)
(* connection's or about to be closed, unless its attempt began before     *)
(* resetChannel had run, for any number of sockets and calls.              *)
(***************************************************************************)
EXTENDS TcpClient, Integers, SequenceTheorems, FiniteSetTheorems, TLAPS

-----------------------------------------------------------------------------
(* The inductive invariant.                                                *)

Functors == [name: {"startInLoop", "stopInLoop", "resetChannel", "connectDestroyed"}, fd: Nat]

\* The functors on their way, in the order in which they will run.
Chain == batch \o functors

Destroys(k) == k.name = "connectDestroyed"

\* The sockets a sequence of functors will close ...
DyingIn(q) == {q[i].fd : i \in {j \in DOMAIN q : Destroys(q[j])}}

\* ... each of them once.
OnceIn(q) ==
  \A i, j \in DOMAIN q : Destroys(q[i]) /\ Destroys(q[j]) /\ i # j => q[i].fd # q[j].fd

Types ==
  /\ made \in Nat
  /\ batch \in Seq(Functors) /\ functors \in Seq(Functors)
  /\ pc # "tasks" => batch = <<>>

\* The Connector has one socket while it is connecting, none otherwise; its
\* channel is that socket's, or has been reset by a functor that came late.
Attempt ==
  IF m_state = "kConnecting"
  THEN /\ m_connection = None
       /\ \E a \in 1..made : polled \subseteq {a} /\ m_channel \in {None, a}
       /\ m_channel = None => late # {}
  ELSE polled = {}

\* A functor that will reset the channel ...
ResetIn(q) == \E i \in DOMAIN q : q[i].name = "resetChannel"

\* ... finds that of an attempt only if the attempt began too early.
LateKnown ==
  m_state = "kConnecting" /\ m_channel # None /\ ResetIn(Chain) => m_channel \in late

\* The client has a connection only while its Connector is connected, and gives
\* it up before it restarts the Connector.
Connection ==
  /\ m_connection # None => m_state = "kConnected" /\ m_connection \in 1..made
  /\ pc = "restart" => m_connection = None /\ m_state = "kConnected"
  /\ pc = "start" => m_connection = None /\ m_state = "kDisconnected"

\* A socket to be closed is closed once, and is nobody's any more.
Destroyed ==
  /\ OnceIn(Chain)
  /\ DyingIn(Chain) \subseteq 1..made
  /\ DyingIn(Chain) \cap Held = {}

Accounts ==
  /\ Held \cup DyingIn(Chain) \subseteq open
  /\ open \subseteq Held \cup DyingIn(Chain) \cup late

Parts == Types /\ Attempt /\ Connection /\ Destroyed /\ Accounts /\ LateKnown

ClientInv == IF crashed THEN late # {} ELSE Parts

-----------------------------------------------------------------------------
(* Sequences of functors.                                                  *)

\* A functor queued behind the others adds its socket to those to be closed.
LEMMA DyingAppend ==
  ASSUME NEW q \in Seq(Functors), NEW k \in Functors
  PROVE  /\ Append(q, k) \in Seq(Functors)
         /\ ~Destroys(k) => DyingIn(Append(q, k)) = DyingIn(q)
         /\ Destroys(k) => DyingIn(Append(q, k)) = DyingIn(q) \cup {k.fd}
         /\ OnceIn(q) /\ (Destroys(k) => k.fd \notin DyingIn(q)) => OnceIn(Append(q, k))
  <1>1. PICK n, p : n = Len(q) /\ p = Append(q, k)
    OBVIOUS
  <1>2. /\ n \in Nat /\ DOMAIN q = 1..n /\ DOMAIN p = 1..(n + 1) /\ p \in Seq(Functors)
        /\ p[n + 1] = k /\ \A i \in 1..n : p[i] = q[i]
    BY <1>1
  <1>3. \A x : x \in DyingIn(q) <=> \E i \in 1..n : Destroys(q[i]) /\ q[i].fd = x
    BY <1>2 DEF DyingIn
  <1>4. \A x : x \in DyingIn(p) <=> \E i \in 1..(n + 1) : Destroys(p[i]) /\ p[i].fd = x
    BY <1>2 DEF DyingIn
  <1>5. \A i \in 1..(n + 1) : i \in 1..n \/ i = n + 1
    BY <1>2
  <1>6. \A i \in 1..n : i \in 1..(n + 1) /\ i # n + 1
    BY <1>2
  <1>7. n + 1 \in 1..(n + 1)
    BY <1>2
  <1>8. \A x : x \in DyingIn(p) <=> x \in DyingIn(q) \/ (Destroys(k) /\ x = k.fd)
    BY <1>2, <1>3, <1>4, <1>5, <1>6, <1>7
  <1>9. ASSUME OnceIn(q), Destroys(k) => k.fd \notin DyingIn(q)
        PROVE  OnceIn(p)
    <2> SUFFICES ASSUME NEW i \in 1..(n + 1), NEW j \in 1..(n + 1), i # j,
                        Destroys(p[i]), Destroys(p[j])
                 PROVE  p[i].fd # p[j].fd
      BY <1>2 DEF OnceIn
    <2>1. CASE i \in 1..n /\ j \in 1..n
      BY <1>2, <1>9, <2>1 DEF OnceIn
    <2>2. CASE i = n + 1 /\ j \in 1..n
      BY <1>2, <1>3, <1>9, <2>2
    <2>3. CASE i \in 1..n /\ j = n + 1
      BY <1>2, <1>3, <1>9, <2>3
    <2>4. QED
      BY <1>5, <2>1, <2>2, <2>3
  <1>10. QED
    BY <1>1, <1>2, <1>8, <1>9

\* A functor that has run takes its socket with it: no other closes it again.
LEMMA DyingTail ==
  ASSUME NEW q \in Seq(Functors), q # <<>>, OnceIn(q)
  PROVE  /\ Tail(q) \in Seq(Functors) /\ Head(q) \in Functors /\ OnceIn(Tail(q))
         /\ ~Destroys(Head(q)) => DyingIn(Tail(q)) = DyingIn(q)
         /\ Destroys(Head(q)) => /\ DyingIn(Tail(q)) = DyingIn(q) \ {Head(q).fd}
                                 /\ Head(q).fd \in DyingIn(q)
  <1>1. PICK n, p, k : n = Len(q) /\ p = Tail(q) /\ k = Head(q)
    OBVIOUS
  <1>2. /\ n \in Nat /\ n > 0 /\ DOMAIN q = 1..n /\ DOMAIN p = 1..(n - 1)
        /\ p \in Seq(Functors) /\ k \in Functors /\ q[1] = k
        /\ \A i \in 1..(n - 1) : p[i] = q[i + 1]
    BY <1>1
  <1>3. \A x : x \in DyingIn(q) <=> \E i \in 1..n : Destroys(q[i]) /\ q[i].fd = x
    BY <1>2 DEF DyingIn
  <1>4. \A x : x \in DyingIn(p) <=> \E i \in 1..(n - 1) : Destroys(p[i]) /\ p[i].fd = x
    BY <1>2 DEF DyingIn
  <1>5. \A i \in 1..n : i = 1 \/ (i - 1 \in 1..(n - 1) /\ (i - 1) + 1 = i)
    BY <1>2
  <1>6. 1 \in 1..n /\ \A i \in 1..(n - 1) : i + 1 \in 1..n /\ i + 1 # 1
    BY <1>2
  <1>7. \A i, j \in 1..n : Destroys(q[i]) /\ Destroys(q[j]) /\ i # j => q[i].fd # q[j].fd
    BY <1>2 DEF OnceIn
  <1>8. \A x : x \in DyingIn(p) =>
          x \in DyingIn(q) /\ (Destroys(k) => x # k.fd)
    BY <1>2, <1>3, <1>4, <1>6, <1>7
  <1>9. \A x : x \in DyingIn(q) => x \in DyingIn(p) \/ (Destroys(k) /\ x = k.fd)
    <2> SUFFICES ASSUME NEW x, NEW i \in 1..n, Destroys(q[i]), q[i].fd = x
                 PROVE  x \in DyingIn(p) \/ (Destroys(k) /\ x = k.fd)
      BY <1>3
    <2>1. CASE i = 1
      BY <1>2, <2>1
    <2>2. CASE i - 1 \in 1..(n - 1) /\ (i - 1) + 1 = i
      <3>1. p[i - 1] = q[i]
        BY <1>2, <2>2
      <3>2. QED
        BY <1>4, <2>2, <3>1
    <2>3. QED
      BY <1>5, <2>1, <2>2
  <1>10. OnceIn(p)
    <2> SUFFICES ASSUME NEW i \in 1..(n - 1), NEW j \in 1..(n - 1), i # j,
                        Destroys(p[i]), Destroys(p[j])
                 PROVE  p[i].fd # p[j].fd
      BY <1>2 DEF OnceIn
    <2>1. i + 1 # j + 1
      BY <1>2
    <2>2. QED
      BY <1>2, <1>6, <1>7, <2>1
  <1>11. Destroys(k) => k.fd \in DyingIn(q)
    BY <1>2, <1>3, <1>6
  <1>12. QED
    BY <1>1, <1>2, <1>8, <1>9, <1>10, <1>11

\* Only resetChannel itself brings a reset; running a functor brings none.
LEMMA Resets ==
  ASSUME NEW q \in Seq(Functors)
  PROVE  /\ \A k \in Functors :
              k.name # "resetChannel" /\ ResetIn(Append(q, k)) => ResetIn(q)
         /\ q # <<>> /\ ResetIn(Tail(q)) => ResetIn(q)
         /\ q # <<>> /\ Head(q).name = "resetChannel" => ResetIn(q)
  <1>1. Len(q) \in Nat /\ DOMAIN q = 1..Len(q)
    OBVIOUS
  <1>2. ASSUME NEW k \in Functors, k.name # "resetChannel", ResetIn(Append(q, k))
        PROVE  ResetIn(q)
    <2>1. PICK p, i : p = Append(q, k) /\ i \in DOMAIN p /\ p[i].name = "resetChannel"
      BY <1>2 DEF ResetIn
    <2>2. i \in 1..(Len(q) + 1) /\ (i = Len(q) + 1 => p[i] = k) /\ (i # Len(q) + 1 => p[i] = q[i])
      BY <1>1, <2>1
    <2>3. i \in 1..Len(q) /\ p[i] = q[i]
      BY <1>1, <1>2, <2>1, <2>2
    <2>4. QED
      BY <1>1, <2>1, <2>3 DEF ResetIn
  <1>3. ASSUME q # <<>>, ResetIn(Tail(q)) PROVE ResetIn(q)
    <2>1. PICK p, i : p = Tail(q) /\ i \in DOMAIN p /\ p[i].name = "resetChannel"
      BY <1>3 DEF ResetIn
    <2>2. i + 1 \in 1..Len(q) /\ p[i] = q[i + 1]
      BY <1>1, <1>3, <2>1
    <2>3. QED
      BY <1>1, <2>1, <2>2 DEF ResetIn
  <1>4. ASSUME q # <<>>, Head(q).name = "resetChannel" PROVE ResetIn(q)
    <2>1. 1 \in DOMAIN q /\ q[1] = Head(q)
      BY <1>1, <1>4
    <2>2. QED
      BY <1>4, <2>1 DEF ResetIn
  <1>5. QED
    BY <1>2, <1>3, <1>4

\* doOtherTasks swaps the functors out behind an empty batch: the chain goes on.
LEMMA ChainToTasks ==
  ASSUME Types, pc # "tasks", NEW fs \in Seq(Functors), ToTasks(fs)
  PROVE  /\ Chain' = Chain \o fs /\ Chain \in Seq(Functors)
         /\ batch' \in Seq(Functors) /\ functors' \in Seq(Functors)
         /\ pc' = "tasks"
  <1>1. batch = <<>> /\ functors \in Seq(Functors)
    BY DEF Types
  <1>2. Chain = functors /\ Chain' = functors \o fs
    BY <1>1 DEF Chain, ToTasks
  <1>3. QED
    BY <1>1, <1>2 DEF ToTasks

\* A functor queued goes to the end of the chain.
LEMMA ChainAppend ==
  ASSUME Types, NEW k \in Functors, batch' = batch, functors' = Append(functors, k)
  PROVE  Chain' = Append(Chain, k) /\ Chain \in Seq(Functors) /\ functors' \in Seq(Functors)
  BY DEF Types, Chain

\* A functor run comes from its head.
LEMMA ChainTail ==
  ASSUME Types, batch # <<>>, batch' = Tail(batch), functors' = functors
  PROVE  /\ Chain' = Tail(Chain) /\ Chain \in Seq(Functors) /\ Chain # <<>>
         /\ Head(Chain) = Head(batch) /\ batch' \in Seq(Functors)
  BY DEF Types, Chain

\* The functors the code queues.
LEMMA FunctorTypes ==
  /\ \A fd \in Nat : Functor("connectDestroyed", fd) \in Functors
       /\ Destroys(Functor("connectDestroyed", fd)) /\ Functor("connectDestroyed", fd).fd = fd
  /\ \A n \in {"startInLoop", "stopInLoop", "resetChannel"} :
       Functor(n, None) \in Functors /\ ~Destroys(Functor(n, None)) /\ Functor(n, None).name = n
  BY DEF Functor, Functors, Destroys, None

-----------------------------------------------------------------------------
(* The steps.                                                              *)

\* Nothing of the Connector's or the client's changes, nor what is to be closed.
LEMMA Frame ==
  ASSUME Attempt, Destroyed, Accounts, LateKnown,
         m_state' = m_state, m_channel' = m_channel, polled' = polled, open' = open,
         made' = made, m_connection' = m_connection, late' = late,
         ResetIn(Chain)' => ResetIn(Chain),
         DyingIn(Chain)' = DyingIn(Chain), OnceIn(Chain)'
  PROVE  Attempt' /\ Destroyed' /\ Accounts' /\ LateKnown'
  <1>1. Held' = Held
    BY DEF Held
  <1>2. QED
    BY <1>1 DEF Attempt, Destroyed, Accounts, LateKnown

\* startInLoop makes a socket only when there is neither an attempt nor a
\* connection, and the socket is new.
LEMMA StartStep ==
  ASSUME Types, Attempt, Connection, Destroyed, Accounts, LateKnown, startInLoop(m_connect),
         m_connection' = m_connection
  PROVE  /\ made' \in Nat /\ made <= made' /\ Attempt'
         /\ m_connection' # None => m_state' = "kConnected" /\ m_connection' \in 1..made'
         /\ DyingIn(Chain) \cap Held' = {} /\ Held' \cup DyingIn(Chain) \subseteq open'
         /\ open' \subseteq Held' \cup DyingIn(Chain) \cup late'
         /\ m_state' = "kConnecting" /\ m_channel' # None /\ ResetIn(Chain) => m_channel' \in late'
  <1>1. CASE UNCHANGED <<m_state, m_channel, polled, open, made, late>>
    <2>1. Held' = Held
      BY <1>1 DEF Held
    <2>2. QED
      BY <1>1, <2>1 DEF Types, Attempt, Connection, Destroyed, Accounts, LateKnown
  <1>2. CASE m_state = "kDisconnected" /\ connect
    <2>1. /\ made \in Nat /\ made' = made + 1 /\ m_connection = None /\ polled = {}
          /\ Held = {}
      BY <1>2 DEF Types, connect, Attempt, Connection, Held
    <2>2. \/ connecting(made')
          \/ m_state' = "kDisconnected" /\ UNCHANGED <<m_channel, polled, open, late>>
      BY <1>2 DEF connect
    <2>3. CASE m_state' = "kDisconnected" /\ UNCHANGED <<m_channel, polled, open, late>>
      <3>1. Held' = {}
        BY <2>1, <2>3 DEF Held
      <3>2. QED
        BY <2>1, <2>3, <3>1 DEF Attempt, Destroyed, Accounts
    <2>4. CASE connecting(made')
      <3>0. PICK fd : /\ fd = made' /\ m_state' = "kConnecting" /\ m_channel' = fd
                      /\ polled' \in {polled, polled \cup {fd}} /\ open' = open \cup {fd}
                      /\ late' = IF ResetOnItsWay THEN late \cup {fd} ELSE late
        BY <2>4 DEF connecting
      <3>2. fd \in 1..made' /\ fd \notin 1..made /\ made' \in Nat /\ made <= made' /\ fd # None
        BY <2>1, <3>0 DEF None
      <3>1. Held' = {fd} /\ polled' \subseteq {fd}
        BY <2>1, <3>0, <3>2 DEF Held
      <3>3. Attempt'
        BY <2>1, <3>0, <3>1, <3>2 DEF Attempt
      <3>4. ResetIn(Chain) => ResetOnItsWay
        BY DEF ResetIn, Chain, ResetOnItsWay
      <3>5. ResetIn(Chain) => m_channel' \in late'
        BY <3>0, <3>4
      <3>6. late \subseteq late'
        BY <3>0
      <3>7. /\ DyingIn(Chain) \cap Held' = {} /\ Held' \cup DyingIn(Chain) \subseteq open'
            /\ open' \subseteq Held' \cup DyingIn(Chain) \cup late'
        BY <2>1, <3>0, <3>1, <3>2, <3>6 DEF Destroyed, Accounts
      <3>8. QED
        BY <2>1, <3>2, <3>3, <3>5, <3>7
    <2>5. QED
      BY <2>2, <2>3, <2>4
  <1>3. QED
    BY <1>1, <1>2 DEF startInLoop

\* The invariant holds before the first call of connect.
LEMMA InvInit == Init => ClientInv
  <1> SUFFICES ASSUME Init
               PROVE  Parts
    BY DEF ClientInv, Init
  <1>1. Types /\ Attempt /\ Connection
    BY DEF Init, Types, Attempt, Connection
  <1>2. DOMAIN Chain = {} /\ Held = {}
    BY DEF Init, Chain, Held
  <1>3. Destroyed /\ Accounts /\ LateKnown
    BY <1>2 DEF Init, Destroyed, Accounts, OnceIn, DyingIn, LateKnown
  <1>4. QED
    BY <1>1, <1>3 DEF Parts

\* The attempt's socket is ready: it is closed, or becomes the connection's.
LEMMA InvConnectorEvent ==
  ASSUME ClientInv, ConnectorEvent
  PROVE  ClientInv'
  <1>0. CASE crashed'
    <2>1. Attempt /\ ~crashed /\ late' = late /\ \E fd \in polled : fd # m_channel
      BY <1>0 DEF ClientInv, Parts, ConnectorEvent
    <2>2. m_state = "kConnecting" /\ m_channel = None /\ late # {}
      BY <2>1 DEF Attempt
    <2>3. QED
      BY <1>0, <2>1, <2>2 DEF ClientInv
  <1> SUFFICES ASSUME ~crashed'
               PROVE  Parts'
    BY <1>0 DEF ClientInv
  <1>1. Types /\ Attempt /\ Connection /\ Destroyed /\ Accounts /\ LateKnown
    BY DEF ClientInv, Parts, ConnectorEvent
  <1>2. PICK ok \in BOOLEAN :
          /\ m_channel \in polled /\ handleWrite(ok) /\ pc = "poll"
          /\ ToTasks(<<Functor("resetChannel", None)>>)
          /\ made' = made /\ m_channel' = m_channel /\ late' = late
    BY DEF ConnectorEvent
  <1>3. PICK k \in Functors : k = Functor("resetChannel", None) /\ ~Destroys(k)
    BY FunctorTypes
  <1>4. /\ Chain' = Chain \o <<k>> /\ Chain \in Seq(Functors)
        /\ batch' \in Seq(Functors) /\ functors' \in Seq(Functors) /\ pc' = "tasks"
    <2>1. <<k>> \in Seq(Functors) /\ ToTasks(<<k>>)
      BY <1>2, <1>3
    <2>2. QED
      BY <1>1, <1>2, <2>1, ChainToTasks
  <1>5. Chain' = Append(Chain, k)
    BY <1>4
  <1>6. DyingIn(Chain)' = DyingIn(Chain) /\ OnceIn(Chain)'
    BY <1>1, <1>3, <1>4, <1>5, DyingAppend DEF Destroyed
  <1>7. PICK a \in 1..made : /\ polled = {a} /\ m_channel = a /\ m_connection = None
                             /\ m_state = "kConnecting"
    BY <1>1, <1>2 DEF Attempt
  <1>8. made \in Nat /\ a # None
    BY <1>1, <1>7 DEF Types, None
  <1>9. Held = {a}
    BY <1>7, <1>8 DEF Held
  <1>10. Types'
    BY <1>2, <1>4, <1>8 DEF Types
  <1>11. polled' = {} /\ m_state' # "kConnecting"
    BY <1>2, <1>7 DEF handleWrite, GiveUp
  <1>12. Attempt' /\ LateKnown'
    BY <1>11 DEF Attempt, LateKnown
  <1>13. CASE m_connection' = a /\ open' = open /\ m_state' = "kConnected"
    <2>1. Held' = {a}
      BY <1>8, <1>11, <1>13 DEF Held
    <2>2. QED
      BY <1>1, <1>2, <1>4, <1>6, <1>7, <1>9, <1>10, <1>12, <1>13, <2>1
         DEF Connection, Destroyed, Accounts, Parts
  <1>14. CASE m_connection' = None /\ open' = open \ {a}
    <2>1. Held' = {}
      BY <1>11, <1>14 DEF Held
    <2>2. a \notin DyingIn(Chain)
      BY <1>1, <1>9 DEF Destroyed
    <2>3. QED
      BY <1>1, <1>2, <1>4, <1>6, <1>9, <1>10, <1>12, <1>14, <2>1, <2>2
         DEF Connection, Destroyed, Accounts, Parts
  <1>15. QED
    BY <1>2, <1>7, <1>13, <1>14 DEF handleWrite, GiveUp

\* The connection ends: its socket passes to the functor that closes it.
LEMMA InvRemoveConnection ==
  ASSUME ClientInv, removeConnection
  PROVE  ClientInv'
  <1>1. Types /\ Attempt /\ Connection /\ Destroyed /\ Accounts /\ LateKnown
    BY DEF ClientInv, Parts, removeConnection
  <1>2. /\ pc = "poll" /\ m_connection # None /\ m_connection' = None
        /\ m_state' = m_state /\ polled' = polled /\ open' = open /\ made' = made
        /\ late' = late /\ ~crashed'
    BY DEF removeConnection, connectorVars
  <1>3. /\ m_state = "kConnected" /\ m_connection \in 1..made /\ made \in Nat /\ polled = {}
        /\ m_connection \in Nat
    BY <1>1, <1>2 DEF Types, Connection, Attempt
  <1>4. PICK k \in Functors : /\ k = Functor("connectDestroyed", m_connection)
                              /\ Destroys(k) /\ k.fd = m_connection
    BY <1>3, FunctorTypes
  <1>5. Held = {m_connection} /\ Held' = {}
    BY <1>2, <1>3 DEF Held
  <1>6. /\ Chain' = Append(Chain, k) /\ Chain \in Seq(Functors)
        /\ batch' \in Seq(Functors) /\ functors' \in Seq(Functors)
        /\ pc' \in {"restart", "tasks"} /\ (pc' # "tasks" => batch' = <<>>)
    <2>1. CASE ToTasks(<<Functor("connectDestroyed", m_connection)>>)
      <3>1. /\ Chain' = Chain \o <<k>> /\ Chain \in Seq(Functors)
            /\ batch' \in Seq(Functors) /\ functors' \in Seq(Functors) /\ pc' = "tasks"
        <4>1. <<k>> \in Seq(Functors) /\ ToTasks(<<k>>)
          BY <1>4, <2>1
        <4>2. QED
          BY <1>1, <1>2, <4>1, ChainToTasks
      <3>2. QED
        BY <3>1
    <2>2. CASE /\ pc' = "restart" /\ batch' = batch
               /\ functors' = Append(functors, Functor("connectDestroyed", m_connection))
      BY <1>1, <1>2, <1>4, <2>2, ChainAppend DEF Types
    <2>3. QED
      BY <2>1, <2>2 DEF removeConnection
  <1>7. m_connection \notin DyingIn(Chain)
    BY <1>1, <1>5 DEF Destroyed
  <1>8. DyingIn(Chain)' = DyingIn(Chain) \cup {m_connection} /\ OnceIn(Chain)'
    BY <1>1, <1>4, <1>6, <1>7, DyingAppend DEF Destroyed
  <1>9. Types'
    BY <1>2, <1>3, <1>6 DEF Types
  <1>10. Attempt' /\ Connection' /\ LateKnown'
    BY <1>2, <1>3, <1>6 DEF Attempt, Connection, LateKnown
  <1>11. Destroyed' /\ Accounts'
    BY <1>1, <1>2, <1>3, <1>5, <1>8 DEF Destroyed, Accounts
  <1>12. QED
    BY <1>2, <1>9, <1>10, <1>11 DEF ClientInv, Parts

\* The attempt's socket passes straight to the functor that closes it.
LEMMA InvNewConnectionFails ==
  ASSUME ClientInv, NewConnectionFails
  PROVE  ClientInv'
  <1>1. Types /\ Attempt /\ Connection /\ Destroyed /\ Accounts /\ LateKnown
    BY DEF ClientInv, Parts, NewConnectionFails
  <1>2. /\ pc = "poll" /\ m_state = "kConnecting" /\ m_channel \in polled
        /\ polled' = polled \ {m_channel} /\ m_state' = "kConnected"
        /\ m_connection' = m_connection /\ open' = open /\ made' = made
        /\ late' = late /\ ~crashed'
    BY DEF NewConnectionFails
  <1>3. PICK a \in 1..made : polled = {a} /\ m_channel = a /\ m_connection = None
    BY <1>1, <1>2 DEF Attempt
  <1>4. made \in Nat /\ a \in Nat /\ Held = {a} /\ Held' = {} /\ polled' = {}
    BY <1>1, <1>2, <1>3 DEF Types, Held, None
  <1>5. PICK r \in Functors : r = Functor("resetChannel", None) /\ ~Destroys(r)
    BY FunctorTypes
  <1>6. PICK k \in Functors : /\ k = Functor("connectDestroyed", a)
                              /\ Destroys(k) /\ k.fd = a
    BY <1>4, FunctorTypes
  <1>7. /\ Chain' = Append(Append(Chain, r), k) /\ Chain \in Seq(Functors)
        /\ batch' \in Seq(Functors) /\ functors' \in Seq(Functors)
        /\ pc' \in {"restart", "tasks"} /\ (pc' # "tasks" => batch' = <<>>)
    <2>1. <<r, k>> \in Seq(Functors)
      OBVIOUS
    <2>2. CASE ToTasks(<<r, k>>)
      <3>1. /\ Chain' = Chain \o <<r, k>> /\ Chain \in Seq(Functors)
            /\ batch' \in Seq(Functors) /\ functors' \in Seq(Functors) /\ pc' = "tasks"
        BY <1>1, <1>2, <2>1, <2>2, ChainToTasks
      <3>2. Chain \o <<r, k>> = Append(Append(Chain, r), k)
        BY <3>1
      <3>3. QED
        BY <3>1, <3>2
    <2>3. CASE pc' = "restart" /\ batch' = batch /\ functors' = functors \o <<r, k>>
      <3>1. batch = <<>> /\ functors \in Seq(Functors)
        BY <1>1, <1>2 DEF Types
      <3>2. Chain = functors /\ Chain' = functors \o <<r, k>>
        BY <2>3, <3>1 DEF Chain
      <3>3. functors \o <<r, k>> = Append(Append(functors, r), k)
        BY <3>1
      <3>4. QED
        BY <2>1, <2>3, <3>1, <3>2, <3>3
    <2>4. QED
      BY <1>3, <1>5, <1>6, <2>2, <2>3 DEF NewConnectionFails
  <1>8. a \notin DyingIn(Chain)
    BY <1>1, <1>4 DEF Destroyed
  <1>9. /\ Append(Chain, r) \in Seq(Functors) /\ OnceIn(Append(Chain, r))
        /\ DyingIn(Append(Chain, r)) = DyingIn(Chain)
    BY <1>1, <1>5, <1>7, DyingAppend DEF Destroyed
  <1>10. DyingIn(Chain)' = DyingIn(Chain) \cup {a} /\ OnceIn(Chain)'
    <2>1. PICK d \in Seq(Functors) : d = Append(Chain, r)
      BY <1>9
    <2>2. OnceIn(d) /\ DyingIn(d) = DyingIn(Chain) /\ a \notin DyingIn(d)
      BY <1>8, <1>9, <2>1
    <2>3. DyingIn(Append(d, k)) = DyingIn(d) \cup {a} /\ OnceIn(Append(d, k))
      BY <1>6, <2>2, DyingAppend
    <2>4. QED
      BY <1>7, <2>1, <2>2, <2>3
  <1>11. Types'
    BY <1>2, <1>4, <1>7 DEF Types
  <1>12. Attempt' /\ Connection' /\ LateKnown'
    BY <1>2, <1>3, <1>4, <1>7 DEF Attempt, Connection, LateKnown
  <1>13. Destroyed' /\ Accounts'
    BY <1>1, <1>2, <1>4, <1>10 DEF Destroyed, Accounts
  <1>14. QED
    BY <1>2, <1>11, <1>12, <1>13 DEF ClientInv, Parts

\* restart finds the Connector connected, without an attempt.
LEMMA InvRestart ==
  ASSUME ClientInv, restart
  PROVE  ClientInv'
  <1>1. Types /\ Attempt /\ Connection /\ Destroyed /\ Accounts /\ LateKnown
    BY DEF ClientInv, Parts, restart
  <1>2. /\ pc = "restart" /\ pc' = "start" /\ m_state' = "kDisconnected"
        /\ m_connection' = m_connection /\ open' = open /\ made' = made /\ polled' = polled
        /\ functors' = functors /\ batch' = batch /\ late' = late /\ ~crashed'
    BY DEF restart
  <1>3. m_connection = None /\ m_state = "kConnected" /\ polled = {}
    BY <1>1, <1>2 DEF Connection, Attempt
  <1>4. Held' = {} /\ Held = {} /\ Chain' = Chain
    BY <1>2, <1>3 DEF Held, Chain
  <1>5. Types' /\ Attempt' /\ Connection' /\ LateKnown'
    BY <1>1, <1>2, <1>3 DEF Types, Attempt, Connection, LateKnown
  <1>6. Destroyed' /\ Accounts'
    BY <1>1, <1>2, <1>4 DEF Destroyed, Accounts
  <1>7. QED
    BY <1>2, <1>5, <1>6 DEF ClientInv, Parts

\* ... and starts it again, unless a stop came between.
LEMMA InvRestartStarts ==
  ASSUME ClientInv, RestartStarts
  PROVE  ClientInv'
  <1>1. Types /\ Attempt /\ Connection /\ Destroyed /\ Accounts /\ LateKnown
    BY DEF ClientInv, Parts, RestartStarts
  <1>2. /\ pc = "start" /\ startInLoop(m_connect) /\ ToTasks(<<>>) /\ m_connection' = m_connection
        /\ ~crashed'
    BY DEF RestartStarts
  <1>3. /\ Chain' = Chain \o <<>> /\ Chain \in Seq(Functors)
        /\ batch' \in Seq(Functors) /\ functors' \in Seq(Functors) /\ pc' = "tasks"
    <2>1. <<>> \in Seq(Functors)
      OBVIOUS
    <2>2. QED
      BY <1>1, <1>2, <2>1, ChainToTasks
  <1>4. Chain' = Chain
    BY <1>3
  <1>5. /\ made' \in Nat /\ made <= made' /\ Attempt'
        /\ m_connection' # None => m_state' = "kConnected" /\ m_connection' \in 1..made'
        /\ DyingIn(Chain) \cap Held' = {} /\ Held' \cup DyingIn(Chain) \subseteq open'
        /\ open' \subseteq Held' \cup DyingIn(Chain) \cup late'
        /\ m_state' = "kConnecting" /\ m_channel' # None /\ ResetIn(Chain) => m_channel' \in late'
    BY <1>1, <1>2, StartStep
  <1>6. Types' /\ Connection'
    BY <1>3, <1>5 DEF Types, Connection
  <1>7. Destroyed' /\ Accounts' /\ LateKnown'
    <2>1. 1..made \subseteq 1..made'
      BY <1>1, <1>5 DEF Types
    <2>2. QED
      BY <1>1, <1>4, <1>5, <2>1 DEF Destroyed, Accounts, LateKnown
  <1>8. QED
    BY <1>2, <1>5, <1>6, <1>7 DEF ClientInv, Parts

\* doOtherTasks begins: the chain is the same.
LEMMA InvWakeUp ==
  ASSUME ClientInv, WakeUp
  PROVE  ClientInv'
  <1>1. Types /\ Attempt /\ Connection /\ Destroyed /\ Accounts /\ LateKnown
    BY DEF ClientInv, Parts, WakeUp
  <1>2. /\ pc = "poll" /\ ToTasks(<<>>) /\ m_connection' = m_connection
        /\ m_state' = m_state /\ m_channel' = m_channel /\ polled' = polled
        /\ open' = open /\ made' = made /\ late' = late /\ ~crashed'
    BY DEF WakeUp, connectorVars
  <1>3. /\ Chain' = Chain \o <<>> /\ Chain \in Seq(Functors)
        /\ batch' \in Seq(Functors) /\ functors' \in Seq(Functors) /\ pc' = "tasks"
    <2>1. <<>> \in Seq(Functors)
      OBVIOUS
    <2>2. QED
      BY <1>1, <1>2, <2>1, ChainToTasks
  <1>4. Chain' = Chain
    BY <1>3
  <1>5. Types' /\ Connection'
    BY <1>1, <1>2, <1>3 DEF Types, Connection
  <1>6. Attempt' /\ Destroyed' /\ Accounts' /\ LateKnown'
    BY <1>1, <1>2, <1>4, Frame DEF Destroyed
  <1>7. QED
    BY <1>2, <1>5, <1>6 DEF ClientInv, Parts

\* A functor runs.  stopInLoop closes the attempt's socket, connectDestroyed one
\* that is nobody's, and no functor left behind will close either again.
LEMMA InvRunTask ==
  ASSUME ClientInv, RunTask
  PROVE  ClientInv'
  <1>0. CASE crashed'
    <2>1. Attempt /\ ~crashed /\ late' = late /\ m_state = "kConnecting" /\ m_channel = None
      BY <1>0 DEF ClientInv, Parts, RunTask, stopInLoop
    <2>2. QED
      BY <1>0, <2>1 DEF ClientInv, Attempt
  <1> SUFFICES ASSUME ~crashed'
               PROVE  Parts'
    BY <1>0 DEF ClientInv
  <1>1. /\ Types /\ Attempt /\ Connection /\ Destroyed /\ Accounts /\ OnceIn(Chain) /\ made \in Nat
        /\ LateKnown
    BY DEF ClientInv, Parts, RunTask, Destroyed, Types
  <1>2. /\ pc = "tasks" /\ pc' = "tasks" /\ batch # <<>> /\ batch' = Tail(batch)
        /\ m_connection' = m_connection
    BY DEF RunTask
  <1>3. PICK c, k : c = Tail(Chain) /\ k = Head(batch)
    OBVIOUS
  <1>4. /\ Chain \in Seq(Functors) /\ Chain # <<>> /\ k = Head(Chain)
        /\ batch' \in Seq(Functors) /\ c = batch' \o functors
    BY <1>1, <1>2, <1>3 DEF Types, Chain
  <1>5. /\ c \in Seq(Functors) /\ OnceIn(c)
        /\ ~Destroys(k) => DyingIn(c) = DyingIn(Chain)
        /\ Destroys(k) => DyingIn(c) = DyingIn(Chain) \ {k.fd} /\ k.fd \in DyingIn(Chain)
    BY <1>1, <1>3, <1>4, DyingTail
  <1>r. (ResetIn(c) => ResetIn(Chain)) /\ (k.name = "resetChannel" => ResetIn(Chain))
    BY <1>3, <1>4, Resets
  <1>6. functors' = functors => Chain' = c /\ functors' \in Seq(Functors)
    BY <1>1, <1>4 DEF Chain, Types
  <1>7. CASE k.name = "startInLoop" /\ startInLoop(m_connect) /\ functors' = functors
    <2>1. ~Destroys(k)
      BY <1>7 DEF Destroys
    <2>2. /\ made' \in Nat /\ made <= made' /\ Attempt'
          /\ m_connection' # None => m_state' = "kConnected" /\ m_connection' \in 1..made'
          /\ DyingIn(Chain) \cap Held' = {} /\ Held' \cup DyingIn(Chain) \subseteq open'
          /\ open' \subseteq Held' \cup DyingIn(Chain) \cup late'
          /\ m_state' = "kConnecting" /\ m_channel' # None /\ ResetIn(Chain) => m_channel' \in late'
      BY <1>1, <1>2, <1>7, StartStep
    <2>3. Types' /\ Connection'
      BY <1>2, <1>4, <1>6, <1>7, <2>2 DEF Types, Connection
    <2>4. 1..made \subseteq 1..made'
      BY <1>1, <2>2
    <2>5. DyingIn(Chain)' = DyingIn(Chain) /\ OnceIn(Chain)'
      BY <1>5, <1>6, <1>7, <2>1
    <2>6. LateKnown'
      BY <1>6, <1>7, <1>r, <2>2 DEF LateKnown
    <2>7. QED
      BY <1>1, <2>2, <2>3, <2>4, <2>5, <2>6 DEF Destroyed, Accounts, Parts
  <1>8. CASE k.name = "stopInLoop" /\ stopInLoop /\ UNCHANGED <<m_channel, made, late>>
    <2>1. ~Destroys(k)
      BY <1>8 DEF Destroys
    <2>2. CASE m_state # "kConnecting"
      <3>1. /\ polled' = polled /\ open' = open /\ m_state' = m_state /\ functors' = functors
            /\ m_channel' = m_channel /\ made' = made /\ late' = late
        BY <1>8, <2>2 DEF stopInLoop
      <3>2. DyingIn(Chain)' = DyingIn(Chain) /\ OnceIn(Chain)'
        BY <1>5, <1>6, <2>1, <3>1
      <3>3. Types' /\ Connection'
        BY <1>1, <1>2, <1>4, <1>6, <3>1 DEF Types, Connection
      <3>4. ResetIn(Chain)' => ResetIn(Chain)
        BY <1>6, <1>r, <3>1
      <3>5. QED
        BY <1>1, <1>2, <3>1, <3>2, <3>3, <3>4, Frame DEF Parts
    <2>3. CASE m_state = "kConnecting"
      <3>1. /\ m_channel # None /\ GiveUp /\ made' = made
            /\ functors' = Append(functors, Functor("resetChannel", None))
        BY <1>8, <2>3 DEF stopInLoop
      <3>2. PICK a \in 1..made : polled \subseteq {a} /\ m_channel = a /\ m_connection = None
        BY <1>1, <2>3, <3>1 DEF Attempt
      <3>3. PICK r \in Functors : r = Functor("resetChannel", None) /\ ~Destroys(r)
        BY FunctorTypes
      <3>4. Chain' = Append(c, r) /\ functors' \in Seq(Functors)
        BY <1>1, <1>4, <3>1, <3>3 DEF Types, Chain
      <3>5. DyingIn(Chain)' = DyingIn(Chain) /\ OnceIn(Chain)'
        BY <1>5, <2>1, <3>3, <3>4, DyingAppend
      <3>6. polled' = {} /\ open' = open \ {a} /\ m_state' = "kDisconnected"
        BY <3>1, <3>2 DEF GiveUp
      <3>7. Held = {a} /\ Held' = {}
        BY <1>2, <2>3, <3>1, <3>2, <3>6 DEF Held
      <3>8. a \notin DyingIn(Chain)
        BY <1>1, <3>7 DEF Destroyed
      <3>9. Types' /\ Attempt' /\ Connection' /\ LateKnown'
        BY <1>1, <1>2, <1>4, <3>1, <3>2, <3>4, <3>6 DEF Types, Attempt, Connection, LateKnown
      <3>10. QED
        BY <1>1, <1>8, <3>1, <3>5, <3>6, <3>7, <3>8, <3>9 DEF Destroyed, Accounts, Parts
    <2>4. QED
      BY <2>2, <2>3
  <1>9. CASE /\ k.name = "resetChannel" /\ m_channel' = None
             /\ UNCHANGED <<m_state, polled, open, made, functors, crashed, late>>
    <2>1. ~Destroys(k) /\ ResetIn(Chain)
      BY <1>9, <1>r DEF Destroys
    <2>2. DyingIn(Chain)' = DyingIn(Chain) /\ OnceIn(Chain)'
      BY <1>5, <1>6, <1>9, <2>1
    <2>3. Held' \subseteq Held /\ Held \subseteq Held' \cup late
      BY <1>1, <1>2, <1>9, <2>1 DEF Held, LateKnown
    <2>4. m_state = "kConnecting" => late # {}
      BY <1>1, <2>1 DEF Attempt, LateKnown
    <2>5. Types' /\ Connection' /\ LateKnown'
      BY <1>1, <1>2, <1>4, <1>6, <1>9 DEF Types, Connection, LateKnown
    <2>6. Attempt'
      BY <1>1, <1>2, <1>9, <2>4 DEF Attempt
    <2>7. Destroyed' /\ Accounts'
      BY <1>1, <1>9, <2>2, <2>3 DEF Destroyed, Accounts
    <2>8. QED
      BY <2>5, <2>6, <2>7 DEF Parts
  <1>10. CASE /\ k.name = "connectDestroyed" /\ open' = open \ {k.fd}
              /\ UNCHANGED <<m_state, m_channel, polled, made, functors, crashed, late>>
    <2>1. Destroys(k)
      BY <1>10 DEF Destroys
    <2>2. /\ DyingIn(Chain)' = DyingIn(Chain) \ {k.fd} /\ k.fd \in DyingIn(Chain)
          /\ OnceIn(Chain)' /\ Held' = Held
      BY <1>2, <1>5, <1>6, <1>10, <2>1 DEF Held
    <2>3. Types' /\ Attempt' /\ Connection' /\ LateKnown'
      BY <1>1, <1>2, <1>4, <1>6, <1>10, <1>r DEF Types, Attempt, Connection, LateKnown
    <2>4. k.fd \notin Held
      BY <1>1, <2>2 DEF Destroyed
    <2>5. QED
      BY <1>1, <1>10, <2>2, <2>3, <2>4 DEF Destroyed, Accounts, Parts
  <1>11. QED
    BY <1>3, <1>7, <1>8, <1>9, <1>10 DEF RunTask

\* doOtherTasks ends with an empty batch.
LEMMA InvEndTasks ==
  ASSUME ClientInv, EndTasks
  PROVE  ClientInv'
  <1>1. Types /\ Attempt /\ Connection /\ Destroyed /\ Accounts /\ LateKnown
    BY DEF ClientInv, Parts, EndTasks
  <1>2. /\ pc' = "poll" /\ batch = <<>> /\ batch' = batch /\ functors' = functors
        /\ m_connection' = m_connection /\ m_state' = m_state /\ m_channel' = m_channel
        /\ polled' = polled /\ open' = open /\ made' = made /\ late' = late /\ ~crashed'
    BY DEF EndTasks, connectorVars
  <1>3. Chain' = Chain
    BY <1>2 DEF Chain
  <1>4. Types' /\ Connection'
    BY <1>1, <1>2 DEF Types, Connection
  <1>5. QED
    BY <1>1, <1>2, <1>3, <1>4, Frame DEF ClientInv, Destroyed, Parts

\* The other thread writes flags that no socket depends on ...
LEMMA InvCaller ==
  ASSUME ClientInv, CallConnect \/ CallStop \/ CallSets \/ disconnect \/ UNCHANGED vars
  PROVE  ClientInv'
  <1>0. late' = late /\ crashed' = crashed
    BY DEF CallConnect, CallStop, CallSets, disconnect, connectorVars, vars
  <1> SUFFICES ASSUME ~crashed
               PROVE  Parts'
    BY <1>0 DEF ClientInv
  <1>1. Types /\ Attempt /\ Connection /\ Destroyed /\ Accounts /\ LateKnown
    BY DEF ClientInv, Parts
  <1>2. /\ pc' = pc /\ batch' = batch /\ functors' = functors
        /\ m_connection' = m_connection /\ m_state' = m_state /\ m_channel' = m_channel
        /\ polled' = polled /\ open' = open /\ made' = made
    BY DEF CallConnect, CallStop, CallSets, disconnect, connectorVars, vars
  <1>3. Chain' = Chain
    BY <1>2 DEF Chain
  <1>4. Types' /\ Connection'
    BY <1>1, <1>2 DEF Types, Connection
  <1>5. QED
    BY <1>0, <1>1, <1>2, <1>3, <1>4, Frame DEF Destroyed, Parts

\* ... and queues functors that close none by themselves.
LEMMA InvCallQueues ==
  ASSUME ClientInv, CallQueues
  PROVE  ClientInv'
  <1>1. Types /\ Attempt /\ Connection /\ Destroyed /\ Accounts /\ LateKnown
    BY DEF ClientInv, Parts, CallQueues
  <1>2. PICK k \in Functors : /\ ~Destroys(k) /\ functors' = Append(functors, k)
                              /\ k.name # "resetChannel"
    BY FunctorTypes DEF CallQueues
  <1>3. /\ pc' = pc /\ batch' = batch
        /\ m_connection' = m_connection /\ m_state' = m_state /\ m_channel' = m_channel
        /\ polled' = polled /\ open' = open /\ made' = made /\ late' = late /\ ~crashed'
    BY DEF CallQueues, connectorVars
  <1>4. Chain' = Append(Chain, k) /\ Chain \in Seq(Functors) /\ functors' \in Seq(Functors)
    BY <1>1, <1>2, <1>3, ChainAppend
  <1>5. DyingIn(Chain)' = DyingIn(Chain) /\ OnceIn(Chain)'
    BY <1>1, <1>2, <1>4, DyingAppend DEF Destroyed
  <1>6. Types' /\ Connection'
    BY <1>1, <1>3, <1>4 DEF Types, Connection
  <1>7. ResetIn(Chain)' => ResetIn(Chain)
    BY <1>2, <1>4, Resets
  <1>8. QED
    BY <1>1, <1>3, <1>5, <1>6, <1>7, Frame DEF ClientInv, Parts

\* The invariant holds in every reachable state.
LEMMA InvAlways == Spec => []ClientInv
  <1>1. ClientInv /\ [Next]_vars => ClientInv'
    BY InvConnectorEvent, InvRemoveConnection, InvNewConnectionFails, InvRestart,
       InvRestartStarts, InvWakeUp, InvRunTask, InvEndTasks, InvCaller, InvCallQueues DEF Next
  <1>2. QED
    BY InvInit, <1>1, PTL DEF Spec

(***************************************************************************)
(* A client has one attempt or one connection at most, whose socket is     *)
(* open, and every open socket is that one's or waits for its              *)
(* connectDestroyed, however connect, disconnect and stop fall between the *)
(* loop's events and functors.  The exceptions are the sockets of attempts *)
(* begun while a resetChannel was still queued: without one of them none   *)
(* leaks and no destroyed Channel is used.                                 *)
(***************************************************************************)
THEOREM ClientSocketsAccounted == Spec => []SocketsAccounted
  <1>1. ClientInv => SocketsAccounted
    <2> SUFFICES ASSUME ClientInv PROVE SocketsAccounted
      OBVIOUS
    <2>0. crashed => late # {}
      BY DEF ClientInv
    <2> SUFFICES ASSUME ~crashed
                 PROVE  /\ Cardinality(Held) <= 1 /\ Held \cup Dying \subseteq open
                        /\ open \ late \subseteq Held \cup Dying
      BY <2>0 DEF SocketsAccounted
    <2>1. Attempt /\ Connection /\ Accounts
      BY DEF ClientInv, Parts
    <2>2. Dying = DyingIn(Chain)
      BY DEF Dying, DyingIn, Chain, Destroys
    <2>3. Held = {} \/ \E a : Held = {a}
      BY <2>1 DEF Held, Attempt, Connection
    <2>4. Cardinality(Held) <= 1
      <3>1. CASE Held = {}
        <4>1. Cardinality(Held) = 0
          BY <3>1, FS_EmptySet
        <4>2. QED
          BY <4>1
      <3>2. CASE \E a : Held = {a}
        <4>1. Cardinality(Held) = 1
          BY <3>2, FS_Singleton
        <4>2. QED
          BY <4>1
      <3>3. QED
        BY <2>3, <3>1, <3>2
    <2>5. QED
      BY <2>1, <2>2, <2>4 DEF Accounts
  <1>2. QED
    BY <1>1, InvAlways, PTL

=============================================================================
