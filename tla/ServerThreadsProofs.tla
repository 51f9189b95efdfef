------------------------- MODULE ServerThreadsProofs -------------------------
(***************************************************************************)
(* Proofs about ServerThreads: while the server runs the pool has all its  *)
(* loops and none of them is leaving, and getNextLoop spreads connections  *)
(* evenly, for any number of clients, threads and restarts.                *)
(***************************************************************************)
EXTENDS ServerThreads, Integers, TLAPS

-----------------------------------------------------------------------------
(* The inductive invariant.                                                *)

\* The threads of the present pool are numbered from here on ...
Base == (starts - 1) * NumThreads

\* ... up to here, the one being started included.
Last == Base + Len(m_loops) + (IF main \in {"testing", "waiting"} THEN 1 ELSE 0)

\* Where the main thread is inside start, and inside EventLoopThreadPool::stop.
StartPlaces == {"starting", "testing", "waiting"}
StopPlaces == {"quitting", "waking", "joining"}

\* The pool is complete, except while start fills it and before the first start.
PoolShape ==
  /\ Len(m_loops) <= NumThreads
  /\ \A i \in DOMAIN m_loops : m_loops[i] = Base + i
  /\ main \in StartPlaces => starts >= 1
  /\ main \in {"testing", "waiting"} => Len(m_loops) < NumThreads
  /\ main \notin StartPlaces /\ starts >= 1 => Len(m_loops) = NumThreads
  /\ starts = 0 => m_loops = <<>> /\ main \in {"poll", "crashed"}
  /\ joined <= Len(m_loops) /\ (main \notin StopPlaces \cup {"crashed"} => joined = 0)
  /\ main \in {"waking", "joining"} => joined < Len(m_loops)

\* Nobody is accepted, and nothing stopped, before the first start is over.
BeforeStart ==
  /\ m_started \/ m_listenning => starts >= 1
  /\ main \in StartPlaces => ~m_started
  /\ main \in {"stopping"} \cup StopPlaces => m_started
  /\ \A c \in Clients : client[c] # "away" => m_listenning

\* A thread has published its loop from threadFunc's notify to its return.
Published ==
  \A t \in Threads : t \in m_loop <=> thread[t] \in {"ready", "test", "polling", "left"}

\* Threads of later starts do not exist.
NotYetMade ==
  \A t \in Threads : t > Last => thread[t] = "none" /\ ~m_quit[t]

\* Until stop tells them to quit, the threads of the pool run.
PoolRuns ==
  main \in StartPlaces \/ (m_started /\ main \notin (StopPlaces \cup {"crashed"})) =>
    \A t \in Threads : t > Base /\ t <= Last =>
      /\ ~m_quit[t]
      /\ thread[t] \in {"made", "ready", "test", "polling"}
      /\ t <= Base + Len(m_loops) => thread[t] # "made"

\* getNextLoop has come round to the same count for all loops from m_next on, and
\* to one more for those before it.
Rounds ==
  /\ m_next < NumThreads
  /\ main \in StartPlaces => m_next = 0
  /\ \A t \in Threads : t > Base + Len(m_loops) => given[t] = 0
  /\ main \in StartPlaces => \A t \in Threads : t > Base => given[t] = 0
  /\ \A i, j \in DOMAIN m_loops :
       given[m_loops[i]] + (IF j <= m_next THEN 1 ELSE 0)
         = given[m_loops[j]] + (IF i <= m_next THEN 1 ELSE 0)

ThreadInv == PoolShape /\ BeforeStart /\ Published /\ NotYetMade /\ PoolRuns /\ Rounds

\* The types of what the invariant is about.
Place == {"poll", "starting", "testing", "waiting", "full", "refusing", "reopening",
          "stopping", "quitting", "waking", "joining", "crashed"}
Stage == {"none", "made", "ready", "test", "polling", "left", "ended"}

Flags ==
  /\ m_started \in BOOLEAN /\ m_listenning \in BOOLEAN
  /\ m_quit \in [Threads -> BOOLEAN]

PoolTypes ==
  /\ main \in Place
  /\ starts \in 0..MaxStarts
  /\ m_loops \in Seq(Threads) /\ m_next \in Nat /\ joined \in Nat
  /\ thread \in [Threads -> Stage]
  /\ m_loop \subseteq Threads
  /\ given \in [Threads -> Nat]
  /\ client \in [Clients -> {"away", "waiting", "accepted", "refused"}]

PoolInv == Flags /\ PoolTypes /\ ThreadInv

USE DEF StartPlaces, StopPlaces

-----------------------------------------------------------------------------
(* The numbers of the threads.                                             *)

\* The threads of a pool are threads.
LEMMA BaseThreads ==
  ASSUME starts \in 1..MaxStarts, NEW k \in 1..NumThreads
  PROVE  Base + k \in Threads /\ Base \in Nat
  <1>1. NumThreads \in Nat /\ MaxStarts \in Nat
    BY ThreadsAssumption
  <1>2. PICK a \in Nat : starts = a + 1 /\ a < MaxStarts
    <2>1. starts - 1 \in Nat /\ starts = (starts - 1) + 1 /\ starts - 1 < MaxStarts
      BY <1>1
    <2>2. QED BY <2>1
  <1>3. PICK b \in Nat : MaxStarts = a + 1 + b
    <2>1. MaxStarts - a - 1 \in Nat /\ MaxStarts = a + 1 + (MaxStarts - a - 1)
      BY <1>1, <1>2
    <2>2. QED BY <2>1
  <1>4. NumThreads * MaxStarts = a * NumThreads + NumThreads + b * NumThreads
    BY <1>1, <1>3
  <1>5. a * NumThreads \in Nat /\ b * NumThreads \in Nat
    BY <1>1
  <1>6. Base = a * NumThreads
    BY <1>2 DEF Base
  <1>7. Base + k >= 1 /\ Base + k <= NumThreads * MaxStarts
    BY <1>1, <1>4, <1>5, <1>6
  <1>8. QED BY <1>1, <1>5, <1>6, <1>7 DEF Threads

\* The next pool begins where the present one ends.
LEMMA BaseMoves ==
  ASSUME starts \in Nat, starts' = starts + 1
  PROVE  Base' = Base + NumThreads /\ Base \in Int
  <1>1. NumThreads \in Nat
    BY ThreadsAssumption
  <1>2. (starts + 1 - 1) * NumThreads = (starts - 1) * NumThreads + NumThreads
    BY <1>1
  <1>3. QED BY <1>1, <1>2 DEF Base

\* Types of the numbers.
LEMMA NumberTypes ==
  ASSUME PoolTypes
  PROVE  /\ Base \in Int /\ Last \in Int /\ Len(m_loops) \in Nat
         /\ Threads \subseteq Nat
  <1>1. NumThreads \in Nat /\ starts \in Nat
    BY ThreadsAssumption DEF PoolTypes
  <1>2. Base \in Int
    BY <1>1 DEF Base
  <1>3. Len(m_loops) \in Nat
    BY DEF PoolTypes
  <1>4. Last \in Int
    BY <1>2, <1>3 DEF Last
  <1>5. QED BY <1>2, <1>3, <1>4 DEF Threads

-----------------------------------------------------------------------------
(* Steps that leave the pool and its threads alone.                        *)

\* The main thread moves about outside start, clients come and are answered.
LEMMA PoolFrame ==
  ASSUME PoolInv,
         UNCHANGED <<m_started, starts, m_loops, m_next, given, m_listenning, thread, m_loop, m_quit>>,
         main' \in Place,
         \/ main' = main
         \/ main = "waiting" /\ main' = "testing"
         \/ main = "testing" /\ main' = "waiting"
         \/ main \notin StartPlaces /\ main' = "crashed"
         \/ /\ main \notin StartPlaces /\ main' \notin StartPlaces
            /\ starts >= 1
            /\ main \in StopPlaces \cup {"crashed"} => main' \in StopPlaces \cup {"crashed"}
            /\ main' \in {"stopping"} \cup StopPlaces => m_started,
         joined' \in Nat, joined' <= Len(m_loops), main' \in {"waking", "joining"} => joined' < Len(m_loops),
         main' \notin StopPlaces \cup {"crashed"} => joined' = 0,
         client' \in [Clients -> {"away", "waiting", "accepted", "refused"}],
         \A c \in Clients : client'[c] # "away" => client[c] # "away" \/ m_listenning
  PROVE  PoolInv'
  <1> USE DEF PoolInv, ThreadInv
  <1>1. Base' = Base
    BY DEF Base
  <1>2. Last' = Last
    BY <1>1 DEF Last
  <1>3. Flags'
    BY DEF Flags
  <1>4. PoolTypes'
    BY DEF PoolTypes
  <1>5. PoolShape'
    BY <1>1 DEF PoolShape
  <1>6. BeforeStart'
    BY DEF BeforeStart
  <1>7. Published' /\ NotYetMade'
    BY <1>2 DEF Published, NotYetMade
  <1>8. PoolRuns'
    BY <1>1, <1>2 DEF PoolRuns
  <1>9. Rounds'
    BY <1>1 DEF Rounds
  <1>10. QED BY <1>3, <1>4, <1>5, <1>6, <1>7, <1>8, <1>9

-----------------------------------------------------------------------------
(* The steps of an I/O thread.                                             *)

\* What a step of threadFunc and of EventLoop::loop may do to its thread.
LEMMA ThreadMoves ==
  ASSUME PoolInv, NEW t \in Threads, NEW s \in Stage \ {"none"},
         UNCHANGED <<m_started, starts, m_loops, m_next, given, joined, m_listenning, client>>,
         main' = main \/ (main = "waiting" /\ main' = "testing"),
         thread[t] # "none", thread' = [thread EXCEPT ![t] = s],
         t \in m_loop' <=> s \in {"ready", "test", "polling", "left"},
         \A k \in Threads : k # t => (k \in m_loop' <=> k \in m_loop),
         m_loop' \subseteq Threads,
         m_quit' \in [Threads -> BOOLEAN], \A k \in Threads : m_quit'[k] => m_quit[k],
         thread[t] \in {"made", "ready", "test", "polling"} /\ ~m_quit[t]
           => s \in {"ready", "test", "polling"}
  PROVE  PoolInv'
  <1> USE DEF PoolInv, ThreadInv
  <1>1. Base' = Base /\ Last' = Last
    BY DEF Base, Last
  <1>2. Flags'
    BY DEF Flags
  <1>3. PoolTypes'
    BY DEF PoolTypes, Place
  <1>4. \A k \in Threads : thread'[k] = IF k = t THEN s ELSE thread[k]
    BY DEF PoolTypes
  <1>5. PoolShape' /\ BeforeStart' /\ Rounds'
    BY <1>1 DEF PoolShape, BeforeStart, Rounds
  <1>6. Published'
    BY <1>4 DEF Published
  <1>7. NotYetMade'
    BY <1>1, <1>4 DEF NotYetMade
  <1>8. PoolRuns'
    BY <1>1, <1>4 DEF PoolRuns
  <1>9. QED BY <1>2, <1>3, <1>5, <1>6, <1>7, <1>8

\* The loop threads keep the pool running.
LEMMA PoolLoopStep ==
  ASSUME PoolInv, NEW t \in Threads, LoopStep(t)
  PROVE  PoolInv'
  <1> USE DEF poolVars
  <1>0. m_loop \subseteq Threads /\ Flags /\ Published
    BY DEF PoolInv, PoolTypes, ThreadInv
  <1>1. CASE Publish(t)
    <2>1. /\ UNCHANGED <<m_started, starts, m_loops, m_next, given, joined, m_listenning,
                         client, m_quit>>
          /\ main' = main \/ (main = "waiting" /\ main' = "testing")
          /\ thread[t] = "made" /\ thread' = [thread EXCEPT ![t] = "ready"]
          /\ m_loop' = m_loop \cup {t}
      BY <1>1 DEF Publish, notify_all
    <2>2. m_quit' \in [Threads -> BOOLEAN]
      BY <1>0, <2>1 DEF Flags
    <2>3. "ready" \in Stage \ {"none"}
      BY DEF Stage
    <2>4. QED BY <1>0, <2>1, <2>2, <2>3, ThreadMoves
  <1>2. CASE EnterLoop(t)
    <2>1. /\ UNCHANGED <<main, m_started, starts, m_loops, m_next, given, joined, m_listenning,
                         client, m_loop>>
          /\ thread[t] = "ready" /\ thread' = [thread EXCEPT ![t] = "test"]
          /\ m_quit' = [m_quit EXCEPT ![t] = FALSE]
      BY <1>2 DEF EnterLoop
    <2>2. m_quit' \in [Threads -> BOOLEAN] /\ \A k \in Threads : m_quit'[k] => m_quit[k]
      BY <1>0, <2>1 DEF Flags
    <2>3. "test" \in Stage \ {"none"}
      BY DEF Stage
    <2>4. t \in m_loop
      BY <1>0, <2>1 DEF Published
    <2>5. QED BY <1>0, <2>1, <2>2, <2>3, <2>4, ThreadMoves
  <1>3. CASE TestQuit(t)
    <2>1. /\ UNCHANGED <<main, m_started, starts, m_loops, m_next, given, joined, m_listenning,
                         client, m_loop, m_quit>>
          /\ thread[t] = "test"
      BY <1>3 DEF TestQuit
    <2>2. PICK s \in {"left", "polling"} :
            thread' = [thread EXCEPT ![t] = s] /\ (~m_quit[t] => s = "polling")
      BY <1>3 DEF TestQuit
    <2>3. m_quit' \in [Threads -> BOOLEAN]
      BY <1>0, <2>1 DEF Flags
    <2>4. s \in Stage \ {"none"}
      BY DEF Stage
    <2>5. t \in m_loop
      BY <1>0, <2>1 DEF Published
    <2>6. QED BY <1>0, <2>1, <2>2, <2>3, <2>4, <2>5, ThreadMoves
  <1>4. CASE DoOtherTasks(t)
    <2>1. /\ UNCHANGED <<main, m_started, starts, m_loops, m_next, given, joined, m_listenning,
                         client, m_loop, m_quit>>
          /\ thread[t] = "polling" /\ thread' = [thread EXCEPT ![t] = "test"]
      BY <1>4 DEF DoOtherTasks
    <2>2. m_quit' \in [Threads -> BOOLEAN]
      BY <1>0, <2>1 DEF Flags
    <2>3. "test" \in Stage \ {"none"}
      BY DEF Stage
    <2>4. t \in m_loop
      BY <1>0, <2>1 DEF Published
    <2>5. QED BY <1>0, <2>1, <2>2, <2>3, <2>4, ThreadMoves
  <1>5. CASE EndThread(t)
    <2>1. /\ UNCHANGED <<main, m_started, starts, m_loops, m_next, given, joined, m_listenning,
                         client, m_quit>>
          /\ thread[t] = "left" /\ thread' = [thread EXCEPT ![t] = "ended"]
          /\ m_loop' = m_loop \ {t}
      BY <1>5 DEF EndThread
    <2>2. m_quit' \in [Threads -> BOOLEAN]
      BY <1>0, <2>1 DEF Flags
    <2>3. "ended" \in Stage \ {"none"}
      BY DEF Stage
    <2>4. QED BY <1>0, <2>1, <2>2, <2>3, ThreadMoves
  <1>6. QED BY <1>1, <1>2, <1>3, <1>4, <1>5 DEF LoopStep

-----------------------------------------------------------------------------
(* TcpServer::start.                                                       *)

\* A new pool: all threads made so far have smaller numbers.
LEMMA PoolStart ==
  ASSUME PoolInv, StartServer
  PROVE  PoolInv'
  <1> USE DEF PoolInv, ThreadInv
  <1>1. /\ main = "poll" /\ ~m_started /\ starts < MaxStarts /\ main' = "starting"
        /\ starts' = starts + 1 /\ m_loops' = <<>> /\ m_next' = 0
        /\ UNCHANGED <<m_started, given, joined, m_listenning, client, thread, m_loop, m_quit>>
    BY DEF StartServer, threadVars
  <1>2. starts \in Nat /\ MaxStarts \in Nat /\ NumThreads \in Nat \ {0}
    BY ThreadsAssumption DEF PoolTypes
  <1>3. Base' = Base + NumThreads /\ Base \in Int /\ Len(m_loops') = 0 /\ DOMAIN m_loops' = {}
    BY <1>1, <1>2, BaseMoves
  <1>4. Last' = Base + NumThreads
    BY <1>1, <1>3 DEF Last
  <1>5. Last <= Last' /\ Base + Len(m_loops) <= Last'
    BY <1>1, <1>2, <1>3, <1>4 DEF Last, PoolShape
  <1>6. Flags'
    BY <1>1 DEF Flags
  <1>7. PoolTypes'
    BY <1>1, <1>2 DEF PoolTypes, Place
  <1>8. PoolShape'
    BY <1>1, <1>2, <1>3 DEF PoolShape
  <1>9. BeforeStart'
    BY <1>1, <1>2 DEF BeforeStart
  <1>10. Published'
    BY <1>1 DEF Published
  <1>11. NotYetMade'
    BY <1>1, <1>5, <1>4, <1>3, NumberTypes DEF NotYetMade
  <1>12. PoolRuns'
    BY <1>1, <1>3, <1>4, NumberTypes DEF PoolRuns
  <1>13. \A t \in Threads : t > Base' => given'[t] = 0
    BY <1>1, <1>3, <1>4, <1>5, NumberTypes DEF Rounds
  <1>14. Rounds'
    BY <1>1, <1>2, <1>3, <1>13, NumberTypes DEF Rounds
  <1>15. QED BY <1>6, <1>7, <1>8, <1>9, <1>10, <1>11, <1>12, <1>14

\* The next thread of the pool is made.
LEMMA PoolStartThread ==
  ASSUME PoolInv, StartThread
  PROVE  PoolInv'
  <1> USE DEF PoolInv, ThreadInv
  <1>1. /\ main = "starting" /\ Len(m_loops) < NumThreads /\ main' = "testing"
        /\ thread' = [thread EXCEPT ![Starting] = "made"]
        /\ UNCHANGED <<m_started, starts, m_loops, m_next, given, joined, m_listenning, client,
                       m_loop, m_quit>>
    BY DEF StartThread, poolVars
  <1>2. PICK new : new = Starting
    OBVIOUS
  <1>3. Base' = Base /\ Base \in Int /\ Len(m_loops) \in Nat /\ NumThreads \in Nat
    BY <1>1, NumberTypes, ThreadsAssumption DEF Base
  <1>4. Last = Base + Len(m_loops) /\ Last' = Last + 1 /\ new = Last + 1
    BY <1>1, <1>2, <1>3 DEF Last, Starting, Base
  <1>5. new \in Threads
    <2>1. starts \in 1..MaxStarts /\ Len(m_loops) + 1 \in 1..NumThreads
      BY <1>1, <1>3, ThreadsAssumption DEF PoolTypes, PoolShape
    <2>2. Base + (Len(m_loops) + 1) \in Threads
      BY <2>1, BaseThreads
    <2>3. QED BY <1>3, <1>4, <2>2
  <1>6. \A k \in Threads : thread'[k] = IF k = new THEN "made" ELSE thread[k]
    BY <1>1, <1>2 DEF PoolTypes
  <1>7. thread[new] = "none" /\ ~m_quit[new]
    BY <1>3, <1>4, <1>5 DEF NotYetMade
  <1>8. Flags'
    BY <1>1 DEF Flags
  <1>9. PoolTypes'
    BY <1>1 DEF PoolTypes, Place, Stage
  <1>10. PoolShape' /\ BeforeStart'
    BY <1>1, <1>3 DEF PoolShape, BeforeStart
  <1>11. Published'
    BY <1>1, <1>6, <1>7 DEF Published
  <1>12. NotYetMade'
    BY <1>1, <1>3, <1>4, <1>6, NumberTypes DEF NotYetMade
  <1>13. PoolRuns'
    BY <1>1, <1>3, <1>4, <1>6, <1>7, NumberTypes DEF PoolRuns
  <1>14. Rounds'
    BY <1>1, <1>3 DEF Rounds
  <1>15. QED BY <1>8, <1>9, <1>10, <1>11, <1>12, <1>13, <1>14

\* startLoop has seen the loop its thread published.
LEMMA PoolTestLoop ==
  ASSUME PoolInv, TestLoop, Starting \in m_loop
  PROVE  PoolInv'
  <1> USE DEF PoolInv, ThreadInv
  <1>1. /\ main = "testing" /\ Starting \in m_loop /\ main' = "starting"
        /\ m_loops' = Append(m_loops, Starting)
        /\ UNCHANGED <<m_started, starts, m_next, given, joined, m_listenning, client,
                       thread, m_loop, m_quit>>
    BY DEF TestLoop, threadVars
  <1>2. PICK new : new = Starting
    OBVIOUS
  <1>3. Base' = Base /\ Base \in Int /\ Len(m_loops) \in Nat /\ NumThreads \in Nat
    BY <1>1, NumberTypes, ThreadsAssumption DEF Base
  <1>4. Last = Base + Len(m_loops) + 1 /\ new = Last /\ new \in Threads
    BY <1>1, <1>2, <1>3 DEF Last, Starting, Base, PoolTypes
  <1>5. /\ Len(m_loops') = Len(m_loops) + 1 /\ m_loops' \in Seq(Threads)
        /\ DOMAIN m_loops' = 1..(Len(m_loops) + 1)
        /\ \A i \in 1..(Len(m_loops) + 1) : m_loops'[i] = IF i <= Len(m_loops) THEN m_loops[i] ELSE new
        /\ DOMAIN m_loops = 1..Len(m_loops)
    BY <1>1, <1>2, <1>4 DEF PoolTypes
  <1>6. Last' = Last
    BY <1>1, <1>3, <1>4, <1>5 DEF Last
  <1>7. thread[new] \in {"ready", "test", "polling", "left"}
    BY <1>1, <1>2, <1>4 DEF Published
  <1>8. Flags'
    BY <1>1 DEF Flags
  <1>9. PoolTypes'
    BY <1>1, <1>5 DEF PoolTypes, Place
  <1>10. PoolShape'
    BY SMTT(40), <1>1, <1>3, <1>4, <1>5 DEF PoolShape
  <1>11. BeforeStart' /\ Published'
    BY <1>1 DEF BeforeStart, Published
  <1>12. NotYetMade'
    BY <1>1, <1>6 DEF NotYetMade
  <1>13. PoolRuns'
    BY <1>1, <1>3, <1>4, <1>5, <1>6, <1>7, NumberTypes DEF PoolRuns
  <1>14. Rounds'
    <2>1. m_next' < NumThreads /\ m_next' = 0
      BY <1>1 DEF Rounds
    <2>2. \A t \in Threads : t > Base => given[t] = 0
      BY <1>1 DEF Rounds
    <2>3. \A t \in Threads : t > Base' + Len(m_loops') => given'[t] = 0
      BY <1>1, <1>3, <1>5, <2>2, NumberTypes
    <2>4. \A i \in DOMAIN m_loops' : given'[m_loops'[i]] = 0
      <3> TAKE i \in DOMAIN m_loops'
      <3>1. i \in 1..(Len(m_loops) + 1) /\ m_loops'[i] \in Threads
        BY <1>5
      <3>2. m_loops'[i] = Base + i
        BY <1>3, <1>10 DEF PoolShape
      <3>3. m_loops'[i] > Base
        BY <1>3, <3>1, <3>2
      <3>4. QED BY <1>1, <2>2, <3>1, <3>3
    <2>5. QED BY <1>1, <1>3, <1>5, <2>1, <2>2, <2>3, <2>4 DEF Rounds
  <1>15. QED BY <1>8, <1>9, <1>10, <1>11, <1>12, <1>13, <1>14

\* All threads are there: the server listens.
LEMMA PoolListen ==
  ASSUME PoolInv, Listen
  PROVE  PoolInv'
  <1> USE DEF PoolInv, ThreadInv
  <1>1. /\ main = "starting" /\ Len(m_loops) = NumThreads /\ main' = "poll"
        /\ m_started' = TRUE /\ m_listenning' = TRUE
        /\ UNCHANGED <<starts, m_loops, m_next, given, joined, client, thread, m_loop, m_quit>>
    BY DEF Listen, threadVars
  <1>2. Base' = Base /\ Last' = Last
    BY <1>1 DEF Base, Last
  <1>3. Flags'
    BY <1>1 DEF Flags
  <1>4. PoolTypes'
    BY <1>1 DEF PoolTypes, Place
  <1>5. PoolShape'
    BY <1>1, <1>2 DEF PoolShape, PoolTypes
  <1>6. BeforeStart'
    BY <1>1 DEF BeforeStart, PoolShape
  <1>7. Published' /\ NotYetMade'
    BY <1>1, <1>2 DEF Published, NotYetMade
  <1>8. PoolRuns'
    BY <1>1, <1>2 DEF PoolRuns
  <1>9. Rounds'
    BY <1>1, <1>2 DEF Rounds
  <1>10. QED BY <1>3, <1>4, <1>5, <1>6, <1>7, <1>8, <1>9

-----------------------------------------------------------------------------
(* Accepting and stopping.                                                 *)

\* getNextLoop gives the connection to the loop whose turn it is.
LEMMA PoolAccept ==
  ASSUME PoolInv, NEW c \in Clients, Accept(c)
  PROVE  PoolInv'
  <1> USE DEF PoolInv, ThreadInv
  <1>1. PICK t : t = m_loops[m_next + 1]
    OBVIOUS
  <1>2. /\ main = "poll" /\ client[c] = "waiting" /\ main' \in {"crashed", main}
        /\ m_next' = NextIndex /\ given' = [given EXCEPT ![t] = @ + 1]
        /\ client' = [client EXCEPT ![c] = "accepted"]
        /\ UNCHANGED <<m_started, starts, m_loops, joined, m_listenning, thread, m_loop, m_quit>>
    BY <1>1 DEF Accept, newConnection, threadVars
  <1>3. starts >= 1 /\ Len(m_loops) = NumThreads /\ NumThreads \in Nat \ {0} /\ m_listenning
    BY <1>2, ThreadsAssumption DEF BeforeStart, PoolShape
  <1>4. Base' = Base /\ Last' = Last /\ Base \in Int
    BY <1>2, NumberTypes DEF Base, Last
  <1>5. m_next \in Nat /\ m_next + 1 \in DOMAIN m_loops /\ DOMAIN m_loops = 1..NumThreads
    BY <1>3 DEF PoolTypes, Rounds
  <1>6. t = Base + (m_next + 1) /\ t \in Threads
    <2>1. \A i \in DOMAIN m_loops : m_loops[i] \in Threads
      BY DEF PoolTypes
    <2>2. QED BY <1>1, <1>5, <2>1 DEF PoolShape
  <1>7. \A i \in DOMAIN m_loops : m_loops[i] \in Threads /\ given[m_loops[i]] \in Nat
    BY DEF PoolTypes
  <1>8. \A k \in Threads : given'[k] = IF k = t THEN given[k] + 1 ELSE given[k]
    BY <1>2 DEF PoolTypes
  <1>9. Flags'
    BY <1>2 DEF Flags
  <1>10. m_next' \in Nat /\ m_next' < NumThreads
    BY <1>2, <1>3, <1>5 DEF NextIndex
  <1>11. PoolTypes'
    BY <1>2, <1>6, <1>10 DEF PoolTypes, Place
  <1>12. PoolShape'
    BY <1>2, <1>3, <1>4 DEF PoolShape
  <1>13. BeforeStart'
    BY <1>2, <1>3 DEF BeforeStart
  <1>14. Published' /\ NotYetMade'
    BY <1>2, <1>4 DEF Published, NotYetMade
  <1>15. PoolRuns'
    BY <1>2, <1>4 DEF PoolRuns
  <1>16. Rounds'
    <2>1. \A i \in DOMAIN m_loops :
             given'[m_loops[i]] = given[m_loops[i]] + (IF i = m_next + 1 THEN 1 ELSE 0)
      <3> TAKE i \in DOMAIN m_loops
      <3>1. m_loops[i] = Base + i /\ i \in Nat
        BY <1>5 DEF PoolShape
      <3>2. m_loops[i] = t <=> i = m_next + 1
        BY <1>4, <1>5, <1>6, <3>1
      <3>3. QED BY <1>7, <1>8, <3>2
    <2>2. ASSUME NEW i \in DOMAIN m_loops, NEW j \in DOMAIN m_loops
          PROVE  given'[m_loops[i]] + (IF j <= m_next' THEN 1 ELSE 0)
                   = given'[m_loops[j]] + (IF i <= m_next' THEN 1 ELSE 0)
      <3>1. given[m_loops[i]] + (IF j <= m_next THEN 1 ELSE 0)
              = given[m_loops[j]] + (IF i <= m_next THEN 1 ELSE 0)
        BY DEF Rounds
      <3>2. /\ i \in 1..NumThreads /\ j \in 1..NumThreads
            /\ given[m_loops[i]] \in Nat /\ given[m_loops[j]] \in Nat
        BY <1>5, <1>7
      <3>3. \/ m_next' = m_next + 1
            \/ m_next' = 0 /\ m_next + 1 = NumThreads
        BY <1>2, <1>3, <1>5 DEF NextIndex
      <3>4. QED BY <1>5, <2>1, <3>1, <3>2, <3>3
    <2>3. \A k \in Threads : k > Base + Len(m_loops) => k # t
      BY <1>3, <1>4, <1>5, <1>6, NumberTypes
    <2>4. \A k \in Threads : k > Base' + Len(m_loops)' => given'[k] = 0
      BY <1>2, <1>4, <1>8, <2>3 DEF Rounds
    <2>5. QED BY <1>2, <1>10, <2>2, <2>4 DEF Rounds
  <1>17. QED BY <1>9, <1>11, <1>12, <1>13, <1>14, <1>15, <1>16

\* stop tells the next thread to quit.
LEMMA PoolQuit ==
  ASSUME PoolInv, QuitThread
  PROVE  PoolInv'
  <1> USE DEF PoolInv, ThreadInv
  <1>1. /\ main = "quitting" /\ joined < Len(m_loops) /\ main' \in {"waking", "joining"}
        /\ UNCHANGED <<m_started, starts, m_loops, m_next, given, joined, m_listenning, client,
                       thread, m_loop>>
    BY DEF QuitThread, poolVars
  <1>2. PICK t : t = Stopping
    OBVIOUS
  <1>3. m_quit' = [m_quit EXCEPT ![t] = @ \/ t \in m_loop]
    BY <1>2 DEF QuitThread, quit
  <1>4. Base' = Base /\ Last' = Last
    BY <1>1 DEF Base, Last
  <1>5. t \in Threads /\ t <= Last
    <2>1. joined + 1 \in DOMAIN m_loops
      BY <1>1 DEF PoolTypes
    <2>2. t \in Threads /\ t = Base + (joined + 1)
      BY <1>2, <2>1 DEF PoolTypes, PoolShape, Stopping
    <2>3. QED BY <1>1, <2>1, <2>2, NumberTypes DEF Last, PoolTypes
  <1>6. \A k \in Threads : k # t => m_quit'[k] = m_quit[k]
    BY <1>3 DEF Flags
  <1>7. Flags'
    BY <1>1, <1>3 DEF Flags
  <1>8. PoolTypes'
    BY <1>1 DEF PoolTypes, Place
  <1>9. PoolShape' /\ BeforeStart'
    BY <1>1, <1>4 DEF PoolShape, BeforeStart
  <1>10. Published'
    BY <1>1 DEF Published
  <1>11. NotYetMade'
    BY <1>1, <1>4, <1>5, <1>6, NumberTypes DEF NotYetMade
  <1>12. PoolRuns'
    BY <1>1 DEF PoolRuns
  <1>13. Rounds'
    BY <1>1, <1>4 DEF Rounds
  <1>14. QED BY <1>7, <1>8, <1>9, <1>10, <1>11, <1>12, <1>13

\* stop returns.
LEMMA PoolStopped ==
  ASSUME PoolInv, Stopped
  PROVE  PoolInv'
  <1> USE DEF PoolInv, ThreadInv
  <1>1. /\ main = "quitting" /\ main' = "poll" /\ m_started' = FALSE /\ joined' = 0
        /\ UNCHANGED <<starts, m_loops, m_next, given, m_listenning, client, thread, m_loop, m_quit>>
    BY DEF Stopped, threadVars
  <1>2. Base' = Base /\ Last' = Last
    BY <1>1 DEF Base, Last
  <1>3. Flags'
    BY <1>1 DEF Flags
  <1>4. PoolTypes'
    BY <1>1 DEF PoolTypes, Place
  <1>5. PoolShape'
    BY <1>1, <1>2, NumberTypes DEF PoolShape
  <1>6. BeforeStart'
    BY <1>1 DEF BeforeStart
  <1>7. Published' /\ NotYetMade'
    BY <1>1, <1>2 DEF Published, NotYetMade
  <1>8. PoolRuns'
    BY <1>1 DEF PoolRuns
  <1>9. Rounds'
    BY <1>1, <1>2 DEF Rounds
  <1>10. QED BY <1>3, <1>4, <1>5, <1>6, <1>7, <1>8, <1>9

\* The steps that leave the pool alone.
LEMMA PoolOther ==
  ASSUME PoolInv,
         \/ OtherOpens \/ OtherCloses
         \/ \E c \in Clients : ClientConnects(c) \/ Full(c) \/ StopConnection(c)
         \/ AcceptSpare \/ CloseSpare \/ OpenSpare \/ RemoveConnection
         \/ StopServer \/ StopThreads \/ WakeUp \/ JoinThread
         \/ SpuriousWakeup \/ (TestLoop /\ Starting \notin m_loop)
         \/ \E t \in Threads, c \in Clients : HandleClose(t, c)
  PROVE  PoolInv'
  <1> USE DEF poolVars, threadVars
  <1>1. /\ BeforeStart /\ PoolShape /\ PoolTypes
        /\ client \in [Clients -> {"away", "waiting", "accepted", "refused"}]
        /\ joined \in Nat /\ main \in Place /\ Len(m_loops) \in Nat
    BY DEF PoolInv, ThreadInv, PoolTypes
  <1>2. ASSUME UNCHANGED <<m_started, starts, m_loops, m_next, given, m_listenning, thread,
                           m_loop, m_quit, main, joined>>,
               client' \in [Clients -> {"away", "waiting", "accepted", "refused"}],
               \A c \in Clients : client'[c] # "away" => client[c] # "away" \/ m_listenning
        PROVE  PoolInv'
    BY <1>1, <1>2, PoolFrame DEF PoolShape
  <1>3. CASE OtherOpens \/ OtherCloses
    BY <1>1, <1>2, <1>3 DEF OtherOpens, OtherCloses
  <1>4. ASSUME NEW c \in Clients, ClientConnects(c) PROVE PoolInv'
    BY <1>1, <1>2, <1>4 DEF ClientConnects
  <1>5. ASSUME NEW t \in Threads, NEW c \in Clients, HandleClose(t, c) PROVE PoolInv'
    BY <1>1, <1>2, <1>5 DEF HandleClose
  <1>6. ASSUME UNCHANGED <<m_started, starts, m_loops, m_next, given, m_listenning, thread,
                           m_loop, m_quit, joined>>,
               client' \in [Clients -> {"away", "waiting", "accepted", "refused"}],
               \A c \in Clients : client'[c] # "away" => client[c] # "away",
               main \in {"poll", "full", "refusing", "reopening"},
               main' \in {"poll", "full", "refusing", "reopening", "crashed"},
               main = "poll" => starts >= 1
        PROVE  PoolInv'
    <2>1. starts >= 1
      BY <1>1, <1>6 DEF PoolShape, PoolTypes
    <2>2. joined' \in Nat /\ joined' <= Len(m_loops) /\ joined' = 0 /\ main' \in Place
      BY <1>1, <1>6 DEF PoolShape, Place
    <2>3. QED BY <1>6, <2>1, <2>2, PoolFrame
  <1>7. ASSUME NEW c \in Clients, Full(c) PROVE PoolInv'
    <2>1. m_listenning
      BY <1>1, <1>7 DEF Full, BeforeStart
    <2>2. starts >= 1
      BY <1>1, <2>1 DEF BeforeStart
    <2>3. QED BY <1>1, <1>6, <1>7, <2>2 DEF Full
  <1>8. CASE AcceptSpare
    <2>1. /\ client' \in [Clients -> {"away", "waiting", "accepted", "refused"}]
          /\ \A c \in Clients : client'[c] # "away" => client[c] # "away"
      <3>1. \/ UNCHANGED client
            \/ \E c \in Clients : client[c] = "waiting" /\ client' = [client EXCEPT ![c] = "refused"]
        BY <1>8 DEF AcceptSpare
      <3>2. QED BY <1>1, <3>1
    <2>2. /\ main = "full" /\ main' = "refusing"
          /\ UNCHANGED <<m_started, starts, m_loops, m_next, given, m_listenning, thread,
                         m_loop, m_quit, joined>>
      BY <1>8 DEF AcceptSpare
    <2>3. QED BY <1>6, <2>1, <2>2
  <1>9. CASE CloseSpare \/ OpenSpare
    BY <1>1, <1>6, <1>9 DEF CloseSpare, OpenSpare
  <1>10. CASE RemoveConnection
    <2>1. /\ main = "poll" /\ main' \in {"poll", "crashed"}
          /\ UNCHANGED <<m_started, starts, m_loops, m_next, given, m_listenning, thread,
                         m_loop, m_quit, joined, client>>
      BY <1>10 DEF RemoveConnection
    <2>2. CASE main' = main
      BY <1>1, <1>2, <2>1, <2>2
    <2>3. CASE main' = "crashed"
      <3>1. joined = 0 /\ joined <= Len(m_loops)
        BY <1>1, <2>1 DEF PoolShape
      <3>2. QED BY <1>1, <2>1, <2>3, <3>1, PoolFrame DEF Place
    <2>4. QED BY <2>1, <2>2, <2>3
  <1>11. CASE StopServer
    <2>1. /\ main = "poll" /\ main' = "stopping" /\ m_started /\ joined' = 0
          /\ UNCHANGED <<m_started, starts, m_loops, m_next, given, m_listenning, thread,
                         m_loop, m_quit, client>>
      BY <1>11 DEF StopServer
    <2>2. starts >= 1
      BY <1>1, <2>1 DEF BeforeStart
    <2>3. QED BY <1>1, <2>1, <2>2, PoolFrame DEF Place
  <1>12. ASSUME NEW c \in Clients, StopConnection(c) PROVE PoolInv'
    <2>1. /\ main = "stopping" /\ main' \in {"stopping", "crashed"}
          /\ UNCHANGED <<m_started, starts, m_loops, m_next, given, m_listenning, thread,
                         m_loop, m_quit, client, joined>>
      BY <1>12 DEF StopConnection
    <2>2. m_started /\ starts >= 1 /\ joined = 0
      BY <1>1, <2>1 DEF BeforeStart, PoolShape
    <2>3. QED BY <1>1, <2>1, <2>2, PoolFrame DEF Place
  <1>13. CASE StopThreads
    <2>1. /\ main = "stopping" /\ main' = "quitting"
          /\ UNCHANGED <<m_started, starts, m_loops, m_next, given, m_listenning, thread,
                         m_loop, m_quit, client, joined>>
      BY <1>13 DEF StopThreads
    <2>2. m_started /\ starts >= 1 /\ joined <= Len(m_loops)
      BY <1>1, <2>1 DEF BeforeStart, PoolShape
    <2>3. QED BY <1>1, <2>1, <2>2, PoolFrame DEF Place
  <1>14. CASE JoinThread
    <2>1. /\ main = "joining" /\ main' = "quitting" /\ joined' = joined + 1
          /\ UNCHANGED <<m_started, starts, m_loops, m_next, given, m_listenning, thread,
                         m_loop, m_quit, client>>
      BY <1>14 DEF JoinThread
    <2>2. m_started /\ starts >= 1 /\ joined' \in Nat /\ joined' <= Len(m_loops)
      BY <1>1, <2>1 DEF BeforeStart, PoolShape
    <2>3. QED BY <1>1, <2>1, <2>2, PoolFrame DEF Place
  <1>15. CASE WakeUp
    <2>1. /\ main = "waking" /\ main' \in {"joining", "crashed"}
          /\ UNCHANGED <<m_started, starts, m_loops, m_next, given, m_listenning, thread,
                         m_loop, m_quit, client, joined>>
      BY <1>15 DEF WakeUp
    <2>2. m_started /\ starts >= 1 /\ joined < Len(m_loops)
      BY <1>1, <2>1 DEF BeforeStart, PoolShape
    <2>3. joined' \in Nat /\ joined' <= Len(m_loops) /\ joined' < Len(m_loops)
      BY <1>1, <2>1, <2>2
    <2>4. QED BY <1>1, <2>1, <2>2, <2>3, PoolFrame DEF Place
  <1>16. CASE SpuriousWakeup \/ (TestLoop /\ Starting \notin m_loop)
    <2>1. /\ \/ main = "waiting" /\ main' = "testing"
             \/ main = "testing" /\ main' = "waiting"
          /\ UNCHANGED <<m_started, starts, m_loops, m_next, given, m_listenning, thread,
                         m_loop, m_quit, client, joined>>
      BY <1>16 DEF SpuriousWakeup, TestLoop
    <2>2. joined = 0 /\ joined' = 0 /\ joined' <= Len(m_loops)
      BY <1>1, <2>1 DEF PoolShape
    <2>3. QED BY <1>1, <2>1, <2>2, PoolFrame DEF Place
  <1>17. QED BY <1>3, <1>4, <1>5, <1>7, <1>8, <1>9, <1>10, <1>11, <1>12, <1>13, <1>14, <1>15,
                <1>16

\* The initial state.
LEMMA PoolInit == Init => PoolInv
  <1> SUFFICES ASSUME Init PROVE PoolInv
    OBVIOUS
  <1>1. NumThreads \in Nat \ {0} /\ MaxStarts \in Nat
    BY ThreadsAssumption
  <1>2. Flags
    BY DEF Flags, Init
  <1>3. PoolTypes
    BY <1>1 DEF PoolTypes, Init, Place, Stage
  <1>4. PoolShape /\ BeforeStart
    BY <1>1 DEF PoolShape, BeforeStart, Init
  <1>5. Published /\ NotYetMade
    BY DEF Published, NotYetMade, Init
  <1>6. PoolRuns
    BY DEF PoolRuns, Init
  <1>7. Rounds
    BY <1>1 DEF Rounds, Init
  <1>8. QED BY <1>2, <1>3, <1>4, <1>5, <1>6, <1>7 DEF PoolInv, ThreadInv

\* Every step keeps the invariant.
LEMMA PoolStep == PoolInv /\ [Next]_vars => PoolInv'
  <1> SUFFICES ASSUME PoolInv, [Next]_vars PROVE PoolInv'
    OBVIOUS
  <1>1. CASE UNCHANGED vars
    <2>1. /\ PoolShape /\ client \in [Clients -> {"away", "waiting", "accepted", "refused"}]
          /\ joined \in Nat /\ main \in Place
      BY DEF PoolInv, ThreadInv, PoolTypes
    <2>2. UNCHANGED <<m_started, starts, m_loops, m_next, given, m_listenning, thread, m_loop,
                      m_quit, main, joined, client>>
      BY <1>1 DEF vars, poolVars, threadVars
    <2>3. QED BY <2>1, <2>2, PoolFrame DEF PoolShape
  <1>2. CASE MainStep
    BY <1>2, PoolStartThread, PoolTestLoop, PoolListen, PoolAccept, PoolOther, PoolQuit,
       PoolStopped DEF MainStep
  <1>3. QED BY <1>1, <1>2, PoolStart, PoolLoopStep, PoolOther DEF Next

\* The invariant gives the two properties.
LEMMA PoolGives == PoolInv => LoopsAlive /\ Balanced
  <1> SUFFICES ASSUME PoolInv PROVE LoopsAlive /\ Balanced
    OBVIOUS
  <1>1. /\ PoolShape /\ BeforeStart /\ Published /\ PoolRuns /\ Rounds /\ PoolTypes
        /\ Base \in Int /\ Len(m_loops) \in Nat
    BY NumberTypes DEF PoolInv, ThreadInv
  <1>2. \A i \in DOMAIN m_loops : m_loops[i] \in Threads /\ given[m_loops[i]] \in Nat
    BY <1>1 DEF PoolTypes
  <1>3. \A i \in DOMAIN m_loops :
          m_loops[i] > Base /\ m_loops[i] <= Base + Len(m_loops) /\ m_loops[i] <= Last
    <2> TAKE i \in DOMAIN m_loops
    <2>1. i \in 1..Len(m_loops)
      BY <1>1 DEF PoolTypes
    <2>2. m_loops[i] = Base + i
      BY <1>1 DEF PoolShape
    <2>3. QED BY <1>1, <2>1, <2>2 DEF Last
  <1>4. ASSUME m_started, main \notin (StopPlaces \cup {"crashed"})
        PROVE  /\ Len(m_loops) = NumThreads
               /\ \A i \in DOMAIN m_loops :
                    m_loops[i] \in m_loop /\ thread[m_loops[i]] \in {"ready", "test", "polling"}
    <2>1. Len(m_loops) = NumThreads
      BY <1>1, <1>4 DEF PoolShape, BeforeStart
    <2>2. \A i \in DOMAIN m_loops : thread[m_loops[i]] \in {"ready", "test", "polling"}
      BY <1>1, <1>2, <1>3, <1>4 DEF PoolRuns
    <2>3. QED BY <1>1, <1>2, <2>1, <2>2 DEF Published
  <1>5. ASSUME NEW i \in DOMAIN m_loops, NEW j \in DOMAIN m_loops
        PROVE  given[m_loops[i]] <= given[m_loops[j]] + 1
    <2>1. given[m_loops[i]] + (IF j <= m_next THEN 1 ELSE 0)
            = given[m_loops[j]] + (IF i <= m_next THEN 1 ELSE 0)
      BY <1>1 DEF Rounds
    <2>2. given[m_loops[i]] \in Nat /\ given[m_loops[j]] \in Nat
      BY <1>2
    <2>3. QED BY <2>1, <2>2
  <1>6. QED BY <1>4, <1>5 DEF LoopsAlive, Balanced

\* From the end of start to the first quit of stop, every loop of the pool is
\* there and not leaving.
THEOREM PoolLoopsAlive == Spec => []LoopsAlive
  BY PoolInit, PoolStep, PoolGives, PTL DEF Spec

\* The loops of a pool never differ by more than one connection.
THEOREM PoolBalanced == Spec => []Balanced
  BY PoolInit, PoolStep, PoolGives, PTL DEF Spec
==============================================================================
