-------------------------- MODULE TimerQueueProofs --------------------------
(***************************************************************************)
(* Proofs about TimerQueue: no timer runs ahead of its schedule, timers    *)
(* that run once run in the order of their due times, a queued removal is  *)
(* final, and no timer waits longer than the intervals in front of it      *)
(* together, for any number of timers, delays, intervals and calls.        *)
(***************************************************************************)
EXTENDS TimerQueue, SequenceTheorems, FiniteSetTheorems, WellFoundedInduction, TLAPS

-----------------------------------------------------------------------------
(* The inductive invariant.                                                *)

\* The Timer objects.
Records == Made \subseteq Timers /\ timer \in [Made -> Timer]

Types ==
  /\ clock \in Nat /\ now \in Nat /\ now <= clock
  /\ m_timers \subseteq (Nat \X Made)
  /\ m_pendingFunctors \in Seq(Tasks) /\ functors \in Seq(Tasks)
  /\ ran \in [Timers -> Nat] /\ \A t \in Timers \ Made : ran[t] = 0
  /\ seen \subseteq (Nat \X Made)
  /\ removed \subseteq Made

\* An entry is filed under the first due time of its timer, for good.
Filed == \A e \in m_timers : e[1] = timer[e[2]].when

\* doTimer's iterator.  Outside the callbacks nothing can take its entry away.
Iterator ==
  /\ phase = "callback" => iter # End
  /\ phase \in {"timers", "callback"} /\ iter # End =>
       iter \in (Nat \X Made) /\ iter[1] = timer[iter[2]].when
  /\ phase = "timers" /\ iter # End => iter \in m_timers

\* The tasks on their way, in the order in which they will run.
Chain == functors \o m_pendingFunctors

\* A timer whose insertion is on its way has not run, has not been removed by
\* an earlier task, and the insertion is the first of its tasks.
Waiting(t) ==
  /\ ~Present(t) /\ t \notin removed /\ (phase = "callback" => iter[2] # t)
  /\ ran[t] = 0 /\ timer[t].expiration = timer[t].when
  /\ timer[t].asked = 1 /\ timer[t].moved => timer[t].m_repeatCount = 1

QueuedIn(q) ==
  \A i \in 1..Len(q) :
     /\ q[i].t \in Made
     /\ q[i].op = "add" => Waiting(q[i].t) /\ \A j \in 1..(i - 1) : q[j].t # q[i].t

\* doOtherTasks runs all it has swapped out before the loop goes on.
Queued ==
  /\ phase # "tasks" => functors = <<>>
  /\ QueuedIn(Chain)

\* The callback of t is running.
InRun(t) == phase = "callback" /\ iter[2] = t

\* A timer made by the moving overload of runAt or runAfter: one run.
Once(t) == timer[t].asked = 1 /\ timer[t].moved

OneRun ==
  \A t \in Made : Once(t) =>
     /\ timer[t].m_repeatCount \in {0, 1}
     /\ ran[t] <= 1
     /\ InRun(t) => timer[t].m_repeatCount = 1
     /\ ~InRun(t) /\ timer[t].m_repeatCount = 1 => ran[t] = 0
     /\ Present(t) => timer[t].m_repeatCount = 1

\* A repeated timer is due again an interval after the run before.
Schedule ==
  \A t \in Made :
     /\ timer[t].when <= timer[t].expiration
     /\ ran[t] > 0 => timer[t].when <= clock
     /\ timer[t].interval > 0 =>
          /\ timer[t].m_repeatCount = -1
          /\ timer[t].when + (ran[t] - 1) * timer[t].interval <= clock
          /\ timer[t].expiration
               = timer[t].when + (IF InRun(t) THEN ran[t] - 1 ELSE ran[t]) * timer[t].interval

\* The pass is not yet beyond an entry that was there when it began and is to
\* run once.
NotPassed ==
  phase \in {"timers", "callback"} =>
    \A e \in seen \cap m_timers :
       /\ ~timer[e[2]].m_canceled
       /\ Once(e[2]) /\ iter # End => ~Before(e, iter)

TimerInv ==
  /\ Records /\ Types /\ Filed /\ Iterator /\ Queued /\ RemovedStaysOut
  /\ OneRun /\ Schedule /\ NotPassed

-----------------------------------------------------------------------------
(* The order of m_timers.                                                  *)

\* A non-empty set of natural numbers has a least element.
LEMMA LeastNat ==
  ASSUME NEW T \in SUBSET Nat, T # {}
  PROVE  \E x \in T : \A y \in T : x <= y
  <1>1. PICK R : R = OpToRel(<, Nat)
    OBVIOUS
  <1>2. IsWellFoundedOn(R, Nat)
    BY <1>1, NatLessThanWellFounded
  <1>3. PICK x \in T : \A y \in T : ~(<<y, x>> \in R)
    BY <1>2, WFMin
  <1>4. \A y \in T : y < x => <<y, x>> \in R
    BY <1>1 DEF OpToRel
  <1>5. ASSUME NEW y \in T
        PROVE  x <= y
    <2>1. x \in Nat /\ y \in Nat
      OBVIOUS
    <2>2. ~(y < x)
      BY <1>3, <1>4
    <2>3. QED
      BY <2>1, <2>2
  <1>6. QED
    BY <1>5

\* begin() of a non-empty set of entries is an entry, before all others.
LEMMA FirstIsLeast ==
  ASSUME NEW S \in SUBSET (Nat \X Nat), S # {}
  PROVE  First(S) \in S /\ \A x \in S \ {First(S)} : Before(First(S), x)
  <1> DEFINE W == {e[1] : e \in S}
  <1>1. W \in SUBSET Nat /\ W # {}
    OBVIOUS
  <1>2. PICK w \in W : \A y \in W : w <= y
    BY <1>1, LeastNat
  <1> DEFINE A == {e[2] : e \in {x \in S : x[1] = w}}
  <1>3. A \in SUBSET Nat /\ A # {}
    BY <1>2
  <1>4. PICK a \in A : \A y \in A : a <= y
    BY <1>3, LeastNat
  <1>5. PICK e \in S : e[1] = w /\ e[2] = a
    BY <1>4
  <1>6. ASSUME NEW x \in S \ {e}
        PROVE  Before(e, x)
    <2>1. x[1] \in Nat /\ x[2] \in Nat /\ e[1] \in Nat /\ e[2] \in Nat
      OBVIOUS
    <2>2. e[1] <= x[1]
      BY <1>2, <1>5
    <2>3. x[1] = w => e[2] <= x[2]
      BY <1>4, <1>5
    <2>4. x = <<x[1], x[2]>> /\ e = <<e[1], e[2]>>
      OBVIOUS
    <2>5. x[1] # e[1] \/ x[2] # e[2]
      BY <2>4
    <2>6. QED
      BY <1>5, <2>1, <2>2, <2>3, <2>5 DEF Before
  <1>7. \E e1 \in S : \A x \in S \ {e1} : Before(e1, x)
    BY <1>6
  <1>8. QED
    BY <1>7 DEF First

\* ++iter: an entry behind the present one, with nothing in between.
LEMMA AfterIsNext ==
  ASSUME NEW S \in SUBSET (Nat \X Nat), NEW e \in Nat \X Nat, After(S, e) # End
  PROVE  /\ After(S, e) \in S /\ Before(e, After(S, e)) /\ After(S, e) # e
         /\ \A x \in S : Before(e, x) => ~Before(x, After(S, e))
  <1> DEFINE B == {x \in S : Before(e, x)}
  <1>1. After(S, e) = First(B)
    BY DEF After
  <1>2. B # {} /\ B \in SUBSET (Nat \X Nat)
    BY <1>1 DEF First
  <1>3. First(B) \in B /\ \A x \in B \ {First(B)} : Before(First(B), x)
    BY <1>2, FirstIsLeast
  <1> HIDE DEF B
  <1>4. PICK f : f = First(B)
    OBVIOUS
  <1>5. f \in S /\ Before(e, f) /\ f \in Nat \X Nat
    BY <1>3, <1>4 DEF B
  <1>6. ~Before(e, e)
    BY DEF Before
  <1>7. ASSUME NEW x \in S, Before(e, x)
        PROVE  ~Before(x, f)
    <2>1. x = f \/ Before(f, x)
      BY <1>3, <1>4, <1>7 DEF B
    <2>2. x \in Nat \X Nat
      OBVIOUS
    <2>3. QED
      BY <1>5, <2>1, <2>2 DEF Before
  <1>8. QED
    BY <1>1, <1>4, <1>5, <1>6, <1>7

-----------------------------------------------------------------------------
(* Timer objects and tasks.                                                *)

\* The fields that are not Boolean.
Fields ==
  \A t \in Made :
     /\ timer[t].expiration \in Nat /\ timer[t].interval \in Nat
     /\ timer[t].m_repeatCount \in {-1, 0, 1} /\ timer[t].when \in Nat
     /\ timer[t].asked \in {-1, 1}

\* Nothing but the cancelled flags changes.
SameTimers ==
  /\ Made' = Made
  /\ \A t \in Made :
       /\ timer'[t].expiration = timer[t].expiration
       /\ timer'[t].interval = timer[t].interval
       /\ timer'[t].m_repeatCount = timer[t].m_repeatCount
       /\ timer'[t].when = timer[t].when
       /\ timer'[t].asked = timer[t].asked
       /\ timer'[t].moved = timer[t].moved

\* The fields of a typed timer have their types.
LEMMA FieldTypes == Records => Fields
  <1> SUFFICES ASSUME Records, NEW t \in Made
               PROVE  /\ timer[t].expiration \in Nat /\ timer[t].interval \in Nat
                      /\ timer[t].m_repeatCount \in {-1, 0, 1} /\ timer[t].when \in Nat
                      /\ timer[t].asked \in {-1, 1}
    BY DEF Fields
  <1>1. timer[t] \in Timer
    BY DEF Records
  <1>2. /\ timer[t].expiration \in Nat /\ timer[t].interval \in {0} \cup Intervals
        /\ timer[t].m_repeatCount \in {-1, 0, 1} /\ timer[t].when \in Nat
        /\ timer[t].asked \in {-1, 1}
    BY <1>1, Zenon DEF Timer
  <1>3. timer[t].interval \in Nat
    <2>1. PICK i : i = timer[t].interval
      OBVIOUS
    <2>2. i \in {0} \cup Intervals
      BY <1>2, <2>1
    <2>3. i \in Nat
      BY <2>2, IntervalsAssumption
    <2>4. QED
      BY <2>1, <2>3
  <1>4. QED
    BY <1>2, <1>3

\* The tasks a thread can queue, and their fields.
LEMMA TaskTypes ==
  /\ \A t \in Timers : [op |-> "add", t |-> t] \in Tasks
  /\ \A t \in Timers : [op |-> "remove", t |-> t] \in Tasks
  /\ \A t \in Timers, off \in BOOLEAN : [op |-> "cancel", t |-> t, off |-> off] \in Tasks
  /\ \A k \in Tasks : k.t \in Timers /\ (k.op = "cancel" => k.off \in BOOLEAN)
  BY DEF Tasks

\* What runAt and runEvery make.
LEMMA NewTimerTypes ==
  ASSUME clock \in Nat
  PROVE  \A new \in NewTimers :
           /\ new \in Timer
           /\ new.expiration = new.when /\ new.when \in Nat
           /\ new.asked = 1 /\ new.moved => new.m_repeatCount = 1 /\ new.interval = 0
           /\ new.interval > 0 => new.m_repeatCount = -1 /\ new.when <= clock + new.interval
  <1>1. ASSUME NEW d \in Delays, NEW m \in BOOLEAN
        PROVE  LET new == runAt(clock + d, m) IN
               /\ new \in Timer
               /\ new.expiration = new.when /\ new.when \in Nat
               /\ new.asked = 1 /\ new.moved => new.m_repeatCount = 1 /\ new.interval = 0
               /\ new.interval = 0
    <2>1. clock + d \in Nat
      BY DelaysAssumption
    <2>2. (IF m THEN 1 ELSE -1) \in {-1, 0, 1}
      OBVIOUS
    <2>3. QED
      BY <2>1, <2>2 DEF runAt, NewTimer, Timer
  <1>2. ASSUME NEW i \in Intervals
        PROVE  LET new == runEvery(i) IN
               /\ new \in Timer
               /\ new.expiration = new.when /\ new.when \in Nat
               /\ new.asked = -1 /\ new.interval = i
               /\ new.m_repeatCount = -1 /\ new.when = clock + i
    <2>1. clock + i \in Nat
      BY IntervalsAssumption
    <2>2. QED
      BY <2>1 DEF runEvery, NewTimer, Timer
  <1>3. ASSUME NEW new \in NewTimers
        PROVE  /\ new \in Timer
               /\ new.expiration = new.when /\ new.when \in Nat
               /\ new.asked = 1 /\ new.moved => new.m_repeatCount = 1 /\ new.interval = 0
               /\ new.interval > 0 => new.m_repeatCount = -1 /\ new.when <= clock + new.interval
    <2>1. CASE \E d \in Delays, m \in BOOLEAN : new = runAt(clock + d, m)
      <3>1. PICK d \in Delays, m \in BOOLEAN : new = runAt(clock + d, m)
        BY <2>1
      <3>2. QED
        BY <3>1, <1>1
    <2>2. CASE \E i \in Intervals : new = runEvery(i)
      <3>1. PICK i \in Intervals : new = runEvery(i)
        BY <2>2
      <3>2. new.when <= clock + new.interval
        BY <3>1, <1>2, IntervalsAssumption
      <3>3. QED
        BY <3>1, <3>2, <1>2
    <2>3. QED
      BY <2>1, <2>2 DEF NewTimers
  <1>4. QED
    BY <1>3

\* cancelTimerInLoop writes the flag of one timer at most.
LEMMA CancelFields ==
  ASSUME Records, NEW t \in Made, NEW off \in BOOLEAN, cancelTimerInLoop(t, off)
  PROVE  /\ Records' /\ SameTimers
         /\ \A x \in Made : x # t \/ ~off => (timer'[x].m_canceled => timer[x].m_canceled)
  <1>1. CASE timer' = timer
    BY <1>1 DEF Records, SameTimers, Made
  <1>2. CASE timer' = [timer EXCEPT ![t].m_canceled = off]
    <2>1. Records' /\ Made' = Made
      BY <1>2 DEF Records, Made, Timer
    <2>2. \A x \in Made : timer'[x] = IF x = t THEN [timer[t] EXCEPT !.m_canceled = off]
                                      ELSE timer[x]
      BY <1>2 DEF Records, Made
    <2>3. timer[t] \in Timer
      BY DEF Records
    <2>4. SameTimers
      BY <2>1, <2>2, <2>3 DEF SameTimers, Timer
    <2>5. timer'[t].m_canceled = off
      BY <2>2, <2>3 DEF Timer
    <2>6. QED
      BY <2>1, <2>2, <2>4, <2>5
  <1>3. QED
    BY <1>1, <1>2 DEF cancelTimerInLoop

\* addTimer makes one timer and leaves the others alone.
LEMMA MakeFields ==
  ASSUME Records, NEW t \in Timers \ Made, NEW new \in Timer, MakeTimer(t, new)
  PROVE  /\ Records' /\ Made' = Made \cup {t} /\ timer'[t] = new
         /\ \A x \in Made : timer'[x] = timer[x]
  BY DEF Records, Made, MakeTimer

\* Tasks join the chain at its end ...
LEMMA ChainAppend ==
  ASSUME Types, NEW k \in Tasks, queueInLoop(k), functors' = functors
  PROVE  /\ m_pendingFunctors' \in Seq(Tasks) /\ Chain \in Seq(Tasks)
         /\ Len(Chain') = Len(Chain) + 1 /\ Chain'[Len(Chain) + 1] = k
         /\ \A i \in 1..Len(Chain) : Chain'[i] = Chain[i]
  BY DEF Types, queueInLoop, Chain

\* ... and leave it at its head.
LEMMA ChainTail ==
  ASSUME Types, functors # <<>>, functors' = Tail(functors),
         m_pendingFunctors' = m_pendingFunctors
  PROVE  /\ functors' \in Seq(Tasks) /\ Chain \in Seq(Tasks)
         /\ Len(Chain) > 0 /\ Chain[1] = Head(functors) /\ Head(functors) \in Tasks
         /\ Len(Chain') = Len(Chain) - 1
         /\ \A i \in 1..Len(Chain') : Chain'[i] = Chain[i + 1]
  BY DEF Types, Chain

\* The chain is as it was, and so is what is waiting.
LEMMA QueuedFrame ==
  ASSUME QueuedIn(Chain), Chain' = Chain, Made \subseteq Made',
         \A t \in Made : Waiting(t) => Waiting(t)'
  PROVE  QueuedIn(Chain)'
  BY DEF QueuedIn

-----------------------------------------------------------------------------
(* What steps leave alone.                                                 *)

\* A timer that waits for its insertion goes on waiting.
LEMMA WaitingFrame ==
  ASSUME SameTimers, NEW t \in Made, Waiting(t), ran'[t] = ran[t], ~Present(t)',
         t \notin removed', phase' = "callback" => iter'[2] # t
  PROVE  Waiting(t)'
  BY DEF SameTimers, Waiting

\* The counts of timers that run once, while none runs or returns.
LEMMA OneRunFrame ==
  ASSUME SameTimers, OneRun, ran' = ran, \A t \in Made : InRun(t)' <=> InRun(t),
         \A t \in Made : Present(t)' => Present(t)
  PROVE  OneRun'
  <1> SUFFICES ASSUME NEW t \in Made, Once(t)'
               PROVE  /\ timer'[t].m_repeatCount \in {0, 1}
                      /\ ran'[t] <= 1
                      /\ InRun(t)' => timer'[t].m_repeatCount = 1
                      /\ ~InRun(t)' /\ timer'[t].m_repeatCount = 1 => ran'[t] = 0
                      /\ Present(t)' => timer'[t].m_repeatCount = 1
    BY DEF OneRun, SameTimers
  <1>1. Once(t) /\ timer'[t].m_repeatCount = timer[t].m_repeatCount
    BY DEF Once, SameTimers
  <1>2. QED
    BY <1>1 DEF OneRun

\* The schedule, while none runs or returns.
LEMMA ScheduleFrame ==
  ASSUME SameTimers, Fields, Schedule, Made \subseteq Timers, ran \in [Timers -> Nat],
         ran' = ran, clock \in Nat, clock' \in Nat, clock <= clock',
         \A t \in Made : InRun(t)' <=> InRun(t)
  PROVE  Schedule'
  <1> SUFFICES ASSUME NEW t \in Made
               PROVE  /\ timer'[t].when <= timer'[t].expiration
                      /\ ran'[t] > 0 => timer'[t].when <= clock'
                      /\ timer'[t].interval > 0 =>
                           /\ timer'[t].m_repeatCount = -1
                           /\ timer'[t].when + (ran'[t] - 1) * timer'[t].interval <= clock'
                           /\ timer'[t].expiration = timer'[t].when
                                + (IF InRun(t)' THEN ran'[t] - 1 ELSE ran'[t]) * timer'[t].interval
    BY DEF Schedule, SameTimers
  <1>1. /\ timer'[t].expiration = timer[t].expiration
        /\ timer'[t].interval = timer[t].interval
        /\ timer'[t].m_repeatCount = timer[t].m_repeatCount
        /\ timer'[t].when = timer[t].when
    BY DEF SameTimers
  <1>2. PICK p : p = (ran[t] - 1) * timer[t].interval
    OBVIOUS
  <1>3. p \in Int /\ timer[t].when \in Nat /\ ran[t] \in Nat /\ timer[t].interval \in Nat
    BY <1>2 DEF Fields
  <1>4. /\ timer[t].when <= timer[t].expiration
        /\ ran[t] > 0 => timer[t].when <= clock
        /\ timer[t].interval > 0 =>
             /\ timer[t].m_repeatCount = -1
             /\ timer[t].when + p <= clock
             /\ timer[t].expiration
                  = timer[t].when + (IF InRun(t) THEN ran[t] - 1 ELSE ran[t]) * timer[t].interval
    BY <1>2 DEF Schedule
  <1>5. timer[t].interval > 0 => timer[t].when + p <= clock'
    BY <1>3, <1>4
  <1>6. ran[t] > 0 => timer[t].when <= clock'
    BY <1>3, <1>4
  <1>7. CASE InRun(t)
    BY <1>1, <1>2, <1>4, <1>5, <1>6, <1>7
  <1>8. CASE ~InRun(t)
    BY <1>1, <1>2, <1>4, <1>5, <1>6, <1>8
  <1>9. QED
    BY <1>7, <1>8

\* Entries are pairs of numbers.
LEMMA EntriesAreNumbers ==
  ASSUME Records, Types
  PROVE  /\ m_timers \in SUBSET (Nat \X Nat) /\ seen \in SUBSET (Nat \X Nat)
         /\ \A t \in Made : t \in Nat /\ t \in Timers
  BY TimersAssumption DEF Records, Types

-----------------------------------------------------------------------------
(* The steps of doTimer.                                                   *)

\* The invariant holds before the first round of the loop.
LEMMA InvInit == Init => TimerInv
  <1> SUFFICES ASSUME Init
               PROVE  TimerInv
    OBVIOUS
  <1>1. Made = {} /\ timer = <<>>
    BY DEF Init, Made
  <1>2. Records
    BY <1>1 DEF Records, Made
  <1>3. Types
    BY <1>1 DEF Types, Init
  <1>4. Filed /\ Iterator /\ RemovedStaysOut /\ NotPassed
    BY DEF Init, Filed, Iterator, RemovedStaysOut, NotPassed
  <1>5. Len(Chain) = 0
    BY DEF Init, Chain
  <1>6. Queued
    BY <1>5 DEF Init, Queued, QueuedIn
  <1>7. OneRun /\ Schedule
    BY <1>1 DEF OneRun, Schedule
  <1>8. QED
    BY <1>2, <1>3, <1>4, <1>6, <1>7 DEF TimerInv

\* doTimer begins at the first entry: nothing has been passed yet.
LEMMA InvBeginTimers ==
  ASSUME TimerInv, BeginTimers
  PROVE  TimerInv'
  <1>1. /\ phase = "tasks" /\ phase' = "timers" /\ now' = clock
        /\ iter' = First(m_timers) /\ seen' = {e \in m_timers : ~timer[e[2]].m_canceled}
        /\ clock' = clock /\ timer' = timer /\ m_timers' = m_timers /\ ran' = ran
        /\ m_pendingFunctors' = m_pendingFunctors /\ functors' = functors
        /\ removed' = removed /\ functors = <<>>
    BY DEF BeginTimers
  <1>2. Records' /\ SameTimers /\ Fields /\ Made' = Made
    BY <1>1, FieldTypes DEF TimerInv, Records, Made, SameTimers
  <1>3. Types'
    BY <1>1, <1>2 DEF TimerInv, Types
  <1>4. Filed' /\ RemovedStaysOut'
    BY <1>1 DEF TimerInv, Filed, RemovedStaysOut, Present
  <1>5. m_timers # {} => iter' \in m_timers /\ \A x \in m_timers \ {iter'} : Before(iter', x)
    BY <1>1, EntriesAreNumbers, FirstIsLeast DEF TimerInv
  <1>6. m_timers = {} => iter' = End
    BY <1>1 DEF First
  <1>7. Iterator'
    <2>1. iter' # End => iter' \in m_timers
      BY <1>5, <1>6
    <2>2. iter' # End => iter' \in (Nat \X Made) /\ iter'[1] = timer[iter'[2]].when
      BY <2>1 DEF TimerInv, Types, Filed
    <2>3. QED
      BY <1>1, <1>2, <2>1, <2>2 DEF Iterator
  <1>8. \A t \in Made : Present(t)' <=> Present(t)
    BY <1>1 DEF Present
  <1>9. Queued'
    <2>1. \A t \in Made : Waiting(t) => Waiting(t)'
      BY <1>1, <1>2, <1>8, WaitingFrame DEF Waiting
    <2>2. QueuedIn(Chain)'
      BY <1>1, <1>2, <2>1, QueuedFrame DEF TimerInv, Queued, Chain
    <2>3. QED
      BY <1>1, <2>2 DEF Queued
  <1>10. \A t \in Made : InRun(t)' <=> InRun(t)
    BY <1>1 DEF InRun
  <1>11. OneRun'
    BY <1>1, <1>2, <1>8, <1>10, OneRunFrame DEF TimerInv
  <1>12. Schedule'
    BY <1>1, <1>2, <1>10, ScheduleFrame DEF TimerInv, Types, Records
  <1>13. NotPassed'
    <2> SUFFICES ASSUME NEW e \in seen' \cap m_timers
                 PROVE  ~timer[e[2]].m_canceled /\ (iter' # End => ~Before(e, iter'))
      BY <1>1 DEF NotPassed
    <2>1. e \in Nat \X Nat
      BY EntriesAreNumbers DEF TimerInv
    <2>2. iter' \in m_timers /\ (e = iter' \/ Before(iter', e))
      BY <1>5
    <2>3. iter' \in Nat \X Nat
      BY <2>2, EntriesAreNumbers DEF TimerInv
    <2>4. ~Before(e, iter')
      BY <2>1, <2>2, <2>3 DEF Before
    <2>5. QED
      BY <1>1, <2>4
  <1>14. QED
    BY <1>2, <1>3, <1>4, <1>7, <1>9, <1>11, <1>12, <1>13 DEF TimerInv

\* A cancelled timer is passed over, which the invariant allows.
LEMMA InvSkipTimer ==
  ASSUME TimerInv, SkipTimer
  PROVE  TimerInv'
  <1>1. /\ phase = "timers" /\ phase' = "timers" /\ now' = now /\ iter # End
        /\ iter' = After(m_timers, iter) /\ seen' = seen /\ timer[iter[2]].m_canceled
        /\ clock' = clock /\ timer' = timer /\ m_timers' = m_timers /\ ran' = ran
        /\ m_pendingFunctors' = m_pendingFunctors /\ functors' = functors
        /\ removed' = removed
    BY DEF SkipTimer, AtTimer
  <1>2. Records' /\ SameTimers /\ Fields /\ Made' = Made
    BY <1>1, FieldTypes DEF TimerInv, Records, Made, SameTimers
  <1>3. Types'
    BY <1>1, <1>2 DEF TimerInv, Types
  <1>4. Filed' /\ RemovedStaysOut'
    BY <1>1 DEF TimerInv, Filed, RemovedStaysOut, Present
  <1>5. iter \in m_timers /\ iter \in Nat \X Nat /\ m_timers \in SUBSET (Nat \X Nat)
    BY <1>1, EntriesAreNumbers DEF TimerInv, Iterator
  <1>6. iter' # End => /\ iter' \in m_timers /\ Before(iter, iter')
                       /\ \A x \in m_timers : Before(iter, x) => ~Before(x, iter')
    BY <1>1, <1>5, AfterIsNext
  <1>7. Iterator'
    <2>1. iter' # End => iter' \in (Nat \X Made) /\ iter'[1] = timer[iter'[2]].when
      BY <1>6 DEF TimerInv, Types, Filed
    <2>2. QED
      BY <1>1, <1>2, <1>6, <2>1 DEF Iterator
  <1>8. \A t \in Made : Present(t)' <=> Present(t)
    BY <1>1 DEF Present
  <1>9. Queued'
    <2>1. \A t \in Made : Waiting(t) => Waiting(t)'
      BY <1>1, <1>2, <1>8, WaitingFrame DEF Waiting
    <2>2. QueuedIn(Chain)'
      BY <1>1, <1>2, <2>1, QueuedFrame DEF TimerInv, Queued, Chain
    <2>3. QED
      BY <1>1, <2>2 DEF Queued, TimerInv
  <1>10. \A t \in Made : InRun(t)' <=> InRun(t)
    BY <1>1 DEF InRun
  <1>11. OneRun'
    BY <1>1, <1>2, <1>8, <1>10, OneRunFrame DEF TimerInv
  <1>12. Schedule'
    BY <1>1, <1>2, <1>10, ScheduleFrame DEF TimerInv, Types, Records
  <1>13. NotPassed'
    <2> SUFFICES ASSUME NEW e \in seen \cap m_timers
                 PROVE  /\ ~timer[e[2]].m_canceled
                        /\ Once(e[2]) /\ iter' # End => ~Before(e, iter')
      BY <1>1 DEF NotPassed, Once
    <2>1. ~timer[e[2]].m_canceled /\ (Once(e[2]) => ~Before(e, iter))
      BY <1>1 DEF TimerInv, NotPassed
    <2>2. e \in Nat \X Nat /\ e # iter
      BY <1>1, <1>5, <2>1
    <2>3. Once(e[2]) => Before(iter, e)
      BY <1>5, <2>1, <2>2 DEF Before
    <2>4. QED
      BY <1>6, <2>1, <2>3
  <1>14. QED
    BY <1>2, <1>3, <1>4, <1>7, <1>9, <1>11, <1>12, <1>13 DEF TimerInv

\* A due timer runs: it is in the set, so its insertion is not queued any more.
LEMMA InvCallTimer ==
  ASSUME TimerInv, CallTimer
  PROVE  TimerInv'
  <1>1. PICK c : c = iter[2]
    OBVIOUS
  <1>2. /\ phase = "timers" /\ phase' = "callback" /\ now' = now /\ iter # End
        /\ iter' = iter /\ seen' = seen /\ timer[c].expiration <= now
        /\ clock' = clock /\ timer' = timer /\ m_timers' = m_timers
        /\ ran' = [ran EXCEPT ![c] = CountRun(c)]
        /\ m_pendingFunctors' = m_pendingFunctors /\ functors' = functors
        /\ removed' = removed
    BY <1>1 DEF CallTimer, AtTimer, Due
  <1>3. Records' /\ SameTimers /\ Fields /\ Made' = Made
    BY <1>2, FieldTypes DEF TimerInv, Records, Made, SameTimers
  <1>4. iter \in m_timers /\ iter \in Nat \X Nat /\ c \in Made /\ c \in Timers
    BY <1>1, <1>2, EntriesAreNumbers DEF TimerInv, Iterator, Types
  <1>5. ran[c] \in Nat /\ ran'[c] \in Nat /\ ran'[c] > 0 /\ ran' \in [Timers -> Nat]
        /\ (ran[c] = 0 => ran'[c] = 1) /\ (timer[c].interval # 0 => ran'[c] = ran[c] + 1)
        /\ \A t \in Timers : t # c => ran'[t] = ran[t]
    <2>1. ran \in [Timers -> Nat] /\ ran[c] \in Nat
      BY <1>4 DEF TimerInv, Types
    <2>2. CountRun(c) \in Nat /\ CountRun(c) > 0 /\ (ran[c] = 0 => CountRun(c) = 1)
          /\ (timer[c].interval # 0 => CountRun(c) = ran[c] + 1)
      BY <2>1 DEF CountRun
    <2>3. QED
      BY <1>2, <1>4, <2>1, <2>2
  <1>6. Types'
    BY <1>2, <1>3, <1>4, <1>5 DEF TimerInv, Types
  <1>7. Filed' /\ RemovedStaysOut'
    BY <1>2 DEF TimerInv, Filed, RemovedStaysOut, Present
  <1>8. Iterator'
    BY <1>2, <1>3 DEF TimerInv, Iterator
  <1>9. Present(c) /\ \A t \in Made : Present(t)' <=> Present(t)
    BY <1>1, <1>2, <1>4 DEF Present
  <1>10. Queued'
    <2>1. ASSUME NEW t \in Made, Waiting(t)
          PROVE  Waiting(t)'
      <3>1. t # c /\ ~Present(t)' /\ t \notin removed'
        BY <1>2, <1>9, <2>1 DEF Waiting
      <3>2. ran'[t] = ran[t]
        BY <1>5, <3>1, EntriesAreNumbers DEF TimerInv
      <3>3. QED
        BY <1>1, <1>2, <1>3, <2>1, <3>1, <3>2, WaitingFrame
    <2>2. QueuedIn(Chain)'
      BY <1>2, <1>3, <2>1, QueuedFrame DEF TimerInv, Queued, Chain
    <2>3. QED
      BY <1>2, <2>2 DEF Queued, TimerInv
  <1>11. \A t \in Made : ~InRun(t) /\ (InRun(t)' <=> t = c)
    BY <1>1, <1>2 DEF InRun
  <1>12. OneRun'
    <2> SUFFICES ASSUME NEW t \in Made, Once(t)
                 PROVE  /\ timer[t].m_repeatCount \in {0, 1}
                        /\ ran'[t] <= 1
                        /\ InRun(t)' => timer[t].m_repeatCount = 1
                        /\ ~InRun(t)' /\ timer[t].m_repeatCount = 1 => ran'[t] = 0
                        /\ Present(t)' => timer[t].m_repeatCount = 1
      BY <1>2, <1>3 DEF OneRun, Once
    <2>1. /\ timer[t].m_repeatCount \in {0, 1}
          /\ ran[t] <= 1
          /\ timer[t].m_repeatCount = 1 => ran[t] = 0
          /\ Present(t) => timer[t].m_repeatCount = 1
      BY <1>11 DEF TimerInv, OneRun
    <2>2. t \in Timers
      BY EntriesAreNumbers DEF TimerInv
    <2>3. QED
      BY <1>5, <1>9, <1>11, <2>1, <2>2
  <1>13. Schedule'
    <2>1. clock \in Nat /\ now \in Nat /\ now <= clock
      BY DEF TimerInv, Types
    <2> SUFFICES ASSUME NEW t \in Made
                 PROVE  /\ timer[t].when <= timer[t].expiration
                        /\ ran'[t] > 0 => timer[t].when <= clock
                        /\ timer[t].interval > 0 =>
                             /\ timer[t].m_repeatCount = -1
                             /\ timer[t].when + (ran'[t] - 1) * timer[t].interval <= clock
                             /\ timer[t].expiration = timer[t].when
                                  + (IF InRun(t)' THEN ran'[t] - 1 ELSE ran'[t])
                                      * timer[t].interval
      BY <1>2, <1>3 DEF Schedule
    <2>2. /\ timer[t].when <= timer[t].expiration
          /\ ran[t] > 0 => timer[t].when <= clock
          /\ timer[t].interval > 0 =>
               /\ timer[t].m_repeatCount = -1
               /\ timer[t].when + (ran[t] - 1) * timer[t].interval <= clock
               /\ timer[t].expiration = timer[t].when + ran[t] * timer[t].interval
      BY <1>11 DEF TimerInv, Schedule
    <2>3. /\ timer[t].when \in Nat /\ timer[t].expiration \in Nat
          /\ timer[t].interval \in Nat /\ t \in Timers /\ ran[t] \in Nat
      BY <1>3, EntriesAreNumbers DEF Fields, TimerInv, Types
    <2>4. CASE t # c
      BY <1>5, <1>11, <2>2, <2>3, <2>4
    <2>5. CASE t = c
      <3>1. timer[t].when <= clock /\ timer[t].expiration <= clock
        BY <1>2, <2>1, <2>2, <2>3, <2>5
      <3>2. timer[t].interval > 0 => ran'[t] - 1 = ran[t]
        BY <1>5, <2>3, <2>5
      <3>3. QED
        BY <1>11, <2>2, <2>3, <2>5, <3>1, <3>2
    <2>6. QED
      BY <2>4, <2>5
  <1>14. NotPassed'
    BY <1>2 DEF TimerInv, NotPassed, Once
  <1>15. QED
    BY <1>3, <1>6, <1>7, <1>8, <1>10, <1>12, <1>13, <1>14 DEF TimerInv

\* Timer::run after the callback: the count and the due time of one timer.
LEMMA ReturnFields ==
  ASSUME Records, NEW c \in Made, timer' = [timer EXCEPT ![c] = AfterRun(timer[c])]
  PROVE  /\ Records' /\ Made' = Made
         /\ \A t \in Made : t # c => timer'[t] = timer[t]
         /\ timer'[c].when = timer[c].when /\ timer'[c].interval = timer[c].interval
         /\ timer'[c].asked = timer[c].asked /\ timer'[c].moved = timer[c].moved
         /\ timer'[c].m_canceled = timer[c].m_canceled
         /\ timer'[c].m_repeatCount =
              IF timer[c].m_repeatCount = -1 THEN -1 ELSE timer[c].m_repeatCount - 1
         /\ timer'[c].expiration =
              IF timer'[c].m_repeatCount = 0 THEN timer[c].expiration
              ELSE timer[c].expiration + timer[c].interval
  <1>1. timer[c] \in Timer /\ Fields
    BY FieldTypes DEF Records
  <1>2. PICK left : left = IF timer[c].m_repeatCount = -1 THEN -1
                           ELSE timer[c].m_repeatCount - 1
    OBVIOUS
  <1>3. PICK due : due = IF left = 0 THEN timer[c].expiration
                         ELSE timer[c].expiration + timer[c].interval
    OBVIOUS
  <1>4. left \in {-1, 0, 1}
    BY <1>1, <1>2 DEF Fields
  <1>5. due \in Nat
    BY <1>1, <1>3 DEF Fields
  <1>6. AfterRun(timer[c]) = [timer[c] EXCEPT !.m_repeatCount = left, !.expiration = due]
    BY <1>2, <1>3 DEF AfterRun
  <1>7. AfterRun(timer[c]) \in Timer
    BY <1>1, <1>4, <1>5, <1>6 DEF Timer
  <1>8. PICK new : new = AfterRun(timer[c])
    OBVIOUS
  <1>9. /\ new.when = timer[c].when /\ new.interval = timer[c].interval
        /\ new.asked = timer[c].asked /\ new.moved = timer[c].moved
        /\ new.m_canceled = timer[c].m_canceled
        /\ new.m_repeatCount = left /\ new.expiration = due
    BY <1>1, <1>6, <1>8 DEF Timer
  <1>10. Records' /\ Made' = Made /\ timer'[c] = new
         /\ \A t \in Made : t # c => timer'[t] = timer[t]
    BY <1>7, <1>8 DEF Records, Made
  <1>11. QED
    BY <1>2, <1>3, <1>9, <1>10

\* A timer that has run its one time leaves the set, so the iterator can pass it.
LEMMA InvReturnFromTimer ==
  ASSUME TimerInv, ReturnFromTimer
  PROVE  TimerInv'
  <1>1. PICK c : c = iter[2]
    OBVIOUS
  <1>2. /\ phase = "callback" /\ iter # End /\ iter \in (Nat \X Made)
        /\ iter[1] = timer[c].when /\ c \in Made /\ c \in Timers /\ iter \in Nat \X Nat
    BY <1>1, EntriesAreNumbers DEF ReturnFromTimer, TimerInv, Iterator
  <1>3. /\ phase' = (IF iter \in m_timers THEN "timers" ELSE "crashed")
        /\ timer' = [timer EXCEPT ![c] = AfterRun(timer[c])]
        /\ m_timers' = (IF AfterRun(timer[c]).m_repeatCount = 0 THEN m_timers \ {iter}
                        ELSE m_timers)
        /\ iter' = After(m_timers, iter) /\ seen' = seen /\ now' = now
        /\ clock' = clock /\ ran' = ran
        /\ m_pendingFunctors' = m_pendingFunctors /\ functors' = functors
        /\ removed' = removed
    BY <1>1 DEF ReturnFromTimer, Following
  <1>4. /\ Records' /\ Made' = Made
        /\ \A t \in Made : t # c => timer'[t] = timer[t]
        /\ timer'[c].when = timer[c].when /\ timer'[c].interval = timer[c].interval
        /\ timer'[c].asked = timer[c].asked /\ timer'[c].moved = timer[c].moved
        /\ timer'[c].m_canceled = timer[c].m_canceled
        /\ timer'[c].m_repeatCount =
             IF timer[c].m_repeatCount = -1 THEN -1 ELSE timer[c].m_repeatCount - 1
        /\ timer'[c].expiration =
             IF timer'[c].m_repeatCount = 0 THEN timer[c].expiration
             ELSE timer[c].expiration + timer[c].interval
    BY <1>2, <1>3, ReturnFields DEF TimerInv
  <1>5. Fields /\ Fields' /\ m_timers \in SUBSET (Nat \X Nat)
    <2>1. Fields'
      BY <1>4, FieldTypes, PTL
    <2>2. QED
      BY <2>1, FieldTypes, EntriesAreNumbers DEF TimerInv
  <1>6. m_timers' = (IF timer'[c].m_repeatCount = 0 THEN m_timers \ {iter} ELSE m_timers)
    <2>1. timer'[c] = AfterRun(timer[c])
      BY <1>2, <1>3 DEF TimerInv, Records
    <2>2. QED
      BY <1>3, <2>1
  <1>7. m_timers' \subseteq m_timers
    BY <1>6
  <1>8. Types'
    BY <1>3, <1>4, <1>7 DEF TimerInv, Types
  <1>9. \A t \in Made : timer'[t].when = timer[t].when /\ timer'[t].asked = timer[t].asked
                        /\ timer'[t].moved = timer[t].moved
                        /\ timer'[t].m_canceled = timer[t].m_canceled
                        /\ timer'[t].interval = timer[t].interval
    BY <1>4
  <1>10. Filed'
    BY <1>7, <1>9 DEF TimerInv, Types, Filed
  <1>11. \A t \in Made : Present(t)' => Present(t)
    BY <1>7 DEF Present
  <1>12. RemovedStaysOut'
    BY <1>3, <1>11 DEF TimerInv, RemovedStaysOut, Types
  <1>13. iter' # End => /\ iter' \in m_timers /\ iter' # iter
                        /\ \A x \in m_timers : Before(iter, x) => ~Before(x, iter')
    BY <1>2, <1>3, <1>5, AfterIsNext
  <1>14. Iterator'
    <2>1. iter' # End => iter' \in m_timers'
      BY <1>6, <1>13
    <2>2. iter' # End => iter' \in (Nat \X Made) /\ iter'[1] = timer[iter'[2]].when
      BY <1>13 DEF TimerInv, Types, Filed
    <2>3. iter' # End => iter'[2] \in Made
      BY <2>2
    <2>4. QED
      BY <1>3, <1>4, <1>9, <2>1, <2>2, <2>3 DEF Iterator
  <1>15. Queued'
    <2>1. ASSUME NEW t \in Made, Waiting(t)
          PROVE  Waiting(t)'
      <3>1. t # c
        BY <1>1, <1>2, <2>1 DEF Waiting
      <3>2. timer'[t] = timer[t] /\ ~Present(t)' /\ phase' # "callback"
        BY <1>3, <1>4, <1>11, <2>1, <3>1 DEF Waiting
      <3>3. QED
        BY <1>3, <2>1, <3>2 DEF Waiting
    <2>2. QueuedIn(Chain)'
      BY <1>3, <1>4, <2>1, QueuedFrame DEF TimerInv, Queued, Chain
    <2>3. QED
      BY <1>2, <1>3, <2>2 DEF Queued, TimerInv
  <1>16. \A t \in Made : ~InRun(t)' /\ (InRun(t) <=> t = c)
    BY <1>1, <1>2, <1>3 DEF InRun
  <1>17. OneRun'
    <2> SUFFICES ASSUME NEW t \in Made, Once(t)
                 PROVE  /\ timer'[t].m_repeatCount \in {0, 1}
                        /\ ran[t] <= 1
                        /\ timer'[t].m_repeatCount = 1 => ran[t] = 0
                        /\ Present(t)' => timer'[t].m_repeatCount = 1
      BY <1>3, <1>4, <1>9, <1>16 DEF OneRun, Once
    <2>1. /\ timer[t].m_repeatCount \in {0, 1}
          /\ ran[t] <= 1
          /\ InRun(t) => timer[t].m_repeatCount = 1
          /\ ~InRun(t) /\ timer[t].m_repeatCount = 1 => ran[t] = 0
          /\ Present(t) => timer[t].m_repeatCount = 1
      BY DEF TimerInv, OneRun
    <2>2. CASE t # c
      BY <1>4, <1>11, <1>16, <2>1, <2>2
    <2>3. CASE t = c
      <3>1. timer'[t].m_repeatCount = 0
        BY <1>4, <1>16, <2>1, <2>3
      <3>2. m_timers' = m_timers \ {iter}
        BY <1>6, <2>3, <3>1
      <3>3. ~Present(t)'
        <4> SUFFICES ASSUME NEW e \in m_timers', e[2] = t
                     PROVE  FALSE
          BY DEF Present
        <4>1. e \in Nat \X Made /\ e[1] = timer[t].when /\ e # iter
          BY <3>2 DEF TimerInv, Types, Filed
        <4>2. e = <<e[1], e[2]>> /\ iter = <<iter[1], iter[2]>>
          BY <1>2, <4>1
        <4>3. QED
          BY <1>1, <1>2, <2>3, <4>1, <4>2
      <3>4. QED
        BY <2>1, <3>1, <3>3
    <2>4. QED
      BY <2>2, <2>3
  <1>18. Schedule'
    <2> SUFFICES ASSUME NEW t \in Made
                 PROVE  /\ timer'[t].when <= timer'[t].expiration
                        /\ ran[t] > 0 => timer'[t].when <= clock
                        /\ timer'[t].interval > 0 =>
                             /\ timer'[t].m_repeatCount = -1
                             /\ timer'[t].when + (ran[t] - 1) * timer'[t].interval <= clock
                             /\ timer'[t].expiration
                                  = timer'[t].when + ran[t] * timer'[t].interval
      BY <1>3, <1>4, <1>16 DEF Schedule
    <2>1. /\ timer[t].when <= timer[t].expiration
          /\ ran[t] > 0 => timer[t].when <= clock
          /\ timer[t].interval > 0 =>
               /\ timer[t].m_repeatCount = -1
               /\ timer[t].when + (ran[t] - 1) * timer[t].interval <= clock
               /\ timer[t].expiration = timer[t].when
                    + (IF InRun(t) THEN ran[t] - 1 ELSE ran[t]) * timer[t].interval
      BY DEF TimerInv, Schedule
    <2>2. /\ timer[t].when \in Nat /\ timer[t].expiration \in Nat
          /\ timer[t].interval \in Nat /\ t \in Timers /\ ran[t] \in Nat
      BY <1>5, EntriesAreNumbers DEF Fields, TimerInv, Types
    <2>3. CASE t # c
      BY <1>4, <1>16, <2>1, <2>3
    <2>4. CASE t = c
      <3>1. timer'[t].when = timer[t].when /\ timer'[t].interval = timer[t].interval
        BY <1>9
      <3>2. timer[t].when <= timer'[t].expiration
        BY <1>4, <2>1, <2>2, <2>4
      <3>3. timer[t].interval > 0 => /\ timer'[t].m_repeatCount = -1
                                     /\ timer'[t].expiration
                                          = timer[t].expiration + timer[t].interval
        BY <1>4, <2>1, <2>4
      <3>4. timer[t].interval > 0 =>
              timer[t].expiration = timer[t].when + (ran[t] - 1) * timer[t].interval
        BY <1>16, <2>1, <2>4
      <3>5. (ran[t] - 1) * timer[t].interval + timer[t].interval = ran[t] * timer[t].interval
        BY <2>2
      <3>6. PICK p : p = (ran[t] - 1) * timer[t].interval
        OBVIOUS
      <3>7. PICK q : q = ran[t] * timer[t].interval
        OBVIOUS
      <3>8. p \in Int /\ q \in Int /\ q = p + timer[t].interval
        BY <2>2, <3>5, <3>6, <3>7
      <3>9. timer[t].interval > 0 => timer'[t].expiration = timer[t].when + q
        BY <2>2, <3>3, <3>4, <3>6, <3>8
      <3>10. QED
        BY <2>1, <3>1, <3>2, <3>3, <3>7, <3>9
    <2>5. QED
      BY <2>3, <2>4
  <1>19. NotPassed'
    <2> SUFFICES ASSUME NEW e \in seen \cap m_timers'
                 PROVE  /\ ~timer'[e[2]].m_canceled
                        /\ Once(e[2])' /\ iter' # End => ~Before(e, iter')
      BY <1>3 DEF NotPassed
    <2>1. e \in m_timers /\ e[2] \in Made /\ e \in Nat \X Nat
      BY <1>5, <1>7 DEF TimerInv, Types
    <2>2. ~timer[e[2]].m_canceled /\ (Once(e[2]) => ~Before(e, iter))
      BY <1>2, <2>1 DEF TimerInv, NotPassed
    <2>3. Once(e[2])' <=> Once(e[2])
      BY <1>9, <2>1 DEF Once
    <2>4. ASSUME Once(e[2]), iter' # End
          PROVE  ~Before(e, iter')
      <3>1. e # iter
        <4>1. SUFFICES ASSUME e = iter
                       PROVE  FALSE
          OBVIOUS
        <4>2. timer[c].m_repeatCount = 1
          BY <1>1, <1>2, <1>16, <2>4, <4>1 DEF TimerInv, OneRun
        <4>3. QED
          BY <1>4, <1>6, <4>1, <4>2
      <3>2. Before(iter, e)
        BY <1>2, <2>1, <2>2, <2>4, <3>1 DEF Before
      <3>3. QED
        BY <1>13, <2>1, <2>4, <3>2
    <2>5. QED
      BY <1>9, <2>1, <2>2, <2>3, <2>4
  <1>20. QED
    BY <1>4, <1>8, <1>10, <1>12, <1>14, <1>15, <1>17, <1>18, <1>19 DEF TimerInv

\* Nothing is to be kept of a pass that is over.
LEMMA InvEndTimers ==
  ASSUME TimerInv, EndTimers
  PROVE  TimerInv'
  <1>1. /\ phase = "timers" /\ phase' = "poll" /\ now' = 0 /\ seen' = {}
        /\ clock' = clock /\ timer' = timer /\ m_timers' = m_timers /\ ran' = ran
        /\ m_pendingFunctors' = m_pendingFunctors /\ functors' = functors
        /\ removed' = removed
    BY DEF EndTimers
  <1>2. Records' /\ SameTimers /\ Fields /\ Made' = Made
    BY <1>1, FieldTypes DEF TimerInv, Records, Made, SameTimers
  <1>3. Types'
    BY <1>1, <1>2 DEF TimerInv, Types
  <1>4. Filed' /\ RemovedStaysOut' /\ Iterator' /\ NotPassed'
    BY <1>1 DEF TimerInv, Filed, RemovedStaysOut, Present, Iterator, NotPassed
  <1>5. \A t \in Made : Present(t)' <=> Present(t)
    BY <1>1 DEF Present
  <1>6. Queued'
    <2>1. \A t \in Made : Waiting(t) => Waiting(t)'
      BY <1>1, <1>2, <1>5, WaitingFrame DEF Waiting
    <2>2. QueuedIn(Chain)'
      BY <1>1, <1>2, <2>1, QueuedFrame DEF TimerInv, Queued, Chain
    <2>3. QED
      BY <1>1, <2>2 DEF Queued, TimerInv
  <1>7. \A t \in Made : InRun(t)' <=> InRun(t)
    BY <1>1 DEF InRun
  <1>8. OneRun'
    BY <1>1, <1>2, <1>5, <1>7, OneRunFrame DEF TimerInv
  <1>9. Schedule'
    BY <1>1, <1>2, <1>7, ScheduleFrame DEF TimerInv, Types, Records
  <1>10. QED
    BY <1>2, <1>3, <1>4, <1>6, <1>8, <1>9 DEF TimerInv

-----------------------------------------------------------------------------
(* The steps of callbacks and handlers.                                    *)

\* A new timer has its due time ahead and has not run.
LEMMA MakeSchedule ==
  ASSUME TimerInv, NEW t \in Timers \ Made, NEW new \in NewTimers, MakeTimer(t, new),
         ran' = ran, clock' = clock, phase' = phase, iter' = iter,
         phase \in {"timers", "callback"} /\ iter # End => iter[2] \in Made,
         phase = "callback" => iter # End,
         \A x \in Made : Present(x)' => Present(x)
  PROVE  /\ Records' /\ OneRun' /\ Schedule' /\ Made' = Made \cup {t}
         /\ timer'[t] = new /\ \A x \in Made : timer'[x] = timer[x]
  <1>1. clock \in Nat /\ Fields /\ ran \in [Timers -> Nat] /\ Made \subseteq Timers
    BY FieldTypes DEF TimerInv, Types, Records
  <1>2. /\ new \in Timer
        /\ new.expiration = new.when /\ new.when \in Nat
        /\ new.asked = 1 /\ new.moved => new.m_repeatCount = 1 /\ new.interval = 0
        /\ new.interval > 0 => new.m_repeatCount = -1 /\ new.when <= clock + new.interval
    BY <1>1, NewTimerTypes
  <1>3. /\ Records' /\ Made' = Made \cup {t} /\ timer'[t] = new
        /\ \A x \in Made : timer'[x] = timer[x]
    BY <1>2, MakeFields DEF TimerInv
  <1>4. ~InRun(t)' /\ ran[t] = 0 /\ \A x \in Made : InRun(x)' <=> InRun(x)
    BY DEF InRun, TimerInv, Types
  <1>5. OneRun'
    <2> SUFFICES ASSUME NEW x \in Made', Once(x)'
                 PROVE  /\ timer'[x].m_repeatCount \in {0, 1}
                        /\ ran[x] <= 1
                        /\ InRun(x)' => timer'[x].m_repeatCount = 1
                        /\ ~InRun(x)' /\ timer'[x].m_repeatCount = 1 => ran[x] = 0
                        /\ Present(x)' => timer'[x].m_repeatCount = 1
      BY DEF OneRun
    <2>1. CASE x = t
      <3>1. new.m_repeatCount = 1
        BY <1>2, <1>3, <2>1 DEF Once
      <3>2. QED
        BY <1>3, <1>4, <2>1, <3>1
    <2>2. CASE x \in Made
      <3>1. Once(x) /\ timer'[x] = timer[x]
        BY <1>3, <2>2 DEF Once
      <3>2. QED
        BY <1>4, <2>2, <3>1 DEF TimerInv, OneRun
    <2>3. QED
      BY <1>3, <2>1, <2>2
  <1>6. Schedule'
    <2> SUFFICES ASSUME NEW x \in Made'
                 PROVE  /\ timer'[x].when <= timer'[x].expiration
                        /\ ran[x] > 0 => timer'[x].when <= clock
                        /\ timer'[x].interval > 0 =>
                             /\ timer'[x].m_repeatCount = -1
                             /\ timer'[x].when + (ran[x] - 1) * timer'[x].interval <= clock
                             /\ timer'[x].expiration = timer'[x].when
                                  + (IF InRun(x)' THEN ran[x] - 1 ELSE ran[x])
                                      * timer'[x].interval
      BY DEF Schedule
    <2>1. CASE x = t
      <3>1. new.interval \in Nat
        <4>1. Fields'
          BY <1>3, FieldTypes, PTL
        <4>2. timer'[t].interval \in Nat
          BY <1>3, <4>1 DEF Fields
        <4>3. QED
          BY <1>3, <4>2
      <3>2. new.interval > 0 => new.when + (0 - 1) * new.interval <= clock
        BY <1>1, <1>2, <3>1
      <3>3. new.expiration = new.when + 0 * new.interval
        BY <1>2, <3>1
      <3>4. new.when <= new.expiration
        BY <1>2
      <3>5. timer'[x] = new /\ ran[x] = 0 /\ ~InRun(x)'
        BY <1>3, <1>4, <2>1
      <3>6. (IF InRun(x)' THEN ran[x] - 1 ELSE ran[x]) = 0
        BY <3>5
      <3>7. ~(ran[x] > 0)
        BY <3>5
      <3>8. QED
        BY <1>2, <3>2, <3>3, <3>4, <3>5, <3>6, <3>7
    <2>2. CASE x \in Made
      BY <1>3, <1>4, <2>2 DEF TimerInv, Schedule
    <2>3. QED
      BY <1>3, <2>1, <2>2
  <1>7. QED
    BY <1>3, <1>5, <1>6

\* A timer added in the pass is not one the pass began with.
LEMMA InvLoopAdds ==
  ASSUME TimerInv, LoopAdds
  PROVE  TimerInv'
  <1>1. PICK t \in Timers \ Made, new \in NewTimers :
          MakeTimer(t, new) /\ insert(t, new.expiration)
    BY DEF LoopAdds
  <1>2. /\ m_timers' = m_timers \cup {<<new.expiration, t>>}
        /\ phase \in {"callback", "poll"} /\ phase' = phase /\ iter' = iter /\ now' = now
        /\ clock' = clock /\ seen' = seen /\ ran' = ran /\ functors' = functors
        /\ m_pendingFunctors' = m_pendingFunctors /\ removed' = removed
    BY <1>1 DEF LoopAdds, InCallback, insert
  <1>3. /\ phase = "callback" => iter # End
        /\ phase \in {"timers", "callback"} /\ iter # End => iter[2] \in Made
    BY DEF TimerInv, Iterator
  <1>4. ~Present(t) /\ \A x \in Made : Present(x)' <=> Present(x)
    BY <1>1, <1>2 DEF Present, TimerInv, Types
  <1>5. /\ Records' /\ OneRun' /\ Schedule' /\ Made' = Made \cup {t}
        /\ timer'[t] = new /\ \A x \in Made : timer'[x] = timer[x]
    BY <1>1, <1>2, <1>3, <1>4, MakeSchedule
  <1>6. new.expiration = new.when /\ new.when \in Nat
    BY <1>1, NewTimerTypes DEF TimerInv, Types
  <1>7. Types'
    BY <1>2, <1>5, <1>6 DEF TimerInv, Types
  <1>8. Filed'
    <2> SUFFICES ASSUME NEW e \in m_timers'
                 PROVE  e[1] = timer'[e[2]].when
      BY DEF Filed
    <2>1. CASE e \in m_timers
      BY <1>5, <2>1 DEF TimerInv, Types, Filed
    <2>2. CASE e = <<new.expiration, t>>
      BY <1>5, <1>6, <2>2
    <2>3. QED
      BY <1>2, <2>1, <2>2
  <1>9. Iterator'
    BY <1>2, <1>3, <1>5 DEF TimerInv, Iterator
  <1>10. RemovedStaysOut'
    BY <1>2, <1>4 DEF TimerInv, Types, RemovedStaysOut
  <1>11. Queued'
    <2>1. ASSUME NEW x \in Made, Waiting(x)
          PROVE  Waiting(x)'
      <3>1. timer'[x] = timer[x] /\ ~Present(x)'
        BY <1>4, <1>5, <2>1 DEF Waiting
      <3>2. QED
        BY <1>2, <2>1, <3>1 DEF Waiting
    <2>2. QueuedIn(Chain)'
      BY <1>2, <1>5, <2>1, QueuedFrame DEF TimerInv, Queued, Chain
    <2>3. QED
      BY <1>2, <2>2 DEF Queued, TimerInv
  <1>12. NotPassed'
    <2> SUFFICES ASSUME phase = "callback", NEW e \in seen \cap m_timers'
                 PROVE  /\ ~timer'[e[2]].m_canceled
                        /\ Once(e[2])' /\ iter # End => ~Before(e, iter)
      BY <1>2 DEF NotPassed
    <2>1. e[2] \in Made
      BY DEF TimerInv, Types
    <2>2. e \in m_timers /\ timer'[e[2]] = timer[e[2]]
      BY <1>2, <1>5, <2>1
    <2>3. QED
      BY <2>2 DEF TimerInv, NotPassed, Once
  <1>13. QED
    BY <1>5, <1>7, <1>8, <1>9, <1>10, <1>11, <1>12 DEF TimerInv

\* A removal, even of the timer that runs, takes nothing from the invariant.
LEMMA InvLoopRemoves ==
  ASSUME TimerInv, LoopRemoves
  PROVE  TimerInv'
  <1>1. PICK t \in Made : m_timers' = {e \in m_timers : e[2] # t}
    BY DEF LoopRemoves, removeTimerInLoop
  <1>2. /\ phase \in {"callback", "poll"} /\ phase' = phase /\ iter' = iter /\ now' = now
        /\ clock' = clock /\ timer' = timer /\ seen' = seen /\ ran' = ran
        /\ functors' = functors /\ m_pendingFunctors' = m_pendingFunctors
        /\ removed' = removed /\ m_timers' \subseteq m_timers
    BY <1>1 DEF LoopRemoves, InCallback
  <1>3. Records' /\ SameTimers /\ Fields /\ Made' = Made
    BY <1>2, FieldTypes DEF TimerInv, Records, Made, SameTimers
  <1>4. Types'
    BY <1>2, <1>3 DEF TimerInv, Types
  <1>5. \A x : Present(x)' => Present(x)
    BY <1>2 DEF Present
  <1>6. Filed' /\ RemovedStaysOut' /\ Iterator'
    BY <1>2, <1>3, <1>5 DEF TimerInv, Filed, RemovedStaysOut, Iterator
  <1>7. NotPassed'
    BY <1>2 DEF TimerInv, NotPassed, Once
  <1>8. Queued'
    <2>1. \A x \in Made : Waiting(x) => Waiting(x)'
      BY <1>2, <1>3, <1>5, WaitingFrame DEF Waiting
    <2>2. QueuedIn(Chain)'
      BY <1>2, <1>3, <2>1, QueuedFrame DEF TimerInv, Queued, Chain
    <2>3. QED
      BY <1>2, <2>2 DEF Queued, TimerInv
  <1>9. \A x \in Made : InRun(x)' <=> InRun(x)
    BY <1>2 DEF InRun
  <1>10. OneRun'
    BY <1>2, <1>3, <1>5, <1>9, OneRunFrame DEF TimerInv
  <1>11. Schedule'
    BY <1>2, <1>3, <1>9, ScheduleFrame DEF TimerInv, Types, Records
  <1>12. QED
    BY <1>3, <1>4, <1>6, <1>7, <1>8, <1>10, <1>11 DEF TimerInv

\* A cancellation takes the entry out of those the order is promised for.
LEMMA InvLoopCancels ==
  ASSUME TimerInv, LoopCancels
  PROVE  TimerInv'
  <1>1. PICK t \in Made, off \in BOOLEAN :
          cancelTimerInLoop(t, off) /\ seen' = {e \in seen : e[2] # t \/ ~off}
    BY DEF LoopCancels
  <1>2. /\ phase \in {"callback", "poll"} /\ phase' = phase /\ iter' = iter /\ now' = now
        /\ clock' = clock /\ m_timers' = m_timers /\ ran' = ran
        /\ functors' = functors /\ m_pendingFunctors' = m_pendingFunctors
        /\ removed' = removed
    BY DEF LoopCancels, InCallback
  <1>3. /\ Records' /\ SameTimers /\ Fields /\ Made' = Made
        /\ \A x \in Made : x # t \/ ~off => (timer'[x].m_canceled => timer[x].m_canceled)
    BY <1>1, CancelFields, FieldTypes DEF TimerInv, SameTimers
  <1>4. Types'
    BY <1>1, <1>2, <1>3 DEF TimerInv, Types
  <1>5. \A x : Present(x)' <=> Present(x)
    BY <1>2 DEF Present
  <1>6. Filed'
    BY <1>2, <1>3 DEF TimerInv, Types, Filed, SameTimers
  <1>7. RemovedStaysOut' /\ Iterator'
    BY <1>2, <1>3, <1>5 DEF TimerInv, RemovedStaysOut, Iterator, SameTimers
  <1>8. NotPassed'
    <2> SUFFICES ASSUME phase = "callback", NEW e \in seen' \cap m_timers
                 PROVE  /\ ~timer'[e[2]].m_canceled
                        /\ Once(e[2])' /\ iter # End => ~Before(e, iter)
      BY <1>2 DEF NotPassed
    <2>1. e \in seen /\ e[2] \in Made /\ (e[2] # t \/ ~off)
      BY <1>1 DEF TimerInv, Types
    <2>2. Once(e[2])' => Once(e[2])
      BY <1>3, <2>1 DEF Once, SameTimers
    <2>3. ~timer[e[2]].m_canceled /\ (Once(e[2]) /\ iter # End => ~Before(e, iter))
      BY <2>1 DEF TimerInv, NotPassed
    <2>4. QED
      BY <1>3, <2>1, <2>2, <2>3
  <1>9. Queued'
    <2>1. \A x \in Made : Waiting(x) => Waiting(x)'
      BY <1>2, <1>3, <1>5, WaitingFrame DEF Waiting
    <2>2. QueuedIn(Chain)'
      BY <1>2, <1>3, <2>1, QueuedFrame DEF TimerInv, Queued, Chain
    <2>3. QED
      BY <1>2, <2>2 DEF Queued, TimerInv
  <1>10. \A x \in Made : InRun(x)' <=> InRun(x)
    BY <1>2 DEF InRun
  <1>11. OneRun'
    BY <1>2, <1>3, <1>5, <1>10, OneRunFrame DEF TimerInv
  <1>12. Schedule'
    BY <1>2, <1>3, <1>10, ScheduleFrame DEF TimerInv, Types, Records
  <1>13. QED
    BY <1>3, <1>4, <1>6, <1>7, <1>8, <1>9, <1>11, <1>12 DEF TimerInv

-----------------------------------------------------------------------------
(* The steps of other threads and of doOtherTasks.                         *)

\* The insertion queued for a new timer is the first of its tasks.
LEMMA InvOtherAdds ==
  ASSUME TimerInv, OtherAdds
  PROVE  TimerInv'
  <1>1. PICK t \in Timers \ Made, new \in NewTimers :
          MakeTimer(t, new) /\ queueInLoop([op |-> "add", t |-> t])
    BY DEF OtherAdds
  <1>2. /\ m_timers' = m_timers /\ phase' = phase /\ iter' = iter /\ now' = now
        /\ clock' = clock /\ seen' = seen /\ ran' = ran /\ functors' = functors
        /\ removed' = removed
    BY DEF OtherAdds
  <1>3. /\ phase = "callback" => iter # End
        /\ phase \in {"timers", "callback"} /\ iter # End => iter[2] \in Made
    BY DEF TimerInv, Iterator
  <1>4. \A x : Present(x)' <=> Present(x)
    BY <1>2 DEF Present
  <1>5. /\ Records' /\ OneRun' /\ Schedule' /\ Made' = Made \cup {t}
        /\ timer'[t] = new /\ \A x \in Made : timer'[x] = timer[x]
    BY <1>1, <1>2, <1>3, <1>4, MakeSchedule
  <1>6. PICK k \in Tasks : k = [op |-> "add", t |-> t]
    BY <1>1, TaskTypes
  <1>7. PICK n : n = Len(Chain)
    OBVIOUS
  <1>8. /\ m_pendingFunctors' \in Seq(Tasks) /\ n \in Nat
        /\ Len(Chain') = n + 1 /\ Chain'[n + 1] = k
        /\ \A i \in 1..n : Chain'[i] = Chain[i]
    BY <1>1, <1>2, <1>6, <1>7, ChainAppend DEF TimerInv
  <1>9. Types'
    BY <1>2, <1>5, <1>8 DEF TimerInv, Types
  <1>10. Filed'
    BY <1>2, <1>5 DEF TimerInv, Types, Filed
  <1>11. Iterator' /\ RemovedStaysOut'
    BY <1>2, <1>3, <1>4, <1>5 DEF TimerInv, Iterator, RemovedStaysOut
  <1>12. NotPassed'
    BY <1>2, <1>5 DEF TimerInv, Types, NotPassed, Once
  <1>13. Waiting(t)'
    <2>1. ~Present(t) /\ t \notin removed /\ ran[t] = 0
      BY <1>1 DEF Present, TimerInv, Types
    <2>2. new.expiration = new.when /\ (new.asked = 1 /\ new.moved => new.m_repeatCount = 1)
      BY <1>1, NewTimerTypes DEF TimerInv, Types
    <2>3. QED
      BY <1>1, <1>2, <1>3, <1>4, <1>5, <2>1, <2>2 DEF Waiting
  <1>14. ASSUME NEW x \in Made, Waiting(x)
         PROVE  Waiting(x)'
    BY <1>2, <1>4, <1>5, <1>14 DEF Waiting
  <1>15. QueuedIn(Chain)'
    <2>1. \A i \in 1..n : Chain[i].t \in Made
      BY <1>7 DEF TimerInv, Queued, QueuedIn
    <2> SUFFICES ASSUME NEW i \in 1..(n + 1)
                 PROVE  /\ Chain'[i].t \in Made'
                        /\ Chain'[i].op = "add" =>
                             /\ \A x : x = Chain'[i].t => Waiting(x)'
                             /\ \A j \in 1..(i - 1) : Chain'[j].t # Chain'[i].t
      BY <1>8 DEF QueuedIn
    <2>2. CASE i \in 1..n
      <3>1. /\ Chain[i].op = "add" =>
                 Waiting(Chain[i].t) /\ \A j \in 1..(i - 1) : Chain[j].t # Chain[i].t
        BY <1>7, <2>2 DEF TimerInv, Queued, QueuedIn
      <3>2. Chain'[i] = Chain[i] /\ \A j \in 1..(i - 1) : Chain'[j] = Chain[j]
        BY <1>8, <2>2
      <3>3. QED
        BY <1>5, <1>14, <2>1, <2>2, <3>1, <3>2
    <2>3. CASE i = n + 1
      <3>1. Chain'[i].t = t
        BY <1>6, <1>8, <2>3
      <3>2. \A j \in 1..(i - 1) : Chain'[j].t # t
        BY <1>8, <2>1, <2>3
      <3>3. QED
        BY <1>5, <1>13, <3>1, <3>2
    <2>4. QED
      BY <1>8, <2>2, <2>3
  <1>16. Queued'
    BY <1>2, <1>15 DEF TimerInv, Queued
  <1>17. QED
    BY <1>5, <1>9, <1>10, <1>11, <1>12, <1>16 DEF TimerInv

\* Calls on a timer are queued behind its insertion.
LEMMA InvOtherCalls ==
  ASSUME TimerInv, OtherCalls
  PROVE  TimerInv'
  <1>1. PICK t \in Made, k \in Tasks : k.t = t /\ k.op # "add" /\ queueInLoop(k)
    <2>1. PICK t \in Made :
            \/ queueInLoop([op |-> "remove", t |-> t])
            \/ \E off \in BOOLEAN : queueInLoop([op |-> "cancel", t |-> t, off |-> off])
      BY DEF OtherCalls
    <2>2. t \in Timers
      BY EntriesAreNumbers DEF TimerInv
    <2>3. QED
      BY <2>1, <2>2, TaskTypes
  <1>2. /\ m_timers' = m_timers /\ phase' = phase /\ iter' = iter /\ now' = now
        /\ clock' = clock /\ seen' = seen /\ ran' = ran /\ functors' = functors
        /\ removed' = removed /\ timer' = timer
    BY DEF OtherCalls
  <1>3. Records' /\ SameTimers /\ Fields /\ Made' = Made
    BY <1>2, FieldTypes DEF TimerInv, Records, Made, SameTimers
  <1>4. PICK n : n = Len(Chain)
    OBVIOUS
  <1>5. /\ m_pendingFunctors' \in Seq(Tasks) /\ n \in Nat
        /\ Len(Chain') = n + 1 /\ Chain'[n + 1] = k
        /\ \A i \in 1..n : Chain'[i] = Chain[i]
    BY <1>1, <1>2, <1>4, ChainAppend DEF TimerInv
  <1>6. Types'
    BY <1>2, <1>3, <1>5 DEF TimerInv, Types
  <1>7. \A x : Present(x)' <=> Present(x)
    BY <1>2 DEF Present
  <1>8. Filed' /\ RemovedStaysOut' /\ Iterator' /\ NotPassed'
    BY <1>2, <1>3, <1>7 DEF TimerInv, Filed, RemovedStaysOut, Iterator, NotPassed, Once
  <1>9. \A x \in Made : Waiting(x) => Waiting(x)'
    BY <1>2, <1>3, <1>7, WaitingFrame DEF Waiting
  <1>10. QueuedIn(Chain)'
    <2> SUFFICES ASSUME NEW i \in 1..(n + 1)
                 PROVE  /\ Chain'[i].t \in Made
                        /\ Chain'[i].op = "add" =>
                             /\ \A x : x = Chain'[i].t => Waiting(x)'
                             /\ \A j \in 1..(i - 1) : Chain'[j].t # Chain'[i].t
      BY <1>3, <1>5 DEF QueuedIn
    <2>1. CASE i \in 1..n
      <3>1. /\ Chain[i].t \in Made
            /\ Chain[i].op = "add" =>
                 Waiting(Chain[i].t) /\ \A j \in 1..(i - 1) : Chain[j].t # Chain[i].t
        BY <1>4, <2>1 DEF TimerInv, Queued, QueuedIn
      <3>2. Chain'[i] = Chain[i] /\ \A j \in 1..(i - 1) : Chain'[j] = Chain[j]
        BY <1>5, <2>1
      <3>3. QED
        BY <1>9, <3>1, <3>2
    <2>2. CASE i = n + 1
      BY <1>1, <1>5, <2>2
    <2>3. QED
      BY <1>5, <2>1, <2>2
  <1>11. Queued'
    BY <1>2, <1>10 DEF TimerInv, Queued
  <1>12. \A x \in Made : InRun(x)' <=> InRun(x)
    BY <1>2 DEF InRun
  <1>13. OneRun'
    BY <1>2, <1>3, <1>7, <1>12, OneRunFrame DEF TimerInv
  <1>14. Schedule'
    BY <1>2, <1>3, <1>12, ScheduleFrame DEF TimerInv, Types, Records
  <1>15. QED
    BY <1>3, <1>6, <1>8, <1>11, <1>13, <1>14 DEF TimerInv

\* The swap keeps the order of the tasks.
LEMMA InvBeginTasks ==
  ASSUME TimerInv, BeginTasks
  PROVE  TimerInv'
  <1>1. /\ phase = "poll" /\ phase' = "tasks" /\ now' = now /\ seen' = seen
        /\ clock' = clock /\ timer' = timer /\ m_timers' = m_timers /\ ran' = ran
        /\ functors' = m_pendingFunctors /\ m_pendingFunctors' = <<>>
        /\ removed' = removed
    BY DEF BeginTasks
  <1>2. Records' /\ SameTimers /\ Fields /\ Made' = Made
    BY <1>1, FieldTypes DEF TimerInv, Records, Made, SameTimers
  <1>3. Types'
    BY <1>1, <1>2 DEF TimerInv, Types
  <1>4. Filed' /\ RemovedStaysOut' /\ Iterator' /\ NotPassed'
    BY <1>1 DEF TimerInv, Filed, RemovedStaysOut, Present, Iterator, NotPassed
  <1>5. \A t \in Made : Present(t)' <=> Present(t)
    BY <1>1 DEF Present
  <1>6. Queued'
    <2>1. \A t \in Made : Waiting(t) => Waiting(t)'
      BY <1>1, <1>2, <1>5, WaitingFrame DEF Waiting
    <2>2. Chain' = Chain
      <3>1. functors = <<>> /\ m_pendingFunctors \in Seq(Tasks)
        BY <1>1 DEF TimerInv, Queued, Types
      <3>2. QED
        BY <1>1, <3>1 DEF Chain
    <2>3. QueuedIn(Chain)'
      BY <1>2, <2>1, <2>2, QueuedFrame DEF TimerInv, Queued
    <2>4. QED
      BY <1>1, <2>3 DEF Queued
  <1>7. \A t \in Made : InRun(t)' <=> InRun(t)
    BY <1>1 DEF InRun
  <1>8. OneRun'
    BY <1>1, <1>2, <1>5, <1>7, OneRunFrame DEF TimerInv
  <1>9. Schedule'
    BY <1>1, <1>2, <1>7, ScheduleFrame DEF TimerInv, Types, Records
  <1>10. QED
    BY <1>2, <1>3, <1>4, <1>6, <1>8, <1>9 DEF TimerInv

\* A task that has run leaves what still waits as it was.
LEMMA RunTaskQueue ==
  ASSUME TimerInv, RunTask, Made' = Made, SameTimers,
         \A x \in Made : x # Head(functors).t => (Present(x)' => Present(x)),
         \A x \in Made : x # Head(functors).t => (x \in removed' => x \in removed)
  PROVE  Queued' /\ functors' \in Seq(Tasks)
  <1>1. /\ phase = "tasks" /\ phase' = "tasks" /\ functors # <<>>
        /\ functors' = Tail(functors) /\ m_pendingFunctors' = m_pendingFunctors
        /\ ran' = ran
    BY DEF RunTask
  <1>2. PICK n, k : n = Len(Chain) /\ k = Head(functors)
    OBVIOUS
  <1>3. /\ functors' \in Seq(Tasks) /\ n \in Nat /\ n > 0 /\ Chain[1] = k
        /\ Len(Chain') = n - 1
        /\ \A i \in 1..(n - 1) : Chain'[i] = Chain[i + 1]
    BY <1>1, <1>2, ChainTail DEF TimerInv
  <1>4. QueuedIn(Chain)'
    <2> SUFFICES ASSUME NEW i \in 1..(n - 1)
                 PROVE  /\ Chain'[i].t \in Made
                        /\ Chain'[i].op = "add" =>
                             /\ \A x : x = Chain'[i].t => Waiting(x)'
                             /\ \A j \in 1..(i - 1) : Chain'[j].t # Chain'[i].t
      BY <1>3 DEF QueuedIn
    <2>1. i + 1 \in 1..n /\ 1 \in 1..((i + 1) - 1) /\ Chain'[i] = Chain[i + 1]
      BY <1>3
    <2>2. /\ Chain[i + 1].t \in Made
          /\ Chain[i + 1].op = "add" =>
               /\ Waiting(Chain[i + 1].t)
               /\ \A j \in 1..((i + 1) - 1) : Chain[j].t # Chain[i + 1].t
      BY <1>2, <2>1 DEF TimerInv, Queued, QueuedIn
    <2>3. ASSUME Chain[i + 1].op = "add", NEW x, x = Chain[i + 1].t
          PROVE  Waiting(x)'
      <3>1. x \in Made /\ Waiting(x) /\ x # k.t
        BY <1>3, <2>1, <2>2, <2>3
      <3>2. ~Present(x)' /\ x \notin removed'
        BY <1>2, <3>1 DEF Waiting
      <3>3. QED
        BY <1>1, <3>1, <3>2, WaitingFrame
    <2>4. ASSUME Chain[i + 1].op = "add", NEW j \in 1..(i - 1)
          PROVE  Chain'[j].t # Chain[i + 1].t
      <3>1. j \in 1..(n - 1) /\ j + 1 \in 1..((i + 1) - 1)
        BY <1>3
      <3>2. Chain'[j] = Chain[j + 1]
        BY <1>3, <3>1
      <3>3. QED
        BY <2>2, <2>4, <3>1, <3>2
    <2>5. QED
      BY <2>1, <2>2, <2>3, <2>4
  <1>5. QED
    BY <1>1, <1>3, <1>4 DEF Queued

\* Running the first task: an insertion is not preceded by a removal.
LEMMA InvRunTask ==
  ASSUME TimerInv, RunTask
  PROVE  TimerInv'
  <1>1. PICK k : k = Head(functors)
    OBVIOUS
  <1>2. /\ phase = "tasks" /\ phase' = "tasks" /\ functors # <<>>
        /\ functors' = Tail(functors) /\ m_pendingFunctors' = m_pendingFunctors
        /\ ran' = ran /\ clock' = clock /\ now' = now /\ iter' = iter /\ seen' = seen
    BY DEF RunTask
  <1>3. /\ Chain[1] = k /\ 1 \in 1..Len(Chain) /\ k \in Tasks
    BY <1>1, <1>2, ChainTail DEF TimerInv
  <1>4. k.t \in Made /\ (k.op = "add" => Waiting(k.t)) /\ k.t \in Timers
    BY <1>3, TaskTypes DEF TimerInv, Queued, QueuedIn
  <1>5. Iterator' /\ NotPassed'
    BY <1>2 DEF Iterator, NotPassed
  <1>6. \A x \in Made : InRun(x)' <=> InRun(x)
    BY <1>2 DEF InRun
  <1>7. CASE k.op = "add" /\ insert(k.t, timer[k.t].expiration) /\ UNCHANGED <<timer, removed>>
    <2>1. /\ m_timers' = m_timers \cup {<<timer[k.t].expiration, k.t>>}
          /\ timer' = timer /\ removed' = removed
      BY <1>7 DEF insert
    <2>2. Records' /\ SameTimers /\ Fields /\ Made' = Made
      BY <2>1, FieldTypes DEF TimerInv, Records, Made, SameTimers
    <2>3. \A x \in Made : x # k.t => (Present(x)' => Present(x))
      BY <2>1 DEF Present
    <2>4. Queued' /\ functors' \in Seq(Tasks)
      BY <1>1, <2>1, <2>2, <2>3, RunTaskQueue
    <2>5. timer[k.t].expiration \in Nat /\ timer[k.t].expiration = timer[k.t].when
      BY <1>4, <1>7, <2>2 DEF Fields, Waiting
    <2>6. Types'
      BY <1>2, <1>4, <2>1, <2>2, <2>4, <2>5 DEF TimerInv, Types
    <2>7. Filed'
      <3> SUFFICES ASSUME NEW e \in m_timers'
                   PROVE  e[1] = timer[e[2]].when
        BY <2>1 DEF Filed
      <3>1. CASE e \in m_timers
        BY <3>1 DEF TimerInv, Filed
      <3>2. CASE e = <<timer[k.t].expiration, k.t>>
        BY <2>5, <3>2
      <3>3. QED
        BY <2>1, <3>1, <3>2
    <2>8. RemovedStaysOut'
      BY <1>4, <1>7, <2>1, <2>3 DEF TimerInv, Types, RemovedStaysOut, Waiting
    <2>9. OneRun'
      <3> SUFFICES ASSUME NEW x \in Made, Once(x)
                   PROVE  /\ timer[x].m_repeatCount \in {0, 1}
                          /\ ran[x] <= 1
                          /\ InRun(x) => timer[x].m_repeatCount = 1
                          /\ ~InRun(x) /\ timer[x].m_repeatCount = 1 => ran[x] = 0
                          /\ Present(x)' => timer[x].m_repeatCount = 1
        BY <1>2, <1>6, <2>1, <2>2 DEF OneRun, Once
      <3>1. CASE x = k.t
        BY <1>4, <1>7, <3>1 DEF TimerInv, OneRun, Waiting, Once
      <3>2. CASE x # k.t
        BY <2>3, <3>2 DEF TimerInv, OneRun
      <3>3. QED
        BY <3>1, <3>2
    <2>10. Schedule'
      BY <1>2, <1>6, <2>2, ScheduleFrame DEF TimerInv, Types, Records
    <2>11. QED
      BY <1>5, <2>2, <2>4, <2>6, <2>7, <2>8, <2>9, <2>10 DEF TimerInv
  <1>8. CASE /\ k.op = "remove" /\ removeTimerInLoop(k.t)
             /\ removed' = removed \cup {k.t} /\ UNCHANGED <<timer, since>>
    <2>1. /\ m_timers' = {e \in m_timers : e[2] # k.t} /\ timer' = timer
          /\ removed' = removed \cup {k.t}
      BY <1>8 DEF removeTimerInLoop
    <2>2. Records' /\ SameTimers /\ Fields /\ Made' = Made
      BY <2>1, FieldTypes DEF TimerInv, Records, Made, SameTimers
    <2>3. \A x \in Made : Present(x)' => Present(x) /\ x # k.t
      BY <2>1 DEF Present
    <2>4. Queued' /\ functors' \in Seq(Tasks)
      BY <1>1, <2>1, <2>2, <2>3, RunTaskQueue
    <2>5. Types'
      BY <1>2, <1>4, <2>1, <2>2, <2>4 DEF TimerInv, Types
    <2>6. Filed' /\ RemovedStaysOut'
      BY <1>4, <2>1, <2>3 DEF TimerInv, Types, Filed, RemovedStaysOut
    <2>7. OneRun'
      BY <1>2, <1>6, <2>2, <2>3, OneRunFrame DEF TimerInv
    <2>8. Schedule'
      BY <1>2, <1>6, <2>2, ScheduleFrame DEF TimerInv, Types, Records
    <2>9. QED
      BY <1>5, <2>2, <2>4, <2>5, <2>6, <2>7, <2>8 DEF TimerInv
  <1>9. CASE /\ k.op = "cancel" /\ cancelTimerInLoop(k.t, k.off)
             /\ UNCHANGED <<m_timers, removed>>
    <2>1. k.off \in BOOLEAN /\ m_timers' = m_timers /\ removed' = removed
      BY <1>3, <1>9, TaskTypes
    <2>2. Records' /\ SameTimers /\ Fields /\ Made' = Made
      BY <1>4, <1>9, <2>1, CancelFields, FieldTypes DEF TimerInv, SameTimers
    <2>3. \A x : Present(x)' <=> Present(x)
      BY <2>1 DEF Present
    <2>4. Queued' /\ functors' \in Seq(Tasks)
      BY <1>1, <2>1, <2>2, <2>3, RunTaskQueue
    <2>5. Types'
      BY <1>2, <1>4, <2>1, <2>2, <2>4 DEF TimerInv, Types
    <2>6. Filed' /\ RemovedStaysOut'
      BY <2>1, <2>2, <2>3 DEF TimerInv, Types, Filed, RemovedStaysOut, SameTimers
    <2>7. OneRun'
      BY <1>2, <1>6, <2>2, <2>3, OneRunFrame DEF TimerInv
    <2>8. Schedule'
      BY <1>2, <1>6, <2>2, ScheduleFrame DEF TimerInv, Types, Records
    <2>9. QED
      BY <1>5, <2>2, <2>4, <2>5, <2>6, <2>7, <2>8 DEF TimerInv
  <1>10. QED
    BY <1>1, <1>7, <1>8, <1>9 DEF RunTask

\* Time only moves forward.
LEMMA InvTick ==
  ASSUME TimerInv, Tick
  PROVE  TimerInv'
  <1>1. /\ clock' = clock + 1 /\ timer' = timer /\ m_timers' = m_timers /\ ran' = ran
        /\ functors' = functors /\ m_pendingFunctors' = m_pendingFunctors
        /\ phase' = phase /\ iter' = iter /\ now' = now /\ seen' = seen
        /\ removed' = removed
    BY DEF Tick
  <1>2. Records' /\ SameTimers /\ Fields /\ Made' = Made
    BY <1>1, FieldTypes DEF TimerInv, Records, Made, SameTimers
  <1>3. clock \in Nat /\ clock' \in Nat /\ clock <= clock' /\ now \in Nat /\ now <= clock'
    BY <1>1 DEF TimerInv, Types
  <1>4. Types'
    BY <1>1, <1>2, <1>3 DEF TimerInv, Types
  <1>5. Filed' /\ RemovedStaysOut' /\ Iterator' /\ NotPassed'
    BY <1>1, <1>2 DEF TimerInv, Filed, RemovedStaysOut, Present, Iterator, NotPassed, Once
  <1>6. \A t \in Made : Present(t)' <=> Present(t)
    BY <1>1 DEF Present
  <1>7. Queued'
    <2>1. \A t \in Made : Waiting(t) => Waiting(t)'
      BY <1>1, <1>2, <1>6, WaitingFrame DEF Waiting
    <2>2. QueuedIn(Chain)'
      BY <1>1, <1>2, <2>1, QueuedFrame DEF TimerInv, Queued, Chain
    <2>3. QED
      BY <1>1, <2>2 DEF Queued, TimerInv
  <1>8. \A t \in Made : InRun(t)' <=> InRun(t)
    BY <1>1 DEF InRun
  <1>9. OneRun'
    BY <1>1, <1>2, <1>6, <1>8, OneRunFrame DEF TimerInv
  <1>10. Schedule'
    BY <1>1, <1>2, <1>3, <1>8, ScheduleFrame DEF TimerInv, Types, Records
  <1>11. QED
    BY <1>2, <1>4, <1>5, <1>7, <1>9, <1>10 DEF TimerInv

\* Steps outside the timer queue change nothing.
LEMMA InvStutter ==
  ASSUME TimerInv, UNCHANGED vars
  PROVE  TimerInv'
  <1>1. /\ clock' = clock /\ timer' = timer /\ m_timers' = m_timers /\ ran' = ran
        /\ functors' = functors /\ m_pendingFunctors' = m_pendingFunctors
        /\ phase' = phase /\ iter' = iter /\ now' = now /\ seen' = seen
        /\ removed' = removed
    BY DEF vars
  <1>2. Records' /\ Types' /\ Filed' /\ Iterator' /\ RemovedStaysOut' /\ NotPassed'
    BY <1>1 DEF TimerInv, Records, Types, Made, Filed, Iterator, RemovedStaysOut, Present,
                NotPassed, Once
  <1>3. Queued'
    BY <1>1 DEF TimerInv, Queued, QueuedIn, Chain, Waiting, Made, Present
  <1>4. OneRun' /\ Schedule'
    BY <1>1 DEF TimerInv, OneRun, Schedule, Made, Once, InRun, Present
  <1>5. QED
    BY <1>2, <1>3, <1>4 DEF TimerInv

\* The invariant holds in every reachable state.
LEMMA InvAlways == Spec => []TimerInv
  <1>1. TimerInv /\ [Next]_vars => TimerInv'
    BY InvBeginTimers, InvSkipTimer, InvCallTimer, InvReturnFromTimer, InvEndTimers,
       InvLoopAdds, InvLoopRemoves, InvLoopCancels, InvOtherAdds, InvOtherCalls,
       InvBeginTasks, InvRunTask, InvTick, InvStutter DEF Next
  <1>2. QED
    BY InvInit, <1>1, PTL DEF Spec

-----------------------------------------------------------------------------
(* The theorems.                                                           *)

(***************************************************************************)
(* No timer runs before its time or oftener than its interval allows, and  *)
(* one made by the moving overload of runAt or runAfter runs once, however *)
(* doTimer, the callbacks and the queued calls interleave.                 *)
(***************************************************************************)
THEOREM TimersNeverAhead == Spec => []NeverAhead
  <1>1. TimerInv => NeverAhead
    BY DEF TimerInv, OneRun, Schedule, Once, NeverAhead
  <1>2. QED
    BY <1>1, InvAlways, PTL

(***************************************************************************)
(* Timers that run once, were there when doTimer began and have not been   *)
(* cancelled run in the order of their due times: the iterator has never   *)
(* passed one of them that is still in the set.                            *)
(***************************************************************************)
THEOREM TimersRunInDueOrder == Spec => []RunInDueOrder
  <1>1. TimerInv => RunInDueOrder
    <2> SUFFICES ASSUME TimerInv, phase = "callback", NEW e \in seen \cap m_timers,
                        timer[e[2]].asked = 1, timer[e[2]].moved
                 PROVE  timer[iter[2]].when <= timer[e[2]].when
      BY DEF RunInDueOrder
    <2>1. iter \in Nat \X Made /\ iter # End /\ iter[1] = timer[iter[2]].when
      BY DEF TimerInv, Iterator
    <2>2. ~Before(e, iter)
      BY <2>1 DEF TimerInv, NotPassed, Once
    <2>3. e \in Nat \X Nat /\ iter \in Nat \X Nat /\ e[1] = timer[e[2]].when
      BY <2>1, EntriesAreNumbers DEF TimerInv, Filed
    <2>4. iter[1] <= e[1]
      BY <2>2, <2>3 DEF Before
    <2>5. QED
      BY <2>1, <2>3, <2>4
  <1>2. QED
    BY <1>1, InvAlways, PTL

(***************************************************************************)
(* A queued removal is final: its functor runs behind the one that inserts *)
(* the timer, whichever threads queued them and however often the loop     *)
(* swapped the queue in between.                                           *)
(***************************************************************************)
THEOREM RemovalIsFinal == Spec => []RemovedStaysOut
  <1>1. TimerInv => RemovedStaysOut
    BY DEF TimerInv
  <1>2. QED
    BY <1>1, InvAlways, PTL

-----------------------------------------------------------------------------
(* Sums of intervals.                                                      *)

\* The intervals of the timers of A, added up.
SumOf(tm, A) == MapThenSumSet(LAMBDA t : tm[t].interval, A)

\* The element MapThenSumSet takes first, and the function it computes with.
Pick(s) == CHOOSE x \in s : TRUE

Adds(F, tm, A) ==
  F = [s \in SUBSET A |-> IF s = {} THEN 0 ELSE tm[Pick(s)].interval + F[s \ {Pick(s)}]]

\* SumOf is defined by recursion over the subsets of A.
LEMMA SumIs ==
  ASSUME NEW tm, NEW A
  PROVE  SumOf(tm, A) = (CHOOSE F : Adds(F, tm, A))[A]
  BY Zenon DEF SumOf, MapThenSumSet, MapThenFoldSet, Adds, Pick

\* What holds of n whenever it holds of every smaller number holds of all.
LEMMA AllNat ==
  ASSUME NEW T \in SUBSET Nat, \A n \in Nat : (\A m \in Nat : m < n => m \in T) => n \in T
  PROVE  T = Nat
  <1> SUFFICES ASSUME Nat \ T # {}
               PROVE  FALSE
    OBVIOUS
  <1>1. PICK x \in Nat \ T : \A y \in Nat \ T : x <= y
    BY LeastNat
  <1>2. \A m \in Nat : m < x => m \in T
    BY <1>1
  <1>3. QED
    BY <1>1, <1>2

\* A set without one of its elements is a smaller finite set.
LEMMA OneLess ==
  ASSUME NEW s, IsFiniteSet(s), NEW x \in s
  PROVE  /\ IsFiniteSet(s \ {x}) /\ Cardinality(s) \in Nat /\ Cardinality(s \ {x}) \in Nat
         /\ Cardinality(s \ {x}) = Cardinality(s) - 1
  BY FS_RemoveElement, FS_CardinalityType

\* The element taken is one of the set.
LEMMA PickIn ==
  ASSUME NEW s, s # {}
  PROVE  Pick(s) \in s
  BY DEF Pick

\* The intervals of the timers of A are numbers.
HasIntervals(tm, A) == \A t \in A : tm[t].interval \in Nat

\* The subsets of at most n elements, and a function that solves the recursion on
\* them.
Small(A, n) == {s \in SUBSET A : Cardinality(s) <= n}

AddsSmall(F, tm, A, n) ==
  /\ F \in [Small(A, n) -> Nat]
  /\ \A s \in Small(A, n) :
       F[s] = IF s = {} THEN 0 ELSE tm[Pick(s)].interval + F[s \ {Pick(s)}]

\* The recursion has a solution, found for larger and larger subsets.
LEMMA SmallSums ==
  ASSUME NEW tm, NEW A, IsFiniteSet(A), HasIntervals(tm, A), NEW n \in Nat
  PROVE  \E F : AddsSmall(F, tm, A, n)
  <1> DEFINE T == {m \in Nat : \E F : AddsSmall(F, tm, A, m)}
  <1>1. ASSUME NEW m \in Nat, \A k \in Nat : k < m => k \in T
        PROVE  m \in T
    <2>1. CASE m = 0
      <3> DEFINE F == [s \in Small(A, 0) |-> 0]
      <3>1. ASSUME NEW s \in Small(A, 0)
            PROVE  s = {}
        <4>1. IsFiniteSet(s) /\ Cardinality(s) \in Nat /\ Cardinality(s) <= 0
          BY FS_Subset, FS_CardinalityType DEF Small
        <4>2. Cardinality(s) = 0
          BY <4>1
        <4>3. QED
          BY <4>1, <4>2, FS_EmptySet
      <3>2. AddsSmall(F, tm, A, 0)
        BY <3>1 DEF AddsSmall
      <3>3. QED
        BY <2>1, <3>2
    <2>2. CASE m > 0
      <3>1. m - 1 \in Nat /\ m - 1 < m
        BY <2>2
      <3>2. PICK G : AddsSmall(G, tm, A, m - 1)
        BY <3>1, <1>1
      <3> DEFINE F == [s \in Small(A, m) |->
                         IF s = {} THEN 0 ELSE tm[Pick(s)].interval + G[s \ {Pick(s)}]]
      <3>3. ASSUME NEW s \in Small(A, m), s # {}
            PROVE  /\ s \ {Pick(s)} \in Small(A, m - 1) /\ s \ {Pick(s)} \in Small(A, m)
                   /\ tm[Pick(s)].interval \in Nat
        <4>1. IsFiniteSet(s) /\ Pick(s) \in s /\ s \subseteq A /\ Cardinality(s) <= m
          BY <3>3, FS_Subset, PickIn DEF Small
        <4>2. Cardinality(s \ {Pick(s)}) = Cardinality(s) - 1 /\ Cardinality(s) \in Nat
              /\ Cardinality(s \ {Pick(s)}) \in Nat
          BY <4>1, OneLess
        <4>3. Cardinality(s \ {Pick(s)}) <= m - 1 /\ Cardinality(s \ {Pick(s)}) <= m
          BY <4>1, <4>2
        <4>4. QED
          BY <4>1, <4>3 DEF Small, HasIntervals
      <3>4. \A s \in Small(A, m - 1) : s \in Small(A, m) /\ F[s] = G[s]
        <4>1. ASSUME NEW s \in Small(A, m - 1)
              PROVE  s \in Small(A, m)
          <5>1. IsFiniteSet(s) /\ Cardinality(s) \in Nat /\ Cardinality(s) <= m - 1
            BY FS_Subset, FS_CardinalityType DEF Small
          <5>2. Cardinality(s) <= m
            BY <5>1
          <5>3. QED
            BY <5>2 DEF Small
        <4>2. QED
          BY <4>1, <3>2 DEF AddsSmall
      <3>5. \A s \in Small(A, m) : s # {} => G[s \ {Pick(s)}] \in Nat
        BY <3>2, <3>3 DEF AddsSmall
      <3>6. F \in [Small(A, m) -> Nat]
        BY <3>3, <3>5
      <3>7. \A s \in Small(A, m) :
              F[s] = IF s = {} THEN 0 ELSE tm[Pick(s)].interval + F[s \ {Pick(s)}]
        BY <3>3, <3>4
      <3> HIDE DEF F
      <3>8. AddsSmall(F, tm, A, m)
        BY <3>6, <3>7 DEF AddsSmall
      <3>9. QED
        BY <3>8
    <2>3. QED
      BY <2>1, <2>2
  <1> HIDE DEF T
  <1>2. T \in SUBSET Nat
    BY DEF T
  <1>3. T = Nat
    BY <1>1, <1>2, AllNat
  <1>4. QED
    BY <1>3 DEF T

\* F solves the recursion.
Solves(F, tm, A) ==
  \A s \in SUBSET A :
    F[s] = IF s = {} THEN 0 ELSE tm[Pick(s)].interval + F[s \ {Pick(s)}]

\* The two functions agree on the subsets of B.
Agree(F, G, B) == \A s \in SUBSET B : F[s] = G[s]

\* Any element can be the one taken first.
AnyFirst(F, tm, A) == \A s \in SUBSET A : \A x \in s : F[s] = tm[x].interval + F[s \ {x}]

\* There is only one solution, which depends on the intervals alone.
LEMMA SolvesOnce ==
  ASSUME NEW tm, NEW tn, NEW A, NEW B, IsFiniteSet(B), B \subseteq A,
         NEW F, NEW G, Solves(F, tm, A), Solves(G, tn, B),
         \A t \in B : tm[t].interval = tn[t].interval
  PROVE  Agree(F, G, B)
  <1> DEFINE T == {n \in Nat : \A s \in SUBSET B : Cardinality(s) = n => F[s] = G[s]}
  <1>1. ASSUME NEW n \in Nat, \A k \in Nat : k < n => k \in T
        PROVE  n \in T
    <2> SUFFICES ASSUME NEW s \in SUBSET B, Cardinality(s) = n
                 PROVE  F[s] = G[s]
      OBVIOUS
    <2>1. CASE s = {}
      BY <2>1 DEF Solves
    <2>2. CASE s # {}
      <3>1. Pick(s) \in s /\ IsFiniteSet(s)
        BY <2>2, PickIn, FS_Subset
      <3>2. /\ Cardinality(s \ {Pick(s)}) \in Nat
            /\ Cardinality(s \ {Pick(s)}) = n - 1
        BY <3>1, OneLess
      <3>3. Cardinality(s \ {Pick(s)}) < n
        BY <3>2
      <3>4. F[s \ {Pick(s)}] = G[s \ {Pick(s)}]
        BY <1>1, <3>2, <3>3
      <3>5. s \in SUBSET A /\ tm[Pick(s)].interval = tn[Pick(s)].interval
        BY <3>1
      <3>6. QED
        BY <2>2, <3>4, <3>5 DEF Solves
    <2>3. QED
      BY <2>1, <2>2
  <1> HIDE DEF T
  <1>2. T \in SUBSET Nat
    BY DEF T
  <1>3. T = Nat
    BY <1>1, <1>2, AllNat
  <1>4. ASSUME NEW s \in SUBSET B
        PROVE  F[s] = G[s]
    <2>1. Cardinality(s) \in T
      BY <1>3, FS_Subset, FS_CardinalityType
    <2>2. QED
      BY <2>1 DEF T
  <1>5. QED
    BY <1>4 DEF Agree

\* MapThenSumSet is the value of the solution.
LEMMA SumSolves ==
  ASSUME NEW tm, NEW A, IsFiniteSet(A), HasIntervals(tm, A)
  PROVE  \E F \in [SUBSET A -> Nat] : Solves(F, tm, A) /\ SumOf(tm, A) = F[A]
  <1>1. Cardinality(A) \in Nat
    BY FS_CardinalityType
  <1>2. Small(A, Cardinality(A)) = SUBSET A
    BY FS_Subset DEF Small
  <1>3. PICK G : AddsSmall(G, tm, A, Cardinality(A))
    BY <1>1, SmallSums
  <1>4. Adds(G, tm, A) /\ G \in [SUBSET A -> Nat]
    BY <1>2, <1>3 DEF AddsSmall, Adds
  <1>5. PICK F : F = CHOOSE H : Adds(H, tm, A)
    OBVIOUS
  <1>6. Adds(F, tm, A)
    BY <1>4, <1>5
  <1>7. SumOf(tm, A) = F[A]
    BY <1>5, SumIs
  <1>8. Solves(F, tm, A) /\ Solves(G, tm, A)
    BY <1>4, <1>6 DEF Adds, Solves
  <1>9. Agree(F, G, A)
    <2>1. A \subseteq A /\ \A t \in A : tm[t].interval = tm[t].interval
      OBVIOUS
    <2>2. QED
      BY <1>8, <2>1, SolvesOnce
  <1>10. SumOf(tm, A) = G[A]
    BY <1>7, <1>9 DEF Agree
  <1>11. QED
    BY <1>4, <1>8, <1>10, Zenon

\* It does not matter which element is taken.
LEMMA AddedInAnyOrder ==
  ASSUME NEW tm, NEW A, IsFiniteSet(A), HasIntervals(tm, A),
         NEW F \in [SUBSET A -> Nat], Solves(F, tm, A)
  PROVE  AnyFirst(F, tm, A)
  <1> DEFINE T == {n \in Nat : \A s \in SUBSET A : Cardinality(s) = n =>
                                 \A x \in s : F[s] = tm[x].interval + F[s \ {x}]}
  <1>1. ASSUME NEW n \in Nat, \A k \in Nat : k < n => k \in T
        PROVE  n \in T
    <2> SUFFICES ASSUME NEW s \in SUBSET A, Cardinality(s) = n, NEW x \in s
                 PROVE  F[s] = tm[x].interval + F[s \ {x}]
      OBVIOUS
    <2> DEFINE p == Pick(s)
    <2>1. p \in s /\ IsFiniteSet(s)
      BY PickIn, FS_Subset
    <2>2. F[s] = tm[p].interval + F[s \ {p}]
      BY <2>1 DEF Solves
    <2> HIDE DEF p
    <2>3. CASE x = p
      BY <2>2, <2>3
    <2>4. CASE x # p
      <3>1. /\ Cardinality(s \ {p}) \in Nat /\ Cardinality(s \ {p}) < n
            /\ Cardinality(s \ {x}) \in Nat /\ Cardinality(s \ {x}) < n
        BY <2>1, OneLess
      <3>2. x \in s \ {p} /\ p \in s \ {x} /\ (s \ {p}) \ {x} = (s \ {x}) \ {p}
        BY <2>1, <2>4
      <3>3. F[s \ {p}] = tm[x].interval + F[(s \ {p}) \ {x}]
        BY <1>1, <3>1, <3>2
      <3>4. F[s \ {x}] = tm[p].interval + F[(s \ {x}) \ {p}]
        BY <1>1, <3>1, <3>2
      <3>5. PICK f : f = F[(s \ {x}) \ {p}]
        OBVIOUS
      <3>6. f \in Nat /\ tm[x].interval \in Nat /\ tm[p].interval \in Nat
        BY <3>5, <2>1 DEF HasIntervals
      <3>7. F[s] = tm[p].interval + (tm[x].interval + f)
        BY <2>2, <3>2, <3>3, <3>5
      <3>8. tm[x].interval + F[s \ {x}] = tm[x].interval + (tm[p].interval + f)
        BY <3>4, <3>5
      <3>9. QED
        BY <3>6, <3>7, <3>8
    <2>5. QED
      BY <2>3, <2>4
  <1> HIDE DEF T
  <1>2. T \in SUBSET Nat
    BY DEF T
  <1>3. T = Nat
    BY <1>1, <1>2, AllNat
  <1>4. ASSUME NEW s \in SUBSET A
        PROVE  \A x \in s : F[s] = tm[x].interval + F[s \ {x}]
    <2>1. Cardinality(s) \in T
      BY <1>3, FS_Subset, FS_CardinalityType
    <2>2. QED
      BY <2>1 DEF T
  <1>5. QED
    BY <1>4 DEF AnyFirst

\* The sum over more timers is no smaller.
LEMMA SumGrows ==
  ASSUME NEW tm, NEW tn, NEW A, NEW B, IsFiniteSet(A), HasIntervals(tm, A), B \subseteq A,
         \A t \in B : tn[t].interval = tm[t].interval
  PROVE  SumOf(tn, B) \in Nat /\ SumOf(tm, A) \in Nat /\ SumOf(tn, B) <= SumOf(tm, A)
  <1>1. PICK F \in [SUBSET A -> Nat] : Solves(F, tm, A) /\ SumOf(tm, A) = F[A]
    BY SumSolves
  <1>2. IsFiniteSet(B) /\ HasIntervals(tn, B)
    BY FS_Subset DEF HasIntervals
  <1>3. PICK G \in [SUBSET B -> Nat] : Solves(G, tn, B) /\ SumOf(tn, B) = G[B]
    BY <1>2, SumSolves
  <1>4. F[B] = G[B]
    <2>1. Agree(F, G, B)
      BY <1>1, <1>2, <1>3, SolvesOnce
    <2>2. QED
      BY <2>1 DEF Agree
  <1> DEFINE T == {n \in Nat : \A s \in SUBSET A : B \subseteq s /\ Cardinality(s) = n =>
                                 F[B] <= F[s]}
  <1>5. ASSUME NEW n \in Nat, \A k \in Nat : k < n => k \in T
        PROVE  n \in T
    <2> SUFFICES ASSUME NEW s \in SUBSET A, B \subseteq s, Cardinality(s) = n
                 PROVE  F[B] <= F[s]
      OBVIOUS
    <2>1. CASE s = B
      BY <2>1
    <2>2. CASE s # B
      <3>1. PICK x \in s : x \notin B
        BY <2>2
      <3>2. IsFiniteSet(s)
        BY FS_Subset
      <3>3. Cardinality(s \ {x}) \in Nat /\ Cardinality(s \ {x}) < n
        BY <3>2, OneLess
      <3>4. F[B] <= F[s \ {x}]
        BY <1>5, <3>1, <3>3
      <3>5. F[s] = tm[x].interval + F[s \ {x}]
        <4>1. AnyFirst(F, tm, A)
          BY <1>1, AddedInAnyOrder
        <4>2. QED
          BY <4>1 DEF AnyFirst
      <3>6. F[s \ {x}] \in Nat /\ F[B] \in Nat /\ tm[x].interval \in Nat
        BY DEF HasIntervals
      <3>7. \A a, b, c \in Nat : a <= b => a <= c + b
        OBVIOUS
      <3>8. QED
        BY <3>4, <3>5, <3>6, <3>7, Zenon
    <2>3. QED
      BY <2>1, <2>2
  <1> HIDE DEF T
  <1>6. T \in SUBSET Nat
    BY DEF T
  <1>7. T = Nat
    BY <1>5, <1>6, AllNat
  <1>8. Cardinality(A) \in T
    BY <1>7, FS_CardinalityType
  <1>9. F[B] <= F[A]
    BY <1>8 DEF T
  <1>10. QED
    BY <1>1, <1>3, <1>4, <1>9

\* One more timer adds its interval.
LEMMA SumOneMore ==
  ASSUME NEW tm, NEW A, IsFiniteSet(A), HasIntervals(tm, A), NEW B, B \subseteq A,
         NEW x \in A, x \notin B
  PROVE  tm[x].interval + SumOf(tm, B) <= SumOf(tm, A)
  <1> DEFINE C == B \cup {x}
  <1>1. /\ IsFiniteSet(C) /\ HasIntervals(tm, C) /\ C \subseteq A /\ C \ {x} = B
        /\ B \subseteq C /\ x \in C /\ C \in SUBSET C
    BY FS_Subset DEF HasIntervals
  <1>2. PICK F \in [SUBSET C -> Nat] : Solves(F, tm, C) /\ SumOf(tm, C) = F[C]
    BY <1>1, SumSolves
  <1>3. IsFiniteSet(B) /\ HasIntervals(tm, B)
    BY FS_Subset DEF HasIntervals
  <1>4. PICK G \in [SUBSET B -> Nat] : Solves(G, tm, B) /\ SumOf(tm, B) = G[B]
    BY <1>3, SumSolves
  <1>5. F[B] = G[B]
    <2>1. Agree(F, G, B)
      BY <1>1, <1>2, <1>3, <1>4, SolvesOnce
    <2>2. QED
      BY <2>1 DEF Agree
  <1>6. F[C] = tm[x].interval + F[C \ {x}]
    <2>1. AnyFirst(F, tm, C)
      BY <1>1, <1>2, AddedInAnyOrder
    <2>2. QED
      BY <1>1, <2>1 DEF AnyFirst
  <1>7. SumOf(tm, C) <= SumOf(tm, A)
    BY <1>1, SumGrows
  <1>8. SumOf(tm, C) = tm[x].interval + SumOf(tm, B)
    BY <1>1, <1>2, <1>4, <1>5, <1>6, Zenon
  <1>9. QED
    BY <1>7, <1>8, Zenon

-----------------------------------------------------------------------------
(* How long a timer waits.                                                 *)

\* The entry has not run yet and may.
Pending(e) == e \in m_timers /\ ran[e[2]] = 0 /\ ~timer[e[2]].m_canceled

\* From when its wait is counted.
From(e) == IF since[e[2]] < e[1] THEN e[1] ELSE since[e[2]]

\* The timers from f on in front of e.
Between(f, e) ==
  {t \in Made : ~Before(<<timer[t].when, t>>, f) /\ Before(<<timer[t].when, t>>, e)}

\* doTimer is under way.
InPass == phase \in {"timers", "callback"}

\* A pass begun after the wait of an entry has not gone beyond it.
NotReached ==
  \A e \in m_timers : InPass /\ Pending(e) /\ From(e) < now => iter # End /\ ~Before(e, iter)

\* Nothing stands between the iterator and e: this pass will run it.
Clear(e) ==
  /\ InPass /\ From(e) < now
  /\ \A g \in m_timers :
       Before(g, e) /\ ~Before(g, iter) /\ (phase = "callback" => g # iter)
         => timer[g[2]].expiration <= now

\* The timers in front of e are due again before their share of its wait is over.
InTurn(e) ==
  \A f \in m_timers : Before(f, e) =>
     timer[f[2]].expiration <= From(e) + SumOf(timer, Between(f, e))

Turns == \A e \in m_timers : Pending(e) => Clear(e) \/ InTurn(e)

\* After a pass at the present time the wait is not over: something was in front.
Early ==
  \A e \in m_timers : fresh /\ Pending(e) =>
     clock <= From(e) \/ clock < From(e) + SumOf(timer, InFront(e))

\* The bound itself.
Bounded ==
  \A e \in m_timers : Pending(e) => clock <= From(e) + 1 + SumOf(timer, InFront(e))

\* No timer is due more than an interval ahead, and one that has not run is due
\* when it was asked to be.
Expiry ==
  \A t \in Made :
     /\ \/ timer[t].expiration <= timer[t].when
        \/ timer[t].expiration <= clock + timer[t].interval
     /\ ran[t] = 0 => timer[t].expiration = timer[t].when

\* A callback that runs was due.
Called == phase = "callback" => ran[iter[2]] > 0 /\ timer[iter[2]].expiration <= now

WaitTypes == IsFiniteSet(Made) /\ since \in [Timers -> Nat]

Waits == NotReached /\ Turns /\ Early /\ Bounded

WaitInv == WaitTypes /\ Expiry /\ Called /\ (phase # "crashed" => Waits)

\* What is known of an entry.
LEMMA EntryFacts ==
  ASSUME TimerInv, WaitTypes
  PROVE  \A e \in m_timers :
           /\ e \in Nat \X Nat /\ e[1] \in Nat /\ e[2] \in Nat /\ e = <<e[1], e[2]>>
           /\ e[2] \in Made /\ e[1] = timer[e[2]].when
           /\ From(e) \in Nat /\ e[1] <= From(e) /\ since[e[2]] <= From(e)
  <1> SUFFICES ASSUME NEW e \in m_timers
               PROVE  /\ e \in Nat \X Nat /\ e[1] \in Nat /\ e[2] \in Nat
                      /\ e = <<e[1], e[2]>>
                      /\ e[2] \in Made /\ e[1] = timer[e[2]].when
                      /\ From(e) \in Nat /\ e[1] <= From(e) /\ since[e[2]] <= From(e)
    OBVIOUS
  <1>1. e \in Nat \X Nat /\ e[2] \in Made /\ e[2] \in Timers
    BY EntriesAreNumbers DEF TimerInv, Types
  <1>2. e[1] \in Nat /\ e[2] \in Nat /\ e = <<e[1], e[2]>>
    BY <1>1
  <1>3. e[1] = timer[e[2]].when
    BY DEF TimerInv, Filed
  <1>4. since[e[2]] \in Nat
    BY <1>1 DEF WaitTypes
  <1>5. From(e) \in Nat /\ e[1] <= From(e) /\ since[e[2]] <= From(e)
    BY <1>2, <1>4 DEF From
  <1>6. QED
    BY <1>1, <1>2, <1>3, <1>5

\* The bound of BoundedWait.
LEMMA BoundIs ==
  ASSUME NEW e
  PROVE  WaitBound(e) = 1 + SumOf(timer, InFront(e))
  BY Zenon DEF WaitBound, SumOf

\* The intervals in front of an entry, added up.
LEMMA BetweenSums ==
  ASSUME Records, IsFiniteSet(Made), NEW f \in Nat \X Nat, NEW e \in Nat \X Nat
  PROVE  /\ SumOf(timer, Between(f, e)) \in Nat /\ SumOf(timer, InFront(e)) \in Nat
         /\ SumOf(timer, Between(f, e)) <= SumOf(timer, InFront(e))
         /\ f[2] \in Made /\ f[1] = timer[f[2]].when /\ Before(f, e) =>
              /\ timer[f[2]].interval <= SumOf(timer, Between(f, e))
              /\ \A g \in Nat \X Nat : Before(f, g) =>
                   timer[f[2]].interval + SumOf(timer, Between(g, e))
                     <= SumOf(timer, Between(f, e))
  <1>1. HasIntervals(timer, Made)
    BY FieldTypes DEF Fields, HasIntervals
  <1>2. \A S \in SUBSET Made : IsFiniteSet(S) /\ HasIntervals(timer, S)
    BY <1>1, FS_Subset DEF HasIntervals
  <1>3. \A g \in Nat \X Nat : Between(g, e) \in SUBSET Made /\ InFront(e) \in SUBSET Made
                              /\ Between(g, e) \subseteq InFront(e)
    BY DEF Between, InFront
  <1>4. /\ SumOf(timer, Between(f, e)) \in Nat /\ SumOf(timer, InFront(e)) \in Nat
        /\ SumOf(timer, Between(f, e)) <= SumOf(timer, InFront(e))
    BY <1>2, <1>3, SumGrows
  <1>5. ASSUME f[2] \in Made, f[1] = timer[f[2]].when, Before(f, e)
        PROVE  /\ timer[f[2]].interval <= SumOf(timer, Between(f, e))
               /\ \A g \in Nat \X Nat : Before(f, g) =>
                    timer[f[2]].interval + SumOf(timer, Between(g, e))
                      <= SumOf(timer, Between(f, e))
    <2>1. f = <<timer[f[2]].when, f[2]>> /\ ~Before(f, f)
      BY <1>5 DEF Before
    <2>2. f[2] \in Between(f, e)
      BY <1>5, <2>1 DEF Between
    <2>3. ASSUME NEW g \in Nat \X Nat, Before(f, g)
          PROVE  timer[f[2]].interval + SumOf(timer, Between(g, e))
                   <= SumOf(timer, Between(f, e))
      <3>1. f[2] \notin Between(g, e)
        BY <2>1, <2>3 DEF Between
      <3>2. Between(g, e) \subseteq Between(f, e)
        <4> SUFFICES ASSUME NEW t \in Made, ~Before(<<timer[t].when, t>>, g),
                            Before(<<timer[t].when, t>>, f)
                     PROVE  FALSE
          BY DEF Between
        <4>1. timer[t].when \in Nat /\ t \in Nat
          BY FieldTypes, TimersAssumption DEF Fields, Records
        <4>2. PICK w, a : w = timer[t].when /\ a = t
          OBVIOUS
        <4>3. QED
          BY <2>3, <4>1, <4>2 DEF Before
      <3>3. QED
        BY <1>2, <1>3, <2>2, <3>1, <3>2, SumOneMore
    <2>4. timer[f[2]].interval <= SumOf(timer, Between(f, e))
      <3>1. PICK B : B = {}
        OBVIOUS
      <3>2. B \subseteq Between(f, e) /\ f[2] \notin B
        BY <3>1
      <3>3. timer[f[2]].interval + SumOf(timer, B) <= SumOf(timer, Between(f, e))
        BY <1>2, <1>3, <2>2, <3>2, SumOneMore
      <3>4. SumOf(timer, B) \in Nat
        BY <1>2, <1>3, <3>2, SumGrows
      <3>5. timer[f[2]].interval \in Nat
        BY <1>5, FieldTypes DEF Fields
      <3>6. QED
        BY <1>4, <3>3, <3>4, <3>5
    <2>5. QED
      BY <2>3, <2>4
  <1>6. QED
    BY <1>4, <1>5

\* New timers add to the sums and nothing takes from them.
LEMMA SumsGrow ==
  ASSUME Records, Records', IsFiniteSet(Made'), Made \subseteq Made',
         \A t \in Made : timer'[t].interval = timer[t].interval
                         /\ timer'[t].when = timer[t].when,
         NEW f, NEW e
  PROVE  /\ SumOf(timer, Between(f, e)) <= SumOf(timer, Between(f, e))'
         /\ SumOf(timer, InFront(e)) <= SumOf(timer, InFront(e))'
         /\ SumOf(timer, Between(f, e)) \in Nat /\ SumOf(timer, Between(f, e))' \in Nat
         /\ SumOf(timer, InFront(e)) \in Nat /\ SumOf(timer, InFront(e))' \in Nat
  <1>1. Fields'
    BY FieldTypes, PTL
  <1>2. \A S \in SUBSET Made' : IsFiniteSet(S) /\ HasIntervals(timer', S)
    BY <1>1, FS_Subset DEF HasIntervals, Fields
  <1>3. /\ Between(f, e) \subseteq Between(f, e)' /\ Between(f, e)' \in SUBSET Made'
        /\ InFront(e) \subseteq InFront(e)' /\ InFront(e)' \in SUBSET Made'
        /\ Between(f, e) \subseteq Made /\ InFront(e) \subseteq Made
    BY DEF Between, InFront
  <1>4. SumOf(timer, Between(f, e))' = SumOf(timer', Between(f, e)')
        /\ SumOf(timer, InFront(e))' = SumOf(timer', InFront(e)')
    OBVIOUS
  <1>5. /\ SumOf(timer, Between(f, e)) <= SumOf(timer', Between(f, e)')
        /\ SumOf(timer, Between(f, e)) \in Nat /\ SumOf(timer', Between(f, e)') \in Nat
    BY <1>2, <1>3, SumGrows
  <1>6. /\ SumOf(timer, InFront(e)) <= SumOf(timer', InFront(e)')
        /\ SumOf(timer, InFront(e)) \in Nat /\ SumOf(timer', InFront(e)') \in Nat
    BY <1>2, <1>3, SumGrows
  <1>7. QED
    BY <1>4, <1>5, <1>6

\* An entry whose wait begins no earlier than now has all in front of it in turn.
LEMMA StartsInTurn ==
  ASSUME TimerInv, WaitTypes, Expiry, NEW e \in m_timers, clock <= From(e)
  PROVE  InTurn(e)
  <1> SUFFICES ASSUME NEW f \in m_timers, Before(f, e)
               PROVE  timer[f[2]].expiration <= From(e) + SumOf(timer, Between(f, e))
    BY DEF InTurn
  <1>1. /\ f \in Nat \X Nat /\ f[1] \in Nat /\ f[2] \in Made /\ f[1] = timer[f[2]].when
        /\ e \in Nat \X Nat /\ e[1] \in Nat /\ From(e) \in Nat /\ e[1] <= From(e)
    BY EntryFacts
  <1>2. f[1] <= e[1]
    BY <1>1 DEF Before
  <1>3. /\ SumOf(timer, Between(f, e)) \in Nat
        /\ timer[f[2]].interval <= SumOf(timer, Between(f, e))
    BY <1>1, BetweenSums DEF TimerInv, WaitTypes
  <1>4. timer[f[2]].expiration \in Nat /\ timer[f[2]].interval \in Nat /\ clock \in Nat
    BY <1>1, FieldTypes DEF TimerInv, Types, Fields
  <1>5. timer[f[2]].expiration <= f[1] \/ timer[f[2]].expiration <= clock + timer[f[2]].interval
    BY <1>1 DEF Expiry
  <1>6. QED
    BY <1>1, <1>2, <1>3, <1>4, <1>5

\* Timers that are made, inserted, removed, cancelled or resumed delay none.
LEMMA WaitFrame ==
  ASSUME TimerInv, TimerInv', WaitInv, WaitTypes', clock' = clock, fresh' = fresh, ran' = ran,
         Made \subseteq Made',
         \A t \in Made : /\ timer'[t].expiration = timer[t].expiration
                         /\ timer'[t].interval = timer[t].interval
                         /\ timer'[t].when = timer[t].when,
         \A t \in Made' \ Made : timer'[t].expiration = timer'[t].when,
         \/ phase' = phase /\ iter' = iter /\ now' = now
         \/ ~InPass /\ ~InPass' /\ phase # "crashed",
         \A e \in m_timers' : Pending(e)' =>
            (Pending(e) /\ From(e)' = From(e)) \/ clock <= From(e)',
         \A e \in m_timers' \ m_timers : timer'[e[2]].expiration = e[1]
  PROVE  WaitInv'
  <1>1. Expiry'
    <2> SUFFICES ASSUME NEW t \in Made'
                 PROVE  /\ \/ timer'[t].expiration <= timer'[t].when
                           \/ timer'[t].expiration <= clock + timer'[t].interval
                        /\ ran[t] = 0 => timer'[t].expiration = timer'[t].when
      BY DEF Expiry
    <2>1. CASE t \in Made
      BY <2>1 DEF WaitInv, Expiry
    <2>2. CASE t \notin Made
      <3>1. timer'[t].expiration = timer'[t].when
        BY <2>2
      <3>2. timer'[t].when \in Nat
        <4>1. Fields'
          BY FieldTypes, PTL DEF TimerInv
        <4>2. QED
          BY <4>1 DEF Fields
      <3>3. QED
        BY <3>1, <3>2
    <2>3. QED
      BY <2>1, <2>2
  <1>2. Called'
    <2> SUFFICES ASSUME phase' = "callback"
                 PROVE  ran'[iter'[2]] > 0 /\ timer'[iter'[2]].expiration <= now'
      BY DEF Called
    <2>1. phase = "callback" /\ iter' = iter /\ now' = now
      BY DEF InPass
    <2>2. iter[2] \in Made
      BY <2>1 DEF TimerInv, Iterator
    <2>3. QED
      BY <2>1, <2>2 DEF WaitInv, Called
  <1> SUFFICES ASSUME phase' # "crashed"
               PROVE  Waits'
    BY <1>1, <1>2 DEF WaitInv
  <1>3. Waits /\ WaitTypes /\ Expiry
    BY DEF WaitInv, InPass
  <1>4. \A e \in m_timers : /\ e \in Nat \X Nat /\ e[1] \in Nat /\ e[2] \in Made
                            /\ From(e) \in Nat /\ e[1] <= From(e)
    BY <1>3, EntryFacts
  <1>5. \A e \in m_timers' : /\ e \in Nat \X Nat /\ e[1] \in Nat
                             /\ From(e)' \in Nat /\ e[1] <= From(e)'
    <2>1. (\A e \in m_timers :
             /\ e \in Nat \X Nat /\ e[1] \in Nat /\ e[2] \in Nat /\ e = <<e[1], e[2]>>
             /\ e[2] \in Made /\ e[1] = timer[e[2]].when
             /\ From(e) \in Nat /\ e[1] <= From(e) /\ since[e[2]] <= From(e))'
      BY EntryFacts, PTL
    <2>2. QED
      BY <2>1
  <1>6. clock \in Nat /\ now \in Nat /\ now <= clock
    BY DEF TimerInv, Types
  <1>7. \A f, e : /\ SumOf(timer, Between(f, e)) <= SumOf(timer, Between(f, e))'
                  /\ SumOf(timer, InFront(e)) <= SumOf(timer, InFront(e))'
                  /\ SumOf(timer, Between(f, e)) \in Nat /\ SumOf(timer, Between(f, e))' \in Nat
                  /\ SumOf(timer, InFront(e)) \in Nat /\ SumOf(timer, InFront(e))' \in Nat
    BY SumsGrow DEF TimerInv, WaitTypes
  <1>8. \A g \in m_timers : timer'[g[2]].expiration = timer[g[2]].expiration
    BY <1>4
  <1>9. \A f, e \in Nat \X Nat : Before(f, e) => f[1] <= e[1]
    BY DEF Before
  <1>10. ASSUME NEW e \in m_timers', Pending(e)', clock <= From(e)'
         PROVE  /\ InPass' /\ From(e)' < now' => iter' # End /\ ~Before(e, iter')
                /\ InTurn(e)'
                /\ fresh' => clock' <= From(e)' \/ clock' < From(e)' + SumOf(timer, InFront(e))'
                /\ clock' <= From(e)' + 1 + SumOf(timer, InFront(e))'
    <2>1. InTurn(e)'
      <3>1. (TimerInv /\ WaitTypes /\ Expiry /\ e \in m_timers /\ clock <= From(e))'
        BY <1>1, <1>10
      <3>2. (TimerInv /\ WaitTypes /\ Expiry /\ e \in m_timers /\ clock <= From(e) => InTurn(e))'
        BY StartsInTurn, PTL
      <3>3. QED
        BY <3>1, <3>2
    <2>2. ~(InPass' /\ From(e)' < now')
      <3>1. From(e)' \in Nat /\ (InPass' => now' = now)
        BY <1>5 DEF InPass
      <3>2. QED
        BY <1>6, <1>10, <3>1
    <2>3. clock <= From(e)' + 1 + SumOf(timer, InFront(e))'
      <3>1. PICK S : S = SumOf(timer, InFront(e))'
        OBVIOUS
      <3>2. S \in Nat /\ From(e)' \in Nat
        BY <1>5, <1>7, <3>1
      <3>3. QED
        BY <1>6, <1>10, <3>1, <3>2
    <2>4. QED
      BY <1>10, <2>1, <2>2, <2>3
  <1>11. ASSUME NEW e \in m_timers', Pending(e), From(e)' = From(e)
         PROVE  /\ InPass' /\ From(e)' < now' => iter' # End /\ ~Before(e, iter')
                /\ Clear(e)' \/ InTurn(e)'
                /\ fresh' => clock' <= From(e)' \/ clock' < From(e)' + SumOf(timer, InFront(e))'
                /\ clock' <= From(e)' + 1 + SumOf(timer, InFront(e))'
    <2>1. e \in m_timers /\ e \in Nat \X Nat /\ From(e) \in Nat /\ e[1] \in Nat /\ e[1] <= From(e)
      BY <1>4, <1>11 DEF Pending
    <2>2. /\ fresh => clock <= From(e) \/ clock < From(e) + SumOf(timer, InFront(e))
          /\ clock <= From(e) + 1 + SumOf(timer, InFront(e))
          /\ Clear(e) \/ InTurn(e)
          /\ InPass /\ From(e) < now => iter # End /\ ~Before(e, iter)
      BY <1>3, <1>11, <2>1 DEF Waits, Early, Bounded, Turns, NotReached
    <2>3. /\ fresh' => clock' <= From(e)' \/ clock' < From(e)' + SumOf(timer, InFront(e))'
          /\ clock' <= From(e)' + 1 + SumOf(timer, InFront(e))'
      <3>1. PICK S, R : S = SumOf(timer, InFront(e)) /\ R = SumOf(timer, InFront(e))'
        OBVIOUS
      <3>2. S \in Nat /\ R \in Nat /\ S <= R
        BY <1>7, <3>1
      <3>3. /\ fresh => clock <= From(e) \/ clock < From(e) + R
            /\ clock <= From(e) + 1 + R
        BY <1>6, <2>1, <2>2, <3>1, <3>2
      <3>4. QED
        BY <1>11, <3>1, <3>3
    <2>4. InPass' /\ From(e)' < now' => iter' # End /\ ~Before(e, iter')
      BY <1>11, <2>2 DEF InPass
    <2>5. CASE Clear(e)
      <3>1. InPass /\ InPass' /\ From(e) < now /\ iter' = iter /\ now' = now /\ phase' = phase
        BY <2>5 DEF Clear, InPass
      <3>2. ASSUME NEW g \in m_timers', Before(g, e), ~Before(g, iter),
                   phase = "callback" => g # iter
            PROVE  timer'[g[2]].expiration <= now
        <4>1. CASE g \in m_timers
          BY <1>8, <2>5, <3>2, <4>1 DEF Clear
        <4>2. CASE g \notin m_timers
          <5>1. timer'[g[2]].expiration = g[1]
            BY <4>2
          <5>2. g[1] \in Nat /\ g[1] <= e[1]
            BY <1>5, <1>9, <2>1, <3>2
          <5>3. g[1] <= now
            BY <1>6, <2>1, <3>1, <5>2
          <5>4. QED
            BY <5>1, <5>3
        <4>3. QED
          BY <4>1, <4>2
      <3>3. Clear(e)'
        BY <1>11, <3>1, <3>2 DEF Clear
      <3>4. QED
        BY <2>3, <2>4, <3>3
    <2>6. CASE InTurn(e)
      <3>1. ASSUME NEW f \in m_timers', Before(f, e)
            PROVE  timer'[f[2]].expiration <= From(e) + SumOf(timer, Between(f, e))'
        <4>1. PICK S, R : S = SumOf(timer, Between(f, e)) /\ R = SumOf(timer, Between(f, e))'
          OBVIOUS
        <4>2. S \in Nat /\ R \in Nat /\ S <= R
          BY <1>7, <4>1
        <4>3. CASE f \in m_timers
          <5>1. timer'[f[2]].expiration <= From(e) + S
            BY <1>8, <2>6, <3>1, <4>1, <4>3 DEF InTurn
          <5>2. timer[f[2]].expiration \in Nat
            BY <1>4, <4>3, FieldTypes DEF TimerInv, Fields
          <5>3. QED
            BY <1>8, <2>1, <4>1, <4>2, <4>3, <5>1, <5>2
        <4>4. CASE f \notin m_timers
          <5>1. timer'[f[2]].expiration = f[1] /\ f[1] \in Nat /\ f[1] <= e[1]
            BY <1>5, <1>9, <2>1, <3>1, <4>4
          <5>2. f[1] <= From(e) + R
            BY <2>1, <4>2, <5>1
          <5>3. QED
            BY <4>1, <5>1, <5>2
        <4>5. QED
          BY <4>3, <4>4
      <3>2. InTurn(e)'
        BY <1>11, <3>1 DEF InTurn
      <3>3. QED
        BY <2>3, <2>4, <3>2
    <2>7. QED
      BY <2>2, <2>5, <2>6
  <1>12. ASSUME NEW e \in m_timers', Pending(e)'
         PROVE  /\ InPass' /\ From(e)' < now' => iter' # End /\ ~Before(e, iter')
                /\ Clear(e)' \/ InTurn(e)'
                /\ fresh' => clock' <= From(e)' \/ clock' < From(e)' + SumOf(timer, InFront(e))'
                /\ clock' <= From(e)' + 1 + SumOf(timer, InFront(e))'
    <2>1. CASE clock <= From(e)'
      BY <1>10, <1>12, <2>1
    <2>2. CASE Pending(e) /\ From(e)' = From(e)
      BY <1>11, <2>2
    <2>3. QED
      BY <1>12, <2>1, <2>2
  <1>13. QED
    BY <1>12 DEF Waits, NotReached, Turns, Early, Bounded

\* No timer is waiting before the first round of the loop.
LEMMA WaitInit == Init => WaitInv
  <1> SUFFICES ASSUME Init
               PROVE  WaitInv
    OBVIOUS
  <1>1. Made = {} /\ m_timers = {} /\ phase = "tasks" /\ since = [t \in Timers |-> 0]
    BY DEF Init, Made
  <1>2. WaitTypes
    BY <1>1, FS_EmptySet DEF WaitTypes
  <1>3. Expiry /\ Called
    BY <1>1 DEF Expiry, Called
  <1>4. Waits
    BY <1>1 DEF Waits, NotReached, Turns, Early, Bounded
  <1>5. QED
    BY <1>2, <1>3, <1>4 DEF WaitInv

\* The entries are in a strict total order.
LEMMA Ordered ==
  ASSUME NEW a \in Nat \X Nat, NEW b \in Nat \X Nat
  PROVE  (Before(a, b) => ~Before(b, a)) /\ ~Before(a, a)
         /\ (a # b => Before(a, b) \/ Before(b, a)) /\ a # End
         /\ \A c \in Nat \X Nat : Before(a, b) /\ Before(b, c) => Before(a, c)
  <1>1. a = <<a[1], a[2]>> /\ b = <<b[1], b[2]>> /\ a # End
    BY DEF End
  <1>2. a[1] \in Nat /\ a[2] \in Nat /\ b[1] \in Nat /\ b[2] \in Nat
    OBVIOUS
  <1>3. a # b => a[1] # b[1] \/ a[2] # b[2]
    BY <1>1
  <1>4. QED
    BY <1>1, <1>2, <1>3 DEF Before

\* The pass begins in front of every entry.
LEMMA WaitBeginTimers ==
  ASSUME TimerInv, TimerInv', WaitInv, BeginTimers
  PROVE  WaitInv'
  <1>1. /\ phase = "tasks" /\ phase' = "timers" /\ now' = clock
        /\ iter' = First(m_timers) /\ clock' = clock /\ timer' = timer
        /\ m_timers' = m_timers /\ fresh' = fresh /\ ran' = ran /\ since' = since
    BY DEF BeginTimers
  <1>2. Waits /\ WaitTypes /\ Expiry /\ ~InPass
    BY <1>1 DEF WaitInv, InPass
  <1>3. WaitTypes' /\ Expiry' /\ Called'
    BY <1>1, <1>2 DEF WaitTypes, Expiry, Called, Made
  <1>4. m_timers \in SUBSET (Nat \X Nat)
    BY EntriesAreNumbers DEF TimerInv
  <1>5. ASSUME NEW e \in m_timers
        PROVE  iter' # End /\ ~Before(e, iter')
    <2>1. m_timers # {} /\ e \in Nat \X Nat
      BY <1>4
    <2>2. iter' \in m_timers /\ \A x \in m_timers \ {iter'} : Before(iter', x)
      BY <1>1, <1>4, <2>1, FirstIsLeast
    <2>3. iter' \in Nat \X Nat
      BY <1>4, <2>2
    <2>4. QED
      BY <2>1, <2>2, <2>3, Ordered
  <1>6. NotReached'
    BY <1>1, <1>5 DEF NotReached
  <1>7. \A e \in m_timers : Pending(e)' => InTurn(e)'
    <2>1. \A e \in m_timers : Pending(e) => InTurn(e)
      BY <1>2 DEF Waits, Turns, Clear
    <2>2. QED
      BY <1>1, <2>1 DEF Pending, InTurn, From, Between, Made
  <1>8. Early' /\ Bounded'
    BY <1>1, <1>2 DEF Waits, Early, Bounded, Pending, From, InFront, Made
  <1>9. QED
    BY <1>1, <1>3, <1>6, <1>7, <1>8 DEF WaitInv, Waits, Turns

\* ++iter does not go beyond an entry behind it.
LEMMA NotBeyond ==
  ASSUME NEW S \in SUBSET (Nat \X Nat), NEW i \in Nat \X Nat, NEW e \in S, Before(i, e)
  PROVE  After(S, i) # End /\ ~Before(e, After(S, i)) /\ After(S, i) \in Nat \X Nat
         /\ After(S, i) \in S /\ Before(i, After(S, i))
  <1>1. After(S, i) # End
    <2> DEFINE B == {x \in S : Before(i, x)}
    <2>1. e \in B /\ B # {} /\ B \in SUBSET (Nat \X Nat)
      OBVIOUS
    <2>2. First(B) \in B
      BY <2>1, FirstIsLeast
    <2>3. First(B) \in Nat \X Nat
      BY <2>1, <2>2
    <2>4. First(B) # End
      BY <2>3, Ordered
    <2>5. QED
      BY <2>4 DEF After
  <1>2. QED
    BY <1>1, AfterIsNext

\* A cancelled timer that is due is no obstacle.
LEMMA WaitSkipTimer ==
  ASSUME TimerInv, TimerInv', WaitInv, SkipTimer
  PROVE  WaitInv'
  <1>1. /\ phase = "timers" /\ phase' = "timers" /\ now' = now /\ iter # End
        /\ iter' = After(m_timers, iter) /\ timer[iter[2]].m_canceled
        /\ clock' = clock /\ timer' = timer /\ m_timers' = m_timers /\ ran' = ran
        /\ since' = since /\ fresh' = fresh
    BY DEF SkipTimer, AtTimer
  <1>2. Waits /\ WaitTypes /\ Expiry /\ InPass /\ InPass'
    BY <1>1 DEF WaitInv, InPass
  <1>3. WaitTypes' /\ Expiry' /\ Called'
    BY <1>1, <1>2 DEF WaitTypes, Expiry, Called, Made
  <1>4. iter \in m_timers /\ iter \in Nat \X Nat /\ m_timers \in SUBSET (Nat \X Nat)
    BY <1>1, EntriesAreNumbers DEF TimerInv, Iterator
  <1>5. \A e \in m_timers : (Pending(e)' <=> Pending(e)) /\ From(e)' = From(e)
    BY <1>1 DEF Pending, From
  <1>6. ASSUME NEW e \in m_timers, Pending(e), From(e) < now
        PROVE  Before(iter, e) /\ iter' # End /\ ~Before(e, iter')
               /\ iter' \in Nat \X Nat /\ Before(iter, iter')
    <2>1. ~Before(e, iter)
      BY <1>2, <1>6 DEF Waits, NotReached
    <2>2. e # iter /\ e \in Nat \X Nat
      BY <1>1, <1>4, <1>6 DEF Pending
    <2>3. Before(iter, e)
      BY <1>4, <2>1, <2>2, Ordered
    <2>4. QED
      BY <1>1, <1>4, <2>3, NotBeyond
  <1>7. NotReached'
    BY <1>1, <1>5, <1>6 DEF NotReached
  <1>8. ASSUME NEW e \in m_timers, Pending(e)
        PROVE  Clear(e)' \/ InTurn(e)'
    <2>1. CASE Clear(e)
      <3>1. From(e) < now
        BY <2>1 DEF Clear
      <3>2. ASSUME NEW g \in m_timers, Before(g, e), ~Before(g, iter')
            PROVE  timer[g[2]].expiration <= now
        <4>1. g \in Nat \X Nat /\ iter' \in Nat \X Nat /\ Before(iter, iter')
          BY <1>4, <1>6, <1>8, <3>1
        <4>2. ~Before(g, iter)
          BY <1>4, <3>2, <4>1, Ordered
        <4>3. QED
          BY <1>1, <2>1, <3>2, <4>2 DEF Clear
      <3>3. QED
        BY <1>1, <1>2, <1>5, <3>1, <3>2 DEF Clear
    <2>2. CASE InTurn(e)
      BY <1>1, <2>2 DEF InTurn, From, Between, Made
    <2>3. QED
      BY <1>2, <1>8, <2>1, <2>2 DEF Waits, Turns
  <1>9. Early' /\ Bounded'
    BY <1>1, <1>2 DEF Waits, Early, Bounded, Pending, From, InFront, Made
  <1>10. QED
    BY <1>1, <1>3, <1>5, <1>7, <1>8, <1>9 DEF WaitInv, Waits, Turns

\* The timer that is called waits no longer.
LEMMA WaitCallTimer ==
  ASSUME TimerInv, TimerInv', WaitInv, CallTimer
  PROVE  WaitInv'
  <1>1. /\ phase = "timers" /\ phase' = "callback" /\ now' = now /\ iter # End
        /\ iter' = iter /\ timer[iter[2]].expiration <= now
        /\ clock' = clock /\ timer' = timer /\ m_timers' = m_timers
        /\ ran' = [ran EXCEPT ![iter[2]] = CountRun(iter[2])]
        /\ since' = since /\ fresh' = fresh
    BY DEF CallTimer, AtTimer, Due
  <1>2. Waits /\ WaitTypes /\ Expiry /\ InPass /\ InPass'
    BY <1>1 DEF WaitInv, InPass
  <1>3. iter[2] \in Made /\ Made \subseteq Timers /\ ran \in [Timers -> Nat]
    BY <1>1 DEF TimerInv, Iterator, Types, Records
  <1>4. CountRun(iter[2]) > 0
    <2>1. ran[iter[2]] \in Nat
      BY <1>3
    <2>2. QED
      BY <2>1 DEF CountRun
  <1>5. \A t \in Timers : ran'[t] = IF t = iter[2] THEN CountRun(iter[2]) ELSE ran[t]
    BY <1>1, <1>3
  <1>6. ran'[iter[2]] > 0 /\ \A t \in Timers : ran'[t] = 0 => ran[t] = 0
    BY <1>3, <1>4, <1>5
  <1>7. WaitTypes' /\ Called'
    BY <1>1, <1>2, <1>6 DEF WaitTypes, Called, Made
  <1>8. Expiry'
    BY <1>1, <1>2, <1>3, <1>6 DEF Expiry, Made
  <1>9. ASSUME NEW e \in m_timers, Pending(e)'
        PROVE  Pending(e)
    <2>1. e[2] \in Timers
      BY EntryFacts, <1>2, <1>3
    <2>2. QED
      BY <1>1, <1>6, <1>9, <2>1 DEF Pending
  <1>10. \A e \in m_timers : From(e)' = From(e) /\ (Clear(e) => Clear(e)')
                             /\ (InTurn(e) => InTurn(e)')
    BY <1>1, <1>2 DEF Clear, InTurn, From, Between, Made
  <1>11. NotReached' /\ Turns' /\ Early' /\ Bounded'
    <2>1. NotReached'
      BY <1>1, <1>2, <1>9, <1>10 DEF Waits, NotReached
    <2>2. Turns'
      BY <1>1, <1>2, <1>9, <1>10 DEF Waits, Turns
    <2>3. Early' /\ Bounded'
      BY <1>1, <1>2, <1>9, <1>10 DEF Waits, Early, Bounded, InFront, Made
    <2>4. QED
      BY <2>1, <2>2, <2>3
  <1>12. QED
    BY <1>7, <1>8, <1>11 DEF WaitInv, Waits

\* A timer that has run and stays is due an interval later.  If that holds up an
\* entry behind it, another one did already, which will be due later still; if
\* none did, this pass gets to the entry.
LEMMA WaitReturnFromTimer ==
  ASSUME TimerInv, TimerInv', WaitInv, ReturnFromTimer
  PROVE  WaitInv'
  <1>1. PICK c : c = iter[2]
    OBVIOUS
  <1>2. /\ phase = "callback" /\ iter # End /\ iter \in (Nat \X Made)
        /\ iter[1] = timer[c].when /\ c \in Made /\ iter \in Nat \X Nat
    BY <1>1, EntriesAreNumbers DEF ReturnFromTimer, TimerInv, Iterator
  <1>3. /\ phase' = (IF iter \in m_timers THEN "timers" ELSE "crashed")
        /\ timer' = [timer EXCEPT ![c] = AfterRun(timer[c])]
        /\ m_timers' \subseteq m_timers
        /\ iter' = After(m_timers, iter) /\ now' = now /\ fresh' = fresh
        /\ clock' = clock /\ ran' = ran /\ since' = since
    BY <1>1 DEF ReturnFromTimer, Following
  <1>4. /\ Records' /\ Made' = Made
        /\ \A t \in Made : t # c => timer'[t] = timer[t]
        /\ timer'[c].when = timer[c].when /\ timer'[c].interval = timer[c].interval
        /\ timer'[c].m_canceled = timer[c].m_canceled
        /\ timer'[c].expiration =
             IF timer'[c].m_repeatCount = 0 THEN timer[c].expiration
             ELSE timer[c].expiration + timer[c].interval
    BY <1>2, <1>3, ReturnFields DEF TimerInv
  <1>5. Fields /\ m_timers \in SUBSET (Nat \X Nat) /\ Records
    BY FieldTypes, EntriesAreNumbers DEF TimerInv
  <1>6. WaitTypes /\ Expiry /\ Called /\ Waits /\ InPass
    BY <1>2 DEF WaitInv, InPass
  <1>7. /\ timer[c].expiration \in Nat /\ timer[c].interval \in Nat /\ clock \in Nat
        /\ now \in Nat /\ now <= clock /\ timer[c].when \in Nat
    BY <1>2, <1>5 DEF Fields, TimerInv, Types
  <1>8. ran[c] > 0 /\ timer[c].expiration <= now
    BY <1>1, <1>2, <1>6 DEF Called
  <1>9. timer'[c].expiration <= now + timer[c].interval /\ timer'[c].expiration \in Nat
    BY <1>4, <1>7, <1>8
  <1>10. WaitTypes' /\ Called'
    BY <1>3, <1>4, <1>6 DEF WaitTypes, Called
  <1>11. Expiry'
    <2> SUFFICES ASSUME NEW t \in Made
                 PROVE  /\ \/ timer'[t].expiration <= timer'[t].when
                           \/ timer'[t].expiration <= clock + timer'[t].interval
                        /\ ran[t] = 0 => timer'[t].expiration = timer'[t].when
      BY <1>3, <1>4 DEF Expiry
    <2>1. CASE t = c
      <3>1. timer'[c].expiration <= clock + timer[c].interval
        BY <1>7, <1>9
      <3>2. QED
        BY <1>4, <1>8, <2>1, <3>1
    <2>2. CASE t # c
      BY <1>4, <1>6, <2>2 DEF Expiry
    <2>3. QED
      BY <2>1, <2>2
  <1> SUFFICES ASSUME phase' # "crashed"
               PROVE  Waits'
    BY <1>10, <1>11 DEF WaitInv
  <1>12. iter \in m_timers /\ phase' = "timers" /\ InPass'
    BY <1>3 DEF InPass
  <1>13. \A t \in Made : timer'[t].when = timer[t].when /\ timer'[t].interval = timer[t].interval
                         /\ timer'[t].m_canceled = timer[t].m_canceled
    BY <1>4
  <1>14. ASSUME NEW e \in m_timers'
         PROVE  /\ e \in m_timers /\ e \in Nat \X Nat /\ e[2] \in Made /\ From(e)' = From(e)
                /\ From(e) \in Nat /\ (Pending(e)' => Pending(e)) /\ e[1] \in Nat
    <2>1. e \in m_timers /\ e \in Nat \X Nat /\ e[2] \in Made /\ From(e) \in Nat /\ e[1] \in Nat
      BY <1>3, <1>6, EntryFacts
    <2>2. QED
      BY <1>3, <1>13, <2>1 DEF From, Pending
  <1>15. \A f, e : /\ SumOf(timer, Between(f, e)) <= SumOf(timer, Between(f, e))'
                   /\ SumOf(timer, InFront(e)) <= SumOf(timer, InFront(e))'
                   /\ SumOf(timer, Between(f, e)) \in Nat /\ SumOf(timer, Between(f, e))' \in Nat
                   /\ SumOf(timer, InFront(e)) \in Nat /\ SumOf(timer, InFront(e))' \in Nat
    <2>1. Made \subseteq Made' /\ IsFiniteSet(Made')
      BY <1>4, <1>6 DEF WaitTypes
    <2>2. QED
      BY <1>4, <1>5, <1>13, <2>1, SumsGrow
  <1>16. ASSUME NEW e \in m_timers', Pending(e), From(e) < now
         PROVE  /\ Before(iter, e) /\ iter' # End /\ ~Before(e, iter')
                /\ iter' \in Nat \X Nat /\ Before(iter, iter')
    <2>1. ~Before(e, iter)
      BY <1>6, <1>14, <1>16 DEF Waits, NotReached
    <2>2. e # iter
      BY <1>1, <1>8, <1>16 DEF Pending
    <2>3. Before(iter, e)
      BY <1>2, <1>14, <2>1, <2>2, Ordered
    <2>4. QED
      BY <1>2, <1>3, <1>5, <1>14, <2>3, NotBeyond
  <1>17. NotReached'
    BY <1>3, <1>14, <1>16 DEF NotReached
  <1>18. \A g \in m_timers : g # iter => g[2] # c /\ g[2] \in Made
    <2> SUFFICES ASSUME NEW g \in m_timers, g # iter
                 PROVE  g[2] # c /\ g[2] \in Made
      OBVIOUS
    <2>1. /\ g[2] \in Made /\ g = <<g[1], g[2]>> /\ g[1] = timer[g[2]].when
          /\ iter = <<iter[1], iter[2]>>
      BY <1>6, <1>12, EntryFacts
    <2>2. QED
      BY <1>1, <1>2, <2>1
  <1>19. ASSUME NEW e \in m_timers', Pending(e),
                \A g \in m_timers : Before(iter, g) /\ Before(g, e) =>
                                      timer[g[2]].expiration <= now,
                From(e) < now
         PROVE  Clear(e)'
    <2>1. ASSUME NEW g \in m_timers', Before(g, e), ~Before(g, iter')
          PROVE  timer'[g[2]].expiration <= now
      <3>1. /\ g \in m_timers /\ g \in Nat \X Nat /\ iter' \in Nat \X Nat /\ Before(iter, iter')
        BY <1>14, <1>16, <1>19
      <3>2. g # iter /\ ~Before(g, iter)
        BY <1>2, <2>1, <3>1, Ordered
      <3>3. Before(iter, g)
        BY <1>2, <3>1, <3>2, Ordered
      <3>4. timer[g[2]].expiration <= now
        BY <1>19, <2>1, <3>1, <3>3
      <3>5. timer'[g[2]] = timer[g[2]]
        BY <1>4, <1>18, <3>1, <3>2
      <3>6. QED
        BY <3>4, <3>5
    <2>2. QED
      BY <1>3, <1>12, <1>14, <1>19, <2>1 DEF Clear
  <1>20. ASSUME NEW e \in m_timers', Pending(e), InTurn(e),
                \/ now <= From(e)
                \/ \E g \in m_timers : /\ Before(iter, g) /\ Before(g, e)
                                       /\ ~(timer[g[2]].expiration <= now)
         PROVE  InTurn(e)'
    <2> SUFFICES ASSUME NEW f \in m_timers', Before(f, e)
                 PROVE  timer'[f[2]].expiration <= From(e) + SumOf(timer, Between(f, e))'
      BY <1>14 DEF InTurn
    <2>1. PICK S, R : S = SumOf(timer, Between(f, e)) /\ R = SumOf(timer, Between(f, e))'
      OBVIOUS
    <2>2. S \in Nat /\ R \in Nat /\ S <= R
      BY <1>15, <2>1
    <2>3. f \in m_timers /\ f \in Nat \X Nat /\ From(e) \in Nat /\ e \in Nat \X Nat
      BY <1>14
    <2>4. CASE f # iter
      <3>1. f[2] \in Made /\ timer'[f[2]] = timer[f[2]]
        BY <1>4, <1>18, <2>3, <2>4
      <3>2. timer[f[2]].expiration <= From(e) + S /\ timer[f[2]].expiration \in Nat
        BY <1>5, <1>20, <2>1, <2>3, <3>1 DEF InTurn, Fields
      <3>3. timer[f[2]].expiration <= From(e) + R
        BY <2>2, <2>3, <3>2
      <3>4. QED
        BY <2>1, <3>1, <3>3
    <2>5. CASE f = iter
      <3>1. /\ timer[c].interval <= S
            /\ \A g \in Nat \X Nat : Before(f, g) =>
                 timer[c].interval + SumOf(timer, Between(g, e)) <= S
        BY <1>1, <1>2, <1>5, <1>6, <2>1, <2>3, <2>5, BetweenSums DEF WaitTypes
      <3>2. CASE now <= From(e)
        <4>1. timer'[c].expiration <= From(e) + R
          BY <1>7, <1>9, <2>2, <2>3, <3>1, <3>2
        <4>2. QED
          BY <1>1, <2>1, <2>5, <4>1
      <3>3. CASE \E g \in m_timers : /\ Before(iter, g) /\ Before(g, e)
                                     /\ ~(timer[g[2]].expiration <= now)
        <4>1. PICK g \in m_timers : /\ Before(iter, g) /\ Before(g, e)
                                    /\ ~(timer[g[2]].expiration <= now)
          BY <3>3
        <4>2. PICK Q : Q = SumOf(timer, Between(g, e))
          OBVIOUS
        <4>3. Q \in Nat /\ g \in Nat \X Nat /\ g[2] \in Made
          BY <1>6, <1>15, <4>2, EntryFacts
        <4>4. timer[g[2]].expiration <= From(e) + Q /\ timer[g[2]].expiration \in Nat
          BY <1>5, <1>20, <4>1, <4>2, <4>3 DEF InTurn, Fields
        <4>5. timer[c].interval + Q <= S
          BY <2>5, <3>1, <4>1, <4>2, <4>3
        <4>6. timer'[c].expiration <= From(e) + R
          BY <1>7, <1>9, <2>2, <2>3, <4>1, <4>3, <4>4, <4>5
        <4>7. QED
          BY <1>1, <2>1, <2>5, <4>6
      <3>4. QED
        BY <1>20, <3>2, <3>3
    <2>6. QED
      BY <2>4, <2>5
  <1>21. Turns'
    <2> SUFFICES ASSUME NEW e \in m_timers', Pending(e)'
                 PROVE  Clear(e)' \/ InTurn(e)'
      BY DEF Turns
    <2>1. Pending(e) /\ e \in m_timers /\ From(e) \in Nat
      BY <1>14
    <2>2. CASE Clear(e)
      <3>1. \A g \in m_timers : Before(iter, g) /\ Before(g, e) =>
                                  timer[g[2]].expiration <= now
        <4> SUFFICES ASSUME NEW g \in m_timers, Before(iter, g), Before(g, e)
                     PROVE  timer[g[2]].expiration <= now
          OBVIOUS
        <4>1. g \in Nat \X Nat
          BY <1>5
        <4>2. ~Before(g, iter) /\ g # iter
          BY <1>2, <4>1, Ordered
        <4>3. QED
          BY <2>2, <4>2 DEF Clear
      <3>2. From(e) < now
        BY <2>2 DEF Clear
      <3>3. QED
        BY <1>19, <2>1, <3>1, <3>2
    <2>3. CASE InTurn(e)
      <3>1. CASE /\ From(e) < now
                 /\ \A g \in m_timers : Before(iter, g) /\ Before(g, e) =>
                                          timer[g[2]].expiration <= now
        BY <1>19, <2>1, <3>1
      <3>2. CASE ~(From(e) < now)
        <4>1. now <= From(e)
          BY <1>7, <2>1, <3>2
        <4>2. QED
          BY <1>20, <2>1, <2>3, <4>1
      <3>3. CASE \E g \in m_timers : /\ Before(iter, g) /\ Before(g, e)
                                     /\ ~(timer[g[2]].expiration <= now)
        BY <1>20, <2>1, <2>3, <3>3
      <3>4. QED
        BY <3>1, <3>2, <3>3
    <2>4. QED
      BY <1>6, <2>1, <2>2, <2>3 DEF Waits, Turns
  <1>22. Early' /\ Bounded'
    <2> SUFFICES ASSUME NEW e \in m_timers', Pending(e)
                 PROVE  /\ fresh => \/ clock <= From(e)
                                    \/ clock < From(e) + SumOf(timer, InFront(e))'
                        /\ clock <= From(e) + 1 + SumOf(timer, InFront(e))'
      BY <1>3, <1>14 DEF Early, Bounded
    <2>1. PICK S, R : S = SumOf(timer, InFront(e)) /\ R = SumOf(timer, InFront(e))'
      OBVIOUS
    <2>2. S \in Nat /\ R \in Nat /\ S <= R /\ From(e) \in Nat
      BY <1>14, <1>15, <2>1
    <2>3. /\ fresh => clock <= From(e) \/ clock < From(e) + S
          /\ clock <= From(e) + 1 + S
      BY <1>6, <1>14, <2>1 DEF Waits, Early, Bounded
    <2>4. /\ fresh => clock <= From(e) \/ clock < From(e) + R
          /\ clock <= From(e) + 1 + R
      BY <1>7, <2>2, <2>3
    <2>5. QED
      BY <2>1, <2>4
  <1>23. QED
    BY <1>17, <1>21, <1>22 DEF Waits

\* A pass that ends in front of an entry that waits has met a timer that is not
\* due, so the bound is not reached yet.
LEMMA WaitEndTimers ==
  ASSUME TimerInv, TimerInv', WaitInv, EndTimers
  PROVE  WaitInv'
  <1>1. /\ phase = "timers" /\ phase' = "poll" /\ (iter # End => ~Due(iter[2]))
        /\ fresh' = (now = clock) /\ clock' = clock /\ timer' = timer
        /\ m_timers' = m_timers /\ ran' = ran /\ since' = since
    BY DEF EndTimers
  <1>2. WaitTypes /\ Expiry /\ Waits /\ InPass
    BY <1>1 DEF WaitInv, InPass
  <1>3. WaitTypes' /\ Expiry' /\ Called' /\ ~InPass'
    BY <1>1, <1>2 DEF WaitTypes, Expiry, Called, Made, InPass
  <1>4. clock \in Nat /\ now \in Nat /\ now <= clock /\ Fields
    BY FieldTypes DEF TimerInv, Types
  <1>5. ASSUME NEW e \in m_timers, Pending(e), From(e) < now
        PROVE  /\ InTurn(e) /\ iter \in m_timers /\ Before(iter, e)
               /\ ~(timer[iter[2]].expiration <= now)
    <2>1. iter # End /\ ~Before(e, iter)
      BY <1>2, <1>5 DEF Waits, NotReached
    <2>2. iter \in m_timers /\ ~(timer[iter[2]].expiration <= now)
      BY <1>1, <2>1 DEF TimerInv, Iterator, Due
    <2>3. /\ e \in Nat \X Nat /\ e[1] \in Nat /\ e[2] \in Made /\ e[1] = timer[e[2]].when
          /\ From(e) \in Nat /\ e[1] <= From(e) /\ iter \in Nat \X Nat
      BY <1>2, <2>2, EntryFacts
    <2>4. timer[e[2]].expiration = e[1]
      BY <1>2, <1>5, <2>3 DEF Expiry, Pending
    <2>5. timer[e[2]].expiration <= now
      BY <1>4, <1>5, <2>3, <2>4
    <2>6. Before(iter, e)
      BY <2>1, <2>2, <2>3, <2>5, Ordered
    <2>7. ~Clear(e)
      <3>1. ~Before(iter, iter)
        BY <2>3, Ordered
      <3>2. QED
        BY <1>1, <2>2, <2>6, <3>1 DEF Clear
    <2>8. QED
      BY <1>2, <1>5, <2>2, <2>6, <2>7 DEF Waits, Turns
  <1>6. \A e \in m_timers : /\ From(e)' = From(e) /\ (Pending(e)' <=> Pending(e))
                            /\ (InTurn(e) => InTurn(e)')
    BY <1>1 DEF From, Pending, InTurn, Between, Made
  <1>7. Turns'
    <2>1. ASSUME NEW e \in m_timers, Pending(e)
          PROVE  InTurn(e)
      BY <1>2, <1>5, <2>1 DEF Waits, Turns, Clear
    <2>2. QED
      BY <1>1, <1>6, <2>1 DEF Turns
  <1>8. Early'
    <2> SUFFICES ASSUME NEW e \in m_timers, Pending(e), now = clock
                 PROVE  clock <= From(e) \/ clock < From(e) + SumOf(timer, InFront(e))
      BY <1>1, <1>6 DEF Early, InFront, Made
    <2>1. From(e) \in Nat /\ e \in Nat \X Nat
      BY <1>2, EntryFacts
    <2>2. CASE ~(From(e) < now)
      BY <1>4, <2>1, <2>2
    <2>3. CASE From(e) < now
      <3>1. /\ InTurn(e) /\ iter \in m_timers /\ Before(iter, e)
            /\ ~(timer[iter[2]].expiration <= now)
        BY <1>5, <2>3
      <3>2. iter \in Nat \X Nat /\ iter[2] \in Made
        BY <1>2, <3>1, EntryFacts
      <3>3. PICK S, R : S = SumOf(timer, Between(iter, e)) /\ R = SumOf(timer, InFront(e))
        OBVIOUS
      <3>4. S \in Nat /\ R \in Nat /\ S <= R
        BY <1>2, <2>1, <3>2, <3>3, BetweenSums DEF TimerInv, WaitTypes
      <3>5. timer[iter[2]].expiration <= From(e) + S /\ timer[iter[2]].expiration \in Nat
        BY <1>4, <3>1, <3>2, <3>3 DEF InTurn, Fields
      <3>6. clock < From(e) + R
        BY <1>4, <2>1, <3>1, <3>4, <3>5
      <3>7. QED
        BY <3>3, <3>6
    <2>4. QED
      BY <2>2, <2>3
  <1>9. Bounded' /\ NotReached'
    BY <1>1, <1>2, <1>3, <1>6 DEF Waits, Bounded, NotReached, InFront, Made
  <1>10. QED
    BY <1>3, <1>7, <1>8, <1>9 DEF WaitInv, Waits

\* Time passes only after a pass at the present time.
LEMMA WaitTick ==
  ASSUME TimerInv, TimerInv', WaitInv, Tick
  PROVE  WaitInv'
  <1>1. /\ clock' = clock + 1 /\ fresh /\ fresh' = FALSE /\ timer' = timer
        /\ m_timers' = m_timers /\ ran' = ran /\ since' = since /\ phase' = phase
        /\ iter' = iter /\ now' = now /\ phase # "crashed"
    BY DEF Tick, InCallback
  <1>2. WaitTypes /\ Expiry /\ Called /\ Waits
    BY <1>1 DEF WaitInv
  <1>3. clock \in Nat /\ Fields
    BY FieldTypes DEF TimerInv, Types
  <1>4. WaitTypes' /\ Called'
    BY <1>1, <1>2 DEF WaitTypes, Called, Made
  <1>5. Expiry'
    <2> SUFFICES ASSUME NEW t \in Made
                 PROVE  /\ \/ timer[t].expiration <= timer[t].when
                           \/ timer[t].expiration <= clock + 1 + timer[t].interval
                        /\ ran[t] = 0 => timer[t].expiration = timer[t].when
      BY <1>1 DEF Expiry, Made
    <2>1. /\ \/ timer[t].expiration <= timer[t].when
             \/ timer[t].expiration <= clock + timer[t].interval
          /\ ran[t] = 0 => timer[t].expiration = timer[t].when
      BY <1>2 DEF Expiry
    <2>2. timer[t].expiration \in Nat /\ timer[t].interval \in Nat
      BY <1>3 DEF Fields
    <2>3. QED
      BY <1>3, <2>1, <2>2
  <1>6. NotReached' /\ Turns'
    BY <1>1, <1>2 DEF Waits, NotReached, Turns, Clear, InTurn, InPass, Pending, From, Between,
                      Made
  <1>7. Bounded'
    <2> SUFFICES ASSUME NEW e \in m_timers, Pending(e)
                 PROVE  clock + 1 <= From(e) + 1 + SumOf(timer, InFront(e))
      BY <1>1 DEF Bounded, Pending, From, InFront, Made
    <2>1. PICK S : S = SumOf(timer, InFront(e))
      OBVIOUS
    <2>2. From(e) \in Nat /\ e \in Nat \X Nat
      BY <1>2, EntryFacts
    <2>3. S \in Nat
      BY <1>2, <2>1, <2>2, BetweenSums DEF TimerInv, WaitTypes
    <2>4. clock <= From(e) \/ clock < From(e) + S
      BY <1>1, <1>2, <2>1 DEF Waits, Early
    <2>5. clock + 1 <= From(e) + 1 + S
      BY <1>3, <2>2, <2>3, <2>4
    <2>6. QED
      BY <2>1, <2>5
  <1>8. Early'
    BY <1>1 DEF Early
  <1>9. QED
    BY <1>4, <1>5, <1>6, <1>7, <1>8 DEF WaitInv, Waits

\* A wait is counted from the insertion or later.
LEMMA FromInsertion ==
  ASSUME TimerInv, WaitTypes
  PROVE  \A x \in m_timers : since[x[2]] <= From(x)
  BY EntryFacts

\* insert starts the wait of its timer and of no other.
LEMMA WaitInsert ==
  ASSUME TimerInv, TimerInv', WaitInv, WaitTypes', clock' = clock, ran' = ran,
         NEW t \in Timers, NEW when, insert(t, when),
         \A x \in Made : timer'[x].m_canceled = timer[x].m_canceled
  PROVE  \A e \in m_timers' : Pending(e)' =>
            (Pending(e) /\ From(e)' = From(e)) \/ clock <= From(e)'
  <1>1. (\A x \in m_timers : since[x[2]] <= From(x))'
    BY FromInsertion, PTL
  <1> SUFFICES ASSUME NEW e \in m_timers', Pending(e)'
               PROVE  (Pending(e) /\ From(e)' = From(e)) \/ clock <= From(e)'
    OBVIOUS
  <1>2. m_timers' = m_timers \cup {<<when, t>>} /\ since' = [since EXCEPT ![t] = clock]
    BY DEF insert
  <1>3. since \in [Timers -> Nat] /\ WaitTypes
    BY DEF WaitInv, WaitTypes
  <1>4. CASE e[2] = t
    <2>1. since'[e[2]] = clock
      BY <1>2, <1>3, <1>4
    <2>2. QED
      BY <1>1, <2>1
  <1>5. CASE e[2] # t
    <2>1. e \in m_timers
      BY <1>2, <1>5
    <2>2. e[2] \in Made /\ e[2] \in Timers
      BY <1>3, <2>1, EntryFacts DEF TimerInv, Records
    <2>3. since'[e[2]] = since[e[2]]
      BY <1>2, <1>3, <1>5, <2>2
    <2>4. QED
      BY <2>1, <2>2, <2>3 DEF Pending, From
  <1>6. QED
    BY <1>4, <1>5

\* cancel starts a wait where it resumes a timer.
LEMMA WaitCancel ==
  ASSUME TimerInv, TimerInv', WaitInv, clock' = clock, ran' = ran, m_timers' = m_timers,
         NEW t \in Made, NEW off \in BOOLEAN, cancelTimerInLoop(t, off)
  PROVE  /\ WaitTypes'
         /\ \A e \in m_timers' : Pending(e)' =>
               (Pending(e) /\ From(e)' = From(e)) \/ clock <= From(e)'
  <1>1. since \in [Timers -> Nat] /\ WaitTypes /\ clock \in Nat /\ t \in Timers
    BY DEF WaitInv, WaitTypes, TimerInv, Types, Records
  <1>2. Records' /\ SameTimers
    BY CancelFields DEF TimerInv
  <1>3. since' \in [Timers -> Nat]
    BY <1>1 DEF cancelTimerInLoop
  <1>4. WaitTypes'
    BY <1>1, <1>2, <1>3 DEF WaitTypes, SameTimers
  <1>5. (\A x \in m_timers : since[x[2]] <= From(x))'
    BY <1>4, FromInsertion, PTL
  <1>6. ASSUME NEW e \in m_timers, Pending(e)'
        PROVE  (Pending(e) /\ From(e)' = From(e)) \/ clock <= From(e)'
    <2>1. e[2] \in Made /\ e[2] \in Timers
      BY <1>1, EntryFacts DEF TimerInv, Records
    <2>2. CASE ~Present(t)
      BY <1>6, <2>2 DEF cancelTimerInLoop, Pending, From
    <2>3. CASE Present(t)
      <3>1. /\ timer' = [timer EXCEPT ![t].m_canceled = off]
            /\ since' = IF timer[t].m_canceled /\ ~off THEN [since EXCEPT ![t] = clock]
                        ELSE since
        BY <2>3 DEF cancelTimerInLoop
      <3>2. timer \in [Made -> Timer]
        BY DEF TimerInv, Records
      <3>3. CASE e[2] # t
        <4>1. timer'[e[2]] = timer[e[2]] /\ since'[e[2]] = since[e[2]]
          BY <1>1, <2>1, <3>1, <3>2, <3>3
        <4>2. QED
          BY <1>6, <4>1 DEF Pending, From
      <3>4. CASE e[2] = t
        <4>1. timer'[t].m_canceled = off
          BY <3>1, <3>2 DEF Timer
        <4>2. ~off
          BY <1>6, <3>4, <4>1 DEF Pending
        <4>3. CASE timer[t].m_canceled
          <5>1. since'[t] = clock
            BY <1>1, <3>1, <4>2, <4>3
          <5>2. QED
            BY <1>5, <3>4, <5>1
        <4>4. CASE ~timer[t].m_canceled
          <5>1. since' = since
            BY <3>1, <4>4
          <5>2. QED
            BY <1>6, <3>4, <4>4, <5>1 DEF Pending, From
        <4>5. QED
          BY <4>3, <4>4
      <3>5. QED
        BY <3>3, <3>4
    <2>4. QED
      BY <2>2, <2>3
  <1>7. QED
    BY <1>4, <1>6

\* A callback or a handler adds a timer.
LEMMA WaitLoopAdds ==
  ASSUME TimerInv, TimerInv', WaitInv, LoopAdds
  PROVE  WaitInv'
  <1>1. PICK t \in Timers \ Made, new \in NewTimers :
          MakeTimer(t, new) /\ insert(t, new.expiration)
    BY DEF LoopAdds
  <1>2. /\ clock' = clock /\ fresh' = fresh /\ ran' = ran /\ phase' = phase /\ iter' = iter
        /\ now' = now /\ clock \in Nat
    BY DEF LoopAdds, TimerInv, Types
  <1>3. new \in Timer /\ new.expiration = new.when
    BY <1>2, NewTimerTypes
  <1>4. /\ Made' = Made \cup {t} /\ timer'[t] = new
        /\ \A x \in Made : timer'[x] = timer[x]
    BY <1>1, <1>3, MakeFields DEF TimerInv
  <1>5. WaitTypes'
    BY <1>1, <1>2, <1>4, FS_AddElement DEF WaitInv, WaitTypes, insert
  <1>6. \A e \in m_timers' : Pending(e)' =>
            (Pending(e) /\ From(e)' = From(e)) \/ clock <= From(e)'
    BY <1>1, <1>2, <1>4, <1>5, WaitInsert
  <1>7. \A e \in m_timers' \ m_timers : timer'[e[2]].expiration = e[1]
    BY <1>1, <1>4 DEF insert
  <1>8. \A x \in Made' \ Made : timer'[x].expiration = timer'[x].when
    BY <1>3, <1>4
  <1>9. QED
    BY <1>2, <1>4, <1>5, <1>6, <1>7, <1>8, WaitFrame

\* Nothing that waits is touched.
LEMMA WaitSame ==
  ASSUME TimerInv, TimerInv', WaitInv, clock' = clock, fresh' = fresh, ran' = ran,
         timer' = timer, since' = since, m_timers' \subseteq m_timers,
         \/ phase' = phase /\ iter' = iter /\ now' = now
         \/ ~InPass /\ ~InPass' /\ phase # "crashed"
  PROVE  WaitInv'
  <1>1. Made' = Made /\ WaitTypes'
    BY DEF Made, WaitInv, WaitTypes
  <1>2. \A e \in m_timers' : Pending(e)' => Pending(e) /\ From(e)' = From(e)
    BY DEF Pending, From
  <1>3. QED
    BY <1>1, <1>2, WaitFrame

\* One removes a timer ...
LEMMA WaitLoopRemoves ==
  ASSUME TimerInv, TimerInv', WaitInv, LoopRemoves
  PROVE  WaitInv'
  <1>1. /\ clock' = clock /\ fresh' = fresh /\ ran' = ran /\ phase' = phase /\ iter' = iter
        /\ now' = now /\ timer' = timer /\ since' = since /\ m_timers' \subseteq m_timers
    BY DEF LoopRemoves, removeTimerInLoop
  <1>2. QED
    BY <1>1, WaitSame

\* ... or cancels or resumes one.
LEMMA WaitLoopCancels ==
  ASSUME TimerInv, TimerInv', WaitInv, LoopCancels
  PROVE  WaitInv'
  <1>1. PICK t \in Made, off \in BOOLEAN : cancelTimerInLoop(t, off)
    BY DEF LoopCancels
  <1>2. /\ clock' = clock /\ fresh' = fresh /\ ran' = ran /\ phase' = phase /\ iter' = iter
        /\ now' = now /\ m_timers' = m_timers
    BY DEF LoopCancels
  <1>3. SameTimers
    BY <1>1, CancelFields DEF TimerInv
  <1>4. /\ WaitTypes'
        /\ \A e \in m_timers' : Pending(e)' =>
              (Pending(e) /\ From(e)' = From(e)) \/ clock <= From(e)'
    BY <1>1, <1>2, WaitCancel
  <1>5. QED
    BY <1>2, <1>3, <1>4, WaitFrame DEF SameTimers

\* Another thread makes a timer that is not in the set yet.
LEMMA WaitOtherAdds ==
  ASSUME TimerInv, TimerInv', WaitInv, OtherAdds
  PROVE  WaitInv'
  <1>1. PICK t \in Timers \ Made, new \in NewTimers : MakeTimer(t, new)
    BY DEF OtherAdds
  <1>2. /\ clock' = clock /\ fresh' = fresh /\ ran' = ran /\ phase' = phase /\ iter' = iter
        /\ now' = now /\ m_timers' = m_timers /\ since' = since /\ clock \in Nat
    BY DEF OtherAdds, TimerInv, Types
  <1>3. new \in Timer /\ new.expiration = new.when
    BY <1>2, NewTimerTypes
  <1>4. /\ Made' = Made \cup {t} /\ timer'[t] = new
        /\ \A x \in Made : timer'[x] = timer[x]
    BY <1>1, <1>3, MakeFields DEF TimerInv
  <1>5. WaitTypes'
    BY <1>1, <1>2, <1>4, FS_AddElement DEF WaitInv, WaitTypes
  <1>6. \A e \in m_timers' : Pending(e)' => Pending(e) /\ From(e)' = From(e)
    <2>1. \A e \in m_timers : e[2] \in Made
      BY DEF TimerInv, Types
    <2>2. QED
      BY <1>2, <1>4, <2>1 DEF Pending, From
  <1>7. \A x \in Made' \ Made : timer'[x].expiration = timer'[x].when
    BY <1>3, <1>4
  <1>8. QED
    BY <1>2, <1>4, <1>5, <1>6, <1>7, WaitFrame

\* A functor inserts, removes, cancels or resumes a timer.
LEMMA WaitRunTask ==
  ASSUME TimerInv, TimerInv', WaitInv, RunTask
  PROVE  WaitInv'
  <1>1. PICK k : k = Head(functors)
    OBVIOUS
  <1>2. /\ clock' = clock /\ fresh' = fresh /\ ran' = ran /\ phase' = phase /\ iter' = iter
        /\ now' = now /\ clock \in Nat
    BY DEF RunTask, TimerInv, Types
  <1>3. k \in Tasks /\ k.t \in Made /\ k.t \in Timers /\ (k.op = "add" => Waiting(k.t))
        /\ (k.op = "cancel" => k.off \in BOOLEAN)
    <2>1. Len(Chain) > 0 /\ Chain[1] = k /\ k \in Tasks
      BY <1>1, ChainTail DEF RunTask, TimerInv
    <2>2. Chain \in Seq(Tasks) /\ Len(Chain) \in Nat
      BY DEF TimerInv, Types, Chain
    <2>3. 1 \in 1..Len(Chain)
      BY <2>1, <2>2
    <2>4. k.t \in Made /\ (k.op = "add" => Waiting(k.t))
      BY <2>1, <2>3 DEF TimerInv, Queued, QueuedIn
    <2>5. QED
      BY <2>1, <2>4, TaskTypes DEF TimerInv, Records
  <1>4. CASE k.op = "add" /\ insert(k.t, timer[k.t].expiration) /\ timer' = timer
    <2>1. Made' = Made /\ since' = [since EXCEPT ![k.t] = clock]
      BY <1>4 DEF Made, insert
    <2>2. WaitTypes'
      BY <1>2, <1>3, <2>1 DEF WaitInv, WaitTypes
    <2>3. \A e \in m_timers' : Pending(e)' =>
             (Pending(e) /\ From(e)' = From(e)) \/ clock <= From(e)'
      BY <1>2, <1>3, <1>4, <2>2, WaitInsert
    <2>4. \A e \in m_timers' \ m_timers : timer'[e[2]].expiration = e[1]
      BY <1>4 DEF insert
    <2>5. QED
      BY <1>2, <1>4, <2>1, <2>2, <2>3, <2>4, WaitFrame
  <1>5. CASE k.op = "remove" /\ removeTimerInLoop(k.t) /\ timer' = timer /\ since' = since
    BY <1>2, <1>5, WaitSame DEF removeTimerInLoop
  <1>6. CASE k.op = "cancel" /\ cancelTimerInLoop(k.t, k.off) /\ m_timers' = m_timers
    <2>1. SameTimers
      BY <1>3, <1>6, CancelFields DEF TimerInv
    <2>2. /\ WaitTypes'
          /\ \A e \in m_timers' : Pending(e)' =>
                (Pending(e) /\ From(e)' = From(e)) \/ clock <= From(e)'
      BY <1>2, <1>3, <1>6, WaitCancel
    <2>3. QED
      BY <1>2, <1>6, <2>1, <2>2, WaitFrame DEF SameTimers
  <1>7. QED
    BY <1>1, <1>4, <1>5, <1>6 DEF RunTask

\* The steps that touch neither timers nor their wait.
LEMMA WaitOtherSteps ==
  ASSUME TimerInv, TimerInv', WaitInv, OtherCalls \/ BeginTasks \/ UNCHANGED vars
  PROVE  WaitInv'
  <1>1. /\ clock' = clock /\ fresh' = fresh /\ ran' = ran /\ timer' = timer
        /\ since' = since /\ m_timers' \subseteq m_timers
    BY DEF OtherCalls, BeginTasks, vars
  <1>2. \/ phase' = phase /\ iter' = iter /\ now' = now
        \/ ~InPass /\ ~InPass' /\ phase # "crashed"
    BY DEF OtherCalls, BeginTasks, vars, InPass
  <1>3. QED
    BY <1>1, <1>2, WaitSame

\* The invariant of the waiting time holds in every reachable state.
LEMMA WaitAlways == Spec => []WaitInv
  <1>1. TimerInv /\ TimerInv' /\ WaitInv /\ [Next]_vars => WaitInv'
    BY WaitBeginTimers, WaitSkipTimer, WaitCallTimer, WaitReturnFromTimer, WaitEndTimers,
       WaitLoopAdds, WaitLoopRemoves, WaitLoopCancels, WaitOtherAdds, WaitRunTask, WaitTick,
       WaitOtherSteps DEF Next
  <1>2. QED
    BY WaitInit, InvAlways, <1>1, PTL DEF Spec

(***************************************************************************)
(* A timer that is due, in the set and not cancelled runs within the       *)
(* intervals of the timers in front of it, added up, and one tick, however *)
(* many there are and whatever their intervals: doTimer stops at the first *)
(* timer that is not due, but a timer that holds up another is due again   *)
(* before its share of the wait is over.                                   *)
(***************************************************************************)
THEOREM WaitIsBounded == Spec => []BoundedWait
  <1>1. TimerInv /\ WaitInv => BoundedWait
    <2> SUFFICES ASSUME TimerInv, WaitInv, NEW e \in m_timers, ran[e[2]] = 0,
                        ~timer[e[2]].m_canceled, phase # "crashed"
                 PROVE  \/ clock <= timer[e[2]].when + WaitBound(e)
                        \/ clock <= since[e[2]] + WaitBound(e)
      BY DEF BoundedWait
    <2>1. PICK S : S = SumOf(timer, InFront(e))
      OBVIOUS
    <2>2. WaitBound(e) = 1 + S
      BY <2>1, BoundIs
    <2>3. Waits /\ WaitTypes
      BY DEF WaitInv
    <2>4. /\ e \in Nat \X Nat /\ e[1] = timer[e[2]].when /\ e[2] \in Made
      BY <2>3, EntryFacts
    <2>5. S \in Nat
      BY <2>1, <2>3, <2>4, BetweenSums DEF TimerInv, WaitTypes
    <2>6. clock <= From(e) + 1 + S
      BY <2>1, <2>3 DEF Waits, Bounded, Pending
    <2>7. since[e[2]] \in Nat /\ e[1] \in Nat /\ clock \in Nat
      BY <2>3, <2>4 DEF WaitTypes, TimerInv, Records, Types
    <2>8. From(e) = e[1] \/ From(e) = since[e[2]]
      BY DEF From
    <2>9. QED
      BY <2>2, <2>4, <2>5, <2>6, <2>7, <2>8
  <1>2. QED
    BY <1>1, InvAlways, WaitAlways, PTL

=============================================================================
