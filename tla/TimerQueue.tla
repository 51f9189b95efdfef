------------------------------ MODULE TimerQueue ------------------------------
(***************************************************************************)
(* The timers of one event loop: TimerQueue, Timer and the operations of   *)
(* EventLoop in front of them.  The loop repeats doTimer, poll and         *)
(* handlers, doOtherTasks; other threads reach the queue only through      *)
(* pending functors.  Timer objects are named by their addresses, which    *)
(* break ties in m_timers; a Timer is deleted only with the queue, so an   *)
(* address is never used twice.                                            *)
(***************************************************************************)
EXTENDS Integers, Sequences, FiniteSetsExt

CONSTANTS Timers,     \* addresses of Timer objects
          Delays,     \* from the call to the due time
          Intervals,  \* of repeated timers
          MaxTime,    \* bound on the clock
          MaxCalls    \* bound on calls of cancel and remove

ASSUME TimersAssumption == Timers \subseteq Nat
ASSUME DelaysAssumption == Delays \subseteq Nat
ASSUME IntervalsAssumption == Intervals \subseteq Nat \ {0}
ASSUME BoundsAssumption == MaxTime \in Nat /\ MaxCalls \in Nat

VARIABLES
  clock,               \* Timestamp::now()
  timer,               \* the Timer objects made so far
  m_timers,            \* std::set of <<when, address>>
  m_pendingFunctors,   \* calls queued by other threads
  functors,            \* the local vector of doOtherTasks
  phase, iter, now,    \* where the loop is, doTimer's iterator and time;
                       \* "crashed": the iterator's entry is gone
  fresh,               \* the last doTimer began at the present time
  calls,               \* calls of cancel and remove so far
  ran,                 \* history: runs of each timer
  since,               \* history: when it was inserted or last resumed
  seen,                \* history: the entries that were there when the present
                       \* doTimer began, and have not been cancelled then or since
  removed              \* history: removals executed out of the queue

vars == <<clock, timer, m_timers, m_pendingFunctors, functors, phase, iter, now,
          fresh, calls, ran, since, seen, removed>>

End == <<>>

Timer == [expiration: Nat, interval: {0} \cup Intervals, m_repeatCount: {-1, 0, 1},
          m_canceled: BOOLEAN, when: Nat, asked: {-1, 1}, moved: BOOLEAN]

Tasks == [op: {"add"}, t: Timers] \cup [op: {"remove"}, t: Timers]
           \cup [op: {"cancel"}, t: Timers, off: BOOLEAN]

Made == DOMAIN timer

Present(t) == \E e \in m_timers : e[2] = t

(***************************************************************************)
(* The order of std::set<std::pair<Timestamp, Timer*>>.                    *)
(***************************************************************************)
Before(a, b) == a[1] < b[1] \/ (a[1] = b[1] /\ a[2] < b[2])

First(S) == IF S = {} THEN End ELSE CHOOSE e \in S : \A x \in S \ {e} : Before(e, x)

After(S, e) == First({x \in S : Before(e, x)})

TypeOK ==
  /\ clock \in 0..MaxTime
  /\ Made \subseteq Timers /\ \A t \in Made : timer[t] \in Timer
  /\ m_timers \subseteq (Nat \X Made)
  /\ m_pendingFunctors \in Seq(Tasks) /\ functors \in Seq(Tasks)
  /\ phase \in {"timers", "callback", "poll", "tasks", "crashed"}
  /\ iter \in {End} \cup (Nat \X Made)
  /\ now \in 0..clock
  /\ fresh \in BOOLEAN /\ calls \in 0..MaxCalls
  /\ ran \in [Timers -> Nat] /\ since \in [Timers -> Nat]
  /\ seen \subseteq (Nat \X Made) /\ removed \subseteq Timers

Init ==
  /\ clock = 0 /\ now = 0 /\ fresh = FALSE /\ calls = 0
  /\ timer = <<>> /\ m_timers = {} /\ seen = {} /\ removed = {}
  /\ m_pendingFunctors = <<>> /\ functors = <<>>
  /\ phase = "tasks" /\ iter = End
  /\ ran = [t \in Timers |-> 0] /\ since = [t \in Timers |-> 0]

-----------------------------------------------------------------------------
\* Fault: the moved overload forgets the repeat count as well.
NewTimerForgets(when, interval, repeatCount, moved) ==
  [expiration |-> when, interval |-> interval, m_repeatCount |-> -1,
   m_canceled |-> FALSE, when |-> when, asked |-> repeatCount, moved |-> moved]

(***************************************************************************)
(* The overload of addTimer that takes a const reference forgets the       *)
(* repeat count: Timer's constructor then takes -1, for ever.              *)
(***************************************************************************)
NewTimer(when, interval, repeatCount, moved) ==
  [expiration |-> when, interval |-> interval,
   m_repeatCount |-> IF moved THEN repeatCount ELSE -1,
   m_canceled |-> FALSE, when |-> when, asked |-> repeatCount, moved |-> moved]

\* runAt and runAfter ask for one run, runEvery for repetition
runAt(when, moved) == NewTimer(when, 0, 1, moved)

\* both overloads have the same effect: the count is -1 in each
runEvery(interval) == NewTimer(clock + interval, interval, -1, TRUE)

NewTimers == {runAt(clock + d, m) : d \in Delays, m \in BOOLEAN}
               \cup {runEvery(i) : i \in Intervals}

\* Fault: the entry is filed under the time of the call.
insertByCall(t, when) ==
  /\ m_timers' = m_timers \cup {<<clock, t>>}
  /\ since' = [since EXCEPT ![t] = clock]

insert(t, when) ==
  /\ m_timers' = m_timers \cup {<<when, t>>}
  /\ since' = [since EXCEPT ![t] = clock]

removeTimerInLoop(t) == m_timers' = {e \in m_timers : e[2] # t}

\* a timer that is not in the set is left alone
cancelTimerInLoop(t, off) ==
  /\ timer' = IF Present(t) THEN [timer EXCEPT ![t].m_canceled = off] ELSE timer
  /\ since' = IF Present(t) /\ timer[t].m_canceled /\ ~off
              THEN [since EXCEPT ![t] = clock] ELSE since

MakeTimer(t, new) == timer' = [x \in Made \cup {t} |-> IF x = t THEN new ELSE timer[x]]

-----------------------------------------------------------------------------
(***************************************************************************)
(* EventLoop::loop: doTimer, poll and handlers, doOtherTasks.              *)
(***************************************************************************)
BeginTimers ==
  /\ phase = "tasks" /\ functors = <<>>
  /\ phase' = "timers" /\ now' = clock
  /\ iter' = First(m_timers) /\ seen' = {e \in m_timers : ~timer[e[2]].m_canceled}
  /\ UNCHANGED <<clock, timer, m_timers, m_pendingFunctors, functors, fresh, calls,
                 ran, since, removed>>

AtTimer == phase = "timers" /\ iter # End

Due(t) == timer[t].expiration <= now

\* a cancelled timer is passed over and keeps its expiration
SkipTimer ==
  /\ AtTimer /\ Due(iter[2]) /\ timer[iter[2]].m_canceled
  /\ iter' = After(m_timers, iter)
  /\ UNCHANGED <<clock, timer, m_timers, m_pendingFunctors, functors, phase, now, fresh,
                 calls, ran, since, seen, removed>>

\* without an interval: never, once, more often
CountRun(t) == IF timer[t].interval = 0 /\ ran[t] = 2 THEN 2 ELSE ran[t] + 1

CallTimer ==
  /\ AtTimer /\ Due(iter[2]) /\ ~timer[iter[2]].m_canceled
  /\ phase' = "callback"
  /\ ran' = [ran EXCEPT ![iter[2]] = CountRun(iter[2])]
  /\ UNCHANGED <<clock, timer, m_timers, m_pendingFunctors, functors, iter, now, fresh,
                 calls, since, seen, removed>>

(***************************************************************************)
(* Timer::run after the callback.                                          *)
(***************************************************************************)
AfterRun(tm) ==
  LET left == IF tm.m_repeatCount = -1 THEN -1 ELSE tm.m_repeatCount - 1 IN
  [tm EXCEPT !.m_repeatCount = left,
             !.expiration = IF left = 0 THEN @ ELSE @ + tm.interval]

\* Fault: the pass ends after a timer that stays.
ThenStop(left) == IF left = 0 THEN After(m_timers, iter) ELSE End

\* iter = m_timers.erase(iter), or ++iter
Following(left) == After(m_timers, iter)

(***************************************************************************)
(* The callback returns: the entry goes when no run is left.  If the       *)
(* callback has removed its own timer the iterator dangles.                *)
(***************************************************************************)
ReturnFromTimer ==
  LET ended == AfterRun(timer[iter[2]]) IN
  /\ phase = "callback"
  /\ phase' = IF iter \in m_timers THEN "timers" ELSE "crashed"
  /\ timer' = [timer EXCEPT ![iter[2]] = ended]
  /\ m_timers' = IF ended.m_repeatCount = 0 THEN m_timers \ {iter} ELSE m_timers
  /\ iter' = Following(ended.m_repeatCount)
  /\ UNCHANGED <<clock, m_pendingFunctors, functors, now, fresh, calls, ran, since,
                 seen, removed>>

(***************************************************************************)
(* doTimer ends with the set or at the first timer that is not due.        *)
(***************************************************************************)
EndTimers ==
  /\ phase = "timers" /\ (iter # End => ~Due(iter[2]))
  /\ phase' = "poll" /\ iter' = End /\ now' = 0 /\ seen' = {}
  /\ fresh' = (now = clock)
  /\ UNCHANGED <<clock, timer, m_timers, m_pendingFunctors, functors, calls, ran,
                 since, removed>>

(***************************************************************************)
(* Code in the loop's thread, a timer's callback or a handler, calls an    *)
(* operation: runInLoop runs it at once.                                   *)
(***************************************************************************)
InCallback == phase \in {"callback", "poll"}

LoopAdds ==
  /\ InCallback
  /\ \E t \in Timers \ Made, new \in NewTimers :
       MakeTimer(t, new) /\ insert(t, new.expiration)
  /\ UNCHANGED <<clock, m_pendingFunctors, functors, phase, iter, now, fresh, calls, ran,
                 seen, removed>>

LoopRemoves ==
  /\ InCallback /\ calls < MaxCalls
  /\ calls' = calls + 1
  /\ \E t \in Made : removeTimerInLoop(t)
  /\ UNCHANGED <<clock, timer, m_pendingFunctors, functors, phase, iter, now, fresh, ran,
                 since, seen, removed>>

LoopCancels ==
  /\ InCallback /\ calls < MaxCalls
  /\ calls' = calls + 1
  /\ \E t \in Made, off \in BOOLEAN :
       /\ cancelTimerInLoop(t, off)
       /\ seen' = {e \in seen : e[2] # t \/ ~off}
  /\ UNCHANGED <<clock, m_timers, m_pendingFunctors, functors, phase, iter, now, fresh,
                 ran, removed>>

(***************************************************************************)
(* Another thread calls one: runInLoop queues it.  A TimerId is returned   *)
(* before the timer is in the set.                                         *)
(***************************************************************************)
\* Fault: the task goes to the front.
queueAtFront(task) == m_pendingFunctors' = <<task>> \o m_pendingFunctors

queueInLoop(task) == m_pendingFunctors' = Append(m_pendingFunctors, task)

OtherAdds ==
  /\ \E t \in Timers \ Made, new \in NewTimers :
       MakeTimer(t, new) /\ queueInLoop([op |-> "add", t |-> t])
  /\ UNCHANGED <<clock, m_timers, functors, phase, iter, now, fresh, calls, ran, since,
                 seen, removed>>

OtherCalls ==
  /\ calls < MaxCalls
  /\ calls' = calls + 1
  /\ \E t \in Made :
       \/ queueInLoop([op |-> "remove", t |-> t])
       \/ \E off \in BOOLEAN : queueInLoop([op |-> "cancel", t |-> t, off |-> off])
  /\ UNCHANGED <<clock, timer, m_timers, functors, phase, iter, now, fresh, ran, since,
                 seen, removed>>

(***************************************************************************)
(* doOtherTasks: the queue is swapped out, then run.                       *)
(***************************************************************************)
BeginTasks ==
  /\ phase = "poll"
  /\ phase' = "tasks"
  /\ functors' = m_pendingFunctors /\ m_pendingFunctors' = <<>>
  /\ UNCHANGED <<clock, timer, m_timers, iter, now, fresh, calls, ran, since, seen,
                 removed>>

RunTask ==
  /\ phase = "tasks" /\ functors # <<>>
  /\ functors' = Tail(functors)
  /\ LET task == Head(functors) IN
     \/ /\ task.op = "add"
        /\ insert(task.t, timer[task.t].expiration)
        /\ UNCHANGED <<timer, removed>>
     \/ /\ task.op = "remove"
        /\ removeTimerInLoop(task.t)
        /\ removed' = removed \cup {task.t}
        /\ UNCHANGED <<timer, since>>
     \/ /\ task.op = "cancel"
        /\ cancelTimerInLoop(task.t, task.off)
        /\ UNCHANGED <<m_timers, removed>>
  /\ UNCHANGED <<clock, m_pendingFunctors, phase, iter, now, fresh, calls, ran, seen>>

(***************************************************************************)
(* Time passes while the loop polls or a callback runs; the other steps    *)
(* take none.  At least one doTimer begins and ends at each time.          *)
(***************************************************************************)
Tick ==
  /\ clock < MaxTime /\ fresh /\ InCallback
  /\ clock' = clock + 1 /\ fresh' = FALSE
  /\ UNCHANGED <<timer, m_timers, m_pendingFunctors, functors, phase, iter, now, calls,
                 ran, since, seen, removed>>

Next ==
  \/ BeginTimers \/ SkipTimer \/ CallTimer \/ ReturnFromTimer \/ EndTimers
  \/ LoopAdds \/ LoopRemoves \/ LoopCancels \/ OtherAdds \/ OtherCalls
  \/ BeginTasks \/ RunTask \/ Tick

Spec == Init /\ [][Next]_vars

-----------------------------------------------------------------------------
(***************************************************************************)
(* No timer runs ahead of its schedule: by any time a repeated timer has   *)
(* run at most once for each interval since it was due, however often the  *)
(* loop went round, it was delayed, cancelled and resumed; a timer made by *)
(* the moving overload of runAt or runAfter runs once (RunsOnce has the    *)
(* other overload).                                                        *)
(***************************************************************************)
NeverAhead ==
  \A t \in Made :
     /\ ran[t] > 0 => timer[t].when <= clock
     /\ timer[t].interval > 0 =>
          timer[t].when + (ran[t] - 1) * timer[t].interval <= clock
     /\ timer[t].asked = 1 /\ timer[t].moved => ran[t] <= 1

(***************************************************************************)
(* A timer made by runAt or runAfter is executed only once, as the comment *)
(* at EventLoop.cpp:184 has it.  Does not hold: the overload of addTimer   *)
(* behind that line drops the repeat count.                                *)
(***************************************************************************)
RunsOnce == \A t \in Made : timer[t].asked = 1 => ran[t] <= 1

(***************************************************************************)
(* Timers that are to run once, are there when doTimer begins and are not  *)
(* cancelled then or during the pass, run in the order of their due times. *)
(***************************************************************************)
RunInDueOrder ==
  phase = "callback" =>
    \A e \in seen \cap m_timers :
       timer[iter[2]].asked = 1 /\ timer[e[2]].asked = 1 /\ timer[e[2]].moved
       => timer[iter[2]].when <= timer[e[2]].when

(***************************************************************************)
(* A removal that another thread queued is final: its functor runs after   *)
(* the one that inserts the timer, so the timer does not come back.        *)
(***************************************************************************)
RemovedStaysOut == \A t \in removed : ~Present(t)

(***************************************************************************)
(* Repeated timers keep the place in m_timers that their first due time    *)
(* gave them, and doTimer stops at the first one that is not due, so a     *)
(* timer can wait for another's interval.  For its first run it never      *)
(* waits longer than the intervals in front of it together and one tick,   *)
(* counted from when it was due, in the set and not cancelled.  Nothing is *)
(* said of how late the later runs of a repeated timer are.                *)
(***************************************************************************)
InFront(e) == {t \in Made : Before(<<timer[t].when, t>>, e)}

WaitBound(e) == 1 + MapThenSumSet(LAMBDA t : timer[t].interval, InFront(e))

BoundedWait ==
  \A e \in m_timers :
     LET t == e[2] IN
     (ran[t] = 0 /\ ~timer[t].m_canceled /\ phase # "crashed")
     => clock <= timer[t].when + WaitBound(e) \/ clock <= since[t] + WaitBound(e)

=============================================================================
