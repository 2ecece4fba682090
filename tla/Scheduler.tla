----------------------------- MODULE Scheduler -----------------------------
(***************************************************************************)
(* CScheduler (scheduler.cpp): threads in serviceQueue share a queue of    *)
(* tasks ordered by time.  newTaskMutex is held throughout a pass of the   *)
(* loop except while the thread waits on newTaskScheduled or runs a task,  *)
(* so a pass from one such point to the next is one step.  schedule and    *)
(* stop notify after they have released the mutex, in a step of their own. *)
(*                                                                         *)
(* Times are kept relative to the present: a queue entry and a timed wait  *)
(* count down with every Tick and stay at 0 once they are due.  The queue  *)
(* is in the order of its multimap, equal times in order of insertion.     *)
(***************************************************************************)
EXTENDS Naturals, Sequences, SequencesExt

CONSTANTS Service,  \* the threads that run serviceQueue
          Task,     \* the functions handed to the scheduler, by one owner each
          Delay,    \* Delay[f]: seconds until f is due, from now
          Periodic  \* the tasks scheduled with scheduleEvery

ASSUME SchedulerAssumption == Delay \in [Task -> Nat] /\ Periodic \subseteq Task

VARIABLES taskQueue,      \* sequence of [f, left]
          pc,             \* where each service thread is
          timeToWaitFor,  \* what is left of its timed wait
          f,              \* the task it runs
          stopRequested,
          stopWhenEmpty,
          owner           \* the notification a caller still has to make

vars == <<taskQueue, pc, timeToWaitFor, f, stopRequested, stopWhenEmpty, owner>>

shouldStop == stopRequested \/ (stopWhenEmpty /\ taskQueue = <<>>)

\* Fault: a task is put at the end of the queue, whenever it is due.
InsertLast(queue, e) == Append(queue, e)

\* multimap::insert: behind every entry that is due no later.
Insert(queue, e) ==
  LET sooner == Cardinality({i \in DOMAIN queue : queue[i].left <= e.left})
  IN  InsertAt(queue, sooner + 1, e)

Queued(g) == \E i \in DOMAIN taskQueue : taskQueue[i].f = g
Runs(g) == \E t \in Service : pc[t] \in {"run", "notify"} /\ f[t] = g

Waiting == {t \in Service : pc[t] \in {"wait", "timed"}}

\* newTaskScheduled.notify_one(), by a thread whose state becomes next.
NotifyOne(now) ==
  IF Waiting = {} THEN pc' = now
  ELSE \E t \in Waiting : pc' = [now EXCEPT ![t] = "loop"]

-----------------------------------------------------------------------------
Init ==
  /\ taskQueue = <<>>
  /\ pc = [t \in Service |-> "loop"]
  /\ timeToWaitFor = [t \in Service |-> 0]
  /\ f = [t \in Service |-> "none"]
  /\ stopRequested = FALSE
  /\ stopWhenEmpty = FALSE
  /\ owner = "none"

\* scheduleFromNow or scheduleEvery, by the owner of the task.
Schedule(g) ==
  /\ owner = "none"
  /\ ~Queued(g) /\ ~Runs(g)
  /\ taskQueue' = Insert(taskQueue, [f |-> g, left |-> Delay[g]])
  /\ owner' = "one"
  /\ UNCHANGED <<pc, timeToWaitFor, f, stopRequested, stopWhenEmpty>>

\* stop(drain), which the owner calls at most once for each kind.
Stop(drain) ==
  /\ owner = "none"
  /\ IF drain THEN ~stopWhenEmpty ELSE ~stopRequested
  /\ stopWhenEmpty' = (stopWhenEmpty \/ drain)
  /\ stopRequested' = (stopRequested \/ ~drain)
  /\ owner' = "all"
  /\ UNCHANGED <<taskQueue, pc, timeToWaitFor, f>>

\* Fault: stop() sets its flag and notifies nobody.
NotifyNobody ==
  /\ \/ owner = "one" /\ NotifyOne(pc)
     \/ owner = "all" /\ UNCHANGED pc
  /\ owner' = "none"
  /\ UNCHANGED <<taskQueue, timeToWaitFor, f, stopRequested, stopWhenEmpty>>

\* notify_one of schedule, or notify_all of stop.
Notify ==
  /\ \/ owner = "one" /\ NotifyOne(pc)
     \/ /\ owner = "all"
        /\ pc' = [t \in Service |-> IF t \in Waiting THEN "loop" ELSE pc[t]]
  /\ owner' = "none"
  /\ UNCHANGED <<taskQueue, timeToWaitFor, f, stopRequested, stopWhenEmpty>>

\* Fault: a thread waits for a new task although there is one.
WaitAlways(t) ==
  /\ pc[t] = "loop" /\ ~shouldStop
  /\ pc' = [pc EXCEPT ![t] = "wait"]
  /\ UNCHANGED timeToWaitFor

\* The queue is empty: wait for a new task; otherwise until the first is due.
Wait(t) ==
  /\ pc[t] = "loop" /\ ~shouldStop
  /\ IF taskQueue = <<>>
     THEN pc' = [pc EXCEPT ![t] = "wait"] /\ UNCHANGED timeToWaitFor
     ELSE /\ pc' = [pc EXCEPT ![t] = "timed"]
          /\ timeToWaitFor' = [timeToWaitFor EXCEPT ![t] = Head(taskQueue).left]

WaitStep(t) ==
  Wait(t) /\ UNCHANGED <<taskQueue, f, stopRequested, stopWhenEmpty, owner>>

\* wait_until returns timeout; the mutex has still to be taken again.
TimeOut(t) ==
  /\ pc[t] = "timed"
  /\ timeToWaitFor[t] = 0
  /\ pc' = [pc EXCEPT ![t] = "timeout"]
  /\ UNCHANGED <<taskQueue, timeToWaitFor, f, stopRequested, stopWhenEmpty, owner>>

\* Behind the timed wait: the first task of the queue, whichever it is now.
Take(t) ==
  /\ pc[t] = "timeout"
  /\ IF shouldStop \/ taskQueue = <<>>
     THEN pc' = [pc EXCEPT ![t] = "loop"] /\ UNCHANGED <<taskQueue, f>>
     ELSE /\ pc' = [pc EXCEPT ![t] = "run"]
          /\ f' = [f EXCEPT ![t] = Head(taskQueue).f]
          /\ taskQueue' = Tail(taskQueue)
  /\ UNCHANGED <<timeToWaitFor, stopRequested, stopWhenEmpty, owner>>

\* f() returns; Repeat schedules the task again.
Finish(t) ==
  /\ pc[t] = "run"
  /\ IF f[t] \in Periodic
     THEN /\ taskQueue' = Insert(taskQueue, [f |-> f[t], left |-> Delay[f[t]]])
          /\ pc' = [pc EXCEPT ![t] = "notify"]
          /\ UNCHANGED f
     ELSE /\ pc' = [pc EXCEPT ![t] = "loop"]
          /\ f' = [f EXCEPT ![t] = "none"]
          /\ UNCHANGED taskQueue
  /\ UNCHANGED <<timeToWaitFor, stopRequested, stopWhenEmpty, owner>>

\* ... and notifies.
Rescheduled(t) ==
  /\ pc[t] = "notify"
  /\ NotifyOne([pc EXCEPT ![t] = "loop"])
  /\ f' = [f EXCEPT ![t] = "none"]
  /\ UNCHANGED <<taskQueue, timeToWaitFor, stopRequested, stopWhenEmpty, owner>>

\* The end of serviceQueue.
Leave(t) ==
  /\ pc[t] = "loop" /\ shouldStop
  /\ NotifyOne([pc EXCEPT ![t] = "ended"])
  /\ UNCHANGED <<taskQueue, timeToWaitFor, f, stopRequested, stopWhenEmpty, owner>>

\* A second passes.
Tick ==
  LET Less(n) == IF n = 0 THEN 0 ELSE n - 1 IN
    /\ taskQueue' = [i \in DOMAIN taskQueue |->
                       [taskQueue[i] EXCEPT !.left = Less(@)]]
    /\ timeToWaitFor' = [t \in Service |-> Less(timeToWaitFor[t])]
    /\ UNCHANGED <<pc, f, stopRequested, stopWhenEmpty, owner>>

\* A wait that ends for no reason, which the loops allow for.
Wake(t) ==
  /\ t \in Waiting
  /\ pc' = [pc EXCEPT ![t] = "loop"]
  /\ UNCHANGED <<taskQueue, timeToWaitFor, f, stopRequested, stopWhenEmpty, owner>>

ServiceStep(t) ==
  WaitStep(t) \/ TimeOut(t) \/ Take(t) \/ Finish(t) \/ Rescheduled(t) \/ Leave(t)

Next ==
  \/ \E g \in Task : Schedule(g)
  \/ \E drain \in BOOLEAN : Stop(drain)
  \/ Notify
  \/ \E t \in Service : ServiceStep(t) \/ Wake(t)
  \/ Tick

Spec == Init /\ [][Next]_vars

(***************************************************************************)
(* Callers leave schedule and stop, the system gives every service thread  *)
(* its turn, tasks return, and time passes.  Waits do not end for no       *)
(* reason so often that none of them ever times out.                       *)
(***************************************************************************)
FairSpec ==
  /\ Spec
  /\ WF_vars(Notify)
  /\ WF_vars(Tick)
  /\ \A t \in Service : WF_vars(ServiceStep(t)) /\ SF_vars(TimeOut(t))

-----------------------------------------------------------------------------
\* Type invariant.
SchedulerTypeOK ==
  /\ taskQueue \in Seq([f : Task, left : Nat])
  /\ pc \in [Service -> {"loop", "wait", "timed", "timeout", "run", "notify", "ended"}]
  /\ timeToWaitFor \in [Service -> Nat]
  /\ f \in [Service -> Task \cup {"none"}]
  /\ stopRequested \in BOOLEAN /\ stopWhenEmpty \in BOOLEAN
  /\ owner \in {"none", "one", "all"}

\* The task that is due first is at the head, also after tasks were put
\* back and time has passed.
InTimeOrder ==
  \A i, j \in DOMAIN taskQueue : i < j => taskQueue[i].left <= taskQueue[j].left

\* However many threads time out on the same task, a task is once in the
\* queue or runs in one thread.
AtMostOnce ==
  /\ \A i, j \in DOMAIN taskQueue : taskQueue[i].f = taskQueue[j].f => i = j
  /\ \A t \in Service : pc[t] = "run" => f[t] \in Task /\ ~Queued(f[t])
  /\ \A t, u \in Service : pc[t] = "run" /\ pc[u] = "run" /\ f[t] = f[u] => t = u

\* No notification is lost: while a task is queued, a thread that waits for
\* a new task will be notified, or another thread looks after the queue.
NoLostWakeup ==
  taskQueue # <<>> /\ (\E t \in Service : pc[t] = "wait") =>
    owner = "one" \/ \E u \in Service : pc[u] \notin {"wait", "ended"}

\* Once stop() has notified, no thread waits and none begins to wait.
StopWakesAll == stopRequested /\ owner # "all" => Waiting = {}

\* What newTaskMutex protects, in any interleaving of threads and callers:
\* the order of the queue, one place for each task, and a wakeup for every
\* thread that has something to do.
SchedulerSafe ==
  /\ SchedulerTypeOK
  /\ InTimeOrder
  /\ AtMostOnce
  /\ NoLostWakeup
  /\ StopWakesAll

\* A task that is queued while a service thread is there runs, also when the
\* queue is drained: no notification is lost and no thread sleeps over it.
QueuedTasksRun ==
  \A g \in Task : Queued(g) /\ (\E t \in Service : pc[t] # "ended")
                    ~> Runs(g) \/ stopRequested

\* stop() ends every service thread.
StopEnds == stopRequested ~> (\A t \in Service : pc[t] = "ended")

\* A task that was handed to the scheduler is run, unless it is stopped.
\* The code does not keep this: README, section 7.
EveryTaskRuns ==
  \A g \in Task : Queued(g) ~> Runs(g) \/ stopRequested \/ stopWhenEmpty
=============================================================================
