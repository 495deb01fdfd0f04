----------------------------- MODULE ThreadPool -----------------------------
(***************************************************************************)
(* pine::thread_pool (shared/include/thread_pool.h,                        *)
(* shared/src/thread_pool.cpp): a queue of tasks, queue_mutex, condition,  *)
(* the flag stop and the worker threads.  One thread, Owner, runs the      *)
(* constructor and, as the program ends, the destructor of the static      *)
(* instance; other threads, and the tasks themselves, call enqueue.        *)
(*                                                                         *)
(* A step is what a thread does between two points where another thread    *)
(* can interfere: taking the mutex, one access under it, sleeping on the   *)
(* condition (which releases the mutex in the same step), a notification   *)
(* outside the mutex.                                                      *)
(***************************************************************************)
EXTENDS Naturals, Sequences, FiniteSets

CONSTANTS Workers,   \* the threads start_pool makes
          Callers,   \* other threads that call enqueue
          Owner,     \* the thread of the constructor and the destructor
          Tasks,     \* what is enqueued: each std::function object once
          NoTask,    \* an empty std::function
          NoThread   \* the owner of a free mutex

Threads == Workers \cup Callers \cup {Owner}

ASSUME PoolAssumption ==
  /\ IsFiniteSet(Workers)
  /\ Workers \cap Callers = {}
  /\ Owner \notin Workers \cup Callers
  /\ NoThread \notin Threads
  /\ NoTask \notin Tasks

VARIABLES
  pc,           \* where each thread is
  queue_mutex,  \* the thread that holds it, or NoThread
  sleeping,     \* the workers blocked in condition.wait, not notified yet
  tasks,        \* the queue
  stop,         \* the flag of the same name
  task,         \* the local variable `task` of each worker's loop
  arg,          \* the argument of the enqueue call each thread is in
  fresh,        \* the tasks no one has passed to enqueue yet
  accepted,     \* history: every task ever emplaced, in order
  begun,        \* history: how many of them were popped
  finished,     \* history: the tasks whose call returned
  owed          \* history: what had been emplaced when stop was set

vars == <<pc, queue_mutex, sleeping, tasks, stop, task, arg, fresh, accepted,
          begun, finished, owed>>

history == <<accepted, begun, finished, owed>>

AcceptedSet == {accepted[i] : i \in 1..Len(accepted)}
BegunSet == {accepted[i] : i \in 1..begun}

-----------------------------------------------------------------------------

Init ==
  /\ pc = [t \in Threads |-> IF t \in Workers THEN "unborn"
                             ELSE IF t = Owner THEN "construct" ELSE "idle"]
  /\ queue_mutex = NoThread
  /\ sleeping = {}
  /\ tasks = <<>>
  /\ stop = FALSE
  /\ task = [w \in Workers |-> NoTask]
  /\ arg = [t \in Threads |-> NoTask]
  /\ fresh = Tasks
  /\ accepted = <<>>
  /\ begun = 0
  /\ finished = {}
  /\ owed = {}

Goto(t, label) == pc' = [pc EXCEPT ![t] = label]

\* Taking queue_mutex on the way from one label to another.
Acquire(t, from, to) ==
  /\ pc[t] = from
  /\ queue_mutex = NoThread
  /\ queue_mutex' = t
  /\ Goto(t, to)

Release == queue_mutex' = NoThread

-----------------------------------------------------------------------------
(* The constructor: start_pool makes the threads one by one, and each runs *)
(* as soon as it exists.  get_instance returns once all of them exist.     *)

StartWorker(w) ==
  /\ pc[Owner] = "construct"
  /\ pc[w] = "unborn"
  /\ Goto(w, "lock")
  /\ UNCHANGED <<queue_mutex, sleeping, tasks, stop, task, arg, fresh, history>>

FinishConstruct ==
  /\ pc[Owner] = "construct"
  /\ \A w \in Workers : pc[w] # "unborn"
  /\ Goto(Owner, "main")
  /\ UNCHANGED <<queue_mutex, sleeping, tasks, stop, task, arg, fresh, history>>

-----------------------------------------------------------------------------
(* enqueue, called by another thread or from inside a running task.        *)

\* Where the caller goes on when enqueue returns.
Outside(t) == IF t \in Workers THEN "run" ELSE "idle"

Enqueue(t, k) ==
  /\ pc[t] = Outside(t)
  /\ pc[Owner] \notin {"construct", "destroyed"}
  /\ k \in fresh
  /\ fresh' = fresh \ {k}
  /\ arg' = [arg EXCEPT ![t] = k]
  /\ Goto(t, "enq_lock")
  /\ UNCHANGED <<queue_mutex, sleeping, tasks, stop, task, history>>

EnqueueLock(t) ==
  /\ Acquire(t, "enq_lock", "enq_emplace")
  /\ UNCHANGED <<sleeping, tasks, stop, task, arg, fresh, history>>

Emplace(t) ==
  /\ pc[t] = "enq_emplace"
  /\ tasks' = Append(tasks, arg[t])
  /\ accepted' = Append(accepted, arg[t])
  /\ arg' = [arg EXCEPT ![t] = NoTask]
  /\ Goto(t, "enq_notify")
  /\ UNCHANGED <<queue_mutex, sleeping, stop, task, fresh, begun, finished, owed>>

\* Mutant: the notification is missing.
NotifyOne_None(t) ==
  /\ pc[t] = "enq_notify"
  /\ UNCHANGED sleeping
  /\ Release
  /\ Goto(t, Outside(t))
  /\ UNCHANGED <<tasks, stop, task, arg, fresh, history>>

\* condition.notify_one() under the mutex, then the lock's destructor.
NotifyOne(t) ==
  /\ pc[t] = "enq_notify"
  /\ \/ sleeping = {} /\ UNCHANGED sleeping
     \/ \E w \in sleeping : sleeping' = sleeping \ {w}
  /\ Release
  /\ Goto(t, Outside(t))
  /\ UNCHANGED <<tasks, stop, task, arg, fresh, history>>

-----------------------------------------------------------------------------
(* A worker's loop.                                                        *)

WorkerLock(w) ==
  /\ Acquire(w, "lock", "test")
  /\ UNCHANGED <<sleeping, tasks, stop, task, arg, fresh, history>>

\* Mutant: the predicate only looks at stop.
TestPredicate_StopOnly(w) ==
  /\ pc[w] = "test"
  /\ Goto(w, IF stop THEN "take" ELSE "sleep")
  /\ UNCHANGED <<queue_mutex, sleeping, tasks, stop, task, arg, fresh, history>>

\* The predicate of condition.wait, evaluated with the mutex held.
TestPredicate(w) ==
  /\ pc[w] = "test"
  /\ Goto(w, IF stop \/ tasks # <<>> THEN "take" ELSE "sleep")
  /\ UNCHANGED <<queue_mutex, sleeping, tasks, stop, task, arg, fresh, history>>

\* The wait itself: release the mutex and block, in one step.
Sleep(w) ==
  /\ pc[w] = "sleep"
  /\ sleeping' = sleeping \cup {w}
  /\ Release
  /\ Goto(w, "waiting")
  /\ UNCHANGED <<tasks, stop, task, arg, fresh, history>>

\* condition_variable allows a wait to return with no notification.
SpuriousWakeup(w) ==
  /\ w \in sleeping
  /\ sleeping' = sleeping \ {w}
  /\ UNCHANGED <<pc, queue_mutex, tasks, stop, task, arg, fresh, history>>

Reacquire(w) ==
  /\ w \notin sleeping
  /\ Acquire(w, "waiting", "test")
  /\ UNCHANGED <<sleeping, tasks, stop, task, arg, fresh, history>>

\* Mutant: `if (stop) return;`, the queue is not looked at.
Exit_WhenStopped(w) ==
  /\ pc[w] = "take"
  /\ stop
  /\ Release
  /\ Goto(w, "exited")
  /\ UNCHANGED <<sleeping, tasks, stop, task, arg, fresh, history>>

Exit(w) ==
  /\ pc[w] = "take"
  /\ stop /\ tasks = <<>>
  /\ Release
  /\ Goto(w, "exited")
  /\ UNCHANGED <<sleeping, tasks, stop, task, arg, fresh, history>>

\* Mutant: front() is moved out and never popped.
Take_NoPop(w) ==
  /\ pc[w] = "take"
  /\ tasks # <<>>
  /\ task' = [task EXCEPT ![w] = Head(tasks)]
  /\ begun' = begun + 1
  /\ Release
  /\ Goto(w, "run")
  /\ UNCHANGED <<sleeping, tasks, stop, arg, fresh, accepted, finished, owed>>

\* Mutant: the newest task is taken first.
Take_Back(w) ==
  /\ pc[w] = "take"
  /\ tasks # <<>>
  /\ task' = [task EXCEPT ![w] = tasks[Len(tasks)]]
  /\ tasks' = SubSeq(tasks, 1, Len(tasks) - 1)
  /\ begun' = begun + 1
  /\ Release
  /\ Goto(w, "run")
  /\ UNCHANGED <<sleeping, stop, arg, fresh, accepted, finished, owed>>

Take(w) ==
  /\ pc[w] = "take"
  /\ tasks # <<>>
  /\ task' = [task EXCEPT ![w] = Head(tasks)]
  /\ tasks' = Tail(tasks)
  /\ begun' = begun + 1
  /\ Release
  /\ Goto(w, "run")
  /\ UNCHANGED <<sleeping, stop, arg, fresh, accepted, finished, owed>>

\* Mutant: `task` is declared before the loop and keeps its function object,
\* with all it has captured, while the worker waits for the next one.
FinishTask_Hoisted(w) ==
  /\ pc[w] = "run"
  /\ finished' = finished \cup {task[w]}
  /\ Goto(w, "lock")
  /\ UNCHANGED <<queue_mutex, sleeping, tasks, stop, task, arg, fresh, accepted, begun, owed>>

\* task() returns, and the loop's local variable is destroyed.
FinishTask(w) ==
  /\ pc[w] = "run"
  /\ finished' = finished \cup {task[w]}
  /\ task' = [task EXCEPT ![w] = NoTask]
  /\ Goto(w, "lock")
  /\ UNCHANGED <<queue_mutex, sleeping, tasks, stop, arg, fresh, accepted, begun, owed>>

-----------------------------------------------------------------------------
(* The destructor: stop_pool, notify_all, join.                            *)

BeginDestroy ==
  /\ pc[Owner] = "main"
  /\ Goto(Owner, "stop_lock")
  /\ UNCHANGED <<queue_mutex, sleeping, tasks, stop, task, arg, fresh, history>>

StopLock ==
  /\ Acquire(Owner, "stop_lock", "set_stop")
  /\ UNCHANGED <<sleeping, tasks, stop, task, arg, fresh, history>>

SetStop ==
  /\ pc[Owner] = "set_stop"
  /\ stop' = TRUE
  /\ owed' = AcceptedSet
  /\ Release
  /\ Goto(Owner, "notify_all")
  /\ UNCHANGED <<sleeping, tasks, task, arg, fresh, accepted, begun, finished>>

\* Mutant: notify_one in the place of notify_all.
NotifyAll_One ==
  /\ pc[Owner] = "notify_all"
  /\ \/ sleeping = {} /\ UNCHANGED sleeping
     \/ \E w \in sleeping : sleeping' = sleeping \ {w}
  /\ Goto(Owner, "join")
  /\ UNCHANGED <<queue_mutex, tasks, stop, task, arg, fresh, history>>

NotifyAll ==
  /\ pc[Owner] = "notify_all"
  /\ sleeping' = {}
  /\ Goto(Owner, "join")
  /\ UNCHANGED <<queue_mutex, tasks, stop, task, arg, fresh, history>>

\* Joining every thread in turn returns when all of them have exited.
Join ==
  /\ pc[Owner] = "join"
  /\ \A w \in Workers : pc[w] = "exited"
  /\ Goto(Owner, "destroyed")
  /\ UNCHANGED <<queue_mutex, sleeping, tasks, stop, task, arg, fresh, history>>

-----------------------------------------------------------------------------

WorkerStep(w) ==
  \/ WorkerLock(w) \/ TestPredicate(w) \/ Sleep(w) \/ SpuriousWakeup(w)
  \/ Reacquire(w) \/ Exit(w) \/ Take(w) \/ FinishTask(w)

CallerStep(t) ==
  \/ \E k \in Tasks : Enqueue(t, k)
  \/ EnqueueLock(t) \/ Emplace(t) \/ NotifyOne(t)

OwnerStep ==
  \/ FinishConstruct \/ BeginDestroy \/ StopLock \/ SetStop \/ NotifyAll \/ Join

Next ==
  \/ \E w \in Workers : StartWorker(w) \/ WorkerStep(w)
  \/ \E t \in Workers \cup Callers : CallerStep(t)
  \/ OwnerStep

Spec == Init /\ [][Next]_vars

(***************************************************************************)
(* Fairness.  A thread that can go on without the mutex does (weak).  A    *)
(* thread that waits for the mutex gets it if the mutex is free again and  *)
(* again (strong): the operating system's lock starves no waiter for ever. *)
(* A thread is at one statement at a time, so that one condition holds for *)
(* all of them.  A task goes on: in the end it returns.  Nothing obliges a *)
(* thread to call enqueue, the program to end, or a wait to return         *)
(* spuriously.                                                             *)
(***************************************************************************)
Fairness ==
  /\ \A w \in Workers :
       /\ WF_vars(StartWorker(w) \/ TestPredicate(w) \/ Sleep(w) \/ Exit(w) \/ Take(w)
                  \/ FinishTask(w) \/ Emplace(w) \/ NotifyOne(w))
       /\ SF_vars(WorkerLock(w) \/ Reacquire(w) \/ EnqueueLock(w))
  /\ \A t \in Callers :
       /\ WF_vars(Emplace(t) \/ NotifyOne(t))
       /\ SF_vars(EnqueueLock(t))
  /\ WF_vars(FinishConstruct \/ SetStop \/ NotifyAll \/ Join)
  /\ SF_vars(StopLock)

FairSpec == Spec /\ Fairness

-----------------------------------------------------------------------------

EnqueueLabels == {"enq_lock", "enq_emplace", "enq_notify"}
WorkerLabels == {"unborn", "lock", "test", "sleep", "waiting", "take", "run",
                 "exited"} \cup EnqueueLabels
CallerLabels == {"idle"} \cup EnqueueLabels
OwnerLabels == {"construct", "main", "stop_lock", "set_stop", "notify_all",
                "join", "destroyed"}

\* The shape of the state: the labels each kind of thread goes through, a
\* worker holds a task exactly while it runs one, a thread holds an argument
\* exactly while its enqueue has not emplaced it, and only a worker that is
\* inside condition.wait is listed as asleep.
TypeOK ==
  /\ pc \in [Threads -> WorkerLabels \cup CallerLabels \cup OwnerLabels]
  /\ \A w \in Workers : pc[w] \in WorkerLabels
  /\ \A t \in Callers : pc[t] \in CallerLabels
  /\ pc[Owner] \in OwnerLabels
  /\ queue_mutex \in Threads \cup {NoThread}
  /\ sleeping \subseteq {w \in Workers : pc[w] = "waiting"}
  /\ tasks \in Seq(Tasks)
  /\ stop \in BOOLEAN
  /\ task \in [Workers -> Tasks \cup {NoTask}]
  /\ \A w \in Workers : task[w] # NoTask <=> pc[w] \in {"run"} \cup EnqueueLabels
  /\ arg \in [Threads -> Tasks \cup {NoTask}]
  /\ \A t \in Threads : arg[t] # NoTask <=> pc[t] \in {"enq_lock", "enq_emplace"}
  /\ fresh \subseteq Tasks
  /\ accepted \in Seq(Tasks)
  /\ begun \in Nat
  /\ finished \subseteq Tasks
  /\ owed \subseteq Tasks

\* Tasks are begun in the order they were emplaced, none is skipped and none
\* stays behind: what was emplaced is what was begun followed by the queue
\* (emplace at the back, front/pop, whatever threads do either).
FifoOrder ==
  /\ Len(accepted) = begun + Len(tasks)
  /\ \A i \in 1..Len(tasks) : tasks[i] = accepted[begun + i]

\* No task runs twice and none vanishes between the pop and its end: those
\* begun are the finished ones and those in the hands of exactly one worker.
EachTaskOnce ==
  /\ \A v, w \in Workers : v # w /\ task[v] = task[w] => task[v] = NoTask
  /\ \A w \in Workers : task[w] \notin finished
  /\ BegunSet
       = finished \cup {task[w] : w \in {v \in Workers : task[v] # NoTask}}

Woken == {w \in Workers : pc[w] = "waiting" /\ w \notin sleeping}

\* No lost wakeup: whenever the mutex is free and some worker sleeps, at
\* least as many workers have been woken and are on their way as there are
\* tasks in the queue (notify_one for each emplace, under the same mutex).
NoIdleSleeper ==
  queue_mutex = NoThread /\ sleeping # {} => Len(tasks) <= Cardinality(Woken)

\* The destructor never returns before every task that was in the pool when
\* stop was set has finished: a worker leaves only an empty queue behind.
DrainedBeforeDestroyed ==
  pc[Owner] = "destroyed" /\ Workers # {} => owed \subseteq finished

\* The destructor returns: every worker, asleep or not when stop is set,
\* sees it and exits, so that join ends.
DestructorReturns == pc[Owner] = "stop_lock" ~> pc[Owner] = "destroyed"

\* A task in the queue of a pool with a worker left is run to its end, also
\* when the destructor has begun.  enqueue does not look at stop: a task that
\* comes when the last worker has left is in the queue of a pool with none.
QueuedTaskRuns ==
  \A k \in Tasks :
    (/\ \E i \in 1..Len(tasks) : tasks[i] = k
     /\ \E w \in Workers : pc[w] # "exited") ~> k \in finished

(***************************************************************************)
(* The pool implements TaskExecutor: its slots are the workers, it is      *)
(* closed when stop is set and gone when the destructor has returned.      *)
(***************************************************************************)
Phase == IF pc[Owner] = "destroyed" THEN "gone"
         ELSE IF stop THEN "closed" ELSE "open"

Executor == INSTANCE TaskExecutor
              WITH Slots <- Workers, active <- task, phase <- Phase

ImplementsExecutor == Executor!Spec
-----------------------------------------------------------------------------
(* The inductive invariant behind the safety properties (ThreadPoolProofs).  *)

Critical == {"test", "sleep", "take", "enq_emplace", "enq_notify", "set_stop"}

\* The mutex is held by the one thread inside a critical section, if any.
MutexInv ==
  \A t \in Threads : queue_mutex = t <=> pc[t] \in Critical

\* A worker that decided to sleep still sees the state it decided on, and so
\* does one that decided to go on: the decision is made under the mutex.
DecisionInv ==
  \A w \in Workers :
    /\ pc[w] = "sleep" => tasks = <<>> /\ ~stop
    /\ pc[w] = "take" => stop \/ tasks # <<>>

\* A task is still fresh, or the argument of one call, or emplaced once.
FreshInv ==
  /\ \A i \in 1..Len(accepted) : accepted[i] \notin fresh
  /\ \A t \in Threads : /\ arg[t] \notin fresh
                        /\ \A i \in 1..Len(accepted) : arg[t] # accepted[i]
  /\ \A s, t \in Threads : s # t /\ arg[s] = arg[t] => arg[s] = NoTask
  /\ \A i, j \in 1..Len(accepted) : accepted[i] = accepted[j] => i = j

\* What stop and the labels say of each other, and of what was begun.
StopInv ==
  /\ stop <=> pc[Owner] \in {"notify_all", "join", "destroyed"}
  /\ owed \subseteq AcceptedSet
  /\ \A w \in Workers : pc[w] = "exited" => stop /\ owed \subseteq BegunSet
  /\ pc[Owner] = "destroyed" => \A w \in Workers : pc[w] = "exited"

PoolInv ==
  /\ TypeOK
  /\ MutexInv
  /\ DecisionInv
  /\ FreshInv
  /\ FifoOrder
  /\ EachTaskOnce
  /\ StopInv

\* The one task for which a wakeup has been used up, or is still to come,
\* while its critical section lasts.
InHand ==
  IF \E t \in Threads : pc[t] \in {"test", "take", "enq_notify"} THEN 1 ELSE 0

WakeupInv == sleeping # {} => Len(tasks) <= Cardinality(Woken) + InHand
=============================================================================
