--------------------------- MODULE AsyncOperation ---------------------------
(***************************************************************************)
(* async_operation<T, E> (shared/include/coroutine.h): coroutines that run *)
(* on the thread that calls them, with a promise, a cancelled flag, and a  *)
(* task that their object enqueues in the thread pool when it is made.     *)
(* The driver calls operation 1, as server::accept_clients calls start();  *)
(* the body of each operation co_awaits the next one, as start() awaits    *)
(* receive_request() and that awaits receive_raw_message().                *)
(*                                                                         *)
(* The pool is the one of TaskExecutor, which ThreadPool implements: tasks *)
(* begin in the order they were enqueued, each on a free worker.           *)
(*                                                                         *)
(* C++ gives no meaning to an execution after its first undefined          *)
(* operation (resuming a coroutine that is not suspended, destroying a     *)
(* frame twice, using a dead object): `undefined` names that operation,    *)
(* and the model stops there.                                              *)
(***************************************************************************)
EXTENDS Naturals, Sequences

CONSTANTS Depth,   \* operations 1..Depth; each awaits the next, the last none
          VoidOps, \* those of type async_operation<void, E>
          Yields,  \* those whose body may first suspend somewhere else
          Workers, \* the threads of the pool
          Driver   \* the thread that calls operation 1

Ops == 1..Depth
Threads == Workers \cup {Driver}

ASSUME OpsAssumption ==
  /\ Depth \in Nat \ {0}
  /\ VoidOps \subseteq Ops /\ Yields \subseteq Ops
  /\ Driver \notin Workers

VARIABLES
  frame,      \* of each coroutine: absent, running, suspended, final or freed
  at,         \* where its body is: begin, go, called, resume or end
  object,     \* of each async_operation: none, alive or dead
  promise,    \* what the promise holds: unset, value, error or canceled
  retrieved,  \* whether get_future was called on the promise
  cancelled,  \* the shared flag of the same name
  stack,      \* the coroutines each thread executes, innermost first
  queue,      \* the tasks in the pool
  job,        \* the task each worker executes, and how far it is
  driver,     \* where the driver is
  undefined   \* the first undefined operation, or "none"

vars == <<frame, at, object, promise, retrieved, cancelled, stack, queue, job,
          driver, undefined>>

Task(kind, o) == [kind |-> kind, op |-> o]
NoJob == Task("none", 0)

Init ==
  /\ frame = [o \in Ops |-> "absent"]
  /\ at = [o \in Ops |-> "begin"]
  /\ object = [o \in Ops |-> "none"]
  /\ promise = [o \in Ops |-> "unset"]
  /\ retrieved = [o \in Ops |-> FALSE]
  /\ cancelled = [o \in Ops |-> FALSE]
  /\ stack = [t \in Threads |-> <<>>]
  /\ queue = <<>>
  /\ job = [w \in Workers |-> NoJob]
  /\ driver = "start"
  /\ undefined = "none"

\* Thread t executes the body of o.
Running(t, o) == stack[t] # <<>> /\ Head(stack[t]) = o

Leave(t) == stack' = [stack EXCEPT ![t] = Tail(@)]

\* The execution has no meaning from here on.
Undefined(what) ==
  /\ undefined' = what
  /\ UNCHANGED <<frame, at, object, promise, retrieved, cancelled, stack, queue,
                 job, driver>>

-----------------------------------------------------------------------------
(* Making and destroying coroutines.                                       *)

\* Thread t calls o: the frame and the promise are made, the constructor of
\* the object enqueues its task, and the body starts on t, initial_suspend
\* being suspend_never.
Call(t, o) ==
  /\ frame' = [frame EXCEPT ![o] = "running"]
  /\ object' = [object EXCEPT ![o] = "alive"]
  /\ queue' = Append(queue, Task("ctor", o))
  /\ stack' = [stack EXCEPT ![t] = <<o>> \o @]

\* What coroutine_handle::destroy ends: the frame of o and, if it is suspended
\* with a pending co_await, the objects that live in it, with their frames.
Owned(o) == {o} \cup {p \in Ops : p > o /\ object[p] = "alive"}
CanDestroy(o) == \A p \in Owned(o) : frame[p] \in {"suspended", "final"}
Misdestroyed(o) == IF \E p \in Owned(o) : frame[p] = "freed"
                   THEN "frame destroyed twice" ELSE "running frame destroyed"
DestroyFrame(o) ==
  frame' = [p \in Ops |-> IF p \in Owned(o) THEN "freed" ELSE frame[p]]
ObjectsDead(S) == object' = [p \in Ops |-> IF p \in S THEN "dead" ELSE object[p]]

-----------------------------------------------------------------------------
(* The body of an operation, on whichever thread executes it.              *)

\* A body that first awaits something foreign may suspend there.
Yield(t, o) ==
  /\ Running(t, o)
  /\ at[o] = "begin" /\ o \in Yields
  /\ at' = [at EXCEPT ![o] = "go"]
  /\ frame' = [frame EXCEPT ![o] = "suspended"]
  /\ Leave(t)
  /\ UNCHANGED <<object, promise, retrieved, cancelled, queue, job, driver,
                 undefined>>

Ready(o) == at[o] \in {"begin", "go"}

\* The operand of co_await: the next operation runs on the same thread until
\* it ends or suspends.
CallNext(t, o) ==
  /\ Running(t, o)
  /\ Ready(o) /\ o < Depth
  /\ at' = [at EXCEPT ![o] = "called"]
  /\ Call(t, o + 1)
  /\ UNCHANGED <<promise, retrieved, cancelled, job, driver, undefined>>

\* Mutant: cancel() answers whoever waits for the result.
CancelNext_Answers(t, o) ==
  /\ Running(t, o)
  /\ at[o] = "called" /\ ~cancelled[o + 1]
  /\ cancelled' = [cancelled EXCEPT ![o + 1] = TRUE]
  /\ promise' = [promise EXCEPT ![o + 1] = "canceled"]
  /\ UNCHANGED <<frame, at, object, retrieved, stack, queue, job, driver, undefined>>

\* The body holds the object of the next operation and may cancel it.
CancelNext(t, o) ==
  /\ Running(t, o)
  /\ at[o] = "called" /\ ~cancelled[o + 1]
  /\ cancelled' = [cancelled EXCEPT ![o + 1] = TRUE]
  /\ UNCHANGED <<frame, at, object, promise, retrieved, stack, queue, job,
                 driver, undefined>>

\* Mutant: await_ready asks the shared state and leaves the future alone.
AwaitReady_Peek(t, o) ==
  /\ Running(t, o)
  /\ at[o] = "called"
  /\ IF frame[o + 1] = "freed"
     THEN Undefined("promise of a freed coroutine")
     ELSE /\ UNCHANGED retrieved
          /\ at' = [at EXCEPT ![o] = "resume"]
          /\ IF promise[o + 1] # "unset"
             THEN UNCHANGED <<frame, stack, queue>>
             ELSE /\ frame' = [frame EXCEPT ![o] = "suspended"]
                  /\ queue' = Append(queue, Task("resume", o))
                  /\ Leave(t)
          /\ UNCHANGED <<object, promise, cancelled, job, driver, undefined>>

\* await_ready takes the future from the promise to see whether it is ready.
\* If not, await_suspend enqueues a task that resumes o.
AwaitReady(t, o) ==
  /\ Running(t, o)
  /\ at[o] = "called"
  /\ IF frame[o + 1] = "freed"
     THEN Undefined("promise of a freed coroutine")
     ELSE /\ retrieved' = [retrieved EXCEPT ![o + 1] = TRUE]
          /\ at' = [at EXCEPT ![o] = "resume"]
          /\ IF promise[o + 1] # "unset"
             THEN UNCHANGED <<frame, stack, queue>>
             ELSE /\ frame' = [frame EXCEPT ![o] = "suspended"]
                  /\ queue' = Append(queue, Task("resume", o))
                  /\ Leave(t)
          /\ UNCHANGED <<object, promise, cancelled, job, driver, undefined>>

\* What co_return stores: nothing once cancelled, and always an error for a
\* void operation, whose return_value only takes one.
Stored(o, r) == IF cancelled[o] THEN "unset"
                ELSE IF o \in VoidOps THEN "error" ELSE r

\* await_resume takes the future again.  A promise gives it once: the second
\* call throws, the object of the awaited operation is destroyed as the
\* exception leaves the body, and unhandled_exception stores the error
\* operation_canceled.
AwaitResume(t, o, r) ==
  /\ Running(t, o)
  /\ at[o] = "resume"
  /\ retrieved[o + 1] \/ promise[o + 1] # "unset"
  /\ IF ~CanDestroy(o + 1)
     THEN Undefined(Misdestroyed(o + 1))
     ELSE /\ promise' = [promise EXCEPT ![o] = IF retrieved[o + 1] THEN "canceled"
                                               ELSE Stored(o, r)]
          /\ at' = [at EXCEPT ![o] = "end"]
          /\ frame' = [p \in Ops |-> IF p \in Owned(o + 1) THEN "freed"
                                     ELSE IF p = o THEN "final" ELSE frame[p]]
          /\ ObjectsDead(Owned(o + 1))
          /\ Leave(t)
          /\ UNCHANGED <<retrieved, cancelled, queue, job, driver, undefined>>

\* Mutant: final_suspend lets the coroutine free its own frame.
Return_Freed(t, o, r) ==
  /\ Running(t, o)
  /\ Ready(o) /\ o = Depth
  /\ promise' = [promise EXCEPT ![o] = Stored(o, r)]
  /\ at' = [at EXCEPT ![o] = "end"]
  /\ frame' = [frame EXCEPT ![o] = "freed"]
  /\ Leave(t)
  /\ UNCHANGED <<object, retrieved, cancelled, queue, job, driver, undefined>>

\* co_return of an operation that awaits none, then final_suspend.
Return(t, o, r) ==
  /\ Running(t, o)
  /\ Ready(o) /\ o = Depth
  /\ promise' = [promise EXCEPT ![o] = Stored(o, r)]
  /\ at' = [at EXCEPT ![o] = "end"]
  /\ frame' = [frame EXCEPT ![o] = "final"]
  /\ Leave(t)
  /\ UNCHANGED <<object, retrieved, cancelled, queue, job, driver, undefined>>

-----------------------------------------------------------------------------
(* The driver: calls operation 1, may cancel it, waits for its result as   *)
(* X().await_resume() does or not at all, and drops the object.            *)

Start ==
  /\ driver = "start"
  /\ driver' = "hold"
  /\ Call(Driver, 1)
  /\ UNCHANGED <<at, promise, retrieved, cancelled, job, undefined>>

Holding == driver = "hold" /\ stack[Driver] = <<>>

Cancel ==
  /\ Holding
  /\ ~cancelled[1]
  /\ cancelled' = [cancelled EXCEPT ![1] = TRUE]
  /\ UNCHANGED <<frame, at, object, promise, retrieved, stack, queue, job,
                 driver, undefined>>

\* get_future, whose future then shares the state of the promise, not the frame.
GetFuture ==
  /\ Holding
  /\ IF frame[1] = "freed"
     THEN Undefined("promise of a freed coroutine")
     ELSE /\ retrieved' = [retrieved EXCEPT ![1] = TRUE]
          /\ driver' = "wait"
          /\ UNCHANGED <<frame, at, object, promise, cancelled, stack, queue, job,
                         undefined>>

GetReturns ==
  /\ driver = "wait"
  /\ promise[1] # "unset"
  /\ driver' = "got"
  /\ UNCHANGED <<frame, at, object, promise, retrieved, cancelled, stack, queue,
                 job, undefined>>

\* Mutant: the destructor leaves the frame of a cancelled coroutine alone.
Drop_UnlessCancelled ==
  /\ Holding \/ driver = "got"
  /\ IF cancelled[1] THEN ObjectsDead({1}) /\ UNCHANGED frame
     ELSE CanDestroy(1) /\ DestroyFrame(1) /\ ObjectsDead(Owned(1))
  /\ driver' = "gone"
  /\ UNCHANGED <<at, promise, retrieved, cancelled, stack, queue, job, undefined>>

\* ~async_operation destroys the frame its handle still names.
Drop ==
  /\ Holding \/ driver = "got"
  /\ IF ~CanDestroy(1)
     THEN Undefined(Misdestroyed(1))
     ELSE /\ DestroyFrame(1)
          /\ ObjectsDead(Owned(1))
          /\ driver' = "gone"
          /\ UNCHANGED <<at, promise, retrieved, cancelled, stack, queue, job,
                         undefined>>

-----------------------------------------------------------------------------
(* The tasks, on a worker.                                                 *)

Take(w) ==
  /\ job[w] = NoJob
  /\ queue # <<>>
  /\ job' = [job EXCEPT ![w] = Head(queue)]
  /\ queue' = Tail(queue)
  /\ UNCHANGED <<frame, at, object, promise, retrieved, cancelled, stack, driver,
                 undefined>>

\* Resuming o, then going on with the task once o suspends or ends.
Resume(w, o, next) ==
  /\ frame' = [frame EXCEPT ![o] = "running"]
  /\ stack' = [stack EXCEPT ![w] = <<o>>]
  /\ job' = [job EXCEPT ![w] = next]
  /\ UNCHANGED <<at, object, promise, retrieved, cancelled, queue, driver,
                 undefined>>

\* The constructor's task captures `this`: it resumes the coroutine unless
\* the flag says not to, and destroys the frame.
CtorTask(w, o) ==
  /\ job[w] = Task("ctor", o)
  /\ IF object[o] = "dead" THEN Undefined("task of a dead object")
     ELSE IF cancelled[o]
     THEN /\ job' = [job EXCEPT ![w] = Task("destroy", o)]
          /\ UNCHANGED <<frame, at, object, promise, retrieved, cancelled, stack,
                         queue, driver, undefined>>
     ELSE IF frame[o] = "suspended"
     THEN Resume(w, o, Task("destroy", o))
     ELSE Undefined("resume of a coroutine that is not suspended")

CtorTaskDestroys(w, o) ==
  /\ job[w] = Task("destroy", o)
  /\ stack[w] = <<>>
  /\ IF object[o] = "dead" THEN Undefined("task of a dead object")
     ELSE IF ~CanDestroy(o) THEN Undefined(Misdestroyed(o))
     ELSE /\ DestroyFrame(o)
          /\ ObjectsDead(Owned(o) \ {o})
          /\ job' = [job EXCEPT ![w] = NoJob]
          /\ UNCHANGED <<at, promise, retrieved, cancelled, stack, queue, driver,
                         undefined>>

\* The task of await_suspend captures the awaited object and the handle of o.
ResumeTask(w, o) ==
  /\ job[w] = Task("resume", o)
  /\ IF object[o + 1] = "dead" THEN Undefined("task of a dead object")
     ELSE IF cancelled[o + 1]
     THEN /\ job' = [job EXCEPT ![w] = NoJob]
          /\ UNCHANGED <<frame, at, object, promise, retrieved, cancelled, stack,
                         queue, driver, undefined>>
     ELSE IF frame[o] = "suspended" THEN Resume(w, o, Task("after", o))
     ELSE Undefined("resume of a coroutine that is not suspended")

ResumeTaskEnds(w, o) ==
  /\ job[w] = Task("after", o)
  /\ stack[w] = <<>>
  /\ job' = [job EXCEPT ![w] = NoJob]
  /\ UNCHANGED <<frame, at, object, promise, retrieved, cancelled, stack, queue,
                 driver, undefined>>

-----------------------------------------------------------------------------

BodyStep(t, o) ==
  \/ Yield(t, o) \/ CallNext(t, o) \/ CancelNext(t, o) \/ AwaitReady(t, o)
  \/ \E r \in {"value", "error"} : AwaitResume(t, o, r) \/ Return(t, o, r)

TaskStep(w, o) ==
  \/ CtorTask(w, o) \/ CtorTaskDestroys(w, o)
  \/ ResumeTask(w, o) \/ ResumeTaskEnds(w, o)

Next ==
  /\ undefined = "none"
  /\ \/ \E t \in Threads, o \in Ops : BodyStep(t, o)
     \/ Start \/ Cancel \/ GetFuture \/ GetReturns \/ Drop
     \/ \E w \in Workers : Take(w) \/ \E o \in Ops : TaskStep(w, o)

Spec == Init /\ [][Next]_vars

-----------------------------------------------------------------------------

Results == {"unset", "value", "error", "canceled"}
Tasks == [kind : {"ctor", "resume"}, op : Ops]
Jobs == {NoJob} \cup Tasks \cup [kind : {"destroy", "after"}, op : Ops]

\* The shape of the state, and in it: a coroutine is on the stack of some
\* thread exactly while its frame is running, and a promise is set by the end
\* of the body and by nothing before it, so never twice.
TypeOK ==
  /\ frame \in [Ops -> {"absent", "running", "suspended", "final", "freed"}]
  /\ at \in [Ops -> {"begin", "go", "called", "resume", "end"}]
  /\ object \in [Ops -> {"none", "alive", "dead"}]
  /\ promise \in [Ops -> Results]
  /\ retrieved \in [Ops -> BOOLEAN]
  /\ cancelled \in [Ops -> BOOLEAN]
  /\ \A t \in Threads : stack[t] \in Seq(Ops)
  /\ \A o \in Ops : frame[o] = "running"
       <=> \E t \in Threads : \E i \in 1..Len(stack[t]) : stack[t][i] = o
  /\ queue \in Seq(Tasks)
  /\ job \in [Workers -> Jobs]
  /\ driver \in {"start", "hold", "wait", "got", "gone"}
  /\ \A o \in Ops : promise[o] # "unset" => at[o] = "end"

\* No co_await ever delivers the result of what it awaits: an operation that
\* awaits another one ends with operation_canceled, if at all, on whichever
\* thread and after whatever suspension it resumes.
AwaitNeverDelivers ==
  \A o \in Ops : o < Depth => promise[o] \in {"unset", "canceled"}

\* Its inductive form: once await_ready has taken the future, await_resume
\* cannot (AsyncOperationProofs).
AwaitInv ==
  /\ at \in [Ops -> {"begin", "go", "called", "resume", "end"}]
  /\ promise \in [Ops -> Results]
  /\ retrieved \in [Ops -> BOOLEAN]
  /\ \A o \in Ops : o < Depth /\ at[o] = "resume" => retrieved[o + 1]
  /\ AwaitNeverDelivers

\* Nothing leaks: a coroutine that was started and not destroyed yet has an
\* object whose destructor will destroy it, also one that was cancelled, or
\* left suspended inside another that ended; and once the driver has dropped
\* its object, the objects of the whole chain are gone, on whichever thread
\* they were made.
FramesOwned ==
  /\ \A o \in Ops : frame[o] \in {"running", "suspended", "final"} => object[o] = "alive"
  /\ driver = "gone" => \A o \in Ops : object[o] # "alive"

Waiting(o) == \E i \in 1..Len(queue) : queue[i] = Task("ctor", o)

\* The callers' own steps are all defined: nothing undefined happens before a
\* worker has taken the constructor's task of some operation.
UndefinedNeedsTask ==
  undefined # "none" => \E o \in Ops : object[o] # "none" /\ ~Waiting(o)

(***************************************************************************)
(* What the comments of coroutine.h say, which the code does not keep.     *)
(***************************************************************************)

\* "The promise type is responsible for managing the coroutine's lifetime":
\* nothing resumes, reads or destroys a coroutine out of its turn.
LifetimeManaged == undefined = "none"

\* await_resume: "Get the result of the coroutine."  An operation whose await
\* ended is canceled only if the one it awaited was.
AwaitGetsResult ==
  \A o \in Ops : o < Depth /\ promise[o] = "canceled"
                   => promise[o + 1] = "canceled"
=============================================================================
