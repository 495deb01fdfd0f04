-------------------------- MODULE ThreadPoolProofs --------------------------
(***************************************************************************)
(* Proofs about ThreadPool, for any number of workers, callers and tasks.  *)
(***************************************************************************)
EXTENDS ThreadPool, FiniteSetTheorems, TLAPS

(***************************************************************************)
(* The invariant TypeOK is inductive by itself.                            *)
(***************************************************************************)

\* Nothing is queued and no worker exists at first.
LEMMA TypeInit == Init => TypeOK
<1> SUFFICES ASSUME Init
             PROVE  TypeOK
  OBVIOUS
<1> USE PoolAssumption DEF Threads, WorkerLabels, CallerLabels, OwnerLabels,
        EnqueueLabels
<1>1. /\ pc \in [Threads -> WorkerLabels \cup CallerLabels \cup OwnerLabels]
      /\ \A w \in Workers : pc[w] = "unborn"
      /\ \A t \in Callers : pc[t] = "idle"
      /\ pc[Owner] = "construct"
  BY DEF Init
<1>2. /\ \A w \in Workers : task[w] = NoTask
      /\ \A t \in Threads : arg[t] = NoTask
  BY DEF Init
<1>3. tasks \in Seq(Tasks) /\ accepted \in Seq(Tasks) /\ begun \in Nat
  BY DEF Init
<1>4. QED
  BY <1>1, <1>2, <1>3 DEF Init, TypeOK

\* Every action keeps the labels, the tasks in hand and the arguments in step.
LEMMA TypeStep == TypeOK /\ [Next]_vars => TypeOK'
<1> SUFFICES ASSUME TypeOK, [Next]_vars
             PROVE  TypeOK'
  OBVIOUS
<1> USE PoolAssumption DEF TypeOK, Threads, WorkerLabels, CallerLabels,
        OwnerLabels, EnqueueLabels, Goto, Acquire, Release, Outside, history
<1>1. ASSUME NEW w \in Workers, StartWorker(w) PROVE TypeOK'
  BY <1>1 DEF StartWorker
<1>2. ASSUME NEW w \in Workers, WorkerLock(w) PROVE TypeOK'
  BY <1>2 DEF WorkerLock
<1>3. ASSUME NEW w \in Workers, TestPredicate(w) PROVE TypeOK'
  BY <1>3 DEF TestPredicate
<1>4. ASSUME NEW w \in Workers, Sleep(w) PROVE TypeOK'
  BY <1>4 DEF Sleep
<1>5. ASSUME NEW w \in Workers, SpuriousWakeup(w) PROVE TypeOK'
  BY <1>5 DEF SpuriousWakeup
<1>6. ASSUME NEW w \in Workers, Reacquire(w) PROVE TypeOK'
  BY <1>6 DEF Reacquire
<1>7. ASSUME NEW w \in Workers, Exit(w) PROVE TypeOK'
  BY <1>7 DEF Exit
<1>8. ASSUME NEW w \in Workers, Take(w) PROVE TypeOK'
  BY <1>8 DEF Take
<1>9. ASSUME NEW w \in Workers, FinishTask(w) PROVE TypeOK'
  BY <1>9 DEF FinishTask
<1>10. ASSUME NEW t \in Workers \cup Callers, NEW k \in Tasks, Enqueue(t, k)
       PROVE TypeOK'
  BY <1>10 DEF Enqueue
<1>11. ASSUME NEW t \in Workers \cup Callers, EnqueueLock(t) PROVE TypeOK'
  BY <1>11 DEF EnqueueLock
<1>12. ASSUME NEW t \in Workers \cup Callers, Emplace(t) PROVE TypeOK'
  BY <1>12 DEF Emplace
<1>13. ASSUME NEW t \in Workers \cup Callers, NotifyOne(t) PROVE TypeOK'
  BY <1>13 DEF NotifyOne
<1>14. CASE FinishConstruct
  BY <1>14 DEF FinishConstruct
<1>15. CASE BeginDestroy
  BY <1>15 DEF BeginDestroy
<1>16. CASE StopLock
  BY <1>16 DEF StopLock
<1>17. CASE SetStop
  BY <1>17 DEF SetStop, AcceptedSet
<1>18. CASE NotifyAll
  BY <1>18 DEF NotifyAll
<1>19. CASE Join
  BY <1>19 DEF Join
<1>20. CASE UNCHANGED vars
  BY <1>20 DEF vars
<1>21. QED
  BY <1>1, <1>2, <1>3, <1>4, <1>5, <1>6, <1>7, <1>8, <1>9, <1>10, <1>11, <1>12,
     <1>13, <1>14, <1>15, <1>16, <1>17, <1>18, <1>19, <1>20
  DEF Next, WorkerStep, CallerStep, OwnerStep

\* Every state of the pool has the shape TypeOK gives it.
THEOREM PoolTypeCorrect == Spec => []TypeOK
  BY TypeInit, TypeStep, PTL DEF Spec

(***************************************************************************)
(* Each conjunct of PoolInv after TypeOK: kept by every action, given the  *)
(* conjuncts before it.                                                    *)
(***************************************************************************)

\* Only the thread in a critical section holds the mutex.
LEMMA MutexStep ==
  TypeOK /\ MutexInv /\ [Next]_vars => MutexInv'
<1> SUFFICES ASSUME TypeOK, MutexInv, [Next]_vars
             PROVE  MutexInv'
  OBVIOUS
<1> USE PoolAssumption DEF TypeOK, Threads, WorkerLabels, CallerLabels,
        OwnerLabels, EnqueueLabels, Goto, Acquire, Release, Outside,
        history, MutexInv, Critical
<1>1. ASSUME NEW w \in Workers, StartWorker(w) PROVE MutexInv'
  BY <1>1 DEF StartWorker
<1>2. ASSUME NEW w \in Workers, WorkerLock(w) PROVE MutexInv'
  BY <1>2 DEF WorkerLock
<1>3. ASSUME NEW w \in Workers, TestPredicate(w) PROVE MutexInv'
  BY <1>3 DEF TestPredicate
<1>4. ASSUME NEW w \in Workers, Sleep(w) PROVE MutexInv'
  BY <1>4 DEF Sleep
<1>5. ASSUME NEW w \in Workers, SpuriousWakeup(w) PROVE MutexInv'
  BY <1>5 DEF SpuriousWakeup
<1>6. ASSUME NEW w \in Workers, Reacquire(w) PROVE MutexInv'
  BY <1>6 DEF Reacquire
<1>7. ASSUME NEW w \in Workers, Exit(w) PROVE MutexInv'
  BY <1>7 DEF Exit
<1>8. ASSUME NEW w \in Workers, Take(w) PROVE MutexInv'
  BY <1>8 DEF Take
<1>9. ASSUME NEW w \in Workers, FinishTask(w) PROVE MutexInv'
  BY <1>9 DEF FinishTask
<1>10. ASSUME NEW t \in Workers \cup Callers, NEW k \in Tasks, Enqueue(t, k)
       PROVE MutexInv'
  BY <1>10 DEF Enqueue
<1>11. ASSUME NEW t \in Workers \cup Callers, EnqueueLock(t) PROVE MutexInv'
  BY <1>11 DEF EnqueueLock
<1>12. ASSUME NEW t \in Workers \cup Callers, Emplace(t) PROVE MutexInv'
  BY <1>12 DEF Emplace
<1>13. ASSUME NEW t \in Workers \cup Callers, NotifyOne(t) PROVE MutexInv'
  BY <1>13 DEF NotifyOne
<1>14. CASE FinishConstruct
  BY <1>14 DEF FinishConstruct
<1>15. CASE BeginDestroy
  BY <1>15 DEF BeginDestroy
<1>16. CASE StopLock
  BY <1>16 DEF StopLock
<1>17. CASE SetStop
  BY <1>17 DEF SetStop
<1>18. CASE NotifyAll
  BY <1>18 DEF NotifyAll
<1>19. CASE Join
  BY <1>19 DEF Join
<1>20. CASE UNCHANGED vars
  BY <1>20 DEF vars
<1>21. QED
  BY <1>1, <1>2, <1>3, <1>4, <1>5, <1>6, <1>7, <1>8, <1>9, <1>10, <1>11, <1>12,
     <1>13, <1>14, <1>15, <1>16, <1>17, <1>18, <1>19, <1>20
  DEF Next, WorkerStep, CallerStep, OwnerStep

\* What a worker saw under the mutex still holds when it sleeps or takes.
LEMMA DecisionStep ==
  TypeOK /\ MutexInv /\ DecisionInv /\ [Next]_vars => DecisionInv'
<1> SUFFICES ASSUME TypeOK, MutexInv, DecisionInv, [Next]_vars
             PROVE  DecisionInv'
  OBVIOUS
<1> USE PoolAssumption DEF TypeOK, Threads, WorkerLabels, CallerLabels,
        OwnerLabels, EnqueueLabels, Goto, Acquire, Release, Outside, history,
        MutexInv, Critical, DecisionInv
<1>1. ASSUME NEW w \in Workers, StartWorker(w) PROVE DecisionInv'
  BY <1>1 DEF StartWorker
<1>2. ASSUME NEW w \in Workers, WorkerLock(w) PROVE DecisionInv'
  BY <1>2 DEF WorkerLock
<1>3. ASSUME NEW w \in Workers, TestPredicate(w) PROVE DecisionInv'
  BY <1>3 DEF TestPredicate
<1>4. ASSUME NEW w \in Workers, Sleep(w) PROVE DecisionInv'
  BY <1>4 DEF Sleep
<1>5. ASSUME NEW w \in Workers, SpuriousWakeup(w) PROVE DecisionInv'
  BY <1>5 DEF SpuriousWakeup
<1>6. ASSUME NEW w \in Workers, Reacquire(w) PROVE DecisionInv'
  BY <1>6 DEF Reacquire
<1>7. ASSUME NEW w \in Workers, Exit(w) PROVE DecisionInv'
  BY <1>7 DEF Exit
<1>8. ASSUME NEW w \in Workers, Take(w) PROVE DecisionInv'
  BY <1>8 DEF Take
<1>9. ASSUME NEW w \in Workers, FinishTask(w) PROVE DecisionInv'
  BY <1>9 DEF FinishTask
<1>10. ASSUME NEW t \in Workers \cup Callers, NEW k \in Tasks, Enqueue(t, k)
       PROVE DecisionInv'
  BY <1>10 DEF Enqueue
<1>11. ASSUME NEW t \in Workers \cup Callers, EnqueueLock(t) PROVE DecisionInv'
  BY <1>11 DEF EnqueueLock
<1>12. ASSUME NEW t \in Workers \cup Callers, Emplace(t) PROVE DecisionInv'
  BY <1>12 DEF Emplace
<1>13. ASSUME NEW t \in Workers \cup Callers, NotifyOne(t) PROVE DecisionInv'
  BY <1>13 DEF NotifyOne
<1>14. CASE FinishConstruct
  BY <1>14 DEF FinishConstruct
<1>15. CASE BeginDestroy
  BY <1>15 DEF BeginDestroy
<1>16. CASE StopLock
  BY <1>16 DEF StopLock
<1>17. CASE SetStop
  BY <1>17 DEF SetStop
<1>18. CASE NotifyAll
  BY <1>18 DEF NotifyAll
<1>19. CASE Join
  BY <1>19 DEF Join
<1>20. CASE UNCHANGED vars
  BY <1>20 DEF vars
<1>21. QED
  BY <1>1, <1>2, <1>3, <1>4, <1>5, <1>6, <1>7, <1>8, <1>9, <1>10, <1>11, <1>12,
     <1>13, <1>14, <1>15, <1>16, <1>17, <1>18, <1>19, <1>20
  DEF Next, WorkerStep, CallerStep, OwnerStep

\* A task is emplaced once, by the call it is the argument of.
LEMMA FreshStep ==
  TypeOK /\ FreshInv /\ [Next]_vars => FreshInv'
<1> SUFFICES ASSUME TypeOK, FreshInv, [Next]_vars
             PROVE  FreshInv'
  OBVIOUS
<1> USE PoolAssumption DEF TypeOK, Threads, WorkerLabels, CallerLabels,
        OwnerLabels, EnqueueLabels, Goto, Acquire, Release, Outside,
        history, FreshInv
<1>1. ASSUME NEW w \in Workers, StartWorker(w) PROVE FreshInv'
  BY <1>1 DEF StartWorker
<1>2. ASSUME NEW w \in Workers, WorkerLock(w) PROVE FreshInv'
  BY <1>2 DEF WorkerLock
<1>3. ASSUME NEW w \in Workers, TestPredicate(w) PROVE FreshInv'
  BY <1>3 DEF TestPredicate
<1>4. ASSUME NEW w \in Workers, Sleep(w) PROVE FreshInv'
  BY <1>4 DEF Sleep
<1>5. ASSUME NEW w \in Workers, SpuriousWakeup(w) PROVE FreshInv'
  BY <1>5 DEF SpuriousWakeup
<1>6. ASSUME NEW w \in Workers, Reacquire(w) PROVE FreshInv'
  BY <1>6 DEF Reacquire
<1>7. ASSUME NEW w \in Workers, Exit(w) PROVE FreshInv'
  BY <1>7 DEF Exit
<1>8. ASSUME NEW w \in Workers, Take(w) PROVE FreshInv'
  BY <1>8 DEF Take
<1>9. ASSUME NEW w \in Workers, FinishTask(w) PROVE FreshInv'
  BY <1>9 DEF FinishTask
<1>10. ASSUME NEW t \in Workers \cup Callers, NEW k \in Tasks, Enqueue(t, k)
       PROVE FreshInv'
  BY <1>10 DEF Enqueue
<1>11. ASSUME NEW t \in Workers \cup Callers, EnqueueLock(t) PROVE FreshInv'
  BY <1>11 DEF EnqueueLock
<1>12. ASSUME NEW t \in Workers \cup Callers, Emplace(t) PROVE FreshInv'
  BY <1>12 DEF Emplace
<1>13. ASSUME NEW t \in Workers \cup Callers, NotifyOne(t) PROVE FreshInv'
  BY <1>13 DEF NotifyOne
<1>14. CASE FinishConstruct
  BY <1>14 DEF FinishConstruct
<1>15. CASE BeginDestroy
  BY <1>15 DEF BeginDestroy
<1>16. CASE StopLock
  BY <1>16 DEF StopLock
<1>17. CASE SetStop
  BY <1>17 DEF SetStop
<1>18. CASE NotifyAll
  BY <1>18 DEF NotifyAll
<1>19. CASE Join
  BY <1>19 DEF Join
<1>20. CASE UNCHANGED vars
  BY <1>20 DEF vars
<1>21. QED
  BY <1>1, <1>2, <1>3, <1>4, <1>5, <1>6, <1>7, <1>8, <1>9, <1>10, <1>11, <1>12,
     <1>13, <1>14, <1>15, <1>16, <1>17, <1>18, <1>19, <1>20
  DEF Next, WorkerStep, CallerStep, OwnerStep

\* The queue is what was emplaced and not yet begun, in order.
LEMMA FifoStep ==
  TypeOK /\ FifoOrder /\ [Next]_vars => FifoOrder'
<1> SUFFICES ASSUME TypeOK, FifoOrder, [Next]_vars
             PROVE  FifoOrder'
  OBVIOUS
<1> USE PoolAssumption DEF TypeOK, Threads, WorkerLabels, CallerLabels,
        OwnerLabels, EnqueueLabels, Goto, Acquire, Release, Outside,
        history, FifoOrder
<1>1. ASSUME NEW w \in Workers, StartWorker(w) PROVE FifoOrder'
  BY <1>1 DEF StartWorker
<1>2. ASSUME NEW w \in Workers, WorkerLock(w) PROVE FifoOrder'
  BY <1>2 DEF WorkerLock
<1>3. ASSUME NEW w \in Workers, TestPredicate(w) PROVE FifoOrder'
  BY <1>3 DEF TestPredicate
<1>4. ASSUME NEW w \in Workers, Sleep(w) PROVE FifoOrder'
  BY <1>4 DEF Sleep
<1>5. ASSUME NEW w \in Workers, SpuriousWakeup(w) PROVE FifoOrder'
  BY <1>5 DEF SpuriousWakeup
<1>6. ASSUME NEW w \in Workers, Reacquire(w) PROVE FifoOrder'
  BY <1>6 DEF Reacquire
<1>7. ASSUME NEW w \in Workers, Exit(w) PROVE FifoOrder'
  BY <1>7 DEF Exit
<1>8. ASSUME NEW w \in Workers, Take(w) PROVE FifoOrder'
  <2>1. tasks # <<>> /\ tasks' = Tail(tasks)
        /\ begun' = begun + 1 /\ accepted' = accepted
    BY <1>8 DEF Take
  <2>2. /\ Len(tasks) \in Nat \ {0}
        /\ Len(Tail(tasks)) = Len(tasks) - 1
        /\ \A i \in 1..Len(tasks) - 1 : Tail(tasks)[i] = tasks[i + 1]
    BY <2>1
  <2>3. ASSUME NEW i \in 1..Len(tasks) - 1
        PROVE  Tail(tasks)[i] = accepted[begun + 1 + i]
    BY <2>2, i + 1 \in 1..Len(tasks)
  <2>4. QED
    BY <2>1, <2>2, <2>3
<1>9. ASSUME NEW w \in Workers, FinishTask(w) PROVE FifoOrder'
  BY <1>9 DEF FinishTask
<1>10. ASSUME NEW t \in Workers \cup Callers, NEW k \in Tasks, Enqueue(t, k)
       PROVE FifoOrder'
  BY <1>10 DEF Enqueue
<1>11. ASSUME NEW t \in Workers \cup Callers, EnqueueLock(t) PROVE FifoOrder'
  BY <1>11 DEF EnqueueLock
<1>12. ASSUME NEW t \in Workers \cup Callers, Emplace(t) PROVE FifoOrder'
  BY <1>12 DEF Emplace
<1>13. ASSUME NEW t \in Workers \cup Callers, NotifyOne(t) PROVE FifoOrder'
  BY <1>13 DEF NotifyOne
<1>14. CASE FinishConstruct
  BY <1>14 DEF FinishConstruct
<1>15. CASE BeginDestroy
  BY <1>15 DEF BeginDestroy
<1>16. CASE StopLock
  BY <1>16 DEF StopLock
<1>17. CASE SetStop
  BY <1>17 DEF SetStop
<1>18. CASE NotifyAll
  BY <1>18 DEF NotifyAll
<1>19. CASE Join
  BY <1>19 DEF Join
<1>20. CASE UNCHANGED vars
  BY <1>20 DEF vars
<1>21. QED
  BY <1>1, <1>2, <1>3, <1>4, <1>5, <1>6, <1>7, <1>8, <1>9, <1>10, <1>11, <1>12,
     <1>13, <1>14, <1>15, <1>16, <1>17, <1>18, <1>19, <1>20
  DEF Next, WorkerStep, CallerStep, OwnerStep

\* A task is begun once: the one at the front was not begun before.
LEMMA OnceStep ==
  TypeOK /\ FreshInv /\ FifoOrder /\ EachTaskOnce /\ [Next]_vars => EachTaskOnce'
<1> SUFFICES ASSUME TypeOK, FreshInv, FifoOrder, EachTaskOnce, [Next]_vars
             PROVE  EachTaskOnce'
  OBVIOUS
<1> USE PoolAssumption DEF TypeOK, Threads, WorkerLabels, CallerLabels,
        OwnerLabels, EnqueueLabels, Goto, Acquire, Release, Outside, history
<1>a. /\ Len(accepted) \in Nat /\ begun <= Len(accepted)
      /\ \A i \in 1..Len(accepted) : accepted[i] \in Tasks
  BY DEF FifoOrder
<1>b. ASSUME UNCHANGED <<accepted, begun, finished, task>>
      PROVE  EachTaskOnce'
  BY <1>b, SMTT(60) DEF EachTaskOnce, BegunSet
<1>1. ASSUME NEW w \in Workers, StartWorker(w) PROVE EachTaskOnce'
  BY <1>1, <1>b DEF StartWorker
<1>2. ASSUME NEW w \in Workers, WorkerLock(w) PROVE EachTaskOnce'
  BY <1>2, <1>b DEF WorkerLock
<1>3. ASSUME NEW w \in Workers, TestPredicate(w) PROVE EachTaskOnce'
  BY <1>3, <1>b DEF TestPredicate
<1>4. ASSUME NEW w \in Workers, Sleep(w) PROVE EachTaskOnce'
  BY <1>4, <1>b DEF Sleep
<1>5. ASSUME NEW w \in Workers, SpuriousWakeup(w) PROVE EachTaskOnce'
  BY <1>5, <1>b DEF SpuriousWakeup
<1>6. ASSUME NEW w \in Workers, Reacquire(w) PROVE EachTaskOnce'
  BY <1>6, <1>b DEF Reacquire
<1>7. ASSUME NEW w \in Workers, Exit(w) PROVE EachTaskOnce'
  BY <1>7, <1>b DEF Exit
<1>8. ASSUME NEW w \in Workers, Take(w) PROVE EachTaskOnce'
  <2> DEFINE k == accepted[begun + 1]
  <2>1. /\ tasks # <<>> /\ begun' = begun + 1
        /\ task' = [task EXCEPT ![w] = Head(tasks)]
        /\ UNCHANGED <<accepted, finished>>
        /\ task[w] = NoTask
    BY <1>8 DEF Take
  <2>2. Len(tasks) \in Nat \ {0} /\ Head(tasks) = tasks[1]
    BY <2>1
  <2>3. Head(tasks) = k /\ begun + 1 \in 1..Len(accepted) /\ k \in Tasks
    BY <2>2, <1>a DEF FifoOrder
  <2>4. k \notin BegunSet
    BY <2>3 DEF BegunSet, FreshInv
  <2>5. k \notin finished /\ \A v \in Workers : task[v] # k
    BY <2>3, <2>4 DEF EachTaskOnce
  <2>6. BegunSet' = BegunSet \cup {k}
    <3>1. 1..(begun + 1) = (1..begun) \cup {begun + 1}
      OBVIOUS
    <3>2. QED
      BY <2>1, <3>1 DEF BegunSet
  <2>7. \A v \in Workers : task'[v] = IF v = w THEN k ELSE task[v]
    BY <2>1, <2>3
  <2>8. {task'[u] : u \in {v \in Workers : task'[v] # NoTask}}
          = {task[u] : u \in {v \in Workers : task[v] # NoTask}} \cup {k}
    BY <2>1, <2>7, <2>3
  <2>9. QED
    BY <2>1, <2>3, <2>5, <2>6, <2>7, <2>8 DEF EachTaskOnce
<1>9. ASSUME NEW w \in Workers, FinishTask(w) PROVE EachTaskOnce'
  <2>1. /\ finished' = finished \cup {task[w]}
        /\ task' = [task EXCEPT ![w] = NoTask]
        /\ UNCHANGED <<accepted, begun>>
        /\ task[w] \in Tasks
    BY <1>9 DEF FinishTask
  <2>2. BegunSet' = BegunSet
    BY <2>1 DEF BegunSet
  <2>3. \A v \in Workers : task'[v] = IF v = w THEN NoTask ELSE task[v]
    BY <2>1
  <2>4. finished' \subseteq Tasks /\ NoTask \notin Tasks
    BY <2>1
  <2>5. finished \cup {task[u] : u \in {v \in Workers : task[v] # NoTask}}
          = finished' \cup {task'[u] : u \in {v \in Workers : task'[v] # NoTask}}
    BY <2>1, <2>3
  <2>6. \A v \in Workers : task'[v] \notin finished'
    BY <2>1, <2>3, <2>4 DEF EachTaskOnce
  <2>7. QED
    BY <2>2, <2>3, <2>5, <2>6 DEF EachTaskOnce
<1>10. ASSUME NEW t \in Workers \cup Callers, NEW k \in Tasks, Enqueue(t, k)
       PROVE EachTaskOnce'
  BY <1>10, <1>b DEF Enqueue
<1>11. ASSUME NEW t \in Workers \cup Callers, EnqueueLock(t) PROVE EachTaskOnce'
  BY <1>11, <1>b DEF EnqueueLock
<1>12. ASSUME NEW t \in Workers \cup Callers, Emplace(t) PROVE EachTaskOnce'
  <2>1. /\ accepted' = Append(accepted, arg[t])
        /\ UNCHANGED <<begun, finished, task>>
    BY <1>12 DEF Emplace
  <2>2. \A i \in 1..Len(accepted) : accepted'[i] = accepted[i]
    BY <2>1, <1>a
  <2>3. BegunSet' = BegunSet
    BY <2>1, <2>2, <1>a DEF BegunSet
  <2>4. QED
    BY <2>1, <2>3 DEF EachTaskOnce
<1>13. ASSUME NEW t \in Workers \cup Callers, NotifyOne(t) PROVE EachTaskOnce'
  BY <1>13, <1>b DEF NotifyOne
<1>14. CASE FinishConstruct
  BY <1>14, <1>b DEF FinishConstruct
<1>15. CASE BeginDestroy
  BY <1>15, <1>b DEF BeginDestroy
<1>16. CASE StopLock
  BY <1>16, <1>b DEF StopLock
<1>17. CASE SetStop
  BY <1>17, <1>b DEF SetStop
<1>18. CASE NotifyAll
  BY <1>18, <1>b DEF NotifyAll
<1>19. CASE Join
  BY <1>19, <1>b DEF Join
<1>20. CASE UNCHANGED vars
  BY <1>20, <1>b DEF vars
<1>21. QED
  BY <1>1, <1>2, <1>3, <1>4, <1>5, <1>6, <1>7, <1>8, <1>9, <1>10, <1>11, <1>12,
     <1>13, <1>14, <1>15, <1>16, <1>17, <1>18, <1>19, <1>20
  DEF Next, WorkerStep, CallerStep, OwnerStep

\* A worker leaves an empty queue, so what was owed had been begun.
LEMMA StopStep ==
  TypeOK /\ FifoOrder /\ DecisionInv /\ StopInv /\ [Next]_vars => StopInv'
<1> SUFFICES ASSUME TypeOK, FifoOrder, DecisionInv, StopInv, [Next]_vars
             PROVE  StopInv'
  OBVIOUS
<1> USE PoolAssumption DEF TypeOK, Threads, WorkerLabels, CallerLabels,
        OwnerLabels, EnqueueLabels, Goto, Acquire, Release, Outside,
        history, StopInv
<1>a. /\ Len(accepted) \in Nat /\ begun <= Len(accepted)
      /\ \A i \in 1..Len(accepted) : accepted[i] \in Tasks
  BY DEF FifoOrder
<1>b. ASSUME UNCHANGED <<accepted, begun>>
      PROVE  UNCHANGED <<AcceptedSet, BegunSet>>
  BY <1>b DEF AcceptedSet, BegunSet
<1>1. ASSUME NEW w \in Workers, StartWorker(w) PROVE StopInv'
  BY <1>1, <1>b DEF StartWorker
<1>2. ASSUME NEW w \in Workers, WorkerLock(w) PROVE StopInv'
  BY <1>2, <1>b DEF WorkerLock
<1>3. ASSUME NEW w \in Workers, TestPredicate(w) PROVE StopInv'
  BY <1>3, <1>b DEF TestPredicate
<1>4. ASSUME NEW w \in Workers, Sleep(w) PROVE StopInv'
  BY <1>4, <1>b DEF Sleep
<1>5. ASSUME NEW w \in Workers, SpuriousWakeup(w) PROVE StopInv'
  BY <1>5, <1>b DEF SpuriousWakeup
<1>6. ASSUME NEW w \in Workers, Reacquire(w) PROVE StopInv'
  BY <1>6, <1>b DEF Reacquire
<1>7. ASSUME NEW w \in Workers, Exit(w) PROVE StopInv'
  <2>1. /\ stop /\ tasks = <<>>
        /\ UNCHANGED <<accepted, begun, owed, stop>>
        /\ pc[w] = "take" /\ pc' = [pc EXCEPT ![w] = "exited"]
    BY <1>7 DEF Exit
  <2>2. AcceptedSet = BegunSet
    BY <2>1 DEF AcceptedSet, BegunSet, FifoOrder
  <2>3. QED
    BY <2>1, <2>2, <1>b
<1>8. ASSUME NEW w \in Workers, Take(w) PROVE StopInv'
  <2>1. /\ begun' = begun + 1
        /\ UNCHANGED <<accepted, owed, stop>>
        /\ pc[w] = "take" /\ pc' = [pc EXCEPT ![w] = "run"]
    BY <1>8 DEF Take
  <2>2. BegunSet \subseteq BegunSet'
    BY <2>1 DEF BegunSet
  <2>3. AcceptedSet' = AcceptedSet
    BY <2>1 DEF AcceptedSet
  <2>4. QED
    BY <2>1, <2>2, <2>3
<1>9. ASSUME NEW w \in Workers, FinishTask(w) PROVE StopInv'
  BY <1>9, <1>b DEF FinishTask
<1>10. ASSUME NEW t \in Workers \cup Callers, NEW k \in Tasks, Enqueue(t, k)
       PROVE StopInv'
  BY <1>10, <1>b DEF Enqueue
<1>11. ASSUME NEW t \in Workers \cup Callers, EnqueueLock(t) PROVE StopInv'
  BY <1>11, <1>b DEF EnqueueLock
<1>12. ASSUME NEW t \in Workers \cup Callers, Emplace(t) PROVE StopInv'
  <2>1. /\ accepted' = Append(accepted, arg[t])
        /\ UNCHANGED <<begun, owed, stop>>
        /\ pc[t] = "enq_emplace" /\ pc' = [pc EXCEPT ![t] = "enq_notify"]
    BY <1>12 DEF Emplace
  <2>2. \A i \in 1..Len(accepted) : accepted'[i] = accepted[i]
    BY <2>1, <1>a
  <2>3. Len(accepted') = Len(accepted) + 1
    BY <2>1, <1>a
  <2>4. BegunSet' = BegunSet
    BY <2>1, <2>2, <1>a DEF BegunSet
  <2>5. AcceptedSet \subseteq AcceptedSet'
    BY <2>2, <2>3, <1>a DEF AcceptedSet
  <2>6. QED
    BY <2>1, <2>4, <2>5
<1>13. ASSUME NEW t \in Workers \cup Callers, NotifyOne(t) PROVE StopInv'
  BY <1>13, <1>b DEF NotifyOne
<1>14. CASE FinishConstruct
  BY <1>14, <1>b DEF FinishConstruct
<1>15. CASE BeginDestroy
  BY <1>15, <1>b DEF BeginDestroy
<1>16. CASE StopLock
  BY <1>16, <1>b DEF StopLock
<1>17. CASE SetStop
  BY <1>17, <1>b DEF SetStop
<1>18. CASE NotifyAll
  BY <1>18, <1>b DEF NotifyAll
<1>19. CASE Join
  BY <1>19, <1>b DEF Join
<1>20. CASE UNCHANGED vars
  BY <1>20, <1>b DEF vars
<1>21. QED
  BY <1>1, <1>2, <1>3, <1>4, <1>5, <1>6, <1>7, <1>8, <1>9, <1>10, <1>11, <1>12,
     <1>13, <1>14, <1>15, <1>16, <1>17, <1>18, <1>19, <1>20
  DEF Next, WorkerStep, CallerStep, OwnerStep

\* No step leaves a sleeper and more tasks than there are woken workers.
LEMMA WakeupStep ==
  TypeOK /\ TypeOK' /\ MutexInv /\ DecisionInv /\ WakeupInv /\ [Next]_vars
    => WakeupInv'
<1> SUFFICES ASSUME TypeOK, TypeOK', MutexInv, DecisionInv, WakeupInv, [Next]_vars
             PROVE  WakeupInv'
  OBVIOUS
<1> USE PoolAssumption DEF TypeOK, Threads, WorkerLabels, CallerLabels,
        OwnerLabels, EnqueueLabels, Goto, Acquire, Release, Outside, history
<1>a. /\ IsFiniteSet(Woken) /\ Cardinality(Woken) \in Nat
      /\ IsFiniteSet(Woken') /\ Cardinality(Woken') \in Nat
      /\ InHand \in {0, 1} /\ InHand' \in {0, 1}
      /\ Len(tasks) \in Nat /\ Len(tasks') \in Nat
  <2>1. Woken \subseteq Workers /\ Woken' \subseteq Workers
    BY DEF Woken
  <2>2. IsFiniteSet(Woken) /\ IsFiniteSet(Woken')
    BY <2>1, FS_Subset
  <2>3. QED
    BY <2>2, FS_CardinalityType DEF InHand
<1>b. ASSUME UNCHANGED <<sleeping, tasks>>, Woken' = Woken, InHand' >= InHand
      PROVE  WakeupInv'
  BY <1>a, <1>b DEF WakeupInv
<1>c. ASSUME tasks' = <<>>
      PROVE  WakeupInv'
  BY <1>a, <1>c DEF WakeupInv
<1>1. ASSUME NEW w \in Workers, StartWorker(w) PROVE WakeupInv'
  <2>1. UNCHANGED <<sleeping, tasks>> /\ Woken' = Woken
    BY <1>1 DEF StartWorker, Woken
  <2>2. InHand' >= InHand
    BY <1>1 DEF StartWorker, InHand
  <2>3. QED
    BY <2>1, <2>2, <1>b
<1>2. ASSUME NEW w \in Workers, WorkerLock(w) PROVE WakeupInv'
  <2>1. UNCHANGED <<sleeping, tasks>> /\ Woken' = Woken
    BY <1>2 DEF WorkerLock, Woken
  <2>2. InHand = 0
    BY <1>2 DEF WorkerLock, InHand, MutexInv, Critical
  <2>3. QED
    BY <2>1, <2>2, <1>a, <1>b
<1>3. ASSUME NEW w \in Workers, TestPredicate(w) PROVE WakeupInv'
  <2>1. CASE stop \/ tasks # <<>>
    <3>1. UNCHANGED <<sleeping, tasks>> /\ Woken' = Woken
      BY <1>3 DEF TestPredicate, Woken
    <3>2. InHand' >= InHand
      BY <1>3, <2>1 DEF TestPredicate, InHand
    <3>3. QED
      BY <3>1, <3>2, <1>b
  <2>2. CASE ~(stop \/ tasks # <<>>)
    BY <1>3, <2>2, <1>c DEF TestPredicate
  <2>3. QED
    BY <2>1, <2>2
<1>4. ASSUME NEW w \in Workers, Sleep(w) PROVE WakeupInv'
  <2>1. tasks' = <<>>
    BY <1>4 DEF Sleep, DecisionInv
  <2>2. QED
    BY <2>1, <1>a, <1>c
<1>5. ASSUME NEW w \in Workers, SpuriousWakeup(w) PROVE WakeupInv'
  <2>1. /\ w \in sleeping /\ w \notin Woken
        /\ Woken' = Woken \cup {w}
        /\ tasks' = tasks /\ InHand' = InHand
    BY <1>5 DEF SpuriousWakeup, Woken, InHand
  <2>2. Cardinality(Woken') = Cardinality(Woken) + 1
    BY <2>1, <1>a, FS_AddElement
  <2>3. QED
    BY <2>1, <2>2, <1>a DEF WakeupInv
<1>6. ASSUME NEW w \in Workers, Reacquire(w) PROVE WakeupInv'
  <2>1. /\ w \in Woken
        /\ Woken' = Woken \ {w}
        /\ UNCHANGED <<sleeping, tasks>>
    BY <1>6 DEF Reacquire, Woken
  <2>2. Cardinality(Woken') = Cardinality(Woken) - 1
    BY <2>1, <1>a, FS_RemoveElement
  <2>3. InHand = 0
    BY <1>6 DEF Reacquire, InHand, MutexInv, Critical
  <2>4. InHand' = 1
    BY <1>6 DEF Reacquire, InHand
  <2>5. QED
    BY <2>1, <2>2, <2>3, <2>4, <1>a DEF WakeupInv
<1>7. ASSUME NEW w \in Workers, Exit(w) PROVE WakeupInv'
  <2>1. sleeping' = sleeping /\ tasks' = <<>>
    BY <1>7 DEF Exit
  <2>2. QED
    BY <2>1, <1>a, <1>c
<1>8. ASSUME NEW w \in Workers, Take(w) PROVE WakeupInv'
  <2>1. /\ Woken' = Woken /\ sleeping' = sleeping
        /\ tasks # <<>> /\ tasks' = Tail(tasks)
    BY <1>8 DEF Take, Woken
  <2>2. Len(tasks') = Len(tasks) - 1
    BY <2>1
  <2>3. InHand = 1
    BY <1>8 DEF Take, InHand
  <2>4. QED
    BY <2>1, <2>2, <2>3, <1>a DEF WakeupInv
<1>9. ASSUME NEW w \in Workers, FinishTask(w) PROVE WakeupInv'
  <2>1. UNCHANGED <<sleeping, tasks>> /\ Woken' = Woken
    BY <1>9 DEF FinishTask, Woken
  <2>2. InHand' >= InHand
    BY <1>9 DEF FinishTask, InHand
  <2>3. QED
    BY <2>1, <2>2, <1>b
<1>10. ASSUME NEW t \in Workers \cup Callers, NEW k \in Tasks, Enqueue(t, k)
       PROVE WakeupInv'
  <2>1. UNCHANGED <<sleeping, tasks>> /\ Woken' = Woken
    BY <1>10 DEF Enqueue, Woken
  <2>2. InHand' >= InHand
    BY <1>10 DEF Enqueue, InHand
  <2>3. QED
    BY <2>1, <2>2, <1>b
<1>11. ASSUME NEW t \in Workers \cup Callers, EnqueueLock(t) PROVE WakeupInv'
  <2>1. UNCHANGED <<sleeping, tasks>> /\ Woken' = Woken
    BY <1>11 DEF EnqueueLock, Woken
  <2>2. InHand = 0
    BY <1>11 DEF EnqueueLock, InHand, MutexInv, Critical
  <2>3. QED
    BY <2>1, <2>2, <1>a, <1>b
<1>12. ASSUME NEW t \in Workers \cup Callers, Emplace(t) PROVE WakeupInv'
  <2>1. /\ Woken' = Woken /\ sleeping' = sleeping
        /\ tasks' = Append(tasks, arg[t])
    BY <1>12 DEF Emplace, Woken
  <2>2. Len(tasks') = Len(tasks) + 1
    BY <2>1
  <2>3. InHand = 0
    BY <1>12 DEF Emplace, InHand, MutexInv, Critical
  <2>4. InHand' = 1
    BY <1>12 DEF Emplace, InHand
  <2>5. QED
    BY <2>1, <2>2, <2>3, <2>4, <1>a DEF WakeupInv
<1>13. ASSUME NEW t \in Workers \cup Callers, NotifyOne(t) PROVE WakeupInv'
  <2>1. CASE sleeping = {}
    BY <1>13, <2>1 DEF NotifyOne, WakeupInv
  <2>2. ASSUME NEW v \in sleeping, sleeping' = sleeping \ {v}
        PROVE  WakeupInv'
    <3>1. /\ v \notin Woken /\ Woken' = Woken \cup {v} /\ tasks' = tasks
      BY <1>13, <2>2 DEF NotifyOne, Woken
    <3>2. Cardinality(Woken') = Cardinality(Woken) + 1
      BY <3>1, <1>a, FS_AddElement
    <3>3. QED
      BY <2>2, <3>1, <3>2, <1>a DEF WakeupInv
  <2>3. QED
    BY <1>13, <2>1, <2>2 DEF NotifyOne
<1>14. CASE FinishConstruct
  <2>1. UNCHANGED <<sleeping, tasks>> /\ Woken' = Woken
    BY <1>14 DEF FinishConstruct, Woken
  <2>2. InHand' >= InHand
    BY <1>14 DEF FinishConstruct, InHand
  <2>3. QED
    BY <2>1, <2>2, <1>b
<1>15. CASE BeginDestroy
  <2>1. UNCHANGED <<sleeping, tasks>> /\ Woken' = Woken
    BY <1>15 DEF BeginDestroy, Woken
  <2>2. InHand' >= InHand
    BY <1>15 DEF BeginDestroy, InHand
  <2>3. QED
    BY <2>1, <2>2, <1>b
<1>16. CASE StopLock
  <2>1. UNCHANGED <<sleeping, tasks>> /\ Woken' = Woken
    BY <1>16 DEF StopLock, Woken
  <2>2. InHand = 0
    BY <1>16 DEF StopLock, InHand, MutexInv, Critical
  <2>3. QED
    BY <2>1, <2>2, <1>a, <1>b
<1>17. CASE SetStop
  <2>1. UNCHANGED <<sleeping, tasks>> /\ Woken' = Woken
    BY <1>17 DEF SetStop, Woken
  <2>2. InHand' >= InHand
    BY <1>17 DEF SetStop, InHand
  <2>3. QED
    BY <2>1, <2>2, <1>b
<1>18. CASE NotifyAll
  BY <1>18 DEF NotifyAll, WakeupInv
<1>19. CASE Join
  <2>1. UNCHANGED <<sleeping, tasks>> /\ Woken' = Woken
    BY <1>19 DEF Join, Woken
  <2>2. InHand' >= InHand
    BY <1>19 DEF Join, InHand
  <2>3. QED
    BY <2>1, <2>2, <1>b
<1>20. CASE UNCHANGED vars
  <2>1. UNCHANGED <<sleeping, tasks, Woken, InHand>>
    BY <1>20 DEF vars, Woken, InHand
  <2>2. QED
    BY <2>1, <1>a, <1>b
<1>21. QED
  BY <1>1, <1>2, <1>3, <1>4, <1>5, <1>6, <1>7, <1>8, <1>9, <1>10, <1>11, <1>12,
     <1>13, <1>14, <1>15, <1>16, <1>17, <1>18, <1>19, <1>20
  DEF Next, WorkerStep, CallerStep, OwnerStep

\* The initial state.
LEMMA PoolInit == Init => PoolInv /\ WakeupInv
<1> SUFFICES ASSUME Init
             PROVE  PoolInv /\ WakeupInv
  OBVIOUS
<1>1. TypeOK
  BY TypeInit
<1>2. /\ Len(accepted) = 0 /\ Len(tasks) = 0 /\ 1..0 = {} /\ begun = 0
      /\ queue_mutex = NoThread /\ ~stop /\ owed = {} /\ finished = {}
      /\ sleeping = {}
  BY DEF Init
<1>3. /\ \A t \in Threads : pc[t] \in {"unborn", "construct", "idle"} /\ arg[t] = NoTask
      /\ \A w \in Workers : pc[w] = "unborn" /\ task[w] = NoTask
      /\ pc[Owner] = "construct" /\ fresh = Tasks
  BY PoolAssumption DEF Init, Threads
<1>4. MutexInv /\ DecisionInv
  BY <1>2, <1>3, PoolAssumption DEF MutexInv, DecisionInv, Critical
<1>5. FreshInv
  BY <1>2, <1>3, PoolAssumption DEF FreshInv
<1>6. FifoOrder /\ EachTaskOnce
  BY <1>2, <1>3 DEF FifoOrder, EachTaskOnce, BegunSet
<1>7. StopInv
  BY <1>2, <1>3 DEF StopInv
<1>8. QED
  BY <1>1, <1>2, <1>4, <1>5, <1>6, <1>7 DEF PoolInv, WakeupInv

\* Every action keeps the inductive invariant.
LEMMA PoolStep ==
  PoolInv /\ WakeupInv /\ [Next]_vars => PoolInv' /\ WakeupInv'
  BY TypeStep, MutexStep, DecisionStep, FreshStep, FifoStep, OnceStep, StopStep,
     WakeupStep
  DEF PoolInv

\* The inductive invariant holds in every state the pool reaches.
THEOREM PoolInvariant == Spec => [](PoolInv /\ WakeupInv)
  BY PoolInit, PoolStep, PTL DEF Spec

\* Tasks are begun in the order they were emplaced, none skipped.
THEOREM PoolFifo == Spec => []FifoOrder
<1>1. PoolInv => FifoOrder
  BY DEF PoolInv
<1>2. QED
  BY <1>1, PoolInvariant, PTL

\* Each task begun is finished or in the hands of exactly one worker.
THEOREM PoolOnce == Spec => []EachTaskOnce
<1>1. PoolInv => EachTaskOnce
  BY DEF PoolInv
<1>2. QED
  BY <1>1, PoolInvariant, PTL

\* The destructor returns only after every task that was in the pool when stop
\* was set has finished.
THEOREM PoolDrained == Spec => []DrainedBeforeDestroyed
<1>1. PoolInv => DrainedBeforeDestroyed
  <2> SUFFICES ASSUME PoolInv, pc[Owner] = "destroyed", Workers # {}
               PROVE  owed \subseteq finished
    BY DEF DrainedBeforeDestroyed
  <2>1. \A w \in Workers : pc[w] = "exited" /\ owed \subseteq BegunSet
    BY DEF PoolInv, StopInv
  <2>2. \A w \in Workers : task[w] = NoTask
    BY <2>1 DEF PoolInv, TypeOK, EnqueueLabels
  <2>3. QED
    BY <2>1, <2>2 DEF PoolInv, EachTaskOnce
<1>2. QED
  BY <1>1, PoolInvariant, PTL

\* No wakeup is lost: with the mutex free and a worker asleep, there are no
\* more tasks in the queue than workers on their way to it.
THEOREM PoolNoLostWakeup == Spec => []NoIdleSleeper
<1>1. PoolInv /\ WakeupInv => NoIdleSleeper
  <2> SUFFICES ASSUME PoolInv, WakeupInv, queue_mutex = NoThread, sleeping # {}
               PROVE  Len(tasks) <= Cardinality(Woken)
    BY DEF NoIdleSleeper
  <2>1. InHand = 0
    BY PoolAssumption DEF PoolInv, MutexInv, InHand, Critical
  <2>2. Woken \subseteq Workers
    BY DEF Woken
  <2>3. Cardinality(Woken) \in Nat
    BY <2>2, PoolAssumption, FS_Subset, FS_CardinalityType
  <2>4. QED
    BY <2>1, <2>3 DEF WakeupInv
<1>2. QED
  BY <1>1, PoolInvariant, PTL

\* The initial state of the pool is an initial state of the executor.
LEMMA ExecutorInit == Init => Executor!Init
  BY PoolAssumption DEF Init, Executor!Init, Phase, Threads

\* Every step of the pool is a step of the executor or a stutter.
LEMMA ExecutorStep ==
  TypeOK /\ FreshInv /\ FifoOrder /\ EachTaskOnce /\ StopInv
    /\ Workers # {} /\ [Next]_vars => [Executor!Next]_(Executor!vars)
<1> SUFFICES ASSUME TypeOK, FreshInv, FifoOrder, EachTaskOnce, StopInv,
                    Workers # {}, [Next]_vars
             PROVE  [Executor!Next]_(Executor!vars)
  OBVIOUS
<1> USE PoolAssumption DEF TypeOK, Threads, WorkerLabels, CallerLabels,
        OwnerLabels, EnqueueLabels, Goto, Acquire, Release, Outside, history
<1>1. ASSUME NEW w \in Workers, StartWorker(w)
       PROVE [Executor!Next]_(Executor!vars)
  <2>1. UNCHANGED <<history, task, Phase>>
    BY <1>1 DEF StartWorker, Phase
  <2>2. QED
    BY <2>1 DEF Executor!vars
<1>2. ASSUME NEW w \in Workers, WorkerLock(w)
       PROVE [Executor!Next]_(Executor!vars)
  <2>1. UNCHANGED <<history, task, Phase>>
    BY <1>2 DEF WorkerLock, Phase
  <2>2. QED
    BY <2>1 DEF Executor!vars
<1>3. ASSUME NEW w \in Workers, TestPredicate(w)
       PROVE [Executor!Next]_(Executor!vars)
  <2>1. UNCHANGED <<history, task, Phase>>
    BY <1>3 DEF TestPredicate, Phase
  <2>2. QED
    BY <2>1 DEF Executor!vars
<1>4. ASSUME NEW w \in Workers, Sleep(w)
       PROVE [Executor!Next]_(Executor!vars)
  <2>1. UNCHANGED <<history, task, Phase>>
    BY <1>4 DEF Sleep, Phase
  <2>2. QED
    BY <2>1 DEF Executor!vars
<1>5. ASSUME NEW w \in Workers, SpuriousWakeup(w)
       PROVE [Executor!Next]_(Executor!vars)
  <2>1. UNCHANGED <<history, task, Phase>>
    BY <1>5 DEF SpuriousWakeup, Phase
  <2>2. QED
    BY <2>1 DEF Executor!vars
<1>6. ASSUME NEW w \in Workers, Reacquire(w)
       PROVE [Executor!Next]_(Executor!vars)
  <2>1. UNCHANGED <<history, task, Phase>>
    BY <1>6 DEF Reacquire, Phase
  <2>2. QED
    BY <2>1 DEF Executor!vars
<1>7. ASSUME NEW w \in Workers, Exit(w)
       PROVE [Executor!Next]_(Executor!vars)
  <2>1. UNCHANGED <<history, task, Phase>>
    BY <1>7 DEF Exit, Phase
  <2>2. QED
    BY <2>1 DEF Executor!vars
<1>8. ASSUME NEW w \in Workers, Take(w)
       PROVE [Executor!Next]_(Executor!vars)
  <2>1. /\ tasks # <<>> /\ task[w] = NoTask
        /\ task' = [task EXCEPT ![w] = Head(tasks)] /\ begun' = begun + 1
        /\ UNCHANGED <<accepted, finished, owed, Phase>>
    BY <1>8 DEF Take, Phase
  <2>2. Len(tasks) \in Nat \ {0} /\ Head(tasks) = tasks[1]
    BY <2>1
  <2>3. Head(tasks) = accepted[begun + 1] /\ begun < Len(accepted)
    BY <2>2 DEF FifoOrder
  <2>4. Executor!Begin(w)
    BY <2>1, <2>3 DEF Executor!Begin
  <2>5. QED
    BY <2>4 DEF Executor!Next
<1>9. ASSUME NEW w \in Workers, FinishTask(w)
       PROVE [Executor!Next]_(Executor!vars)
  <2>1. Executor!Finish(w)
    BY <1>9 DEF FinishTask, Executor!Finish, Phase
  <2>2. QED
    BY <2>1 DEF Executor!Next
<1>10. ASSUME NEW t \in Workers \cup Callers, NEW k \in Tasks, Enqueue(t, k)
       PROVE [Executor!Next]_(Executor!vars)
  <2>1. UNCHANGED <<history, task, Phase>>
    BY <1>10 DEF Enqueue, Phase
  <2>2. QED
    BY <2>1 DEF Executor!vars
<1>11. ASSUME NEW t \in Workers \cup Callers, EnqueueLock(t)
       PROVE [Executor!Next]_(Executor!vars)
  <2>1. UNCHANGED <<history, task, Phase>>
    BY <1>11 DEF EnqueueLock, Phase
  <2>2. QED
    BY <2>1 DEF Executor!vars
<1>12. ASSUME NEW t \in Workers \cup Callers, Emplace(t)
       PROVE [Executor!Next]_(Executor!vars)
  <2>1. arg[t] \in Tasks /\ arg[t] \notin Executor!AcceptedSet
    BY <1>12 DEF Emplace, FreshInv, Executor!AcceptedSet
  <2>2. UNCHANGED Phase
    BY <1>12 DEF Emplace, Phase
  <2>3. Executor!Accept(arg[t])
    BY <1>12, <2>1, <2>2 DEF Emplace, Executor!Accept
  <2>4. QED
    BY <2>1, <2>3 DEF Executor!Next
<1>13. ASSUME NEW t \in Workers \cup Callers, NotifyOne(t)
       PROVE [Executor!Next]_(Executor!vars)
  <2>1. UNCHANGED <<history, task, Phase>>
    BY <1>13 DEF NotifyOne, Phase
  <2>2. QED
    BY <2>1 DEF Executor!vars
<1>14. CASE FinishConstruct
  <2>1. UNCHANGED <<history, task, Phase>>
    BY <1>14 DEF FinishConstruct, Phase
  <2>2. QED
    BY <2>1 DEF Executor!vars
<1>15. CASE BeginDestroy
  <2>1. UNCHANGED <<history, task, Phase>>
    BY <1>15 DEF BeginDestroy, Phase
  <2>2. QED
    BY <2>1 DEF Executor!vars
<1>16. CASE StopLock
  <2>1. UNCHANGED <<history, task, Phase>>
    BY <1>16 DEF StopLock, Phase
  <2>2. QED
    BY <2>1 DEF Executor!vars
<1>17. CASE SetStop
  <2>1. Phase = "open" /\ Phase' = "closed"
    BY <1>17 DEF SetStop, Phase, StopInv
  <2>2. owed' = Executor!AcceptedSet
    BY <1>17 DEF SetStop, AcceptedSet, Executor!AcceptedSet
  <2>3. Executor!Close
    BY <1>17, <2>1, <2>2 DEF SetStop, Executor!Close
  <2>4. QED
    BY <2>3 DEF Executor!Next
<1>18. CASE NotifyAll
  <2>1. UNCHANGED <<history, task, Phase>>
    BY <1>18 DEF NotifyAll, Phase
  <2>2. QED
    BY <2>1 DEF Executor!vars
<1>19. CASE Join
  <2>1. \A w \in Workers : task[w] = NoTask /\ owed \subseteq BegunSet
    BY <1>19 DEF Join, StopInv
  <2>2. owed \subseteq finished
    BY <2>1 DEF EachTaskOnce
  <2>3. Phase = "closed" /\ Phase' = "gone"
    BY <1>19 DEF Join, Phase, StopInv
  <2>4. Executor!Leave
    BY <1>19, <2>1, <2>2, <2>3 DEF Join, Executor!Leave
  <2>5. QED
    BY <2>4 DEF Executor!Next
<1>20. CASE UNCHANGED vars
  BY <1>20 DEF vars, Executor!vars, Phase
<1>21. QED
  BY <1>1, <1>2, <1>3, <1>4, <1>5, <1>6, <1>7, <1>8, <1>9, <1>10, <1>11, <1>12,
     <1>13, <1>14, <1>15, <1>16, <1>17, <1>18, <1>19, <1>20
  DEF Next, WorkerStep, CallerStep, OwnerStep

\* The pool of at least one worker implements the executor its users rely on.
THEOREM PoolImplementsExecutor ==
  ASSUME Workers # {}
  PROVE  Spec => ImplementsExecutor
<1>1. PoolInv /\ [Next]_vars => [Executor!Next]_(Executor!vars)
  BY ExecutorStep DEF PoolInv
<1>2. QED
  BY <1>1, ExecutorInit, PoolInvariant, PTL
  DEF Spec, ImplementsExecutor, Executor!Spec
=============================================================================
