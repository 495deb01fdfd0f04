CONSTANTS
  Workers = {w1, w2, w3}
  Callers = {c1}
  Owner = owner
  Tasks = {k1, k2}
  NoTask = NoTask
  NoThread = NoThread
SPECIFICATION FairSpec
INVARIANTS TypeOK FifoOrder EachTaskOnce NoIdleSleeper DrainedBeforeDestroyed
PROPERTIES ImplementsExecutor DestructorReturns QueuedTaskRuns
\* The program may end, and no one has to enqueue.
CHECK_DEADLOCK FALSE
