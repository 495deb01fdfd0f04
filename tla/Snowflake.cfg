SPECIFICATION Spec
CONSTANTS
  TimeMod = 4
  WorkerMod = 2
  ProcessMod = 2
  SequenceMod = 2
  MaxTime = 5
  MaxIds = 3
INVARIANTS CollideExactly NumberIsIdentity
\* The program may stop making ids.
CHECK_DEADLOCK FALSE
