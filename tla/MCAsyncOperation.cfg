SPECIFICATION Spec
CONSTANTS
  Depth = 3
  VoidOps <- MCVoidOps
  Yields <- MCYields
  Workers = {w1, w2}
  Driver = driver
SYMMETRY Symmetry
INVARIANTS TypeOK AwaitNeverDelivers FramesOwned UndefinedNeedsTask
\* A program stops once its driver has dropped the object.
CHECK_DEADLOCK FALSE
