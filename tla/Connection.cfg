CONSTANTS
  Chunk = 2
  Ints = 10
  Lengths = {0, 1, 2, 3, 5, 11}
  MaxSends = 3
SPECIFICATION Spec
INVARIANTS TypeOK StreamInOrder NoWholeChunks EndLosesWholeChunks SuccessIsRead
PROPERTIES ReceiveStallsOnlyAtChunk
\* Nobody has to send, to receive or to close.
CHECK_DEADLOCK FALSE
