SPECIFICATION FairSpec
CONSTANTS
  NumWorkers = 3
  SlotCounts = {0, 2, 4}
\* The process may exit.
CHECK_DEADLOCK FALSE
INVARIANTS
  NoEarlyAccept
  SomeSocket
PROPERTIES
  EveryoneStarts
