SPECIFICATION Spec
CONSTANTS
  NumWorkers = 1
  NumSlots = 2
  Accepters = {v4, v6}
  Fds = {d1, d2, d3}
  NoFd = NoFd
  MaxEvents = 2
  UninitNext <- AnyHeap
  AddMayFail = TRUE
SYMMETRY Symmetry
\* An accept thread that followed a wild pointer takes no further step.
CHECK_DEADLOCK FALSE
INVARIANTS
  TypeOK
  FreeListOK
  SlotExclusive
  SocketOwned
  BatchLive
  FreshOnAccept
PROPERTIES
  PoolSpec
