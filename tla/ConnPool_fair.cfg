SPECIFICATION FairSpec
CONSTANTS
  NumWorkers = 1
  NumSlots = 2
  Accepters = {v4}
  Fds = {d1, d2, d3}
  NoFd = NoFd
  MaxEvents = 2
  UninitNext <- ZeroHeap
  AddMayFail = FALSE
INVARIANTS
  SlotsConserved
PROPERTIES
  EventServed
  SocketSettled
