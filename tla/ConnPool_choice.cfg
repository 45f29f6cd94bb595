SPECIFICATION Spec
CONSTANTS
  NumWorkers = 3
  NumSlots = 3
  Accepters = {v4}
  Fds = {d1, d2, d3, d4}
  NoFd = NoFd
  MaxEvents = 1
  UninitNext <- ZeroHeap
  AddMayFail = FALSE
SYMMETRY Symmetry
INVARIANTS
  RefusedOnlyWhenFull
