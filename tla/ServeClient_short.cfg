SPECIFICATION Spec
CONSTANTS
  Requests <- Plain
  BufSz = 3
  TxCap = 7
  MaxHeaders = 4
  Splits = TRUE
  MayShutdown = FALSE
  MayReset = FALSE
\* The connection may be closed, or idle with a peer that has nothing left to do.
CHECK_DEADLOCK FALSE
INVARIANTS
  ResponsesWhole
