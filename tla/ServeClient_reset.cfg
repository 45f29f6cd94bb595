SPECIFICATION FairSpec
CONSTANTS
  Requests <- Plain
  BufSz = 3
  TxCap = 7
  MaxHeaders = 4
  Splits = FALSE
  MayShutdown = FALSE
  MayReset = TRUE
\* The connection may be closed, or idle with a peer that has nothing left to do.
CHECK_DEADLOCK FALSE
PROPERTIES
  HangsUp
