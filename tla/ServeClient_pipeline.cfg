SPECIFICATION FairSpec
CONSTANTS
  Requests <- Pipeline
  BufSz = 3
  TxCap = 7
  MaxHeaders = 4
  Splits = FALSE
  MayShutdown = TRUE
  MayReset = TRUE
\* The connection may be closed, or idle with a peer that has nothing left to do.
CHECK_DEADLOCK FALSE
INVARIANTS
  TypeOK
  InputConserved
  
  FileClosedAfterSending
  RefusedRightly
  FileOwned
  HandlerSeesPayload
PROPERTIES
  ConnectionSpec
  AllAnswered
  HangupNoticed
