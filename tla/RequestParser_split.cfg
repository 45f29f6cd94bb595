SPECIFICATION Spec
CONSTANTS
  Inputs <- Streams
  BufSz = 24
\* The input ends, or the connection does.
CHECK_DEADLOCK FALSE
INVARIANTS
  TypeOK
  NothingMissed
  
