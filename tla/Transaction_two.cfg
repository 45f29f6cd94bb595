SPECIFICATION Spec
CONSTANTS
  MaxHeaders = 7
  MaxCookies = 2
  MaxOff = 41
  Fd = 5
  None = None
  Root = "root"
  Nodes <- TwoNodes
  Prefix <- TwoPrefix
  Entries <- TwoEntries
  Subtrees <- TwoSubtrees
  Requests <- TwoRequests
INVARIANTS
  TypeOK
  DescriptorKept
  RangeExact
  
  RangeRead
  FirstFileServed
  
  OwnState
  
  ErrorAsAsked
