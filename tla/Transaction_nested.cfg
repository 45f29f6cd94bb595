SPECIFICATION Spec
CONSTANTS
  MaxHeaders = 7
  MaxCookies = 2
  MaxOff = 41
  Fd = 5
  None = None
  Root = "root"
  Nodes <- DeepNodes
  Prefix <- DeepPrefix
  Entries <- DeepEntries
  Subtrees <- DeepSubtrees
  Requests <- DeepRequests
INVARIANTS
  NestedReached
