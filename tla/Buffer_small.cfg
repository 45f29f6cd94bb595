SPECIFICATION Spec
CONSTANTS
  Increment = 3
  Initial = 6
  Lengths <- Long
  MaxAsked = 12
INVARIANTS
  
  SmallBodies

  
\* Nothing follows a write outside the allocation.
CHECK_DEADLOCK FALSE
