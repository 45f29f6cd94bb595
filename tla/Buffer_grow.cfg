SPECIFICATION Spec
CONSTANTS
  Increment = 3
  Initial = 6
  Lengths <- Short
  MaxAsked = 12
INVARIANTS
  AppendsInside
\* Nothing follows a write outside the allocation.
CHECK_DEADLOCK FALSE
