CONSTANTS
  MaxAny = 3
  MaxDistinct = 4
  Sessions = {1, 2}
SPECIFICATION Accepting
INVARIANT DeriveIsTheOrder
PROPERTY NeverReorders
CHECK_DEADLOCK FALSE
