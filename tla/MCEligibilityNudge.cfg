CONSTANTS
  Sessions = {s1, s2, s3}
  Callers = {c1, c2, c3}
  Cancellable = {c2, c3}
  Capacity = 2
  NoSession = NoSession
SPECIFICATION Spec
SYMMETRY Symmetry
INVARIANTS TokensMatchMap PermitAccounting
CHECK_DEADLOCK FALSE
