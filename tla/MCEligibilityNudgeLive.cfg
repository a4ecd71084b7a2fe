CONSTANTS
  Sessions = {s1, s2}
  Callers = {c1, c2, c3}
  Cancellable = {}
  Capacity = 1
  NoSession = NoSession
SPECIFICATION FairSpec
INVARIANT AcceptedHintKept
PROPERTY AcceptedHintReturned
CHECK_DEADLOCK FALSE
