CONSTANTS
  Sessions = {s1, s2}
  MaxInFlight = 1
  HintBudget = 3
  NoSession = NoSession
SPECIFICATION FairSpec
PROPERTIES HintServed ReturnServed DrainTerminates
CHECK_DEADLOCK FALSE
