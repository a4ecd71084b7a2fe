CONSTANTS
  Requests = {1, 2, 3}
  External = {2, 3}
SPECIFICATION FairSpec
INVARIANTS TypeOK StartedOnceInOrder HonestRecord
PROPERTIES EndsAreFinal BatchSettles
CHECK_DEADLOCK FALSE
