CONSTANTS
  Sessions = {1, 2}
  PageSize = 1
  Capacity = 2
  Unowned = {2}
  NoHint = NoHint
SPECIFICATION FairSpec
INVARIANTS TypeOK NoHintDropped Alternates
PROPERTY WorkReturned
