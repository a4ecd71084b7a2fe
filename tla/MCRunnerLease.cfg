CONSTANTS
  Leases = {1, 2}
  Sockets = {1, 2}
  MaxFaults = 2
  MaxFrames = 2
SPECIFICATION FairSpec
CHECK_DEADLOCK FALSE
INVARIANTS TypeOK ClaimedRunsOnce EvidenceKept OneCurrentLease FramesAccepted
PROPERTIES SettledIsFinal LeaseSettles
