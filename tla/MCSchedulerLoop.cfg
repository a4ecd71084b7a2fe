CONSTANTS
  Sessions = {s1, s2, s3}
  MaxInFlight = 2
  HintBudget = 3
  NoSession = NoSession
SPECIFICATION Spec
SYMMETRY Symmetry
INVARIANTS TypeOK SlotAccounting OnePassPerSession AdmissionHygiene
CHECK_DEADLOCK FALSE
