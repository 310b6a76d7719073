SPECIFICATION Spec
CONSTANTS
  Sessions = {v1, v2}
  None = None
  BootKeys = {"enrolled", "other"}
  Faults <- LossFaults
  MaxBoots = 2
  MaxResends = 0
SYMMETRY SessionSymmetry
CHECK_DEADLOCK FALSE
INVARIANTS TypeOK PassMeansPresenceNow NonceComplete GaveUpIsSilent
PROPERTIES LedgerSpec
