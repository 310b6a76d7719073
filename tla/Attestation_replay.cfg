SPECIFICATION Spec
CONSTANTS
  Sessions = {v1, v2}
  None = None
  BootKeys = {"enrolled"}
  Faults = {"resend"}
  MaxBoots = 1
  MaxResends = 1
SYMMETRY SessionSymmetry
CHECK_DEADLOCK FALSE
INVARIANTS NoReplay
