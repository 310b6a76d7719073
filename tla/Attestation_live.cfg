SPECIFICATION FairSpec
CONSTANTS
  Sessions = {v1, v2}
  None = None
  BootKeys = {"enrolled"}
  Faults = {"resend"}
  MaxBoots = 1
  MaxResends = 1
CHECK_DEADLOCK FALSE
INVARIANTS OneSessionPerToken
PROPERTIES HeardIsSettled
