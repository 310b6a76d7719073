SPECIFICATION Spec
CONSTANTS
  Devices = {d1, d2}
  None = None
  Delay = 1
  Reconnect = 2
  ConnectWait = 4
  WifiWait = 5
  NonceWait = 6
  MaxOutages = 1
SYMMETRY DeviceSymmetry
INVARIANT TypeOK
PROPERTIES GivesUpOnlyAfterOutage ReadyGetsThrough HeardReadyIsAnswered TokenLostOnlyOffAir
