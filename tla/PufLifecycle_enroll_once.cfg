SPECIFICATION Spec
CONSTANTS
  Blocks <- MCBlocks
  Data <- MCData
  T = 1
  Dist <- MCDist
  EccDist <- MCEccDist
  Decode <- MCDecode
  Failed = Failed
  None = None
  Garbage = Garbage
  Powerups <- NearPowerups
  Efuse <- Key4Burned
  MayFail = {"is_enrolled"}
  MayDecay = {}
INVARIANTS EnrollOnce
