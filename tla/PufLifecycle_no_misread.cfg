SPECIFICATION Spec
CONSTANTS
  Blocks <- MCBlocks
  Data <- MCData
  T = 1
  Dist <- MCDist
  EccDist <- MCEccDist
  Decode <- MCDecode
  Failed = Failed
  None = None
  Garbage = Garbage
  Powerups <- MCPowerups
  Efuse <- Key4Burned
  MayFail <- NoMisread
  MayDecay = {"helper_w", "hmac_tag"}
INVARIANTS SealImpliesHelper
PROPERTIES SealIsFinal BrickedForGood
