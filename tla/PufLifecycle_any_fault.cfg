SPECIFICATION FairSpec
CONSTANTS
  Blocks <- MCBlocks
  Data <- MCData
  T = 1
  Dist <- MCDist
  EccDist <- MCEccDist
  Decode <- MCDecode
  Failed = Failed
  None = None
  Garbage = Garbage
  Powerups <- MCPowerups
  Efuse <- Key4Burned
  MayFail <- AllCalls
  MayDecay = {"helper_w", "enrolled", "hmac_tag"}
INVARIANTS TypeOK SealedUse EnrolledKeyRecovered
PROPERTIES VaultSpec Available
