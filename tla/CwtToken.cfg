SPECIFICATION Spec
CONSTANTS
  Keys = {"enrolled", "other"}
  K_auth = "enrolled"
  Nonces <- MCNonces
  Uptimes <- MCUptimes
CHECK_DEADLOCK FALSE
INVARIANTS TypeOK VerdictIsRight ClaimsKept FitsBuffers
