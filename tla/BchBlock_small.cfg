SPECIFICATION Spec
CONSTANTS
  M = 6
  T = 5
  PrimPoly <- PrimPoly6
  Bytes = 2
  Words <- SmallWords
  Noises <- SmallNoises
INVARIANTS TypeOK NearestCodeword AtMostTFlips LocatorExact MinimumDistance
