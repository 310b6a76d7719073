SPECIFICATION Spec
CONSTANTS
  M = 8
  T = 20
  PrimPoly <- PrimPoly8
  Bytes = 14
  Words <- FullWords
  Noises <- FullNoises
INVARIANTS NearestCodeword
