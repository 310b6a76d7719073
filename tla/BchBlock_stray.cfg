SPECIFICATION Spec
CONSTANTS
  M = 6
  T = 5
  PrimPoly <- PrimPoly6
  Bytes = 2
  Words <- SmallWords
  Noises <- StrayNoises
INVARIANTS FoundOrRefused
