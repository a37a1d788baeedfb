\* Two tiles in every direction; four rows in parallel in the fused loop.
SPECIFICATION Spec
CONSTANTS
  M = 4
  N = 4
  K = 4
  TM = 2
  TN = 2
  TK = 2
INVARIANTS
  TypeOK
  ResultsKept
  RaceFree
