SPECIFICATION Spec
CONSTANTS
  MaxOps = 2
  MaxRank = 4
  Sizes = {0, 1, 2, 3}
  Seeds = {1, 2}
  kN = 2
  W = 3
  Wide = 3
  Budget = 12
  Bits = {3, 5}
  SizeBits = 5
  Lanes = 4
  Cells = 6
INVARIANTS Views  SimdExact
CHECK_DEADLOCK FALSE
