CONSTANTS
  k1 = k1  k2 = k2  k3 = k3  k4 = k4  i1 = i1  i2 = i2
  Keys = {k1, k3, k4}
  Hash <- MCHash
  InitSize = 2
  Sizes = {2, 4, 8}
  MaxRequest = 8
  EmptyVisits = 2
  ForceRatio = 1
  Iters = {i1, i2}
  Null = Null
  Width = 3
  Beside = 0
SYMMETRY IterSymmetry
SPECIFICATION WalkSpec
INVARIANTS NoFreedEntry ScanCompleteUnfolded
PROPERTIES EachOnce ScanAdvances
CHECK_DEADLOCK FALSE
