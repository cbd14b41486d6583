CONSTANTS
  k1 = k1  k2 = k2  k3 = k3  k4 = k4
  Keys = {k1, k2, k3, k4}
  Hash <- MCHash
  InitSize = 2
  Sizes = {2, 4, 8}
  MaxRequest = 8
  EmptyVisits = 2
  ForceRatio = 1
  Vals = {v1, v2}
  NoVal = NoVal
  MaxOpen = 1
  Batches = {1, 2}
  EmptyMidIteration = FALSE
SPECIFICATION Spec
SYMMETRY ValueSymmetry
VIEW WithoutAnswer
INVARIANTS TypeOK TablesSound SamplingComplete
PROPERTIES NoMoveWhileIterating RehashProgress GrowthKeepsLoad IsMap
