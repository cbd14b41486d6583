CONSTANTS
  Nil = Nil  Null = Null
  Header = Header
  False = False
  Idle = Idle
  Item = {1, 2, 3, 4}
  Score <- MCScore
  Probe = {1, 2, 4, 5}
  MaxLevel = 3
  Data = {1, 2, 3, 4, 5, 6, 7, 8}
  MaxDrift = 1
  Node = {1, 2, 3, 4, 5, 6, 7, 8, 9, 10, 11, 12, 13, 14}
  Key <- MCKey
  Val <- MCVal
  TreeNode = {1, 2, 3, 4, 5, 6, 7}
  EndNode = {1, 2, 3, 12, 13, 14}
  LatchNode = {1, 2, 3, 4}
SPECIFICATION Spec
INVARIANTS WellFormed ListAsList StoresLoopless LookupTrue
PROPERTIES Contents
