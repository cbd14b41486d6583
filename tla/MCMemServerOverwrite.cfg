CONSTANTS
  Clients = {c1, c2}
  Keys = {k1}
  NoValue = NoValue
  MaxRequests = 2
SPECIFICATION Spec
INVARIANTS ValuesIntact
CHECK_DEADLOCK FALSE
