CONSTANTS
  ListHead = {lh1, lh2}
  ListEntry = {le1, le2, le3}
  Poison1 = Poison1  Poison2 = Poison2
  HlistHead = {hh1, hh2}
  HlistNode = {hn1, hn2, hn3}
  HNull = HNull
  HPoison1 = HPoison1  HPoison2 = HPoison2
  Sigs = {s1, s2}
  Capacity = 2
  MaxSignals = 3
  Proc = {p, q}
  Killed = {p}
  Smoking = {q}
  MaxVersion = 2
  Points <- Continua
  Hashes = {0, 1, 2, 3, 4, 5, 7, 8}
  MaxSegments = 2
  NoId = NoId
  Blocks = 2
  FrameBytes = 2
  AckBytes = 2
  MaxRuns = 2
  Descriptors = {5, 6, 7, 8}
  SetSize = 8
  NoClient = NoClient
SPECIFICATION Spec
INVARIANTS ListsLinked HlistsLinked LoopsComplete GetServerTrue ImageSurvives DeliveredWhole QueueAgrees
PROPERTIES RollWhole CallsReturn SignalsHandled
CHECK_DEADLOCK FALSE
