CONSTANTS
  MaxFd = 2
  Listener = 0
  SetSizes = {2, 3}
  TwoProcs = {1}
  Conditions <- Sockets
SPECIFICATION FairSpec
INVARIANTS TypeOK KernelAgrees ValidDispatch
PROPERTIES EverServed
