CONSTANTS
  Clients = {c1, c2}
  Keys = {k1}
  NoValue = NoValue
  MaxRequests = 2
VIEW WithoutPast
SPECIFICATION FairSpec
INVARIANTS TypeOK RepliesIntact WaitingIsArmed
PROPERTIES Answered
CHECK_DEADLOCK FALSE
