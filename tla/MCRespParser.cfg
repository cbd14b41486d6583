CONSTANTS
  Requests <- SomeRequests
  BufLen = 12
SPECIFICATION ParserSpec
INVARIANTS ParserTypeOK WholeLinesAsSent
CHECK_DEADLOCK FALSE
