CONSTANTS
  Requests <- OneRequest
  BufLen = 64
SPECIFICATION ParserSpec
INVARIANTS CommandsAsSent
CHECK_DEADLOCK FALSE
