SPECIFICATION SessionSpec
CONSTANTS
  Conns = {c1}
  NoConn = NoConn
  NoRequest = NoRequest
  MaxRequests = 3
  Requests <- MenuRequests
CHECK_DEADLOCK FALSE
INVARIANT AnswerMatches
