SPECIFICATION FairSessionSpec
CONSTANTS
  Conns = {c1, c2}
  NoConn = NoConn
  NoRequest = NoRequest
  MaxRequests = 2
  Requests <- WaitRequests
CHECK_DEADLOCK FALSE
PROPERTIES WaitEndsUnlessSilent LoginsGetTheMutex LeftConnectionsEnd
