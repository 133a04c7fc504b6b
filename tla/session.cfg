SPECIFICATION SessionSpec
CONSTANTS
  Conns = {c1, c2}
  NoConn = NoConn
  NoRequest = NoRequest
  MaxRequests = 3
  Requests <- MenuRequests
SYMMETRY Symmetry
CHECK_DEADLOCK FALSE
INVARIANTS SessionTypeOK ExactLag InStep ToldNoIsRefused
