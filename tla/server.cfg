SPECIFICATION Spec
CONSTANTS
  Conns = {c1, c2}
  NoConn = NoConn
  NoRequest = NoRequest
  MaxRequests = 2
  Requests <- EveryPath
SYMMETRY Symmetry
CHECK_DEADLOCK FALSE
INVARIANTS TypeOK MutexDiscipline SuccessPinsHandle
PROPERTIES LoggedInOnlyByMatch ImplementsService
