SPECIFICATION AcceptSpec
CONSTANTS
  Conns = {c1, c2, c3}
  NoConn = NoConn
  MaxFd = 3
SYMMETRY Symmetry
CHECK_DEADLOCK FALSE
INVARIANTS AcceptTypeOK Ownership OwnReader
