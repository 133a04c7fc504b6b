SPECIFICATION AcceptSpec
CONSTANTS
  Conns = {c1, c2}
  NoConn = NoConn
  MaxFd = 4
CHECK_DEADLOCK FALSE
INVARIANT OneThreadPerConnection
