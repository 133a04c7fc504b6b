SPECIFICATION FairSpec
CONSTANTS
  Base = 4
  SizeBytes = 2
  Window = 3
  MaxPackets = 3
  Packets <- SomePackets
CHECK_DEADLOCK FALSE
INVARIANTS StreamTypeOK ConnectorGets
PROPERTIES ImplementsQueue PacketsArrive SendEnds
