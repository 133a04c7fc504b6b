SPECIFICATION Spec
CONSTANT MaxPieces = 5
CHECK_DEADLOCK FALSE
INVARIANTS PageTypeOK OneMarkerOnly ThrowsForCause LengthTellsAscii
