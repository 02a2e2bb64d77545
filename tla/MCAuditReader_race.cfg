SPECIFICATION ReaderSpec
CONSTANTS
  MaxLines = 1
  MaxArchives = 1
  MaxWrites = 5
  Faults <- AppendFaults
CHECK_DEADLOCK FALSE
INVARIANT ReaderTypeOK
INVARIANT RacingReaderSeesNoFalseLink
INVARIANT ReadOnceInOrder
INVARIANT RetainNewest
PROPERTY PruneRestoresBound
