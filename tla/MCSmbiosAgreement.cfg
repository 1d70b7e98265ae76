SPECIFICATION BothSpec
CONSTANTS
  Byte <- MCByte
  SizeMax = 9
  HeaderSize = 2
  EndType = 3
  MaxSize = 8
  MaxRaw = 5
  Tables <- MCTables
  Starts <- MCStarts
  Enveloped <- MCEnveloped
INVARIANTS
  MemorySafe
  ViewExact
  VerdictExact
  NeverThrows
  TableExact
  RefusalExact
  SameAnswer
PROPERTIES
  ImplementsStream
  ManagedStream
  Terminates
\* Both loops end.
CHECK_DEADLOCK FALSE
