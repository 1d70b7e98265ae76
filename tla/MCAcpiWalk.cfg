SPECIFICATION Spec
CONSTANTS
  Byte <- MCByte
  SizeMax = 6
  HeaderSize = 2
  MaxSize = 6
  Calls <- MCCalls
  Offsets <- MCOffsets
INVARIANTS
  MemorySafe
  EntriesExact
  VerdictExact
PROPERTIES
  VerdictRepeats
  ImplementsStream
