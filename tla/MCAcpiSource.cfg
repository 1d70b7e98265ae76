SPECIFICATION Spec
CONSTANTS
  Systems <- MCSystems
  HeaderSize = 2
  MaxTables = 2
  MaxSize = 3
INVARIANTS
  Released
  DecodedWhole
  ResultExact
CHECK_DEADLOCK FALSE
