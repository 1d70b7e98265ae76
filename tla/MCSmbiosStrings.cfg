SPECIFICATION Spec
CONSTANTS
  Byte <- MCByte
  SizeMax = 13
  ByteMax = 3
  MaxSize = 12
  Regions <- MCRegions
INVARIANTS
  LookupExact
  LookupsAgree
  PrinterAgrees
  PrinterStaysInside
CHECK_DEADLOCK FALSE
