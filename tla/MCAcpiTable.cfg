SPECIFICATION Spec
CONSTANTS
  Byte <- MCByte
  SizeMax = 6
  Modulus = 6
  MaxSize = 6
  Buffers <- MCBuffers
  HeaderSize = 2
  MinimumSize <- MCMinimumSize
  RsdpSignature = 0
  LegacySize = 3
  XsdtOffset = 4
  RsdpSize = 5
INVARIANTS
  MemorySafe
  AcceptedWhole
  ValidatorsAgree
  ChecksumDetects
CHECK_DEADLOCK FALSE
