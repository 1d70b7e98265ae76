SPECIFICATION FairSpec
CONSTANTS
  Sizes <- MCSizes
  UInt32Max = 5
  SizeMaxes = {5, 20}
  Header = 2
  AnchorSize = 5
INVARIANTS
  Released
  DataWhole
  VersionTrusted
PROPERTIES
  Terminates
CHECK_DEADLOCK FALSE
