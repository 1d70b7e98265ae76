SPECIFICATION ParseSpec
CONSTANTS
  RecordSize = 24
  Word = 2
  MaxRecords = 3
  Bit <- MCBit
  Inputs <- MCInputs
INVARIANTS
  SnapshotExact
  FeatureExact
CHECK_DEADLOCK FALSE
