SPECIFICATION DecodeSpec
CONSTANT
  Processors <- MCProcessors
INVARIANT
  FeaturesAgree
\* The program has ended.
CHECK_DEADLOCK FALSE
