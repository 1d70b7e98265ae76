SPECIFICATION FieldsSpec
CONSTANTS
  Signatures <- MCSignatures
  MaxLength = 280
INVARIANTS
  FieldsAgree
\* The table has been shown.
CHECK_DEADLOCK FALSE
