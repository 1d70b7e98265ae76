SPECIFICATION Spec
CONSTANTS
  Metadata <- SmbiosTypeInfo
  Layouts <- MCLayouts
  Headers <- MCHeaders
INVARIANT CommentedIsNamed
CHECK_DEADLOCK FALSE
