SPECIFICATION Spec
CONSTANTS
  Metadata <- SmbiosTypeInfo
  Layouts <- MCLayouts
  Headers <- MCHeaders
INVARIANTS
  CopiesInside
  ReadersAgree
  DeclaredIsShown
  NamesExact
\* The structure has been shown.
CHECK_DEADLOCK FALSE
