SPECIFICATION Spec
CONSTANTS
  PerGroup = 2
  Features <- MCFeatures
  Leaves = {0, 1, 6, 7}
  SubLeaves = {0, 1, 2}
  Sentinel = 9
INVARIANTS
  InfoFresh
  VisitExact
CHECK_DEADLOCK FALSE
