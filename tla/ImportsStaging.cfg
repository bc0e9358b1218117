\* One import whose rename fails.
SPECIFICATION Spec
CONSTANTS
  i1 = i1
  i2 = i2
  Import <- OneImport
  MaxCrashes = 0
  MaxWork = 1
  None = None
CHECK_DEADLOCK FALSE
INVARIANT StagingIsCleaned
