\* Two imports, or one beside a backup, with a crash at any point.
SPECIFICATION FairSpec
CONSTANTS
  i1 = i1
  i2 = i2
  Import <- BothImports
  MaxCrashes = 1
  MaxWork = 2
  None = None
CHECK_DEADLOCK FALSE
INVARIANTS
  FilesStand
  OneJobPerImport
  PacksRestore
PROPERTY ImportsEnd
