\* Three writers, and no other program writes to the disk.
SPECIFICATION DiskSpec
CONSTANTS
  Writer = {w1, w2, w3}
  Size = 7
  Minimum = 1
  MaxBytes = 3
  MaxOthers = 0
CHECK_DEADLOCK FALSE
INVARIANT GrantedIsHonoured
