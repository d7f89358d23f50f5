SPECIFICATION FairSpec
CONSTANTS
  p1 = p1
  p2 = p2
  p3 = p3
  p4 = p4
  Nobody = Nobody
  PID <- ThreePids
  Serial = TRUE
  Faults = {"crash", "inhibit", "inherit", "query"}
INVARIANTS
  TypeOK
  LockedWhileHeld
  SlotRecorded
PROPERTIES
  LockFreed
