SPECIFICATION UnixSpec
CONSTANTS
  p1 = p1
  p2 = p2
  p3 = p3
  Nobody = Nobody
  PID <- ThreePids
  Serial = TRUE
  Faults = {"crash", "write", "remove", "engage", "disengage", "query", "orphan", "deny"}
SYMMETRY PidSymmetry
INVARIANTS
  SlotInv
  OneHold
  SlotRecorded
