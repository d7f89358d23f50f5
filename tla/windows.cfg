SPECIFICATION Spec
CONSTANTS
  p1 = p1
  p2 = p2
  p3 = p3
  Nobody = Nobody
  Serial = TRUE
  PID <- ThreePids
  Faults = {"crash", "write", "remove", "engage"}
  Users <- OwnAndDefault
SYMMETRY PidSymmetry
INVARIANTS
  TypeOK
  Recoverable
  SettingReturns
  StopSleeps
  HoldHolds
PROPERTIES
  TakenByStop
