SPECIFICATION Spec
CONSTANTS
  p1 = p1
  p2 = p2
  p3 = p3
  Nobody = Nobody
  Serial = TRUE
  PID <- TwoPids
  Faults = {"query"}
  Users <- OwnSetting
PROPERTIES
  RefusalHarmless
