SPECIFICATION Spec
CONSTANTS
  p1 = p1
  p2 = p2
  p3 = p3
  Nobody = Nobody
  PID <- ThreePids
  Serial = TRUE
  Faults = {"slow"}
PROPERTIES
  SupersededHandsOff
