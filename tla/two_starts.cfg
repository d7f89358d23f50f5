SPECIFICATION Spec
CONSTANTS
  p1 = p1
  p2 = p2
  p3 = p3
  Nobody = Nobody
  PID <- TwoPids
  Serial = FALSE
  Faults = {}
INVARIANTS
  OneHold
