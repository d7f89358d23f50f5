SPECIFICATION Spec
CONSTANTS
  c1 = c1
  c2 = c2
  Cmd <- TwoCmds
  Serial = FALSE
  Faults = {"temp", "short", "sudo", "edit", "kill"}
INVARIANTS
  LockoutSafe
