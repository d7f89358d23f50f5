SPECIFICATION Spec
CONSTANTS
  Second = 4
  Values = 32768
  Ints <- SomeInts
  Spans <- SomeSpans
  Clocks <- SomeClocks
  Nows <- SomeNows
  Lefts <- SomeLefts
INVARIANTS
  DeadlineAhead
  ShownIsClose
PROPERTIES
  ShownNeverGrows
CHECK_DEADLOCK FALSE
