SPECIFICATION Spec
CONSTANTS
  Callbacks = {c1, c2}
  Usages <- MixedUsages
  MaxChanges = 3
  MaxExpiries = 0
INVARIANTS
  CaughtUp
CHECK_DEADLOCK FALSE
