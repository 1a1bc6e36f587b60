SPECIFICATION ZooSpec
CONSTANTS
  Callbacks = {c1, c2}
  Usages <- MCUsages
  MaxChanges = 3
  MaxExpiries = 1
  Pendings = {"p1", "p2"}
  Careful = TRUE
  MaxSessions = 2
  Members = {"n1", "n2"}
  Watchers = {"n2"}
  MaxNumber = 3
  MaxTroubles = 2
INVARIANTS
  TrackerSound
  
  NamesOwned
SYMMETRY Symmetry
CHECK_DEADLOCK FALSE
