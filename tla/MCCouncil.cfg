SPECIFICATION MembersSpec
CONSTANTS
  Members = {m1, m2, m3}
  MaxNumber = 3
  MaxTroubles = 1
  Sizes = {0, 1, 2}
INVARIANTS
  SeatsRightful
PROPERTY MembersLive
CHECK_DEADLOCK FALSE
