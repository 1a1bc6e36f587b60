SPECIFICATION Spec
CONSTANTS
  In = {i1}
  Out = {o1}
  Users = {u1}
  Maximum = 3
  Rejects = TRUE
  ReleasedDoes = {"forget"}
  FailedDoes = {}
  MaxLinkages = 2
  MaxMessages = 1
INVARIANT NoDangling
CHECK_DEADLOCK FALSE
