SPECIFICATION Spec
CONSTANTS
  In = {i1}
  Out = {o1}
  Users = {u1}
  Maximum = 2
  Rejects = FALSE
  ReleasedDoes = {"forget", "send"}
  FailedDoes = {"forget"}
  MaxLinkages = 3
  MaxMessages = 2
INVARIANTS
  RegistriesSound
  SentInOrder
CHECK_DEADLOCK FALSE
