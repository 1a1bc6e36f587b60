SPECIFICATION ServerSpec
CONSTANTS
  FrameLengths = {1, 2, 3, 5}
  MaxFrames = 3
  MaxBytes = 15
  Header = 2
  Commands = {c1, c2}
  Failing = {{}, {c1}}
  Linkages = {l1, l2}
  Owned = {l1}
  Timers = {t1}
  Polite = TRUE
  Interfaces = {a, b}
  Fds = {1, 2, 3}
  CredentialsFail = FALSE
  Callers = {r1, r2}
  Addresses = {1, 2}
  Refresh = 0
  Expiry = 1
  ClearAnytime = FALSE
  MaxTime = 3
  MaxEntries = 2
  Listeners = {"l1", "l2"}
  EasyTimers = {"t1", "t2"}
  IoWorkers = {"w1", "w2"}
  JobWorkers = 1
  AttachFails = FALSE
  Careful = TRUE
INVARIANTS
  Framing
  
  
  DescriptorsOwned
  
PROPERTIES
  QuitsUnlessFailing
  
CHECK_DEADLOCK FALSE
