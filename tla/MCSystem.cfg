SPECIFICATION SystemSpec
CONSTANTS
  Lockers = {a, b, c}
  Daemons = {d1, d2}
  Consoles = {d2}
  Controls = {c1}
  Good = 1
  PollLimit = 1
  Attempts = 1
  MaxLives = 2
  MaxInodes = 2
  Signals = {"TERM", "HUP"}
  QueueSize = 2
  MaxSends = 2
  Configurations <- MCConfigurations
  Callers = {"a", "b"}
  Milliseconds = 1
  Count = 2
  MaxCredit = 1
  Alone = TRUE
  Top = "t"
  Path <- MCPath
  Parent <- MCParent
  Outside = {"o"}
  Buffer = 2
  MaxSwaps = 1
  MaxBody = 3
  MaxFilters = 2
  Workers = {"w1", "w2"}
  Requests = {"r1", "r2"}
  Disposition = "external"
  Timely = TRUE
INVARIANTS
  LockSound
  InstancesExclude
  RestartsCounted
  
  
  
  DecimalsExact
  PathsKept
  
  RequestsApart
 
CHECK_DEADLOCK FALSE
