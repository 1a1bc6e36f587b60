SPECIFICATION LinkagesSpec
CONSTANTS
  Ssl = TRUE
  Lengths = {1, 2, 3}
  kMaximumBytes = 2
  MaxBytes = 5
  Workers = {"w1", "w2"}
  Callers = {"c1"}
  MaxJobs = 3
  AnyWorker = "any"
INVARIANTS
  StreamIntegrity
  Attentive
  RetrySameWrite
  PlainSound
  HashedInOrder
  
PROPERTY LinkagesLive
