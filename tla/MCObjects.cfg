SPECIFICATION ObjectsSpec
CONSTANTS
  Keys = {1, 2}
  Objects <- MCObjectSet
  Holders <- MCHolders
  None = None
  Users = {a, b}
  Made = {o1, o2, o3}
  MaxIdle = 1
  Threads = {"t1"}
  Seqs = {"s1", "s2"}
  j1 = j1
  j2 = j2
  j3 = j3
  j4 = j4
  Jobs <- MCJobs
  Key <- MCKey
  Size = 2
  NoJob = NoJob
INVARIANTS
  MapSafe
  RouterSound
  PoolSound
  KeyedSound
PROPERTY ObjectsLive
CHECK_DEADLOCK FALSE
