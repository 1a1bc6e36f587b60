SPECIFICATION FairSpec
CONSTANTS
  Jobs = {j1, j2, j3, j4}
  Threads = {t1, t2, t3}
  NoJob = NoJob
INVARIANTS
  FixedSound
PROPERTY PoolsLive
