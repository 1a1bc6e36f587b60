SPECIFICATION Spec
CONSTANTS
  Size = 2
  Threads = {t1, t2, t3, t4, t5, t6}
  Jobs = {j1, j2, j3}
  Shutdowns = {TRUE, FALSE}
  None = None
INVARIANT GrowableSound
SYMMETRY Symmetry
