\* Two requests pass the search for the file before either adds it.
CONSTANTS
  t1 = t1
  t2 = t2
  u1 = u1
  u2 = u2
  Threads = {t1, t2}
  Users = {u1, u2}
  Names = {"f1"}
  TIMEOUT_TIME = 2
  UINT_RANGE = 100
  MaxTime = 2
  OverlapFrom = 0
  MaxSessions = 2
  MaxChunks = 1
SPECIFICATION Spec
SYMMETRY Symmetry
\* The bounds on time and sessions are used up.
CHECK_DEADLOCK FALSE
INVARIANTS
  OneUploadPerFile
