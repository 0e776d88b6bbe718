\* Two subtasks of one server.
CONSTANTS
  t1 = t1
  t2 = t2
  Tasks = {t1, t2}
  SpaceOf <- OneSpace
  Datasets = {"A"}
  Members = {"m1"}
  Texts = {"x", "y"}
  Kinds <- Sequential
  Ops = {"update"}
  MaxRequests = 2
SPECIFICATION Spec
SYMMETRY Symmetry
\* The bound on requests is used up.
CHECK_DEADLOCK FALSE
INVARIANTS
  NoStaleWrite
