\* Two servers, whose requests may overlap.
CONSTANTS
  t1 = t1
  t2 = t2
  Tasks = {t1, t2}
  SpaceOf <- TwoSpaces
  Datasets = {"A", "B"}
  Members = {"m1"}
  Texts = {"x"}
  Kinds <- MixedKinds
  Ops = {"read", "update", "delete", "create", "copy"}
  MaxRequests = 2
SPECIFICATION Spec
SYMMETRY Symmetry
\* The bound on requests is used up.
CHECK_DEADLOCK FALSE
INVARIANTS
  NoStaleWrite
  CopyKeepsExisting
  AllocationsReleased
