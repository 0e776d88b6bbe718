\* Two ZIS tasks, one pause element: slots are reused and run out.
CONSTANTS
  c1 = c1
  c2 = c2
  f1 = f1
  Callers = {c1, c2}
  Foreign = {}
  RequestCount = 1
  CommAreas <- NewAreas
  Requests = {"WORK", "TERM"}
  Payloads <- NoBuffer
  MaxRequests = 3
SPECIFICATION Spec
SYMMETRY CallerSymmetry
\* The address space ends and the callers have made all their requests.
CHECK_DEADLOCK FALSE
INVARIANTS
  TypeOK
  PETConserved
  PETExclusive
  TokenOwned
  HandledBeforeOK
  NoStrayTouch
