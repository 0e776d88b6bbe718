\* Progress, under the fairness of FairSpec; a caller of another address
\* space, requests with a payload and a response buffer.
CONSTANTS
  c1 = c1
  c2 = c2
  f1 = f1
  Callers = {c1, f1}
  Foreign = {f1}
  RequestCount = 1
  CommAreas <- AllAreas
  Requests = {"WORK", "COMMAND", "TERM"}
  Payloads <- BothBuffers
  MaxRequests = 2
SPECIFICATION FairSpec
\* The address space ends and the callers have made all their requests.
CHECK_DEADLOCK FALSE
INVARIANTS
  AccessReleased
  NormalTermination
PROPERTIES
  EveryCallReturns
  TermHonoured
