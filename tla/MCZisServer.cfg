\* Three starts of the server, each with any of three PARMLIB members, on a
\* new system or after an older and a later release; a caller, which keeps
\* nothing between calls.
SPECIFICATION Spec
CONSTANTS
  Callers = {c1}
  Parmlibs <- ParmsRestart
  LeftBehind <- LeftP
  Requests <- MCRequests
  DevModes = {FALSE, TRUE}
  MaxSessions = 3
  MaxCalls = 1
INVARIANTS
  ServesInstalled
  SpecificAuthEnforced
  ReadyTableExact
PROPERTIES
  RunningLpaCodeStays
  StableWhileReady
\* The bounds on starts and calls are used up.
CHECK_DEADLOCK FALSE
