\* Two starts of the server with any of five PARMLIB members, after an
\* earlier release or on a new system; calls made in the first session.
SPECIFICATION Spec
CONSTANTS
  Jcls <- MCJcls
  Members <- MCMembers
  MaxRecord = 8
  MaxSessions = 2
  Versions = {1, 2}
  LeftVectors = {0, 1, 3}
  Requests <- MCRequests
  Classes = {"ZOWE", "OTHER", "notRead", "tooLong"}
  LastCalled = 1
INVARIANTS
  
  ReadyVectorUsable
  LinkageSurvives
  VerdictFromSAF
  ResourcesReturned
\* The bound on starts is used up.
CHECK_DEADLOCK FALSE
