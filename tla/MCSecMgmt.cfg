SPECIFICATION FairSpec
CONSTANTS
  Tasks = {t1, t2}
  Profiles = {1, 2, 3, 4}
  Groups = {11, 12, 13}
  Users <- MCUsers
  UserTypes <- MCUserTypes
  Supported = {1, 2, 3, 11, 12}
  Prefixed = {2, 3, 4}
  DefaultSize = 1
  MaxSize = 2
  PageSize = 2
  Count = 2
  PerLine = 1
  Managers = {"RACF", "TSS"}
  Databases <- MCDatabases
  Requests <- MCRequests
  MaxRequests = 3
INVARIANT ChangeEffective
INVARIANT RowsWhole
INVARIANT ScanComplete
PROPERTY ChangeAsAsked
PROPERTY RequestsAnswered
CHECK_DEADLOCK FALSE
