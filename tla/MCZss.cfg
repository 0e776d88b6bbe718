\* Two subtasks, one key, two values; a restart; two attempts for the key.
CONSTANTS
  t1 = t1
  t2 = t2
  Tasks = {t1, t2}
  Keys = {"k"}
  Values = {"v", "w"}
  MaxRequests = 2
  Configs <- AllConfigs
  GatewayKeys <- TwoKeys
  Tokens <- AllTokens
  MaxAttempts = 2
  MaxStarts = 2
SPECIFICATION Spec
\* ZSS has ended for good.
CHECK_DEADLOCK FALSE
INVARIANTS
  VerdictMatchesKey
PROPERTIES
  StorageIsKVStore
  WaitsEnd
