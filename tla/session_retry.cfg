\* One call with maxRetry=2: up to six connections, any of them still being
\* handled while the next is tried.
CONSTANTS
  Calls = {c1}
  Tokens = {t1}
  DistinctTokens = TRUE
  MaxRetry = 2
  MaxChosen = 2
  NoSender = NoSender
  ReqLimitNum = 1
  MaxCrashes = 1
SPECIFICATION FairSpec
INVARIANTS
  GarbageNeedsDuplicate
  ErrorHasCause
PROPERTIES
  CallEnds
CHECK_DEADLOCK FALSE
