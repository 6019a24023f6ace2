\* The shipped configuration: maxRetry=0 (ot_client.ini), one session per token.
CONSTANTS
  Calls = {c1, c2}
  Tokens = {t1, t2}
  DistinctTokens = TRUE
  MaxRetry = 0
  MaxChosen = 2
  NoSender = NoSender
  ReqLimitNum = 1
  MaxCrashes = 1
SPECIFICATION FairSpec
INVARIANTS
  TypeOK
  ChosenObtained
  SuccessFreesEntry
  LimitHonoured
PROPERTIES
  ImplementsTransfer
CHECK_DEADLOCK FALSE
