\* The default maxRetry is 3; one retry is enough.
CONSTANTS
  Calls = {c1}
  Tokens = {t1}
  DistinctTokens = TRUE
  MaxRetry = 1
  MaxChosen = 1
  NoSender = NoSender
  ReqLimitNum = 1
  MaxCrashes = 0
SPECIFICATION Spec
INVARIANT ChosenObtained
CHECK_DEADLOCK FALSE
