\* No retry, no crash: a single call within the limit is refused.
CONSTANTS
  Calls = {c1}
  Tokens = {t1}
  DistinctTokens = TRUE
  MaxRetry = 0
  MaxChosen = 1
  NoSender = NoSender
  ReqLimitNum = 1
  MaxCrashes = 0
SPECIFICATION Spec
INVARIANT RefusedOutsideLimit
CHECK_DEADLOCK FALSE
