CONSTANTS
  Bits <- MCBits
  Messages <- MCMessages
  Randoms <- MCRandoms
  Keys <- MCKeys
  Ciphertexts <- MCCiphertexts
  Junk <- MCJunk
  ReqLimitNum = 2
SPECIFICATION Spec
INVARIANTS
  TypeOK
  ChosenArriveIfTailSurvives
  ModesAgree
CHECK_DEADLOCK FALSE
