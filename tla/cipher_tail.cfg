\* The same inputs as cipher.cfg, ciphertexts that end in a zero byte included.
CONSTANTS
  Bits <- MCBits
  Messages <- MCMessages
  Randoms <- MCRandoms
  Keys <- MCKeys
  Ciphertexts <- MCCiphertexts
  Junk <- MCJunk
  ReqLimitNum = 2
SPECIFICATION Spec
INVARIANT ChosenArrive
CHECK_DEADLOCK FALSE
