\* One client: its public key and two calls of setMessages.
CONSTANTS
  MaxPosts = 5
  Kinds <- MCKinds
  MaxChosen = 1
SPECIFICATION Spec
INVARIANTS
  TypeOK
  CompleteCallHoldsOldest
  InStep
  WrongNeedsFailure
CHECK_DEADLOCK FALSE
