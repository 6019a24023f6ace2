\* One call of setMessages.
CONSTANTS
  MaxPosts = 3
  Kinds <- MCKinds
  MaxChosen = 1
SPECIFICATION Spec
INVARIANT ChosenObtained
CHECK_DEADLOCK FALSE
