\* Two connections and two threads.
CONSTANTS
  Threads = {t1, t2}
  Inputs <- MCInputs
  ReadSizes = {10, 99}
  MaxErrors = 1
SPECIFICATION Spec
INVARIANTS
  TypeOK
  VerdictsAreTheGrammars
  OneChainEach
PROPERTIES
  StopReturns
CHECK_DEADLOCK FALSE
