\* Three runs of the server, each of which may make two pairs.
CONSTANTS
  Clients = {a, b}
  MaxCrashes = 2
SPECIFICATION KeySpec
INVARIANTS
  KeyTypeOK
  ClientsFit
PROPERTIES
  PairIsKept
