\* Two handler threads, one of them reading two keys.
CONSTANTS
  Handlers = {h1, h2}
  Keys <- MCKeys
  Types <- MCTypes
  Strings <- MCStrings
  Hashes <- MCHashes
  h1 = h1
  h2 = h2
  Asked <- MCAsked
  ErrorText <- MCErrorText
  Garbage <- MCGarbage
  NoText = NoText
  MaxReplies = 2
  MaxWrites = 1
SPECIFICATION Spec
INVARIANTS
  TypeOK
  InStep
  RepliesFreed
  FieldsArrive
PROPERTIES
  MessagesAreHeld
  CallEnds
