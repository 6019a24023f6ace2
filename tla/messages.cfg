\* Two messages of each generated class, two accessor calls and one wire between them.
CONSTANTS
  Addr <- MCAddr
  r1 = r1
  r2 = r2
  Roots <- MCRoots
  Kinds = {"Response", "Error", "OTServiceData", "Bytes", "Fields", "OTServerRequest",
           "OTServerResponse", "OTServerResponseWrapper", "OTClientRequest",
           "OTClientResponse", "OTClientResponseWrapper"}
  Texts <- MCTexts
  Numbers <- MCNumbers
  ExtraFields <- MCExtraFields
  MaxItems = 2
  MaxEdits = 2
  MaxTransfers = 1
SPECIFICATION Spec
INVARIANTS
  TypeOK
  OneOwner
  SizeIsLength
PROPERTIES
  ImplementsProto
SYMMETRY RootsAlike
