SPECIFICATION FairSpec
CONSTANTS
  MaxLen = 7
  Payload = 4
  MaxEnqueue = 2
  Word = 8
  MaxWire = 9
  Lossy = TRUE
INVARIANTS
  TypeOK
  NoGap
  StoresTheRest
PROPERTIES
  Terminates
  ImplementsFileTransfer
