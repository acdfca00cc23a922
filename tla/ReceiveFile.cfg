SPECIFICATION FairSpec
CONSTANTS
  MaxLen = 5
  Payload = 2
  Window = 3
INVARIANTS
  TypeOK
  KeepsWhatArrived
PROPERTIES
  Terminates
  ImplementsFileTransfer
