SPECIFICATION Spec
CONSTANTS
  MaxLen = 7
  Payload = 4
  MaxEnqueue = 2
  Word = 8
  MaxWire = 9
  Lossy = FALSE
INVARIANT
  WholeFile
