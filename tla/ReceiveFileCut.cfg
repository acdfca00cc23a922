SPECIFICATION Spec
CONSTANTS
  MaxLen = 5
  Payload = 2
  Window = 3
INVARIANT
  WholeFile
