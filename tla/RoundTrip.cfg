SPECIFICATION RFairSpec
CONSTANTS
  MaxEntries = 5
  MaxPath = 5
  OpenMax = 4
  Elem <- MCFields
  Root <- MCRoot
  Entry <- MCEntry
  Worlds <- MCWorlds
  Strays <- MCStrays
  LocalDir <- MCLocalDir
  Junk <- MCJunk
  MaxRuns = 2
INVARIANTS
  TypeOK
  MirrorsSource
  ConfirmedIsListed
  ParentFirst
  CompleteOnSuccess
  RTypeOK
  AsksForItsOwn
  RebuildsTree
  FailsForAReason
  StaysInBuffer
  OnlyIntoItsOwn
PROPERTIES
  FailureIsFinal
  Terminates
