SPECIFICATION Spec
CONSTANTS
  MaxEntries = 5
  MaxPath = 5
  OpenMax = 4
  Elem <- MCElem
  Root <- MCRoot
  Entry <- MCEntry
  Worlds <- MCWorlds
  Strays <- MCStrays
INVARIANT
  SentMeansDone
