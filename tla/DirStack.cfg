SPECIFICATION Spec
CONSTANTS
  MaxEntries = 4
  Limit = 3
  MaxPath = 2
  Elem = {"a", "b"}
  Search = {s1, s2}
  Inputs <- MCInputs
INVARIANTS
  TypeOK
  SplitsNested
PROPERTY
  ImplementsPathStack
