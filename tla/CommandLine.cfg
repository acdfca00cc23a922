SPECIFICATION Spec
CONSTANTS
  Arguments <- MCArguments
  MaxArgs = 5
INVARIANTS
  TypeOK
  RunsWhatWasAsked
  RefusesOnlyBad
