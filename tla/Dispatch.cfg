SPECIFICATION Spec
CONSTANTS
  Inputs <- MCInputs
  Changes <- MCChanges
  NoInput = NoInput
  MaxTries = 2
  MaxChanges = 1
INVARIANTS TypeOK SameEventEitherWay RerunRunsItsJob OneReporter NotAllowedGetsNothing TaskFindsRow
