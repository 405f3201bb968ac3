SPECIFICATION Spec
CONSTANTS
  IntBits = 2
  Texts = {"first", "both", "second", "third", "neither"}
  Values <- MCValues
  Definitions <- MCDefinitions
  MaxSteps = 3
  MaxScenarios = 2
  NULL = NULL
INVARIANTS ParamsOfThisStep StringsAccounted StringsOwned ReasonShowsFailure ReasonTellsApart
PROPERTIES ImplementsAtomicSteps
