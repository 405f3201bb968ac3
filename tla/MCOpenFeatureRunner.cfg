SPECIFICATION OpenSpec
CONSTANTS
  r1 = r1
  r2 = r2
  NULL = NULL
  Runners = {r1, r2}
  Ids = {"1"}
  Names = {"A", "B"}
  Texts = {"given", "then"}
  Arguments <- MCArguments
  Awaited = {r1, r2}
  Answer <- MCAnswer
INVARIANT
  ChecksAnswers
  ResultIsJustified
PROPERTY Ends
