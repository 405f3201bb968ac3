SPECIFICATION OpenSpec
CONSTANTS
  r1 = r1
  NULL = NULL
  Runners = {r1}
  Ids = {"1"}
  Names = {"A", "B"}
  Texts = {"given", "then"}
  Defs <- MCDefs
  Constructing = {r1}
  Destructing = {r1}
  Verbose = {}
  Quitting = {r1}
  Crashing = {}
  AppCommands = {}
  MaxPipe = 1
  OtherFrames = {"PING"}
  OtherMessages <- MCOtherMessages
  MaxSent = 3
INVARIANT
  HandledInOrder
  DiesOfUnscopedStep
  StatesAccounted
PROPERTY
  RequestsHandled
  QuitEndsUnlessReading
CHECK_DEADLOCK FALSE
