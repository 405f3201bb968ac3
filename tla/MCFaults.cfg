SPECIFICATION FairSpec
CONSTANTS
  r1 = r1
  r2 = r2
  NULL = NULL
  Runners = {r1, r2}
  Ids = {"1", "2", "3", "4"}
  Names = {"A", "B", "C"}
  Texts = {"given", "when", "then", "and"}
  Defs <- MCDefs
  Arguments <- MCOneFile
  Awaited = {r1, r2}
  Constructing = {r1, r2}
  Destructing = {r1, r2}
  Verbose = {r2}
  Quitting = {r1, r2}
  Crashing = {r1}
  AppCommands = {"STOP"}
  MaxPipe = 2
INVARIANT
  IInv
  Lockstep
  AssertionsHold
  RequestsUnderstood
  StatesBalanced
PROPERTY
  ImplementsTestRun
  ReturnsUnlessLost
  QuitEnds
CHECK_DEADLOCK FALSE
