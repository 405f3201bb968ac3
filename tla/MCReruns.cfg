SPECIFICATION RerunsSpec
CONSTANTS
  r1 = r1
  r2 = r2
  NULL = NULL
  Runners = {r1}
  Ids = {"1", "2", "3", "4"}
  Names = {"A", "B", "C"}
  Texts = {"given", "when", "then", "and"}
  Defs <- MCDefs
  Arguments <- MCOneFile
  Awaited = {r1}
  Constructing = {r1}
  Destructing = {r1}
  Verbose = {r1}
  Quitting = {}
  Crashing = {}
  AppCommands = {}
  MaxPipe = 1
  MaxLives = 3
INVARIANTS AssertionsHold RerunFollowsScript OneStateLostPerRun
PROPERTIES RerunReturnsUnlessUnheard
CHECK_DEADLOCK FALSE
