SPECIFICATION FairSpec
CONSTANTS
  r1 = r1
  r2 = r2
  NULL = NULL
  Runners = {r1, r2}
  Ids = {"1", "2", "3", "4"}
  Names = {"A", "B", "C"}
  Texts = {"given", "when", "then", "and"}
  Defs <- MCDefs
  Arguments <- MCWithBroken
  Awaited = {r1, r2}
  Constructing = {r1}
  Destructing = {r1}
  Verbose = {}
  Quitting = {}
  Crashing = {}
  AppCommands = {}
  MaxPipe = 1
PROPERTY
  RunReturns
