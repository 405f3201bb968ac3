SPECIFICATION Spec
CONSTANTS
  a1 = a1
  a2 = a2
  a3 = a3
  b2 = b2
  b3 = b3
  c3 = c3
  NULL = NULL
  Programs <- MCPrograms
  Given <- MCGiven
  Cells = {1, 2}
  Careless = {"clock"}
  Verbosely = TRUE
INVARIANTS FunctionsAsGiven ArgsOwned OnlyReadyActorsGreet
PROPERTIES ImplementsHandover
