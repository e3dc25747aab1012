SPECIFICATION Spec
CONSTANTS
  Texts <- MCTexts
  Documents <- MCDocuments
  Programs <- MCPrograms
  MaxFuel = 60
  Openers = {"{{"}
INVARIANTS
  LongestTokens
  JsonRoundTrip
  ParsesBack
  
  CaughtOnce
  FixedFoundEarly
  Dispatch
  ListsAreSequences
CHECK_DEADLOCK FALSE
