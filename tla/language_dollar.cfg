SPECIFICATION Spec
CONSTANTS
  Texts = {}
  Documents = {}
  Programs <- MCStringPrograms
  MaxFuel = 60
  Openers = {"{{", "${"}
INVARIANT DollarParsesBack
CHECK_DEADLOCK FALSE
