CONSTANTS
  MaxInt = 7
  Fuel = 20
  MaxDepth = 6
  Expected <- MCMeaning
  Plain <- MCPlain
  MaxRuns = 1
  Requests = {}
  Modules <- MCAllPrograms
  Shape <- MCShape
  Value <- MCValue
  Builtins <- StdBuiltins
  BuiltinCall <- StdBuiltinCall
SPECIFICATION VMSpec
CHECK_DEADLOCK FALSE
INVARIANTS VMVerified Conforms
PROPERTIES VMCallsEnd StepsAlike
