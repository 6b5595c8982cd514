CONSTANTS
  MaxInt = 7
  Fuel = 20
  MaxDepth = 6
  Expected <- MCMeaning
  Plain <- MCPlain
  MaxRuns = 1
  Requests = {}
  Modules <- MCUsingOwn
  Shape <- MCShape
  Value <- MCValue
  Builtins <- StdBuiltins
  BuiltinCall <- StdBuiltinCall
SPECIFICATION VMSpec
CHECK_DEADLOCK FALSE
INVARIANT SupportsListed
