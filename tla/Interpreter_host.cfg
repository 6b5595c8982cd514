CONSTANTS
  MaxInt = 7
  MaxDepth = 6
  MaxRuns = 3
  Requests <- MCHostRequests
  Modules <- MCHostModules
  Shape <- MCShape
  Value <- MCValue
  Builtins <- StdBuiltins
  BuiltinCall <- StdBuiltinCall
SPECIFICATION FairSpec
CHECK_DEADLOCK FALSE
INVARIANT Isolation
PROPERTY CallsEnd
