CONSTANTS
  MaxInt = 7
  MaxDepth = 2
  MaxRuns = 1
  Requests = {}
  Modules <- MCModules
  Shape <- MCShape
  Value <- MCValue
  Builtins <- StdBuiltins
  BuiltinCall <- StdBuiltinCall
SPECIFICATION Spec
CHECK_DEADLOCK FALSE
INVARIANT ShapedCodeIsSafe
