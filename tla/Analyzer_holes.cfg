CONSTANTS
  MaxInt = 7
  Fuel = 20
  MaxDepth = 6
  Expected = {}
  Sound = {}
  Reported <- MCHoleReports
  Parsed = {1}
  Modes = {"run"}
  Signatures <- StdSignatures
  MaxRuns = 1
  Requests = {}
  Modules <- MCHoleCode
  Shape <- MCHoleStacks
  Value <- MCHoleValue
  Builtins <- StdBuiltins
  BuiltinCall <- StdBuiltinCall
SPECIFICATION DriverSpec
CHECK_DEADLOCK FALSE
INVARIANT TypeSafe
