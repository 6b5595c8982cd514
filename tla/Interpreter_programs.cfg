CONSTANTS
  MaxInt = 7
  Fuel = 20
  MaxDepth = 6
  Expected <- MCMeaning
  Sound <- MCSound
  Reported <- MCReported
  Parsed <- MCParsed
  Modes = {"check", "ast", "ir", "bytecode", "run"}
  Signatures <- StdSignatures
  MaxRuns = 1
  Requests = {}
  Modules <- MCFiles
  Shape <- MCStacks
  Value <- MCValue
  Builtins <- StdBuiltins
  BuiltinCall <- StdBuiltinCall
SPECIFICATION DriverSpec
CHECK_DEADLOCK FALSE
INVARIANTS TypeOK Verified ShapeHolds NoStructuralError Agrees
           AcceptsOnlyWellTyped AcceptsAllWellTyped TypeSafe
PROPERTY CommandReturns
