SPECIFICATION Spec
CONSTANTS
  MaxInt = 1
  Literals <- MCLiterals
  Shapes <- MCShapes
  Paths <- MCPaths
  MaxSlots = 3
  MaxCalls = 1
  MaxCells = 3
INVARIANT OneOwner
PROPERTY ImplementsSlots
