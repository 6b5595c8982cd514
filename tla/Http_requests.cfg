CONSTANTS
  SizeMax = 15
  NoClient = NoClient
  NoResponse = NoResponse
  Handler = "handle"
  Target <- MCTarget
  Absolute <- MCAbsolute
  Outcome <- MCOutcome
  MaxBytes = 6
  BufferSize = 2
  Pieces = 2
  c1 = c1
  Client = {c1, c2}
  Scenarios <- MCScenarios
  AcceptMayFail = TRUE
SPECIFICATION PatientSpec
INVARIANTS TypeOK OwnAnswer WholeAnswer HandlersFit ConnectionLimit
PROPERTIES ImplementsService FramedIsAnswered EveryoneServed
CHECK_DEADLOCK FALSE
