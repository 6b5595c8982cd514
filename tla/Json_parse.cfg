SPECIFICATION Spec
CONSTANTS
  MaxInt = 20
  CharCode <- MCCharCode
  Alphabets <- MCAlphabets
  JsonValues <- MCJsonValues
  Modules <- MCModules
  Responses <- MCResponses
INVARIANT JsonRoundTrips
CHECK_DEADLOCK FALSE
