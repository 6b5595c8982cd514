SPECIFICATION Spec
CONSTANTS
  MaxInt = 20
  CharCode <- MCCharCode
  Alphabets <- MCAlphabets
  JsonValues <- MCJsonValues
  Modules <- MCModules
  Responses <- MCResponses
INVARIANTS
  TokensCover
  TokensLongest
  JsonReadsDenoted
  JsonReadBack
  EchoKeepsJson
  FileReadBack
  FileCutIsPrefix
  AnswerIsFramed
CHECK_DEADLOCK FALSE
