CONSTANTS
  Input <- MCInput
  Origin <- MCOrigin
SPECIFICATION Spec
CHECK_DEADLOCK FALSE
INVARIANTS TypeOK ReadsBack NothingDropped NotBeforeTheMistake RecoversAtSemicolon
PROPERTY GoodFilesEnd
