CONSTANT
  Input <- MCInput
SPECIFICATION Spec
CHECK_DEADLOCK FALSE
PROPERTY ParserEnds
