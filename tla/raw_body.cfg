SPECIFICATION Spec
CONSTANTS
  Limit = 3
  ContentLengths <- Lengths
  Chunks <- AnyChunks
  MaxChunks = 4
INVARIANTS
  TypeOK
  ParsedWithinLimit
  ParsedAsDeclared
PROPERTIES
  OneOutcome
  Answered
CHECK_DEADLOCK FALSE
