SPECIFICATION Spec
CONSTANTS
  Limit = 3
  ContentLengths <- Lengths
  Chunks <- AnyChunks
  MaxChunks = 4
INVARIANTS
  ParsedWithinBytes
CHECK_DEADLOCK FALSE
