SPECIFICATION Spec
CONSTANTS
  Topics <- OnlyRegExp
  LifecycleHooks <- Hooks3
  RegExps = {"/v/"}
  Matches <- Patterns
  Covers <- Wildcards
  Sockets = {s1}
  MaxId = 1
INVARIANTS
  ParserAsDocumented
CHECK_DEADLOCK FALSE
