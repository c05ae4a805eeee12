SPECIFICATION Spec
CONSTANTS
  Topics <- OnlyNotFound
  LifecycleHooks <- Hooks3
  RegExps = {"/v/"}
  Matches <- Patterns
  Covers <- Wildcards
  Sockets = {s1}
  MaxId = 1
INVARIANTS
  CallNotFoundRunsPreHandler
CHECK_DEADLOCK FALSE
