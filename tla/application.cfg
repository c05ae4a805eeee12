SPECIFICATION Spec
CONSTANTS
  Topics <- AllTopics
  LifecycleHooks <- Hooks3
  RegExps = {"/v/"}
  Matches <- Patterns
  Covers <- Wildcards
  Sockets = {s1, s2}
  MaxId = 1
INVARIANTS
  TypeOK
  HooksReachRoutes
  SettingsCoverBody
  NotFoundHandlerOfLevel
  NotFoundHandlersKept
  HeadForEveryGet
  ParserFound
  SchemasReachRoutes
  RequirementsMet
  ErrorsReported
  IdsDistinct
PROPERTIES
  TimeoutReachesRequest
CHECK_DEADLOCK FALSE
