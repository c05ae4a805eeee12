SPECIFICATION FairSpec
CONSTANTS
  HookCount <- OnePreHandler
  Style <- AsyncPreHandler
  Acts <- ErrorHandlerThrows
  SendPayloads = {"string"}
  Replacements = {}
  Failures = {"Error"}
  Rejections <- Errors
  Requests = {"plain"}
  MaxSends = 2
  CustomErrorHandler = TRUE
  Mishaps = {}
INVARIANTS
  ProcessKept
