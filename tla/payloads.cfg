SPECIFICATION FairSpec
CONSTANTS
  HookCount <- PayloadHooks
  Style <- AsyncPayloads
  Acts <- HandlerAnswers
  SendPayloads = {"object", "stream", "Error"}
  Replacements = {"string", "object"}
  Failures = {"Error"}
  Rejections <- AnyRejection
  Requests = {"plain"}
  MaxSends = 3
  CustomErrorHandler = TRUE
  Mishaps = {}
INVARIANTS
  ErrorHandlerOnce
  OnErrorAfterErrorHandler
  OnSendAtMostTwice
  ProcessKept
PROPERTIES
  RequestEnds
