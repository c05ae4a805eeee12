SPECIFICATION FairSpec
CONSTANTS
  HookCount <- PreHandlerAndSerialization
  Style <- AsyncSerialization
  Acts <- PreHandlerSends
  SendPayloads = {"object"}
  Replacements = {}
  Failures = {"Error"}
  Rejections <- Errors
  Requests = {"plain"}
  MaxSends = 2
  CustomErrorHandler = FALSE
  Mishaps = {}
PROPERTIES
  AnswerStopsRequest
