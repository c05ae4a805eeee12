SPECIFICATION FairSpec
CONSTANTS
  HookCount <- OnePreParsing
  Style <- AsyncPreParsing
  Acts <- PreParsingRejects
  SendPayloads = {"string"}
  Replacements = {}
  Failures = {"Error"}
  Rejections <- WithUndefined
  Requests = {"plain"}
  MaxSends = 2
  CustomErrorHandler = FALSE
  Mishaps = {}
INVARIANTS
  FailureIsReported
