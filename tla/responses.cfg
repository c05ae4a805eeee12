SPECIFICATION FairSpec
CONSTANTS
  HookCount <- ResponseHooks
  Style <- ResponseStyle
  Acts <- ResponseActs
  SendPayloads = {"string", "stream", "Error", "unserializable"}
  Replacements = {"stream"}
  Failures = {"Error"}
  Rejections <- AnyRejection
  Requests = {"raw", "parser", "refused", "badMethod", "invalid", "plain"}
  MaxSends = 3
  CustomErrorHandler = TRUE
  Mishaps = {"sourceError", "abort", "resError"}
INVARIANTS
  TypeOK
  FailureIsReported
  OnSendCovers
  HeadWrittenOnce
  OnResponseOnce
  HeadImpliesSent
PROPERTIES
  AnswerStopsRequest
  HijackHolds
  LifecycleOrder
  KeepsContract
