SPECIFICATION Spec
CHECK_DEADLOCK FALSE
CONSTANTS
  c1 = c1  c2 = c2  c3 = c3
  Callers <- MCCallers
  Kinds = {"ready", "listen", "listenPromise", "inject", "close"}
  OnReadyHooks = 2
  MayFail = {"load", "hook", "bind"}
  Return503OnClosing = TRUE
  RacingListens = FALSE
INVARIANT
  TypeOK
  OnReadyBeforeRequests
  CloseIsLast
  ListeningFlag
PROPERTY
  ClosedServesNothing
  AnsweredOnce
  CallsEnd
