---------------------------- MODULE MCLifecycle ----------------------------
(***************************************************************************)
(* The instances of Lifecycle that TLC checks: how many hooks each chain   *)
(* has, how user code is written and what it may do.                       *)
(***************************************************************************)
EXTENDS Lifecycle

NoHooks == [c \in HookChains |-> 0]

Written(style) == [u \in UserFns |-> style]
Callbacks == Written({"sync"})

Errors == [u \in UserFns |-> {"Error"}]
AnyRejection ==
  [u \in UserFns |->
     IF u \in {"preParsing", "parser"} \cup PayloadChains THEN {"Error"} ELSE {"Error", "string", None}]

(* Only the handler and the error handler answer. *)
HandlerAnswers ==
  [u \in UserFns |->
     CASE u = "handler"      -> {"send", "value", "throw", "reject", "await", "awaitReply"}
       [] u = "errorHandler" -> {"send", "value", "await", "reject"}
       [] u = "preHandler"   -> {"reject", "await"}
       [] u \in PayloadChains -> {"next", "fail", "throw", "reject", "await"}
       [] OTHER              -> {"next"}]
AsyncPayloads ==
  [u \in UserFns |->
     CASE u = "preHandler"                                        -> {"async"}
       [] u \in PayloadChains \cup {"handler", "errorHandler"} -> {"async", "sync"}
       [] OTHER                                                  -> {"sync"}]
PayloadHooks ==
  [c \in HookChains |->
     CASE c \in {"onSend", "preHandler"} -> 2 [] c \in {"preSerialization", "onError"} -> 1 [] OTHER -> 0]

(* Anybody may answer, take the response over or give it up. *)
ResponseHooks ==
  [c \in HookChains |-> CASE c = "onRequest" -> 2 [] c = "preSerialization" -> 0 [] OTHER -> 1]
ResponseActs ==
  [u \in UserFns |->
     CASE u = "handler"      -> {"send", "again", "value", "throw", "defer", "hijack", "markSent",
                                 "notFound", "reject", "await", "awaitReply", "noContent"}
       [] u = "errorHandler" -> {"send", "value"}
       [] u = "onRequest"    -> {"next", "fail", "reject", "send", "again", "awaitReply",
                                 "hijack", "markSent"}
       [] u = "preValidation" -> {"next", "throw"}
       [] u = "preHandler"   -> {"next", "throw", "send", "defer", "again", "reject", "awaitReply"}
       [] u = "preParsing"   -> {"next", "fail", "throw", "reject", "send", "awaitReply"}
       [] u = "parser"       -> {"next", "fail", "throw", "defer", "await", "reject"}
       [] u = "onError"      -> {"next", "fail", "send"}
       [] OTHER              -> {"next", "fail"}]
EitherOf(S) == [u \in UserFns |-> IF u \in S THEN {"sync", "async"} ELSE {"sync"}]
ResponseStyle == EitherOf({"handler", "preHandler", "onRequest", "preParsing", "parser"})

(* For the runs that show a disagreement with the documentation: as little *)
(* user code as it takes.                                                  *)
OnePreHandler == [NoHooks EXCEPT !["preHandler"] = 1]
OnePreParsing == [NoHooks EXCEPT !["preParsing"] = 1]
PreHandlerAndSerialization == [OnePreHandler EXCEPT !["preSerialization"] = 1]

Only(f) == [u \in UserFns |-> IF u \in DOMAIN f THEN f[u] ELSE {}]
AsyncPreHandler == [Callbacks EXCEPT !["preHandler"] = {"async"}]
AsyncSerialization ==
  [Callbacks EXCEPT !["preHandler"] = {"async"}, !["preSerialization"] = {"async"}]
AsyncPreParsing == [Callbacks EXCEPT !["preParsing"] = {"async"}]

PreHandlerSends ==
  Only([handler |-> {"value"}, preHandler |-> {"send"}, preSerialization |-> {"next", "await"},
        errorHandler |-> {"send"}])
ErrorHandlerThrows == Only([handler |-> {"throw"}, errorHandler |-> {"throw"}])
PreParsingRejects == Only([handler |-> {"send"}, preParsing |-> {"reject"}])
WithUndefined == [u \in UserFns |-> {None}]
=============================================================================
