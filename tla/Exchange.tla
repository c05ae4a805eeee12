------------------------------ MODULE Exchange ------------------------------
(***************************************************************************)
(* The state of one request and its response: the Reply object            *)
(* (lib/reply.js), the raw http response under it, the route context the   *)
(* request is served with, and a record of what has happened so far that   *)
(* the properties are stated over.                                         *)
(***************************************************************************)
EXTENDS EventLoop

CONSTANTS
  HookCount,        \* how many hooks the context has in each chain
  Style,            \* the ways each user function may be written
  Acts,             \* what each user function may do
  SendPayloads,     \* what user code sends or returns
  Replacements,     \* what the payload hooks replace a payload with
  Failures,         \* what user code throws or passes as an error
  Rejections,       \* what a promise of each user function is rejected with
  Requests,         \* the kinds of request (see HandleRequest)
  MaxSends,         \* bound on the reply.send() calls of user code
  CustomErrorHandler, \* setErrorHandler was called
  Mishaps           \* what may go wrong outside of the program

RequestChains == {"onRequest", "preParsing", "preValidation", "preHandler"}
PayloadChains == {"preSerialization", "onSend", "onError"}
HookChains == RequestChains \cup PayloadChains \cup {"onResponse"}
UserFns == HookChains \cup {"parser", "handler", "errorHandler"}

ActNames == {"next", "fail", "throw", "send", "again", "value", "defer", "await",
             "reject", "awaitReply", "hijack", "markSent", "notFound",
             "noContent"}

Fns == {"user", "hookNext", "handleReject", "preParsingNext", "sendNext",
        "cbTry", "routeHandler", "runPreParsing", "handleRequest", "bodyDone",
        "handler", "handlerTry", "preValidationCallback",
        "preHandlerCallback", "fulfilled", "rejected", "thenTry", "send",
        "preserializeHookEnd", "onSendHook", "wrapOnSendEnd", "onSendEnd",
        "writeHead", "onErrorHook", "handleError", "notFound",
        "onResponseCallback", "awaitReply", "eos", "pipe", "rawBody", "rawEnd"}

(* A frame of a hook runner works for a hook chain, the frame of a user     *)
(* function, or of its promise, for that function.                         *)
RunnerFns == {"hookNext", "handleReject", "preParsingNext", "sendNext", "cbTry"}

Frame ==
  {t \in FrameOf(Fns, UserFns \cup {"none"}) :
     /\ t.fn \in RunnerFns => t.c \in HookChains
     /\ t.fn \in {"user", "awaitReply", "eos"} => t.c \in UserFns}

ASSUME HooksAssumption == HookCount \in [HookChains -> Nat]
ASSUME UserAssumption ==
  /\ Style \in [UserFns -> SUBSET {"sync", "async"}]
  /\ Acts \in [UserFns -> SUBSET ActNames]
ASSUME PayloadAssumption ==
  /\ SendPayloads \subseteq Payload \ {None}
  /\ Replacements \subseteq Payload
  /\ Failures \subseteq {"Error", "string"}
  /\ Rejections \in [UserFns -> SUBSET {"Error", "string", None}]
ASSUME RequestAssumption ==
  /\ Requests \subseteq {"plain", "raw", "parser", "refused", "badMethod", "invalid"}
  /\ MaxSends \in Nat
  /\ CustomErrorHandler \in BOOLEAN
  /\ Mishaps \subseteq {"abort", "resError", "sourceError"}

VARIABLES
  reply,   \* the flags of the Reply object
  res,     \* the raw response
  ctx,     \* reply.context: that of the route, or its 404 context
  did      \* history, read by the properties and by the bound on sends only

request == <<reply, res, ctx, did>>
vars == <<loop, request>>

Statuses == {"ok", "noContent", "error"}   \* error is 400 and above

ReplyType ==
  [sent : BOOLEAN, overwritten : BOOLEAN, isError : BOOLEAN,
   ehCalled : BOOLEAN, onErr : BOOLEAN]

(* code is res.statusCode, head the status that writeHead sent to the      *)
(* client, listening whether the onResponse listeners are attached.        *)
ResType ==
  [code : Statuses, head : Statuses \cup {"none"}, ended : BOOLEAN,
   finished : BOOLEAN, closed : BOOLEAN, listening : BOOLEAN]

(* sends counts the reply.send() calls of user code; answered is set when  *)
(* one of them is accepted; failed when user code fails before that;       *)
(* hijacked when user code takes the raw response over; phase and hook are *)
(* the last request-phase user function called; the other fields count     *)
(* calls of the error handler and starts of the onSend and onResponse      *)
(* chains.                                                                 *)
DidType ==
  [sends : Nat, answered : BOOLEAN, failed : BOOLEAN, hijacked : BOOLEAN,
   phase : Nat, hook : Nat, errorHandler : Nat, onSend : Nat,
   onResponse : Nat]

ExchangeInit ==
  /\ reply = [sent |-> FALSE, overwritten |-> FALSE, isError |-> FALSE,
              ehCalled |-> FALSE, onErr |-> FALSE]
  /\ res = [code |-> "ok", head |-> "none", ended |-> FALSE,
            finished |-> FALSE, closed |-> FALSE, listening |-> FALSE]
  /\ ctx = "route"
  /\ did = [sends |-> 0, answered |-> FALSE, failed |-> FALSE,
            hijacked |-> FALSE, phase |-> 0, hook |-> 0, errorHandler |-> 0,
            onSend |-> 0, onResponse |-> 0]

(* The order of docs/Lifecycle.md; what callNotFound runs comes last. *)
Phase(c) ==
  CASE c = "onRequest"     -> 1
    [] c = "preParsing"    -> 2
    [] c = "parser"        -> 3
    [] c = "preValidation" -> 4
    [] c = "preHandler"    -> IF ctx = "route" THEN 5 ELSE 7
    [] c = "handler"       -> IF ctx = "route" THEN 6 ELSE 8
    [] OTHER               -> 0

(* The history after user function number i of c is called. *)
Calls(c, i) ==
  did' = [did EXCEPT !.phase = IF Phase(c) > 0 THEN Phase(c) ELSE @,
                     !.hook = IF Phase(c) > 0 THEN i ELSE @,
                     !.errorHandler = IF c = "errorHandler" THEN @ + 1 ELSE @]

(* A user function about to run: synchronously, or as an async function. *)
User(t, c, i, style) ==
  [t EXCEPT !.fn = "user", !.c = c, !.i = i, !.m = style, !.done = FALSE]

(* Some versions of Node.js turn raw.writable off when the client goes     *)
(* away: reading it then gives either value.                               *)
NotWritable(w) == res.ended \/ (res.closed /\ w)
=============================================================================
