----------------------------- MODULE Lifecycle -----------------------------
(***************************************************************************)
(* One request from the router to the end of its response: routeHandler    *)
(* (lib/route.js), handleRequest (lib/handleRequest.js), the body parser   *)
(* (lib/contentTypeParser.js), wrapThenable (lib/wrapThenable.js), with    *)
(* the hook runners, the Reply and user code of the modules below.         *)
(***************************************************************************)
EXTENDS UserCode

(* routeHandler, once the router found the route *)
RouteHandler ==
  /\ Running("routeHandler")
  /\ res' = [res EXCEPT !.listening = HookCount["onResponse"] > 0]
  /\ Goto(StartChain(Top, "onRequest"))
  /\ UNCHANGED <<reply, ctx, did>>

-----------------------------------------------------------------------------
RunPreParsing ==
  /\ Running("runPreParsing")
  /\ ~reply.sent /\ Top.e = None
  /\ Goto(StartChain(Top, "preParsing"))
  /\ UNCHANGED request

(* What the callbacks of the request chains do first; the later two also   *)
(* stop when the raw response is over.                                     *)
CallbackDropped ==
  \/ /\ Running("runPreParsing") \/ Running("handleRequest")
     /\ reply.sent
     /\ Return
     /\ UNCHANGED request
  \/ /\ Running("preValidationCallback") \/ Running("preHandlerCallback")
     /\ \E w \in BOOLEAN : reply.sent \/ NotWritable(w)
     /\ Return
     /\ UNCHANGED request

CallbackFails ==
  /\ \/ Running("runPreParsing") \/ Running("handleRequest")
     \/ /\ Running("preValidationCallback") \/ Running("preHandlerCallback")
        /\ \E w \in BOOLEAN : ~NotWritable(w)
  /\ ~reply.sent /\ Top.e # None
  /\ Goto([Top EXCEPT !.fn = "send", !.p = Top.e])
  /\ UNCHANGED request

-----------------------------------------------------------------------------
(* handleRequest, by what the request is: without a body to parse, with a  *)
(* body that is collected and then parsed ("raw"), with one a parser of    *)
(* the application reads itself ("parser"), with one that is refused before *)
(* it is read (no parser for the content type, or a content-length above   *)
(* the limit), of a method that takes none of these ways ("badMethod"), or *)
(* one whose content the schema refuses ("invalid").                       *)

Handling(kind) ==
  /\ Running("handleRequest")
  /\ ~reply.sent /\ Top.e = None
  /\ kind \in Requests

HandleWithoutBody ==
  /\ Handling("plain") \/ Handling("invalid")
  /\ Goto([Top EXCEPT !.fn = "handler"])
  /\ UNCHANGED request

HandleRefused ==
  /\ Handling("refused")
  /\ Goto([Top EXCEPT !.fn = "send", !.p = "Error"])
  /\ UNCHANGED request

HandleBadMethod ==
  /\ Handling("badMethod")
  /\ res' = [res EXCEPT !.code = "error"]
  /\ Goto([Top EXCEPT !.fn = "send", !.p = "Error"])
  /\ UNCHANGED <<reply, ctx, did>>

HandleCustomParser ==
  /\ Handling("parser")
  /\ \E s \in Style["parser"] : Goto(User(Top, "parser", 0, s))
  /\ Calls("parser", 0)
  /\ UNCHANGED <<reply, res, ctx>>

(* rawBody, seen from outside (module RawBody has its events) *)
HandleRawBody ==
  /\ Handling("raw")
  /\ Leave([Top EXCEPT !.fn = "rawBody"])
  /\ UNCHANGED request

RawBodyDone ==
  /\ \E j \in jobs, err \in {None, "Error"} :
       /\ j.fn = "rawBody"
       /\ StartTurn("callback", j, BodyDone(j, err))
  /\ UNCHANGED request

(* the error event of the request stream: reply.code(400).send(err) *)
RawBodyBroken ==
  /\ \E j \in jobs :
       /\ j.fn = "rawBody"
       /\ StartTurn("callback", j, [j EXCEPT !.fn = "send", !.p = "Error"])
  /\ res' = [res EXCEPT !.code = "error"]
  /\ UNCHANGED <<reply, ctx, did>>

BodyDoneFails ==
  /\ Running("bodyDone")
  /\ Top.e # None
  /\ Goto([Top EXCEPT !.fn = "send", !.p = Top.e])
  /\ UNCHANGED request

(* Mutant: the parsed request is handled from the start. *)
BodyDoneHandlesAgain ==
  /\ Running("bodyDone")
  /\ Top.e = None
  /\ Goto([Top EXCEPT !.fn = "handleRequest"])
  /\ UNCHANGED request

BodyDoneHandles ==
  /\ Running("bodyDone")
  /\ Top.e = None
  /\ Goto([Top EXCEPT !.fn = "handler"])
  /\ UNCHANGED request

-----------------------------------------------------------------------------
(* handler: preValidation, with what it runs synchronously, in a try block *)
Handler ==
  /\ Running("handler")
  /\ Call([Top EXCEPT !.fn = "handlerTry"], StartChain(Top, "preValidation"))
  /\ UNCHANGED request

HandlerTryThrew ==
  /\ Unwinding("handlerTry")
  /\ Catch([Top EXCEPT !.fn = "preValidationCallback", !.e = exc])
  /\ UNCHANGED request

HandlerTryReturns ==
  /\ Running("handlerTry") \/ Running("thenTry")
  /\ Return
  /\ UNCHANGED request

PreValidationCallback ==
  /\ Running("preValidationCallback")
  /\ \E w \in BOOLEAN : ~NotWritable(w)
  /\ ~reply.sent /\ Top.e = None
  /\ \/ /\ Requests \ {"invalid"} # {}
        /\ Goto(StartChain(Top, "preHandler"))
        /\ UNCHANGED res
     \/ /\ "invalid" \in Requests
        /\ Goto([Top EXCEPT !.fn = "send", !.p = "Error"])
        /\ res' = [res EXCEPT !.code = "error"]
  /\ UNCHANGED <<reply, ctx, did>>

PreHandlerCallback ==
  /\ Running("preHandlerCallback")
  /\ \E w \in BOOLEAN : ~NotWritable(w)
  /\ ~reply.sent /\ Top.e = None
  /\ \E s \in Style["handler"] : Goto(User(Top, "handler", 0, s))
  /\ Calls("handler", 0)
  /\ UNCHANGED <<reply, res, ctx>>

-----------------------------------------------------------------------------
(* wrapThenable *)

FulfilledSends ==
  /\ Running("fulfilled")
  /\ ~reply.overwritten
  /\ Top.p # None \/ (res.code = "noContent" /\ ~reply.sent)
  /\ Call([Top EXCEPT !.fn = "thenTry"], [Top EXCEPT !.fn = "send", !.e = None])
  /\ UNCHANGED request

FulfilledIgnored ==
  /\ Running("fulfilled")
  /\ reply.overwritten \/ (Top.p = None /\ ~(res.code = "noContent" /\ ~reply.sent))
  /\ Return
  /\ UNCHANGED request

ThenTryThrew ==
  /\ Unwinding("thenTry")
  /\ reply' = [reply EXCEPT !.sent = FALSE, !.isError = TRUE]
  /\ Catch([Top EXCEPT !.fn = "send", !.p = exc, !.e = None])
  /\ UNCHANGED <<res, ctx, did>>

(* Mutant: reply.sent is not looked at. *)
RejectedSendsAnyway ==
  /\ Running("rejected")
  /\ ~reply.overwritten
  /\ reply' = [reply EXCEPT !.sent = FALSE, !.isError = TRUE]
  /\ Goto([Top EXCEPT !.fn = "send", !.e = None])
  /\ UNCHANGED <<res, ctx, did>>

RejectedSends ==
  /\ Running("rejected")
  /\ ~reply.overwritten /\ ~reply.sent
  /\ reply' = [reply EXCEPT !.isError = TRUE]
  /\ Goto([Top EXCEPT !.fn = "send", !.e = None])
  /\ UNCHANGED <<res, ctx, did>>

RejectedIgnored ==
  /\ Running("rejected")
  /\ reply.overwritten \/ reply.sent
  /\ Return
  /\ UNCHANGED request

-----------------------------------------------------------------------------
(* The event loop *)

RunPromiseJob == RunReady /\ UNCHANGED request

(* User code goes on: in a callback of the platform, or after an await. *)
UserGoesOn ==
  /\ \E j \in jobs :
       /\ j.fn = "user"
       /\ StartTurn(IF j.m = "late" THEN "callback" ELSE "promise", j, j)
  /\ UNCHANGED request

(* User code that took the response over ends it. *)
RawEnd ==
  /\ \E j \in jobs : j.fn = "rawEnd" /\ DropJob(j)
  /\ res' = [res EXCEPT !.head = IF @ = "none" THEN res.code ELSE @, !.ended = TRUE]
  /\ UNCHANGED <<reply, ctx, did>>

ClientAborts ==
  /\ "abort" \in Mishaps
  /\ Idle /\ ~res.finished /\ ~res.closed
  /\ res' = [res EXCEPT !.closed = TRUE]
  /\ UNCHANGED <<loop, reply, ctx, did>>

ProcessLost ==
  /\ Escapes
  /\ UNCHANGED request

(* The request is over: nothing is left to run.  A request whose client    *)
(* went away, or that took the process down, needs no answer; any other    *)
(* state in which nothing can run is a request left hanging.               *)
Over ==
  \/ fault # "none"
  \/ Idle /\ jobs = {} /\ (res.finished \/ res.closed)

Stutter == Over /\ UNCHANGED vars

LifecycleSteps ==
  \/ RouteHandler \/ RunPreParsing \/ CallbackDropped \/ CallbackFails
  \/ HandleWithoutBody \/ HandleRefused \/ HandleBadMethod
  \/ HandleCustomParser \/ HandleRawBody
  \/ BodyDoneFails \/ BodyDoneHandles
  \/ Handler \/ HandlerTryThrew \/ HandlerTryReturns
  \/ PreValidationCallback \/ PreHandlerCallback
  \/ FulfilledSends \/ FulfilledIgnored \/ ThenTryThrew
  \/ RejectedSends \/ RejectedIgnored

(* What the platform delivers sooner or later, and what it may. *)
PlatformSteps ==
  \/ RunPromiseJob \/ UserGoesOn \/ RawEnd \/ RawBodyDone \/ RawBodyBroken
  \/ StreamData \/ StreamEnd \/ StreamErrorAfterHead \/ StreamErrorBeforeHead
  \/ AwaitedReplyOver \/ ResFinish \/ ProcessLost

Mishap == ResError \/ ClientAborts

Progress == HookSteps \/ ReplySteps \/ UserSteps \/ LifecycleSteps \/ PlatformSteps

Init == LoopInit(Plain("routeHandler")) /\ ExchangeInit

Next == Progress \/ Mishap \/ Stutter

(* A running turn is never suspended and the event loop serves whatever is *)
(* ready, so a step is taken as long as one can be; what user code and the *)
(* network may do besides (Mishap) is not assumed to happen.               *)
Spec == Init /\ [][Next]_vars
FairSpec == Spec /\ WF_vars(Progress)

-----------------------------------------------------------------------------
LoopTypeOK ==
  /\ stack \in Seq(Frame)
  /\ ready \in Seq(Frame)
  /\ jobs \subseteq Frame
  /\ turn \in {"callback", "promise"}
  /\ exc \in Payload
  /\ fault \in {"none", "callback", "promise"}

RequestTypeOK ==
  /\ reply \in ReplyType
  /\ res \in ResType
  /\ ctx \in {"route", "404"}
  /\ did \in DidType

(* Type invariant: the state space of the request and of the event loop. *)
TypeOK == LoopTypeOK /\ RequestTypeOK

(* No exception of the framework's own making, and none user code threw    *)
(* where the framework promises to catch it, takes the process down.       *)
ProcessKept == fault = "none"

(* The code never writes the head of a response whose head is out already, *)
(* whichever of its three writers (onSendEnd, handleError, a piped stream) *)
(* came first: Node.js would throw ERR_HTTP_HEADERS_SENT.                  *)
HeadWrittenOnce == Running("writeHead") => res.head = "none"

(* reply.sent holds from the moment the head is out: none of the resets of *)
(* kReplySent (handleError, notFound, wrapThenable) happens too late.      *)
HeadImpliesSent == res.head # "none" => reply.sent

(* The error handler of a route runs at most once for a request, however   *)
(* many of the reply phases fail (docs/Errors.md).                         *)
ErrorHandlerOnce == did.errorHandler <= 1

Elements(s) == {s[i] : i \in 1..Len(s)}

(* onError hooks run only for an error the error handler sent, never for   *)
(* the error that is on its way to it.                                     *)
OnErrorAfterErrorHandler ==
  \A x \in jobs \cup Elements(stack) \cup Elements(ready) :
    x.c = "onError" => reply.ehCalled

(* When user code failed before anything was sent, the client is told so.  *)
FailureIsReported ==
  did.failed /\ res.head # "none" => res.head = "error"

(* A payload is given to the onSend chain once, and once more after a      *)
(* failure of that chain: the failure of the second pass is not retried.   *)
OnSendAtMostTwice == did.onSend <= 2

(* Whatever is written, errors included, has passed the onSend chain.      *)
OnSendCovers ==
  Running("writeHead") /\ HookCount["onSend"] > 0 => did.onSend > 0

(* The onResponse chain starts once, whichever of 'finish' and 'error' come *)
(* and in whatever order, and never for a response that has not begun.     *)
OnResponseOnce ==
  /\ did.onResponse <= 1
  /\ did.onResponse = 1 => res.head # "none"

-----------------------------------------------------------------------------
(* A step that calls user function c. *)
CallsUser(c) ==
  /\ stack # <<>> /\ stack' # <<>>
  /\ Len(stack') = Len(stack)
  /\ Top.fn # "user" /\ Top'.fn = "user" /\ Top'.c = c

RequestPhase == RequestChains \cup {"parser", "handler"}

(* Hooks, parser and handler are called in the order of docs/Lifecycle.md, *)
(* each at most once, callNotFound starting over with those of the 404.    *)
LifecycleOrder ==
  [][\A c \in RequestPhase : CallsUser(c) =>
       \/ did'.phase > did.phase
       \/ did'.phase = did.phase /\ did'.hook > did.hook]_vars

(* Once a reply.send of user code was accepted no hook, parser or handler  *)
(* of the request phase is called any more (docs/Hooks.md).                *)
AnswerStopsRequest ==
  [][did.answered => \A c \in RequestPhase : ~CallsUser(c)]_vars

(* Once user code took the raw response over (reply.hijack, or setting     *)
(* reply.sent) the framework calls no further hook, parser or handler of   *)
(* the request phase and writes nothing, whatever that code or the rest of *)
(* the request does later (docs/Lifecycle.md).                             *)
HijackHolds ==
  [][did.hijacked => /\ ~Running("writeHead")'
                     /\ \A c \in RequestPhase : ~CallsUser(c)]_vars

(* Every request comes to its end: answered, or given up by the client.    *)
RequestEnds == <>(res.finished \/ res.closed)

-----------------------------------------------------------------------------
(* The response as the client and the onResponse hooks see it; with the    *)
(* process the connection is lost.                                         *)
ClientPhase ==
  IF res.finished THEN "delivered"
  ELSE IF res.closed \/ fault # "none" THEN "lost"
  ELSE IF res.ended THEN "ended"
  ELSE IF res.head # "none" THEN "started" ELSE "waiting"

Contract ==
  INSTANCE ResponseContract WITH
    Status <- Statuses,
    phase <- ClientPhase,
    status <- IF ClientPhase = "lost" THEN "none" ELSE res.head,
    notified <- did.onResponse > 0

(* The exchange implements the contract of a response: one status line,    *)
(* one end, one notification, and an answer to every request that is not   *)
(* given up.                                                               *)
KeepsContract == Contract!FairSpec
=============================================================================
