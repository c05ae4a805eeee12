------------------------------- MODULE Reply -------------------------------
(***************************************************************************)
(* lib/reply.js: what reply.send does with a payload or an error until the *)
(* response is written, reply.callNotFound, and the onResponse listeners.  *)
(***************************************************************************)
EXTENDS Hooks

(* Mutant: the status of the response is kept. *)
RaisedNever(code) == code

(* Mutant: a status that is none. *)
RaisedToText(code) == IF code = "error" THEN code ELSE "Internal Server Error"

(* The status of an error: what was set, if that is 400 or above. *)
Raised(code) == IF code = "error" THEN code ELSE "error"

-----------------------------------------------------------------------------
(* Reply.prototype.send *)

SendInsideOnError ==
  /\ Running("send")
  /\ reply.onErr
  /\ Throw("Error")
  /\ UNCHANGED request

SendAgain ==
  /\ Running("send")
  /\ ~reply.onErr /\ reply.sent
  /\ Return
  /\ UNCHANGED request

(* Mutant: send does not look at reply.sent. *)
AcceptingAlways == Running("send") /\ ~reply.onErr

(* The first two guards of send. *)
Accepting == Running("send") /\ ~reply.onErr /\ ~reply.sent

Accepted == did' = [did EXCEPT !.answered = @ \/ Top.f > 0]

(* Mutant: onErrorHook(this, payload), without onSendHook. *)
SendErrorDirectly ==
  /\ Accepting
  /\ Top.p = "Error" \/ reply.isError
  /\ Goto([Top EXCEPT !.fn = "onErrorHook", !.e = Top.p, !.k = FALSE])
  /\ Accepted
  /\ UNCHANGED <<reply, res, ctx>>

SendError ==
  /\ Accepting
  /\ Top.p = "Error" \/ reply.isError
  /\ Goto([Top EXCEPT !.fn = "onErrorHook", !.e = Top.p, !.k = TRUE])
  /\ Accepted
  /\ UNCHANGED <<reply, res, ctx>>

SendAsIs ==
  /\ Accepting
  /\ ~reply.isError /\ Top.p \in {"undefined", "string", "stream", "untyped"}
  /\ Goto([Top EXCEPT !.fn = "onSendHook"])
  /\ Accepted
  /\ UNCHANGED <<reply, res, ctx>>

(* An object, or null, goes through preSerialization and is serialized. *)
SendSerialized ==
  /\ Accepting
  /\ ~reply.isError /\ Top.p \in {"null", "object", "unserializable"}
  /\ Goto(StartChain(Top, "preSerialization"))
  /\ Accepted
  /\ UNCHANGED <<reply, res, ctx>>

-----------------------------------------------------------------------------
PreserializationFailed ==
  /\ Running("preserializeHookEnd")
  /\ Top.e # None
  /\ Goto([Top EXCEPT !.fn = "onErrorHook", !.k = FALSE])
  /\ UNCHANGED request

SerializerThrows ==
  /\ Running("preserializeHookEnd")
  /\ Top.e = None /\ Top.p = "unserializable"
  /\ Throw("Error")
  /\ UNCHANGED request

(* JSON.stringify(undefined) is undefined. *)
Serialized ==
  /\ Running("preserializeHookEnd")
  /\ Top.e = None /\ Top.p # "unserializable"
  /\ Goto([Top EXCEPT !.fn = "onSendHook",
                      !.p = IF @ = None THEN None ELSE "string"])
  /\ UNCHANGED request

(* The payload is final only here: this is where the reply becomes sent. *)
OnSendHook ==
  /\ Running("onSendHook")
  /\ reply' = [reply EXCEPT !.sent = TRUE]
  /\ Goto(StartChain(Top, "onSend"))
  /\ UNCHANGED <<res, ctx, did>>

(* Mutant: the error of an onSend hook is sent through onSend again. *)
OnSendFailedRetries ==
  /\ Running("wrapOnSendEnd")
  /\ Top.e # None
  /\ Goto([Top EXCEPT !.fn = "onErrorHook", !.k = TRUE])
  /\ UNCHANGED request

OnSendFailed ==
  /\ Running("wrapOnSendEnd")
  /\ Top.e # None
  /\ Goto([Top EXCEPT !.fn = "onErrorHook", !.k = FALSE])
  /\ UNCHANGED request

OnSendPassed ==
  /\ Running("wrapOnSendEnd")
  /\ Top.e = None
  /\ Goto([Top EXCEPT !.fn = "onSendEnd"])
  /\ UNCHANGED request

OnSendEndRejects ==
  /\ Running("onSendEnd")
  /\ Top.p \in {"object", "unserializable", "untyped", "Error"}
  /\ Throw("Error")
  /\ UNCHANGED request

OnSendEnd ==
  /\ Running("onSendEnd")
  /\ Top.p \in {"undefined", "null", "string"}
  /\ reply' = [reply EXCEPT !.sent = TRUE]
  /\ Goto([Top EXCEPT !.fn = "writeHead"])
  /\ UNCHANGED <<res, ctx, did>>

SendStream ==
  /\ Running("onSendEnd")
  /\ Top.p = "stream"
  /\ Leave([Top EXCEPT !.fn = "pipe"])
  /\ UNCHANGED request

(* res.writeHead(code, headers); res.end(payload) *)
WriteHead ==
  /\ Running("writeHead")
  /\ IF res.head = "none"
     THEN /\ res' = [res EXCEPT !.head = res.code, !.ended = TRUE]
          /\ Return
     ELSE /\ Throw("Error")    \* ERR_HTTP_HEADERS_SENT
          /\ UNCHANGED res
  /\ UNCHANGED <<reply, ctx, did>>

-----------------------------------------------------------------------------
(* sendStream: events of the source that is piped into the response *)

PipeJob == {j \in jobs : j.fn = "pipe"}

(* The first chunk makes Node.js send the head. *)
StreamData ==
  /\ Idle /\ PipeJob # {}
  /\ res.head = "none"
  /\ res' = [res EXCEPT !.head = res.code]
  /\ UNCHANGED <<loop, reply, ctx, did>>

StreamEnd ==
  /\ \E j \in PipeJob : DropJob(j)
  /\ res' = [res EXCEPT !.head = IF @ = "none" THEN res.code ELSE @,
                        !.ended = TRUE]
  /\ UNCHANGED <<reply, ctx, did>>

(* The source fails, or is destroyed because the response is over. *)
StreamMayFail == "sourceError" \in Mishaps \/ res.closed \/ res.finished

StreamErrorAfterHead ==
  /\ StreamMayFail
  /\ res.head # "none"
  /\ \E j \in PipeJob : DropJob(j)
  /\ res' = [res EXCEPT !.closed = TRUE]
  /\ UNCHANGED <<reply, ctx, did>>

(* Mutant: res.headersSent is not looked at. *)
StreamErrorAnyTime ==
  /\ StreamMayFail
  /\ \E j \in PipeJob :
       StartTurn("callback", j,
                 [j EXCEPT !.fn = "onErrorHook", !.e = "Error", !.k = FALSE])
  /\ UNCHANGED request

StreamErrorBeforeHead ==
  /\ StreamMayFail
  /\ res.head = "none"
  /\ \E j \in PipeJob :
       StartTurn("callback", j,
                 [j EXCEPT !.fn = "onErrorHook", !.e = "Error", !.k = FALSE])
  /\ UNCHANGED request

-----------------------------------------------------------------------------
(* Errors.  k tells whether onErrorHook was given onSendHook as its cb. *)

(* Mutant: the hooks run for every error. *)
OnErrorHookRunsAlways ==
  /\ Running("onErrorHook")
  /\ HookCount["onError"] > 0
  /\ reply' = [reply EXCEPT !.sent = TRUE, !.onErr = TRUE]
  /\ Goto(NextOf([Top EXCEPT !.c = "onError", !.i = 0, !.p = Top.e], None, None))
  /\ UNCHANGED <<res, ctx, did>>

OnErrorHookRuns ==
  /\ Running("onErrorHook")
  /\ HookCount["onError"] > 0 /\ reply.ehCalled
  /\ reply' = [reply EXCEPT !.sent = TRUE, !.onErr = TRUE]
  /\ Goto(NextOf([Top EXCEPT !.c = "onError", !.i = 0, !.p = Top.e], None, None))
  /\ UNCHANGED <<res, ctx, did>>

OnErrorHookSkipped ==
  /\ Running("onErrorHook")
  /\ HookCount["onError"] = 0 \/ ~reply.ehCalled
  /\ reply' = [reply EXCEPT !.sent = TRUE]
  /\ Goto([Top EXCEPT !.fn = "handleError"])
  /\ UNCHANGED <<res, ctx, did>>

(* Mutant: kReplyErrorHandlerCalled is not looked at. *)
ErrorHandlerCalledAgain ==
  /\ Running("handleError")
  /\ reply' = [reply EXCEPT !.onErr = FALSE, !.sent = FALSE,
                            !.isError = FALSE, !.ehCalled = TRUE]
  /\ res' = [res EXCEPT !.code = Raised(@)]
  /\ \E s \in Style["errorHandler"] :
       Goto(User([Top EXCEPT !.p = Top.e, !.e = None], "errorHandler", 0, s))
  /\ Calls("errorHandler", 0)
  /\ UNCHANGED ctx

(* The error handler runs once; a second error is serialized here. *)
ErrorHandlerCalled ==
  /\ Running("handleError")
  /\ ~reply.ehCalled
  /\ reply' = [reply EXCEPT !.onErr = FALSE, !.sent = FALSE,
                            !.isError = FALSE, !.ehCalled = TRUE]
  /\ res' = [res EXCEPT !.code = Raised(@)]
  /\ IF CustomErrorHandler
     THEN \E s \in Style["errorHandler"] :
            Goto(User([Top EXCEPT !.p = Top.e, !.e = None], "errorHandler", 0, s))
     ELSE Goto([Top EXCEPT !.fn = "send", !.p = Top.e, !.e = None])
  /\ Calls("errorHandler", 0)
  /\ UNCHANGED ctx

ErrorToOnSend ==
  /\ Running("handleError")
  /\ reply.ehCalled /\ Top.k
  /\ reply' = [reply EXCEPT !.onErr = FALSE]
  /\ res' = [res EXCEPT !.code = Raised(@)]
  /\ Goto([Top EXCEPT !.fn = "onSendHook", !.p = "string", !.e = None])
  /\ UNCHANGED <<ctx, did>>

ErrorWritten ==
  /\ Running("handleError")
  /\ reply.ehCalled /\ ~Top.k
  /\ reply' = [reply EXCEPT !.onErr = FALSE, !.sent = TRUE]
  /\ res' = [res EXCEPT !.code = Raised(@)]
  /\ Goto([Top EXCEPT !.fn = "writeHead", !.p = "string", !.e = None])
  /\ UNCHANGED <<ctx, did>>

-----------------------------------------------------------------------------
(* notFound *)

NotFoundInside404 ==
  /\ Running("notFound")
  /\ ctx = "404"
  /\ reply' = [reply EXCEPT !.sent = FALSE, !.isError = FALSE]
  /\ res' = [res EXCEPT !.code = "error"]
  /\ Goto([Top EXCEPT !.fn = "send", !.p = "string"])
  /\ UNCHANGED <<ctx, did>>

NotFound ==
  /\ Running("notFound")
  /\ ctx = "route"
  /\ reply' = [reply EXCEPT !.sent = FALSE, !.isError = FALSE]
  /\ ctx' = "404"
  /\ Goto(StartChain(Top, "preHandler"))
  /\ UNCHANGED <<res, did>>

-----------------------------------------------------------------------------
(* Reply.prototype.then: what await does with the reply. *)

AwaitedReplySent ==
  /\ Running("awaitReply")
  /\ reply.sent
  /\ Settle(Fulfilment(Top))
  /\ UNCHANGED request

AwaitedReplyPending ==
  /\ Running("awaitReply")
  /\ ~reply.sent
  /\ Leave([Top EXCEPT !.fn = "eos"])
  /\ UNCHANGED request

AwaitedReplyOver ==
  /\ res.finished \/ res.closed
  /\ \E j \in jobs :
       /\ j.fn = "eos"
       /\ SettleJob(j, Fulfilment(j))
  /\ UNCHANGED request

-----------------------------------------------------------------------------
(* setupResponseListeners: the first of 'finish' and 'error' runs the      *)
(* onResponse chain and removes both listeners.                            *)

OnResFinished ==
  IF res.listening
  THEN /\ StartEvent(StartChain(Plain("hookNext"), "onResponse"))
       /\ did' = [did EXCEPT !.onResponse = @ + 1]
  ELSE /\ Idle
       /\ UNCHANGED <<loop, did>>

ResFinish ==
  /\ res.ended /\ ~res.finished /\ ~res.closed
  /\ res' = [res EXCEPT !.finished = TRUE, !.listening = FALSE]
  /\ OnResFinished
  /\ UNCHANGED <<reply, ctx>>

(* Mutant: the listeners stay. *)
ResErrorKeepsListening ==
  /\ "resError" \in Mishaps
  /\ res.head # "none" /\ ~res.finished /\ ~res.closed /\ res.listening
  /\ \E lost \in BOOLEAN : res' = [res EXCEPT !.closed = lost]
  /\ OnResFinished
  /\ UNCHANGED <<reply, ctx>>

(* An error event leaves the connection open or closes it. *)
ResError ==
  /\ "resError" \in Mishaps
  /\ res.head # "none" /\ ~res.finished /\ ~res.closed /\ res.listening
  /\ \E lost \in BOOLEAN :
       res' = [res EXCEPT !.closed = lost, !.listening = FALSE]
  /\ OnResFinished
  /\ UNCHANGED <<reply, ctx>>

OnResponseCallback ==
  /\ Running("onResponseCallback")
  /\ Return
  /\ UNCHANGED request

ReplySteps ==
  \/ SendInsideOnError \/ SendAgain \/ SendError \/ SendAsIs \/ SendSerialized
  \/ PreserializationFailed \/ SerializerThrows \/ Serialized
  \/ OnSendHook \/ OnSendFailed \/ OnSendPassed
  \/ OnSendEndRejects \/ OnSendEnd \/ SendStream
  \/ WriteHead
  \/ OnErrorHookRuns \/ OnErrorHookSkipped
  \/ ErrorHandlerCalled \/ ErrorToOnSend \/ ErrorWritten
  \/ NotFoundInside404 \/ NotFound
  \/ AwaitedReplySent \/ AwaitedReplyPending \/ OnResponseCallback
=============================================================================
