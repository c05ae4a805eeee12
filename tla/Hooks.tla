------------------------------- MODULE Hooks -------------------------------
(***************************************************************************)
(* The three runners of hook chains: hookRunner and onSendHookRunner       *)
(* (lib/hooks.js) and preParsingHookRunner (lib/route.js).  A runner calls *)
(* the functions of its chain one by one, waits for the callback or the    *)
(* promise of each, and calls its own callback at the end or on an error.  *)
(*                                                                         *)
(* A "user" frame stands for the user function together with the try block *)
(* of the runner that called it: an exception that reaches the frame is    *)
(* what the runner's catch clause gets (see UserCode).                     *)
(***************************************************************************)
EXTENDS Exchange

(* The callback a runner is given, for each chain. *)
CallbackOf ==
  [onRequest |-> "runPreParsing", preParsing |-> "handleRequest",
   preValidation |-> "preValidationCallback",
   preHandler |-> "preHandlerCallback", onResponse |-> "onResponseCallback",
   preSerialization |-> "preserializeHookEnd", onSend |-> "wrapOnSendEnd",
   onError |-> "handleError"]

(* cb(err, request, reply[, payload]).  onErrorHook closes over the error  *)
(* it reports, the payload of its chain, and ignores what the chain says.  *)
Callback(t, err) ==
  [t EXCEPT !.fn = CallbackOf[t.c],
            !.e = IF t.c = "onError" THEN t.p ELSE err,
            !.m = "sync", !.done = FALSE]

(* next(err[, newPayload]) *)
NextOf(t, err, new) ==
  [t EXCEPT !.fn = CASE t.c \in PayloadChains -> "sendNext"
                     [] t.c = "preParsing"    -> "preParsingNext"
                     [] OTHER                 -> "hookNext",
            !.e = err,
            !.p = IF err = None /\ new # None /\ t.c # "onError" THEN new ELSE @,
            !.m = "sync", !.done = FALSE]

(* done(error, body) of ContentTypeParser.run *)
BodyDone(u, err) == [u EXCEPT !.fn = "bodyDone", !.e = err, !.m = "sync", !.done = FALSE]

(* The callbacks of wrapThenable *)
Thenable(u, fn, v) == [u EXCEPT !.fn = fn, !.p = v, !.e = v, !.m = "sync", !.done = FALSE]

(* What user function u calls when it is done, *)
Completion(u, err, new) ==
  IF u.c = "parser" THEN BodyDone(u, err) ELSE NextOf(u, err, new)

(* and what its promise calls when it is fulfilled. *)
Fulfilment(u) ==
  IF u.c \in {"handler", "errorHandler"}
  THEN Thenable(u, "fulfilled", None) ELSE Completion(u, None, None)

(* Runner of chain c started by t, or its callback when there is no hook:  *)
(* contexts hold null instead of an empty chain.                           *)
StartChain(t, c) ==
  LET t2 == [t EXCEPT !.c = c, !.i = 0, !.e = None]
  IN IF HookCount[c] = 0 THEN Callback(t2, None) ELSE NextOf(t2, None, None)

-----------------------------------------------------------------------------
(* hookRunner *)

HookRunnerEnds ==
  /\ Running("hookNext")
  /\ Top.e # None \/ Top.i = HookCount[Top.c]
  /\ Goto(Callback(Top, Top.e))
  /\ UNCHANGED request

(* hookIterator drops the chain once a reply was sent: nobody calls next. *)
HookDropped ==
  /\ Running("hookNext")
  /\ Top.e = None /\ Top.i < HookCount[Top.c]
  /\ Top.c # "onResponse" /\ reply.sent
  /\ Return
  /\ UNCHANGED request

(* Mutant: hookIterator does not look at reply.sent. *)
HookCalledAlways ==
  /\ Running("hookNext")
  /\ Top.e = None /\ Top.i < HookCount[Top.c]
  /\ \E s \in Style[Top.c] : Goto(User(Top, Top.c, Top.i + 1, s))
  /\ Calls(Top.c, Top.i + 1)
  /\ UNCHANGED <<reply, res, ctx>>

HookCalled ==
  /\ Running("hookNext")
  /\ Top.e = None /\ Top.i < HookCount[Top.c]
  /\ Top.c = "onResponse" \/ ~reply.sent
  /\ \E s \in Style[Top.c] : Goto(User(Top, Top.c, Top.i + 1, s))
  /\ Calls(Top.c, Top.i + 1)
  /\ UNCHANGED <<reply, res, ctx>>

(* Mutant: no handler for the rejection of the promise of a hook. *)
HookRejectedUnhandled ==
  /\ Running("handleReject")
  /\ Throw(IF Top.e = None THEN "Error" ELSE Top.e)
  /\ UNCHANGED request

HookRejected ==
  /\ Running("handleReject")
  /\ reply' = [reply EXCEPT !.isError = @ \/ Top.e \notin {None, "Error"}]
  /\ Goto(Callback(Top, IF Top.e = None THEN "Error" ELSE Top.e))
  /\ UNCHANGED <<res, ctx, did>>

-----------------------------------------------------------------------------
(* preParsingHookRunner *)

PreParsingDropped ==
  /\ Running("preParsingNext")
  /\ reply.sent
  /\ Return
  /\ UNCHANGED request

PreParsingEnds ==
  /\ Running("preParsingNext")
  /\ ~reply.sent
  /\ Top.e # None \/ Top.i = HookCount["preParsing"]
  /\ reply' = [reply EXCEPT !.isError = @ \/ Top.e \notin {None, "Error"}]
  /\ Goto(Callback(Top, Top.e))
  /\ UNCHANGED <<res, ctx, did>>

PreParsingCalled ==
  /\ Running("preParsingNext")
  /\ ~reply.sent
  /\ Top.e = None /\ Top.i < HookCount["preParsing"]
  /\ \E s \in Style["preParsing"] : Goto(User(Top, Top.c, Top.i + 1, s))
  /\ Calls("preParsing", Top.i + 1)
  /\ UNCHANGED <<reply, res, ctx>>

-----------------------------------------------------------------------------
(* onSendHookRunner, of the chains that get the payload *)

PayloadRunnerFails ==
  /\ Running("sendNext")
  /\ Top.e # None
  /\ Goto(Callback(Top, Top.e))
  /\ UNCHANGED request

(* The callback that gets the final payload runs in a try block. *)
PayloadRunnerEnds ==
  /\ Running("sendNext")
  /\ Top.e = None /\ Top.i = HookCount[Top.c]
  /\ Call([Top EXCEPT !.fn = "cbTry"], Callback(Top, None))
  /\ UNCHANGED request

PayloadHookCalled ==
  /\ Running("sendNext")
  /\ Top.e = None /\ Top.i < HookCount[Top.c]
  /\ \E s \in Style[Top.c] : Goto(User(Top, Top.c, Top.i + 1, s))
  /\ did' = [did EXCEPT !.onSend = @ + IF Top.c = "onSend" /\ Top.i = 0 THEN 1 ELSE 0]
  /\ UNCHANGED <<reply, res, ctx>>

(* Mutant: no try block around the callback. *)
PayloadCallbackUnguarded ==
  /\ Unwinding("cbTry")
  /\ Pass
  /\ UNCHANGED request

(* handleReject when the callback itself throws. *)
PayloadCallbackThrew ==
  /\ Unwinding("cbTry")
  /\ Catch(Callback(Top, exc))
  /\ UNCHANGED request

PayloadCallbackReturns ==
  /\ Running("cbTry")
  /\ Return
  /\ UNCHANGED request

HookSteps ==
  \/ HookRunnerEnds \/ HookDropped \/ HookCalled \/ HookRejected
  \/ PreParsingDropped \/ PreParsingEnds \/ PreParsingCalled
  \/ PayloadRunnerFails \/ PayloadRunnerEnds \/ PayloadHookCalled
  \/ PayloadCallbackThrew \/ PayloadCallbackReturns
=============================================================================
