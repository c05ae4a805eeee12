------------------------------ MODULE UserCode ------------------------------
(***************************************************************************)
(* The functions the application hands to the framework: hooks, body       *)
(* parsers, route and error handlers.  They are not part of the repository;*)
(* the constants Style and Acts say what they may do, within what the      *)
(* documentation asks of them: a function calls its callback or settles    *)
(* its promise once, and an async function that answered the request       *)
(* settles afterwards.  Whether user code is still running, suspended or   *)
(* already back is what makes the framework's own steps interleave.        *)
(***************************************************************************)
EXTENDS Reply

May(act) == Running("user") /\ act \in Acts[Top.c]

IsAsync == Top.m \in {"async", "resumed"}
IsHook == Top.c \in HookChains
ByCallback == ~IsAsync /\ (IsHook \/ Top.c = "parser")

NewPayloads == IF Top.c \in PayloadChains THEN Replacements \cup {None} ELSE {None}

(* User code fails for a reason of its own before anything was sent. *)
Blame ==
  did' = [did EXCEPT !.failed =
            @ \/ (~did.answered /\ ~reply.sent /\ Phase(Top.c) > 0)]

Finished(u) == [u EXCEPT !.done = TRUE]

-----------------------------------------------------------------------------
UserCallsNext ==
  /\ May("next") /\ ByCallback /\ ~Top.done
  /\ \E new \in NewPayloads : Call(Finished(Top), Completion(Top, None, new))
  /\ UNCHANGED request

UserFails ==
  /\ May("fail") /\ ByCallback /\ ~Top.done
  /\ \E err \in Failures : Call(Finished(Top), Completion(Top, err, None))
  /\ Blame
  /\ UNCHANGED <<reply, res, ctx>>

UserThrows ==
  /\ May("throw") /\ Top.m = "sync" /\ ~Top.done
  /\ exc' \in Failures
  /\ UNCHANGED <<stack, ready, jobs, turn, fault>>
  /\ Blame
  /\ UNCHANGED <<reply, res, ctx>>

(* An async function may send, or fail, after it answered; not after       *)
(* callNotFound, which would answer a second time.                         *)
OnceMore == Top.done /\ IsAsync /\ May("again") /\ ctx = "route"

(* reply.send(payload) *)
UserSends ==
  /\ May("send")
  /\ \/ ~Top.done /\ did.sends < MaxSends
     \/ OnceMore /\ did.sends + 1 < MaxSends
  /\ \E p \in SendPayloads :
       Call(Finished(Top),
            [Plain("send") EXCEPT !.p = p, !.f = did.sends + 1])
  /\ did' = [did EXCEPT !.sends = @ + 1]
  /\ UNCHANGED <<reply, res, ctx>>

UserCallsNotFound ==
  /\ May("notFound") /\ ~Top.done /\ did.sends < MaxSends
  /\ res.code # "noContent"
  /\ Call(Finished(Top), [Plain("notFound") EXCEPT !.f = did.sends + 1])
  /\ did' = [did EXCEPT !.sends = @ + 1]
  /\ UNCHANGED <<reply, res, ctx>>

(* reply.hijack(), after which user code ends the raw response itself *)
UserHijacks ==
  /\ May("hijack") /\ ~Top.done /\ ~reply.sent
  /\ LeaveAndGo(Plain("rawEnd"), Finished(Top))
  /\ reply' = [reply EXCEPT !.sent = TRUE]
  /\ did' = [did EXCEPT !.hijacked = TRUE]
  /\ UNCHANGED <<res, ctx>>

(* reply.sent = true, the older form of the same *)
UserMarksSent ==
  /\ May("markSent") /\ ~Top.done /\ ~reply.sent
  /\ LeaveAndGo(Plain("rawEnd"), Finished(Top))
  /\ reply' = [reply EXCEPT !.sent = TRUE, !.overwritten = TRUE]
  /\ did' = [did EXCEPT !.hijacked = TRUE]
  /\ UNCHANGED <<res, ctx>>

(* reply.code(204): an async function that sets it and returns nothing has *)
(* answered, so that code which does so does not also call callNotFound.   *)
UserSetsNoContent ==
  /\ May("noContent") /\ ~Top.done /\ res.code = "ok" /\ ctx = "route"
  /\ res' = [res EXCEPT !.code = "noContent"]
  /\ UNCHANGED <<loop, reply, ctx, did>>

(* A handler that is not async returns a value, which is sent after it. *)
HandlerReturnsValue ==
  /\ May("value") /\ Top.m = "sync" /\ Top.c = "handler" /\ ~Top.done
  /\ \E p \in SendPayloads :
       Goto([Plain("send") EXCEPT !.p = p, !.f = MaxSends + 1])
  /\ UNCHANGED request

(* The function goes on in a later turn: a callback it handed to the       *)
(* platform, or what follows an await.                                     *)
UserDefers ==
  /\ May("defer") /\ Top.m = "sync" /\ ~Top.done
  /\ Leave([Top EXCEPT !.m = "late"])
  /\ UNCHANGED request

UserAwaits ==
  /\ May("await") /\ Top.m = "async"
  /\ Leave([Top EXCEPT !.m = "resumed"])
  /\ UNCHANGED request

UserReturns ==
  /\ Running("user") /\ ~IsAsync /\ Top.done
  /\ Return
  /\ UNCHANGED request

(* The promise of an async function is fulfilled.  What waits for it runs  *)
(* in a promise job.                                                       *)
HookResolves ==
  /\ Running("user") /\ IsAsync /\ IsHook
  /\ \E new \in NewPayloads : Settle(NextOf(Top, None, new))
  /\ UNCHANGED request

ParserResolves ==
  /\ Running("user") /\ IsAsync /\ Top.c = "parser"
  /\ Settle(BodyDone(Top, None))
  /\ UNCHANGED request

HandlerResolves ==
  /\ Running("user") /\ IsAsync /\ Top.c \in {"handler", "errorHandler"}
  /\ \/ /\ Top.done \/ res.code = "noContent"
        /\ Settle(Thenable(Top, "fulfilled", None))
     \/ /\ ~Top.done /\ "value" \in Acts[Top.c]
        /\ \E p \in SendPayloads :
             Settle([Thenable(Top, "fulfilled", p) EXCEPT !.f = MaxSends + 1])
  /\ UNCHANGED request

(* return reply *)
UserAwaitsReply ==
  /\ May("awaitReply") /\ IsAsync /\ Top.done
  /\ Settle([Top EXCEPT !.fn = "awaitReply"])
  /\ UNCHANGED request

Rejection(u, err) ==
  CASE u.c \in {"handler", "errorHandler"} -> Thenable(u, "rejected", err)
    [] u.c = "parser"                      -> BodyDone(u, err)
    [] u.c = "preParsing"                  -> NextOf(u, err, None)
    [] u.c \in PayloadChains               -> Callback(u, err)
    [] OTHER -> [u EXCEPT !.fn = "handleReject", !.e = err, !.m = "sync", !.done = FALSE]

UserRejects ==
  /\ May("reject") /\ IsAsync
  /\ ~Top.done \/ OnceMore
  /\ \E err \in Rejections[Top.c] : Settle(Rejection(Top, err))
  /\ Blame
  /\ UNCHANGED <<reply, res, ctx>>

-----------------------------------------------------------------------------
(* An exception reaches the frame of a user function: a synchronous hook   *)
(* was called in a try block of its runner, whose catch calls next(error); *)
(* the try block around the route handler sends the error; an async        *)
(* function rejects its promise; nothing else catches.                     *)

HookThrew ==
  /\ Unwinding("user") /\ Top.m = "sync" /\ IsHook
  /\ Catch(NextOf(Top, exc, None))
  /\ UNCHANGED request

(* Mutant: what the handler throws is caught and not sent. *)
HandlerThrewUnsent ==
  /\ Unwinding("user") /\ Top.m = "sync" /\ Top.c = "handler"
  /\ Catch([Top EXCEPT !.fn = "handlerTry"])
  /\ UNCHANGED request

HandlerThrew ==
  /\ Unwinding("user") /\ Top.m = "sync" /\ Top.c = "handler"
  /\ reply' = [reply EXCEPT !.isError = @ \/ exc # "Error"]
  /\ Catch([Top EXCEPT !.fn = "send", !.p = exc, !.done = FALSE])
  /\ UNCHANGED <<res, ctx, did>>

AsyncUserThrew ==
  /\ Unwinding("user") /\ IsAsync
  /\ CatchSettling(Rejection(Top, exc))
  /\ UNCHANGED request

UserThrewUncaught ==
  /\ Unwinding("user") /\ ~IsAsync
  /\ Top.m = "late" \/ Top.c \in {"parser", "errorHandler"}
  /\ Pass
  /\ UNCHANGED request

-----------------------------------------------------------------------------
UserSteps ==
  \/ UserCallsNext \/ UserFails \/ UserThrows \/ UserSends
  \/ UserCallsNotFound \/ UserHijacks \/ UserMarksSent \/ UserSetsNoContent
  \/ HandlerReturnsValue \/ UserDefers \/ UserAwaits \/ UserReturns
  \/ HookResolves \/ ParserResolves \/ HandlerResolves \/ UserAwaitsReply
  \/ UserRejects
  \/ HookThrew \/ HandlerThrew \/ AsyncUserThrew \/ UserThrewUncaught
=============================================================================
