-------------------------- MODULE LifecycleProofs --------------------------
(***************************************************************************)
(* Theorems of Lifecycle, for every number of hooks, every way user code   *)
(* may be written and every bound.                                         *)
(***************************************************************************)
EXTENDS Lifecycle, TLAPS

USE DEF None

(* The frames there are once routeHandler has run: none is of routeHandler, *)
(* and one of an onError hook or its runner is there only if the error     *)
(* handler was called.  called stands for that flag (reply.ehCalled), so   *)
(* that what is said of a step holds for the frames before and after it.   *)
Later(called) ==
  {t \in Frame : t.fn # "routeHandler" /\ (t.c # "onError" \/ called = TRUE)}

LoopTyped(called) ==
  /\ stack \in Seq(Later(called)) /\ ready \in Seq(Later(called)) /\ jobs \subseteq Later(called)
  /\ turn \in {"callback", "promise"} /\ exc \in Payload
  /\ fault \in {"none", "callback", "promise"}

Typed(called) == LoopTyped(called) /\ RequestTypeOK

(* The running frame, and what is left under it, have their types. *)
LEMMA TopType ==
  ASSUME NEW CONSTANT called, LoopTyped(called), stack # <<>>
  PROVE  Top \in Later(called) /\ Tail(stack) \in Seq(Later(called))
BY DEF LoopTyped, Top

LEMMA PlainType ==
  ASSUME NEW CONSTANT called, NEW fn \in Fns \ (RunnerFns \cup {"user", "awaitReply", "eos", "routeHandler"})
  PROVE  Plain(fn) \in Later(called)
BY DEF Plain, Later, Frame, FrameOf, Payload, RunnerFns

-----------------------------------------------------------------------------
(* The operators of EventLoop keep the types when the frames they are given *)
(* have theirs.                                                            *)

LEMMA GotoType ==
  ASSUME NEW CONSTANT called, LoopTyped(called), stack # <<>>, NEW g \in Later(called), Goto(g)
  PROVE  LoopTyped(called)'
<1>1. <<g>> \o Tail(stack) \in Seq(Later(called))
  BY TopType
<1>2. QED
  BY <1>1 DEF LoopTyped, Goto

LEMMA CallType ==
  ASSUME NEW CONSTANT called, LoopTyped(called), stack # <<>>, NEW h \in Later(called), NEW g \in Later(called), Call(h, g)
  PROVE  LoopTyped(called)'
<1>1. <<g, h>> \o Tail(stack) \in Seq(Later(called))
  BY TopType
<1>2. QED
  BY <1>1 DEF LoopTyped, Call

LEMMA ReturnType ==
  ASSUME NEW CONSTANT called, LoopTyped(called), stack # <<>>, Return \/ Pass
  PROVE  LoopTyped(called)'
BY TopType DEF LoopTyped, Return, Pass

LEMMA LeaveType ==
  ASSUME NEW CONSTANT called, LoopTyped(called), stack # <<>>, NEW j \in Later(called), Leave(j)
  PROVE  LoopTyped(called)'
BY TopType DEF LoopTyped, Leave

LEMMA SettleType ==
  ASSUME NEW CONSTANT called, LoopTyped(called), stack # <<>>, NEW j \in Later(called), Settle(j)
  PROVE  LoopTyped(called)'
BY TopType DEF LoopTyped, Settle

LEMMA LeaveAndGoType ==
  ASSUME NEW CONSTANT called, LoopTyped(called), stack # <<>>, NEW j \in Later(called), NEW g \in Later(called),
         LeaveAndGo(j, g)
  PROVE  LoopTyped(called)'
<1>1. <<g>> \o Tail(stack) \in Seq(Later(called))
  BY TopType
<1>2. QED
  BY <1>1 DEF LoopTyped, LeaveAndGo

LEMMA ThrowType ==
  ASSUME NEW CONSTANT called, LoopTyped(called), stack # <<>>, NEW v \in Payload, Throw(v)
  PROVE  LoopTyped(called)'
BY TopType DEF LoopTyped, Throw

LEMMA CatchType ==
  ASSUME NEW CONSTANT called, LoopTyped(called), stack # <<>>, NEW g \in Later(called), Catch(g)
  PROVE  LoopTyped(called)'
<1>1. <<g>> \o Tail(stack) \in Seq(Later(called))
  BY TopType
<1>2. QED
  BY <1>1 DEF LoopTyped, Catch, Payload

LEMMA CatchSettlingType ==
  ASSUME NEW CONSTANT called, LoopTyped(called), stack # <<>>, NEW j \in Later(called), CatchSettling(j)
  PROVE  LoopTyped(called)'
BY TopType DEF LoopTyped, CatchSettling, Payload

(* The jobs of the platform *)
LEMMA JobType ==
  ASSUME NEW CONSTANT called, LoopTyped(called), NEW j \in jobs
  PROVE  j \in Later(called)
BY DEF LoopTyped

LEMMA RunReadyType ==
  ASSUME NEW CONSTANT called, LoopTyped(called), RunReady
  PROVE  LoopTyped(called)'
<1>1. Head(ready) \in Later(called) /\ Tail(ready) \in Seq(Later(called))
  BY DEF LoopTyped, RunReady
<1>2. <<Head(ready)>> \in Seq(Later(called))
  BY <1>1
<1>3. QED
  BY <1>1, <1>2 DEF LoopTyped, RunReady

LEMMA StartTurnType ==
  ASSUME NEW CONSTANT called, LoopTyped(called), NEW t \in {"callback", "promise"}, NEW j, NEW g \in Later(called),
         StartTurn(t, j, g)
  PROVE  LoopTyped(called)'
<1>1. <<g>> \in Seq(Later(called))
  OBVIOUS
<1>2. QED
  BY <1>1 DEF LoopTyped, StartTurn

LEMMA DropJobType ==
  ASSUME NEW CONSTANT called, LoopTyped(called), NEW j, DropJob(j)
  PROVE  LoopTyped(called)'
BY DEF LoopTyped, DropJob

LEMMA SettleJobType ==
  ASSUME NEW CONSTANT called, LoopTyped(called), NEW j, NEW g \in Later(called), SettleJob(j, g)
  PROVE  LoopTyped(called)'
BY DEF LoopTyped, SettleJob

LEMMA StartEventType ==
  ASSUME NEW CONSTANT called, LoopTyped(called), NEW g \in Later(called), StartEvent(g)
  PROVE  LoopTyped(called)'
<1>1. <<g>> \in Seq(Later(called))
  OBVIOUS
<1>2. QED
  BY <1>1 DEF LoopTyped, StartEvent

-----------------------------------------------------------------------------
(* The frames the code builds from the running one. *)

LEMMA FrameFacts ==
  ASSUME NEW CONSTANT called, NEW t \in Later(called)
  PROVE  /\ t.i + 1 \in Nat /\ t.e \in Payload /\ t.p \in Payload
         /\ t.c # "onError" \/ called = TRUE
         /\ t.fn \in RunnerFns => t.c \in HookChains /\ t.c \in UserFns
         /\ t.fn \in {"user", "awaitReply", "eos"} => t.c \in UserFns
BY DEF Later, Frame, FrameOf, UserFns

(* A function of the code that calls the next one in tail position. *)
LEMMA GoesOnAs ==
  ASSUME NEW CONSTANT called, NEW t \in Later(called), NEW p \in Payload, NEW err \in Payload,
         NEW fn \in Fns \ (RunnerFns \cup {"user", "awaitReply", "eos", "routeHandler"}),
         NEW k \in BOOLEAN
  PROVE  /\ [t EXCEPT !.fn = fn] \in Later(called)
         /\ [t EXCEPT !.fn = fn, !.p = p] \in Later(called)
         /\ [t EXCEPT !.fn = fn, !.e = err] \in Later(called)
         /\ [t EXCEPT !.fn = fn, !.p = p, !.e = err] \in Later(called)
         /\ [t EXCEPT !.fn = fn, !.e = err, !.k = k] \in Later(called)
         /\ [t EXCEPT !.fn = fn, !.p = p, !.done = k] \in Later(called)
BY DEF Later, Frame, FrameOf

LEMMA NewError ==
  ASSUME NEW CONSTANT called, NEW t \in Later(called), NEW p \in Payload, NEW err \in Payload
  PROVE  [t EXCEPT !.p = p, !.e = err] \in Later(called)
BY DEF Later, Frame, FrameOf

LEMMA UserType ==
  ASSUME NEW CONSTANT called, NEW t \in Later(called), NEW c \in UserFns, NEW i \in Nat,
         c # "onError" \/ called = TRUE,
         NEW style \in {"sync", "async"}
  PROVE  User(t, c, i, style) \in Later(called)
BY DEF User, Later, Frame, FrameOf, Fns, RunnerFns

LEMMA CallbackType ==
  ASSUME NEW CONSTANT called, NEW t \in Later(called), NEW err \in Payload, t.c \in HookChains
  PROVE  Callback(t, err) \in Later(called)
<1>1. CallbackOf[t.c] \in Fns \ (RunnerFns \cup {"user", "awaitReply", "eos", "routeHandler"})
  BY DEF CallbackOf, HookChains, RequestChains, PayloadChains, Fns, RunnerFns
<1>2. (IF t.c = "onError" THEN t.p ELSE err) \in Payload
  BY DEF Later, Frame, FrameOf
<1>3. QED
  BY <1>1, <1>2 DEF Callback, Later, Frame, FrameOf

LEMMA NextOfType ==
  ASSUME NEW CONSTANT called, NEW t \in Later(called), NEW err \in Payload, NEW new \in Payload,
         t.c \in HookChains
  PROVE  NextOf(t, err, new) \in Later(called)
<1>1. (IF err = None /\ new # None /\ t.c # "onError" THEN new ELSE t.p) \in Payload
  BY DEF Later, Frame, FrameOf
<1> DEFINE fn == CASE t.c \in PayloadChains -> "sendNext"
                   [] t.c = "preParsing"    -> "preParsingNext"
                   [] OTHER                 -> "hookNext"
<1>2. fn \in RunnerFns /\ fn \in Fns /\ fn \notin {"user", "awaitReply", "eos"}
  BY DEF RunnerFns, Fns, PayloadChains
<1>3. QED
  BY <1>1, <1>2 DEF NextOf, Later, Frame, FrameOf

LEMMA StartChainType ==
  ASSUME NEW CONSTANT called, NEW t \in Later(called), NEW c \in HookChains \ {"onError"},
         t.fn \notin {"user", "awaitReply", "eos"}
  PROVE  StartChain(t, c) \in Later(called)
<1> DEFINE t2 == [t EXCEPT !.c = c, !.i = 0, !.e = None]
<1>1. None \in Payload
  BY DEF Payload
<1>2. t2 \in Later(called) /\ t2.c \in HookChains
  BY <1>1 DEF Later, Frame, FrameOf, UserFns
<1>3. Callback(t2, None) \in Later(called)
  BY <1>1, <1>2, CallbackType
<1>4. NextOf(t2, None, None) \in Later(called)
  BY <1>1, <1>2, NextOfType
<1>5. QED
  BY <1>3, <1>4 DEF StartChain

LEMMA BodyDoneType ==
  ASSUME NEW CONSTANT called, NEW u \in Later(called), NEW err \in Payload
  PROVE  BodyDone(u, err) \in Later(called)
BY DEF BodyDone, Later, Frame, FrameOf, Fns, RunnerFns

LEMMA ThenableType ==
  ASSUME NEW CONSTANT called, NEW u \in Later(called), NEW fn \in {"fulfilled", "rejected"}, NEW v \in Payload
  PROVE  Thenable(u, fn, v) \in Later(called)
BY DEF Thenable, Later, Frame, FrameOf, Fns, RunnerFns

LEMMA CompletionType ==
  ASSUME NEW CONSTANT called, NEW u \in Later(called), NEW err \in Payload, NEW new \in Payload,
         u.c \in HookChains \cup {"parser"}
  PROVE  Completion(u, err, new) \in Later(called)
BY BodyDoneType, NextOfType DEF Completion, HookChains, RequestChains, PayloadChains

LEMMA FulfilmentType ==
  ASSUME NEW CONSTANT called, NEW u \in Later(called), u.c \in UserFns
  PROVE  Fulfilment(u) \in Later(called)
BY CompletionType, ThenableType DEF Fulfilment, UserFns, Payload

LEMMA RejectionType ==
  ASSUME NEW CONSTANT called, NEW u \in Later(called), NEW err \in Payload, u.c \in UserFns
  PROVE  Rejection(u, err) \in Later(called)
<1>1. CASE u.c \in {"handler", "errorHandler"}
  BY <1>1, ThenableType DEF Rejection, PayloadChains
<1>2. CASE u.c = "parser"
  BY <1>2, BodyDoneType DEF Rejection, PayloadChains
<1>3. CASE u.c = "preParsing"
  BY <1>3, NextOfType DEF Rejection, Payload, PayloadChains, HookChains, RequestChains
<1>4. CASE u.c \in PayloadChains
  BY <1>4, CallbackType DEF Rejection, PayloadChains, HookChains
<1>5. CASE u.c \in HookChains \ (PayloadChains \cup {"preParsing"})
  BY <1>5 DEF Rejection, Later, Frame, FrameOf, Fns, PayloadChains, RunnerFns, HookChains, RequestChains
<1>6. QED
  BY <1>1, <1>2, <1>3, <1>4, <1>5 DEF UserFns, HookChains

(* What Calls records is a history. *)
LEMMA CallsType ==
  ASSUME did \in DidType, NEW c \in UserFns, NEW i \in Nat, Calls(c, i)
  PROVE  did' \in DidType
<1>1. Phase(c) \in Nat
  BY DEF Phase
<1>2. (IF Phase(c) > 0 THEN Phase(c) ELSE did.phase) \in Nat
  BY <1>1 DEF DidType
<1>3. (IF Phase(c) > 0 THEN i ELSE did.hook) \in Nat
  BY DEF DidType
<1>4. (IF c = "errorHandler" THEN did.errorHandler + 1 ELSE did.errorHandler) \in Nat
  BY DEF DidType
<1>5. QED
  BY <1>2, <1>3, <1>4 DEF Calls, DidType

-----------------------------------------------------------------------------
(* Every step keeps the types: one lemma per module, one step per action.  *)

LEMMA RunningType ==
  ASSUME NEW CONSTANT called, LoopTyped(called), NEW fn, Running(fn) \/ Unwinding(fn)
  PROVE  stack # <<>> /\ Top \in Later(called) /\ Top.fn = fn
BY TopType DEF Running, Unwinding

LEMMA HookStepsType ==
  ASSUME NEW CONSTANT called, Typed(called), HookSteps
  PROVE  Typed(called)'
<1> USE DEF Typed, RequestTypeOK, request
<1>1. None \in Payload
  BY DEF Payload
<1>2. CASE HookRunnerEnds
  <2>1. Callback(Top, Top.e) \in Later(called)
    BY <1>2, RunningType, CallbackType DEF HookRunnerEnds, Later, Frame, FrameOf, RunnerFns
  <2>2. QED
    BY <1>2, <2>1, RunningType, GotoType DEF HookRunnerEnds
<1>3. CASE HookDropped
  BY <1>3, RunningType, ReturnType DEF HookDropped
<1>4. CASE HookCalled
  <2>1. Top.c \in UserFns /\ Top.i + 1 \in Nat /\ (Top.c # "onError" \/ called = TRUE)
    BY <1>4, RunningType, FrameFacts DEF HookCalled, RunnerFns
  <2>2. PICK s \in Style[Top.c] : Goto(User(Top, Top.c, Top.i + 1, s))
    BY <1>4 DEF HookCalled
  <2>3. User(Top, Top.c, Top.i + 1, s) \in Later(called)
    BY <1>4, <2>1, <2>2, RunningType, UserType, UserAssumption DEF HookCalled
  <2>4. LoopTyped(called)'
    BY <1>4, <2>2, <2>3, RunningType, GotoType DEF HookCalled
  <2>5. did' \in DidType
    BY <1>4, <2>1, CallsType DEF HookCalled
  <2>6. QED
    BY <1>4, <2>4, <2>5 DEF HookCalled
<1>5. CASE HookRejected
  <2> DEFINE err == IF Top.e = None THEN "Error" ELSE Top.e
  <2>1. err \in Payload
    BY <1>5, RunningType DEF HookRejected, Later, Frame, FrameOf, Payload
  <2>2. Callback(Top, err) \in Later(called)
    BY <1>5, <2>1, RunningType, CallbackType DEF HookRejected, Later, Frame, RunnerFns
  <2>3. LoopTyped(called)'
    BY <1>5, <2>2, RunningType, GotoType DEF HookRejected
  <2>4. reply' \in ReplyType
    BY <1>5 DEF HookRejected, ReplyType
  <2>5. QED
    BY <1>5, <2>3, <2>4 DEF HookRejected
<1>6. CASE PreParsingDropped
  BY <1>6, RunningType, ReturnType DEF PreParsingDropped
<1>7. CASE PreParsingEnds
  <2>1. Callback(Top, Top.e) \in Later(called)
    BY <1>7, RunningType, CallbackType DEF PreParsingEnds, Later, Frame, FrameOf, RunnerFns
  <2>2. LoopTyped(called)'
    BY <1>7, <2>1, RunningType, GotoType DEF PreParsingEnds
  <2>3. reply' \in ReplyType
    BY <1>7 DEF PreParsingEnds, ReplyType
  <2>4. QED
    BY <1>7, <2>2, <2>3 DEF PreParsingEnds
<1>8. CASE PreParsingCalled
  <2>1. /\ Top.c \in UserFns /\ Top.i + 1 \in Nat /\ (Top.c # "onError" \/ called = TRUE)
        /\ "preParsing" \in UserFns
    BY <1>8, RunningType, FrameFacts
    DEF PreParsingCalled, RunnerFns, UserFns, HookChains, RequestChains
  <2>2. PICK s \in Style["preParsing"] : Goto(User(Top, Top.c, Top.i + 1, s))
    BY <1>8 DEF PreParsingCalled
  <2>3. User(Top, Top.c, Top.i + 1, s) \in Later(called)
    BY <1>8, <2>1, <2>2, RunningType, UserType, UserAssumption DEF PreParsingCalled
  <2>4. LoopTyped(called)'
    BY <1>8, <2>2, <2>3, RunningType, GotoType DEF PreParsingCalled
  <2>5. did' \in DidType
    BY <1>8, <2>1, CallsType DEF PreParsingCalled
  <2>6. QED
    BY <1>8, <2>4, <2>5 DEF PreParsingCalled
<1>9. CASE PayloadRunnerFails
  <2>1. Callback(Top, Top.e) \in Later(called)
    BY <1>9, RunningType, CallbackType DEF PayloadRunnerFails, Later, Frame, FrameOf, RunnerFns
  <2>2. QED
    BY <1>9, <2>1, RunningType, GotoType DEF PayloadRunnerFails
<1>10. CASE PayloadRunnerEnds
  <2>1. Callback(Top, None) \in Later(called)
    BY <1>1, <1>10, RunningType, CallbackType DEF PayloadRunnerEnds, Later, Frame, RunnerFns
  <2>2. [Top EXCEPT !.fn = "cbTry"] \in Later(called)
    BY <1>10, RunningType DEF PayloadRunnerEnds, Later, Frame, FrameOf, RunnerFns, Fns
  <2>3. QED
    BY <1>10, <2>1, <2>2, RunningType, CallType DEF PayloadRunnerEnds
<1>11. CASE PayloadHookCalled
  <2>1. Top.c \in UserFns /\ Top.i + 1 \in Nat /\ (Top.c # "onError" \/ called = TRUE)
    BY <1>11, RunningType, FrameFacts DEF PayloadHookCalled, RunnerFns
  <2>2. PICK s \in Style[Top.c] : Goto(User(Top, Top.c, Top.i + 1, s))
    BY <1>11 DEF PayloadHookCalled
  <2>3. User(Top, Top.c, Top.i + 1, s) \in Later(called)
    BY <1>11, <2>1, <2>2, RunningType, UserType, UserAssumption DEF PayloadHookCalled
  <2>4. LoopTyped(called)'
    BY <1>11, <2>2, <2>3, RunningType, GotoType DEF PayloadHookCalled
  <2>5. did' \in DidType
    BY <1>11 DEF PayloadHookCalled, DidType
  <2>6. QED
    BY <1>11, <2>4, <2>5 DEF PayloadHookCalled
<1>12. CASE PayloadCallbackThrew
  <2>1. Callback(Top, exc) \in Later(called)
    BY <1>12, RunningType, CallbackType
    DEF PayloadCallbackThrew, LoopTyped, Later, Frame, RunnerFns
  <2>2. QED
    BY <1>12, <2>1, RunningType, CatchType DEF PayloadCallbackThrew
<1>13. CASE PayloadCallbackReturns
  BY <1>13, RunningType, ReturnType DEF PayloadCallbackReturns
<1>14. QED
  BY <1>2, <1>3, <1>4, <1>5, <1>6, <1>7, <1>8, <1>9, <1>10, <1>11, <1>12, <1>13
  DEF HookSteps

LEMMA ReplyStepsType ==
  ASSUME NEW CONSTANT called, Typed(called), reply.ehCalled = called, ReplySteps
  PROVE  Typed(called)'
<1> USE DEF Typed, RequestTypeOK, request
<1>1. None \in Payload /\ "Error" \in Payload
  BY DEF Payload
<1>2. CASE SendInsideOnError
  BY <1>1, <1>2, RunningType, ThrowType DEF SendInsideOnError
<1>3. CASE SendAgain
  BY <1>3, RunningType, ReturnType DEF SendAgain
<1>4. CASE SendError
  <2>1. [Top EXCEPT !.fn = "onErrorHook", !.e = Top.p, !.k = TRUE] \in Later(called)
    BY <1>1, <1>4, RunningType DEF SendError, Later, Frame, FrameOf, RunnerFns, Fns, Accepting
  <2>2. LoopTyped(called)'
    BY <1>4, <2>1, RunningType, GotoType DEF SendError, Accepting
  <2>3. did' \in DidType
    BY <1>4 DEF SendError, DidType, Accepted
  <2>4. QED
    BY <1>4, <2>2, <2>3 DEF SendError
<1>5. CASE SendAsIs
  <2>1. [Top EXCEPT !.fn = "onSendHook"] \in Later(called)
    BY <1>1, <1>5, RunningType DEF SendAsIs, Later, Frame, FrameOf, RunnerFns, Fns, Accepting
  <2>2. LoopTyped(called)'
    BY <1>5, <2>1, RunningType, GotoType DEF SendAsIs, Accepting
  <2>3. did' \in DidType
    BY <1>5 DEF SendAsIs, DidType, Accepted
  <2>4. QED
    BY <1>5, <2>2, <2>3 DEF SendAsIs
<1>6. CASE SendSerialized
  <2>1. StartChain(Top, "preSerialization") \in Later(called)
    BY <1>6, RunningType, StartChainType
    DEF SendSerialized, Accepting, HookChains, PayloadChains
  <2>2. LoopTyped(called)'
    BY <1>6, <2>1, RunningType, GotoType DEF SendSerialized, Accepting
  <2>3. did' \in DidType
    BY <1>6 DEF SendSerialized, DidType, Accepted
  <2>4. QED
    BY <1>6, <2>2, <2>3 DEF SendSerialized
<1>7. CASE PreserializationFailed
  <2>1. [Top EXCEPT !.fn = "onErrorHook", !.k = FALSE] \in Later(called)
    BY <1>1, <1>7, RunningType DEF PreserializationFailed, Later, Frame, FrameOf, RunnerFns, Fns
  <2>2. LoopTyped(called)'
    BY <1>7, <2>1, RunningType, GotoType DEF PreserializationFailed
  <2>3. QED
    BY <1>7, <2>2 DEF PreserializationFailed
<1>8. CASE SerializerThrows
  BY <1>1, <1>8, RunningType, ThrowType DEF SerializerThrows
<1>9. CASE Serialized
  <2> DEFINE p == IF Top.p = None THEN None ELSE "string"
  <2>1. p \in Payload
    BY DEF Payload
  <2>2. \A q \in Payload : [Top EXCEPT !.fn = "onSendHook", !.p = q] \in Later(called)
    BY <1>9, RunningType DEF Serialized, Later, Frame, FrameOf, RunnerFns, Fns
  <2>3. LoopTyped(called)'
    BY <1>9, <2>1, <2>2, RunningType, GotoType DEF Serialized
  <2>4. QED
    BY <1>9, <2>3 DEF Serialized
<1>10. CASE OnSendHook
  <2>1. StartChain(Top, "onSend") \in Later(called)
    BY <1>10, RunningType, StartChainType DEF OnSendHook, HookChains, PayloadChains
  <2>2. LoopTyped(called)'
    BY <1>10, <2>1, RunningType, GotoType DEF OnSendHook
  <2>3. reply' \in ReplyType
    BY <1>10 DEF OnSendHook, ReplyType
  <2>4. QED
    BY <1>10, <2>2, <2>3 DEF OnSendHook
<1>11. CASE OnSendFailed
  <2>1. [Top EXCEPT !.fn = "onErrorHook", !.k = FALSE] \in Later(called)
    BY <1>1, <1>11, RunningType DEF OnSendFailed, Later, Frame, FrameOf, RunnerFns, Fns
  <2>2. LoopTyped(called)'
    BY <1>11, <2>1, RunningType, GotoType DEF OnSendFailed
  <2>3. QED
    BY <1>11, <2>2 DEF OnSendFailed
<1>12. CASE OnSendPassed
  <2>1. [Top EXCEPT !.fn = "onSendEnd"] \in Later(called)
    BY <1>1, <1>12, RunningType DEF OnSendPassed, Later, Frame, FrameOf, RunnerFns, Fns
  <2>2. LoopTyped(called)'
    BY <1>12, <2>1, RunningType, GotoType DEF OnSendPassed
  <2>3. QED
    BY <1>12, <2>2 DEF OnSendPassed
<1>13. CASE OnSendEndRejects
  BY <1>1, <1>13, RunningType, ThrowType DEF OnSendEndRejects
<1>14. CASE OnSendEnd
  <2>1. [Top EXCEPT !.fn = "writeHead"] \in Later(called)
    BY <1>1, <1>14, RunningType DEF OnSendEnd, Later, Frame, FrameOf, RunnerFns, Fns
  <2>2. LoopTyped(called)'
    BY <1>14, <2>1, RunningType, GotoType DEF OnSendEnd
  <2>3. reply' \in ReplyType
    BY <1>14 DEF OnSendEnd, ReplyType
  <2>4. QED
    BY <1>14, <2>2, <2>3 DEF OnSendEnd
<1>15. CASE SendStream
  <2>1. [Top EXCEPT !.fn = "pipe"] \in Later(called)
    BY <1>1, <1>15, RunningType DEF SendStream, Later, Frame, FrameOf, RunnerFns, Fns
  <2>2. LoopTyped(called)'
    BY <1>15, <2>1, RunningType, LeaveType DEF SendStream
  <2>3. QED
    BY <1>15, <2>2 DEF SendStream
<1>16. CASE WriteHead
  <2>1. LoopTyped(called)'
    BY <1>1, <1>16, RunningType, ReturnType, ThrowType DEF WriteHead
  <2>2. res' \in ResType
    BY <1>16 DEF WriteHead, ResType
  <2>3. QED
    BY <1>16, <2>1, <2>2 DEF WriteHead
<1>17. CASE OnErrorHookRuns
  <2> DEFINE t == [Top EXCEPT !.c = "onError", !.i = 0, !.p = Top.e]
  <2>1. t \in Later(called) /\ t.c \in HookChains
    BY <1>17, RunningType
    DEF OnErrorHookRuns, Later, Frame, FrameOf, RunnerFns, UserFns, HookChains, PayloadChains
  <2>2. NextOf(t, None, None) \in Later(called)
    BY <1>1, <2>1, NextOfType
  <2>3. LoopTyped(called)'
    BY <1>17, <2>2, RunningType, GotoType DEF OnErrorHookRuns
  <2>4. reply' \in ReplyType
    BY <1>17 DEF OnErrorHookRuns, ReplyType
  <2>5. QED
    BY <1>17, <2>3, <2>4 DEF OnErrorHookRuns
<1>18. CASE OnErrorHookSkipped
  <2>1. [Top EXCEPT !.fn = "handleError"] \in Later(called)
    BY <1>1, <1>18, RunningType DEF OnErrorHookSkipped, Later, Frame, FrameOf, RunnerFns, Fns
  <2>2. LoopTyped(called)'
    BY <1>18, <2>1, RunningType, GotoType DEF OnErrorHookSkipped
  <2>3. reply' \in ReplyType
    BY <1>18 DEF OnErrorHookSkipped, ReplyType
  <2>4. QED
    BY <1>18, <2>2, <2>3 DEF OnErrorHookSkipped
<1>19. CASE ErrorHandlerCalled
  <2> DEFINE t == [Top EXCEPT !.p = Top.e, !.e = None]
             g == [Top EXCEPT !.fn = "send", !.p = Top.e, !.e = None]
  <2>1. t \in Later(called) /\ g \in Later(called)
    <3>1. stack # <<>> /\ Top \in Later(called) /\ Top.e \in Payload
      BY <1>19, RunningType, FrameFacts DEF ErrorHandlerCalled
    <3>2. t \in Later(called)
      BY <1>1, <3>1, NewError
    <3>3. g \in Later(called)
      BY <1>1, <3>1, GoesOnAs DEF RunnerFns, Fns
    <3>4. QED
      BY <3>2, <3>3
  <2>2. "errorHandler" \in UserFns /\ 0 \in Nat
    BY DEF UserFns
  <2>3. \A style \in Style["errorHandler"] : User(t, "errorHandler", 0, style) \in Later(called)
    BY <2>1, <2>2, UserType, UserAssumption
  <2>4. LoopTyped(called)'
    BY <1>19, <2>1, <2>3, RunningType, GotoType DEF ErrorHandlerCalled
  <2>5. reply' \in ReplyType
    BY <1>19 DEF ErrorHandlerCalled, ReplyType
  <2>6. res' \in ResType
    BY <1>19 DEF ErrorHandlerCalled, ResType, Raised, Statuses
  <2>7. did' \in DidType
    BY <1>19, <2>2, CallsType DEF ErrorHandlerCalled
  <2>8. QED
    BY <1>19, <2>4, <2>5, <2>6, <2>7 DEF ErrorHandlerCalled
<1>20. CASE ErrorToOnSend
  <2>1. [Top EXCEPT !.fn = "onSendHook", !.p = "string", !.e = None] \in Later(called)
    BY <1>20, RunningType, GoesOnAs DEF ErrorToOnSend, RunnerFns, Fns, Payload
  <2>2. LoopTyped(called)'
    BY <1>20, <2>1, RunningType, GotoType DEF ErrorToOnSend
  <2>3. reply' \in ReplyType
    BY <1>20 DEF ErrorToOnSend, ReplyType
  <2>4. res' \in ResType
    BY <1>20 DEF ErrorToOnSend, ResType, Raised, Statuses
  <2>5. QED
    BY <1>20, <2>2, <2>3, <2>4 DEF ErrorToOnSend
<1>21. CASE ErrorWritten
  <2>1. [Top EXCEPT !.fn = "writeHead", !.p = "string", !.e = None] \in Later(called)
    BY <1>21, RunningType, GoesOnAs DEF ErrorWritten, RunnerFns, Fns, Payload
  <2>2. LoopTyped(called)'
    BY <1>21, <2>1, RunningType, GotoType DEF ErrorWritten
  <2>3. reply' \in ReplyType
    BY <1>21 DEF ErrorWritten, ReplyType
  <2>4. res' \in ResType
    BY <1>21 DEF ErrorWritten, ResType, Raised, Statuses
  <2>5. QED
    BY <1>21, <2>2, <2>3, <2>4 DEF ErrorWritten
<1>22. CASE NotFoundInside404
  <2>1. [Top EXCEPT !.fn = "send", !.p = "string"] \in Later(called)
    BY <1>1, <1>22, RunningType
    DEF NotFoundInside404, Later, Frame, FrameOf, RunnerFns, Fns, Payload
  <2>2. LoopTyped(called)'
    BY <1>22, <2>1, RunningType, GotoType DEF NotFoundInside404
  <2>3. reply' \in ReplyType
    BY <1>22 DEF NotFoundInside404, ReplyType
  <2>4. res' \in ResType
    BY <1>22 DEF NotFoundInside404, ResType, Statuses
  <2>5. QED
    BY <1>22, <2>2, <2>3, <2>4 DEF NotFoundInside404
<1>23. CASE NotFound
  <2>1. StartChain(Top, "preHandler") \in Later(called)
    BY <1>23, RunningType, StartChainType DEF NotFound, HookChains, RequestChains
  <2>2. LoopTyped(called)'
    BY <1>23, <2>1, RunningType, GotoType DEF NotFound
  <2>3. reply' \in ReplyType
    BY <1>23 DEF NotFound, ReplyType
  <2>4. QED
    BY <1>23, <2>2, <2>3 DEF NotFound
<1>24. CASE AwaitedReplySent
  <2>1. Fulfilment(Top) \in Later(called)
    BY <1>24, RunningType, FrameFacts, FulfilmentType DEF AwaitedReplySent
  <2>2. LoopTyped(called)'
    BY <1>24, <2>1, RunningType, SettleType DEF AwaitedReplySent
  <2>3. QED
    BY <1>24, <2>2 DEF AwaitedReplySent
<1>25. CASE AwaitedReplyPending
  <2>1. [Top EXCEPT !.fn = "eos"] \in Later(called)
    BY <1>1, <1>25, RunningType DEF AwaitedReplyPending, Later, Frame, FrameOf, RunnerFns, Fns
  <2>2. LoopTyped(called)'
    BY <1>25, <2>1, RunningType, LeaveType DEF AwaitedReplyPending
  <2>3. QED
    BY <1>25, <2>2 DEF AwaitedReplyPending
<1>26. CASE OnResponseCallback
  BY <1>26, RunningType, ReturnType DEF OnResponseCallback
<1>27. QED
  BY <1>2, <1>3, <1>4, <1>5, <1>6, <1>7, <1>8, <1>9, <1>10, <1>11, <1>12, <1>13, <1>14, <1>15,
     <1>16, <1>17, <1>18, <1>19, <1>20, <1>21, <1>22, <1>23, <1>24, <1>25, <1>26
     DEF ReplySteps

LEMMA UserFrame ==
  ASSUME NEW CONSTANT called, LoopTyped(called), Running("user") \/ Unwinding("user")
  PROVE  /\ stack # <<>>
         /\ Top \in Later(called) /\ Top.c \in UserFns
         /\ Finished(Top) \in Later(called)
BY RunningType DEF Finished, Later, Frame, FrameOf

LEMMA UserStepsType ==
  ASSUME NEW CONSTANT called, Typed(called), UserSteps
  PROVE  Typed(called)'
<1> USE DEF Typed, RequestTypeOK, request, May
<1>1. None \in Payload /\ "Error" \in Payload /\ {"Error", "string"} \subseteq Payload
  BY DEF Payload
<1>2. NewPayloads \subseteq Payload
  BY <1>1, PayloadAssumption DEF NewPayloads
<1>3. SendPayloads \subseteq Payload
  BY PayloadAssumption
<1>4. Failures \subseteq Payload /\ \A u \in UserFns : Rejections[u] \subseteq Payload
  BY <1>1, PayloadAssumption
<1>5. ASSUME Blame PROVE did' \in DidType
  BY <1>5 DEF Blame, DidType
<1>6. ASSUME NEW p \in Payload, NEW f \in Nat
      PROVE  [Plain("send") EXCEPT !.p = p, !.f = f] \in Later(called)
  BY <1>1 DEF Plain, Later, Frame, FrameOf, RunnerFns, Fns
<1>7. did \in DidType => did.sends + 1 \in Nat
  BY DEF DidType
<1>8. MaxSends + 1 \in Nat
  BY RequestAssumption
<1>9. Plain("rawEnd") \in Later(called)
  BY PlainType DEF Fns, RunnerFns
<1>10. CASE UserCallsNext
  <2>1. PICK new \in NewPayloads : Call(Finished(Top), Completion(Top, None, new))
    BY <1>10 DEF UserCallsNext
  <2>2. Completion(Top, None, new) \in Later(called)
    BY <1>1, <1>2, <1>10, <2>1, UserFrame, CompletionType
    DEF UserCallsNext, ByCallback, IsHook
  <2>3. LoopTyped(called)'
    BY <1>10, <2>1, <2>2, UserFrame, CallType DEF UserCallsNext
  <2>4. QED
    BY <1>10, <2>3 DEF UserCallsNext
<1>11. CASE UserFails
  <2>1. PICK err \in Failures : Call(Finished(Top), Completion(Top, err, None))
    BY <1>11 DEF UserFails
  <2>2. Completion(Top, err, None) \in Later(called)
    BY <1>1, <1>4, <1>11, <2>1, UserFrame, CompletionType
    DEF UserFails, ByCallback, IsHook
  <2>3. LoopTyped(called)'
    BY <1>11, <2>1, <2>2, UserFrame, CallType DEF UserFails
  <2>4. QED
    BY <1>5, <1>11, <2>3 DEF UserFails
<1>12. CASE UserThrows
  <2>1. LoopTyped(called)'
    BY <1>4, <1>12 DEF UserThrows, LoopTyped
  <2>2. QED
    BY <1>5, <1>12, <2>1 DEF UserThrows
<1>13. CASE UserSends
  <2>1. PICK p \in SendPayloads :
          Call(Finished(Top), [Plain("send") EXCEPT !.p = p, !.f = did.sends + 1])
    BY <1>13 DEF UserSends
  <2>2. [Plain("send") EXCEPT !.p = p, !.f = did.sends + 1] \in Later(called)
    BY <1>3, <1>6, <1>7, <2>1
  <2>3. LoopTyped(called)'
    BY <1>13, <2>1, <2>2, UserFrame, CallType DEF UserSends
  <2>4. did' \in DidType
    BY <1>13 DEF UserSends, DidType
  <2>5. QED
    BY <1>13, <2>3, <2>4 DEF UserSends
<1>14. CASE UserCallsNotFound
  <2>1. [Plain("notFound") EXCEPT !.f = did.sends + 1] \in Later(called)
    BY <1>1, <1>7 DEF Plain, Later, Frame, FrameOf, RunnerFns, Fns
  <2>2. LoopTyped(called)'
    BY <1>14, <2>1, UserFrame, CallType DEF UserCallsNotFound
  <2>3. did' \in DidType
    BY <1>14 DEF UserCallsNotFound, DidType
  <2>4. QED
    BY <1>14, <2>2, <2>3 DEF UserCallsNotFound
<1>15. CASE UserHijacks
  <2>1. LoopTyped(called)'
    BY <1>9, <1>15, UserFrame, LeaveAndGoType DEF UserHijacks
  <2>2. reply' \in ReplyType /\ did' \in DidType
    BY <1>15 DEF UserHijacks, ReplyType, DidType
  <2>3. QED
    BY <1>15, <2>1, <2>2 DEF UserHijacks
<1>16. CASE UserMarksSent
  <2>1. LoopTyped(called)'
    BY <1>9, <1>16, UserFrame, LeaveAndGoType DEF UserMarksSent
  <2>2. reply' \in ReplyType /\ did' \in DidType
    BY <1>16 DEF UserMarksSent, ReplyType, DidType
  <2>3. QED
    BY <1>16, <2>1, <2>2 DEF UserMarksSent
<1>17. CASE UserSetsNoContent
  BY <1>17 DEF UserSetsNoContent, LoopTyped, loop, ResType, Statuses
<1>18. CASE HandlerReturnsValue
  <2>1. PICK p \in SendPayloads :
          Goto([Plain("send") EXCEPT !.p = p, !.f = MaxSends + 1])
    BY <1>18 DEF HandlerReturnsValue
  <2>2. [Plain("send") EXCEPT !.p = p, !.f = MaxSends + 1] \in Later(called)
    BY <1>3, <1>6, <1>8, <2>1
  <2>3. LoopTyped(called)'
    BY <1>18, <2>1, <2>2, UserFrame, GotoType DEF HandlerReturnsValue
  <2>4. QED
    BY <1>18, <2>3 DEF HandlerReturnsValue
<1>19. CASE UserDefers
  <2>1. [Top EXCEPT !.m = "late"] \in Later(called)
    BY <1>19, UserFrame DEF UserDefers, Later, Frame, FrameOf
  <2>2. QED
    BY <1>19, <2>1, UserFrame, LeaveType DEF UserDefers
<1>20. CASE UserAwaits
  <2>1. [Top EXCEPT !.m = "resumed"] \in Later(called)
    BY <1>20, UserFrame DEF UserAwaits, Later, Frame, FrameOf
  <2>2. QED
    BY <1>20, <2>1, UserFrame, LeaveType DEF UserAwaits
<1>21. CASE UserReturns
  BY <1>21, UserFrame, ReturnType DEF UserReturns
<1>22. CASE HookResolves
  <2>1. PICK new \in NewPayloads : Settle(NextOf(Top, None, new))
    BY <1>22 DEF HookResolves
  <2>2. NextOf(Top, None, new) \in Later(called)
    BY <1>1, <1>2, <1>22, <2>1, UserFrame, NextOfType DEF HookResolves, IsHook
  <2>3. QED
    BY <1>22, <2>1, <2>2, UserFrame, SettleType DEF HookResolves
<1>23. CASE ParserResolves
  BY <1>1, <1>23, UserFrame, BodyDoneType, SettleType DEF ParserResolves
<1>24. CASE HandlerResolves
  <2>1. CASE Settle(Thenable(Top, "fulfilled", None))
    BY <1>1, <1>24, <2>1, UserFrame, ThenableType, SettleType DEF HandlerResolves
  <2>2. ASSUME NEW p \in SendPayloads,
               Settle([Thenable(Top, "fulfilled", p) EXCEPT !.f = MaxSends + 1])
        PROVE  LoopTyped(called)'
    <3>1. Thenable(Top, "fulfilled", p) \in Later(called)
      BY <1>3, <1>24, UserFrame, ThenableType DEF HandlerResolves
    <3>2. [Thenable(Top, "fulfilled", p) EXCEPT !.f = MaxSends + 1] \in Later(called)
      BY <1>8, <3>1 DEF Later, Frame, FrameOf
    <3>3. QED
      BY <1>24, <2>2, <3>2, UserFrame, SettleType DEF HandlerResolves
  <2>3. QED
    BY <1>24, <2>1, <2>2 DEF HandlerResolves
<1>25. CASE UserAwaitsReply
  <2>1. [Top EXCEPT !.fn = "awaitReply"] \in Later(called)
    BY <1>25, UserFrame DEF UserAwaitsReply, Later, Frame, FrameOf, Fns, RunnerFns
  <2>2. QED
    BY <1>25, <2>1, UserFrame, SettleType DEF UserAwaitsReply
<1>26. CASE UserRejects
  <2>1. PICK err \in Rejections[Top.c] : Settle(Rejection(Top, err))
    BY <1>26 DEF UserRejects
  <2>2. Rejection(Top, err) \in Later(called)
    BY <1>4, <1>26, <2>1, UserFrame, RejectionType DEF UserRejects
  <2>3. LoopTyped(called)'
    BY <1>26, <2>1, <2>2, UserFrame, SettleType DEF UserRejects
  <2>4. QED
    BY <1>5, <1>26, <2>3 DEF UserRejects
<1>27. CASE HookThrew
  <2>1. NextOf(Top, exc, None) \in Later(called)
    BY <1>1, <1>27, UserFrame, NextOfType DEF HookThrew, IsHook, LoopTyped
  <2>2. QED
    BY <1>27, <2>1, UserFrame, CatchType DEF HookThrew
<1>28. CASE HandlerThrew
  <2>1. [Top EXCEPT !.fn = "send", !.p = exc, !.done = FALSE] \in Later(called)
    BY <1>28, UserFrame, GoesOnAs DEF HandlerThrew, LoopTyped, Fns, RunnerFns
  <2>2. LoopTyped(called)'
    BY <1>28, <2>1, UserFrame, CatchType DEF HandlerThrew
  <2>3. reply' \in ReplyType
    BY <1>28 DEF HandlerThrew, ReplyType
  <2>4. QED
    BY <1>28, <2>2, <2>3 DEF HandlerThrew
<1>29. CASE AsyncUserThrew
  <2>1. Rejection(Top, exc) \in Later(called)
    BY <1>29, UserFrame, RejectionType DEF AsyncUserThrew, LoopTyped
  <2>2. QED
    BY <1>29, <2>1, UserFrame, CatchSettlingType DEF AsyncUserThrew
<1>30. CASE UserThrewUncaught
  BY <1>30, UserFrame, ReturnType DEF UserThrewUncaught
<1>31. QED
  BY <1>10, <1>11, <1>12, <1>13, <1>14, <1>15, <1>16, <1>17, <1>18, <1>19, <1>20,
     <1>21, <1>22, <1>23, <1>24, <1>25, <1>26, <1>27, <1>28, <1>29, <1>30
  DEF UserSteps

-----------------------------------------------------------------------------
LEMMA LifecycleStepsType ==
  ASSUME NEW CONSTANT called, Typed(called), LifecycleSteps
  PROVE  Typed(called)'
<1> USE DEF Typed, RequestTypeOK, request
<1>1. None \in Payload /\ "Error" \in Payload
  BY DEF Payload
<1>2. ASSUME NEW t \in Later(called), NEW e \in Payload, NEW p \in Payload
      PROVE  [t EXCEPT !.fn = "send", !.p = p] \in Later(called)
  BY <1>2 DEF Later, Frame, FrameOf, RunnerFns, Fns
<1>3. {"onRequest", "preParsing", "preValidation", "preHandler"} \subseteq HookChains
  BY DEF HookChains, RequestChains
<1>4. {"parser", "handler"} \subseteq UserFns /\ 0 \in Nat
  BY DEF UserFns
<1>5. CASE RouteHandler
  <2>1. LoopTyped(called)'
    BY <1>3, <1>5, RunningType, StartChainType, GotoType DEF RouteHandler
  <2>2. HookCount["onResponse"] \in Nat
    BY HooksAssumption DEF HookChains
  <2>3. \A b \in BOOLEAN : [res EXCEPT !.listening = b] \in ResType
    BY DEF ResType
  <2>4. (HookCount["onResponse"] > 0) \in BOOLEAN
    BY <2>2
  <2>5. res' \in ResType
    BY <1>5, <2>3, <2>4 DEF RouteHandler
  <2>6. QED
    BY <1>5, <2>1, <2>5 DEF RouteHandler
<1>6. CASE RunPreParsing
  BY <1>3, <1>6, RunningType, StartChainType, GotoType DEF RunPreParsing
<1>7. CASE CallbackDropped
  BY <1>7, RunningType, ReturnType DEF CallbackDropped
<1>8. CASE CallbackFails
  <2>1. stack # <<>> /\ Top \in Later(called)
    BY <1>8, RunningType DEF CallbackFails
  <2>2. [Top EXCEPT !.fn = "send", !.p = Top.e] \in Later(called)
    BY <2>1 DEF Later, Frame, FrameOf, RunnerFns, Fns
  <2>3. QED
    BY <1>8, <2>1, <2>2, GotoType DEF CallbackFails
<1>9. CASE HandleWithoutBody
  <2>1. stack # <<>> /\ Top \in Later(called)
    BY <1>9, RunningType DEF HandleWithoutBody, Handling
  <2>2. [Top EXCEPT !.fn = "handler"] \in Later(called)
    BY <2>1 DEF Later, Frame, FrameOf, RunnerFns, Fns
  <2>3. QED
    BY <1>9, <2>1, <2>2, GotoType DEF HandleWithoutBody
<1>10. CASE HandleRefused
  BY <1>1, <1>2, <1>10, RunningType, GotoType DEF HandleRefused, Handling
<1>11. CASE HandleBadMethod
  <2>1. LoopTyped(called)'
    BY <1>1, <1>2, <1>11, RunningType, GotoType DEF HandleBadMethod, Handling
  <2>2. res' \in ResType
    BY <1>11 DEF HandleBadMethod, ResType, Statuses
  <2>3. QED
    BY <1>11, <2>1, <2>2 DEF HandleBadMethod
<1>12. CASE HandleCustomParser
  <2>1. stack # <<>> /\ Top \in Later(called)
    BY <1>12, RunningType DEF HandleCustomParser, Handling
  <2>2. \A s \in Style["parser"] : User(Top, "parser", 0, s) \in Later(called)
    BY <1>4, <2>1, UserType, UserAssumption
  <2>3. LoopTyped(called)'
    BY <1>12, <2>1, <2>2, GotoType DEF HandleCustomParser
  <2>4. did' \in DidType
    BY <1>4, <1>12, CallsType DEF HandleCustomParser
  <2>5. QED
    BY <1>12, <2>3, <2>4 DEF HandleCustomParser
<1>13. CASE HandleRawBody
  <2>1. stack # <<>> /\ Top \in Later(called)
    BY <1>13, RunningType DEF HandleRawBody, Handling
  <2>2. [Top EXCEPT !.fn = "rawBody"] \in Later(called)
    BY <2>1 DEF Later, Frame, FrameOf, RunnerFns, Fns
  <2>3. QED
    BY <1>13, <2>1, <2>2, LeaveType DEF HandleRawBody
<1>14. CASE BodyDoneFails
  <2>1. stack # <<>> /\ Top \in Later(called)
    BY <1>14, RunningType DEF BodyDoneFails
  <2>2. [Top EXCEPT !.fn = "send", !.p = Top.e] \in Later(called)
    BY <2>1 DEF Later, Frame, FrameOf, RunnerFns, Fns
  <2>3. QED
    BY <1>14, <2>1, <2>2, GotoType DEF BodyDoneFails
<1>15. CASE BodyDoneHandles
  <2>1. [Top EXCEPT !.fn = "handler"] \in Later(called)
    BY <1>15, RunningType DEF BodyDoneHandles, Later, Frame, FrameOf, RunnerFns, Fns
  <2>2. QED
    BY <1>15, <2>1, RunningType, GotoType DEF BodyDoneHandles
<1>16. CASE Handler
  <2>1. [Top EXCEPT !.fn = "handlerTry"] \in Later(called)
    BY <1>16, RunningType DEF Handler, Later, Frame, FrameOf, RunnerFns, Fns
  <2>2. StartChain(Top, "preValidation") \in Later(called)
    BY <1>3, <1>16, RunningType, StartChainType DEF Handler
  <2>3. QED
    BY <1>16, <2>1, <2>2, RunningType, CallType DEF Handler
<1>17. CASE HandlerTryThrew
  <2>1. [Top EXCEPT !.fn = "preValidationCallback", !.e = exc] \in Later(called)
    BY <1>17, RunningType, GoesOnAs DEF HandlerTryThrew, LoopTyped, RunnerFns, Fns
  <2>2. QED
    BY <1>17, <2>1, RunningType, CatchType DEF HandlerTryThrew
<1>18. CASE HandlerTryReturns
  BY <1>18, RunningType, ReturnType DEF HandlerTryReturns
<1>19. CASE PreValidationCallback
  <2>1. StartChain(Top, "preHandler") \in Later(called)
    BY <1>3, <1>19, RunningType, StartChainType DEF PreValidationCallback
  <2>2. LoopTyped(called)'
    BY <1>1, <1>2, <1>19, <2>1, RunningType, GotoType DEF PreValidationCallback
  <2>3. res' \in ResType
    BY <1>19 DEF PreValidationCallback, ResType, Statuses
  <2>4. QED
    BY <1>19, <2>2, <2>3 DEF PreValidationCallback
<1>20. CASE PreHandlerCallback
  <2>1. stack # <<>> /\ Top \in Later(called)
    BY <1>20, RunningType DEF PreHandlerCallback
  <2>2. \A s \in Style["handler"] : User(Top, "handler", 0, s) \in Later(called)
    BY <1>4, <2>1, UserType, UserAssumption
  <2>3. LoopTyped(called)'
    BY <1>20, <2>1, <2>2, GotoType DEF PreHandlerCallback
  <2>4. did' \in DidType
    BY <1>4, <1>20, CallsType DEF PreHandlerCallback
  <2>5. QED
    BY <1>20, <2>3, <2>4 DEF PreHandlerCallback
<1>21. CASE FulfilledSends
  <2>1. /\ [Top EXCEPT !.fn = "thenTry"] \in Later(called)
        /\ [Top EXCEPT !.fn = "send", !.e = None] \in Later(called)
    BY <1>1, <1>21, RunningType, GoesOnAs DEF FulfilledSends, RunnerFns, Fns
  <2>2. QED
    BY <1>21, <2>1, RunningType, CallType DEF FulfilledSends
<1>22. CASE FulfilledIgnored
  BY <1>22, RunningType, ReturnType DEF FulfilledIgnored
<1>23. CASE ThenTryThrew
  <2>1. [Top EXCEPT !.fn = "send", !.p = exc, !.e = None] \in Later(called)
    BY <1>1, <1>23, RunningType, GoesOnAs DEF ThenTryThrew, LoopTyped, RunnerFns, Fns
  <2>2. LoopTyped(called)'
    BY <1>23, <2>1, RunningType, CatchType DEF ThenTryThrew
  <2>3. reply' \in ReplyType
    BY <1>23 DEF ThenTryThrew, ReplyType
  <2>4. QED
    BY <1>23, <2>2, <2>3 DEF ThenTryThrew
<1>24. CASE RejectedSends
  <2>1. [Top EXCEPT !.fn = "send", !.e = None] \in Later(called)
    BY <1>1, <1>24, RunningType DEF RejectedSends, Later, Frame, FrameOf, RunnerFns, Fns
  <2>2. LoopTyped(called)'
    BY <1>24, <2>1, RunningType, GotoType DEF RejectedSends
  <2>3. reply' \in ReplyType
    BY <1>24 DEF RejectedSends, ReplyType
  <2>4. QED
    BY <1>24, <2>2, <2>3 DEF RejectedSends
<1>25. CASE RejectedIgnored
  BY <1>25, RunningType, ReturnType DEF RejectedIgnored
<1>26. QED
  BY <1>5, <1>6, <1>7, <1>8, <1>9, <1>10, <1>11, <1>12, <1>13, <1>14, <1>15,
     <1>16, <1>17, <1>18, <1>19, <1>20, <1>21, <1>22, <1>23, <1>24, <1>25
  DEF LifecycleSteps

(* What the platform starts, and what happens to the response. *)
LEMMA PlatformStepsType ==
  ASSUME NEW CONSTANT called, Typed(called), PlatformSteps \/ Mishap
  PROVE  Typed(called)'
<1> USE DEF Typed, RequestTypeOK, request
<1>1. None \in Payload /\ "Error" \in Payload
  BY DEF Payload
<1>2. ASSUME OnResFinished PROVE LoopTyped(called)' /\ did' \in DidType
  <2>1. CASE res.listening
    <3> DEFINE t2 == [Plain("hookNext") EXCEPT !.c = "onResponse", !.i = 0, !.e = None]
    <3>1. t2 \in Later(called) /\ t2.c \in HookChains
      BY <1>1 DEF Plain, Later, Frame, FrameOf, RunnerFns, Fns, HookChains, UserFns
    <3>2. Callback(t2, None) \in Later(called) /\ NextOf(t2, None, None) \in Later(called)
      BY <1>1, <3>1, CallbackType, NextOfType
    <3>3. StartChain(Plain("hookNext"), "onResponse") \in Later(called)
      BY <3>2 DEF StartChain
    <3>4. QED
      BY <1>2, <2>1, <3>3, StartEventType DEF OnResFinished, DidType
  <2>2. CASE ~res.listening
    BY <1>2, <2>2 DEF OnResFinished, LoopTyped, loop
  <2>3. QED
    BY <2>1, <2>2
<1>3. CASE RunPromiseJob
  BY <1>3, RunReadyType DEF RunPromiseJob
<1>4. CASE UserGoesOn
  BY <1>4, JobType, StartTurnType DEF UserGoesOn
<1>5. CASE RawEnd
  <2>1. LoopTyped(called)'
    BY <1>5, DropJobType DEF RawEnd
  <2>2. res' \in ResType
    BY <1>5 DEF RawEnd, ResType
  <2>3. QED
    BY <1>5, <2>1, <2>2 DEF RawEnd
<1>6. CASE RawBodyDone
  <2>1. PICK j \in jobs, err \in {None, "Error"} :
          StartTurn("callback", j, BodyDone(j, err))
    BY <1>6 DEF RawBodyDone
  <2>2. BodyDone(j, err) \in Later(called)
    BY <1>1, <2>1, JobType, BodyDoneType
  <2>3. QED
    BY <1>6, <2>1, <2>2, StartTurnType DEF RawBodyDone
<1>7. CASE RawBodyBroken
  <2>1. PICK j \in jobs :
          StartTurn("callback", j, [j EXCEPT !.fn = "send", !.p = "Error"])
    BY <1>7 DEF RawBodyBroken
  <2>2. [j EXCEPT !.fn = "send", !.p = "Error"] \in Later(called)
    BY <1>1, <2>1, JobType, GoesOnAs DEF RunnerFns, Fns
  <2>3. LoopTyped(called)'
    BY <1>7, <2>1, <2>2, StartTurnType
  <2>4. res' \in ResType
    BY <1>7 DEF RawBodyBroken, ResType, Statuses
  <2>5. QED
    BY <1>7, <2>3, <2>4 DEF RawBodyBroken
<1>8. CASE StreamData
  <2>1. LoopTyped(called)'
    BY <1>8 DEF StreamData, LoopTyped, loop
  <2>2. res' \in ResType
    BY <1>8 DEF StreamData, ResType
  <2>3. QED
    BY <1>8, <2>1, <2>2 DEF StreamData
<1>9. CASE StreamEnd
  <2>1. LoopTyped(called)'
    BY <1>9, DropJobType DEF StreamEnd
  <2>2. res' \in ResType
    BY <1>9 DEF StreamEnd, ResType
  <2>3. QED
    BY <1>9, <2>1, <2>2 DEF StreamEnd
<1>10. CASE StreamErrorAfterHead
  <2>1. LoopTyped(called)'
    BY <1>10, DropJobType DEF StreamErrorAfterHead
  <2>2. res' \in ResType
    BY <1>10 DEF StreamErrorAfterHead, ResType
  <2>3. QED
    BY <1>10, <2>1, <2>2 DEF StreamErrorAfterHead
<1>11. CASE StreamErrorBeforeHead
  <2>1. PICK j \in PipeJob :
          StartTurn("callback", j,
                    [j EXCEPT !.fn = "onErrorHook", !.e = "Error", !.k = FALSE])
    BY <1>11 DEF StreamErrorBeforeHead
  <2>2. [j EXCEPT !.fn = "onErrorHook", !.e = "Error", !.k = FALSE] \in Later(called)
    BY <1>1, <2>1, JobType, GoesOnAs DEF PipeJob, RunnerFns, Fns
  <2>3. QED
    BY <1>11, <2>1, <2>2, StartTurnType DEF StreamErrorBeforeHead
<1>12. CASE AwaitedReplyOver
  <2>1. PICK j \in jobs : j.fn = "eos" /\ SettleJob(j, Fulfilment(j))
    BY <1>12 DEF AwaitedReplyOver
  <2>2. j \in Later(called) /\ j.c \in UserFns
    BY <2>1, JobType DEF Later, Frame
  <2>3. QED
    BY <1>12, <2>1, <2>2, FulfilmentType, SettleJobType DEF AwaitedReplyOver
<1>13. CASE ResFinish
  <2>1. res' \in ResType
    BY <1>13 DEF ResFinish, ResType
  <2>2. QED
    BY <1>2, <1>13, <2>1 DEF ResFinish
<1>14. CASE ResError
  <2>1. res' \in ResType
    BY <1>14 DEF ResError, ResType
  <2>2. QED
    BY <1>2, <1>14, <2>1 DEF ResError
<1>15. CASE ProcessLost
  BY <1>15 DEF ProcessLost, Escapes, LoopTyped
<1>16. CASE ClientAborts
  BY <1>16 DEF ClientAborts, LoopTyped, loop, ResType
<1>17. QED
  BY <1>3, <1>4, <1>5, <1>6, <1>7, <1>8, <1>9, <1>10, <1>11, <1>12, <1>13, <1>14,
     <1>15, <1>16 DEF PlatformSteps, Mishap

-----------------------------------------------------------------------------
(* The request starts with routeHandler, and with nothing else.            *)

LEMMA OnlyRouteHandler ==
  ASSUME Init
  PROVE  /\ stack = <<Plain("routeHandler")>> /\ jobs = {} /\ fault = "none" /\ ~Idle
         /\ \A fn : Running(fn) => fn = "routeHandler"
         /\ \A fn : ~Unwinding(fn)
<1>1. /\ stack = <<Plain("routeHandler")>> /\ jobs = {} /\ exc = None /\ fault = "none"
      /\ stack # <<>> /\ Top.fn = "routeHandler"
  BY DEF Init, LoopInit, Top, Plain
<1>2. QED
  BY <1>1 DEF Idle, Running, Unwinding

LEMMA FirstStep ==
  ASSUME Init, Next
  PROVE  RouteHandler
<1>1. ~HookSteps
  BY OnlyRouteHandler
  DEF HookSteps, HookRunnerEnds, HookDropped, HookCalled, HookRejected, PreParsingDropped,
      PreParsingEnds, PreParsingCalled, PayloadRunnerFails, PayloadRunnerEnds,
      PayloadHookCalled, PayloadCallbackThrew, PayloadCallbackReturns
<1>2. ~ReplySteps
  BY OnlyRouteHandler
  DEF ReplySteps, SendInsideOnError, SendAgain, SendError, SendAsIs, SendSerialized, Accepting,
      PreserializationFailed, SerializerThrows, Serialized, OnSendHook, OnSendFailed,
      OnSendPassed, OnSendEndRejects, OnSendEnd, SendStream, WriteHead, OnErrorHookRuns,
      OnErrorHookSkipped, ErrorHandlerCalled, ErrorToOnSend, ErrorWritten,
      NotFoundInside404, NotFound, AwaitedReplySent, AwaitedReplyPending, OnResponseCallback
<1>3. ~UserSteps
  BY OnlyRouteHandler
  DEF UserSteps, May, UserCallsNext, UserFails, UserThrows, UserSends, UserCallsNotFound,
      UserHijacks, UserMarksSent, UserSetsNoContent, HandlerReturnsValue, UserDefers,
      UserAwaits, UserReturns, HookResolves, ParserResolves, HandlerResolves,
      UserAwaitsReply, UserRejects, HookThrew, HandlerThrew, AsyncUserThrew, UserThrewUncaught
<1>4. LifecycleSteps => RouteHandler
  BY OnlyRouteHandler
  DEF LifecycleSteps, RunPreParsing, CallbackDropped, CallbackFails, Handling,
      HandleWithoutBody, HandleRefused, HandleBadMethod, HandleCustomParser, HandleRawBody,
      BodyDoneFails, BodyDoneHandles, Handler, HandlerTryThrew, HandlerTryReturns,
      PreValidationCallback, PreHandlerCallback, FulfilledSends, FulfilledIgnored,
      ThenTryThrew, RejectedSends, RejectedIgnored
<1>5. ~PlatformSteps /\ ~Mishap
  <2>1. stack # <<>>
    BY OnlyRouteHandler
  <2>2. ~OnResFinished
    BY OnlyRouteHandler DEF OnResFinished, StartEvent
  <2>3. ~RunPromiseJob /\ ~ProcessLost
    BY <2>1 DEF RunPromiseJob, RunReady, ProcessLost, Escapes
  <2>4. QED
    BY <2>2, <2>3, OnlyRouteHandler
    DEF PlatformSteps, Mishap, UserGoesOn, RawEnd, RawBodyDone, RawBodyBroken, StreamData,
        StreamEnd, StreamErrorAfterHead, StreamErrorBeforeHead, PipeJob, AwaitedReplyOver,
        ResFinish, ResError, ClientAborts, StartTurn, DropJob, SettleJob
<1>6. ~Stutter
  BY OnlyRouteHandler DEF Stutter, Over
<1>7. QED
  BY <1>1, <1>2, <1>3, <1>4, <1>5, <1>6 DEF Next, Progress

LEMMA InitTypes == Init => LoopTypeOK /\ RequestTypeOK
<1>1. Plain("routeHandler") \in Frame
  BY DEF Plain, Frame, FrameOf, Payload, RunnerFns, Fns
<1>2. <<Plain("routeHandler")>> \in Seq(Frame)
  BY <1>1
<1>3. ASSUME Init PROVE LoopTypeOK
  BY <1>2, <1>3 DEF Init, LoopInit, LoopTypeOK, Payload
<1>4. ASSUME Init PROVE RequestTypeOK
  BY <1>4 DEF Init, ExchangeInit, RequestTypeOK, ReplyType, ResType, DidType, Statuses
<1>5. QED
  BY <1>3, <1>4

(* Sequences with one frame, and sequences of frames of a larger set. *)
LEMMA OneFrame ==
  ASSUME NEW S, NEW x \in S
  PROVE  /\ <<x>> \in Seq(S) /\ Head(<<x>>) = x /\ Tail(<<x>>) = <<>>
         /\ <<x>> \o <<>> = <<x>>
OBVIOUS

LEMMA SeqGrows ==
  ASSUME NEW S, NEW T, S \subseteq T, NEW q \in Seq(S)
  PROVE  q \in Seq(T)
OBVIOUS

(* The runner of the onRequest hooks, or what follows when there is none. *)
LEMMA FirstChain == StartChain(Plain("routeHandler"), "onRequest") \in Later(FALSE)
<1> DEFINE t2 == [Plain("routeHandler") EXCEPT !.c = "onRequest", !.i = 0, !.e = None]
<1>1. t2 \in FrameOf(Fns, UserFns \cup {"none"}) /\ t2.c = "onRequest" /\ None \in Payload
  BY DEF Plain, FrameOf, Payload, Fns, UserFns, HookChains, RequestChains
<1> HIDE DEF t2
<1>2. Callback(t2, None) \in Later(FALSE)
  <2>1. CallbackOf[t2.c] = "runPreParsing"
    BY <1>1 DEF CallbackOf
  <2>2. QED
    BY <1>1, <2>1 DEF Callback, Later, Frame, FrameOf, Fns, RunnerFns
<1>3. NextOf(t2, None, None) \in Later(FALSE)
  BY <1>1 DEF NextOf, PayloadChains, Later, Frame, FrameOf, Fns, RunnerFns, HookChains, RequestChains
<1>4. QED
  BY <1>2, <1>3 DEF StartChain, t2

LEMMA Routed ==
  ASSUME Init, RouteHandler
  PROVE  Typed(FALSE)'
<1> DEFINE first == Plain("routeHandler")
           g == StartChain(first, "onRequest")
<1>1. stack = <<first>>
  BY OnlyRouteHandler
<1>2. g \in Later(FALSE)
  BY FirstChain
<1> HIDE DEF first
<1>3. Top = first /\ Tail(stack) = <<>>
  BY <1>1, OneFrame DEF Top
<1>4. stack' = <<g>> \o <<>>
  BY <1>3 DEF RouteHandler, Goto
<1> HIDE DEF g
<1>5. stack' \in Seq(Later(FALSE))
  BY <1>2, <1>4, OneFrame
<1>6. ready \in Seq(Later(FALSE)) /\ jobs \subseteq Later(FALSE)
  BY DEF Init, LoopInit
<1>7. LoopTyped(FALSE)'
  BY <1>5, <1>6 DEF RouteHandler, Goto, Init, LoopInit, LoopTyped, Payload
<1>8. res' \in ResType
  <2>1. HookCount["onResponse"] \in Nat
    BY HooksAssumption DEF HookChains
  <2>2. \A b \in BOOLEAN : [res EXCEPT !.listening = b] \in ResType
    BY InitTypes DEF RequestTypeOK, ResType
  <2>3. (HookCount["onResponse"] > 0) \in BOOLEAN
    BY <2>1
  <2>4. QED
    BY <2>2, <2>3 DEF RouteHandler
<1>9. QED
  BY <1>7, <1>8, InitTypes DEF RouteHandler, Typed, RequestTypeOK

-----------------------------------------------------------------------------
(* The error handler.  did counts its calls without a bound; that there is *)
(* at most one rests on ehCalled (kReplyErrorHandlerCalled), which only    *)
(* its call sets and nothing resets, although handleError, notFound and    *)
(* wrapThenable reset the other flags of the reply.                        *)

HandlerCounted == did.errorHandler = IF reply.ehCalled THEN 1 ELSE 0

SameHandled ==
  reply'.ehCalled = reply.ehCalled /\ did'.errorHandler = did.errorHandler

(* A call of any other user function is none of the error handler. *)
LEMMA CallsOther ==
  ASSUME did \in DidType, NEW c, NEW i, c # "errorHandler", Calls(c, i)
  PROVE  did'.errorHandler = did.errorHandler
BY DEF Calls, DidType

LEMMA RequestUnchanged ==
  ASSUME UNCHANGED request
  PROVE  SameHandled
BY DEF request, SameHandled

LEMMA HookStepsHandled ==
  ASSUME NEW CONSTANT called, Typed(called), HookSteps
  PROVE  SameHandled
<1> USE DEF Typed, RequestTypeOK, SameHandled
<1>1. CASE \/ HookRunnerEnds \/ HookDropped \/ PreParsingDropped \/ PayloadRunnerFails
           \/ PayloadRunnerEnds \/ PayloadCallbackThrew \/ PayloadCallbackReturns
  BY <1>1, RequestUnchanged
  DEF HookRunnerEnds, HookDropped, PreParsingDropped, PayloadRunnerFails,
      PayloadRunnerEnds, PayloadCallbackThrew, PayloadCallbackReturns
<1>2. CASE HookCalled
  <2>1. Top.c # "errorHandler"
    BY <1>2, RunningType
    DEF HookCalled, Later, Frame, RunnerFns, HookChains, RequestChains, PayloadChains
  <2>2. QED
    BY <1>2, <2>1, CallsOther DEF HookCalled
<1>3. CASE PreParsingCalled
  BY <1>3, CallsOther DEF PreParsingCalled
<1>4. CASE HookRejected \/ PreParsingEnds
  BY <1>4 DEF HookRejected, PreParsingEnds, ReplyType
<1>5. CASE PayloadHookCalled
  BY <1>5 DEF PayloadHookCalled, DidType
<1>6. QED
  BY <1>1, <1>2, <1>3, <1>4, <1>5 DEF HookSteps

LEMMA ReplyStepsHandled ==
  ASSUME NEW CONSTANT called, Typed(called), ReplySteps, ~ErrorHandlerCalled
  PROVE  SameHandled
<1> USE DEF Typed, RequestTypeOK, SameHandled
<1>1. CASE \/ SendInsideOnError \/ SendAgain \/ PreserializationFailed
           \/ SerializerThrows \/ Serialized \/ OnSendFailed \/ OnSendPassed
           \/ OnSendEndRejects \/ SendStream \/ AwaitedReplySent
           \/ AwaitedReplyPending \/ OnResponseCallback
  BY <1>1, RequestUnchanged
  DEF SendInsideOnError, SendAgain, PreserializationFailed, SerializerThrows,
      Serialized, OnSendFailed, OnSendPassed, OnSendEndRejects, SendStream,
      AwaitedReplySent, AwaitedReplyPending, OnResponseCallback
<1>2. CASE SendError \/ SendAsIs \/ SendSerialized
  BY <1>2 DEF SendError, SendAsIs, SendSerialized, Accepted, DidType
<1>3. CASE OnSendHook \/ OnSendEnd \/ OnErrorHookRuns \/ OnErrorHookSkipped
  BY <1>3 DEF OnSendHook, OnSendEnd, OnErrorHookRuns, OnErrorHookSkipped, ReplyType
<1>4. CASE WriteHead
  BY <1>4 DEF WriteHead
<1>5. CASE ErrorToOnSend \/ ErrorWritten \/ NotFoundInside404 \/ NotFound
  BY <1>5 DEF ErrorToOnSend, ErrorWritten, NotFoundInside404, NotFound, ReplyType
<1>6. QED
  BY <1>1, <1>2, <1>3, <1>4, <1>5 DEF ReplySteps

LEMMA UserStepsHandled ==
  ASSUME NEW CONSTANT called, Typed(called), UserSteps
  PROVE  SameHandled
<1> USE DEF Typed, RequestTypeOK, SameHandled
<1>1. CASE \/ UserCallsNext \/ HandlerReturnsValue \/ UserDefers \/ UserAwaits
           \/ UserReturns \/ HookResolves \/ ParserResolves \/ HandlerResolves
           \/ UserAwaitsReply \/ HookThrew \/ AsyncUserThrew \/ UserThrewUncaught
  BY <1>1, RequestUnchanged
  DEF UserCallsNext, HandlerReturnsValue, UserDefers, UserAwaits, UserReturns,
      HookResolves, ParserResolves, HandlerResolves, UserAwaitsReply, HookThrew,
      AsyncUserThrew, UserThrewUncaught
<1>2. CASE UserFails \/ UserThrows \/ UserRejects
  BY <1>2 DEF UserFails, UserThrows, UserRejects, Blame, DidType
<1>3. CASE UserSends \/ UserCallsNotFound
  BY <1>3 DEF UserSends, UserCallsNotFound, DidType
<1>4. CASE UserHijacks \/ UserMarksSent
  BY <1>4 DEF UserHijacks, UserMarksSent, DidType, ReplyType
<1>5. CASE UserSetsNoContent \/ HandlerThrew
  BY <1>5 DEF UserSetsNoContent, HandlerThrew, ReplyType
<1>6. QED
  BY <1>1, <1>2, <1>3, <1>4, <1>5 DEF UserSteps

LEMMA LifecycleStepsHandled ==
  ASSUME NEW CONSTANT called, Typed(called), LifecycleSteps
  PROVE  SameHandled
<1> USE DEF Typed, RequestTypeOK, SameHandled
<1>1. CASE \/ RunPreParsing \/ CallbackDropped \/ CallbackFails \/ HandleWithoutBody
           \/ HandleRefused \/ HandleRawBody \/ BodyDoneFails \/ BodyDoneHandles
           \/ Handler \/ HandlerTryThrew \/ HandlerTryReturns \/ FulfilledSends
           \/ FulfilledIgnored \/ RejectedIgnored
  BY <1>1, RequestUnchanged
  DEF RunPreParsing, CallbackDropped, CallbackFails, HandleWithoutBody, HandleRefused,
      HandleRawBody, BodyDoneFails, BodyDoneHandles, Handler, HandlerTryThrew,
      HandlerTryReturns, FulfilledSends, FulfilledIgnored, RejectedIgnored
<1>2. CASE RouteHandler \/ HandleBadMethod \/ PreValidationCallback
  BY <1>2 DEF RouteHandler, HandleBadMethod, PreValidationCallback
<1>3. CASE HandleCustomParser \/ PreHandlerCallback
  BY <1>3, CallsOther DEF HandleCustomParser, PreHandlerCallback
<1>4. CASE ThenTryThrew \/ RejectedSends
  BY <1>4 DEF ThenTryThrew, RejectedSends, ReplyType
<1>5. QED
  BY <1>1, <1>2, <1>3, <1>4 DEF LifecycleSteps

LEMMA PlatformStepsHandled ==
  ASSUME NEW CONSTANT called, Typed(called), PlatformSteps \/ Mishap
  PROVE  SameHandled
<1> USE DEF Typed, RequestTypeOK, SameHandled
<1>1. CASE \/ RunPromiseJob \/ UserGoesOn \/ RawBodyDone \/ StreamErrorBeforeHead
           \/ AwaitedReplyOver \/ ProcessLost
  BY <1>1, RequestUnchanged
  DEF RunPromiseJob, UserGoesOn, RawBodyDone, StreamErrorBeforeHead,
      AwaitedReplyOver, ProcessLost
<1>2. CASE \/ RawEnd \/ RawBodyBroken \/ StreamData \/ StreamEnd
           \/ StreamErrorAfterHead \/ ClientAborts
  BY <1>2
  DEF RawEnd, RawBodyBroken, StreamData, StreamEnd, StreamErrorAfterHead, ClientAborts
<1>3. CASE ResFinish \/ ResError
  BY <1>3 DEF ResFinish, ResError, OnResFinished, DidType
<1>4. QED
  BY <1>1, <1>2, <1>3 DEF PlatformSteps, Mishap

-----------------------------------------------------------------------------
(* The whole specification.                                                *)

(* From routeHandler on, every frame is one of those of Later. *)
Handled == HandlerCounted /\ (Init \/ Typed(reply.ehCalled))

LEMMA LaterGrows ==
  /\ Later(FALSE) \subseteq Later(TRUE)
  /\ \A q \in Seq(Later(FALSE)) : q \in Seq(Later(TRUE))
<1>1. Later(FALSE) \subseteq Later(TRUE)
  BY DEF Later
<1>2. QED
  BY <1>1, SeqGrows

LEMMA StepTyped ==
  ASSUME NEW CONSTANT called, Typed(called), reply.ehCalled = called, [Next]_vars
  PROVE  Typed(called)' /\ (SameHandled \/ ErrorHandlerCalled)
<1>1. CASE UNCHANGED vars
  BY <1>1, RequestUnchanged DEF vars, loop, request, Typed, LoopTyped, RequestTypeOK
<1>2. CASE HookSteps \/ UserSteps \/ LifecycleSteps
  BY <1>2, HookStepsType, UserStepsType, LifecycleStepsType, HookStepsHandled,
     UserStepsHandled, LifecycleStepsHandled
<1>3. CASE ReplySteps
  BY <1>3, ReplyStepsType, ReplyStepsHandled
<1>4. CASE PlatformSteps \/ Mishap
  BY <1>4, PlatformStepsType, PlatformStepsHandled
<1>5. QED
  BY <1>1, <1>2, <1>3, <1>4 DEF Next, Progress, Stutter

LEMMA ErrorHandlerCounted ==
  ASSUME RequestTypeOK, ErrorHandlerCalled
  PROVE  ~reply.ehCalled /\ reply'.ehCalled = TRUE /\ did'.errorHandler = did.errorHandler + 1
BY DEF ErrorHandlerCalled, Calls, RequestTypeOK, DidType, ReplyType

LEMMA HandledStep == Handled /\ [Next]_vars => Handled'
<1> SUFFICES ASSUME Handled, [Next]_vars PROVE Handled'
  OBVIOUS
<1>1. CASE Init
  <2>1. CASE UNCHANGED vars
    BY <1>1, <2>1
    DEF Handled, HandlerCounted, Init, LoopInit, ExchangeInit, vars, loop, request
  <2>2. CASE Next
    <3>1. RouteHandler
      BY <1>1, <2>2, FirstStep
    <3>2. UNCHANGED <<reply, did>> /\ reply.ehCalled = FALSE
      BY <1>1, <3>1 DEF RouteHandler, Init, ExchangeInit
    <3>3. QED
      BY <1>1, <3>1, <3>2, Routed DEF Handled, HandlerCounted
  <2>3. QED
    BY <2>1, <2>2
<1>2. CASE Typed(reply.ehCalled)
  <2>1. reply.ehCalled \in BOOLEAN /\ RequestTypeOK
    BY <1>2 DEF Typed, RequestTypeOK, ReplyType
  <2>2. CASE reply.ehCalled = TRUE
    <3>1. Typed(TRUE)' /\ (SameHandled \/ ErrorHandlerCalled)
      BY <1>2, <2>2, StepTyped
    <3>2. SameHandled
      BY <2>1, <2>2, <3>1, ErrorHandlerCounted
    <3>3. QED
      BY <2>2, <3>1, <3>2 DEF Handled, HandlerCounted, SameHandled
  <2>3. CASE reply.ehCalled = FALSE
    <3>1. Typed(FALSE)' /\ (SameHandled \/ ErrorHandlerCalled)
      BY <1>2, <2>3, StepTyped
    <3>2. CASE SameHandled
      BY <2>3, <3>1, <3>2 DEF Handled, HandlerCounted, SameHandled
    <3>3. CASE ErrorHandlerCalled
      <4>1. reply'.ehCalled = TRUE /\ did'.errorHandler = did.errorHandler + 1
        BY <2>1, <3>3, ErrorHandlerCounted
      <4>2. LoopTyped(TRUE)'
        BY <3>1, LaterGrows DEF Typed, LoopTyped
      <4>3. Typed(TRUE)'
        BY <3>1, <4>2 DEF Typed
      <4>4. HandlerCounted'
        <5>1. did.errorHandler = 0
          BY <2>3 DEF Handled, HandlerCounted
        <5>2. QED
          BY <4>1, <5>1 DEF HandlerCounted
      <4>5. Typed(reply.ehCalled)'
        BY <4>1, <4>3
      <4>6. QED
        BY <4>4, <4>5 DEF Handled
    <3>4. QED
      BY <3>1, <3>2, <3>3
  <2>4. QED
    BY <2>1, <2>2, <2>3
<1>3. QED
  BY <1>1, <1>2 DEF Handled

LEMMA AlwaysHandled == Spec => []Handled
<1>1. ASSUME Init PROVE Handled
  <2>1. HandlerCounted
    BY <1>1 DEF Init, ExchangeInit, HandlerCounted
  <2>2. QED
    BY <1>1, <2>1 DEF Handled
<1>2. QED
  BY <1>1, HandledStep, PTL DEF Spec

(* The state of the loop, of the reply and of the response keeps its type: *)
(* every frame a step of the code builds is one some action runs, and a    *)
(* frame of a hook runner or of a promise of user code names the chain or  *)
(* the function it works for.                                              *)
THEOREM TypeCorrect == Spec => []TypeOK
<1>1. Handled => TypeOK
  <2>1. ASSUME NEW CONSTANT called, Typed(called) PROVE TypeOK
    <3>1. Later(called) \subseteq Frame
      BY DEF Later
    <3>2. \A q \in Seq(Later(called)) : q \in Seq(Frame)
      BY <3>1
    <3>3. QED
      BY <2>1, <3>1, <3>2 DEF Typed, LoopTyped, TypeOK, LoopTypeOK
  <2>2. Typed(reply.ehCalled) => reply.ehCalled \in BOOLEAN
    BY DEF Typed, RequestTypeOK, ReplyType
  <2>3. Typed(reply.ehCalled) => Typed(TRUE) \/ Typed(FALSE)
    BY <2>2
  <2>4. QED
    BY <2>1, <2>3, InitTypes DEF Handled, TypeOK
<1>2. QED
  BY <1>1, AlwaysHandled, PTL

(* The error handler of a route is called at most once for a request,      *)
(* whatever hooks, handlers, serializers and streams fail, and in whatever *)
(* order (docs/Errors.md; kReplyErrorHandlerCalled in lib/reply.js).       *)
THEOREM ErrorHandlerCalledOnce == Spec => []ErrorHandlerOnce
<1>1. Handled => ErrorHandlerOnce
  BY DEF Handled, HandlerCounted, ErrorHandlerOnce
<1>2. QED
  BY <1>1, AlwaysHandled, PTL

(* Whatever fails, and whenever: onError hooks run, wait or are due only   *)
(* for an error that the error handler sent, never for the one that is on  *)
(* its way to it (onErrorHook and handleError of lib/reply.js).            *)
THEOREM OnErrorHooksFollowHandler == Spec => []OnErrorAfterErrorHandler
<1>1. Handled => OnErrorAfterErrorHandler
  <2>1. ASSUME Init PROVE OnErrorAfterErrorHandler
    BY <2>1 DEF Init, LoopInit, OnErrorAfterErrorHandler, Elements, Plain
  <2>2. ASSUME Typed(reply.ehCalled), ~reply.ehCalled PROVE OnErrorAfterErrorHandler
    <3>1. \A x \in Later(reply.ehCalled) : x.c # "onError"
      BY <2>2 DEF Later
    <3>2. \A x \in jobs \cup Elements(stack) \cup Elements(ready) : x \in Later(reply.ehCalled)
      BY <2>2 DEF Typed, LoopTyped, Elements
    <3>3. QED
      BY <3>1, <3>2 DEF OnErrorAfterErrorHandler
  <2>3. ASSUME reply.ehCalled PROVE OnErrorAfterErrorHandler
    BY <2>3 DEF OnErrorAfterErrorHandler
  <2>4. QED
    BY <2>1, <2>2, <2>3 DEF Handled
<1>2. QED
  BY <1>1, AlwaysHandled, PTL
=============================================================================
