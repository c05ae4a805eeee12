--------------------------- MODULE ContractProofs ---------------------------
(***************************************************************************)
(* What the exchange keeps for every number of hooks, every way user code  *)
(* may be written and every bound: the contract of a response              *)
(* (ResponseContract, the safety part of the refinement), and below it     *)
(* reply.sent as the lock on the response, the way through onSend, taken   *)
(* by all that is written and twice at most, the order in which the        *)
(* functions of the request phase are called, and that what is thrown is   *)
(* caught.                                                                 *)
(***************************************************************************)
EXTENDS LifecycleProofs, SequenceTheorems

(* What client and onResponse hooks have seen, and whether a listener is   *)
(* left: a response that ended has a head, the listeners are gone once the *)
(* hooks were started, and these are started for a response that began.    *)
Responded ==
  /\ res.finished => res.ended
  /\ res.ended => res.head # "none"
  /\ res.listening => did.onResponse = 0
  /\ did.onResponse <= 1
  /\ did.onResponse = 1 => res.head # "none"

(* The part of the state the contract is about. *)
Seen == <<res.head, res.ended, res.finished, res.closed, res.listening, did.onResponse, fault>>

-----------------------------------------------------------------------------
(* Most steps change nothing a client or an onResponse hook sees. *)

LEMMA LoopSteps ==
  ASSUME NEW g, NEW h, NEW t,
         \/ Goto(g) \/ Call(g, h) \/ Return \/ Pass \/ Leave(g) \/ Settle(g)
         \/ LeaveAndGo(g, h) \/ Throw(g) \/ Catch(g) \/ CatchSettling(g) \/ RunReady
         \/ StartTurn(t, g, h) \/ DropJob(g) \/ SettleJob(g, h) \/ StartEvent(g)
  PROVE  fault' = fault
BY DEF Goto, Call, Return, Pass, Leave, Settle, LeaveAndGo, Throw, Catch, CatchSettling,
       RunReady, StartTurn, DropJob, SettleJob, StartEvent

LEMMA SeenUnchanged ==
  ASSUME UNCHANGED <<res, did, fault>>
  PROVE  UNCHANGED Seen
BY DEF Seen

LEMMA CallsUnseen ==
  ASSUME did \in DidType, NEW c, NEW i, Calls(c, i)
  PROVE  did'.onResponse = did.onResponse
BY DEF Calls, DidType

LEMMA HookStepsUnseen ==
  ASSUME RequestTypeOK, HookSteps
  PROVE  UNCHANGED Seen
<1>1. CASE \/ HookRunnerEnds \/ HookDropped \/ PreParsingDropped \/ PayloadRunnerFails
           \/ PayloadRunnerEnds \/ PayloadCallbackThrew \/ PayloadCallbackReturns
           \/ HookRejected \/ PreParsingEnds
  BY <1>1, LoopSteps, SeenUnchanged
  DEF HookRunnerEnds, HookDropped, PreParsingDropped, PayloadRunnerFails, PayloadRunnerEnds,
      PayloadCallbackThrew, PayloadCallbackReturns, HookRejected, PreParsingEnds, request
<1>2. CASE HookCalled \/ PreParsingCalled
  BY <1>2, LoopSteps, CallsUnseen DEF HookCalled, PreParsingCalled, RequestTypeOK, Seen
<1>3. CASE PayloadHookCalled
  BY <1>3, LoopSteps DEF PayloadHookCalled, RequestTypeOK, DidType, Seen
<1>4. QED
  BY <1>1, <1>2, <1>3 DEF HookSteps

LEMMA ReplyStepsUnseen ==
  ASSUME RequestTypeOK, ReplySteps, ~WriteHead
  PROVE  UNCHANGED Seen
<1>1. CASE \/ SendInsideOnError \/ SendAgain \/ PreserializationFailed
           \/ SerializerThrows \/ Serialized \/ OnSendFailed \/ OnSendPassed
           \/ OnSendEndRejects \/ SendStream \/ AwaitedReplySent
           \/ AwaitedReplyPending \/ OnResponseCallback
           \/ OnSendEnd \/ OnErrorHookRuns \/ OnErrorHookSkipped \/ NotFound
  BY <1>1, LoopSteps, SeenUnchanged
  DEF SendInsideOnError, SendAgain, PreserializationFailed, SerializerThrows, Serialized,
      OnSendFailed, OnSendPassed, OnSendEndRejects, SendStream, AwaitedReplySent,
      AwaitedReplyPending, OnResponseCallback, OnSendEnd, OnErrorHookRuns,
      OnErrorHookSkipped, NotFound, request
<1>2. CASE SendError \/ SendAsIs \/ SendSerialized
  BY <1>2, LoopSteps
  DEF SendError, SendAsIs, SendSerialized, Accepted, RequestTypeOK, DidType, Seen
<1>3. CASE OnSendHook
  BY <1>3, LoopSteps DEF OnSendHook, RequestTypeOK, DidType, Seen
<1>4. CASE ErrorToOnSend \/ ErrorWritten \/ NotFoundInside404
  BY <1>4, LoopSteps
  DEF ErrorToOnSend, ErrorWritten, NotFoundInside404, RequestTypeOK, ResType, Seen
<1>5. CASE ErrorHandlerCalled
  <2>1. fault' = fault
    BY <1>5, LoopSteps DEF ErrorHandlerCalled
  <2>2. did'.onResponse = did.onResponse
    BY <1>5, CallsUnseen DEF ErrorHandlerCalled, RequestTypeOK
  <2>3. QED
    BY <1>5, <2>1, <2>2 DEF ErrorHandlerCalled, RequestTypeOK, ResType, Seen
<1>6. QED
  BY <1>1, <1>2, <1>3, <1>4, <1>5 DEF ReplySteps

LEMMA UserStepsUnseen ==
  ASSUME RequestTypeOK, UserSteps
  PROVE  UNCHANGED Seen
<1>1. CASE \/ UserCallsNext \/ HandlerReturnsValue \/ UserDefers \/ UserAwaits
           \/ UserReturns \/ HookResolves \/ ParserResolves \/ HandlerResolves
           \/ UserAwaitsReply \/ HookThrew \/ HandlerThrew \/ AsyncUserThrew
           \/ UserThrewUncaught
  BY <1>1, LoopSteps, SeenUnchanged
  DEF UserCallsNext, HandlerReturnsValue, UserDefers, UserAwaits, UserReturns,
      HookResolves, ParserResolves, HandlerResolves, UserAwaitsReply, HookThrew,
      HandlerThrew, AsyncUserThrew, UserThrewUncaught, request
<1>2. CASE UserFails \/ UserThrows \/ UserRejects
  BY <1>2, LoopSteps
  DEF UserFails, UserThrows, UserRejects, Blame, RequestTypeOK, DidType, Seen
<1>3. CASE UserSends \/ UserCallsNotFound \/ UserHijacks \/ UserMarksSent
  BY <1>3, LoopSteps
  DEF UserSends, UserCallsNotFound, UserHijacks, UserMarksSent, RequestTypeOK, DidType, Seen
<1>4. CASE UserSetsNoContent
  BY <1>4 DEF UserSetsNoContent, RequestTypeOK, ResType, Seen, loop
<1>5. QED
  BY <1>1, <1>2, <1>3, <1>4 DEF UserSteps

LEMMA LifecycleStepsUnseen ==
  ASSUME RequestTypeOK, LifecycleSteps, ~RouteHandler
  PROVE  UNCHANGED Seen
<1>1. CASE \/ RunPreParsing \/ CallbackDropped \/ CallbackFails \/ HandleWithoutBody
           \/ HandleRefused \/ HandleRawBody \/ BodyDoneFails \/ BodyDoneHandles
           \/ Handler \/ HandlerTryThrew \/ HandlerTryReturns \/ FulfilledSends
           \/ FulfilledIgnored \/ RejectedIgnored \/ ThenTryThrew \/ RejectedSends
  BY <1>1, LoopSteps, SeenUnchanged
  DEF RunPreParsing, CallbackDropped, CallbackFails, HandleWithoutBody, HandleRefused,
      HandleRawBody, BodyDoneFails, BodyDoneHandles, Handler, HandlerTryThrew,
      HandlerTryReturns, FulfilledSends, FulfilledIgnored, RejectedIgnored,
      ThenTryThrew, RejectedSends, request
<1>2. CASE HandleBadMethod \/ PreValidationCallback
  BY <1>2, LoopSteps
  DEF HandleBadMethod, PreValidationCallback, RequestTypeOK, ResType, Seen
<1>3. CASE HandleCustomParser \/ PreHandlerCallback
  BY <1>3, LoopSteps, CallsUnseen
  DEF HandleCustomParser, PreHandlerCallback, RequestTypeOK, Seen
<1>4. QED
  BY <1>1, <1>2, <1>3 DEF LifecycleSteps

LEMMA PlatformStepsUnseen ==
  ASSUME RequestTypeOK,
         \/ RunPromiseJob \/ UserGoesOn \/ RawBodyDone \/ RawBodyBroken
         \/ StreamErrorBeforeHead \/ AwaitedReplyOver
  PROVE  UNCHANGED Seen
<1>1. CASE \/ RunPromiseJob \/ UserGoesOn \/ RawBodyDone
           \/ StreamErrorBeforeHead \/ AwaitedReplyOver
  BY <1>1, LoopSteps, SeenUnchanged
  DEF RunPromiseJob, UserGoesOn, RawBodyDone, StreamErrorBeforeHead, AwaitedReplyOver, request
<1>2. CASE RawBodyBroken
  BY <1>2, LoopSteps DEF RawBodyBroken, RequestTypeOK, ResType, Seen
<1>3. QED
  BY <1>1, <1>2

-----------------------------------------------------------------------------
(* The steps that are left: what the client or the response events see. *)

Events ==
  \/ WriteHead \/ RawEnd \/ StreamData \/ StreamEnd \/ StreamErrorAfterHead
  \/ ResFinish \/ ResError \/ ClientAborts \/ ProcessLost

(* routeHandler, which attaches the listeners, does not run a second time. *)
LEMMA UnseenOrEvent ==
  ASSUME NEW CONSTANT called, Typed(called), [Next]_vars
  PROVE  UNCHANGED Seen \/ Events
<1>1. RequestTypeOK /\ LoopTyped(called)
  BY DEF Typed
<1>2. ~RouteHandler
  BY <1>1, RunningType DEF RouteHandler, Later
<1>3. CASE UNCHANGED vars
  BY <1>3 DEF vars, loop, request, Seen
<1>4. CASE Next
  <2>1. CASE HookSteps \/ UserSteps \/ LifecycleSteps
    BY <1>1, <1>2, <2>1, HookStepsUnseen, UserStepsUnseen, LifecycleStepsUnseen
  <2>2. CASE ReplySteps
    BY <1>1, <2>2, ReplyStepsUnseen DEF Events
  <2>3. CASE PlatformSteps \/ Mishap
    BY <1>1, <2>3, PlatformStepsUnseen DEF PlatformSteps, Mishap, Events
  <2>4. CASE Stutter
    BY <2>4 DEF Stutter, vars, loop, request, Seen
  <2>5. QED
    BY <1>4, <2>1, <2>2, <2>3, <2>4 DEF Next, Progress
<1>5. QED
  BY <1>3, <1>4

(* A step of the contract, or none of its business. *)
ContractStep == [Contract!Next]_(Contract!vars)

Known == RequestTypeOK /\ fault \in {"none", "callback", "promise"} /\ turn \in {"callback", "promise"} /\ Responded

LEMMA UnseenStep ==
  ASSUME UNCHANGED Seen
  PROVE  ContractStep /\ (Responded => Responded')
BY DEF Seen, ContractStep, Contract!vars, ClientPhase, Responded

(* The three ways a head or an end is written. *)
LEMMA WrittenStep ==
  ASSUME Known, UNCHANGED <<did, fault>>,
         \/ res' = [res EXCEPT !.head = IF @ = "none" THEN res.code ELSE @, !.ended = TRUE]
         \/ res.head = "none" /\ res' = [res EXCEPT !.head = res.code]
  PROVE  ContractStep /\ Responded'
<1>1. /\ res.code \in Statuses /\ res.head \in Statuses \cup {"none"}
      /\ res.finished \in BOOLEAN /\ res.closed \in BOOLEAN /\ res.ended \in BOOLEAN
      /\ "none" \notin Statuses
  BY DEF Known, RequestTypeOK, ResType, Statuses
<1>2. /\ res'.head = IF res.head = "none" THEN res.code ELSE res.head
      /\ res'.ended = TRUE \/ (res.head = "none" /\ res'.ended = res.ended)
      /\ res'.finished = res.finished /\ res'.closed = res.closed
      /\ res'.listening = res.listening
      /\ did'.onResponse = did.onResponse /\ fault' = fault
  BY DEF Known, RequestTypeOK, ResType
<1>3. Responded'
  BY <1>1, <1>2 DEF Known, Responded
<1>4. ContractStep
  BY <1>1, <1>2
  DEF Known, Responded, ContractStep, Contract!vars, Contract!Next, Contract!Start,
      Contract!Answer, Contract!Complete, ClientPhase
<1>5. QED
  BY <1>3, <1>4

(* The connection or the process is lost. *)
LEMMA LostStep ==
  ASSUME Known, did' = did,
         \/ res' = [res EXCEPT !.closed = TRUE] /\ fault' = fault
         \/ res' = res /\ fault' \in {"callback", "promise"}
  PROVE  ContractStep /\ Responded'
<1>1. /\ res'.head = res.head /\ res'.ended = res.ended /\ res'.finished = res.finished
      /\ res'.listening = res.listening /\ did'.onResponse = did.onResponse
      /\ res'.closed \/ fault' # "none"
      /\ res.finished \in BOOLEAN
  BY DEF Known, RequestTypeOK, ResType
<1>2. Responded'
  BY <1>1 DEF Known, Responded
<1>3. ContractStep
  BY <1>1
  DEF ContractStep, Contract!vars, Contract!Next, Contract!Lose, Contract!Notify,
      Contract!NoStatus, ClientPhase
<1>4. QED
  BY <1>2, <1>3

(* The response is over, or fails: the hooks are started, if they were not. *)
LEMMA EndStep ==
  ASSUME Known, ResFinish \/ ResError
  PROVE  ContractStep /\ Responded'
<1>1. fault = "none" /\ fault' = fault
  BY LoopSteps DEF ResFinish, ResError, OnResFinished, StartEvent, Idle, Steady, loop
<1>2. /\ did'.onResponse = IF res.listening THEN did.onResponse + 1 ELSE did.onResponse
      /\ did.onResponse \in Nat
  BY DEF ResFinish, ResError, OnResFinished, Known, RequestTypeOK, DidType
<1>3. /\ res.finished = FALSE /\ res.closed = FALSE /\ res.listening \in BOOLEAN
      /\ res.ended \in BOOLEAN
      /\ res'.head = res.head /\ res'.ended = res.ended /\ res'.listening = FALSE
  BY DEF ResFinish, ResError, Known, RequestTypeOK, ResType
<1> DEFINE told == did.onResponse > 0
<1>4. Contract!Notify
  <2>1. told' = told \/ told' = TRUE
    BY <1>2
  <2>2. told' \in {told, TRUE}
    BY <2>1, Zenon
  <2>3. QED
    BY <2>2 DEF Contract!Notify
<1>5. CASE ResFinish
  <2>1. res.ended /\ res'.finished = TRUE /\ res'.closed = FALSE
    BY <1>3, <1>5 DEF ResFinish, Known, RequestTypeOK, ResType
  <2>2. Responded'
    BY <1>2, <1>3, <2>1 DEF Known, Responded
  <2>3. ContractStep
    BY <1>1, <1>3, <1>4, <2>1
    DEF ContractStep, Contract!Next, Contract!Deliver, ClientPhase
  <2>4. QED
    BY <2>2, <2>3
<1>6. CASE ResError
  <2>1. /\ res.head # "none" /\ res.listening /\ res'.finished = FALSE
        /\ res'.closed \in BOOLEAN
    BY <1>3, <1>6 DEF ResError, Known, RequestTypeOK, ResType
  <2>2. Responded'
    BY <1>2, <1>3, <2>1 DEF Known, Responded
  <2>3. CASE res'.closed
    <3>1. ClientPhase \in {"waiting", "started", "ended"} /\ ClientPhase' = "lost"
      BY <1>1, <1>3, <2>1, <2>3 DEF ClientPhase
    <3>2. Contract!Lose
      BY <1>4, <3>1 DEF Contract!Lose, Contract!NoStatus
    <3>3. QED
      BY <2>2, <3>2 DEF ContractStep, Contract!Next
  <2>4. CASE ~res'.closed
    BY <1>1, <1>2, <1>3, <2>1, <2>2, <2>4
    DEF ContractStep, Contract!Next, Contract!Fail, ClientPhase, Known, Responded
  <2>5. QED
    BY <2>1, <2>2, <2>3, <2>4
<1>7. QED
  BY <1>5, <1>6

LEMMA EventStep ==
  ASSUME Known, Events
  PROVE  ContractStep /\ Responded'
<1>1. CASE WriteHead
  <2>1. CASE res.head = "none"
    BY <1>1, <2>1, WrittenStep, LoopSteps DEF WriteHead
  <2>2. CASE res.head # "none"
    <3>1. UNCHANGED Seen
      BY <1>1, <2>2, LoopSteps, SeenUnchanged DEF WriteHead
    <3>2. QED
      BY <3>1, UnseenStep DEF Known
  <2>3. QED
    BY <2>1, <2>2
<1>2. CASE RawEnd \/ StreamEnd
  BY <1>2, WrittenStep, LoopSteps DEF RawEnd, StreamEnd
<1>3. CASE StreamData
  BY <1>3, WrittenStep DEF StreamData, loop
<1>4. CASE StreamErrorAfterHead
  BY <1>4, LostStep, LoopSteps DEF StreamErrorAfterHead
<1>5. CASE ClientAborts
  BY <1>5, LostStep DEF ClientAborts, loop
<1>6. CASE ProcessLost
  BY <1>6, LostStep DEF ProcessLost, Escapes, request, Known
<1>7. CASE ResFinish \/ ResError
  BY <1>7, EndStep
<1>8. QED
  BY <1>1, <1>2, <1>3, <1>4, <1>5, <1>6, <1>7 DEF Events

-----------------------------------------------------------------------------
(* The first step, that of routeHandler, attaches the listeners. *)
LEMMA FirstContractStep ==
  ASSUME Init, [Next]_vars
  PROVE  ContractStep /\ Responded'
<1>1. RequestTypeOK /\ Responded /\ did.onResponse = 0
  BY InitTypes DEF Init, ExchangeInit, Responded
<1>2. CASE UNCHANGED vars
  <2>1. UNCHANGED Seen
    BY <1>2 DEF vars, loop, request, Seen
  <2>2. QED
    BY <1>1, <2>1, UnseenStep
<1>3. CASE Next
  <2>1. RouteHandler
    BY <1>3, FirstStep
  <2>2. /\ res'.head = res.head /\ res'.ended = res.ended /\ res'.finished = res.finished
        /\ res'.closed = res.closed /\ did' = did /\ fault' = fault
    BY <1>1, <2>1, LoopSteps DEF RouteHandler, RequestTypeOK, ResType
  <2>3. QED
    BY <1>1, <2>2 DEF ContractStep, Contract!vars, ClientPhase, Responded
<1>4. QED
  BY <1>2, <1>3

LEMMA KeptStep ==
  ASSUME Handled, Responded, [Next]_vars
  PROVE  ContractStep /\ Responded'
<1>1. CASE Init
  BY <1>1, FirstContractStep
<1>2. ASSUME NEW CONSTANT called, Typed(called) PROVE ContractStep /\ Responded'
  <2>1. Known
    BY <1>2 DEF Known, Typed, LoopTyped
  <2>2. UNCHANGED Seen \/ Events
    BY <1>2, UnseenOrEvent
  <2>3. QED
    BY <2>1, <2>2, UnseenStep, EventStep DEF Known
<1>3. CASE Typed(reply.ehCalled)
  <2>1. reply.ehCalled \in BOOLEAN
    BY <1>3 DEF Typed, RequestTypeOK, ReplyType
  <2>2. Typed(TRUE) \/ Typed(FALSE)
    BY <1>3, <2>1
  <2>3. QED
    BY <1>2, <2>2
<1>4. QED
  BY <1>1, <1>3 DEF Handled

LEMMA AlwaysResponded == Spec => []Responded
<1>1. Init => Responded
  BY DEF Init, ExchangeInit, Responded
<1>2. Handled /\ Responded /\ [Next]_vars => Responded'
  BY KeptStep
<1>3. QED
  BY <1>1, <1>2, AlwaysHandled, PTL DEF Spec

(* The onResponse hooks are started at most once for a request, whether    *)
(* 'finish' or 'error' comes first and whether both come, and never for a  *)
(* response that has not begun (setupResponseListeners of lib/reply.js).   *)
THEOREM OnResponseStartsOnce == Spec => []OnResponseOnce
<1>1. Responded => OnResponseOnce
  BY DEF Responded, OnResponseOnce
<1>2. QED
  BY <1>1, AlwaysResponded, PTL

(* The exchange implements the contract of a response, its liveness aside: *)
(* whatever user code and the network do, the client sees one status line  *)
(* that is never replaced and one end of the body, or the connection is    *)
(* lost, and the notification of the hooks is never taken back.            *)
THEOREM KeepsResponseContract == Spec => Contract!Spec
<1>1. Init => Contract!Init
  BY DEF Init, LoopInit, ExchangeInit, Contract!Init, Contract!NoStatus, ClientPhase
<1>2. Handled /\ Responded /\ [Next]_vars => [Contract!Next]_(Contract!vars)
  BY KeptStep DEF ContractStep
<1>3. QED
  BY <1>1, <1>2, AlwaysHandled, AlwaysResponded, PTL DEF Spec, Contract!Spec

-----------------------------------------------------------------------------
(***************************************************************************)
(* Who may write the response.  reply.send takes kReplySent for a lock:    *)
(* one frame at a time is on its way to write (a writer), and as long as   *)
(* there is one, or the head is out, the flag is set, so that no other     *)
(* send is accepted.  The resets of the flag are where this could fail.    *)
(***************************************************************************)

USE DEF None

IsAsyncUser(t) == t.fn = "user" /\ t.m \in {"async", "resumed"}
UserSide == {"user", "awaitReply", "eos"}

(* The frames on their way to write: from an accepted send on, a frame of  *)
(* lib/reply.js or of the runner of a payload hook, the hook itself until  *)
(* it is done, a stream that is piped, user code that writes itself.       *)
Writes(t) ==
  \/ t.fn \in {"preserializeHookEnd", "onSendHook", "wrapOnSendEnd", "onSendEnd", "writeHead",
               "onErrorHook", "handleError", "sendNext", "pipe", "rawEnd"}
  \/ t.fn \in UserSide /\ t.c \in PayloadChains /\ (~t.done \/ t.m \in {"async", "resumed"})

(* Those for which reply.sent was set: not yet in preSerialization, and    *)
(* not while an error is brought back to handleError.                      *)
Firm(t) ==
  \/ t.fn \in {"onSendEnd", "writeHead", "pipe", "rawEnd"}
  \/ t.fn = "wrapOnSendEnd" /\ t.e = None
  \/ t.fn = "sendNext" /\ t.e = None /\ t.c # "preSerialization"
  \/ t.fn \in UserSide /\ Writes(t) /\ t.c # "preSerialization"

(* Those that are not part of an onError chain.                            *)
Calm(t) ==
  \/ t.fn \in {"onSendHook", "onSendEnd", "writeHead", "pipe", "rawEnd"}
  \/ t.fn \in {"wrapOnSendEnd", "preserializeHookEnd"} /\ t.e = None
  \/ t.fn = "sendNext" /\ t.e = None /\ t.c # "onError"
  \/ t.fn \in UserSide /\ Writes(t) /\ t.c # "onError"

Tries == {"cbTry", "handlerTry", "thenTry"}

(* A frame that waits for the one above it: it is done, or only catches.   *)
Waits(t) == t.fn \in Tries \/ (t.fn = "user" /\ t.done)
(* One that does nothing but return once it is the running one.            *)
Spent(t) == t.fn \in Tries \/ (t.fn = "user" /\ t.done /\ t.m \notin {"async", "resumed"})
(* A frame that makes a writer of what it catches.                         *)
Catches(t) == t.fn = "cbTry" \/ (t.fn = "user" /\ t.m = "sync" /\ t.c \in PayloadChains)

(* What the frames of each function work for.                              *)
Fits(t) ==
  /\ t.fn \in {"hookNext", "handleReject"} => t.c \in RequestChains \cup {"onResponse"}
  /\ t.fn = "preParsingNext" => t.c = "preParsing"
  /\ t.fn \in {"sendNext", "cbTry"} => t.c \in PayloadChains
  /\ t.fn = "user" /\ t.c = "preSerialization" => t.m = "sync" /\ HookCount[t.c] > 0
  /\ t.fn \in {"awaitReply", "eos"} => t.c # "preSerialization" /\ t.m \in {"async", "resumed"}
FitsReady(t) ==
  /\ Fits(t)
  /\ t.fn \in {"sendNext", "hookNext", "preParsingNext", "bodyDone", "fulfilled", "rejected",
               "handleReject", "awaitReply", "wrapOnSendEnd", "handleError"}
  /\ t.fn = "sendNext" => t.c # "preSerialization"
FitsJob(t) ==
  /\ Fits(t)
  /\ t.fn \in {"user", "eos", "pipe", "rawBody", "rawEnd"}
  /\ t.fn = "user" => t.c # "preSerialization" /\ t.m # "sync" /\ (t.m = "late" => ~t.done)

-----------------------------------------------------------------------------
(* The same of sequences of frames.                                        *)

Writing(q) == \E n \in 1..Len(q) : Writes(q[n])
OneWrites(q) == \A n, m \in 1..Len(q) : Writes(q[n]) /\ Writes(q[m]) => n = m
CalmIn(q) == \E n \in 1..Len(q) : Calm(q[n])
AllWait(q) == \A n \in 1..Len(q) : Waits(q[n]) /\ Fits(q[n])
AllReady(q) == \A n \in 1..Len(q) : FitsReady(q[n])

(* An exception at the head of q may reach a frame that catches it, before *)
(* an async function turns it into a rejection.                            *)
Open(q) == \E n \in 1..Len(q) : Catches(q[n]) /\ \A m \in 1..(n - 1) : ~IsAsyncUser(q[m])
(* It may reach the try block of wrapThenable, which is only at the end.   *)
OverThen(q) ==
  q # <<>> /\ q[Len(q)].fn = "thenTry" /\ \A m \in 1..Len(q) : ~IsAsyncUser(q[m])
ThenLast(q) == \A n \in 1..Len(q) : q[n].fn \in {"fulfilled", "thenTry"} => n = Len(q)

LEMMA EmptyFrames ==
  /\ ~Writing(<<>>) /\ OneWrites(<<>>) /\ ~CalmIn(<<>>) /\ AllWait(<<>>) /\ AllReady(<<>>)
  /\ ~Open(<<>>) /\ ~OverThen(<<>>) /\ ThenLast(<<>>)
BY DEF Writing, OneWrites, CalmIn, AllWait, AllReady, Open, OverThen, ThenLast

LEMMA NoLength ==
  ASSUME NEW S, NEW q \in Seq(S)
  PROVE  q = <<>> <=> Len(q) = 0
OBVIOUS

(* Each of them by the first frame and the rest.                           *)
LEMMA ByFirst ==
  ASSUME NEW S, NEW q \in Seq(S), q # <<>>
  PROVE  /\ Writing(q) <=> Writes(Head(q)) \/ Writing(Tail(q))
         /\ OneWrites(q) <=> OneWrites(Tail(q)) /\ ~(Writes(Head(q)) /\ Writing(Tail(q)))
         /\ CalmIn(q) <=> Calm(Head(q)) \/ CalmIn(Tail(q))
         /\ AllWait(q) <=> Waits(Head(q)) /\ Fits(Head(q)) /\ AllWait(Tail(q))
         /\ AllReady(q) <=> FitsReady(Head(q)) /\ AllReady(Tail(q))
         /\ Open(q) <=> Catches(Head(q)) \/ (~IsAsyncUser(Head(q)) /\ Open(Tail(q)))
         /\ OverThen(q) <=> /\ ~IsAsyncUser(Head(q))
                            /\ IF Tail(q) = <<>> THEN Head(q).fn = "thenTry" ELSE OverThen(Tail(q))
         /\ ThenLast(q) <=> /\ ThenLast(Tail(q))
                            /\ Head(q).fn \in {"fulfilled", "thenTry"} => Tail(q) = <<>>
<1> DEFINE r == Tail(q)
<1>1. /\ Len(q) \in Nat /\ Len(q) >= 1 /\ Head(q) = q[1] /\ r \in Seq(S)
      /\ Len(r) = Len(q) - 1 /\ \A n \in 1..Len(r) : r[n] = q[n + 1]
  OBVIOUS
<1> HIDE DEF r
<1>0. r = <<>> <=> Len(q) = 1
  <2>1. r = <<>> <=> Len(r) = 0
    BY <1>1, NoLength
  <2> QED BY <1>1, <2>1
<1>2. \A n \in 1..Len(q) : n = 1 \/ (n - 1 \in 1..Len(r) /\ r[n - 1] = q[n])
  <2> SUFFICES ASSUME NEW n \in 1..Len(q), n # 1 PROVE n - 1 \in 1..Len(r) /\ r[n - 1] = q[n]
    OBVIOUS
  <2>1. n - 1 \in 1..Len(r) /\ (n - 1) + 1 = n
    BY <1>1
  <2> QED BY <1>1, <2>1
<1>3. 1 \in 1..Len(q) /\ \A n \in 1..Len(r) : n + 1 \in 1..Len(q) /\ r[n] = q[n + 1]
  BY <1>1
<1>4. Writing(q) <=> Writes(q[1]) \/ Writing(r)
  BY <1>2, <1>3 DEF Writing
<1>5. CalmIn(q) <=> Calm(q[1]) \/ CalmIn(r)
  BY <1>2, <1>3 DEF CalmIn
<1>6. AllWait(q) <=> Waits(q[1]) /\ Fits(q[1]) /\ AllWait(r)
  BY <1>2, <1>3 DEF AllWait
<1>7. AllReady(q) <=> FitsReady(q[1]) /\ AllReady(r)
  BY <1>2, <1>3 DEF AllReady
<1>8. OneWrites(q) <=> OneWrites(r) /\ ~(Writes(q[1]) /\ Writing(r))
  <2>1. ASSUME OneWrites(q) PROVE OneWrites(r)
    <3> SUFFICES ASSUME NEW n \in 1..Len(r), NEW m \in 1..Len(r), Writes(r[n]), Writes(r[m]) PROVE n = m
      BY DEF OneWrites
    <3>1. n + 1 = m + 1
      BY <1>3, <2>1 DEF OneWrites
    <3> QED BY <1>1, <3>1
  <2>2. ASSUME OneWrites(q), Writes(q[1]), Writing(r) PROVE FALSE
    <3>1. PICK n \in 1..Len(r) : Writes(r[n])
      BY <2>2 DEF Writing
    <3>2. n + 1 = 1
      BY <1>3, <2>2, <3>1 DEF OneWrites
    <3> QED BY <1>1, <3>2
  <2>3. ASSUME OneWrites(r), ~(Writes(q[1]) /\ Writing(r)) PROVE OneWrites(q)
    <3> SUFFICES ASSUME NEW n \in 1..Len(q), NEW m \in 1..Len(q), Writes(q[n]), Writes(q[m]) PROVE n = m
      BY DEF OneWrites
    <3>1. CASE n = 1 \/ m = 1
      BY <1>2, <2>3, <3>1 DEF Writing
    <3>2. CASE n # 1 /\ m # 1
      <4>1. n - 1 = m - 1
        BY <1>2, <2>3, <3>2 DEF OneWrites
      <4> QED BY <1>1, <4>1
    <3> QED BY <3>1, <3>2
  <2> QED BY <2>1, <2>2, <2>3
<1>9. Open(q) <=> Catches(q[1]) \/ (~IsAsyncUser(q[1]) /\ Open(r))
  <2>1. ASSUME Open(q), ~Catches(q[1]) PROVE ~IsAsyncUser(q[1]) /\ Open(r)
    <3>1. PICK n \in 1..Len(q) : Catches(q[n]) /\ \A m \in 1..(n - 1) : ~IsAsyncUser(q[m])
      BY <2>1 DEF Open
    <3>2. n - 1 \in 1..Len(r) /\ r[n - 1] = q[n]
      BY <1>2, <2>1, <3>1
    <3>3. 1 \in 1..(n - 1) /\ \A m \in 1..((n - 1) - 1) : m \in 1..Len(r) /\ m + 1 \in 1..(n - 1)
      BY <1>1, <3>2
    <3>4. \A m \in 1..((n - 1) - 1) : ~IsAsyncUser(r[m])
      BY <1>3, <3>1, <3>3
    <3> QED BY <3>1, <3>2, <3>3, <3>4 DEF Open
  <2>2. ASSUME Catches(q[1]) PROVE Open(q)
    <3>1. 1..(1 - 1) = {}
      OBVIOUS
    <3> QED BY <1>3, <2>2, <3>1 DEF Open
  <2>3. ASSUME ~IsAsyncUser(q[1]), Open(r) PROVE Open(q)
    <3>1. PICK n \in 1..Len(r) : Catches(r[n]) /\ \A m \in 1..(n - 1) : ~IsAsyncUser(r[m])
      BY <2>3 DEF Open
    <3>2. \A m \in 1..((n + 1) - 1) : m = 1 \/ (m - 1 \in 1..(n - 1) /\ m \in 1..Len(q))
      BY <1>1
    <3>3. \A m \in 1..((n + 1) - 1) : ~IsAsyncUser(q[m])
      BY <1>2, <2>3, <3>1, <3>2
    <3> QED BY <1>3, <3>1, <3>3 DEF Open
  <2> QED BY <2>1, <2>2, <2>3
<1>10. (\A m \in 1..Len(q) : ~IsAsyncUser(q[m])) <=> ~IsAsyncUser(q[1]) /\ \A m \in 1..Len(r) : ~IsAsyncUser(r[m])
  BY <1>2, <1>3
<1>11. OverThen(q) <=> ~IsAsyncUser(q[1]) /\ IF r = <<>> THEN q[1].fn = "thenTry" ELSE OverThen(r)
  <2>1. CASE r = <<>>
    <3>1. Len(q) = 1
      BY <1>0, <2>1
    <3> QED BY <2>1, <3>1 DEF OverThen
  <2>2. CASE r # <<>>
    <3>1. Len(r) \in 1..Len(r) /\ Len(r) + 1 = Len(q)
      BY <1>0, <1>1, <2>2
    <3>2. r[Len(r)] = q[Len(q)]
      BY <1>3, <3>1
    <3> QED BY <1>10, <2>2, <3>2 DEF OverThen
  <2> QED BY <2>1, <2>2
<1>12. ThenLast(q) <=> ThenLast(r) /\ (q[1].fn \in {"fulfilled", "thenTry"} => r = <<>>)
  <2>1. ASSUME ThenLast(q) PROVE ThenLast(r) /\ (q[1].fn \in {"fulfilled", "thenTry"} => r = <<>>)
    <3>1. ASSUME NEW n \in 1..Len(r), r[n].fn \in {"fulfilled", "thenTry"} PROVE n = Len(r)
      <4>1. n + 1 = Len(q)
        BY <1>3, <2>1, <3>1 DEF ThenLast
      <4> QED BY <1>1, <4>1
    <3>2. q[1].fn \in {"fulfilled", "thenTry"} => 1 = Len(q)
      BY <1>3, <2>1 DEF ThenLast
    <3> QED BY <1>0, <3>1, <3>2 DEF ThenLast
  <2>2. ASSUME ThenLast(r), q[1].fn \in {"fulfilled", "thenTry"} => r = <<>> PROVE ThenLast(q)
    <3> SUFFICES ASSUME NEW n \in 1..Len(q), q[n].fn \in {"fulfilled", "thenTry"} PROVE n = Len(q)
      BY DEF ThenLast
    <3>1. CASE n = 1
      BY <1>0, <2>2, <3>1
    <3>2. CASE n # 1
      <4>1. n - 1 = Len(r)
        BY <1>2, <2>2, <3>2 DEF ThenLast
      <4> QED BY <1>1, <4>1
    <3> QED BY <3>1, <3>2
  <2> QED BY <2>1, <2>2
<1> QED BY <1>1, <1>4, <1>5, <1>6, <1>7, <1>8, <1>9, <1>11, <1>12 DEF r

(* A frame on top of others, and a job behind others.                      *)
LEMMA OnTop ==
  ASSUME NEW q \in Seq(Frame), NEW g
  PROVE  /\ <<g>> \o q # <<>> /\ Head(<<g>> \o q) = g /\ Tail(<<g>> \o q) = q
         /\ Len(<<g>> \o q) = Len(q) + 1
         /\ <<g>> \o q \in Seq(Frame \cup {g})
<1>1. q \in Seq(Frame \cup {g}) /\ <<g>> \in Seq(Frame \cup {g})
  OBVIOUS
<1> QED BY <1>1

LEMMA AtTheEnd ==
  ASSUME NEW q \in Seq(Frame), NEW j
  PROVE  /\ Writing(Append(q, j)) <=> Writing(q) \/ Writes(j)
         /\ OneWrites(q) /\ ~(Writing(q) /\ Writes(j)) => OneWrites(Append(q, j))
         /\ CalmIn(Append(q, j)) <=> CalmIn(q) \/ Calm(j)
         /\ AllReady(q) /\ FitsReady(j) => AllReady(Append(q, j))
<1> DEFINE r == Append(q, j)
<1>1. /\ Len(q) \in Nat /\ Len(r) = Len(q) + 1 /\ r[Len(q) + 1] = j
      /\ \A n \in 1..Len(q) : r[n] = q[n]
  OBVIOUS
<1> HIDE DEF r
<1>2. /\ \A n \in 1..Len(r) : n \in 1..Len(q) \/ n = Len(q) + 1
      /\ Len(q) + 1 \in 1..Len(r) /\ \A n \in 1..Len(q) : n \in 1..Len(r)
  BY <1>1
<1>3. Writing(r) <=> Writing(q) \/ Writes(j)
  BY <1>1, <1>2 DEF Writing
<1>4. CalmIn(r) <=> CalmIn(q) \/ Calm(j)
  BY <1>1, <1>2 DEF CalmIn
<1>5. AllReady(q) /\ FitsReady(j) => AllReady(r)
  BY <1>1, <1>2 DEF AllReady
<1>6. OneWrites(q) /\ ~(Writing(q) /\ Writes(j)) => OneWrites(r)
  BY <1>1, <1>2 DEF Writing, OneWrites
<1> QED BY <1>3, <1>4, <1>5, <1>6 DEF r

LEMMA TwoOnTop ==
  ASSUME NEW S, NEW q \in Seq(S), NEW g, NEW h, <<g, h>> \o q \in Seq(S)
  PROVE  g \in S /\ h \in S /\ <<h>> \o q \in Seq(S) /\ <<g, h>> \o q = <<g>> \o (<<h>> \o q)
<1> DEFINE s == <<g, h>> \o q
<1>1. Len(q) \in Nat /\ Len(s) = Len(q) + 2 /\ s[1] = g /\ s[2] = h
  OBVIOUS
<1>2. 1 \in 1..Len(s) /\ 2 \in 1..Len(s)
  BY <1>1
<1>3. g \in S /\ h \in S
  BY <1>1, <1>2
<1>4. <<g>> \in Seq(S) /\ <<h>> \in Seq(S) /\ <<g>> \o <<h>> = <<g, h>>
  <2>1. <<g>> \in Seq(S) /\ <<h>> \in Seq(S) /\ <<g, h>> \in Seq(S)
    BY <1>3
  <2>2. /\ Len(<<g>>) = 1 /\ Len(<<h>>) = 1 /\ Len(<<g, h>>) = 2
        /\ <<g>>[1] = g /\ <<h>>[1] = h /\ <<g, h>>[1] = g /\ <<g, h>>[2] = h
    OBVIOUS
  <2>3. /\ <<g>> \o <<h>> \in Seq(S) /\ Len(<<g>> \o <<h>>) = 2
        /\ (<<g>> \o <<h>>)[1] = g /\ (<<g>> \o <<h>>)[2] = h
    BY <2>1, <2>2, ConcatProperties
  <2>4. \A i \in 1..2 : (<<g>> \o <<h>>)[i] = <<g, h>>[i]
    BY <2>2, <2>3
  <2> QED BY <2>1, <2>2, <2>3, <2>4, SeqEqual
<1>5. (<<g>> \o <<h>>) \o q = <<g>> \o (<<h>> \o q)
  BY <1>4, ConcatAssociative
<1>6. <<h>> \o q \in Seq(S)
  BY <1>4, ConcatProperties
<1> QED BY <1>3, <1>4, <1>5, <1>6

-----------------------------------------------------------------------------
(* The invariant, by the frames under the running one (q), the promise     *)
(* jobs (r) and the jobs of the platform (j).                              *)

SomeJobWrites(j) == \E x \in j : Writes(x)
Below(q, r, j) == Writing(q) \/ Writing(r) \/ SomeJobWrites(j)
CalmBelow(q, r, j) == CalmIn(q) \/ CalmIn(r) \/ \E x \in j : Calm(x)

(* Only done or catching frames wait on the stack, and at most one of all  *)
(* these frames is a writer.                                               *)
Ground(q, r, j) ==
  /\ q \in Seq(Frame) /\ AllWait(q) /\ ThenLast(q)
  /\ r \in Seq(Frame) /\ AllReady(r)
  /\ j \subseteq Frame /\ \A x \in j : FitsJob(x)
  /\ OneWrites(q) /\ OneWrites(r) /\ \A x, y \in j : Writes(x) /\ Writes(y) => x = y
  /\ Writing(q) => ~Writing(r) /\ ~SomeJobWrites(j)
  /\ Writing(r) => ~SomeJobWrites(j)

(* onErr (kReplyIsRunningOnErrorHook) is set while the writer is an onError *)
(* chain; once the head is out only the stream it belongs to is written.   *)
Keeps(q, r, j, sent, onErr, head) ==
  /\ CalmBelow(q, r, j) => ~onErr
  /\ head # "none" => /\ sent /\ ~onErr /\ ~Writing(q) /\ ~Writing(r)
                      /\ \A x \in j : Writes(x) => x.fn = "pipe"

First(t, q) ==
  /\ Fits(t) /\ t.fn \notin {"pipe", "rawEnd"}
  /\ t.fn \in {"fulfilled", "thenTry"} => q = <<>>

(* wrapThenable has reset reply.sent for an error in an onError chain: the *)
(* send it is about to make throws, and the process is lost.               *)
Doomed(t, q, x) == x = None /\ q = <<>> /\ t.fn = "send"

OpenTop(t, q) == Catches(t) \/ (~IsAsyncUser(t) /\ Open(q))
OverThenTop(t, q) == ~IsAsyncUser(t) /\ IF q = <<>> THEN t.fn = "thenTry" ELSE OverThen(q)

(* Frame t runs, or is reached by the exception x.  The last two conjuncts *)
(* are about what may throw while another frame is the writer.             *)
LockTop(t, q, r, j, x, sent, onErr, head) ==
  /\ t \in Frame /\ Ground(q, r, j) /\ Keeps(q, r, j, sent, onErr, head) /\ First(t, q)
  /\ Writes(t) => ~Below(q, r, j) /\ head = "none"
  /\ Firm(t) => sent
  /\ Calm(t) => ~onErr
  /\ t.fn = "notFound" => ~sent
  /\ Below(q, r, j) => sent \/ (onErr /\ Doomed(t, q, x))
  /\ onErr /\ ~sent => Doomed(t, q, x)
  /\ (x # None \/ ~Spent(t)) /\ OpenTop(t, q) => ~Below(q, r, j) /\ head = "none"
  /\ (x # None \/ ~Spent(t)) /\ OverThenTop(t, q) =>
       \/ ~Below(q, r, j) /\ head = "none"
       \/ x = None /\ t.fn = "send" /\ Tail(q) = <<>>
       \/ x # None /\ q = <<>> /\ onErr

LockIdle(r, j, x, sent, onErr, head) ==
  /\ Ground(<<>>, r, j) /\ Keeps(<<>>, r, j, sent, onErr, head)
  /\ Below(<<>>, r, j) => sent \/ (onErr /\ x # None)
  /\ onErr /\ ~sent => x # None

LockOf(s, r, j, x, sent, onErr, head) ==
  IF s = <<>> THEN LockIdle(r, j, x, sent, onErr, head)
  ELSE LockTop(Head(s), Tail(s), r, j, x, sent, onErr, head)

LEMMA Kinds ==
  ASSUME NEW t
  PROVE  /\ Firm(t) => Writes(t)
         /\ Calm(t) => Writes(t)
         /\ Waits(t) => Spent(t) \/ IsAsyncUser(t)
         /\ Waits(t) => t.fn \notin {"send", "pipe", "rawEnd", "notFound", "fulfilled"}
         /\ IsAsyncUser(t) => ~Catches(t)
BY DEF Firm, Calm, Writes, Waits, Spent, IsAsyncUser, Catches, Tries, UserSide

(* A frame with nothing to write under it. *)
LEMMA FreeTop ==
  ASSUME NEW g \in Frame, NEW q, NEW r, NEW j, NEW x, NEW sent, NEW onErr,
         Ground(q, r, j), ~Below(q, r, j), First(g, q),
         Firm(g) => sent, Calm(g) => ~onErr, g.fn = "notFound" => ~sent,
         onErr /\ ~sent => Doomed(g, q, x)
  PROVE  LockTop(g, q, r, j, x, sent, onErr, "none")
<1>1. ~CalmBelow(q, r, j)
  BY Kinds DEF CalmBelow, Below, CalmIn, Writing, SomeJobWrites
<1> QED BY <1>1 DEF LockTop, Keeps

(* Another function goes on that writes nothing. *)
LEMMA NeutralTop ==
  ASSUME NEW t, NEW q, NEW r, NEW j, NEW x, NEW sent, NEW onErr, NEW head,
         LockTop(t, q, r, j, x, sent, onErr, head),
         x # None \/ ~Spent(t), t.fn \notin {"send", "thenTry"}, ~IsAsyncUser(t),
         NEW g \in Frame, First(g, q), ~Writes(g), ~Catches(g),
         g.fn \notin {"notFound", "thenTry"}
  PROVE  LockTop(g, q, r, j, None, sent, onErr, head)
BY Kinds DEF LockTop, OpenTop, OverThenTop, Doomed

(* The frames under a call. *)
LEMMA GroundCall ==
  ASSUME NEW q, NEW r, NEW j, Ground(q, r, j),
         NEW h \in Frame, Waits(h), Fits(h), h.fn = "thenTry" => q = <<>>,
         Writes(h) => ~Below(q, r, j)
  PROVE  /\ Ground(<<h>> \o q, r, j)
         /\ Writing(<<h>> \o q) <=> Writes(h) \/ Writing(q)
         /\ Below(<<h>> \o q, r, j) <=> Writes(h) \/ Below(q, r, j)
         /\ CalmBelow(<<h>> \o q, r, j) <=> Calm(h) \/ CalmBelow(q, r, j)
         /\ Open(<<h>> \o q) <=> OpenTop(h, q)
         /\ OverThen(<<h>> \o q) <=> OverThenTop(h, q)
         /\ <<h>> \o q # <<>> /\ Tail(<<h>> \o q) = q
<1> DEFINE s == <<h>> \o q
<1>1. q \in Seq(Frame)
  BY DEF Ground
<1>2. s # <<>> /\ Head(s) = h /\ Tail(s) = q /\ s \in Seq(Frame \cup {h}) /\ Frame \cup {h} = Frame
  BY <1>1, OnTop
<1> HIDE DEF s
<1>3. h.fn \notin {"fulfilled"}
  BY Kinds
<1>4. s \in Seq(Frame) /\ AllWait(s) /\ ThenLast(s) /\ OneWrites(s) /\ (Writing(s) <=> Writes(h) \/ Writing(q))
  BY <1>2, <1>3, ByFirst DEF Ground, Below
<1>5. CalmIn(s) <=> Calm(h) \/ CalmIn(q)
  BY <1>2, ByFirst
<1>6. Open(s) <=> OpenTop(h, q)
  BY <1>2, ByFirst DEF OpenTop
<1>7. OverThen(s) <=> OverThenTop(h, q)
  BY <1>2, ByFirst DEF OverThenTop
<1>8. Ground(s, r, j)
  BY <1>4 DEF Ground, Below
<1> QED BY <1>2, <1>4, <1>5, <1>6, <1>7, <1>8 DEF s, Below, CalmBelow

(* A call of a function that writes nothing. *)
LEMMA NeutralCall ==
  ASSUME NEW t, NEW q, NEW r, NEW j, NEW sent, NEW onErr, NEW head,
         LockTop(t, q, r, j, None, sent, onErr, head),
         ~Spent(t), t.fn \notin {"send", "thenTry"},
         NEW h \in Frame, Waits(h), Fits(h), h.fn # "thenTry", ~Catches(h),
         Writes(h) => Writes(t) /\ sent /\ IsAsyncUser(h), Calm(h) => ~onErr,
         IsAsyncUser(t) => IsAsyncUser(h),
         NEW g \in Frame, Fits(g), ~Writes(g), ~Catches(g),
         g.fn \notin {"notFound", "thenTry", "fulfilled", "pipe", "rawEnd"}
  PROVE  LockTop(g, <<h>> \o q, r, j, None, sent, onErr, head)
<1> DEFINE s == <<h>> \o q
<1>1. /\ Ground(q, r, j) /\ Keeps(q, r, j, sent, onErr, head)
      /\ Writes(h) => ~Below(q, r, j) /\ head = "none"
  BY DEF LockTop
<1>2. /\ Ground(s, r, j)
      /\ Writing(s) <=> Writes(h) \/ Writing(q)
      /\ Below(s, r, j) <=> Writes(h) \/ Below(q, r, j)
      /\ CalmBelow(s, r, j) <=> Calm(h) \/ CalmBelow(q, r, j)
      /\ Open(s) <=> OpenTop(h, q)
      /\ OverThen(s) <=> OverThenTop(h, q)
      /\ s # <<>> /\ Tail(s) = q
  BY <1>1, GroundCall
<1> HIDE DEF s
<1>3. Keeps(s, r, j, sent, onErr, head)
  BY <1>1, <1>2 DEF Keeps
<1>4. First(g, s)
  BY DEF First
<1>5. Below(s, r, j) => sent
  BY <1>2 DEF LockTop, Doomed
<1>6. onErr => sent
  BY DEF LockTop, Doomed
<1>7. OpenTop(g, s) => ~Below(s, r, j) /\ head = "none"
  BY <1>1, <1>2 DEF LockTop, OpenTop
<1>8. OverThenTop(g, s) => ~Below(s, r, j) /\ head = "none"
  BY <1>1, <1>2 DEF LockTop, OverThenTop
<1> QED BY <1>2, <1>3, <1>4, <1>5, <1>6, <1>7, <1>8, Kinds DEF LockTop, s

-----------------------------------------------------------------------------
(* The running frame is left: what waits under it goes on. *)

LEMMA Under ==
  ASSUME NEW q, NEW r, NEW j, NEW sent, NEW onErr, NEW head,
         Ground(q, r, j), Keeps(q, r, j, sent, onErr, head),
         Below(q, r, j) => sent, onErr => sent
  PROVE  LockOf(q, r, j, None, sent, onErr, head)
<1>1. CASE q = <<>>
  BY <1>1 DEF LockOf, LockIdle
<1>2. CASE q # <<>>
  <2> DEFINE u == Head(q)
             s == Tail(q)
  <2>1. u \in Frame /\ s \in Seq(Frame)
    BY <1>2 DEF Ground
  <2>2. /\ Writing(q) <=> Writes(u) \/ Writing(s)
        /\ OneWrites(q) <=> OneWrites(s) /\ ~(Writes(u) /\ Writing(s))
        /\ CalmIn(q) <=> Calm(u) \/ CalmIn(s)
        /\ AllWait(q) <=> Waits(u) /\ Fits(u) /\ AllWait(s)
        /\ ThenLast(q) => ThenLast(s) /\ (u.fn \in {"fulfilled", "thenTry"} => s = <<>>)
    BY <1>2, ByFirst DEF Ground
  <2> HIDE DEF u, s
  <2>3. Waits(u) /\ Fits(u) /\ First(u, s)
    BY <2>2, Kinds DEF Ground, First
  <2>4. Ground(s, r, j) /\ Keeps(s, r, j, sent, onErr, head)
    BY <2>1, <2>2 DEF Ground, Keeps, CalmBelow
  <2>5. Writes(u) => ~Below(s, r, j) /\ head = "none"
    BY <2>2 DEF Ground, Keeps, Below
  <2>6. Below(s, r, j) \/ Writes(u) => sent
    BY <2>2 DEF Below
  <2>7. Calm(u) => ~onErr
    BY <2>2 DEF Keeps, CalmBelow
  <2>8. Spent(u) \/ (~OpenTop(u, s) /\ ~OverThenTop(u, s))
    BY <2>3, Kinds DEF OpenTop, OverThenTop
  <2>9. LockTop(u, s, r, j, None, sent, onErr, head)
    BY <2>1, <2>3, <2>4, <2>5, <2>6, <2>7, <2>8, Kinds DEF LockTop
  <2> QED BY <1>2, <2>9 DEF LockOf, u, s
<1> QED BY <1>1, <1>2

LEMMA LockFacts ==
  ASSUME NEW t, NEW q, NEW r, NEW j, NEW x, NEW sent, NEW onErr, NEW head,
         LockTop(t, q, r, j, x, sent, onErr, head)
  PROVE  /\ t \in Frame /\ Fits(t) /\ Ground(q, r, j) /\ Keeps(q, r, j, sent, onErr, head)
         /\ t.fn # "send" \/ x # None => (Below(q, r, j) => sent) /\ (onErr => sent)
         /\ Writes(t) => ~Below(q, r, j) /\ head = "none"
         /\ Firm(t) => sent
         /\ Calm(t) => ~onErr
BY DEF LockTop, Doomed, First

LEMMA Returned ==
  ASSUME NEW t, NEW q, NEW r, NEW j, NEW x, NEW sent, NEW onErr, NEW head,
         LockTop(t, q, r, j, x, sent, onErr, head), t.fn = "send" /\ x = None => sent
  PROVE  LockOf(q, r, j, None, sent, onErr, head)
BY LockFacts, Under

(* The head is written by the frame that returns. *)
LEMMA Written ==
  ASSUME NEW t, NEW q, NEW r, NEW j, NEW x, NEW sent, NEW onErr, NEW head, NEW code,
         LockTop(t, q, r, j, x, sent, onErr, head), Writes(t), Firm(t), Calm(t)
  PROVE  LockOf(q, r, j, None, sent, onErr, code)
<1>1. ~Below(q, r, j) /\ Ground(q, r, j) /\ sent /\ ~onErr
  BY LockFacts
<1>2. Keeps(q, r, j, sent, onErr, code)
  BY <1>1 DEF Keeps, Below, SomeJobWrites
<1> QED BY <1>1, <1>2, Under

(* A frame that joins the jobs of the platform or the promise jobs. *)
LEMMA JoinJob ==
  ASSUME NEW q, NEW r, NEW j, NEW sent, NEW onErr, NEW head,
         Ground(q, r, j), Keeps(q, r, j, sent, onErr, head),
         NEW y \in Frame, FitsJob(y), Writes(y) => ~Below(q, r, j) /\ head = "none",
         Calm(y) => ~onErr
  PROVE  /\ Ground(q, r, j \cup {y}) /\ Keeps(q, r, j \cup {y}, sent, onErr, head)
         /\ Below(q, r, j \cup {y}) <=> Below(q, r, j) \/ Writes(y)
<1>1. SomeJobWrites(j \cup {y}) <=> SomeJobWrites(j) \/ Writes(y)
  BY DEF SomeJobWrites
<1>2. Below(q, r, j \cup {y}) <=> Below(q, r, j) \/ Writes(y)
  BY <1>1 DEF Below
<1>3. \A a, b \in j \cup {y} : Writes(a) /\ Writes(b) => a = b
  BY DEF Ground, Below, SomeJobWrites
<1>4. Ground(q, r, j \cup {y})
  BY <1>1, <1>3 DEF Ground, Below
<1>5. Keeps(q, r, j \cup {y}, sent, onErr, head)
  BY DEF Keeps, CalmBelow
<1> QED BY <1>2, <1>4, <1>5

LEMMA JoinReady ==
  ASSUME NEW q, NEW r, NEW j, NEW sent, NEW onErr, NEW head,
         Ground(q, r, j), Keeps(q, r, j, sent, onErr, head),
         NEW y \in Frame, FitsReady(y), Writes(y) => ~Below(q, r, j) /\ head = "none",
         Calm(y) => ~onErr
  PROVE  /\ Ground(q, Append(r, y), j) /\ Keeps(q, Append(r, y), j, sent, onErr, head)
         /\ Below(q, Append(r, y), j) <=> Below(q, r, j) \/ Writes(y)
<1>1. r \in Seq(Frame) /\ Append(r, y) \in Seq(Frame)
  BY DEF Ground
<1>2. /\ Writing(Append(r, y)) <=> Writing(r) \/ Writes(y)
      /\ OneWrites(r) /\ ~(Writing(r) /\ Writes(y)) => OneWrites(Append(r, y))
      /\ CalmIn(Append(r, y)) <=> CalmIn(r) \/ Calm(y)
      /\ AllReady(r) /\ FitsReady(y) => AllReady(Append(r, y))
  BY <1>1, AtTheEnd
<1>3. Below(q, Append(r, y), j) <=> Below(q, r, j) \/ Writes(y)
  BY <1>2 DEF Below
<1>4. Ground(q, Append(r, y), j)
  BY <1>1, <1>2 DEF Ground, Below
<1>5. Keeps(q, Append(r, y), j, sent, onErr, head)
  BY <1>2 DEF Keeps, CalmBelow
<1> QED BY <1>3, <1>4, <1>5

LEMMA LeftTo ==
  ASSUME NEW t, NEW q, NEW r, NEW j, NEW x, NEW sent, NEW onErr, NEW head,
         LockTop(t, q, r, j, x, sent, onErr, head), t.fn # "send",
         NEW y \in Frame, FitsJob(y), Writes(y) => Writes(t) /\ sent, Calm(y) => ~onErr
  PROVE  LockOf(q, r, j \cup {y}, None, sent, onErr, head)
<1>1. /\ Ground(q, r, j \cup {y}) /\ Keeps(q, r, j \cup {y}, sent, onErr, head)
      /\ Below(q, r, j \cup {y}) <=> Below(q, r, j) \/ Writes(y)
  BY LockFacts, JoinJob
<1> QED BY <1>1, LockFacts, Under

LEMMA SettledFor ==
  ASSUME NEW t, NEW q, NEW r, NEW j, NEW x, NEW sent, NEW onErr, NEW head,
         LockTop(t, q, r, j, x, sent, onErr, head), t.fn # "send",
         NEW y \in Frame, FitsReady(y), Writes(y) => Writes(t) /\ sent, Calm(y) => ~onErr
  PROVE  LockOf(q, Append(r, y), j, None, sent, onErr, head)
<1>1. /\ Ground(q, Append(r, y), j) /\ Keeps(q, Append(r, y), j, sent, onErr, head)
      /\ Below(q, Append(r, y), j) <=> Below(q, r, j) \/ Writes(y)
  BY LockFacts, JoinReady
<1> QED BY <1>1, LockFacts, Under

(* Somebody takes the response over: rawEnd is the writer from now on. *)
LEMMA TakenOver ==
  ASSUME NEW t, NEW q, NEW r, NEW j, NEW sent, NEW onErr, NEW head, NEW now,
         LockTop(t, q, r, j, None, sent, onErr, head), ~sent, t.fn # "send",
         NEW h \in Frame, First(h, q), Waits(h), ~Writes(h),
         NEW y \in Frame, FitsJob(y), y.fn = "rawEnd"
  PROVE  now => LockTop(h, q, r, j \cup {y}, None, now, onErr, head)
<1>1. ~Below(q, r, j) /\ ~onErr /\ Ground(q, r, j) /\ Keeps(q, r, j, sent, onErr, head)
  BY LockFacts
<1>2. head = "none"
  BY <1>1 DEF Keeps
<1>3. Keeps(q, r, j, now, onErr, head)
  BY <1>1, <1>2 DEF Keeps
<1>4. Ground(q, r, j \cup {y}) /\ Keeps(q, r, j \cup {y}, now, onErr, head)
  <2>1. /\ Writes(y) => ~Below(q, r, j) /\ head = "none"
        /\ Calm(y) => ~onErr
    BY <1>1, <1>2
  <2> QED BY <1>1, <1>3, <2>1, JoinJob
<1>5. Spent(h) \/ (~OpenTop(h, q) /\ ~OverThenTop(h, q))
  BY Kinds DEF OpenTop, OverThenTop
<1> QED BY <1>1, <1>4, <1>5, Kinds DEF LockTop

-----------------------------------------------------------------------------
(* Exceptions *)

(* What a function of the framework throws: it is the writer itself, or a  *)
(* send that is refused inside an onError chain.                           *)
LEMMA Thrown ==
  ASSUME NEW t, NEW q, NEW r, NEW j, NEW sent, NEW onErr, NEW head, NEW v,
         LockTop(t, q, r, j, None, sent, onErr, head), v # None,
         Writes(t) \/ (t.fn = "send" /\ onErr)
  PROVE  LockOf(q, r, j, v, sent, onErr, head)
<1>1. Ground(q, r, j) /\ Keeps(q, r, j, sent, onErr, head)
  BY LockFacts
<1>2. CASE q = <<>>
  BY <1>1, <1>2 DEF LockTop, LockOf, LockIdle
<1>3. CASE q # <<>>
  <2> DEFINE u == Head(q)
             s == Tail(q)
  <2>1. u \in Frame /\ s \in Seq(Frame)
    BY <1>1, <1>3 DEF Ground
  <2>2. /\ Writing(q) <=> Writes(u) \/ Writing(s)
        /\ OneWrites(q) <=> OneWrites(s) /\ ~(Writes(u) /\ Writing(s))
        /\ CalmIn(q) <=> Calm(u) \/ CalmIn(s)
        /\ AllWait(q) <=> Waits(u) /\ Fits(u) /\ AllWait(s)
        /\ Open(q) <=> OpenTop(u, s)
        /\ OverThen(q) <=> OverThenTop(u, s)
        /\ ThenLast(q) => ThenLast(s) /\ (u.fn \in {"fulfilled", "thenTry"} => s = <<>>)
    BY <1>1, <1>3, ByFirst DEF Ground, OpenTop, OverThenTop
  <2> HIDE DEF u
  <2>3. Waits(u) /\ Fits(u) /\ First(u, s)
    BY <1>1, <2>2, Kinds DEF Ground, First
  <2>4. Ground(s, r, j) /\ Keeps(s, r, j, sent, onErr, head)
    BY <1>1, <2>1, <2>2 DEF Ground, Keeps, CalmBelow
  <2>5. Writes(u) => ~Below(s, r, j) /\ head = "none"
    BY <1>1, <2>2 DEF Ground, Keeps, Below
  <2>6. (Below(s, r, j) \/ Writes(u) => sent) /\ (onErr => sent)
    BY <1>3, <2>2 DEF LockTop, Doomed, Below
  <2>7. Calm(u) => ~onErr
    BY <1>1, <2>2 DEF Keeps, CalmBelow
  <2>8. t.fn = "send" => ~Spent(t) /\ ~IsAsyncUser(t)
    BY DEF Spent, IsAsyncUser, Tries
  <2>9. CASE ~Below(q, r, j) /\ head = "none"
    <3>1. ~Below(s, r, j)
      BY <2>2, <2>9 DEF Below
    <3>2. LockTop(u, s, r, j, v, sent, onErr, head)
      BY <2>1, <2>3, <2>4, <2>5, <2>6, <2>7, <2>9, <3>1, Kinds DEF LockTop
    <3> QED BY <1>3, <3>2 DEF LockOf, u
  <2>10. CASE ~(~Below(q, r, j) /\ head = "none")
    <3>1. t.fn = "send" /\ onErr
      BY <2>10 DEF LockTop
    <3>2. ~OpenTop(u, s)
      BY <2>2, <2>8, <2>10, <3>1 DEF LockTop, OpenTop
    <3>3. OverThenTop(u, s) => s = <<>>
      BY <1>3, <2>2, <2>8, <2>10, <3>1 DEF LockTop, OverThenTop
    <3>4. LockTop(u, s, r, j, v, sent, onErr, head)
      BY <2>1, <2>3, <2>4, <2>5, <2>6, <2>7, <3>1, <3>2, <3>3, Kinds DEF LockTop
    <3> QED BY <1>3, <3>4 DEF LockOf, u
  <2> QED BY <2>9, <2>10
<1> QED BY <1>2, <1>3

LEMMA UserThrew ==
  ASSUME NEW t, NEW q, NEW r, NEW j, NEW sent, NEW onErr, NEW head, NEW v,
         LockTop(t, q, r, j, None, sent, onErr, head), v # None,
         ~Spent(t), t.fn = "user"
  PROVE  LockTop(t, q, r, j, v, sent, onErr, head)
BY DEF LockTop, Doomed

(* It leaves a frame that does not catch it. *)
LEMMA Passed ==
  ASSUME NEW t, NEW q, NEW r, NEW j, NEW sent, NEW onErr, NEW head, NEW x,
         LockTop(t, q, r, j, x, sent, onErr, head), x # None, ~IsAsyncUser(t)
  PROVE  LockOf(q, r, j, x, sent, onErr, head)
<1>1. /\ Ground(q, r, j) /\ Keeps(q, r, j, sent, onErr, head)
      /\ Below(q, r, j) => sent
      /\ onErr => sent
  BY LockFacts
<1>2. CASE q = <<>>
  BY <1>1, <1>2 DEF LockOf, LockIdle
<1>3. CASE q # <<>>
  <2> DEFINE u == Head(q)
             s == Tail(q)
  <2>1. u \in Frame /\ s \in Seq(Frame)
    BY <1>1, <1>3 DEF Ground
  <2>2. /\ Writing(q) <=> Writes(u) \/ Writing(s)
        /\ OneWrites(q) <=> OneWrites(s) /\ ~(Writes(u) /\ Writing(s))
        /\ CalmIn(q) <=> Calm(u) \/ CalmIn(s)
        /\ AllWait(q) <=> Waits(u) /\ Fits(u) /\ AllWait(s)
        /\ Open(q) <=> OpenTop(u, s)
        /\ OverThen(q) <=> OverThenTop(u, s)
        /\ ThenLast(q) => ThenLast(s) /\ (u.fn \in {"fulfilled", "thenTry"} => s = <<>>)
    BY <1>1, <1>3, ByFirst DEF Ground, OpenTop, OverThenTop
  <2> HIDE DEF u, s
  <2>3. Waits(u) /\ Fits(u) /\ First(u, s)
    BY <1>1, <2>2, Kinds DEF Ground, First
  <2>4. Ground(s, r, j) /\ Keeps(s, r, j, sent, onErr, head)
    BY <1>1, <2>1, <2>2 DEF Ground, Keeps, CalmBelow
  <2>5. Writes(u) => ~Below(s, r, j) /\ head = "none"
    BY <1>1, <2>2 DEF Ground, Keeps, Below
  <2>6. Below(s, r, j) => Below(q, r, j)
    BY <2>2 DEF Below
  <2>7. (Writes(u) => sent) /\ (Calm(u) => ~onErr)
    BY <1>1, <2>2 DEF Keeps, CalmBelow, Below
  <2>8. OpenTop(u, s) \/ OverThenTop(u, s) => ~Below(q, r, j) /\ head = "none"
    BY <1>3, <2>2 DEF LockTop, OpenTop, OverThenTop
  <2>9. LockTop(u, s, r, j, x, sent, onErr, head)
    BY <1>1, <2>1, <2>3, <2>4, <2>5, <2>6, <2>7, <2>8, Kinds DEF LockTop
  <2> QED BY <1>3, <2>9 DEF LockOf, u, s
<1> QED BY <1>2, <1>3

(* Caught by a frame that makes a writer of it, *)
LEMMA CaughtOpen ==
  ASSUME NEW t, NEW q, NEW r, NEW j, NEW sent, NEW onErr, NEW head, NEW x,
         LockTop(t, q, r, j, x, sent, onErr, head), x # None, Catches(t),
         NEW g \in Frame, First(g, q), ~Firm(g), ~Calm(g), g.fn # "notFound"
  PROVE  LockTop(g, q, r, j, None, sent, onErr, head)
<1>1. ~Below(q, r, j) /\ head = "none" /\ Ground(q, r, j) /\ (onErr => sent)
  BY LockFacts DEF LockTop, OpenTop
<1> QED BY <1>1, FreeTop

(* or by the try block of wrapThenable, which resets reply.sent. *)
LEMMA CaughtByThen ==
  ASSUME NEW t, NEW q, NEW r, NEW j, NEW sent, NEW onErr, NEW head, NEW x, NEW now,
         LockTop(t, q, r, j, x, sent, onErr, head), x # None, t.fn = "thenTry",
         NEW g \in Frame, First(g, q), g.fn = "send"
  PROVE  LockTop(g, q, r, j, None, now, onErr, head)
<1>1. q = <<>> /\ ~IsAsyncUser(t) /\ ~Writes(g) /\ ~Firm(g) /\ ~Calm(g) /\ ~Catches(g)
  BY DEF LockTop, First, IsAsyncUser, Writes, Firm, Calm, Catches, UserSide
<1>2. Ground(q, r, j) /\ Keeps(q, r, j, sent, onErr, head)
  BY LockFacts
<1>3. (~Below(q, r, j) /\ head = "none") \/ onErr
  BY <1>1 DEF LockTop, OverThenTop
<1>4. head = "none"
  BY <1>2, <1>3 DEF Keeps
<1>5. Keeps(q, r, j, now, onErr, head)
  BY <1>2, <1>4 DEF Keeps
<1>6. ~OpenTop(g, q) /\ ~OverThenTop(g, q)
  BY <1>1, EmptyFrames DEF OpenTop, OverThenTop
<1> QED BY <1>1, <1>2, <1>3, <1>4, <1>5, <1>6 DEF LockTop, Doomed

-----------------------------------------------------------------------------
(* Turns of the event loop *)

LEMMA NoFrames == <<>> \in Seq(Frame) /\ ~Open(<<>>) /\ ~OverThen(<<>>) /\ ~Writing(<<>>) /\ ~CalmIn(<<>>)
                  /\ OneWrites(<<>>) /\ AllWait(<<>>) /\ AllReady(<<>>) /\ ThenLast(<<>>)
BY EmptyFrames

(* The next promise job is the running frame. *)
LEMMA FromReady ==
  ASSUME NEW r, NEW j, NEW sent, NEW onErr, NEW head,
         LockIdle(r, j, None, sent, onErr, head), r # <<>>
  PROVE  LockTop(Head(r), <<>>, Tail(r), j, None, sent, onErr, head)
<1> DEFINE u == Head(r)
           s == Tail(r)
<1>1. u \in Frame /\ s \in Seq(Frame)
  BY DEF LockIdle, Ground
<1>2. /\ Writing(r) <=> Writes(u) \/ Writing(s)
      /\ OneWrites(r) <=> OneWrites(s) /\ ~(Writes(u) /\ Writing(s))
      /\ CalmIn(r) <=> Calm(u) \/ CalmIn(s)
      /\ AllReady(r) <=> FitsReady(u) /\ AllReady(s)
  BY ByFirst DEF LockIdle, Ground
<1> HIDE DEF u, s
<1>3. /\ Below(<<>>, r, j) => sent
      /\ onErr => sent
      /\ Ground(<<>>, r, j) /\ Keeps(<<>>, r, j, sent, onErr, head)
  BY DEF LockIdle
<1>4. Ground(<<>>, s, j) /\ Keeps(<<>>, s, j, sent, onErr, head)
  BY <1>1, <1>2, <1>3 DEF Ground, Keeps, CalmBelow
<1>5. /\ Fits(u) /\ First(u, <<>>) /\ ~Catches(u)
      /\ u.fn \notin {"notFound", "thenTry"}
  BY <1>2, <1>3 DEF Ground, FitsReady, First, Catches
<1>6. Writes(u) => ~Below(<<>>, s, j) /\ head = "none" /\ sent
  BY <1>2, <1>3, NoFrames DEF Below, Ground, Keeps
<1>7. Below(<<>>, s, j) => sent
  BY <1>2, <1>3 DEF Below
<1>8. Calm(u) => ~onErr
  BY <1>2, <1>3 DEF Keeps, CalmBelow
<1>9. ~OpenTop(u, <<>>) /\ ~OverThenTop(u, <<>>)
  BY <1>5, NoFrames DEF OpenTop, OverThenTop
<1>10. LockTop(u, <<>>, s, j, None, sent, onErr, head)
  BY <1>1, <1>3, <1>4, <1>5, <1>6, <1>7, <1>8, <1>9, Kinds DEF LockTop
<1> QED BY <1>10 DEF u, s

(* A job of the platform is taken out. *)
LEMMA TakeJob ==
  ASSUME NEW q, NEW r, NEW j, NEW sent, NEW onErr, NEW head, NEW y \in j,
         Ground(q, r, j), Keeps(q, r, j, sent, onErr, head)
  PROVE  /\ Ground(q, r, j \ {y}) /\ Keeps(q, r, j \ {y}, sent, onErr, head)
         /\ Below(q, r, j \ {y}) => Below(q, r, j)
         /\ Writes(y) => Below(q, r, j) /\ ~Below(q, r, j \ {y})
         /\ Calm(y) => ~onErr
         /\ y \in Frame /\ FitsJob(y)
<1>1. SomeJobWrites(j \ {y}) => SomeJobWrites(j)
  BY DEF SomeJobWrites
<1>2. Writes(y) => SomeJobWrites(j) /\ ~SomeJobWrites(j \ {y})
  BY DEF SomeJobWrites, Ground
<1>3. Ground(q, r, j \ {y})
  BY <1>1 DEF Ground
<1>4. Keeps(q, r, j \ {y}, sent, onErr, head)
  BY DEF Keeps, CalmBelow
<1>5. Writes(y) => ~Writing(q) /\ ~Writing(r)
  BY <1>2 DEF Ground
<1> QED BY <1>1, <1>2, <1>3, <1>4, <1>5 DEF Below, Keeps, CalmBelow, Ground

LEMMA FromJobs ==
  ASSUME NEW j, NEW sent, NEW onErr, NEW head,
         LockIdle(<<>>, j, None, sent, onErr, head), NEW y \in j,
         NEW g \in Frame, Fits(g), ~Catches(g),
         g.fn \notin {"notFound", "thenTry", "pipe", "rawEnd"},
         Writes(g) => Writes(y) /\ head = "none", Calm(g) => Calm(y)
  PROVE  LockTop(g, <<>>, <<>>, j \ {y}, None, sent, onErr, head)
<1>1. /\ Below(<<>>, <<>>, j) => sent
      /\ onErr => sent
      /\ Ground(<<>>, <<>>, j) /\ Keeps(<<>>, <<>>, j, sent, onErr, head)
  BY DEF LockIdle
<1>2. /\ Ground(<<>>, <<>>, j \ {y}) /\ Keeps(<<>>, <<>>, j \ {y}, sent, onErr, head)
      /\ Below(<<>>, <<>>, j \ {y}) => Below(<<>>, <<>>, j)
      /\ Writes(y) => Below(<<>>, <<>>, j) /\ ~Below(<<>>, <<>>, j \ {y})
      /\ Calm(y) => ~onErr
  BY <1>1, TakeJob
<1>3. First(g, <<>>) /\ ~OpenTop(g, <<>>) /\ ~OverThenTop(g, <<>>)
  BY NoFrames DEF First, OpenTop, OverThenTop
<1> QED BY <1>1, <1>2, <1>3, Kinds DEF LockTop

LEMMA FromEvent ==
  ASSUME NEW j, NEW sent, NEW onErr, NEW head,
         LockIdle(<<>>, j, None, sent, onErr, head),
         NEW g \in Frame, Fits(g), ~Catches(g), ~Writes(g),
         g.fn \notin {"notFound", "thenTry", "pipe", "rawEnd"}
  PROVE  LockTop(g, <<>>, <<>>, j, None, sent, onErr, head)
<1>1. First(g, <<>>) /\ ~OpenTop(g, <<>>) /\ ~OverThenTop(g, <<>>)
  BY NoFrames DEF First, OpenTop, OverThenTop
<1> QED BY <1>1, Kinds DEF LockTop, LockIdle

LEMMA Dropped ==
  ASSUME NEW j, NEW r, NEW sent, NEW onErr, NEW head, NEW code,
         LockIdle(r, j, None, sent, onErr, head), NEW y \in j,
         code = head \/ (Writes(y) /\ Calm(y))
  PROVE  LockIdle(r, j \ {y}, None, sent, onErr, code)
<1>1. /\ Below(<<>>, r, j) => sent
      /\ onErr => sent
      /\ Ground(<<>>, r, j) /\ Keeps(<<>>, r, j, sent, onErr, head)
  BY DEF LockIdle
<1>2. /\ Ground(<<>>, r, j \ {y}) /\ Keeps(<<>>, r, j \ {y}, sent, onErr, head)
      /\ Below(<<>>, r, j \ {y}) => Below(<<>>, r, j)
      /\ Writes(y) => Below(<<>>, r, j) /\ ~Below(<<>>, r, j \ {y})
      /\ Calm(y) => ~onErr
  BY <1>1, TakeJob
<1>3. Keeps(<<>>, r, j \ {y}, sent, onErr, code)
  BY <1>1, <1>2 DEF Keeps, Below, SomeJobWrites
<1> QED BY <1>1, <1>2, <1>3 DEF LockIdle

LEMMA FromJobToReady ==
  ASSUME NEW j, NEW r, NEW sent, NEW onErr, NEW head,
         LockIdle(r, j, None, sent, onErr, head), NEW y \in j, y.fn # "pipe",
         NEW g \in Frame, FitsReady(g), Writes(g) => Writes(y), Calm(g) => Calm(y)
  PROVE  LockIdle(Append(r, g), j \ {y}, None, sent, onErr, head)
<1>1. /\ Below(<<>>, r, j) => sent
      /\ onErr => sent
      /\ Ground(<<>>, r, j) /\ Keeps(<<>>, r, j, sent, onErr, head)
  BY DEF LockIdle
<1>2. /\ Ground(<<>>, r, j \ {y}) /\ Keeps(<<>>, r, j \ {y}, sent, onErr, head)
      /\ Below(<<>>, r, j \ {y}) => Below(<<>>, r, j)
      /\ Writes(y) => Below(<<>>, r, j) /\ ~Below(<<>>, r, j \ {y})
      /\ Calm(y) => ~onErr
      /\ Writes(y) => head = "none"
  BY <1>1, TakeJob DEF Keeps
<1>3. /\ Ground(<<>>, Append(r, g), j \ {y}) /\ Keeps(<<>>, Append(r, g), j \ {y}, sent, onErr, head)
      /\ Below(<<>>, Append(r, g), j \ {y}) <=> Below(<<>>, r, j \ {y}) \/ Writes(g)
  BY <1>2, JoinReady
<1> QED BY <1>1, <1>2, <1>3 DEF LockIdle

(* The first chunk of the stream that is piped sends the head. *)
LEMMA Streamed ==
  ASSUME NEW j, NEW r, NEW sent, NEW onErr, NEW head, NEW code,
         LockIdle(r, j, None, sent, onErr, head), NEW y \in j, y.fn = "pipe"
  PROVE  LockIdle(r, j, None, sent, onErr, code)
<1>1. /\ Below(<<>>, r, j) => sent
      /\ Ground(<<>>, r, j) /\ Keeps(<<>>, r, j, sent, onErr, head)
  BY DEF LockIdle
<1>2. Writes(y) /\ Calm(y)
  BY DEF Writes, Calm
<1>3. Keeps(<<>>, r, j, sent, onErr, code)
  BY <1>1, <1>2 DEF Keeps, CalmBelow, Below, Ground, SomeJobWrites
<1> QED BY <1>1, <1>3 DEF LockIdle

-----------------------------------------------------------------------------
(* The frames the code builds, by what they may write. *)

(* A frame that writes nothing and makes no writer of what it catches. *)
Neutral(g) ==
  /\ Fits(g) /\ ~Writes(g) /\ ~Catches(g)
  /\ g.fn \notin {"notFound", "thenTry", "fulfilled", "pipe", "rawEnd"}

NeutralFns ==
  {"routeHandler", "runPreParsing", "handleRequest", "bodyDone", "handler", "handlerTry",
   "preValidationCallback", "preHandlerCallback", "rejected", "send", "onResponseCallback", "rawBody"}

LEMMA NeutralFrame ==
  ASSUME NEW g, g.fn \in NeutralFns
  PROVE  Neutral(g) /\ First(g, <<>>)
BY DEF Neutral, NeutralFns, Fits, First, Writes, Catches, UserSide

OtherChains == RequestChains \cup {"onResponse"}

LEMMA NeutralChain ==
  ASSUME NEW t \in Frame, t.c \in OtherChains, NEW err, NEW new
  PROVE  Neutral(Callback(t, err)) /\ Neutral(NextOf(t, err, new)) /\ FitsReady(NextOf(t, err, new))
<1>1. /\ t.c \in HookChains /\ t.c \notin PayloadChains
  BY DEF OtherChains, HookChains, RequestChains, PayloadChains
<1>2. /\ Callback(t, err).fn = CallbackOf[t.c]
      /\ NextOf(t, err, new).c = t.c
      /\ NextOf(t, err, new).fn = IF t.c = "preParsing" THEN "preParsingNext" ELSE "hookNext"
  BY <1>1 DEF Callback, NextOf, Frame, FrameOf
<1>3. CallbackOf[t.c] \in NeutralFns
  BY DEF CallbackOf, OtherChains, RequestChains, NeutralFns
<1>4. Neutral(Callback(t, err))
  BY <1>2, <1>3, NeutralFrame
<1>5. Neutral(NextOf(t, err, new))
  BY <1>2 DEF Neutral, Fits, Writes, Catches, UserSide, OtherChains
<1>6. FitsReady(NextOf(t, err, new))
  BY <1>2, <1>5 DEF Neutral, FitsReady
<1> QED BY <1>4, <1>5, <1>6

LEMMA NeutralStart ==
  ASSUME NEW t \in Frame, NEW c \in OtherChains
  PROVE  Neutral(StartChain(t, c))
<1> DEFINE t2 == [t EXCEPT !.c = c, !.i = 0, !.e = None]
<1>1. c \in UserFns \cup {"none"} /\ c \in HookChains /\ c \in UserFns
  BY DEF OtherChains, UserFns, HookChains, RequestChains
<1>2. t2 \in Frame /\ t2.c = c
  BY <1>1 DEF Frame, FrameOf, Payload
<1> HIDE DEF t2
<1>3. Neutral(Callback(t2, None)) /\ Neutral(NextOf(t2, None, None))
  BY <1>2, NeutralChain
<1> QED BY <1>3 DEF StartChain, t2

(* Plain("hookNext") is a frame only once it works for a chain.            *)
LEMMA NeutralResponse == Neutral(StartChain(Plain("hookNext"), "onResponse"))
<1> DEFINE t2 == [Plain("hookNext") EXCEPT !.c = "onResponse", !.i = 0, !.e = None]
<1>1. t2 \in Frame /\ t2.c = "onResponse"
  BY DEF Plain, Frame, FrameOf, Fns, UserFns, HookChains, Payload, None, RunnerFns
<1> HIDE DEF t2
<1>2. Neutral(Callback(t2, None)) /\ Neutral(NextOf(t2, None, None))
  BY <1>1, NeutralChain DEF OtherChains
<1> QED BY <1>2 DEF StartChain, t2

LEMMA NeutralUser ==
  ASSUME NEW t \in Frame, NEW c, c \notin PayloadChains, NEW i, NEW style
  PROVE  Neutral(User(t, c, i, style))
<1>1. User(t, c, i, style).fn = "user" /\ User(t, c, i, style).c = c
  BY DEF User, Frame, FrameOf
<1> QED BY <1>1 DEF Neutral, Fits, Writes, Catches, UserSide, PayloadChains

(* The frames of a payload chain are writers. *)
LEMMA PayloadChain ==
  ASSUME NEW t \in Frame, t.c \in PayloadChains, NEW err, NEW new
  PROVE  /\ \A g \in {Callback(t, err), NextOf(t, err, new)} :
              /\ Fits(g) /\ g.fn \notin {"notFound", "thenTry", "fulfilled", "pipe", "rawEnd"}
              /\ Firm(g) => err = None /\ t.c # "preSerialization"
              /\ Calm(g) => err = None /\ t.c # "onError"
              /\ t.c # "preSerialization" => FitsReady(g)
         /\ Firm(Callback(t, err)) => t.c = "onSend"
<1> DEFINE g == Callback(t, err)
           h == NextOf(t, err, new)
<1>1. /\ g.fn = CallbackOf[t.c] /\ g.c = t.c /\ g.e = IF t.c = "onError" THEN t.p ELSE err
      /\ h.fn = "sendNext" /\ h.c = t.c /\ h.e = err
  BY DEF Callback, NextOf, Frame, FrameOf, PayloadChains
<1>2. /\ t.c = "preSerialization" => g.fn = "preserializeHookEnd"
      /\ t.c = "onSend" => g.fn = "wrapOnSendEnd"
      /\ t.c = "onError" => g.fn = "handleError"
      /\ t.c \in {"preSerialization", "onSend", "onError"}
  BY <1>1 DEF CallbackOf, PayloadChains
<1> HIDE DEF g, h
<1>3. /\ Fits(g) /\ g.fn \notin {"notFound", "thenTry", "fulfilled", "pipe", "rawEnd"}
      /\ Firm(g) => err = None /\ t.c = "onSend"
      /\ Calm(g) => err = None /\ t.c # "onError"
      /\ t.c # "preSerialization" => FitsReady(g)
  BY <1>1, <1>2 DEF Fits, FitsReady, Firm, Calm, UserSide
<1>4. /\ Fits(h) /\ h.fn \notin {"notFound", "thenTry", "fulfilled", "pipe", "rawEnd"}
      /\ Firm(h) => err = None /\ t.c # "preSerialization"
      /\ Calm(h) => err = None /\ t.c # "onError"
      /\ t.c # "preSerialization" => FitsReady(h)
  BY <1>1, <1>2 DEF Fits, FitsReady, Firm, Calm, UserSide, PayloadChains
<1> QED BY <1>2, <1>3, <1>4 DEF g, h

LEMMA PayloadStart ==
  ASSUME NEW t \in Frame, NEW c \in PayloadChains, NEW h, h = StartChain(t, c)
  PROVE  /\ Fits(h) /\ h.fn \notin {"notFound", "thenTry", "fulfilled", "pipe", "rawEnd"}
         /\ Firm(h) => c # "preSerialization"
         /\ Calm(h) => c # "onError"
<1> DEFINE t2 == [t EXCEPT !.c = c, !.i = 0, !.e = None]
<1>1. c \in UserFns \cup {"none"} /\ c \in HookChains /\ c \in UserFns
  BY DEF PayloadChains, UserFns, HookChains
<1>2. t2 \in Frame /\ t2.c = c
  BY <1>1 DEF Frame, FrameOf, Payload
<1> HIDE DEF t2
<1>3. \A g \in {Callback(t2, None), NextOf(t2, None, None)} :
        /\ Fits(g) /\ g.fn \notin {"notFound", "thenTry", "fulfilled", "pipe", "rawEnd"}
        /\ Firm(g) => c # "preSerialization"
        /\ Calm(g) => c # "onError"
  BY <1>2, PayloadChain
<1>4. h \in {Callback(t2, None), NextOf(t2, None, None)}
  BY DEF StartChain, t2
<1> QED BY <1>3, <1>4

(* A user function and what comes of it. *)
LEMMA PayloadUser ==
  ASSUME NEW t \in Frame, NEW c \in PayloadChains, NEW i, NEW style,
         c = "preSerialization" => style = "sync" /\ HookCount[c] > 0, NEW g, g = User(t, c, i, style)
  PROVE  /\ Fits(g) /\ g.fn = "user"
         /\ Firm(g) => c # "preSerialization"
         /\ Calm(g) => c # "onError"
<1>1. g.fn = "user" /\ g.c = c /\ g.m = style
  BY DEF User, Frame, FrameOf
<1> QED BY <1>1 DEF Fits, Firm, Calm, UserSide

LEMMA FinishedUser ==
  ASSUME NEW u \in Frame, Fits(u), u.fn = "user", NEW h, h = Finished(u)
  PROVE  /\ h \in Frame /\ Waits(h) /\ Fits(h) /\ h.fn = "user"
         /\ Catches(h) <=> Catches(u)
         /\ IsAsyncUser(h) <=> IsAsyncUser(u)
         /\ Writes(h) <=> u.c \in PayloadChains /\ IsAsyncUser(u)
         /\ Writes(h) => Writes(u) /\ Firm(u)
         /\ Calm(h) => Calm(u)
<1>1. /\ h \in Frame /\ h.fn = "user" /\ h.c = u.c /\ h.m = u.m /\ h.done = TRUE
  BY DEF Finished, Frame, FrameOf
<1>2. Waits(h) /\ Fits(h)
  BY <1>1 DEF Waits, Fits
<1>3. (Catches(h) <=> Catches(u)) /\ (IsAsyncUser(h) <=> IsAsyncUser(u))
  BY <1>1 DEF Catches, IsAsyncUser
<1>4. Writes(h) <=> u.c \in PayloadChains /\ IsAsyncUser(u)
  BY <1>1 DEF Writes, IsAsyncUser, UserSide
<1>5. IsAsyncUser(u) /\ u.c \in PayloadChains => Writes(u)
  BY DEF IsAsyncUser, Writes, UserSide
<1>6. IsAsyncUser(u) => u.c # "preSerialization"
  BY DEF IsAsyncUser, Fits
<1>7. Writes(h) => Writes(u) /\ Firm(u)
  BY <1>4, <1>5, <1>6 DEF Firm, UserSide
<1>8. Calm(h) => Calm(u)
  BY <1>1, <1>7 DEF Calm, UserSide
<1> QED BY <1>1, <1>2, <1>3, <1>4, <1>7, <1>8

(* What waits for the promise of an async user function writes only if the *)
(* function is a hook of a payload chain, as the function itself.          *)
LEMMA AsyncOutcome ==
  ASSUME NEW u \in Frame, Fits(u), u.fn \in UserSide, u.c \in UserFns, u.c # "preSerialization",
         NEW err, NEW new, NEW v, NEW g,
         \/ g \in {Fulfilment(u), Rejection(u, err), BodyDone(u, None), Thenable(u, "fulfilled", v),
                   [Thenable(u, "fulfilled", v) EXCEPT !.f = MaxSends + 1]}
         \/ u.c \in HookChains /\ g = NextOf(u, None, new)
  PROVE  /\ FitsReady(g)
         /\ Writes(g) => u.c \in PayloadChains
         /\ Calm(g) => u.c # "onError"
<1>1. CASE g \in {BodyDone(u, None), BodyDone(u, err)}
  <2>1. g.fn = "bodyDone"
    BY <1>1 DEF BodyDone, Frame, FrameOf
  <2> QED BY <2>1 DEF FitsReady, Fits, Writes, Calm, UserSide
<1>2. CASE g \in {Thenable(u, "fulfilled", v), [Thenable(u, "fulfilled", v) EXCEPT !.f = MaxSends + 1],
                  Thenable(u, "fulfilled", None), Thenable(u, "rejected", err)}
  <2>1. g.fn \in {"fulfilled", "rejected"}
    BY <1>2 DEF Thenable, Frame, FrameOf
  <2> QED BY <2>1 DEF FitsReady, Fits, Writes, Calm, UserSide
<1>3. CASE /\ u.c \in HookChains
           /\ g \in {NextOf(u, None, new), NextOf(u, None, None), NextOf(u, err, None)}
  <2>1. CASE u.c \in PayloadChains
    BY <1>3, <2>1, PayloadChain
  <2>2. CASE u.c \notin PayloadChains
    <3>1. u.c \in OtherChains
      BY <1>3, <2>2 DEF HookChains, OtherChains
    <3>2. Neutral(g) /\ FitsReady(g)
      BY <1>3, <3>1, NeutralChain
    <3> QED BY <3>2, Kinds DEF Neutral
  <2> QED BY <2>1, <2>2
<1>4. CASE u.c \in PayloadChains /\ g = Callback(u, err)
  BY <1>4, PayloadChain
<1>5. CASE /\ u.c \in OtherChains
           /\ g = [u EXCEPT !.fn = "handleReject", !.e = err, !.m = "sync", !.done = FALSE]
  <2>1. g.fn = "handleReject" /\ g.c = u.c
    BY <1>5 DEF Frame, FrameOf
  <2> QED BY <1>5, <2>1 DEF FitsReady, Fits, Writes, Calm, UserSide, OtherChains
<1>6. \/ g \in {BodyDone(u, None), Thenable(u, "fulfilled", v),
                [Thenable(u, "fulfilled", v) EXCEPT !.f = MaxSends + 1]}
      \/ u.c \in HookChains /\ g = NextOf(u, None, new)
      \/ g = Fulfilment(u) \/ g = Rejection(u, err)
  OBVIOUS
<1>7. CASE g = Fulfilment(u)
  BY <1>1, <1>2, <1>3, <1>7 DEF Fulfilment, Completion, UserFns
<1>8. CASE g = Rejection(u, err)
  BY <1>1, <1>2, <1>3, <1>4, <1>5, <1>8
  DEF Rejection, UserFns, HookChains, RequestChains, PayloadChains, OtherChains
<1> QED BY <1>1, <1>2, <1>3, <1>6, <1>7, <1>8

LEMMA FulfilledOutcome ==
  ASSUME NEW u \in Frame, Fits(u), u.fn \in UserSide, u.c \in UserFns, u.c # "preSerialization",
         NEW g, g = Fulfilment(u)
  PROVE  /\ FitsReady(g)
         /\ Writes(g) => u.c \in PayloadChains
         /\ Calm(g) => u.c # "onError"
<1>1. PICK err, new, v : err = None /\ new = None /\ v = None
  OBVIOUS
<1> QED BY <1>1, AsyncOutcome

-----------------------------------------------------------------------------
(* The invariant of the state, and what the operators of EventLoop make of *)
(* it.                                                                     *)

Lock == LockOf(stack, ready, jobs, exc, reply.sent, reply.onErr, res.head)

SameFlags == reply'.sent = reply.sent /\ reply'.onErr = reply.onErr /\ res'.head = res.head

(* A frame from g on top of q is the running one. *)
LEMMA LockOnTop ==
  ASSUME TypeOK', NEW q, NEW g, q \in Seq(Frame), stack' = <<g>> \o q
  PROVE  /\ g \in Frame
         /\ LockTop(g, q, ready', jobs', exc', reply'.sent, reply'.onErr, res'.head) => Lock'
<1>1. stack' # <<>> /\ Head(stack') = g /\ Tail(stack') = q
  BY OnTop
<1>2. g \in Frame
  BY <1>1 DEF TypeOK, LoopTypeOK
<1> QED BY <1>1, <1>2 DEF Lock, LockOf

LEMMA LockAtTop ==
  ASSUME Lock, stack # <<>>
  PROVE  /\ LockTop(Top, Tail(stack), ready, jobs, exc, reply.sent, reply.onErr, res.head)
         /\ Top \in Frame /\ Fits(Top) /\ Tail(stack) \in Seq(Frame)
         /\ Top.fn \in {"user", "awaitReply", "eos"} => Top.c \in UserFns
BY LockFacts DEF Lock, LockOf, Top, Ground, Frame

LEMMA LockWhenIdle ==
  ASSUME Lock, Steady, stack = <<>>
  PROVE  LockIdle(ready, jobs, None, reply.sent, reply.onErr, res.head)
BY DEF Lock, LockOf, Steady

(* A function that writes nothing goes on, or catches, *)
LEMMA NeutralGoto ==
  ASSUME TypeOK', Lock, stack # <<>>, exc # None \/ ~Spent(Top),
         Top.fn \notin {"send", "thenTry"}, ~IsAsyncUser(Top),
         NEW g, Neutral(g), Catch(g) \/ (exc = None /\ Goto(g)), SameFlags
  PROVE  Lock'
<1>1. /\ LockTop(Top, Tail(stack), ready, jobs, exc, reply.sent, reply.onErr, res.head)
      /\ Tail(stack) \in Seq(Frame)
  BY LockAtTop
<1>2. g \in Frame
  BY <1>1, LockOnTop DEF Goto, Catch
<1>3. First(g, Tail(stack))
  BY DEF Neutral, First
<1>4. LockTop(g, Tail(stack), ready, jobs, None, reply.sent, reply.onErr, res.head)
  BY <1>1, <1>2, <1>3, NeutralTop DEF Neutral
<1> QED BY <1>1, <1>4, LockOnTop DEF Goto, Catch, SameFlags

(* or calls another; *)
LEMMA NeutralCallStep ==
  ASSUME TypeOK', Lock, stack # <<>>, exc = None, ~Spent(Top), Top.fn \notin {"send", "thenTry"},
         NEW h, Waits(h), Fits(h), h.fn # "thenTry", ~Catches(h),
         Writes(h) => Writes(Top) /\ reply.sent /\ IsAsyncUser(h), Calm(h) => Calm(Top),
         IsAsyncUser(Top) => IsAsyncUser(h),
         NEW g, Neutral(g), Call(h, g), SameFlags
  PROVE  Lock'
<1>1. /\ LockTop(Top, Tail(stack), ready, jobs, None, reply.sent, reply.onErr, res.head)
      /\ Tail(stack) \in Seq(Frame) /\ Calm(Top) => ~reply.onErr
  BY LockAtTop, LockFacts
<1>2. stack' = <<g, h>> \o Tail(stack)
  BY DEF Call
<1>3. /\ g \in Frame /\ h \in Frame /\ <<h>> \o Tail(stack) \in Seq(Frame)
      /\ stack' = <<g>> \o (<<h>> \o Tail(stack))
  BY <1>1, <1>2, TwoOnTop DEF TypeOK, LoopTypeOK
<1>4. LockTop(g, <<h>> \o Tail(stack), ready, jobs, None, reply.sent, reply.onErr, res.head)
  BY <1>1, <1>3, NeutralCall DEF Neutral
<1> QED BY <1>3, <1>4, LockOnTop DEF Call, SameFlags

(* the writer goes on; *)
LEMMA WriterGoto ==
  ASSUME TypeOK', Lock, stack # <<>>, exc = None, Writes(Top),
         NEW g, Fits(g), g.fn \notin {"notFound", "thenTry", "fulfilled", "pipe", "rawEnd"},
         Firm(g) => reply'.sent, Calm(g) => ~reply'.onErr, reply'.onErr => reply'.sent,
         Goto(g), res'.head = res.head
  PROVE  Lock'
<1>1. /\ LockTop(Top, Tail(stack), ready, jobs, None, reply.sent, reply.onErr, res.head)
      /\ Tail(stack) \in Seq(Frame) /\ Ground(Tail(stack), ready, jobs)
      /\ ~Below(Tail(stack), ready, jobs) /\ res.head = "none"
  BY LockAtTop, LockFacts
<1>2. g \in Frame
  BY <1>1, LockOnTop DEF Goto
<1>3. First(g, Tail(stack))
  BY DEF First
<1>4. LockTop(g, Tail(stack), ready, jobs, None, reply'.sent, reply'.onErr, "none")
  BY <1>1, <1>2, <1>3, FreeTop
<1> QED BY <1>1, <1>4, LockOnTop DEF Goto

(* it calls a function, or one that is done with its part; *)
LEMMA WriterCall ==
  ASSUME TypeOK', Lock, stack # <<>>, exc = None, Top.fn # "send",
         ~Below(Tail(stack), ready, jobs), res.head = "none",
         NEW h, Waits(h), Fits(h), h.fn # "thenTry", ~Writes(h),
         NEW g, Fits(g), g.fn \notin {"thenTry", "fulfilled", "pipe", "rawEnd"},
         g.fn = "notFound" => ~reply.sent,
         Firm(g) => reply.sent, Calm(g) => ~reply.onErr,
         Call(h, g), SameFlags
  PROVE  Lock'
<1>1. /\ LockTop(Top, Tail(stack), ready, jobs, None, reply.sent, reply.onErr, res.head)
      /\ Tail(stack) \in Seq(Frame) /\ Ground(Tail(stack), ready, jobs)
      /\ reply.onErr => reply.sent
  BY LockAtTop, LockFacts
<1>2. stack' = <<g, h>> \o Tail(stack)
  BY DEF Call
<1>3. /\ g \in Frame /\ h \in Frame /\ <<h>> \o Tail(stack) \in Seq(Frame)
      /\ stack' = <<g>> \o (<<h>> \o Tail(stack))
  BY <1>1, <1>2, TwoOnTop DEF TypeOK, LoopTypeOK
<1>4. /\ Ground(<<h>> \o Tail(stack), ready, jobs)
      /\ ~Below(<<h>> \o Tail(stack), ready, jobs)
  BY <1>1, <1>3, GroundCall
<1>5. First(g, <<h>> \o Tail(stack))
  BY DEF First
<1>6. LockTop(g, <<h>> \o Tail(stack), ready, jobs, None, reply.sent, reply.onErr, "none")
  BY <1>1, <1>3, <1>4, <1>5, FreeTop
<1> QED BY <1>3, <1>6, LockOnTop DEF Call, SameFlags

(* send accepts, and is a writer from now on.                              *)
LEMMA AcceptedGoto ==
  ASSUME TypeOK', Lock, stack # <<>>, exc = None, Top.fn = "send", ~reply.sent, ~reply.onErr,
         NEW g, Fits(g), g.fn \notin {"notFound", "thenTry", "fulfilled", "pipe", "rawEnd"},
         ~Firm(g), Goto(g), SameFlags
  PROVE  Lock'
<1>1. /\ LockTop(Top, Tail(stack), ready, jobs, None, reply.sent, reply.onErr, res.head)
      /\ Tail(stack) \in Seq(Frame) /\ Ground(Tail(stack), ready, jobs)
      /\ Keeps(Tail(stack), ready, jobs, reply.sent, reply.onErr, res.head)
  BY LockAtTop, LockFacts
<1>2. ~Below(Tail(stack), ready, jobs) /\ res.head = "none"
  BY <1>1 DEF LockTop, Keeps
<1>3. g \in Frame
  BY <1>1, LockOnTop DEF Goto
<1>4. First(g, Tail(stack))
  BY DEF First
<1>5. LockTop(g, Tail(stack), ready, jobs, None, reply.sent, reply.onErr, "none")
  BY <1>1, <1>2, <1>3, <1>4, FreeTop
<1> QED BY <1>1, <1>2, <1>5, LockOnTop DEF Goto, SameFlags

(* The running frame returns, *)
LEMMA ReturnStep ==
  ASSUME Lock, stack # <<>>, exc = None, Top.fn = "send" => reply.sent, Return, SameFlags
  PROVE  Lock'
<1>1. LockTop(Top, Tail(stack), ready, jobs, exc, reply.sent, reply.onErr, res.head)
  BY LockAtTop
<1>2. LockOf(Tail(stack), ready, jobs, None, reply.sent, reply.onErr, res.head)
  BY <1>1, Returned
<1> QED BY <1>2 DEF Lock, Return, SameFlags

(* leaves a job to the platform, *)
LEMMA LeaveStep ==
  ASSUME TypeOK', Lock, stack # <<>>, exc = None, Top.fn # "send",
         NEW y, FitsJob(y), Writes(y) => Writes(Top) /\ reply.sent, Calm(y) => ~reply.onErr,
         Leave(y), SameFlags
  PROVE  Lock'
<1>1. LockTop(Top, Tail(stack), ready, jobs, exc, reply.sent, reply.onErr, res.head)
  BY LockAtTop
<1>2. y \in Frame
  BY DEF TypeOK, LoopTypeOK, Leave
<1>3. LockOf(Tail(stack), ready, jobs \cup {y}, None, reply.sent, reply.onErr, res.head)
  BY <1>1, <1>2, LeftTo
<1> QED BY <1>3 DEF Lock, Leave, SameFlags

(* or settles a promise.                                                   *)
LEMMA SettleStep ==
  ASSUME TypeOK, TypeOK', Lock, stack # <<>>, Top.fn # "send",
         NEW y, FitsReady(y), Writes(y) => Writes(Top) /\ reply.sent, Calm(y) => ~reply.onErr,
         (exc = None /\ Settle(y)) \/ CatchSettling(y), SameFlags
  PROVE  Lock'
<1>1. LockTop(Top, Tail(stack), ready, jobs, exc, reply.sent, reply.onErr, res.head)
  BY LockAtTop
<1>2. ready' = Append(ready, y) /\ stack' = Tail(stack) /\ jobs' = jobs /\ exc' = None
  BY DEF Settle, CatchSettling
<1>3. y \in Frame
  <2>1. ready \in Seq(Frame) /\ ready' \in Seq(Frame)
    BY DEF TypeOK, LoopTypeOK
  <2>2. Len(ready') = Len(ready) + 1 /\ ready'[Len(ready) + 1] = y /\ Len(ready) \in Nat
    BY <1>2, <2>1
  <2>3. Len(ready) + 1 \in 1..Len(ready')
    BY <2>2
  <2> QED BY <2>1, <2>2, <2>3
<1>4. LockOf(Tail(stack), Append(ready, y), jobs, None, reply.sent, reply.onErr, res.head)
  BY <1>1, <1>3, SettledFor
<1> QED BY <1>2, <1>4 DEF Lock, SameFlags

(* User code takes the response over. *)
LEMMA HijackStep ==
  ASSUME TypeOK', Lock, stack # <<>>, exc = None, Top.fn = "user", reply.sent = FALSE,
         NEW h, h = Finished(Top), NEW y, y.fn = "rawEnd", LeaveAndGo(y, h),
         reply'.sent = TRUE, reply'.onErr = reply.onErr, res'.head = res.head
  PROVE  Lock'
<1>1. /\ LockTop(Top, Tail(stack), ready, jobs, None, reply.sent, reply.onErr, res.head)
      /\ Top \in Frame /\ Fits(Top) /\ Tail(stack) \in Seq(Frame)
      /\ Firm(Top) => reply.sent
  BY LockAtTop, LockFacts
<1>2. h \in Frame /\ Waits(h) /\ Fits(h) /\ h.fn = "user" /\ ~Writes(h)
  <2>1. h \in Frame /\ Waits(h) /\ Fits(h) /\ h.fn = "user" /\ (Writes(h) => Firm(Top))
    BY <1>1, FinishedUser
  <2> QED BY <1>1, <2>1
<1>3. y \in Frame
  BY DEF LeaveAndGo, TypeOK, LoopTypeOK
<1>4. FitsJob(y)
  BY DEF FitsJob, Fits
<1>5. First(h, Tail(stack))
  BY <1>2 DEF First
<1>6. LockTop(h, Tail(stack), ready, jobs \cup {y}, None, reply'.sent, reply.onErr, res.head)
  BY <1>1, <1>2, <1>3, <1>4, <1>5, TakenOver
<1>7. stack' = <<h>> \o Tail(stack) /\ jobs' = jobs \cup {y} /\ ready' = ready /\ exc' = None
  BY DEF LeaveAndGo
<1>8. LockTop(h, Tail(stack), ready', jobs', exc', reply'.sent, reply'.onErr, res'.head)
  BY <1>6, <1>7
<1> QED BY <1>1, <1>7, <1>8, LockOnTop

(* An exception is thrown by the framework, *)
LEMMA ThrowStep ==
  ASSUME Lock, stack # <<>>, exc = None, NEW v, v # None,
         Writes(Top) \/ (Top.fn = "send" /\ reply.onErr), Throw(v), SameFlags
  PROVE  Lock'
<1>1. LockTop(Top, Tail(stack), ready, jobs, None, reply.sent, reply.onErr, res.head)
  BY LockAtTop
<1>2. LockOf(Tail(stack), ready, jobs, v, reply.sent, reply.onErr, res.head)
  BY <1>1, Thrown
<1> QED BY <1>2 DEF Lock, Throw, SameFlags

(* by user code,                                                           *)
LEMMA UserThrowStep ==
  ASSUME Lock, stack # <<>>, exc = None, exc' # None, Top.fn = "user", ~Spent(Top),
         UNCHANGED <<stack, ready, jobs>>, SameFlags
  PROVE  Lock'
<1>1. LockTop(Top, Tail(stack), ready, jobs, None, reply.sent, reply.onErr, res.head)
  BY LockAtTop
<1>2. LockTop(Top, Tail(stack), ready, jobs, exc', reply.sent, reply.onErr, res.head)
  BY <1>1, UserThrew
<1> QED BY <1>2 DEF Lock, LockOf, Top, SameFlags

(* it passes a frame, *)
LEMMA PassStep ==
  ASSUME Lock, stack # <<>>, exc # None, ~IsAsyncUser(Top), Pass, SameFlags
  PROVE  Lock'
<1>1. LockTop(Top, Tail(stack), ready, jobs, exc, reply.sent, reply.onErr, res.head)
  BY LockAtTop
<1>2. LockOf(Tail(stack), ready, jobs, exc, reply.sent, reply.onErr, res.head)
  BY <1>1, Passed
<1> QED BY <1>2 DEF Lock, Pass, SameFlags

(* is made a writer,                                                       *)
LEMMA CatchStep ==
  ASSUME TypeOK', Lock, stack # <<>>, exc # None, Catches(Top),
         NEW g, Fits(g), g.fn \notin {"notFound", "thenTry", "fulfilled", "pipe", "rawEnd"},
         ~Firm(g), ~Calm(g), Catch(g), SameFlags
  PROVE  Lock'
<1>1. /\ LockTop(Top, Tail(stack), ready, jobs, exc, reply.sent, reply.onErr, res.head)
      /\ Tail(stack) \in Seq(Frame)
  BY LockAtTop
<1>2. g \in Frame
  BY <1>1, LockOnTop DEF Catch
<1>3. First(g, Tail(stack))
  BY DEF First
<1>4. LockTop(g, Tail(stack), ready, jobs, None, reply.sent, reply.onErr, res.head)
  BY <1>1, <1>2, <1>3, CaughtOpen
<1> QED BY <1>1, <1>4, LockOnTop DEF Catch, SameFlags

(* or reaches wrapThenable. *)
LEMMA ThenStep ==
  ASSUME TypeOK', Lock, stack # <<>>, exc # None, Top.fn = "thenTry",
         NEW g, g.fn = "send", Catch(g), reply'.onErr = reply.onErr, res'.head = res.head
  PROVE  Lock'
<1>1. /\ LockTop(Top, Tail(stack), ready, jobs, exc, reply.sent, reply.onErr, res.head)
      /\ Tail(stack) \in Seq(Frame)
  BY LockAtTop
<1>2. g \in Frame
  BY <1>1, LockOnTop DEF Catch
<1>3. First(g, Tail(stack))
  BY DEF First, Fits
<1>4. LockTop(g, Tail(stack), ready, jobs, None, reply'.sent, reply.onErr, res.head)
  BY <1>1, <1>2, <1>3, CaughtByThen
<1> QED BY <1>1, <1>4, LockOnTop DEF Catch

(* Turns of the event loop *)
LEMMA TurnStep ==
  ASSUME Lock, RunReady, SameFlags
  PROVE  Lock'
<1>1. LockIdle(ready, jobs, None, reply.sent, reply.onErr, res.head)
  BY LockWhenIdle DEF RunReady
<1>2. LockTop(Head(ready), <<>>, Tail(ready), jobs, None, reply.sent, reply.onErr, res.head)
  BY <1>1, FromReady DEF RunReady
<1>3. stack' # <<>> /\ Head(stack') = Head(ready) /\ Tail(stack') = <<>>
  BY OneFrame DEF RunReady
<1>4. exc' = None
  BY DEF RunReady, Steady
<1> QED BY <1>2, <1>3, <1>4 DEF Lock, LockOf, RunReady, SameFlags

LEMMA TurnOf ==
  ASSUME TypeOK', NEW g, stack' = <<g>>
  PROVE  /\ g \in Frame
         /\ LockTop(g, <<>>, ready', jobs', exc', reply'.sent, reply'.onErr, res'.head) => Lock'
<1>1. stack' # <<>> /\ Head(stack') = g /\ Tail(stack') = <<>>
  BY OneFrame
<1>2. g \in Frame
  BY <1>1 DEF TypeOK, LoopTypeOK
<1> QED BY <1>1, <1>2 DEF Lock, LockOf

LEMMA JobStep ==
  ASSUME TypeOK', Lock, NEW y, NEW k, NEW g, StartTurn(k, y, g), Fits(g), ~Catches(g),
         g.fn \notin {"notFound", "thenTry", "pipe", "rawEnd"},
         Writes(g) => Writes(y) /\ res.head = "none", Calm(g) => Calm(y), SameFlags
  PROVE  Lock'
<1>1. LockIdle(<<>>, jobs, None, reply.sent, reply.onErr, res.head)
  BY LockWhenIdle DEF StartTurn, Idle
<1>2. g \in Frame
  BY TurnOf DEF StartTurn
<1>3. LockTop(g, <<>>, <<>>, jobs \ {y}, None, reply.sent, reply.onErr, res.head)
  BY <1>1, <1>2, FromJobs DEF StartTurn
<1> QED BY <1>3, TurnOf DEF StartTurn, Idle, Steady, SameFlags

LEMMA EventTurnStep ==
  ASSUME TypeOK', Lock, NEW g, StartEvent(g), Neutral(g), SameFlags
  PROVE  Lock'
<1>1. LockIdle(<<>>, jobs, None, reply.sent, reply.onErr, res.head)
  BY LockWhenIdle DEF StartEvent, Idle
<1>2. g \in Frame
  BY TurnOf DEF StartEvent
<1>3. LockTop(g, <<>>, <<>>, jobs, None, reply.sent, reply.onErr, res.head)
  BY <1>1, <1>2, FromEvent DEF Neutral
<1> QED BY <1>3, TurnOf DEF StartEvent, Idle, Steady, SameFlags

LEMMA DropStep ==
  ASSUME Lock, NEW y, DropJob(y), res'.head = res.head \/ (Writes(y) /\ Calm(y)),
         reply'.sent = reply.sent, reply'.onErr = reply.onErr
  PROVE  Lock'
<1>1. LockIdle(ready, jobs, None, reply.sent, reply.onErr, res.head)
  BY LockWhenIdle DEF DropJob, Idle
<1>2. LockIdle(ready, jobs \ {y}, None, reply.sent, reply.onErr, res'.head)
  BY <1>1, Dropped DEF DropJob
<1> QED BY <1>2 DEF DropJob, Idle, Steady, Lock, LockOf

LEMMA SettleJobStep ==
  ASSUME TypeOK, TypeOK', Lock, NEW y, NEW g, SettleJob(y, g), y.fn # "pipe", FitsReady(g),
         Writes(g) => Writes(y), Calm(g) => Calm(y), SameFlags
  PROVE  Lock'
<1>1. LockIdle(ready, jobs, None, reply.sent, reply.onErr, res.head)
  BY LockWhenIdle DEF SettleJob, Idle
<1>2. g \in Frame
  <2>1. ready = <<>> /\ ready' = Append(<<>>, g) /\ ready' \in Seq(Frame)
    BY DEF SettleJob, Idle, TypeOK, LoopTypeOK
  <2>2. 1 \in 1..Len(ready') /\ ready'[1] = g
    BY <2>1
  <2> QED BY <2>1, <2>2
<1>3. LockIdle(Append(ready, g), jobs \ {y}, None, reply.sent, reply.onErr, res.head)
  BY <1>1, <1>2, FromJobToReady DEF SettleJob
<1> QED BY <1>3 DEF SettleJob, Idle, Steady, Lock, LockOf, SameFlags

LEMMA StreamStep ==
  ASSUME Lock, Idle, NEW y \in jobs, y.fn = "pipe", UNCHANGED <<loop, reply>>
  PROVE  Lock'
<1>1. LockIdle(ready, jobs, None, reply.sent, reply.onErr, res.head)
  BY LockWhenIdle DEF Idle
<1>2. LockIdle(ready, jobs, None, reply.sent, reply.onErr, res'.head)
  BY <1>1, Streamed
<1> QED BY <1>2 DEF Idle, Steady, Lock, LockOf, loop

LEMMA SameStep ==
  ASSUME Lock, UNCHANGED <<stack, ready, jobs, exc>>, SameFlags
  PROVE  Lock'
BY DEF Lock, SameFlags

(* The documentation leaves preSerialization hooks free to wait.  While    *)
(* they do the flag is not set yet: that is the finding of                 *)
(* doc_reply_from_hook, and the lock does not hold.                    *)
SyncSerialization ==
  \/ HookCount["preSerialization"] = 0
  \/ Style["preSerialization"] \subseteq {"sync"} /\ "defer" \notin Acts["preSerialization"]

(* The head is written. *)
LEMMA LockWriteHead ==
  ASSUME Lock, WriteHead, TypeOK
  PROVE  Lock'
<1>1. LockTop(Top, Tail(stack), ready, jobs, None, reply.sent, reply.onErr, res.head)
  BY LockAtTop DEF WriteHead, Running, Steady
<1>2. Writes(Top) /\ Firm(Top) /\ Calm(Top)
  BY DEF WriteHead, Running, Writes, Firm, Calm
<1>3. res.head = "none"
  BY <1>1, <1>2, LockFacts
<1>4. LockOf(Tail(stack), ready, jobs, None, reply.sent, reply.onErr, res'.head)
  BY <1>1, <1>2, Written
<1> QED BY <1>3, <1>4 DEF Lock, WriteHead, Return, Running, Steady

-----------------------------------------------------------------------------
(* Every action, by what it does.                                          *)

LEMMA FlagsKept ==
  ASSUME RequestTypeOK
  PROVE  /\ UNCHANGED request => SameFlags
         /\ UNCHANGED <<reply, res>> => SameFlags
         /\ \A v : reply' = [reply EXCEPT !.isError = v] /\ res' = res => SameFlags
         /\ \A v : res' = [res EXCEPT !.code = v] /\ reply' = reply => SameFlags
         /\ reply.sent \in BOOLEAN /\ reply.onErr \in BOOLEAN
BY DEF SameFlags, request, RequestTypeOK, ReplyType, ResType

LEMMA Runs ==
  ASSUME Lock, NEW fn, Running(fn)
  PROVE  /\ stack # <<>> /\ exc = None /\ Top.fn = fn /\ Top \in Frame /\ Fits(Top)
         /\ fn \in UserSide => Top.c \in UserFns
         /\ fn # "send" => (reply.onErr => reply.sent)
         /\ Firm(Top) => reply.sent
         /\ Calm(Top) => ~reply.onErr
         /\ Writes(Top) => ~Below(Tail(stack), ready, jobs) /\ res.head = "none"
BY LockAtTop, LockFacts DEF Running, Steady, UserSide

LEMMA LockHookSteps ==
  ASSUME SyncSerialization, TypeOK, TypeOK', Lock, HookSteps
  PROVE  Lock'
<1>0. RequestTypeOK
  BY DEF TypeOK
<1>1. CASE HookRunnerEnds
  <2>1. Neutral(Callback(Top, Top.e))
    BY <1>1, Runs, NeutralChain DEF HookRunnerEnds, Fits, OtherChains
  <2> QED BY <1>0, <1>1, <2>1, Runs, FlagsKept, NeutralGoto DEF HookRunnerEnds, Spent, Tries, IsAsyncUser
<1>2. CASE HookDropped \/ PreParsingDropped \/ PayloadCallbackReturns
  BY <1>0, <1>2, Runs, FlagsKept, ReturnStep DEF HookDropped, PreParsingDropped, PayloadCallbackReturns
<1>3. CASE HookCalled
  <2>1. PICK s \in Style[Top.c] : Goto(User(Top, Top.c, Top.i + 1, s))
    BY <1>3 DEF HookCalled
  <2>2. Neutral(User(Top, Top.c, Top.i + 1, s))
    <3>1. Top \in Frame /\ Top.c \notin PayloadChains
      BY <1>3, Runs DEF HookCalled, Fits, PayloadChains, RequestChains
    <3> QED BY <3>1, NeutralUser
  <2> QED BY <1>0, <1>3, <2>1, <2>2, Runs, FlagsKept, NeutralGoto DEF HookCalled, Spent, Tries, IsAsyncUser
<1>4. CASE HookRejected
  <2> DEFINE err == IF Top.e = None THEN "Error" ELSE Top.e
  <2>1. Neutral(Callback(Top, err)) /\ Goto(Callback(Top, err))
    BY <1>4, Runs, NeutralChain DEF HookRejected, Fits, OtherChains
  <2>2. SameFlags
    BY <1>0, <1>4, FlagsKept DEF HookRejected
  <2> HIDE DEF err
  <2> QED BY <1>4, <2>1, <2>2, Runs, NeutralGoto DEF HookRejected, Spent, Tries, IsAsyncUser
<1>5. CASE PreParsingEnds
  <2>1. Neutral(Callback(Top, Top.e))
    BY <1>5, Runs, NeutralChain DEF PreParsingEnds, Fits, OtherChains, RequestChains
  <2>2. SameFlags
    BY <1>0, <1>5, FlagsKept DEF PreParsingEnds
  <2> QED BY <1>5, <2>1, <2>2, Runs, NeutralGoto DEF PreParsingEnds, Spent, Tries, IsAsyncUser
<1>6. CASE PreParsingCalled
  <2>1. PICK s \in Style["preParsing"] : Goto(User(Top, Top.c, Top.i + 1, s))
    BY <1>6 DEF PreParsingCalled
  <2>2. Neutral(User(Top, Top.c, Top.i + 1, s))
    <3>1. Top \in Frame /\ Top.c \notin PayloadChains
      BY <1>6, Runs DEF PreParsingCalled, Fits, PayloadChains
    <3> QED BY <3>1, NeutralUser
  <2> QED BY <1>0, <1>6, <2>1, <2>2, Runs, FlagsKept, NeutralGoto DEF PreParsingCalled, Spent, Tries, IsAsyncUser
<1>7. CASE PayloadRunnerFails
  <2>1. /\ Top \in Frame /\ Top.c \in PayloadChains /\ Top.fn = "sendNext" /\ Top.e # None
        /\ stack # <<>> /\ exc = None /\ Goto(Callback(Top, Top.e)) /\ SameFlags /\ (reply.onErr => reply.sent)
    BY <1>0, <1>7, Runs, FlagsKept DEF PayloadRunnerFails, Fits
  <2>2. PICK g : g = Callback(Top, Top.e)
    OBVIOUS
  <2>3. /\ Fits(g) /\ g.fn \notin {"notFound", "thenTry", "fulfilled", "pipe", "rawEnd"}
        /\ ~Firm(g) /\ ~Calm(g)
    BY <2>1, <2>2, PayloadChain
  <2>4. Writes(Top)
    BY <2>1 DEF Writes
  <2> QED BY <2>1, <2>2, <2>3, <2>4, WriterGoto DEF SameFlags
<1>8. CASE PayloadRunnerEnds
  <2>1. /\ Top \in Frame /\ Top.c \in PayloadChains /\ Top.fn = "sendNext" /\ Top.e = None
        /\ stack # <<>> /\ exc = None /\ SameFlags
        /\ Call([Top EXCEPT !.fn = "cbTry"], Callback(Top, None))
        /\ (Firm(Top) => reply.sent) /\ (Calm(Top) => ~reply.onErr)
        /\ (Writes(Top) => ~Below(Tail(stack), ready, jobs) /\ res.head = "none")
    BY <1>0, <1>8, Runs, FlagsKept DEF PayloadRunnerEnds, Fits
  <2>2. PICK g : g = Callback(Top, None)
    OBVIOUS
  <2>3. PICK h : h = [Top EXCEPT !.fn = "cbTry"]
    OBVIOUS
  <2>4. /\ Fits(g) /\ g.fn \notin {"notFound", "thenTry", "fulfilled", "pipe", "rawEnd"}
        /\ (Firm(g) => Top.c # "preSerialization") /\ (Calm(g) => Top.c # "onError")
    BY <2>1, <2>2, PayloadChain
  <2>5. h.fn = "cbTry" /\ h.c = Top.c
    BY <2>1, <2>3 DEF Frame, FrameOf
  <2>6. Waits(h) /\ Fits(h) /\ ~Writes(h)
    BY <2>1, <2>5 DEF Waits, Fits, Writes, Tries, UserSide
  <2>7. Writes(Top) /\ (Top.c # "preSerialization" => Firm(Top)) /\ (Top.c # "onError" => Calm(Top))
    BY <2>1 DEF Writes, Firm, Calm
  <2> QED BY <2>1, <2>2, <2>3, <2>4, <2>5, <2>6, <2>7, WriterCall
<1>9. CASE PayloadHookCalled
  <2>1. /\ Top \in Frame /\ Top.c \in PayloadChains /\ Top.fn = "sendNext" /\ Top.e = None
        /\ stack # <<>> /\ exc = None /\ SameFlags /\ Top.i < HookCount[Top.c]
        /\ (Firm(Top) => reply.sent) /\ (Calm(Top) => ~reply.onErr) /\ (reply.onErr => reply.sent)
    BY <1>0, <1>9, Runs, FlagsKept DEF PayloadHookCalled, Fits
  <2>2. PICK s \in Style[Top.c] : Goto(User(Top, Top.c, Top.i + 1, s))
    BY <1>9 DEF PayloadHookCalled
  <2>3. PICK g : g = User(Top, Top.c, Top.i + 1, s)
    OBVIOUS
  <2>4. Top.c = "preSerialization" => s = "sync" /\ HookCount[Top.c] > 0
    <3>1. Top.i \in Nat /\ HookCount[Top.c] \in Nat
      BY <2>1, HooksAssumption DEF Frame, FrameOf, HookChains
    <3> QED BY <2>1, <2>2, <3>1 DEF SyncSerialization
  <2>5. /\ Fits(g) /\ g.fn = "user"
        /\ (Firm(g) => Top.c # "preSerialization") /\ (Calm(g) => Top.c # "onError")
    BY <2>1, <2>3, <2>4, PayloadUser
  <2>6. Writes(Top) /\ (Top.c # "preSerialization" => Firm(Top)) /\ (Top.c # "onError" => Calm(Top))
    BY <2>1 DEF Writes, Firm, Calm
  <2> QED BY <2>1, <2>2, <2>3, <2>5, <2>6, WriterGoto DEF SameFlags
<1>10. CASE PayloadCallbackThrew
  <2>1. /\ stack # <<>> /\ exc # None /\ Top.fn = "cbTry" /\ SameFlags /\ Catch(Callback(Top, exc))
        /\ Top \in Frame /\ Top.c \in PayloadChains
    BY <1>0, <1>10, FlagsKept, LockAtTop DEF PayloadCallbackThrew, Unwinding, Fits
  <2>2. PICK g : g = Callback(Top, exc)
    OBVIOUS
  <2>3. /\ Fits(g) /\ g.fn \notin {"notFound", "thenTry", "fulfilled", "pipe", "rawEnd"}
        /\ ~Firm(g) /\ ~Calm(g)
    BY <2>1, <2>2, PayloadChain
  <2>4. Catches(Top)
    BY <2>1 DEF Catches
  <2> QED BY <2>1, <2>2, <2>3, <2>4, CatchStep
<1> QED BY <1>1, <1>2, <1>3, <1>4, <1>5, <1>6, <1>7, <1>8, <1>9, <1>10 DEF HookSteps

WriterFns == {"preserializeHookEnd", "onSendHook", "wrapOnSendEnd", "onSendEnd", "writeHead",
              "onErrorHook", "handleError"}

LEMMA WriterRuns ==
  ASSUME Lock, TypeOK, NEW fn \in WriterFns, Running(fn)
  PROVE  /\ stack # <<>> /\ exc = None /\ Writes(Top) /\ Top \in Frame /\ Top.fn = fn
         /\ reply.onErr => reply.sent
         /\ Firm(Top) => reply.sent
         /\ Calm(Top) => ~reply.onErr
BY Runs DEF WriterFns, Writes

LEMMA LockErrorSteps ==
  ASSUME TypeOK, TypeOK', Lock,
         \/ PreserializationFailed \/ OnSendFailed \/ OnErrorHookSkipped
         \/ ErrorToOnSend \/ ErrorWritten
  PROVE  Lock'
<1>0. RequestTypeOK /\ reply.sent \in BOOLEAN /\ reply.onErr \in BOOLEAN
  BY FlagsKept DEF TypeOK
<1>1. PICK fn \in {"preserializeHookEnd", "wrapOnSendEnd", "onErrorHook", "handleError"} : Running(fn)
  BY DEF PreserializationFailed, OnSendFailed, OnErrorHookSkipped, ErrorToOnSend, ErrorWritten
<1>2. /\ stack # <<>> /\ exc = None /\ Writes(Top) /\ Top \in Frame
      /\ reply.onErr => reply.sent
  BY <1>1, WriterRuns DEF WriterFns
<1>3. res'.head = res.head
  BY <1>0 DEF PreserializationFailed, OnSendFailed, OnErrorHookSkipped, ErrorToOnSend, ErrorWritten,
     request, RequestTypeOK, ResType
<1>4. CASE PreserializationFailed \/ OnSendFailed
  <2>1. PICK g : g = [Top EXCEPT !.fn = "onErrorHook", !.k = FALSE]
    OBVIOUS
  <2>2. g.fn = "onErrorHook" /\ Goto(g) /\ reply' = reply
    BY <1>2, <1>4, <2>1 DEF PreserializationFailed, OnSendFailed, request, Frame, FrameOf
  <2>3. Fits(g) /\ ~Firm(g) /\ ~Calm(g)
    BY <2>2 DEF Fits, Firm, Calm, UserSide
  <2> QED BY <1>2, <1>3, <2>2, <2>3, WriterGoto
<1>5. CASE OnErrorHookSkipped
  <2>1. PICK g : g = [Top EXCEPT !.fn = "handleError"]
    OBVIOUS
  <2>2. g.fn = "handleError" /\ Goto(g)
    BY <1>2, <1>5, <2>1 DEF OnErrorHookSkipped, Frame, FrameOf
  <2>3. reply'.sent = TRUE
    BY <1>0, <1>5 DEF OnErrorHookSkipped, RequestTypeOK, ReplyType
  <2>4. Fits(g) /\ ~Firm(g) /\ ~Calm(g)
    BY <2>2 DEF Fits, Firm, Calm, UserSide
  <2> QED BY <1>2, <1>3, <2>2, <2>3, <2>4, WriterGoto
<1>6. CASE ErrorToOnSend
  <2>1. PICK g : g = [Top EXCEPT !.fn = "onSendHook", !.p = "string", !.e = None]
    OBVIOUS
  <2>2. g.fn = "onSendHook" /\ Goto(g)
    BY <1>2, <1>6, <2>1 DEF ErrorToOnSend, Frame, FrameOf
  <2>3. reply'.onErr = FALSE
    BY <1>0, <1>6 DEF ErrorToOnSend, RequestTypeOK, ReplyType
  <2>4. Fits(g) /\ ~Firm(g)
    BY <2>2 DEF Fits, Firm, UserSide
  <2> QED BY <1>2, <1>3, <2>2, <2>3, <2>4, WriterGoto
<1>7. CASE ErrorWritten
  <2>1. PICK g : g = [Top EXCEPT !.fn = "writeHead", !.p = "string", !.e = None]
    OBVIOUS
  <2>2. g.fn = "writeHead" /\ Goto(g)
    BY <1>2, <1>7, <2>1 DEF ErrorWritten, Frame, FrameOf
  <2>3. reply'.onErr = FALSE /\ reply'.sent = TRUE
    BY <1>0, <1>7 DEF ErrorWritten, RequestTypeOK, ReplyType
  <2>4. Fits(g)
    BY <2>2 DEF Fits, UserSide
  <2> QED BY <1>2, <1>3, <2>2, <2>3, <2>4, WriterGoto
<1> QED BY <1>4, <1>5, <1>6, <1>7

LEMMA LockPayloadSteps ==
  ASSUME TypeOK, TypeOK', Lock,
         \/ Serialized \/ OnSendHook \/ OnSendPassed \/ OnSendEnd \/ SendStream
  PROVE  Lock'
<1>0. RequestTypeOK /\ reply.sent \in BOOLEAN /\ reply.onErr \in BOOLEAN
  BY FlagsKept DEF TypeOK
<1>1. PICK fn \in {"preserializeHookEnd", "wrapOnSendEnd", "onSendHook", "onSendEnd"} : Running(fn)
  BY DEF Serialized, OnSendHook, OnSendPassed, OnSendEnd, SendStream
<1>2. /\ stack # <<>> /\ exc = None /\ Writes(Top) /\ Top \in Frame
      /\ reply.onErr => reply.sent
      /\ Firm(Top) => reply.sent
      /\ Calm(Top) => ~reply.onErr
  BY <1>1, WriterRuns DEF WriterFns
<1>3. SameFlags \/ (reply'.sent = TRUE /\ reply'.onErr = reply.onErr /\ res' = res)
  BY <1>0 DEF Serialized, OnSendHook, OnSendPassed, OnSendEnd, SendStream,
     request, RequestTypeOK, ReplyType, SameFlags
<1>4. Calm(Top)
  BY DEF Serialized, OnSendHook, OnSendPassed, OnSendEnd, SendStream, Running, Calm
<1>5. CASE Serialized
  <2>1. PICK g : g = [Top EXCEPT !.fn = "onSendHook", !.p = IF @ = None THEN None ELSE "string"]
    OBVIOUS
  <2>2. g.fn = "onSendHook" /\ Goto(g) /\ SameFlags
    BY <1>0, <1>2, <1>5, <2>1, FlagsKept DEF Serialized, Frame, FrameOf
  <2>3. Fits(g) /\ ~Firm(g)
    BY <2>2 DEF Fits, Firm, UserSide
  <2> QED BY <1>2, <1>4, <2>2, <2>3, WriterGoto DEF SameFlags
<1>6. CASE OnSendHook
  <2>1. PICK g : g = StartChain(Top, "onSend")
    OBVIOUS
  <2>2. Goto(g) /\ reply'.sent = TRUE /\ reply'.onErr = reply.onErr /\ res' = res
    BY <1>0, <1>6, <2>1 DEF OnSendHook, RequestTypeOK, ReplyType
  <2>3. Fits(g) /\ g.fn \notin {"notFound", "thenTry", "fulfilled", "pipe", "rawEnd"}
    BY <1>2, <2>1, PayloadStart DEF PayloadChains
  <2> QED BY <1>2, <1>4, <2>2, <2>3, WriterGoto
<1>7. CASE OnSendPassed
  <2>1. PICK g : g = [Top EXCEPT !.fn = "onSendEnd"]
    OBVIOUS
  <2>2. g.fn = "onSendEnd" /\ Goto(g) /\ SameFlags
    BY <1>0, <1>2, <1>7, <2>1, FlagsKept DEF OnSendPassed, Frame, FrameOf
  <2>3. Fits(g) /\ Firm(Top)
    BY <1>7, <2>2 DEF Fits, Firm, UserSide, OnSendPassed, Running
  <2> QED BY <1>2, <1>4, <2>2, <2>3, WriterGoto DEF SameFlags
<1>8. CASE OnSendEnd
  <2>1. PICK g : g = [Top EXCEPT !.fn = "writeHead"]
    OBVIOUS
  <2>2. g.fn = "writeHead" /\ Goto(g) /\ reply'.sent = TRUE /\ reply'.onErr = reply.onErr /\ res' = res
    BY <1>0, <1>2, <1>8, <2>1 DEF OnSendEnd, Frame, FrameOf, RequestTypeOK, ReplyType
  <2>3. Fits(g)
    BY <2>2 DEF Fits, UserSide
  <2> QED BY <1>2, <1>4, <2>2, <2>3, WriterGoto
<1>9. CASE SendStream
  <2>1. PICK y : y = [Top EXCEPT !.fn = "pipe"]
    OBVIOUS
  <2>2. y.fn = "pipe" /\ Leave(y) /\ SameFlags /\ Top.fn = "onSendEnd"
    BY <1>0, <1>2, <1>9, <2>1, FlagsKept DEF SendStream, Frame, FrameOf, Running
  <2>3. FitsJob(y) /\ Firm(Top)
    BY <2>2 DEF FitsJob, Fits, Firm, UserSide
  <2> QED BY <1>2, <1>4, <2>2, <2>3, LeaveStep
<1> QED BY <1>5, <1>6, <1>7, <1>8, <1>9

LEMMA LockSendSteps ==
  ASSUME TypeOK, TypeOK', Lock, SendError \/ SendAsIs \/ SendSerialized
  PROVE  Lock'
<1>1. /\ stack # <<>> /\ exc = None /\ Top.fn = "send" /\ Top \in Frame /\ ~reply.sent /\ ~reply.onErr
      /\ SameFlags
  BY Runs, FlagsKept DEF TypeOK, SendError, SendAsIs, SendSerialized, Accepting
<1>2. PICK g : /\ Goto(g)
               /\ g \in {[Top EXCEPT !.fn = "onErrorHook", !.e = Top.p, !.k = TRUE],
                         [Top EXCEPT !.fn = "onSendHook"], StartChain(Top, "preSerialization")}
  BY DEF SendError, SendAsIs, SendSerialized
<1>3. CASE g = StartChain(Top, "preSerialization")
  <2>1. /\ Fits(g) /\ g.fn \notin {"notFound", "thenTry", "fulfilled", "pipe", "rawEnd"}
        /\ ~Firm(g)
    BY <1>1, <1>3, PayloadStart DEF PayloadChains
  <2> QED BY <1>1, <1>2, <2>1, AcceptedGoto
<1>4. CASE g # StartChain(Top, "preSerialization")
  <2>1. g.fn \in {"onErrorHook", "onSendHook"}
    BY <1>1, <1>2, <1>4 DEF Frame, FrameOf
  <2>2. Fits(g) /\ ~Firm(g)
    BY <2>1 DEF Fits, Firm, UserSide
  <2> QED BY <1>1, <1>2, <2>1, <2>2, AcceptedGoto
<1> QED BY <1>3, <1>4

LEMMA LockReplySteps ==
  ASSUME TypeOK, TypeOK', Lock, ReplySteps
  PROVE  Lock'
<1>0. RequestTypeOK /\ reply.sent \in BOOLEAN /\ reply.onErr \in BOOLEAN
  BY FlagsKept DEF TypeOK
<1>1. CASE SendInsideOnError \/ SerializerThrows \/ OnSendEndRejects
  <2>1. /\ stack # <<>> /\ exc = None /\ SameFlags /\ Throw("Error")
        /\ Writes(Top) \/ (Top.fn = "send" /\ reply.onErr)
    BY <1>0, <1>1, FlagsKept
    DEF SendInsideOnError, SerializerThrows, OnSendEndRejects, Running, Steady, Writes
  <2>2. "Error" # None
    BY DEF None
  <2> QED BY <2>1, <2>2, ThrowStep
<1>2. CASE SendAgain \/ OnResponseCallback
  <2>1. /\ stack # <<>> /\ exc = None /\ SameFlags /\ Return
        /\ Top.fn = "send" => reply.sent
    BY <1>0, <1>2, FlagsKept DEF SendAgain, OnResponseCallback, Running, Steady
  <2> QED BY <2>1, ReturnStep
<1>3. CASE OnErrorHookRuns
  <2>1. /\ stack # <<>> /\ exc = None /\ Writes(Top) /\ Top \in Frame
    BY <1>3, WriterRuns DEF WriterFns, OnErrorHookRuns
  <2>2. PICK t : t = [Top EXCEPT !.c = "onError", !.i = 0, !.p = Top.e]
    OBVIOUS
  <2>3. t \in Frame /\ t.c = "onError"
    BY <1>3, <2>1, <2>2
    DEF OnErrorHookRuns, Running, Frame, FrameOf, UserFns, HookChains, PayloadChains
  <2>4. PICK g : g = NextOf(t, None, None)
    OBVIOUS
  <2>5. /\ Fits(g) /\ g.fn \notin {"notFound", "thenTry", "fulfilled", "pipe", "rawEnd"}
        /\ ~Calm(g)
    BY <2>3, <2>4, PayloadChain DEF PayloadChains
  <2>6. Goto(g) /\ reply'.sent = TRUE /\ res' = res
    BY <1>0, <1>3, <2>2, <2>4 DEF OnErrorHookRuns, RequestTypeOK, ReplyType
  <2> QED BY <2>1, <2>5, <2>6, WriterGoto
<1>4. CASE ErrorHandlerCalled
  <2>1. /\ stack # <<>> /\ exc = None /\ Writes(Top) /\ Top \in Frame /\ Top.fn = "handleError"
    BY <1>4, WriterRuns DEF WriterFns, ErrorHandlerCalled
  <2>2. reply'.onErr = FALSE /\ reply'.sent = FALSE /\ res'.head = res.head
    BY <1>0, <1>4 DEF ErrorHandlerCalled, RequestTypeOK, ReplyType, ResType
  <2>3. PICK t : t = [Top EXCEPT !.p = Top.e, !.e = None]
    OBVIOUS
  <2>4. t \in Frame /\ t.fn = "handleError"
    BY <2>1, <2>3 DEF Frame, FrameOf, None, Payload
  <2>5. CASE CustomErrorHandler
    <3>1. PICK s \in Style["errorHandler"] : Goto(User(t, "errorHandler", 0, s))
      BY <1>4, <2>3, <2>5 DEF ErrorHandlerCalled
    <3>2. Neutral(User(t, "errorHandler", 0, s))
      BY <2>4, NeutralUser DEF PayloadChains
    <3> QED BY <2>1, <2>2, <3>1, <3>2, Kinds, WriterGoto DEF Neutral
  <2>6. CASE ~CustomErrorHandler
    <3>1. PICK g : g = [Top EXCEPT !.fn = "send", !.p = Top.e, !.e = None]
      OBVIOUS
    <3>2. g.fn = "send" /\ Goto(g)
      BY <1>4, <2>1, <2>6, <3>1 DEF ErrorHandlerCalled, Frame, FrameOf
    <3>3. Fits(g) /\ ~Firm(g) /\ ~Calm(g)
      BY <3>2 DEF Fits, Firm, Calm, UserSide
    <3> QED BY <2>1, <2>2, <3>2, <3>3, WriterGoto
  <2> QED BY <2>5, <2>6
<1>5. CASE NotFoundInside404 \/ NotFound
  <2>1. /\ stack # <<>> /\ exc = None /\ Top \in Frame /\ Top.fn = "notFound"
    BY <1>5, Runs DEF NotFoundInside404, NotFound
  <2>2. reply.sent = FALSE
    BY <1>0, <2>1, LockAtTop DEF LockTop
  <2>3. SameFlags
    BY <1>0, <1>5, <2>2 DEF NotFoundInside404, NotFound, RequestTypeOK, ReplyType, ResType, SameFlags
  <2>4. ~Spent(Top) /\ ~IsAsyncUser(Top) /\ Top.fn \notin {"send", "thenTry"}
    BY <2>1 DEF Spent, IsAsyncUser, Tries
  <2>5. CASE NotFoundInside404
    <3>1. PICK g : g = [Top EXCEPT !.fn = "send", !.p = "string"]
      OBVIOUS
    <3>2. g.fn = "send" /\ Goto(g)
      BY <2>1, <2>5, <3>1 DEF NotFoundInside404, Frame, FrameOf
    <3>3. Neutral(g)
      BY <3>2, NeutralFrame DEF NeutralFns
    <3> QED BY <2>1, <2>3, <2>4, <3>2, <3>3, NeutralGoto
  <2>6. CASE NotFound
    <3>1. Neutral(StartChain(Top, "preHandler")) /\ Goto(StartChain(Top, "preHandler"))
      BY <2>1, <2>6, NeutralStart DEF NotFound, OtherChains, RequestChains
    <3> QED BY <2>1, <2>3, <2>4, <3>1, NeutralGoto
  <2> QED BY <1>5, <2>5, <2>6
<1>6. CASE AwaitedReplySent
  <2>1. /\ stack # <<>> /\ exc = None /\ Top \in Frame /\ Top.fn = "awaitReply" /\ Fits(Top)
        /\ Top.c \in UserFns /\ (Firm(Top) => reply.sent) /\ (Calm(Top) => ~reply.onErr)
        /\ SameFlags /\ Settle(Fulfilment(Top))
    BY <1>0, <1>6, Runs, FlagsKept DEF AwaitedReplySent, UserSide
  <2>2. PICK g : g = Fulfilment(Top)
    OBVIOUS
  <2>3. FitsReady(g) /\ (Writes(g) => Top.c \in PayloadChains) /\ (Calm(g) => Top.c # "onError")
    <3>1. Top.fn \in UserSide /\ Top.c # "preSerialization"
      BY <2>1 DEF UserSide, Fits
    <3> QED BY <2>1, <2>2, <3>1, FulfilledOutcome
  <2>4. Writes(g) => Writes(Top) /\ Firm(Top) /\ (Top.c # "onError" => Calm(Top))
    BY <2>1, <2>3 DEF Writes, Firm, Calm, Fits, UserSide
  <2>5. Calm(g) => ~reply.onErr
    BY <2>1, <2>3, <2>4, Kinds
  <2> QED BY <2>1, <2>2, <2>3, <2>4, <2>5, SettleStep
<1>7. CASE AwaitedReplyPending
  <2>1. /\ stack # <<>> /\ exc = None /\ Top \in Frame /\ Top.fn = "awaitReply" /\ Fits(Top)
        /\ (Firm(Top) => reply.sent) /\ (Calm(Top) => ~reply.onErr)
        /\ SameFlags /\ Leave([Top EXCEPT !.fn = "eos"])
    BY <1>0, <1>7, Runs, FlagsKept DEF AwaitedReplyPending, UserSide
  <2>2. PICK y : y = [Top EXCEPT !.fn = "eos"]
    OBVIOUS
  <2>3. y.fn = "eos" /\ y.c = Top.c /\ y.m = Top.m /\ y.done = Top.done
    BY <2>1, <2>2 DEF Frame, FrameOf
  <2>4. FitsJob(y) /\ (Writes(y) => Writes(Top) /\ Firm(Top)) /\ (Calm(y) => Calm(Top))
    BY <2>1, <2>3 DEF FitsJob, Fits, Writes, Firm, Calm, UserSide
  <2> QED BY <2>1, <2>2, <2>4, LeaveStep
<1> QED BY <1>1, <1>2, <1>3, <1>4, <1>5, <1>6, <1>7, LockErrorSteps, LockPayloadSteps, LockSendSteps,
      LockWriteHead DEF ReplySteps

(* A user function that still has something to do. *)
LEMMA UserRuns ==
  ASSUME Lock, TypeOK, Running("user")
  PROVE  /\ stack # <<>> /\ exc = None /\ Top \in Frame /\ Fits(Top) /\ Top.fn = "user" /\ Top.c \in UserFns
         /\ reply.onErr => reply.sent
         /\ Firm(Top) => reply.sent
         /\ Calm(Top) => ~reply.onErr
         /\ Writes(Top) => ~Below(Tail(stack), ready, jobs) /\ res.head = "none"
         /\ Writes(Top) => /\ Top.c # "preSerialization" => Firm(Top)
                           /\ Top.c # "onError" => Calm(Top)
         /\ IsAsyncUser(Top) <=> IsAsync
         /\ IsAsyncUser(Top) => Top.c # "preSerialization"
         /\ Top.c \in PayloadChains /\ (~Top.done \/ IsAsync) => Writes(Top)
         /\ ~Top.done \/ IsAsync => ~Spent(Top)
         /\ Top.done \in BOOLEAN
<1>1. /\ stack # <<>> /\ exc = None /\ Top \in Frame /\ Fits(Top) /\ Top.fn = "user" /\ Top.c \in UserFns
      /\ reply.onErr => reply.sent
      /\ Firm(Top) => reply.sent
      /\ Calm(Top) => ~reply.onErr
      /\ Writes(Top) => ~Below(Tail(stack), ready, jobs) /\ res.head = "none"
  BY Runs DEF UserSide
<1>2. IsAsyncUser(Top) <=> IsAsync
  BY <1>1 DEF IsAsyncUser, IsAsync
<1>3. IsAsyncUser(Top) => Top.c # "preSerialization"
  BY <1>1 DEF IsAsyncUser, Fits
<1>4. Writes(Top) => /\ Top.c # "preSerialization" => Firm(Top)
                     /\ Top.c # "onError" => Calm(Top)
  BY <1>1 DEF Firm, Calm, UserSide
<1>5. Top.c \in PayloadChains /\ (~Top.done \/ IsAsync) => Writes(Top)
  BY <1>1 DEF Writes, IsAsync, UserSide
<1>6. ~Top.done \/ IsAsync => ~Spent(Top)
  BY <1>1 DEF Spent, IsAsync, Tries
<1>7. Top.done \in BOOLEAN
  BY <1>1 DEF Frame, FrameOf
<1> QED BY <1>1, <1>2, <1>3, <1>4, <1>5, <1>6, <1>7

(* It calls a function that writes nothing, and waits for it. *)
LEMMA UserCallsNeutral ==
  ASSUME TypeOK, TypeOK', Lock, Running("user"), ~Top.done \/ IsAsync, ~Catches(Top),
         NEW g, Neutral(g), Call(Finished(Top), g), SameFlags
  PROVE  Lock'
<1>1. PICK h : h = Finished(Top)
  OBVIOUS
<1>2. /\ Waits(h) /\ Fits(h) /\ h.fn = "user"
      /\ Catches(h) <=> Catches(Top)
      /\ IsAsyncUser(h) <=> IsAsyncUser(Top)
      /\ Writes(h) <=> Top.c \in PayloadChains /\ IsAsyncUser(Top)
      /\ Writes(h) => Writes(Top) /\ Firm(Top)
      /\ Calm(h) => Calm(Top)
  BY <1>1, UserRuns, FinishedUser
<1>3. Writes(h) => Writes(Top) /\ reply.sent /\ IsAsyncUser(h)
  BY <1>2, UserRuns
<1> QED BY <1>1, <1>2, <1>3, UserRuns, NeutralCallStep

(* It calls the next hook of a payload chain, or is one and calls send. *)
LEMMA UserCallsWriter ==
  ASSUME TypeOK, TypeOK', Lock, Running("user"), ~Top.done, ~IsAsync, Top.c \in PayloadChains,
         NEW g, Fits(g), g.fn \notin {"notFound", "thenTry", "fulfilled", "pipe", "rawEnd"},
         Firm(g) => Top.c # "preSerialization", Calm(g) => Top.c # "onError",
         Call(Finished(Top), g), SameFlags
  PROVE  Lock'
<1>1. PICK h : h = Finished(Top)
  OBVIOUS
<1>2. Waits(h) /\ Fits(h) /\ h.fn = "user" /\ ~Writes(h)
  <2>1. Waits(h) /\ Fits(h) /\ h.fn = "user" /\ (Writes(h) => IsAsyncUser(Top))
    BY <1>1, UserRuns, FinishedUser
  <2> QED BY <2>1, UserRuns
<1>3. Writes(Top)
  BY UserRuns
<1>4. (Firm(g) => reply.sent) /\ (Calm(g) => ~reply.onErr)
  BY <1>3, UserRuns
<1> QED BY <1>1, <1>2, <1>3, <1>4, UserRuns, WriterCall

(* A function that is not async calls its callback. *)
LEMMA UserCompletes ==
  ASSUME TypeOK, TypeOK', Lock, Running("user"), ~Top.done, ByCallback, NEW err, NEW new,
         Call(Finished(Top), Completion(Top, err, new)), SameFlags
  PROVE  Lock'
<1>1. Top \in Frame /\ ~IsAsync /\ (Top.c \in HookChains \/ Top.c = "parser")
  BY UserRuns DEF ByCallback, IsHook
<1>2. CASE Top.c \in PayloadChains
  <2>1. PICK g : g = NextOf(Top, err, new)
    OBVIOUS
  <2>2. /\ Fits(g) /\ g.fn \notin {"notFound", "thenTry", "fulfilled", "pipe", "rawEnd"}
        /\ Firm(g) => Top.c # "preSerialization"
        /\ Calm(g) => Top.c # "onError"
    BY <1>1, <1>2, <2>1, PayloadChain
  <2>3. Call(Finished(Top), g)
    BY <1>2, <2>1 DEF Completion, PayloadChains
  <2> QED BY <1>1, <1>2, <2>2, <2>3, UserCallsWriter
<1>3. CASE Top.c \notin PayloadChains
  <2>1. Neutral(Completion(Top, err, new))
    <3>1. CASE Top.c = "parser"
      <4>1. BodyDone(Top, err).fn = "bodyDone"
        BY <1>1 DEF BodyDone, Frame, FrameOf
      <4> QED BY <3>1, <4>1, NeutralFrame DEF Completion, NeutralFns
    <3>2. CASE Top.c # "parser"
      <4>1. Top.c \in OtherChains
        BY <1>1, <1>3, <3>2 DEF OtherChains, HookChains
      <4> QED BY <1>1, <3>2, <4>1, NeutralChain DEF Completion
    <3> QED BY <3>1, <3>2
  <2>2. ~Catches(Top)
    BY <1>3, UserRuns DEF Catches
  <2> QED BY <2>1, <2>2, UserCallsNeutral
<1> QED BY <1>2, <1>3

LEMMA LockUserSends ==
  ASSUME TypeOK, TypeOK', Lock, UserSends
  PROVE  Lock'
<1>1. Running("user") /\ (~Top.done \/ IsAsync) /\ SameFlags
  BY FlagsKept DEF TypeOK, UserSends, May, OnceMore
<1>2. PICK p \in SendPayloads : Call(Finished(Top), [Plain("send") EXCEPT !.p = p, !.f = did.sends + 1])
  BY DEF UserSends
<1>3. PICK g : g = [Plain("send") EXCEPT !.p = p, !.f = did.sends + 1]
  OBVIOUS
<1>4. g.fn = "send"
  BY <1>3 DEF Plain
<1>5. CASE Catches(Top)
  <2>1. Top.c \in PayloadChains /\ ~IsAsync /\ ~Top.done
    BY <1>1, <1>5, UserRuns DEF Catches, IsAsync
  <2>2. Fits(g) /\ ~Firm(g) /\ ~Calm(g)
    BY <1>4 DEF Fits, Firm, Calm, UserSide
  <2> QED BY <1>1, <1>2, <1>3, <1>4, <2>1, <2>2, UserCallsWriter
<1>6. CASE ~Catches(Top)
  <2>1. Neutral(g)
    BY <1>4, NeutralFrame DEF NeutralFns
  <2> QED BY <1>1, <1>2, <1>3, <1>6, <2>1, UserCallsNeutral
<1> QED BY <1>5, <1>6

(* User code that is not the writer finds the flag as it says: with        *)
(* kReplySent unset there is no writer and no head.                        *)
LEMMA Unsent ==
  ASSUME Lock, TypeOK, Running("user"), ~reply.sent
  PROVE  /\ ~Below(Tail(stack), ready, jobs) /\ res.head = "none" /\ ~Firm(Top)
<1>1. LockTop(Top, Tail(stack), ready, jobs, None, reply.sent, reply.onErr, res.head) /\ Top.fn = "user"
  BY LockAtTop DEF Running, Steady
<1> QED BY <1>1, LockFacts DEF Keeps

LEMMA LockUserCallsNotFound ==
  ASSUME TypeOK, TypeOK', Lock, UserCallsNotFound, ~reply.sent
  PROVE  Lock'
<1>1. Running("user") /\ SameFlags
  BY FlagsKept DEF TypeOK, UserCallsNotFound, May
<1>2. PICK g : g = [Plain("notFound") EXCEPT !.f = did.sends + 1]
  OBVIOUS
<1>3. g.fn = "notFound" /\ Call(Finished(Top), g)
  BY <1>2 DEF Plain, UserCallsNotFound
<1>4. PICK h : h = Finished(Top)
  OBVIOUS
<1>5. Waits(h) /\ Fits(h) /\ h.fn = "user" /\ ~Writes(h)
  <2>1. Waits(h) /\ Fits(h) /\ h.fn = "user" /\ (Writes(h) => Firm(Top))
    BY <1>1, <1>4, UserRuns, FinishedUser
  <2> QED BY <1>1, <2>1, Unsent
<1>6. Fits(g) /\ ~Firm(g) /\ ~Calm(g)
  BY <1>3 DEF Fits, Firm, Calm, UserSide
<1> QED BY <1>1, <1>3, <1>4, <1>5, <1>6, Unsent, UserRuns, WriterCall

LEMMA LockUserTakesOver ==
  ASSUME TypeOK, TypeOK', Lock, UserHijacks \/ UserMarksSent
  PROVE  Lock'
<1>1. /\ stack # <<>> /\ exc = None /\ Top.fn = "user"
      /\ LeaveAndGo(Plain("rawEnd"), Finished(Top)) /\ Plain("rawEnd").fn = "rawEnd"
  BY DEF UserHijacks, UserMarksSent, May, Running, Steady, Plain
<1>2. reply.sent = FALSE /\ reply'.sent = TRUE /\ reply'.onErr = reply.onErr /\ res'.head = res.head
  BY DEF UserHijacks, UserMarksSent, TypeOK, RequestTypeOK, ReplyType
<1> QED BY <1>1, <1>2, HijackStep

(* It goes on in a later turn. *)
LEMMA LockUserWaits ==
  ASSUME SyncSerialization, TypeOK, TypeOK', Lock, UserDefers \/ UserAwaits
  PROVE  Lock'
<1>1. Running("user") /\ SameFlags
  BY FlagsKept DEF TypeOK, UserDefers, UserAwaits, May
<1>2. Top.c # "preSerialization"
  <2>1. CASE UserAwaits
    BY <1>1, <2>1, UserRuns DEF UserAwaits, IsAsync
  <2>2. CASE UserDefers
    <3>1. Top.c = "preSerialization" => HookCount[Top.c] > 0
      BY <1>1, UserRuns DEF Fits
    <3>2. HookCount["preSerialization"] \in Nat
      BY HooksAssumption DEF HookChains, PayloadChains
    <3> QED BY <2>2, <3>1, <3>2 DEF UserDefers, May, SyncSerialization
  <2> QED BY <2>1, <2>2
<1>3. PICK y : y \in {[Top EXCEPT !.m = "late"], [Top EXCEPT !.m = "resumed"]} /\ Leave(y)
               /\ (y.m = "late" => ~Top.done) /\ (~Top.done \/ IsAsync)
  <2>1. CASE UserDefers
    BY <1>1, <2>1 DEF UserDefers
  <2>2. CASE UserAwaits
    <3>1. [Top EXCEPT !.m = "resumed"].m = "resumed"
      BY <1>1, UserRuns DEF Frame, FrameOf
    <3> QED BY <2>2, <3>1 DEF UserAwaits, IsAsync
  <2> QED BY <2>1, <2>2
<1>4. y.fn = "user" /\ y.c = Top.c /\ y.m \in {"late", "resumed"} /\ y.done = Top.done
  BY <1>1, <1>3, UserRuns DEF Frame, FrameOf
<1>5. FitsJob(y)
  BY <1>2, <1>3, <1>4 DEF FitsJob, Fits
<1>6. Writes(y) => Top.c \in PayloadChains /\ Writes(Top)
  BY <1>1, <1>3, <1>4, UserRuns DEF Writes, UserSide
<1>7. Calm(y) => Top.c # "onError" /\ Writes(y)
  BY <1>4, Kinds DEF Calm, UserSide
<1> QED BY <1>1, <1>2, <1>3, <1>5, <1>6, <1>7, UserRuns, LeaveStep

(* Its promise is settled. *)
LEMMA UserSettles ==
  ASSUME TypeOK, TypeOK', Lock, Running("user"), IsAsync, SameFlags, NEW err, NEW new, NEW v, NEW g, Settle(g),
         \/ g \in {Rejection(Top, err), BodyDone(Top, None), Thenable(Top, "fulfilled", v),
                   [Thenable(Top, "fulfilled", v) EXCEPT !.f = MaxSends + 1]}
         \/ Top.c \in HookChains /\ g = NextOf(Top, None, new)
  PROVE  Lock'
<1>1. Top \in Frame /\ Fits(Top) /\ Top.fn = "user" /\ Top.c \in UserFns /\ Top.c # "preSerialization"
  BY UserRuns
<1>2. /\ FitsReady(g)
      /\ Writes(g) => Top.c \in PayloadChains
      /\ Calm(g) => Top.c # "onError"
  BY <1>1, AsyncOutcome DEF UserSide
<1>3. (Writes(g) => Writes(Top) /\ reply.sent) /\ (Calm(g) => ~reply.onErr)
  BY <1>1, <1>2, UserRuns, Kinds
<1> QED BY <1>2, <1>3, UserRuns, SettleStep

LEMMA LockUserSettles ==
  ASSUME TypeOK, TypeOK', Lock,
         HookResolves \/ ParserResolves \/ HandlerResolves \/ UserAwaitsReply \/ UserRejects
  PROVE  Lock'
<1>1. Running("user") /\ IsAsync /\ SameFlags
  BY FlagsKept
  DEF TypeOK, HookResolves, ParserResolves, HandlerResolves, UserAwaitsReply, UserRejects, May
<1>2. CASE HookResolves
  <2>1. PICK new \in NewPayloads : Settle(NextOf(Top, None, new))
    BY <1>2 DEF HookResolves
  <2>2. PICK g : g = NextOf(Top, None, new)
    OBVIOUS
  <2> QED BY <1>1, <1>2, <2>1, <2>2, UserSettles DEF HookResolves, IsHook
<1>3. CASE ParserResolves
  BY <1>1, <1>3, UserSettles DEF ParserResolves
<1>4. CASE HandlerResolves
  <2>1. PICK p, g : /\ Settle(g)
                    /\ g \in {Thenable(Top, "fulfilled", p), [Thenable(Top, "fulfilled", p) EXCEPT !.f = MaxSends + 1]}
    BY <1>4 DEF HandlerResolves
  <2> QED BY <1>1, <2>1, UserSettles
<1>5. CASE UserRejects
  <2>1. PICK err \in Rejections[Top.c] : Settle(Rejection(Top, err))
    BY <1>5 DEF UserRejects
  <2> QED BY <1>1, <2>1, UserSettles
<1>6. CASE UserAwaitsReply
  <2>1. PICK y : y = [Top EXCEPT !.fn = "awaitReply"]
    OBVIOUS
  <2>2. Settle(y) /\ y.fn = "awaitReply" /\ y.c = Top.c /\ y.m = Top.m /\ y.done = Top.done /\ y.m \in {"async", "resumed"}
    BY <1>1, <1>6, <2>1, UserRuns DEF UserAwaitsReply, Frame, FrameOf, IsAsync
  <2>3. Top.c # "preSerialization"
    BY <1>1, UserRuns
  <2>4. FitsReady(y)
    BY <2>2, <2>3 DEF FitsReady, Fits
  <2>5. (Writes(y) => Top.c \in PayloadChains) /\ (Calm(y) => Top.c # "onError" /\ Writes(y))
    BY <2>2 DEF Writes, Calm, UserSide
  <2> QED BY <1>1, <2>2, <2>3, <2>4, <2>5, UserRuns, SettleStep
<1> QED BY <1>2, <1>3, <1>4, <1>5, <1>6

(* An exception reaches it. *)
LEMMA LockUserThrew ==
  ASSUME TypeOK, TypeOK', Lock, HookThrew \/ HandlerThrew \/ AsyncUserThrew \/ UserThrewUncaught
  PROVE  Lock'
<1>0. RequestTypeOK
  BY DEF TypeOK
<1>1. /\ stack # <<>> /\ exc # None /\ Top.fn = "user" /\ Top \in Frame /\ Fits(Top) /\ Top.c \in UserFns
      /\ IsAsyncUser(Top) <=> IsAsync
  BY LockAtTop
  DEF HookThrew, HandlerThrew, AsyncUserThrew, UserThrewUncaught, Unwinding, IsAsyncUser, IsAsync
<1>2. CASE HookThrew
  <2>0. SameFlags /\ Catch(NextOf(Top, exc, None)) /\ ~IsAsyncUser(Top) /\ Top.m = "sync" /\ Top.c \in HookChains
    BY <1>0, <1>1, <1>2, FlagsKept DEF HookThrew, IsAsync, IsHook
  <2>1. CASE Top.c \in PayloadChains
    <3>1. PICK g : g = NextOf(Top, exc, None)
      OBVIOUS
    <3>2. /\ Fits(g) /\ g.fn \notin {"notFound", "thenTry", "fulfilled", "pipe", "rawEnd"}
          /\ ~Firm(g) /\ ~Calm(g)
      BY <1>1, <2>1, <3>1, PayloadChain
    <3>3. Catches(Top)
      BY <1>1, <2>0, <2>1 DEF Catches
    <3> QED BY <1>1, <2>0, <3>1, <3>2, <3>3, CatchStep
  <2>2. CASE Top.c \notin PayloadChains
    <3>1. Neutral(NextOf(Top, exc, None))
      BY <1>1, <2>0, <2>2, NeutralChain DEF OtherChains, HookChains
    <3> QED BY <1>1, <2>0, <3>1, NeutralGoto
  <2> QED BY <2>1, <2>2
<1>3. CASE HandlerThrew
  <2>0. SameFlags /\ ~IsAsyncUser(Top)
    BY <1>0, <1>1, <1>3, FlagsKept DEF HandlerThrew, IsAsync
  <2>1. PICK g : g = [Top EXCEPT !.fn = "send", !.p = exc, !.done = FALSE]
    OBVIOUS
  <2>2. g.fn = "send" /\ Catch(g)
    BY <1>1, <1>3, <2>1 DEF HandlerThrew, Frame, FrameOf
  <2>3. Neutral(g)
    BY <2>2, NeutralFrame DEF NeutralFns
  <2> QED BY <1>1, <2>0, <2>2, <2>3, NeutralGoto
<1>4. CASE AsyncUserThrew
  <2>0. SameFlags /\ IsAsync
    BY <1>0, <1>4, FlagsKept DEF AsyncUserThrew
  <2>1. PICK g, new, v : g = Rejection(Top, exc) /\ new = None /\ v = None
    OBVIOUS
  <2>2. Top.c # "preSerialization" /\ (Top.c \in PayloadChains => Writes(Top))
    BY <1>1, <2>0 DEF IsAsyncUser, Fits, Writes, UserSide, IsAsync
  <2>3. /\ FitsReady(g)
        /\ Writes(g) => Top.c \in PayloadChains
        /\ Calm(g) => Top.c # "onError"
    BY <1>1, <2>1, <2>2, AsyncOutcome DEF UserSide
  <2>4. /\ Writes(Top) => (Top.c # "preSerialization" => Firm(Top)) /\ (Top.c # "onError" => Calm(Top))
        /\ Firm(Top) => reply.sent
        /\ Calm(Top) => ~reply.onErr
    <3>1. LockTop(Top, Tail(stack), ready, jobs, exc, reply.sent, reply.onErr, res.head)
      BY <1>1, LockAtTop
    <3> QED BY <1>1, <3>1, LockFacts DEF Firm, Calm, UserSide
  <2>5. (Writes(g) => Writes(Top) /\ reply.sent) /\ (Calm(g) => ~reply.onErr)
    BY <2>2, <2>3, <2>4, Kinds
  <2> QED BY <1>1, <1>4, <2>0, <2>1, <2>3, <2>5, SettleStep DEF AsyncUserThrew
<1>5. CASE UserThrewUncaught
  <2>1. SameFlags /\ Pass
    BY <1>0, <1>5, FlagsKept DEF UserThrewUncaught
  <2> QED BY <1>1, <1>5, <2>1, PassStep DEF UserThrewUncaught
<1> QED BY <1>2, <1>3, <1>4, <1>5

LEMMA LockUserSteps ==
  ASSUME SyncSerialization, TypeOK, TypeOK', Lock, UserSteps, UserCallsNotFound => ~reply.sent
  PROVE  Lock'
<1>0. RequestTypeOK
  BY DEF TypeOK
<1>1. CASE UserCallsNext
  <2>1. PICK new \in NewPayloads : Call(Finished(Top), Completion(Top, None, new))
    BY <1>1 DEF UserCallsNext
  <2> QED BY <1>0, <1>1, <2>1, FlagsKept, UserCompletes DEF UserCallsNext, May
<1>2. CASE UserFails
  <2>1. PICK err \in Failures : Call(Finished(Top), Completion(Top, err, None))
    BY <1>2 DEF UserFails
  <2> QED BY <1>0, <1>2, <2>1, FlagsKept, UserCompletes DEF UserFails, May
<1>3. CASE UserThrows
  <2>1. exc' # None
    BY <1>3, PayloadAssumption DEF UserThrows, None
  <2> QED BY <1>0, <1>3, <2>1, FlagsKept, UserRuns, UserThrowStep DEF UserThrows, May
<1>4. CASE UserSetsNoContent
  <2>1. SameFlags
    BY <1>0, <1>4, FlagsKept DEF UserSetsNoContent
  <2> QED BY <1>4, <2>1, SameStep DEF UserSetsNoContent, loop
<1>5. CASE HandlerReturnsValue
  <2>1. PICK p \in SendPayloads : Goto([Plain("send") EXCEPT !.p = p, !.f = MaxSends + 1])
    BY <1>5 DEF HandlerReturnsValue
  <2>2. PICK g : g = [Plain("send") EXCEPT !.p = p, !.f = MaxSends + 1]
    OBVIOUS
  <2>3. Neutral(g)
    <3>1. g.fn = "send"
      BY <2>2 DEF Plain
    <3> QED BY <3>1, NeutralFrame DEF NeutralFns
  <2>4. ~IsAsyncUser(Top) /\ Running("user") /\ ~Top.done /\ SameFlags
    BY <1>0, <1>5, FlagsKept DEF HandlerReturnsValue, IsAsyncUser, May
  <2> QED BY <2>1, <2>2, <2>3, <2>4, UserRuns, NeutralGoto
<1>6. CASE UserReturns
  BY <1>0, <1>6, FlagsKept, UserRuns, ReturnStep DEF UserReturns
<1> QED BY <1>1, <1>2, <1>3, <1>4, <1>5, <1>6, LockUserSends, LockUserCallsNotFound, LockUserTakesOver,
      LockUserWaits, LockUserSettles, LockUserThrew DEF UserSteps

LEMMA NeutralGoes ==
  ASSUME TypeOK, TypeOK', Lock, NEW fn \in NeutralFns \ {"send", "handlerTry"}, Running(fn),
         NEW g, Neutral(g), Goto(g), SameFlags
  PROVE  Lock'
<1>1. ~Spent(Top) /\ ~IsAsyncUser(Top) /\ Top.fn \notin {"send", "thenTry"}
  BY Runs DEF NeutralFns, Spent, IsAsyncUser, Tries
<1> QED BY <1>1, Runs, NeutralGoto

(* handler catches what preValidation throws, *)
LEMMA LockHandler ==
  ASSUME TypeOK, TypeOK', Lock, Handler \/ HandlerTryThrew
  PROVE  Lock'
<1>0. SameFlags
  BY FlagsKept DEF TypeOK, Handler, HandlerTryThrew
<1>1. CASE Handler
  <2>1. stack # <<>> /\ exc = None /\ Top.fn = "handler" /\ Top \in Frame
    BY <1>1, Runs DEF Handler
  <2>2. PICK h : h = [Top EXCEPT !.fn = "handlerTry"]
    OBVIOUS
  <2>3. h.fn = "handlerTry" /\ Call(h, StartChain(Top, "preValidation"))
    BY <1>1, <2>1, <2>2 DEF Handler, Frame, FrameOf
  <2>4. Waits(h) /\ Fits(h) /\ ~Catches(h) /\ ~Writes(h) /\ ~Calm(h)
    BY <2>3 DEF Waits, Fits, Catches, Writes, Calm, Tries, UserSide
  <2>5. Neutral(StartChain(Top, "preValidation"))
    BY <2>1, NeutralStart DEF OtherChains, RequestChains
  <2>6. ~Spent(Top) /\ ~IsAsyncUser(Top)
    BY <2>1 DEF Spent, IsAsyncUser, Tries
  <2> QED BY <1>0, <2>1, <2>3, <2>4, <2>5, <2>6, NeutralCallStep
<1>2. CASE HandlerTryThrew
  <2>1. stack # <<>> /\ exc # None /\ Top.fn = "handlerTry" /\ Top \in Frame
    BY <1>2, LockAtTop DEF HandlerTryThrew, Unwinding
  <2>2. PICK g : g = [Top EXCEPT !.fn = "preValidationCallback", !.e = exc]
    OBVIOUS
  <2>3. g.fn = "preValidationCallback" /\ Catch(g)
    BY <1>2, <2>1, <2>2 DEF HandlerTryThrew, Frame, FrameOf
  <2>4. Neutral(g) /\ ~IsAsyncUser(Top)
    BY <2>1, <2>3, NeutralFrame DEF NeutralFns, IsAsyncUser
  <2> QED BY <1>0, <2>1, <2>3, <2>4, NeutralGoto
<1> QED BY <1>1, <1>2

(* wrapThenable what send throws. *)
LEMMA LockThen ==
  ASSUME TypeOK, TypeOK', Lock, FulfilledSends \/ ThenTryThrew \/ RejectedSends
  PROVE  Lock'
<1>0. RequestTypeOK
  BY DEF TypeOK
<1>1. CASE FulfilledSends
  <2>0. SameFlags
    BY <1>0, <1>1, FlagsKept DEF FulfilledSends
  <2>1. /\ stack # <<>> /\ exc = None /\ Top.fn = "fulfilled" /\ Top \in Frame
        /\ reply.onErr => reply.sent
    BY <1>1, Runs DEF FulfilledSends
  <2>2. /\ LockTop(Top, Tail(stack), ready, jobs, None, reply.sent, reply.onErr, res.head)
        /\ Tail(stack) = <<>>
        /\ Ground(<<>>, ready, jobs) /\ Keeps(<<>>, ready, jobs, reply.sent, reply.onErr, res.head)
        /\ Below(<<>>, ready, jobs) => reply.sent
    BY <2>1, LockAtTop, LockFacts DEF LockTop, First
  <2>3. PICK g : g = [Top EXCEPT !.fn = "send", !.e = None]
    OBVIOUS
  <2>4. PICK h : h = [Top EXCEPT !.fn = "thenTry"]
    OBVIOUS
  <2>5. g.fn = "send" /\ h.fn = "thenTry" /\ g \in Frame /\ h \in Frame /\ Call(h, g)
    <3>1. g.fn = "send" /\ h.fn = "thenTry"
      BY <2>1, <2>3, <2>4 DEF Frame, FrameOf
    <3>2. Call(h, g) /\ stack' = <<g, h>> \o <<>>
      BY <1>1, <2>2, <2>3, <2>4 DEF FulfilledSends, Call
    <3>3. g \in Frame /\ h \in Frame
      BY <3>2, TwoOnTop, NoFrames DEF TypeOK, LoopTypeOK
    <3> QED BY <3>1, <3>2, <3>3
  <2>6. Fits(h) /\ Waits(h) /\ ~Writes(h) /\ ~Calm(h) /\ ~IsAsyncUser(h) /\ ~Catches(h)
    BY <2>5 DEF Fits, Waits, Writes, Calm, IsAsyncUser, Catches, Tries, UserSide
  <2>7. Fits(g) /\ ~Writes(g) /\ ~Firm(g) /\ ~Calm(g) /\ ~IsAsyncUser(g) /\ ~Catches(g) /\ ~Spent(g)
    BY <2>5 DEF Fits, Writes, Firm, Calm, IsAsyncUser, Catches, Spent, Tries, UserSide
  <2> DEFINE s == <<h>> \o <<>>
  <2>8. /\ Ground(s, ready, jobs)
        /\ Below(s, ready, jobs) <=> Below(<<>>, ready, jobs)
        /\ CalmBelow(s, ready, jobs) <=> CalmBelow(<<>>, ready, jobs)
        /\ Writing(s) <=> Writing(<<>>)
        /\ Open(s) <=> OpenTop(h, <<>>)
        /\ s # <<>> /\ Tail(s) = <<>>
    BY <2>2, <2>5, <2>6, GroundCall
  <2>9. stack' = <<g>> \o s /\ s \in Seq(Frame)
    <3>1. stack' = <<g, h>> \o <<>>
      BY <2>2, <2>5 DEF Call
    <3> QED BY <3>1, TwoOnTop, NoFrames DEF TypeOK, LoopTypeOK
  <2> HIDE DEF s
  <2>10. Keeps(s, ready, jobs, reply.sent, reply.onErr, res.head)
    BY <2>2, <2>8 DEF Keeps
  <2>11. First(g, s)
    BY <2>5, <2>7 DEF First
  <2>12. ~OpenTop(g, s)
    BY <2>6, <2>7, <2>8, NoFrames DEF OpenTop
  <2>13. LockTop(g, s, ready, jobs, None, reply.sent, reply.onErr, res.head)
    BY <2>1, <2>2, <2>5, <2>7, <2>8, <2>10, <2>11, <2>12 DEF LockTop
  <2>14. ready' = ready /\ jobs' = jobs /\ exc' = None
    BY <2>1, <2>5 DEF Call
  <2> QED BY <2>0, <2>9, <2>13, <2>14, LockOnTop DEF SameFlags
<1>2. CASE ThenTryThrew
  <2>1. stack # <<>> /\ exc # None /\ Top.fn = "thenTry" /\ Top \in Frame
    BY <1>2, LockAtTop DEF ThenTryThrew, Unwinding
  <2>2. PICK g : g = [Top EXCEPT !.fn = "send", !.p = exc, !.e = None]
    OBVIOUS
  <2>3. g.fn = "send" /\ Catch(g)
    BY <1>2, <2>1, <2>2 DEF ThenTryThrew, Frame, FrameOf
  <2>4. reply'.onErr = reply.onErr /\ res'.head = res.head
    BY <1>0, <1>2 DEF ThenTryThrew, RequestTypeOK, ReplyType
  <2> QED BY <2>1, <2>3, <2>4, ThenStep
<1>3. CASE RejectedSends
  <2>0. SameFlags
    BY <1>0, <1>3, FlagsKept DEF RejectedSends
  <2>1. PICK g : g = [Top EXCEPT !.fn = "send", !.e = None]
    OBVIOUS
  <2>2. g.fn = "send" /\ Goto(g)
    BY <1>3, <2>1, Runs DEF RejectedSends, Frame, FrameOf
  <2>3. Neutral(g)
    BY <2>2, NeutralFrame DEF NeutralFns
  <2> QED BY <1>3, <2>0, <2>2, <2>3, NeutralGoes DEF RejectedSends, NeutralFns
<1> QED BY <1>1, <1>2, <1>3

LEMMA LockLifecycleSteps ==
  ASSUME TypeOK, TypeOK', Lock, LifecycleSteps
  PROVE  Lock'
<1>0. RequestTypeOK
  BY DEF TypeOK
<1>1. CASE RouteHandler
  <2>1. SameFlags
    BY <1>0, <1>1 DEF RouteHandler, SameFlags, RequestTypeOK, ResType
  <2>2. Neutral(StartChain(Top, "onRequest"))
    BY <1>1, Runs, NeutralStart DEF RouteHandler, OtherChains, RequestChains
  <2> QED BY <1>1, <2>1, <2>2, NeutralGoes DEF RouteHandler, NeutralFns
<1>2. CASE RunPreParsing
  <2>1. Neutral(StartChain(Top, "preParsing"))
    BY <1>2, Runs, NeutralStart DEF RunPreParsing, OtherChains, RequestChains
  <2> QED BY <1>0, <1>2, <2>1, FlagsKept, NeutralGoes DEF RunPreParsing, NeutralFns
<1>3. CASE CallbackDropped \/ HandlerTryReturns \/ FulfilledIgnored \/ RejectedIgnored
  <2>1. stack # <<>> /\ exc = None /\ SameFlags /\ Return /\ Top.fn # "send"
    BY <1>0, <1>3, FlagsKept
    DEF CallbackDropped, HandlerTryReturns, FulfilledIgnored, RejectedIgnored, Running, Steady
  <2> QED BY <2>1, ReturnStep
<1>4. CASE CallbackFails \/ HandleWithoutBody \/ HandleRefused \/ HandleBadMethod \/ BodyDoneFails \/ BodyDoneHandles
  <2>1. PICK fn \in {"runPreParsing", "handleRequest", "preValidationCallback", "preHandlerCallback", "bodyDone"} :
          Running(fn)
    BY <1>4 DEF CallbackFails, HandleWithoutBody, HandleRefused, HandleBadMethod, BodyDoneFails,
       BodyDoneHandles, Handling
  <2>2. SameFlags
    BY <1>0, <1>4, FlagsKept DEF CallbackFails, HandleWithoutBody, HandleRefused, HandleBadMethod,
       BodyDoneFails, BodyDoneHandles
  <2>3. PICK g : /\ Goto(g)
                 /\ g \in {[Top EXCEPT !.fn = "send", !.p = Top.e], [Top EXCEPT !.fn = "handler"],
                           [Top EXCEPT !.fn = "send", !.p = "Error"]}
    BY <1>4 DEF CallbackFails, HandleWithoutBody, HandleRefused, HandleBadMethod, BodyDoneFails,
       BodyDoneHandles
  <2>4. g.fn \in {"send", "handler"}
    BY <2>1, <2>3, Runs DEF Frame, FrameOf
  <2>5. Neutral(g)
    BY <2>4, NeutralFrame DEF NeutralFns
  <2> QED BY <2>1, <2>2, <2>3, <2>5, NeutralGoes DEF NeutralFns
<1>5. CASE HandleCustomParser
  <2>1. PICK s \in Style["parser"] : Goto(User(Top, "parser", 0, s))
    BY <1>5 DEF HandleCustomParser
  <2>2. Neutral(User(Top, "parser", 0, s))
    BY <1>5, Runs, NeutralUser DEF HandleCustomParser, Handling, PayloadChains
  <2> QED BY <1>0, <1>5, <2>1, <2>2, FlagsKept, NeutralGoes DEF HandleCustomParser, Handling, NeutralFns
<1>6. CASE HandleRawBody
  <2>1. PICK y : y = [Top EXCEPT !.fn = "rawBody"]
    OBVIOUS
  <2>2. y.fn = "rawBody" /\ Leave(y) /\ stack # <<>> /\ exc = None /\ Top.fn # "send"
    BY <1>6, <2>1, Runs DEF HandleRawBody, Handling, Frame, FrameOf
  <2>3. FitsJob(y) /\ ~Writes(y) /\ ~Calm(y)
    BY <2>2 DEF FitsJob, Fits, Writes, Calm, UserSide
  <2> QED BY <1>0, <1>6, <2>2, <2>3, FlagsKept, LeaveStep DEF HandleRawBody
<1>7. CASE PreValidationCallback
  <2>1. SameFlags
    BY <1>0, <1>7, FlagsKept DEF PreValidationCallback
  <2>2. PICK g : /\ Goto(g)
                 /\ g \in {StartChain(Top, "preHandler"), [Top EXCEPT !.fn = "send", !.p = "Error"]}
    BY <1>7 DEF PreValidationCallback
  <2>3. Top \in Frame
    BY <1>7, Runs DEF PreValidationCallback
  <2>4. Neutral(g)
    <3>1. CASE g = StartChain(Top, "preHandler")
      BY <2>3, <3>1, NeutralStart DEF OtherChains, RequestChains
    <3>2. CASE g = [Top EXCEPT !.fn = "send", !.p = "Error"]
      <4>1. g.fn = "send"
        BY <2>3, <3>2 DEF Frame, FrameOf
      <4> QED BY <4>1, NeutralFrame DEF NeutralFns
    <3> QED BY <2>2, <3>1, <3>2
  <2> QED BY <1>7, <2>1, <2>2, <2>4, NeutralGoes DEF PreValidationCallback, NeutralFns
<1>8. CASE PreHandlerCallback
  <2>1. PICK s \in Style["handler"] : Goto(User(Top, "handler", 0, s))
    BY <1>8 DEF PreHandlerCallback
  <2>2. Neutral(User(Top, "handler", 0, s))
    BY <1>8, Runs, NeutralUser DEF PreHandlerCallback, PayloadChains
  <2> QED BY <1>0, <1>8, <2>1, <2>2, FlagsKept, NeutralGoes DEF PreHandlerCallback, NeutralFns
<1> QED BY <1>1, <1>2, <1>3, <1>4, <1>5, <1>6, <1>7, <1>8, LockHandler, LockThen DEF LifecycleSteps

-----------------------------------------------------------------------------
LEMMA JobFacts ==
  ASSUME Lock, Idle, NEW y \in jobs
  PROVE  /\ y \in Frame /\ FitsJob(y) /\ Fits(y)
         /\ Writes(y) /\ res.head # "none" => y.fn = "pipe"
BY LockWhenIdle DEF Idle, LockIdle, Ground, Keeps, FitsJob

LEMMA LockPlatformSteps ==
  ASSUME TypeOK, TypeOK', Lock, PlatformSteps
  PROVE  Lock'
<1>0. RequestTypeOK
  BY DEF TypeOK
<1>1. CASE RunPromiseJob
  BY <1>0, <1>1, FlagsKept, TurnStep DEF RunPromiseJob
<1>2. CASE UserGoesOn
  <2>1. PICK y \in jobs : /\ y.fn = "user"
                          /\ StartTurn(IF y.m = "late" THEN "callback" ELSE "promise", y, y)
    BY <1>2 DEF UserGoesOn
  <2>2. PICK k : StartTurn(k, y, y)
    BY <2>1
  <2>3. Fits(y) /\ ~Catches(y) /\ (Writes(y) => res.head = "none")
    <3>1. Idle
      BY <2>2 DEF StartTurn
    <3> QED BY <2>1, <3>1, JobFacts DEF FitsJob, Catches
  <2> QED BY <1>0, <1>2, <2>1, <2>2, <2>3, FlagsKept, JobStep DEF UserGoesOn
<1>3. CASE RawEnd
  <2>1. PICK y \in jobs : y.fn = "rawEnd" /\ DropJob(y)
    BY <1>3 DEF RawEnd
  <2>2. Writes(y) /\ Calm(y)
    BY <2>1 DEF Writes, Calm
  <2> QED BY <1>3, <2>1, <2>2, DropStep DEF RawEnd
<1>4. CASE RawBodyDone
  <2>1. PICK y \in jobs, err \in {None, "Error"} : y.fn = "rawBody" /\ StartTurn("callback", y, BodyDone(y, err))
    BY <1>4 DEF RawBodyDone
  <2>2. PICK g : g = BodyDone(y, err)
    OBVIOUS
  <2>3. Idle /\ y \in Frame
    BY <2>1, JobFacts DEF StartTurn
  <2>4. g.fn = "bodyDone"
    BY <2>2, <2>3 DEF BodyDone, Frame, FrameOf
  <2>5. Neutral(g)
    BY <2>4, NeutralFrame DEF NeutralFns
  <2> QED BY <1>0, <1>4, <2>1, <2>2, <2>5, FlagsKept, Kinds, JobStep DEF RawBodyDone, Neutral
<1>5. CASE RawBodyBroken
  <2>1. PICK y \in jobs : y.fn = "rawBody" /\ StartTurn("callback", y, [y EXCEPT !.fn = "send", !.p = "Error"])
    BY <1>5 DEF RawBodyBroken
  <2>2. PICK g : g = [y EXCEPT !.fn = "send", !.p = "Error"]
    OBVIOUS
  <2>3. Idle /\ y \in Frame
    BY <2>1, JobFacts DEF StartTurn
  <2>4. g.fn = "send"
    BY <2>2, <2>3 DEF Frame, FrameOf
  <2>5. Neutral(g)
    BY <2>4, NeutralFrame DEF NeutralFns
  <2> QED BY <1>0, <1>5, <2>1, <2>2, <2>5, FlagsKept, Kinds, JobStep DEF RawBodyBroken, Neutral
<1>6. CASE StreamData
  <2>1. PICK y \in jobs : y.fn = "pipe"
    BY <1>6 DEF StreamData, PipeJob
  <2> QED BY <1>6, <2>1, StreamStep DEF StreamData
<1>7. CASE StreamEnd \/ StreamErrorAfterHead
  <2>1. PICK y \in jobs : y.fn = "pipe" /\ DropJob(y)
    BY <1>7 DEF StreamEnd, StreamErrorAfterHead, PipeJob
  <2>2. Writes(y) /\ Calm(y)
    BY <2>1 DEF Writes, Calm
  <2> QED BY <1>7, <2>1, <2>2, DropStep DEF StreamEnd, StreamErrorAfterHead
<1>8. CASE StreamErrorBeforeHead
  <2>1. PICK y \in jobs : /\ y.fn = "pipe"
                          /\ StartTurn("callback", y, [y EXCEPT !.fn = "onErrorHook", !.e = "Error", !.k = FALSE])
    BY <1>8 DEF StreamErrorBeforeHead, PipeJob
  <2>2. PICK g : g = [y EXCEPT !.fn = "onErrorHook", !.e = "Error", !.k = FALSE]
    OBVIOUS
  <2>3. Idle /\ y \in Frame
    BY <2>1, JobFacts DEF StartTurn
  <2>4. g.fn = "onErrorHook"
    BY <2>2, <2>3 DEF Frame, FrameOf
  <2>5. Fits(g) /\ ~Catches(g) /\ ~Calm(g) /\ Writes(y)
    BY <2>1, <2>4 DEF Fits, Catches, Calm, Writes, UserSide
  <2>6. res.head = "none" /\ SameFlags
    BY <1>0, <1>8, FlagsKept DEF StreamErrorBeforeHead
  <2> QED BY <2>1, <2>2, <2>4, <2>5, <2>6, JobStep
<1>9. CASE AwaitedReplyOver
  <2>1. PICK y \in jobs : y.fn = "eos" /\ SettleJob(y, Fulfilment(y))
    BY <1>9 DEF AwaitedReplyOver
  <2>2. PICK g : g = Fulfilment(y)
    OBVIOUS
  <2>3. y \in Frame /\ Fits(y) /\ y.c \in UserFns /\ y.c # "preSerialization" /\ y.m \in {"async", "resumed"}
    <3>1. Idle
      BY <2>1 DEF SettleJob
    <3>2. y \in Frame /\ Fits(y)
      BY <3>1, JobFacts
    <3> QED BY <2>1, <3>2 DEF Fits, Frame
  <2>4. /\ FitsReady(g)
        /\ Writes(g) => y.c \in PayloadChains
        /\ Calm(g) => y.c # "onError"
    BY <2>1, <2>2, <2>3, FulfilledOutcome DEF UserSide
  <2>5. (Writes(g) => Writes(y)) /\ (Calm(g) => Calm(y))
    <3>1. Writes(g) => Writes(y)
      BY <2>1, <2>3, <2>4 DEF Writes, UserSide
    <3>2. Calm(g) => Writes(g)
      BY Kinds
    <3> QED BY <2>1, <2>4, <3>1, <3>2 DEF Calm, UserSide
  <2> QED BY <1>0, <1>9, <2>1, <2>2, <2>4, <2>5, FlagsKept, SettleJobStep DEF AwaitedReplyOver
<1>10. CASE ResFinish
  <2>1. SameFlags
    BY <1>0, <1>10 DEF ResFinish, SameFlags, RequestTypeOK, ResType
  <2>2. CASE res.listening
    <3>1. StartEvent(StartChain(Plain("hookNext"), "onResponse"))
      BY <1>10, <2>2 DEF ResFinish, OnResFinished
    <3>2. Neutral(StartChain(Plain("hookNext"), "onResponse"))
      BY NeutralResponse
    <3> QED BY <2>1, <3>1, <3>2, EventTurnStep
  <2>3. CASE ~res.listening
    BY <1>10, <2>1, <2>3, SameStep DEF ResFinish, OnResFinished, loop
  <2> QED BY <2>2, <2>3
<1>11. CASE ProcessLost
  BY <1>0, <1>11, FlagsKept, SameStep DEF ProcessLost, Escapes
<1> QED BY <1>1, <1>2, <1>3, <1>4, <1>5, <1>6, <1>7, <1>8, <1>9, <1>10, <1>11 DEF PlatformSteps

LEMMA LockMishap ==
  ASSUME TypeOK, TypeOK', Lock, Mishap
  PROVE  Lock'
<1>1. SameFlags
  BY DEF Mishap, ResError, ClientAborts, SameFlags, TypeOK, RequestTypeOK, ResType
<1>2. CASE ResError
  <2>1. CASE res.listening
    <3>1. StartEvent(StartChain(Plain("hookNext"), "onResponse"))
      BY <1>2, <2>1 DEF ResError, OnResFinished
    <3>2. Neutral(StartChain(Plain("hookNext"), "onResponse"))
      BY NeutralResponse
    <3> QED BY <1>1, <3>1, <3>2, EventTurnStep
  <2>2. CASE ~res.listening
    BY <1>2, <2>2 DEF ResError
  <2> QED BY <2>1, <2>2
<1>3. CASE ClientAborts
  BY <1>1, <1>3, SameStep DEF ClientAborts, loop
<1> QED BY <1>2, <1>3 DEF Mishap

-----------------------------------------------------------------------------
(* callNotFound resets the flag whatever has been sent: that is the        *)
(* finding of doc_call_not_found.                                          *)
NotFoundInTime == [][UserCallsNotFound => ~reply.sent]_vars

LEMMA LockInit == Init => Lock
<1> SUFFICES ASSUME Init PROVE Lock
  OBVIOUS
<1> DEFINE t == Plain("routeHandler")
<1>1. t.fn = "routeHandler" /\ t \in Frame
  BY DEF Plain, Frame, FrameOf, RunnerFns, Fns, Payload, None, UserFns
<1>2. stack # <<>> /\ Head(stack) = t /\ Tail(stack) = <<>>
  BY OneFrame DEF Init, LoopInit
<1>3. ready = <<>> /\ jobs = {} /\ exc = None /\ reply.sent = FALSE /\ reply.onErr = FALSE /\ res.head = "none"
  BY DEF Init, LoopInit, ExchangeInit
<1>4. Neutral(t) /\ First(t, <<>>)
  BY <1>1, NeutralFrame DEF NeutralFns
<1> HIDE DEF t
<1>5. Ground(<<>>, <<>>, {}) /\ Keeps(<<>>, <<>>, {}, FALSE, FALSE, "none") /\ ~Below(<<>>, <<>>, {})
  BY NoFrames DEF Ground, Keeps, Below, CalmBelow, SomeJobWrites
<1>6. ~OpenTop(t, <<>>) /\ ~OverThenTop(t, <<>>)
  BY <1>1, <1>4, NoFrames DEF OpenTop, OverThenTop, Neutral
<1>7. LockTop(t, <<>>, <<>>, {}, None, FALSE, FALSE, "none")
  BY <1>1, <1>4, <1>5, <1>6, Kinds DEF LockTop, Neutral
<1> QED BY <1>2, <1>3, <1>7 DEF Lock, LockOf

LEMMA LockStep ==
  ASSUME SyncSerialization, TypeOK, TypeOK', Lock, [Next]_vars, [UserCallsNotFound => ~reply.sent]_vars
  PROVE  Lock'
<1>1. CASE UNCHANGED vars
  BY <1>1, SameStep, FlagsKept DEF TypeOK, vars, loop, SameFlags, request
<1>2. CASE ~UNCHANGED vars
  <2>1. UserCallsNotFound => ~reply.sent
    BY <1>2
  <2> QED BY <1>1, <1>2, <2>1, LockHookSteps, LockReplySteps, LockUserSteps, LockLifecycleSteps,
        LockPlatformSteps, LockMishap DEF Next, Progress, Stutter
<1> QED BY <1>1, <1>2

LEMMA AlwaysLocked ==
  ASSUME SyncSerialization
  PROVE  Spec /\ NotFoundInTime => []Lock
<1>1. Lock /\ TypeOK /\ TypeOK' /\ [Next]_vars /\ [UserCallsNotFound => ~reply.sent]_vars => Lock'
  BY LockStep
<1> QED BY <1>1, LockInit, TypeCorrect, PTL DEF Spec, NotFoundInTime

(* The flag is set from the moment the head is out, however the resets of  *)
(* handleError and wrapThenable, streams, hooks and errors interleave      *)
(* (kReplySent in lib/reply.js and lib/wrapThenable.js).                   *)
THEOREM HeadFollowsFlag ==
  ASSUME SyncSerialization
  PROVE  Spec /\ NotFoundInTime => []HeadImpliesSent
<1>1. Lock => HeadImpliesSent
  <2> SUFFICES ASSUME Lock PROVE HeadImpliesSent
    OBVIOUS
  <2>1. CASE stack = <<>>
    BY <2>1 DEF Lock, LockOf, LockIdle, Keeps, HeadImpliesSent
  <2>2. CASE stack # <<>>
    BY <2>2 DEF Lock, LockOf, LockTop, Keeps, HeadImpliesSent
  <2> QED BY <2>1, <2>2
<1> QED BY <1>1, AlwaysLocked, PTL

(* No two of the writers of lib/reply.js reach res.writeHead: onSendEnd,   *)
(* handleError, a piped stream and user code that took the response over   *)
(* never get there one after the other.                                    *)
THEOREM OneHead ==
  ASSUME SyncSerialization
  PROVE  Spec /\ NotFoundInTime => []HeadWrittenOnce
<1>1. Lock => HeadWrittenOnce
  <2> SUFFICES ASSUME Lock, Running("writeHead") PROVE res.head = "none"
    BY DEF HeadWrittenOnce
  <2>1. Writes(Top)
    BY DEF Running, Writes
  <2> QED BY <2>1, Runs
<1> QED BY <1>1, AlwaysLocked, PTL

-----------------------------------------------------------------------------
(* User code that took the response over. *)

TakenAway == (\E y \in jobs : y.fn = "rawEnd") \/ res.head # "none"
Hijacked == did.hijacked => TakenAway

(* While it has, the flag is set, but for a send that is about to throw.   *)
LEMMA AwayIsLocked ==
  ASSUME Lock, TakenAway
  PROVE  /\ ~Running("writeHead")
         /\ stack # <<>> => reply.sent \/ Top.fn = "send"
<1>1. CASE stack = <<>>
  BY <1>1 DEF Running
<1>2. CASE stack # <<>>
  <2>1. LockTop(Top, Tail(stack), ready, jobs, exc, reply.sent, reply.onErr, res.head)
    BY <1>2, LockAtTop
  <2>2. Below(Tail(stack), ready, jobs) \/ res.head # "none"
    BY DEF TakenAway, Below, SomeJobWrites, Writes
  <2>3. ~Running("writeHead")
    <3>1. Running("writeHead") => Writes(Top)
      BY DEF Running, Writes
    <3> QED BY <2>1, <2>2, <3>1, LockFacts
  <2>4. reply.sent \/ Top.fn = "send"
    BY <2>1, <2>2 DEF LockTop, Keeps, Doomed
  <2> QED BY <2>3, <2>4
<1> QED BY <1>1, <1>2

LEMMA JobsGrow ==
  ASSUME NEW g, NEW h,
         \/ Goto(g) \/ Call(g, h) \/ Return \/ Pass \/ Leave(g) \/ Settle(g)
         \/ LeaveAndGo(g, h) \/ Throw(g) \/ Catch(g) \/ CatchSettling(g) \/ RunReady \/ StartEvent(g)
         \/ UNCHANGED loop
  PROVE  jobs \subseteq jobs'
BY DEF Goto, Call, Return, Pass, Leave, Settle, LeaveAndGo, Throw, Catch, CatchSettling,
       RunReady, StartEvent, loop

LEMMA JobsTaken ==
  ASSUME NEW g, NEW h, NEW t, StartTurn(t, g, h) \/ DropJob(g) \/ SettleJob(g, h)
  PROVE  jobs \ {g} \subseteq jobs'
BY DEF StartTurn, DropJob, SettleJob

LEMMA HookStepsGrow ==
  ASSUME RequestTypeOK, HookSteps
  PROVE  jobs \subseteq jobs' /\ did'.hijacked = did.hijacked
<1>1. CASE \/ HookRunnerEnds \/ HookDropped \/ PreParsingDropped \/ PayloadRunnerFails
           \/ PayloadRunnerEnds \/ PayloadCallbackThrew \/ PayloadCallbackReturns
           \/ HookRejected \/ PreParsingEnds
  BY <1>1, JobsGrow
  DEF HookRunnerEnds, HookDropped, PreParsingDropped, PayloadRunnerFails, PayloadRunnerEnds,
      PayloadCallbackThrew, PayloadCallbackReturns, HookRejected, PreParsingEnds, request
<1>2. CASE HookCalled \/ PreParsingCalled \/ PayloadHookCalled
  BY <1>2, JobsGrow DEF HookCalled, PreParsingCalled, PayloadHookCalled, Calls, RequestTypeOK, DidType
<1> QED BY <1>1, <1>2 DEF HookSteps

LEMMA ReplyStepsGrow ==
  ASSUME RequestTypeOK, ReplySteps
  PROVE  jobs \subseteq jobs' /\ did'.hijacked = did.hijacked
<1>1. CASE \/ SendInsideOnError \/ SendAgain \/ PreserializationFailed
           \/ SerializerThrows \/ Serialized \/ OnSendFailed \/ OnSendPassed
           \/ OnSendEndRejects \/ SendStream \/ AwaitedReplySent
           \/ AwaitedReplyPending \/ OnResponseCallback
           \/ OnSendEnd \/ OnErrorHookRuns \/ OnErrorHookSkipped \/ NotFound
           \/ OnSendHook \/ ErrorToOnSend \/ ErrorWritten \/ NotFoundInside404 \/ WriteHead
  BY <1>1, JobsGrow
  DEF SendInsideOnError, SendAgain, PreserializationFailed, SerializerThrows, Serialized,
      OnSendFailed, OnSendPassed, OnSendEndRejects, SendStream, AwaitedReplySent,
      AwaitedReplyPending, OnResponseCallback, OnSendEnd, OnErrorHookRuns,
      OnErrorHookSkipped, NotFound, OnSendHook, ErrorToOnSend, ErrorWritten, NotFoundInside404,
      WriteHead, request
<1>2. CASE SendError \/ SendAsIs \/ SendSerialized
  BY <1>2, JobsGrow DEF SendError, SendAsIs, SendSerialized, Accepted, RequestTypeOK, DidType
<1>3. CASE ErrorHandlerCalled
  BY <1>3, JobsGrow DEF ErrorHandlerCalled, Calls, RequestTypeOK, DidType
<1> QED BY <1>1, <1>2, <1>3 DEF ReplySteps

LEMMA UserStepsGrow ==
  ASSUME RequestTypeOK, UserSteps
  PROVE  /\ jobs \subseteq jobs'
         /\ did'.hijacked = did.hijacked \/ \E y \in jobs' : y.fn = "rawEnd"
<1>1. CASE \/ UserCallsNext \/ HandlerReturnsValue \/ UserDefers \/ UserAwaits
           \/ UserReturns \/ HookResolves \/ ParserResolves \/ HandlerResolves
           \/ UserAwaitsReply \/ HookThrew \/ HandlerThrew \/ AsyncUserThrew
           \/ UserThrewUncaught \/ UserSetsNoContent
  BY <1>1, JobsGrow
  DEF UserCallsNext, HandlerReturnsValue, UserDefers, UserAwaits, UserReturns,
      HookResolves, ParserResolves, HandlerResolves, UserAwaitsReply, HookThrew,
      HandlerThrew, AsyncUserThrew, UserThrewUncaught, UserSetsNoContent, request
<1>2. CASE UserFails \/ UserRejects \/ UserSends \/ UserCallsNotFound
  BY <1>2, JobsGrow
  DEF UserFails, UserRejects, UserSends, UserCallsNotFound, Blame, RequestTypeOK, DidType
<1>3. CASE UserThrows
  BY <1>3 DEF UserThrows, Blame, RequestTypeOK, DidType
<1>4. CASE UserHijacks \/ UserMarksSent
  <2>1. LeaveAndGo(Plain("rawEnd"), Finished(Top))
    BY <1>4 DEF UserHijacks, UserMarksSent
  <2>2. Plain("rawEnd") \in jobs' /\ Plain("rawEnd").fn = "rawEnd" /\ jobs \subseteq jobs'
    BY <2>1 DEF LeaveAndGo, Plain
  <2> QED BY <2>2
<1> QED BY <1>1, <1>2, <1>3, <1>4 DEF UserSteps

LEMMA LifecycleStepsGrow ==
  ASSUME RequestTypeOK, LifecycleSteps
  PROVE  jobs \subseteq jobs' /\ did'.hijacked = did.hijacked
<1>1. CASE \/ RunPreParsing \/ CallbackDropped \/ CallbackFails \/ HandleWithoutBody
           \/ HandleRefused \/ HandleRawBody \/ BodyDoneFails \/ BodyDoneHandles
           \/ Handler \/ HandlerTryThrew \/ HandlerTryReturns \/ FulfilledSends
           \/ FulfilledIgnored \/ RejectedIgnored \/ ThenTryThrew \/ RejectedSends
           \/ HandleBadMethod \/ PreValidationCallback \/ RouteHandler
  BY <1>1, JobsGrow
  DEF RunPreParsing, CallbackDropped, CallbackFails, HandleWithoutBody, HandleRefused,
      HandleRawBody, BodyDoneFails, BodyDoneHandles, Handler, HandlerTryThrew,
      HandlerTryReturns, FulfilledSends, FulfilledIgnored, RejectedIgnored,
      ThenTryThrew, RejectedSends, HandleBadMethod, PreValidationCallback, RouteHandler, request
<1>2. CASE HandleCustomParser \/ PreHandlerCallback
  BY <1>2, JobsGrow DEF HandleCustomParser, PreHandlerCallback, Calls, RequestTypeOK, DidType
<1> QED BY <1>1, <1>2 DEF LifecycleSteps

(* Only its own end removes the rawEnd job, and that leaves a head. *)
LEMMA HijackedStep ==
  ASSUME TypeOK, TypeOK', Hijacked, [Next]_vars
  PROVE  Hijacked' /\ (did.hijacked => TakenAway')
<1>0. RequestTypeOK
  BY DEF TypeOK
<1>1. CASE UNCHANGED vars
  BY <1>1 DEF vars, loop, request, Hijacked, TakenAway
<1>2. ASSUME jobs \subseteq jobs', did'.hijacked = did.hijacked \/ \E y \in jobs' : y.fn = "rawEnd",
             res'.head = res.head \/ res'.head # "none"
      PROVE  Hijacked' /\ (did.hijacked => TakenAway')
  BY <1>2 DEF Hijacked, TakenAway
<1>3. CASE WriteHead
  <2>1. res'.head = res.head \/ res'.head # "none"
    BY <1>0, <1>3 DEF WriteHead, RequestTypeOK, ResType, Statuses
  <2> QED BY <1>0, <1>2, <1>3, <2>1, ReplyStepsGrow DEF ReplySteps
<1>4. CASE HookSteps \/ (ReplySteps /\ ~WriteHead) \/ UserSteps \/ (LifecycleSteps /\ ~RouteHandler)
  <2>1. res'.head = res.head
    BY <1>0, <1>4, HookStepsUnseen, ReplyStepsUnseen, UserStepsUnseen, LifecycleStepsUnseen DEF Seen
  <2> QED BY <1>0, <1>2, <1>4, <2>1, HookStepsGrow, ReplyStepsGrow, UserStepsGrow, LifecycleStepsGrow
<1>5. CASE RouteHandler
  <2>1. res'.head = res.head
    BY <1>0, <1>5 DEF RouteHandler, RequestTypeOK, ResType
  <2> QED BY <1>0, <1>2, <1>5, <2>1, LifecycleStepsGrow DEF LifecycleSteps
<1>6. CASE \/ StreamData \/ ResFinish \/ ProcessLost \/ RunPromiseJob \/ Mishap
  <2>1. jobs \subseteq jobs' /\ did'.hijacked = did.hijacked
    BY <1>0, <1>6, JobsGrow DEF StreamData, ResFinish, ProcessLost, RunPromiseJob, Mishap, ResError,
       ClientAborts, OnResFinished, Escapes, request, RequestTypeOK, DidType, loop
  <2>2. res'.head = res.head \/ res'.head # "none"
    BY <1>0, <1>6 DEF StreamData, ResFinish, ProcessLost, RunPromiseJob, Mishap, ResError,
       ClientAborts, request, RequestTypeOK, ResType, Statuses
  <2> QED BY <1>2, <2>1, <2>2
<1>7. CASE RawEnd \/ StreamEnd \/ StreamErrorAfterHead
  <2>1. res'.head # "none" /\ did' = did
    BY <1>0, <1>7 DEF RawEnd, StreamEnd, StreamErrorAfterHead, RequestTypeOK, ResType, Statuses
  <2> QED BY <2>1 DEF Hijacked, TakenAway
<1>8. CASE UserGoesOn \/ RawBodyDone \/ RawBodyBroken \/ StreamErrorBeforeHead \/ AwaitedReplyOver
  <2>1. \E y : y.fn # "rawEnd" /\ jobs \ {y} \subseteq jobs'
    BY <1>8, JobsTaken DEF UserGoesOn, RawBodyDone, RawBodyBroken, StreamErrorBeforeHead, PipeJob,
       AwaitedReplyOver
  <2>2. did' = did
    BY <1>8 DEF UserGoesOn, RawBodyDone, RawBodyBroken, StreamErrorBeforeHead, AwaitedReplyOver, request
  <2>3. res'.head = res.head
    BY <1>0, <1>8, PlatformStepsUnseen DEF Seen
  <2> QED BY <2>1, <2>2, <2>3 DEF Hijacked, TakenAway
<1> QED BY <1>1, <1>3, <1>4, <1>5, <1>6, <1>7, <1>8 DEF Next, Progress, PlatformSteps, Stutter

(* No function of user code is called by a step that does anything else.   *)
LEMMA NoCall ==
  ASSUME TypeOK, NEW g, NEW h, NEW k,
         \/ Return \/ Pass \/ Leave(g) \/ Settle(g) \/ Throw(g) \/ CatchSettling(g) \/ Call(h, g)
         \/ RunReady \/ StartTurn(k, g, h) \/ DropJob(g) \/ SettleJob(g, h) \/ StartEvent(g)
         \/ UNCHANGED stack
         \/ (Goto(g) \/ Catch(g)) /\ g.fn # "user",
         NEW c
  PROVE  ~CallsUser(c)
<1>1. CASE stack = <<>>
  BY <1>1 DEF CallsUser
<1>2. CASE stack # <<>>
  <2>1. Tail(stack) \in Seq(Frame) /\ Len(stack) \in Nat /\ Len(Tail(stack)) = Len(stack) - 1
    BY <1>2 DEF TypeOK, LoopTypeOK
  <2>6. Len(Tail(stack)) # Len(stack) /\ Len(Tail(stack)) + 2 # Len(stack)
    <3>1. PICK n \in Nat : Len(stack) = n /\ Len(Tail(stack)) = n - 1
      BY <2>1, Zenon
    <3>2. n - 1 # n /\ (n - 1) + 2 # n
      OBVIOUS
    <3> QED BY <3>1, <3>2, Zenon
  <2>2. CASE Return \/ Pass \/ Leave(g) \/ Settle(g) \/ Throw(g) \/ CatchSettling(g)
    <3>1. stack' = Tail(stack)
      BY <2>2 DEF Return, Pass, Leave, Settle, Throw, CatchSettling
    <3>2. Len(stack') # Len(stack)
      <4>1. Len(stack') = Len(Tail(stack))
        BY <3>1, Zenon
      <4> QED BY <2>6, <4>1, Zenon
    <3> QED BY <3>2, Zenon DEF CallsUser
  <2>3. CASE Call(h, g)
    <3>1. Tail(stack) \in Seq(Frame \cup {g, h})
      BY <2>1
    <3>2. stack' = <<g, h>> \o Tail(stack) /\ Len(stack') = Len(Tail(stack)) + 2
      BY <2>1, <2>3, <3>1 DEF Call
    <3>3. Len(stack') # Len(stack)
      BY <2>6, <3>2, Zenon
    <3> QED BY <3>3, Zenon DEF CallsUser
  <2>4. CASE (Goto(g) \/ Catch(g)) /\ g.fn # "user"
    <3>1. stack' = <<g>> \o Tail(stack)
      BY <2>4 DEF Goto, Catch
    <3>2. Head(stack') = g
      BY <2>1, <3>1, OnTop
    <3> QED BY <2>4, <3>2 DEF CallsUser, Top
  <2>5. CASE UNCHANGED stack
    BY <2>5 DEF CallsUser, Top
  <2> QED BY <1>2, <2>2, <2>3, <2>4, <2>5
        DEF RunReady, StartTurn, DropJob, SettleJob, StartEvent, Idle, Steady
<1> QED BY <1>1, <1>2

LEMMA CalledIs ==
  ASSUME TypeOK, NEW g, stack # <<>>, Goto(g), NEW c, CallsUser(c)
  PROVE  g.c = c
<1>1. Tail(stack) \in Seq(Frame) /\ stack' = <<g>> \o Tail(stack)
  BY DEF TypeOK, LoopTypeOK, Goto
<1>2. Head(stack') = g
  BY <1>1, OnTop
<1> QED BY <1>2 DEF CallsUser, Top

LEMMA NotUser ==
  ASSUME NEW t \in Frame
  PROVE  /\ \A e, n : t.c \in HookChains => Callback(t, e).fn # "user" /\ NextOf(t, e, n).fn # "user"
         /\ \A c \in HookChains : StartChain(t, c).fn # "user"
<1>1. ASSUME NEW u \in Frame, u.c \in HookChains, NEW e, NEW n
      PROVE  Callback(u, e).fn # "user" /\ NextOf(u, e, n).fn # "user"
  <2>1. Callback(u, e).fn = CallbackOf[u.c] /\ NextOf(u, e, n).fn # "user"
    BY <1>1 DEF Callback, NextOf, Frame, FrameOf
  <2>2. CallbackOf[u.c] # "user"
    BY <1>1 DEF CallbackOf, HookChains, RequestChains, PayloadChains
  <2> QED BY <2>1, <2>2
<1>2. ASSUME NEW c \in HookChains PROVE StartChain(t, c).fn # "user"
  <2> DEFINE t2 == [t EXCEPT !.c = c, !.i = 0, !.e = None]
  <2>1. t2 \in Frame /\ t2.c = c
    <3>1. c \in UserFns
      BY DEF UserFns
    <3> QED BY <3>1 DEF Frame, FrameOf, Payload, None
  <2> HIDE DEF t2
  <2>2. Callback(t2, None).fn # "user" /\ NextOf(t2, None, None).fn # "user"
    BY <1>1, <2>1
  <2> QED BY <2>2 DEF StartChain, t2
<1> QED BY <1>1, <1>2

RequestCalls == HookCalled \/ PreParsingCalled \/ HandleCustomParser \/ PreHandlerCallback

(* onSendHookRunner runs none of the hooks of the request phase. *)
PayloadRuns == Running("sendNext") => Top.c \in PayloadChains

LEMMA TopIs ==
  ASSUME TypeOK, NEW fn, Running(fn) \/ Unwinding(fn)
  PROVE  stack # <<>> /\ Top \in Frame /\ Top.fn = fn
BY DEF Running, Unwinding, Top, TypeOK, LoopTypeOK

LEMMA HookStepsCall ==
  ASSUME TypeOK, PayloadRuns, HookSteps, ~RequestCalls, NEW c \in RequestPhase
  PROVE  ~CallsUser(c)
<1>1. CASE HookDropped \/ PreParsingDropped \/ PayloadCallbackReturns
  BY <1>1, NoCall DEF HookDropped, PreParsingDropped, PayloadCallbackReturns
<1>2. CASE HookRunnerEnds \/ HookRejected \/ PreParsingEnds \/ PayloadRunnerFails \/ PayloadCallbackThrew
  <2>1. Top \in Frame /\ Top.c \in HookChains
    BY <1>2, TopIs
    DEF HookRunnerEnds, HookRejected, PreParsingEnds, PayloadRunnerFails, PayloadCallbackThrew,
        Running, Unwinding, Frame, RunnerFns
  <2>2. PICK e : Goto(Callback(Top, e)) \/ Catch(Callback(Top, e))
    BY <1>2 DEF HookRunnerEnds, HookRejected, PreParsingEnds, PayloadRunnerFails, PayloadCallbackThrew
  <2>3. Callback(Top, e).fn # "user"
    BY <2>1, NotUser
  <2> QED BY <2>2, <2>3, NoCall
<1>3. CASE PayloadRunnerEnds
  BY <1>3, NoCall DEF PayloadRunnerEnds
<1>4. CASE PayloadHookCalled
  <2>1. stack # <<>> /\ Top \in Frame /\ Top.c \in PayloadChains
    BY <1>4, TopIs DEF PayloadHookCalled, PayloadRuns
  <2>2. PICK s : Goto(User(Top, Top.c, Top.i + 1, s))
    BY <1>4 DEF PayloadHookCalled
  <2>3. User(Top, Top.c, Top.i + 1, s).c = Top.c
    BY <2>1 DEF User, Frame, FrameOf
  <2>4. c \notin PayloadChains
    BY DEF RequestPhase, RequestChains, PayloadChains
  <2> QED BY <2>1, <2>2, <2>3, <2>4, CalledIs
<1> QED BY <1>1, <1>2, <1>3, <1>4 DEF HookSteps, RequestCalls

LEMMA ReplyStepsCall ==
  ASSUME TypeOK, ReplySteps, NEW c \in RequestPhase
  PROVE  ~CallsUser(c)
<1>1. CASE \/ SendInsideOnError \/ SendAgain \/ SerializerThrows \/ OnSendEndRejects \/ SendStream
           \/ AwaitedReplySent \/ AwaitedReplyPending \/ OnResponseCallback \/ WriteHead
  BY <1>1, NoCall
  DEF SendInsideOnError, SendAgain, SerializerThrows, OnSendEndRejects, SendStream,
      AwaitedReplySent, AwaitedReplyPending, OnResponseCallback, WriteHead
<1>2. CASE \/ SendError \/ SendAsIs \/ PreserializationFailed \/ Serialized \/ OnSendFailed
           \/ OnSendPassed \/ OnSendEnd \/ OnErrorHookSkipped \/ ErrorToOnSend \/ ErrorWritten
           \/ NotFoundInside404
  <2>1. Top \in Frame
    BY <1>2, TopIs
    DEF SendError, SendAsIs, PreserializationFailed, Serialized, OnSendFailed, OnSendPassed,
        OnSendEnd, OnErrorHookSkipped, ErrorToOnSend, ErrorWritten, NotFoundInside404, Accepting
  <2>2. PICK g : /\ Goto(g)
                 /\ g \in {[Top EXCEPT !.fn = "onErrorHook", !.e = Top.p, !.k = TRUE],
                           [Top EXCEPT !.fn = "onSendHook"],
                           [Top EXCEPT !.fn = "onErrorHook", !.k = FALSE],
                           [Top EXCEPT !.fn = "onSendHook", !.p = IF @ = None THEN None ELSE "string"],
                           [Top EXCEPT !.fn = "onSendEnd"],
                           [Top EXCEPT !.fn = "writeHead"],
                           [Top EXCEPT !.fn = "handleError"],
                           [Top EXCEPT !.fn = "onSendHook", !.p = "string", !.e = None],
                           [Top EXCEPT !.fn = "writeHead", !.p = "string", !.e = None],
                           [Top EXCEPT !.fn = "send", !.p = "string"]}
    BY <1>2
    DEF SendError, SendAsIs, PreserializationFailed, Serialized, OnSendFailed, OnSendPassed,
        OnSendEnd, OnErrorHookSkipped, ErrorToOnSend, ErrorWritten, NotFoundInside404
  <2>3. g.fn # "user"
    BY <2>1, <2>2 DEF Frame, FrameOf
  <2> QED BY <2>2, <2>3, NoCall
<1>3. CASE SendSerialized \/ OnSendHook \/ NotFound
  <2>1. Top \in Frame
    BY <1>3, TopIs DEF SendSerialized, OnSendHook, NotFound, Accepting
  <2>2. PICK k \in HookChains : Goto(StartChain(Top, k))
    BY <1>3 DEF SendSerialized, OnSendHook, NotFound, HookChains, PayloadChains, RequestChains
  <2>3. StartChain(Top, k).fn # "user"
    BY <2>1, NotUser
  <2> QED BY <2>2, <2>3, NoCall
<1>4. CASE OnErrorHookRuns
  <2>1. PICK t : t = [Top EXCEPT !.c = "onError", !.i = 0, !.p = Top.e]
    OBVIOUS
  <2>2. t \in Frame /\ t.c \in HookChains
    BY <1>4, <2>1, TopIs
    DEF OnErrorHookRuns, Running, Frame, FrameOf, UserFns, HookChains, PayloadChains
  <2>3. NextOf(t, None, None).fn # "user" /\ Goto(NextOf(t, None, None))
    BY <1>4, <2>1, <2>2, NotUser DEF OnErrorHookRuns
  <2> QED BY <2>3, NoCall
<1>5. CASE ErrorHandlerCalled
  <2>1. stack # <<>> /\ Top \in Frame
    BY <1>5, TopIs DEF ErrorHandlerCalled
  <2>2. PICK t : t = [Top EXCEPT !.p = Top.e, !.e = None]
    OBVIOUS
  <2>3. t \in Frame
    BY <1>5, <2>1, <2>2 DEF ErrorHandlerCalled, Running, Frame, FrameOf, None, Payload
  <2>4. CASE CustomErrorHandler
    <3>1. PICK s : Goto(User(t, "errorHandler", 0, s))
      BY <1>5, <2>2, <2>4 DEF ErrorHandlerCalled
    <3>2. User(t, "errorHandler", 0, s).c = "errorHandler"
      BY <2>3 DEF User, Frame, FrameOf
    <3> QED BY <2>1, <3>1, <3>2, CalledIs DEF RequestPhase, RequestChains
  <2>5. CASE ~CustomErrorHandler
    <3>1. PICK g : g = [Top EXCEPT !.fn = "send", !.p = Top.e, !.e = None]
      OBVIOUS
    <3>2. g.fn # "user" /\ Goto(g)
      BY <1>5, <2>1, <2>5, <3>1 DEF ErrorHandlerCalled, Frame, FrameOf
    <3> QED BY <3>2, NoCall
  <2> QED BY <2>4, <2>5
<1> QED BY <1>1, <1>2, <1>3, <1>4, <1>5 DEF ReplySteps

LEMMA UserStepsCall ==
  ASSUME UserSteps, NEW c
  PROVE  ~CallsUser(c)
<1>1. Top.fn = "user"
  BY DEF UserSteps, UserCallsNext, UserFails, UserThrows, UserSends, UserCallsNotFound, UserHijacks,
     UserMarksSent, UserSetsNoContent, HandlerReturnsValue, UserDefers, UserAwaits, UserReturns,
     HookResolves, ParserResolves, HandlerResolves, UserAwaitsReply, UserRejects, HookThrew,
     HandlerThrew, AsyncUserThrew, UserThrewUncaught, May, Running, Unwinding
<1> QED BY <1>1 DEF CallsUser

LEMMA LifecycleStepsCall ==
  ASSUME TypeOK, LifecycleSteps, ~RequestCalls, NEW c
  PROVE  ~CallsUser(c)
<1>1. CASE \/ CallbackDropped \/ HandleRawBody \/ Handler \/ HandlerTryReturns \/ FulfilledSends
           \/ FulfilledIgnored \/ RejectedIgnored
  BY <1>1, NoCall
  DEF CallbackDropped, HandleRawBody, Handler, HandlerTryReturns, FulfilledSends,
      FulfilledIgnored, RejectedIgnored
<1>2. CASE \/ CallbackFails \/ HandleWithoutBody \/ HandleRefused \/ HandleBadMethod
           \/ BodyDoneFails \/ BodyDoneHandles \/ HandlerTryThrew \/ ThenTryThrew \/ RejectedSends
  <2>1. Top \in Frame
    BY <1>2, TopIs
    DEF CallbackFails, HandleWithoutBody, HandleRefused, HandleBadMethod, BodyDoneFails,
        BodyDoneHandles, HandlerTryThrew, ThenTryThrew, RejectedSends, Handling, Running, Unwinding
  <2>2. PICK g : /\ Goto(g) \/ Catch(g)
                 /\ g \in {[Top EXCEPT !.fn = "send", !.p = Top.e],
                           [Top EXCEPT !.fn = "handler"],
                           [Top EXCEPT !.fn = "send", !.p = "Error"],
                           [Top EXCEPT !.fn = "preValidationCallback", !.e = exc],
                           [Top EXCEPT !.fn = "send", !.p = exc, !.e = None],
                           [Top EXCEPT !.fn = "send", !.e = None]}
    BY <1>2
    DEF CallbackFails, HandleWithoutBody, HandleRefused, HandleBadMethod, BodyDoneFails,
        BodyDoneHandles, HandlerTryThrew, ThenTryThrew, RejectedSends
  <2>3. g.fn # "user"
    BY <2>1, <2>2 DEF Frame, FrameOf
  <2> QED BY <2>2, <2>3, NoCall
<1>3. CASE RouteHandler \/ RunPreParsing \/ PreValidationCallback
  <2>1. Top \in Frame
    BY <1>3, TopIs DEF RouteHandler, RunPreParsing, PreValidationCallback
  <2>2. \/ \E k \in HookChains : Goto(StartChain(Top, k))
        \/ Goto([Top EXCEPT !.fn = "send", !.p = "Error"])
    BY <1>3 DEF RouteHandler, RunPreParsing, PreValidationCallback, HookChains, RequestChains
  <2>3. [Top EXCEPT !.fn = "send", !.p = "Error"].fn = "send"
    BY <2>1 DEF Frame, FrameOf
  <2> QED BY <2>1, <2>2, <2>3, NotUser, NoCall
<1> QED BY <1>1, <1>2, <1>3 DEF LifecycleSteps, RequestCalls

LEMMA PlatformStepsCall ==
  ASSUME TypeOK, PlatformSteps \/ Mishap \/ UNCHANGED vars, NEW c
  PROVE  ~CallsUser(c)
<1>1. CASE \/ RunPromiseJob \/ UserGoesOn \/ RawEnd \/ RawBodyDone \/ RawBodyBroken \/ StreamEnd
           \/ StreamErrorAfterHead \/ StreamErrorBeforeHead \/ AwaitedReplyOver
  BY <1>1, NoCall
  DEF RunPromiseJob, UserGoesOn, RawEnd, RawBodyDone, RawBodyBroken, StreamEnd,
      StreamErrorAfterHead, StreamErrorBeforeHead, AwaitedReplyOver
<1>2. CASE StreamData \/ ProcessLost \/ ClientAborts \/ UNCHANGED vars
  BY <1>2, NoCall DEF StreamData, ProcessLost, Escapes, ClientAborts, vars, loop
<1>3. CASE ResFinish \/ ResError
  BY <1>3, NoCall DEF ResFinish, ResError, OnResFinished, loop
<1> QED BY <1>1, <1>2, <1>3 DEF PlatformSteps, Mishap

LEMMA OnlyRequestCalls ==
  ASSUME TypeOK, PayloadRuns, [Next]_vars, NEW c \in RequestPhase, CallsUser(c)
  PROVE  RequestCalls /\ (HookCalled => Top.c = c)
<1>1. RequestCalls
  BY HookStepsCall, ReplyStepsCall, UserStepsCall, LifecycleStepsCall, PlatformStepsCall
  DEF Next, Progress, Stutter
<1>2. ASSUME HookCalled PROVE Top.c = c
  <2>1. stack # <<>> /\ Top \in Frame
    BY <1>2, TopIs DEF HookCalled
  <2>2. PICK s : Goto(User(Top, Top.c, Top.i + 1, s))
    BY <1>2 DEF HookCalled
  <2>3. User(Top, Top.c, Top.i + 1, s).c = Top.c
    BY <2>1 DEF User, Frame, FrameOf
  <2> QED BY <2>1, <2>2, <2>3, CalledIs
<1> QED BY <1>1, <1>2

(* The functions of the request phase are called only before the reply is  *)
(* sent: every callback and every runner looks at reply.sent first.        *)
LEMMA CalledBeforeSent ==
  ASSUME TypeOK, Lock, [Next]_vars, NEW c \in RequestPhase, CallsUser(c)
  PROVE  ~reply.sent /\ stack # <<>> /\ Top.fn # "send"
<1>1. RequestCalls /\ (HookCalled => Top.c = c)
  <2>1. PayloadRuns
    BY Runs DEF PayloadRuns, Fits
  <2> QED BY <2>1, OnlyRequestCalls
<1>2. CASE PreParsingCalled \/ HandleCustomParser \/ PreHandlerCallback
  BY <1>2 DEF PreParsingCalled, HandleCustomParser, PreHandlerCallback, Handling, Running
<1>3. CASE HookCalled
  <2>1. stack # <<>> /\ Top.fn = "hookNext" /\ (Top.c = "onResponse" \/ ~reply.sent)
    BY <1>3, Runs DEF HookCalled
  <2>2. Top.c # "onResponse"
    BY <1>1, <1>3 DEF RequestPhase, RequestChains
  <2> QED BY <2>1, <2>2
<1> QED BY <1>1, <1>2, <1>3 DEF RequestCalls

(* Once user code took the response over, whatever it or the request does  *)
(* later: nothing is written, and no function of the request phase is      *)
(* called (reply.hijack and the setter of reply.sent, docs/Reply.md).      *)
THEOREM HijackIsFinal ==
  ASSUME SyncSerialization
  PROVE  Spec /\ NotFoundInTime => HijackHolds
<1>0. (Lock /\ TakenAway => ~Running("writeHead"))'
  <2>1. Lock /\ TakenAway => ~Running("writeHead")
    BY AwayIsLocked
  <2> QED BY <2>1, PTL
<1>1. ASSUME TypeOK, TypeOK', Lock, Lock', Hijacked, [Next]_vars
      PROVE  did.hijacked => ~Running("writeHead")' /\ \A c \in RequestPhase : ~CallsUser(c)
  <2> SUFFICES ASSUME did.hijacked
               PROVE  ~Running("writeHead")' /\ \A c \in RequestPhase : ~CallsUser(c)
    OBVIOUS
  <2>1. TakenAway /\ TakenAway'
    BY <1>1, HijackedStep DEF Hijacked
  <2>3. stack # <<>> => reply.sent \/ Top.fn = "send"
    BY <1>1, <2>1, AwayIsLocked
  <2> QED BY <1>0, <1>1, <2>1, <2>3, CalledBeforeSent
<1>2. Init => Hijacked
  BY DEF Init, ExchangeInit, Hijacked
<1>3. Hijacked /\ TypeOK /\ TypeOK' /\ [Next]_vars => Hijacked'
  BY HijackedStep
<1>4. TypeOK /\ TypeOK' /\ Lock /\ Lock' /\ Hijacked /\ [Next]_vars =>
        [did.hijacked => ~Running("writeHead")' /\ \A c \in RequestPhase : ~CallsUser(c)]_vars
  BY <1>1
<1> QED BY <1>2, <1>3, <1>4, AlwaysLocked, TypeCorrect, PTL DEF Spec, HijackHolds

-----------------------------------------------------------------------------
(* Every frame there is, of the running turn and of those to come, is in S. *)
FramesIn(S) == stack \in Seq(S) /\ ready \in Seq(S) /\ jobs \subseteq S

(* What the moves of EventLoop leave in a set of frames, when what they    *)
(* add is in it.                                                           *)
LEMMA FramesMove ==
  ASSUME TypeOK', NEW S, S \subseteq Frame, FramesIn(S), stack # <<>>,
         NEW g, g \in Frame => g \in S, NEW h, h \in Frame => h \in S, NEW v,
         \/ Goto(g) \/ Call(h, g) \/ Return \/ Pass \/ Leave(g) \/ Settle(g) \/ LeaveAndGo(h, g)
         \/ Throw(v) \/ Catch(g) \/ CatchSettling(g)
  PROVE  FramesIn(S)'
<1>1. Tail(stack) \in Seq(S) /\ Tail(stack) \in Seq(Frame)
  BY DEF FramesIn
<1>2. CASE Goto(g) \/ Catch(g) \/ LeaveAndGo(h, g)
  <2>1. stack' = <<g>> \o Tail(stack)
    BY <1>2 DEF Goto, Catch, LeaveAndGo
  <2>2. g \in S
    <3>1. Head(stack') = g /\ stack' # <<>>
      BY <1>1, <2>1, OnTop
    <3> QED BY <3>1 DEF TypeOK, LoopTypeOK
  <2>3. stack' \in Seq(S)
    BY <1>1, <2>1, <2>2
  <2>4. jobs' \subseteq S
    BY <1>2 DEF FramesIn, Goto, Catch, LeaveAndGo, TypeOK, LoopTypeOK
  <2> QED BY <1>2, <2>3, <2>4 DEF FramesIn, Goto, Catch, LeaveAndGo
<1>3. CASE Call(h, g)
  <2>1. stack' = <<g, h>> \o Tail(stack)
    BY <1>3 DEF Call
  <2>2. g \in S /\ h \in S
    <3>1. <<g, h>> \o Tail(stack) \in Seq(Frame)
      BY <2>1 DEF TypeOK, LoopTypeOK
    <3> QED BY <1>1, <3>1, TwoOnTop
  <2>3. stack' \in Seq(S)
    BY <1>1, <2>1, <2>2
  <2> QED BY <1>3, <2>3 DEF FramesIn, Call
<1>4. CASE Return \/ Pass \/ Throw(v)
  BY <1>1, <1>4 DEF FramesIn, Return, Pass, Throw
<1>5. CASE Leave(g)
  <2>1. g \in S
    BY <1>5 DEF Leave, TypeOK, LoopTypeOK
  <2> QED BY <1>1, <1>5, <2>1 DEF FramesIn, Leave
<1>6. CASE Settle(g) \/ CatchSettling(g)
  <2>1. ready' = Append(ready, g) /\ stack' = Tail(stack) /\ jobs' = jobs
    BY <1>6 DEF Settle, CatchSettling
  <2>2. g \in S
    <3>1. ready \in Seq(Frame) /\ Append(ready, g) \in Seq(Frame)
      BY <2>1 DEF FramesIn, TypeOK, LoopTypeOK
    <3>2. Append(ready, g)[Len(ready) + 1] = g /\ Len(Append(ready, g)) = Len(ready) + 1 /\ Len(ready) \in Nat
      BY <3>1
    <3> QED BY <3>1, <3>2
  <2> QED BY <1>1, <2>1, <2>2 DEF FramesIn
<1> QED BY <1>2, <1>3, <1>4, <1>5, <1>6

LEMMA FramesTurn ==
  ASSUME TypeOK', NEW S, S \subseteq Frame, FramesIn(S), NEW g, g \in Frame => g \in S, NEW y, NEW k,
         \/ RunReady \/ StartTurn(k, y, g) \/ DropJob(y) \/ SettleJob(y, g) \/ StartEvent(g) \/ Escapes
         \/ UNCHANGED <<stack, ready, jobs>>
  PROVE  FramesIn(S)'
<1>1. CASE RunReady
  <2>1. Head(ready) \in S /\ Tail(ready) \in Seq(S)
    BY <1>1 DEF RunReady, FramesIn
  <2>2. <<Head(ready)>> \in Seq(S)
    BY <2>1
  <2> QED BY <1>1, <2>1, <2>2 DEF RunReady, FramesIn
<1>2. CASE StartTurn(k, y, g) \/ StartEvent(g)
  <2>1. stack' = <<g>> /\ jobs' \subseteq jobs /\ ready' = ready
    BY <1>2 DEF StartTurn, StartEvent
  <2>2. g \in S
    BY <2>1 DEF TypeOK, LoopTypeOK
  <2>3. <<g>> \in Seq(S)
    BY <2>2
  <2> QED BY <2>1, <2>3 DEF FramesIn
<1>3. CASE SettleJob(y, g)
  <2>1. ready' = Append(ready, g) /\ stack' = stack /\ jobs' \subseteq jobs
    BY <1>3 DEF SettleJob
  <2>2. g \in S
    <3>1. ready \in Seq(Frame) /\ Append(ready, g) \in Seq(Frame)
      BY <2>1 DEF FramesIn, TypeOK, LoopTypeOK
    <3>2. Append(ready, g)[Len(ready) + 1] = g /\ Len(Append(ready, g)) = Len(ready) + 1 /\ Len(ready) \in Nat
      BY <3>1
    <3> QED BY <3>1, <3>2
  <2> QED BY <2>1, <2>2 DEF FramesIn
<1>4. CASE DropJob(y) \/ Escapes \/ UNCHANGED <<stack, ready, jobs>>
  BY <1>4 DEF DropJob, Escapes, FramesIn
<1> QED BY <1>1, <1>2, <1>3, <1>4

-----------------------------------------------------------------------------
(***************************************************************************)
(* What is written has passed the onSend chain.  A route without           *)
(* preSerialization hooks: with one, an error object that cannot be        *)
(* serialized, or whose hooks fail, is written by handleError without the  *)
(* onSend hooks (preserializeHookEnd gives onErrorHook no callback).       *)
(***************************************************************************)

NoSerializationHooks == HookCount["preSerialization"] = 0

(* The frames there are before the first onSend hook is called: none is on *)
(* the way from an onSend chain to writeHead, and whoever handles an error *)
(* goes on to onSendHook (k).                                              *)
Early(t) ==
  /\ t.fn \notin {"wrapOnSendEnd", "onSendEnd", "writeHead", "pipe"}
  /\ t.fn = "preserializeHookEnd" => t.e = None
  /\ t.c = "preSerialization" => t.fn \notin RunnerFns \cup {"user", "awaitReply", "eos"}
  /\ t.c = "onSend" => t.fn = "sendNext" /\ t.i = 0 /\ t.e = None
  /\ t.fn \in {"onErrorHook", "handleError"} \/ t.c = "onError" => t.k
EarlyFrames == {t \in Frame : Early(t)}

AllEarly == FramesIn(EarlyFrames)
Unpassed == did.onSend = 0 => AllEarly

LEMMA EarlyTop ==
  ASSUME AllEarly, NEW fn, Running(fn) \/ Unwinding(fn)
  PROVE  stack # <<>> /\ Top \in Frame /\ Early(Top) /\ Top.fn = fn
BY DEF AllEarly, FramesIn, EarlyFrames, Running, Unwinding, Top

LEMMA EarlyJob ==
  ASSUME AllEarly, NEW y \in jobs
  PROVE  y \in Frame /\ Early(y)
BY DEF AllEarly, FramesIn, EarlyFrames

LEMMA EarlyMove ==
  ASSUME TypeOK', AllEarly, stack # <<>>, NEW g, Early(g), NEW h, Early(h), NEW v,
         \/ Goto(g) \/ Call(h, g) \/ Return \/ Pass \/ Leave(g) \/ Settle(g) \/ LeaveAndGo(h, g)
         \/ Throw(v) \/ Catch(g) \/ CatchSettling(g)
  PROVE  AllEarly'
<1>1. EarlyFrames \subseteq Frame /\ (g \in Frame => g \in EarlyFrames) /\ (h \in Frame => h \in EarlyFrames)
  BY DEF EarlyFrames
<1> QED BY <1>1, FramesMove DEF AllEarly

LEMMA EarlyTurn ==
  ASSUME TypeOK', AllEarly, NEW g, Early(g), NEW y, NEW k,
         \/ RunReady \/ StartTurn(k, y, g) \/ DropJob(y) \/ SettleJob(y, g) \/ StartEvent(g) \/ Escapes
         \/ UNCHANGED <<stack, ready, jobs>>
  PROVE  AllEarly'
<1>1. EarlyFrames \subseteq Frame /\ (g \in Frame => g \in EarlyFrames)
  BY DEF EarlyFrames
<1> QED BY <1>1, FramesTurn DEF AllEarly

(* The frames the code makes of an early one. *)
EarlyFns ==
  Fns \ (RunnerFns \cup {"user", "awaitReply", "eos", "wrapOnSendEnd", "onSendEnd", "writeHead", "pipe",
                         "preserializeHookEnd", "onErrorHook", "handleError"})
LEMMA EarlyFrame ==
  ASSUME NEW t, Early(t), t.fn # "sendNext", NEW g, g.c = t.c, g.k = t.k, g.fn \in EarlyFns
  PROVE  Early(g)
BY DEF Early, EarlyFns

LEMMA EarlyPlain ==
  ASSUME NEW g, g.c = "none", g.fn \in EarlyFns
  PROVE  Early(g)
BY DEF Early, EarlyFns

OtherFns == UserFns \ {"preSerialization", "onSend"}
LEMMA EarlyFor ==
  ASSUME NEW t \in Frame, Early(t), t.fn \in RunnerFns \cup {"user", "awaitReply", "eos"}, t.c # "onSend"
  PROVE  t.c \in OtherFns /\ (t.c = "onError" => t.k)
BY DEF Early, Frame, OtherFns, UserFns

LEMMA EarlyMadeFor ==
  ASSUME NEW g, g.c \in OtherFns, g.c = "onError" => g.k,
         g.fn \in EarlyFns \cup RunnerFns \cup {"user", "awaitReply", "eos"} \/ (g.fn = "handleError" /\ g.k)
  PROVE  Early(g)
BY DEF Early, EarlyFns, OtherFns, RunnerFns

LEMMA EarlyUser ==
  ASSUME NEW t \in Frame, NEW c \in OtherFns, c = "onError" => t.k, NEW i, NEW s
  PROVE  Early(User(t, c, i, s))
<1>1. User(t, c, i, s).fn = "user" /\ User(t, c, i, s).c = c /\ User(t, c, i, s).k = t.k
  BY DEF User, Frame, FrameOf
<1> QED BY <1>1, EarlyMadeFor

LEMMA EarlyCallback ==
  ASSUME NEW t \in Frame, t.c \in OtherFns \cap HookChains, t.c = "onError" => t.k, NEW err
  PROVE  Early(Callback(t, err))
<1>1. PICK g : g = Callback(t, err)
  OBVIOUS
<1>2. g.fn = CallbackOf[t.c] /\ g.c = t.c /\ g.k = t.k
  BY <1>1 DEF Callback, Frame, FrameOf
<1>3. CallbackOf[t.c] \in EarlyFns \/ (CallbackOf[t.c] = "handleError" /\ t.c = "onError")
  BY DEF CallbackOf, EarlyFns, Fns, OtherFns, HookChains, RequestChains, PayloadChains, RunnerFns
<1> QED BY <1>1, <1>2, <1>3, EarlyMadeFor

LEMMA EarlyNext ==
  ASSUME NEW t \in Frame, t.c \in OtherFns, t.c = "onError" => t.k, NEW err, NEW new
  PROVE  Early(NextOf(t, err, new))
<1>1. PICK g : g = NextOf(t, err, new)
  OBVIOUS
<1>2. g.fn \in RunnerFns /\ g.c = t.c /\ g.k = t.k
  BY <1>1 DEF NextOf, Frame, FrameOf, RunnerFns
<1> QED BY <1>1, <1>2, EarlyMadeFor

LEMMA EarlyStart ==
  ASSUME NEW t \in Frame, NEW c \in HookChains \ {"onError"},
         c = "preSerialization" => HookCount[c] = 0, c = "onSend" => HookCount[c] # 0
  PROVE  Early(StartChain(t, c))
<1>1. PICK s : s = [t EXCEPT !.c = c, !.i = 0, !.e = None]
  OBVIOUS
<1>3. s.c = c /\ s.i = 0 /\ s.e = None /\ s.k = t.k
  BY <1>1 DEF Frame, FrameOf
<1>4. CASE HookCount[c] = 0
  <2>1. PICK g : g = Callback(s, None)
    OBVIOUS
  <2>2. g.fn = CallbackOf[c] /\ g.c = c /\ g.e = None
    BY <1>1, <1>3, <2>1 DEF Callback, Frame, FrameOf
  <2>3. Early(g)
    BY <1>4, <2>2 DEF CallbackOf, Early, HookChains, RequestChains, PayloadChains, RunnerFns
  <2> QED BY <1>1, <1>4, <2>1, <2>3 DEF StartChain
<1>5. CASE HookCount[c] # 0
  <2>1. PICK g : g = NextOf(s, None, None)
    OBVIOUS
  <2>2. /\ g.fn = CASE c \in PayloadChains -> "sendNext" [] c = "preParsing" -> "preParsingNext"
                    [] OTHER -> "hookNext"
        /\ g.c = c /\ g.e = None /\ g.i = 0
    BY <1>1, <1>3, <2>1 DEF NextOf, Frame, FrameOf
  <2>3. Early(g)
    BY <1>5, <2>2 DEF Early, PayloadChains, RunnerFns
  <2> QED BY <1>1, <1>5, <2>1, <2>3 DEF StartChain
<1> QED BY <1>4, <1>5

(* What user functions and their promises go on with.                      *)
LEMMA EarlySettles ==
  ASSUME NEW t \in Frame, t.c \in OtherFns, t.c = "onError" => t.k
  PROVE  /\ Early(Fulfilment(t))
         /\ \A err, new : Early(Completion(t, err, new))
         /\ \A err : Early(Rejection(t, err))
         /\ \A err : Early(BodyDone(t, err))
         /\ \A fn \in {"fulfilled", "rejected"} : \A v : Early(Thenable(t, fn, v))
<1>1. ASSUME NEW err PROVE Early(BodyDone(t, err))
  <2>1. PICK g : g = BodyDone(t, err)
    OBVIOUS
  <2>2. g.fn = "bodyDone" /\ g.c = t.c /\ g.k = t.k
    BY <2>1 DEF BodyDone, Frame, FrameOf
  <2>3. g.fn \in EarlyFns
    BY <2>2 DEF EarlyFns, Fns, RunnerFns
  <2> QED BY <2>1, <2>2, <2>3, EarlyMadeFor
<1>2. ASSUME NEW fn \in {"fulfilled", "rejected"}, NEW v PROVE Early(Thenable(t, fn, v))
  <2>1. PICK g : g = Thenable(t, fn, v)
    OBVIOUS
  <2>2. g.fn = fn /\ g.c = t.c /\ g.k = t.k
    BY <2>1 DEF Thenable, Frame, FrameOf
  <2>3. g.fn \in EarlyFns
    BY <2>2 DEF EarlyFns, Fns, RunnerFns
  <2> QED BY <2>1, <2>2, <2>3, EarlyMadeFor
<1>3. ASSUME NEW err, NEW new PROVE Early(Completion(t, err, new)) /\ Early(NextOf(t, err, new))
  BY <1>1, EarlyNext DEF Completion
<1>4. Early(Fulfilment(t))
  BY <1>2, <1>3 DEF Fulfilment
<1>5. ASSUME NEW err PROVE Early(Rejection(t, err))
  <2>1. CASE t.c \in {"handler", "errorHandler"}
    BY <1>2, <2>1 DEF Rejection, PayloadChains
  <2>2. CASE t.c = "parser"
    BY <1>1, <2>2 DEF Rejection, PayloadChains
  <2>3. CASE t.c = "preParsing"
    BY <1>3, <2>3 DEF Rejection, PayloadChains
  <2>4. CASE t.c \in PayloadChains
    BY <2>4, EarlyCallback DEF Rejection, PayloadChains, HookChains
  <2>5. CASE t.c \notin {"handler", "errorHandler", "parser", "preParsing"} \cup PayloadChains
    <3>1. PICK g : g = [t EXCEPT !.fn = "handleReject", !.e = err, !.m = "sync", !.done = FALSE]
      OBVIOUS
    <3>2. g.fn = "handleReject" /\ g.c = t.c /\ g.k = t.k
      BY <3>1 DEF Frame, FrameOf
    <3>3. Early(g) /\ Rejection(t, err) = g
      BY <2>5, <3>1, <3>2, EarlyMadeFor DEF RunnerFns, Rejection
    <3> QED BY <3>3
  <2> QED BY <2>1, <2>2, <2>3, <2>4, <2>5
<1> QED BY <1>1, <1>2, <1>3, <1>4, <1>5

LEMMA PlainStart == Early(StartChain(Plain("hookNext"), "onResponse"))
<1>1. PICK s : s = [Plain("hookNext") EXCEPT !.c = "onResponse", !.i = 0, !.e = None]
  OBVIOUS
<1>2. s.c = "onResponse"
  BY <1>1 DEF Plain
<1>3. PICK g \in {Callback(s, None), NextOf(s, None, None)} : g = StartChain(Plain("hookNext"), "onResponse")
  BY <1>1 DEF StartChain
<1>4. g.fn \in {"onResponseCallback", "hookNext"} /\ g.c = "onResponse"
  BY <1>1, <1>2, <1>3 DEF Callback, NextOf, CallbackOf, Plain, PayloadChains
<1>5. "onResponse" \in OtherFns /\ "onResponseCallback" \in EarlyFns
  BY DEF OtherFns, UserFns, HookChains, EarlyFns, Fns, RunnerFns
<1> QED BY <1>3, <1>4, <1>5, EarlyMadeFor DEF RunnerFns

-----------------------------------------------------------------------------
(* Every step makes early frames of early ones, until the first onSend     *)
(* hook is called.                                                         *)

LEMMA HookStepsEarly ==
  ASSUME TypeOK, TypeOK', AllEarly, HookSteps, HookCount["onSend"] # 0
  PROVE  AllEarly' \/ did'.onSend = did.onSend + 1
<1>0. stack # <<>> /\ Top \in Frame /\ Early(Top) /\ Top.fn \in RunnerFns
  BY EarlyTop DEF HookSteps, HookRunnerEnds, HookDropped, HookCalled, HookRejected, PreParsingDropped,
     PreParsingEnds, PreParsingCalled, PayloadRunnerFails, PayloadRunnerEnds, PayloadHookCalled,
     PayloadCallbackThrew, PayloadCallbackReturns, RunnerFns
<1>1. CASE Top.c = "onSend"
  <2>1. PayloadHookCalled
    BY <1>0, <1>1 DEF Early, HookSteps, HookRunnerEnds, HookDropped, HookCalled, HookRejected, PreParsingDropped,
     PreParsingEnds, PreParsingCalled, PayloadRunnerFails, PayloadRunnerEnds, PayloadHookCalled,
     PayloadCallbackThrew, PayloadCallbackReturns, Running, Unwinding
  <2>2. Top.i = 0
    BY <1>0, <1>1 DEF Early
  <2> QED BY <1>1, <2>1, <2>2 DEF PayloadHookCalled, TypeOK, RequestTypeOK, DidType
<1>2. CASE Top.c # "onSend"
  <2>1. Top.c \in OtherFns \cap HookChains /\ (Top.c = "onError" => Top.k)
    BY <1>0, <1>2, EarlyFor DEF Frame
  <2>2. \A e : Early(Callback(Top, e))
    BY <1>0, <2>1, EarlyCallback
  <2>3. \A i, s : Early(User(Top, Top.c, i, s))
    BY <1>0, <2>1, EarlyUser
  <2>4. CASE HookDropped \/ PreParsingDropped \/ PayloadCallbackReturns
    BY <1>0, <2>4, EarlyMove DEF HookDropped, PreParsingDropped, PayloadCallbackReturns
  <2>5. CASE HookRunnerEnds \/ HookRejected \/ PreParsingEnds \/ PayloadRunnerFails \/ PayloadCallbackThrew
    <3>1. PICK e : Goto(Callback(Top, e)) \/ Catch(Callback(Top, e))
      BY <2>5 DEF HookRunnerEnds, HookRejected, PreParsingEnds, PayloadRunnerFails, PayloadCallbackThrew
    <3> QED BY <1>0, <2>2, <3>1, EarlyMove
  <2>6. CASE HookCalled \/ PreParsingCalled \/ PayloadHookCalled
    <3>1. PICK i, s : Goto(User(Top, Top.c, i, s))
      BY <2>6 DEF HookCalled, PreParsingCalled, PayloadHookCalled
    <3> QED BY <1>0, <2>3, <3>1, EarlyMove
  <2>7. CASE PayloadRunnerEnds
    <3>1. PICK h : h = [Top EXCEPT !.fn = "cbTry"]
      OBVIOUS
    <3>2. h.fn = "cbTry" /\ h.c = Top.c /\ h.k = Top.k
      BY <1>0, <3>1 DEF Frame, FrameOf
    <3>3. Early(h)
      BY <2>1, <3>2, EarlyMadeFor DEF RunnerFns
    <3>4. Call(h, Callback(Top, None))
      BY <2>7, <3>1 DEF PayloadRunnerEnds
    <3> QED BY <1>0, <2>2, <3>3, <3>4, EarlyMove
  <2> QED BY <2>4, <2>5, <2>6, <2>7 DEF HookSteps
<1> QED BY <1>1, <1>2

LEMMA ReplyStepsEarly ==
  ASSUME TypeOK, TypeOK', AllEarly, ReplySteps, HookCount["onSend"] # 0, NoSerializationHooks
  PROVE  AllEarly'
<1>1. CASE SendInsideOnError \/ SendAgain \/ SerializerThrows \/ OnResponseCallback
  <2>1. stack # <<>> /\ Early(Top)
    BY <1>1, EarlyTop DEF SendInsideOnError, SendAgain, SerializerThrows, OnResponseCallback
  <2> QED BY <1>1, <2>1, EarlyMove DEF SendInsideOnError, SendAgain, SerializerThrows, OnResponseCallback
<1>2. CASE \/ PreserializationFailed \/ OnSendFailed \/ OnSendPassed \/ OnSendEndRejects \/ OnSendEnd
           \/ SendStream \/ WriteHead \/ ErrorWritten
  BY <1>2, EarlyTop
  DEF Early, PreserializationFailed, OnSendFailed, OnSendPassed, OnSendEndRejects, OnSendEnd,
      SendStream, WriteHead, ErrorWritten
<1>3. CASE SendSerialized \/ OnSendHook \/ NotFound
  <2>1. stack # <<>> /\ Top \in Frame
    BY <1>3, EarlyTop DEF SendSerialized, OnSendHook, NotFound, Accepting
  <2>2. PICK c \in {"preSerialization", "onSend", "preHandler"} : Goto(StartChain(Top, c))
    BY <1>3 DEF SendSerialized, OnSendHook, NotFound
  <2>3. Early(StartChain(Top, c))
    BY <2>1, <2>2, EarlyStart DEF NoSerializationHooks, HookChains, PayloadChains, RequestChains
  <2> QED BY <2>1, <2>2, <2>3, EarlyMove
<1>4. CASE SendError
  <2>1. stack # <<>> /\ Top \in Frame /\ Early(Top) /\ Top.fn = "send"
    BY <1>4, EarlyTop DEF SendError, Accepting
  <2>2. PICK g : g = [Top EXCEPT !.fn = "onErrorHook", !.e = Top.p, !.k = TRUE]
    OBVIOUS
  <2>3. g.fn = "onErrorHook" /\ g.c = Top.c /\ g.k /\ Goto(g)
    BY <1>4, <2>1, <2>2 DEF SendError, Frame, FrameOf
  <2>4. Early(g)
    BY <2>1, <2>3 DEF Early, RunnerFns
  <2> QED BY <2>1, <2>3, <2>4, EarlyMove
<1>5. CASE OnErrorHookSkipped
  <2>1. stack # <<>> /\ Top \in Frame /\ Early(Top) /\ Top.fn = "onErrorHook"
    BY <1>5, EarlyTop DEF OnErrorHookSkipped
  <2>2. PICK g : g = [Top EXCEPT !.fn = "handleError"]
    OBVIOUS
  <2>3. g.fn = "handleError" /\ g.c = Top.c /\ g.k = Top.k /\ Goto(g)
    BY <1>5, <2>1, <2>2 DEF OnErrorHookSkipped, Frame, FrameOf
  <2>4. Early(g)
    BY <2>1, <2>3 DEF Early, RunnerFns
  <2> QED BY <2>1, <2>3, <2>4, EarlyMove
<1>6. CASE OnErrorHookRuns
  <2>1. stack # <<>> /\ Top \in Frame /\ Early(Top) /\ Top.fn = "onErrorHook"
    BY <1>6, EarlyTop DEF OnErrorHookRuns
  <2>2. PICK t : t = [Top EXCEPT !.c = "onError", !.i = 0, !.p = Top.e]
    OBVIOUS
  <2>3. t \in Frame /\ t.c = "onError" /\ t.k = Top.k
    BY <2>1, <2>2 DEF Frame, FrameOf, UserFns, HookChains, PayloadChains, RunnerFns
  <2>4. Top.k /\ Goto(NextOf(t, None, None))
    BY <1>6, <2>1, <2>2 DEF OnErrorHookRuns, Early
  <2>5. Early(NextOf(t, None, None))
    BY <2>3, <2>4, EarlyNext DEF OtherFns, UserFns, HookChains, PayloadChains
  <2> QED BY <2>1, <2>4, <2>5, EarlyMove
<1>7. CASE SendAsIs \/ Serialized \/ ErrorToOnSend \/ NotFoundInside404
  <2>1. stack # <<>> /\ Top \in Frame /\ Early(Top) /\ Top.fn # "sendNext"
    BY <1>7, EarlyTop DEF SendAsIs, Serialized, ErrorToOnSend, NotFoundInside404, Accepting
  <2>2. PICK g : /\ Goto(g)
                 /\ g \in {[Top EXCEPT !.fn = "onSendHook"],
                           [Top EXCEPT !.fn = "onSendHook", !.p = IF @ = None THEN None ELSE "string"],
                           [Top EXCEPT !.fn = "onSendHook", !.p = "string", !.e = None],
                           [Top EXCEPT !.fn = "send", !.p = "string"]}
    BY <1>7 DEF SendAsIs, Serialized, ErrorToOnSend, NotFoundInside404
  <2>3. g.fn \in {"onSendHook", "send"} /\ g.c = Top.c /\ g.k = Top.k
    BY <2>1, <2>2 DEF Frame, FrameOf
  <2>4. Early(g)
    BY <2>1, <2>3, EarlyFrame DEF EarlyFns, Fns, RunnerFns
  <2> QED BY <2>1, <2>2, <2>4, EarlyMove
<1>8. CASE ErrorHandlerCalled
  <2>1. stack # <<>> /\ Top \in Frame /\ Early(Top) /\ Top.fn = "handleError"
    BY <1>8, EarlyTop DEF ErrorHandlerCalled
  <2>2. PICK t : t = [Top EXCEPT !.p = Top.e, !.e = None]
    OBVIOUS
  <2>3. PICK g : g = [Top EXCEPT !.fn = "send", !.p = Top.e, !.e = None]
    OBVIOUS
  <2>4. t \in Frame
    BY <2>1, <2>2 DEF Frame, FrameOf, Payload
  <2>5. g.fn = "send" /\ g.c = Top.c /\ g.k = Top.k
    BY <2>1, <2>3 DEF Frame, FrameOf
  <2>6. Early(g) /\ \A s : Early(User(t, "errorHandler", 0, s))
    BY <2>1, <2>4, <2>5, EarlyFrame, EarlyUser DEF EarlyFns, Fns, RunnerFns, OtherFns, UserFns
  <2>7. Goto(g) \/ \E s : Goto(User(t, "errorHandler", 0, s))
    BY <1>8, <2>2, <2>3 DEF ErrorHandlerCalled
  <2> QED BY <2>1, <2>6, <2>7, EarlyMove
<1>9. CASE AwaitedReplySent \/ AwaitedReplyPending
  <2>1. stack # <<>> /\ Top \in Frame /\ Early(Top) /\ Top.fn = "awaitReply"
    BY <1>9, EarlyTop DEF AwaitedReplySent, AwaitedReplyPending
  <2>2. Top.c \in OtherFns /\ (Top.c = "onError" => Top.k)
    BY <2>1, EarlyFor DEF Early
  <2>3. PICK g : g = [Top EXCEPT !.fn = "eos"]
    OBVIOUS
  <2>4. g.fn = "eos" /\ g.c = Top.c /\ g.k = Top.k
    BY <2>1, <2>3 DEF Frame, FrameOf
  <2>5. Early(g) /\ Early(Fulfilment(Top))
    BY <2>1, <2>2, <2>4, EarlyMadeFor, EarlySettles
  <2>6. Leave(g) \/ Settle(Fulfilment(Top))
    BY <1>9, <2>3 DEF AwaitedReplySent, AwaitedReplyPending
  <2> QED BY <2>1, <2>5, <2>6, EarlyMove
<1> QED BY <1>1, <1>2, <1>3, <1>4, <1>5, <1>6, <1>7, <1>8, <1>9 DEF ReplySteps

LEMMA UserStepsEarly ==
  ASSUME TypeOK, TypeOK', AllEarly, UserSteps
  PROVE  AllEarly'
<1>1. stack # <<>> /\ Top \in Frame /\ Early(Top) /\ Top.fn = "user"
  BY EarlyTop
  DEF UserSteps, UserCallsNext, UserFails, UserThrows, UserSends, UserCallsNotFound, UserHijacks,
      UserMarksSent, UserSetsNoContent, HandlerReturnsValue, UserDefers, UserAwaits, UserReturns,
      HookResolves, ParserResolves, HandlerResolves, UserAwaitsReply, UserRejects, HookThrew,
      HandlerThrew, AsyncUserThrew, UserThrewUncaught, May
<1>2. Top.c \in OtherFns /\ (Top.c = "onError" => Top.k)
  BY <1>1, EarlyFor DEF Early
<1>3. Early(Finished(Top))
  <2>1. PICK g : g = Finished(Top)
    OBVIOUS
  <2>2. g.fn = "user" /\ g.c = Top.c /\ g.k = Top.k
    BY <1>1, <2>1 DEF Finished, Frame, FrameOf
  <2> QED BY <1>2, <2>1, <2>2, EarlyMadeFor
<1>4. CASE UserReturns \/ UserThrewUncaught
  BY <1>1, <1>4, EarlyMove DEF UserReturns, UserThrewUncaught
<1>5. CASE UserThrows \/ UserSetsNoContent
  <2>1. UNCHANGED <<stack, ready, jobs>>
    BY <1>5 DEF UserThrows, UserSetsNoContent, loop
  <2> QED BY <1>3, <2>1, EarlyTurn
<1>6. CASE UserCallsNext \/ UserFails
  <2>1. PICK err, new : Call(Finished(Top), Completion(Top, err, new))
    BY <1>6 DEF UserCallsNext, UserFails
  <2> QED BY <1>1, <1>2, <1>3, <2>1, EarlySettles, EarlyMove
<1>7. CASE UserSends \/ UserCallsNotFound \/ HandlerReturnsValue
  <2>1. ASSUME NEW fn \in {"send", "notFound"}, NEW p, NEW f, NEW g,
               g = [Plain(fn) EXCEPT !.p = p, !.f = f] \/ g = [Plain(fn) EXCEPT !.f = f]
        PROVE  Early(g)
    <3>1. g.fn = fn /\ g.c = "none"
      BY <2>1 DEF Plain
    <3> QED BY <3>1, EarlyPlain DEF EarlyFns, Fns, RunnerFns
  <2>2. CASE UserSends
    <3>1. PICK p : Call(Finished(Top), [Plain("send") EXCEPT !.p = p, !.f = did.sends + 1])
      BY <2>2 DEF UserSends
    <3> QED BY <1>1, <1>3, <2>1, <3>1, EarlyMove
  <2>3. CASE UserCallsNotFound
    <3>1. Call(Finished(Top), [Plain("notFound") EXCEPT !.f = did.sends + 1])
      BY <2>3 DEF UserCallsNotFound
    <3> QED BY <1>1, <1>3, <2>1, <3>1, EarlyMove
  <2>4. CASE HandlerReturnsValue
    <3>1. PICK p : Goto([Plain("send") EXCEPT !.p = p, !.f = MaxSends + 1])
      BY <2>4 DEF HandlerReturnsValue
    <3> QED BY <1>1, <1>3, <2>1, <3>1, EarlyMove
  <2> QED BY <1>7, <2>2, <2>3, <2>4
<1>8. CASE UserHijacks \/ UserMarksSent
  <2>1. PICK g : g = Plain("rawEnd")
    OBVIOUS
  <2>2. g.fn = "rawEnd" /\ g.c = "none" /\ LeaveAndGo(g, Finished(Top))
    BY <1>8, <2>1 DEF UserHijacks, UserMarksSent, Plain
  <2>3. Early(g)
    BY <2>2, EarlyPlain DEF EarlyFns, Fns, RunnerFns
  <2> QED BY <1>1, <1>3, <2>2, <2>3, EarlyMove
<1>9. CASE UserDefers \/ UserAwaits \/ UserAwaitsReply
  <2>1. PICK g : /\ Leave(g) \/ Settle(g)
                 /\ g \in {[Top EXCEPT !.m = "late"], [Top EXCEPT !.m = "resumed"],
                           [Top EXCEPT !.fn = "awaitReply"]}
    BY <1>9 DEF UserDefers, UserAwaits, UserAwaitsReply
  <2>2. g.fn \in {"user", "awaitReply"} /\ g.c = Top.c /\ g.k = Top.k
    BY <1>1, <2>1 DEF Frame, FrameOf
  <2>3. Early(g)
    BY <1>2, <2>2, EarlyMadeFor
  <2> QED BY <1>1, <2>1, <2>3, EarlyMove
<1>10. CASE HookResolves \/ HookThrew
  <2>1. PICK err, new : Settle(NextOf(Top, err, new)) \/ Catch(NextOf(Top, err, new))
    BY <1>10 DEF HookResolves, HookThrew
  <2> QED BY <1>1, <1>2, <2>1, EarlyNext, EarlyMove
<1>11. CASE ParserResolves
  BY <1>1, <1>2, <1>11, EarlySettles, EarlyMove DEF ParserResolves
<1>12. CASE HandlerResolves
  <2>1. PICK p, g : /\ g \in {Thenable(Top, "fulfilled", p), [Thenable(Top, "fulfilled", p) EXCEPT !.f = MaxSends + 1]}
                    /\ Settle(g)
    BY <1>12 DEF HandlerResolves
  <2>2. g.fn = "fulfilled" /\ g.c = Top.c /\ g.k = Top.k
    BY <1>1, <2>1 DEF Thenable, Frame, FrameOf
  <2>3. Early(g)
    BY <1>2, <2>2, EarlyMadeFor DEF EarlyFns, Fns, RunnerFns
  <2> QED BY <1>1, <2>1, <2>3, EarlyMove
<1>13. CASE UserRejects \/ AsyncUserThrew
  <2>1. PICK err : Settle(Rejection(Top, err)) \/ CatchSettling(Rejection(Top, err))
    BY <1>13 DEF UserRejects, AsyncUserThrew
  <2> QED BY <1>1, <1>2, <2>1, EarlySettles, EarlyMove
<1>14. CASE HandlerThrew
  <2>1. PICK g : g = [Top EXCEPT !.fn = "send", !.p = exc, !.done = FALSE]
    OBVIOUS
  <2>2. g.fn = "send" /\ g.c = Top.c /\ g.k = Top.k /\ Catch(g)
    BY <1>1, <1>14, <2>1 DEF HandlerThrew, Frame, FrameOf
  <2>3. Early(g)
    BY <1>2, <2>2, EarlyMadeFor DEF EarlyFns, Fns, RunnerFns
  <2> QED BY <1>1, <2>2, <2>3, EarlyMove
<1> QED BY <1>4, <1>5, <1>6, <1>7, <1>8, <1>9, <1>10, <1>11, <1>12, <1>13, <1>14 DEF UserSteps

LEMMA LifecycleStepsEarly ==
  ASSUME TypeOK, TypeOK', AllEarly, LifecycleSteps
  PROVE  AllEarly'
<1>0. stack # <<>> /\ Top \in Frame /\ Early(Top) /\ Top.fn # "sendNext"
  BY EarlyTop
  DEF LifecycleSteps, RouteHandler, RunPreParsing, CallbackDropped, CallbackFails, HandleWithoutBody,
      HandleRefused, HandleBadMethod, HandleCustomParser, HandleRawBody, BodyDoneFails, BodyDoneHandles,
      Handler, HandlerTryThrew, HandlerTryReturns, PreValidationCallback, PreHandlerCallback,
      FulfilledSends, FulfilledIgnored, ThenTryThrew, RejectedSends, RejectedIgnored, Handling
<1>1. CASE CallbackDropped \/ HandlerTryReturns \/ FulfilledIgnored \/ RejectedIgnored
  BY <1>0, <1>1, EarlyMove DEF CallbackDropped, HandlerTryReturns, FulfilledIgnored, RejectedIgnored
<1>2. ASSUME NEW c \in RequestChains PROVE Early(StartChain(Top, c))
  BY <1>0, EarlyStart DEF HookChains, RequestChains
<1>3. CASE RouteHandler \/ RunPreParsing
  <2>1. PICK c \in RequestChains : Goto(StartChain(Top, c))
    BY <1>3 DEF RouteHandler, RunPreParsing, RequestChains
  <2> QED BY <1>0, <1>2, <2>1, EarlyMove
<1>4. ASSUME NEW g \in {[Top EXCEPT !.fn = "send", !.p = Top.e], [Top EXCEPT !.fn = "handler"],
                        [Top EXCEPT !.fn = "send", !.p = "Error"], [Top EXCEPT !.fn = "rawBody"],
                        [Top EXCEPT !.fn = "handlerTry"], [Top EXCEPT !.fn = "thenTry"],
                        [Top EXCEPT !.fn = "preValidationCallback", !.e = exc],
                        [Top EXCEPT !.fn = "send", !.p = exc, !.e = None],
                        [Top EXCEPT !.fn = "send", !.e = None]}
      PROVE  Early(g)
  <2>1. g.fn \in EarlyFns /\ g.c = Top.c /\ g.k = Top.k
    BY <1>0 DEF Frame, FrameOf, EarlyFns, Fns, RunnerFns
  <2> QED BY <1>0, <2>1, EarlyFrame
<1>5. CASE \/ CallbackFails \/ HandleWithoutBody \/ HandleRefused \/ HandleBadMethod \/ HandleRawBody
           \/ BodyDoneFails \/ BodyDoneHandles \/ HandlerTryThrew \/ ThenTryThrew \/ RejectedSends
  <2>1. PICK g : /\ Goto(g) \/ Catch(g) \/ Leave(g)
                 /\ g \in {[Top EXCEPT !.fn = "send", !.p = Top.e], [Top EXCEPT !.fn = "handler"],
                           [Top EXCEPT !.fn = "send", !.p = "Error"], [Top EXCEPT !.fn = "rawBody"],
                           [Top EXCEPT !.fn = "preValidationCallback", !.e = exc],
                           [Top EXCEPT !.fn = "send", !.p = exc, !.e = None],
                           [Top EXCEPT !.fn = "send", !.e = None]}
    BY <1>5 DEF CallbackFails, HandleWithoutBody, HandleRefused, HandleBadMethod, HandleRawBody,
      BodyDoneFails, BodyDoneHandles, HandlerTryThrew, ThenTryThrew, RejectedSends
  <2> QED BY <1>0, <1>4, <2>1, EarlyMove
<1>6. CASE Handler \/ FulfilledSends
  <2>1. PICK h, g : /\ Call(h, g)
                    /\ h \in {[Top EXCEPT !.fn = "handlerTry"], [Top EXCEPT !.fn = "thenTry"]}
                    /\ g \in {StartChain(Top, "preValidation"), [Top EXCEPT !.fn = "send", !.e = None]}
    BY <1>6 DEF Handler, FulfilledSends
  <2>2. Early(h) /\ Early(g)
    BY <1>2, <1>4, <2>1 DEF RequestChains
  <2> QED BY <1>0, <2>1, <2>2, EarlyMove
<1>7. CASE PreValidationCallback
  <2>1. PICK g : /\ Goto(g)
                 /\ g \in {StartChain(Top, "preHandler"), [Top EXCEPT !.fn = "send", !.p = "Error"]}
    BY <1>7 DEF PreValidationCallback
  <2>2. Early(g)
    BY <1>2, <1>4, <2>1 DEF RequestChains
  <2> QED BY <1>0, <2>1, <2>2, EarlyMove
<1>8. CASE HandleCustomParser \/ PreHandlerCallback
  <2>1. PICK c, s : c \in {"parser", "handler"} /\ Goto(User(Top, c, 0, s))
    BY <1>8 DEF HandleCustomParser, PreHandlerCallback
  <2>2. Early(User(Top, c, 0, s))
    BY <1>0, <2>1, EarlyUser DEF OtherFns, UserFns
  <2> QED BY <1>0, <2>1, <2>2, EarlyMove
<1> QED BY <1>1, <1>3, <1>5, <1>6, <1>7, <1>8 DEF LifecycleSteps

LEMMA PlatformStepsEarly ==
  ASSUME TypeOK, TypeOK', AllEarly, PlatformSteps \/ Mishap \/ UNCHANGED vars
  PROVE  AllEarly'
<1>1. PICK z : z = Plain("send")
  OBVIOUS
<1>2. Early(z)
  BY <1>1 DEF Early, Plain, RunnerFns
<1>3. CASE RunPromiseJob \/ RawEnd \/ StreamEnd \/ StreamErrorAfterHead \/ ProcessLost
  <2>1. RunReady \/ Escapes \/ \E y : DropJob(y)
    BY <1>3 DEF RunPromiseJob, RawEnd, StreamEnd, StreamErrorAfterHead, ProcessLost
  <2> QED BY <1>2, <2>1, EarlyTurn
<1>4. CASE StreamData \/ ClientAborts \/ UNCHANGED vars
  <2>1. UNCHANGED <<stack, ready, jobs>>
    BY <1>4 DEF StreamData, ClientAborts, vars, loop
  <2> QED BY <1>2, <2>1, EarlyTurn
<1>5. CASE UserGoesOn
  <2>1. PICK y, k : y \in jobs /\ StartTurn(k, y, y)
    BY <1>5 DEF UserGoesOn
  <2> QED BY <2>1, EarlyJob, EarlyTurn
<1>6. CASE RawBodyDone \/ RawBodyBroken
  <2>1. PICK y, g, err : /\ y \in jobs /\ y.fn = "rawBody" /\ StartTurn("callback", y, g)
                         /\ g = BodyDone(y, err) \/ g = [y EXCEPT !.fn = "send", !.p = "Error"]
    BY <1>6 DEF RawBodyDone, RawBodyBroken
  <2>2. g.fn \in EarlyFns /\ g.c = y.c /\ g.k = y.k
    BY <2>1, EarlyJob DEF BodyDone, Frame, FrameOf, EarlyFns, Fns, RunnerFns
  <2>3. Early(g)
    BY <2>1, <2>2, EarlyJob, EarlyFrame
  <2> QED BY <2>1, <2>3, EarlyTurn
<1>7. CASE StreamErrorBeforeHead
  <2>1. PICK y \in jobs : y.fn = "pipe"
    BY <1>7 DEF StreamErrorBeforeHead, PipeJob
  <2> QED BY <2>1, EarlyJob DEF Early
<1>8. CASE AwaitedReplyOver
  <2>1. PICK y \in jobs : y.fn = "eos" /\ SettleJob(y, Fulfilment(y))
    BY <1>8 DEF AwaitedReplyOver
  <2>2. y \in Frame /\ y.c \in OtherFns /\ (y.c = "onError" => y.k)
    BY <2>1, EarlyJob, EarlyFor DEF Early
  <2> QED BY <2>1, <2>2, EarlySettles, EarlyTurn
<1>9. CASE ResFinish \/ ResError
  <2>1. PICK g : g = Plain("hookNext")
    OBVIOUS
  <2>2. StartEvent(StartChain(g, "onResponse")) \/ UNCHANGED <<stack, ready, jobs>>
    BY <1>9, <2>1 DEF ResFinish, ResError, OnResFinished, loop
  <2>3. Early(StartChain(g, "onResponse"))
    BY <2>1, PlainStart
  <2> QED BY <2>2, <2>3, EarlyTurn
<1> QED BY <1>3, <1>4, <1>5, <1>6, <1>7, <1>8, <1>9 DEF PlatformSteps, Mishap

(* Only a runner that calls the first onSend hook counts another chain. *)
ChainStarts == PayloadHookCalled /\ Top.c = "onSend" /\ Top.i = 0

LEMMA OnlyChainStarts ==
  ASSUME RequestTypeOK, [Next]_vars
  PROVE  \/ did'.onSend = did.onSend
         \/ ChainStarts /\ did'.onSend = did.onSend + 1
<1>0. did.onSend \in Nat /\ did \in DidType
  BY DEF RequestTypeOK, DidType
<1>1. CASE did' = did
  BY <1>1
<1>2. CASE PayloadHookCalled
  BY <1>0, <1>2 DEF PayloadHookCalled, ChainStarts, DidType
<1>3. CASE \/ HookCalled \/ PreParsingCalled \/ ErrorHandlerCalled \/ HandleCustomParser \/ PreHandlerCallback
  <2>1. PICK c, i : Calls(c, i)
    BY <1>3 DEF HookCalled, PreParsingCalled, ErrorHandlerCalled, HandleCustomParser, PreHandlerCallback
  <2> QED BY <1>0, <2>1 DEF Calls, DidType
<1>4. CASE SendError \/ SendAsIs \/ SendSerialized
  BY <1>0, <1>4 DEF SendError, SendAsIs, SendSerialized, Accepted, DidType
<1>5. CASE UserFails \/ UserThrows \/ UserRejects
  BY <1>0, <1>5 DEF UserFails, UserThrows, UserRejects, Blame, DidType
<1>6. CASE UserSends \/ UserCallsNotFound \/ UserHijacks \/ UserMarksSent
  BY <1>0, <1>6 DEF UserSends, UserCallsNotFound, UserHijacks, UserMarksSent, DidType
<1>7. CASE ResFinish \/ ResError
  BY <1>0, <1>7 DEF ResFinish, ResError, OnResFinished, DidType
<1>8. HookSteps => did' = did \/ PayloadHookCalled \/ HookCalled \/ PreParsingCalled
  BY DEF HookSteps, HookRunnerEnds, HookDropped, PreParsingDropped, PayloadRunnerFails,
      PayloadRunnerEnds, PayloadCallbackThrew, PayloadCallbackReturns, HookRejected, PreParsingEnds, request
<1>9. ReplySteps => did' = did \/ SendError \/ SendAsIs \/ SendSerialized \/ ErrorHandlerCalled
  BY DEF ReplySteps, SendInsideOnError, SendAgain, PreserializationFailed, SerializerThrows, Serialized,
      OnSendFailed, OnSendPassed, OnSendEndRejects, SendStream, AwaitedReplySent,
      AwaitedReplyPending, OnResponseCallback, OnSendEnd, OnErrorHookRuns, OnErrorHookSkipped,
      NotFound, OnSendHook, ErrorToOnSend, ErrorWritten, NotFoundInside404, WriteHead, request
<1>10. UserSteps => \/ did' = did \/ UserFails \/ UserThrows \/ UserRejects
                    \/ UserSends \/ UserCallsNotFound \/ UserHijacks \/ UserMarksSent
  BY DEF UserSteps, UserCallsNext, HandlerReturnsValue, UserDefers, UserAwaits, UserReturns,
      HookResolves, ParserResolves, HandlerResolves, UserAwaitsReply, HookThrew,
      HandlerThrew, AsyncUserThrew, UserThrewUncaught, UserSetsNoContent, request
<1>11. LifecycleSteps => did' = did \/ HandleCustomParser \/ PreHandlerCallback
  BY DEF LifecycleSteps, RunPreParsing, CallbackDropped, CallbackFails, HandleWithoutBody, HandleRefused,
      HandleRawBody, BodyDoneFails, BodyDoneHandles, Handler, HandlerTryThrew,
      HandlerTryReturns, FulfilledSends, FulfilledIgnored, RejectedIgnored,
      ThenTryThrew, RejectedSends, HandleBadMethod, PreValidationCallback, RouteHandler, request
<1>12. PlatformSteps \/ Mishap \/ UNCHANGED vars => did' = did \/ ResFinish \/ ResError
  BY DEF PlatformSteps, Mishap, RunPromiseJob, UserGoesOn, RawEnd, RawBodyDone, RawBodyBroken,
      StreamData, StreamEnd, StreamErrorAfterHead, StreamErrorBeforeHead, AwaitedReplyOver,
      ProcessLost, ClientAborts, vars, request
<1> QED BY <1>1, <1>2, <1>3, <1>4, <1>5, <1>6, <1>7, <1>8, <1>9, <1>10, <1>11, <1>12 DEF Next, Progress, Stutter

LEMMA UnpassedInit == Init => Unpassed
<1> SUFFICES ASSUME Init PROVE Unpassed
  OBVIOUS
<1>1. PICK t : t = Plain("routeHandler")
  OBVIOUS
<1>2. t \in Frame /\ t.fn = "routeHandler" /\ t.c = "none"
  BY <1>1 DEF Plain, Frame, FrameOf, RunnerFns, Fns, Payload, UserFns
<1>3. t \in EarlyFrames
  BY <1>2 DEF EarlyFrames, Early, RunnerFns
<1>4. stack = <<t>> /\ ready = <<>> /\ jobs = {}
  BY <1>1 DEF Init, LoopInit
<1>5. <<t>> \in Seq(EarlyFrames) /\ <<>> \in Seq(EarlyFrames)
  BY <1>3
<1> QED BY <1>4, <1>5 DEF Unpassed, AllEarly, FramesIn

LEMMA UnpassedStep ==
  ASSUME HookCount["onSend"] # 0, NoSerializationHooks, TypeOK, TypeOK', Unpassed, [Next]_vars
  PROVE  Unpassed'
<1> SUFFICES ASSUME did'.onSend = 0 PROVE AllEarly'
  BY DEF Unpassed
<1>1. did.onSend = 0 /\ AllEarly
  <2>1. did'.onSend = did.onSend \/ did'.onSend = did.onSend + 1
    BY OnlyChainStarts DEF TypeOK
  <2>2. did.onSend \in Nat
    BY DEF TypeOK, RequestTypeOK, DidType
  <2> QED BY <2>1, <2>2 DEF Unpassed
<1>2. HookSteps => AllEarly'
  BY <1>1, HookStepsEarly
<1> QED BY <1>1, <1>2, ReplyStepsEarly, UserStepsEarly, LifecycleStepsEarly, PlatformStepsEarly
    DEF Next, Progress, Stutter

(* With onSend hooks, whatever is written has passed them, errors included: *)
(* no way of send, handleError or a stream leads around onSendHook.        *)
THEOREM OnSendCoversAll ==
  ASSUME NoSerializationHooks
  PROVE  Spec => []OnSendCovers
<1>1. CASE HookCount["onSend"] # 0
  <2>1. TypeOK /\ Unpassed => OnSendCovers
    <3> SUFFICES ASSUME TypeOK, Unpassed, Running("writeHead"), did.onSend = 0 PROVE FALSE
      <4>1. TypeOK => did.onSend \in Nat
        BY DEF TypeOK, RequestTypeOK, DidType
      <4>2. TypeOK /\ did.onSend # 0 => did.onSend > 0
        BY <4>1
      <4> QED BY <4>2 DEF OnSendCovers
    <3> QED BY EarlyTop DEF Unpassed, Early
  <2>2. TypeOK /\ TypeOK' /\ Unpassed /\ [Next]_vars => Unpassed'
    BY <1>1, UnpassedStep
  <2> QED BY <2>1, <2>2, UnpassedInit, TypeCorrect, PTL DEF Spec
<1>2. CASE HookCount["onSend"] = 0
  <2>1. OnSendCovers
    BY <1>2 DEF OnSendCovers
  <2> QED BY <2>1, PTL
<1> QED BY <1>1, <1>2

-----------------------------------------------------------------------------
(***************************************************************************)
(* The onSend chain starts twice at most.  Nothing in the code counts the  *)
(* starts: a third one is kept off by reply.sent, which is reset only by   *)
(* handleError before it calls the error handler, once, and by the try     *)
(* block of wrapThenable, for an exception that got past every other one.  *)
(***************************************************************************)

(* The error of t goes on to onSendHook after the onError hooks. *)
OfError(t) == t.c = "onError" /\ t.k

(* The frames that are about to start the chain, or lead to its start.     *)
MayStart(t) ==
  \/ t.fn = "onSendHook"
  \/ t.fn \in {"onErrorHook", "handleError"} /\ t.k
  \/ t.fn = "preserializeHookEnd" /\ t.e = None
  \/ t.fn = "sendNext" /\ \/ OfError(t)
                          \/ t.c = "preSerialization" /\ t.e = None
                          \/ t.c = "onSend" /\ t.i = 0 /\ t.e = None
  \/ t.fn \in UserSide /\ Writes(t) /\ \/ OfError(t)
                                       \/ t.c = "preSerialization"
                                       \/ t.c = "onSend" /\ t.i = 0
Settled == {t \in Frame : ~MayStart(t)}

(* A frame that makes one of these of an exception, and one that lets no   *)
(* exception past it and does not.                                         *)
Restarts(t) == t.fn = "thenTry" \/ (Catches(t) /\ OfError(t))
Stops(t) == IsAsyncUser(t) \/ (Catches(t) /\ ~OfError(t))
Reopens(q) == \E n \in 1..Len(q) : Restarts(q[n]) /\ \A m \in 1..(n - 1) : ~Stops(q[m])

(* The frames of a failed chain, which throw nothing.                      *)
Quiet(t) ==
  \/ t.fn \in {"sendNext", "onErrorHook", "handleError", "writeHead"}
  \/ t.fn \in {"wrapOnSendEnd", "preserializeHookEnd"} /\ t.e # None

(* No exception gets to a frame that would start the chain again, except   *)
(* the one of a send refused inside an onError chain: the send wrapThenable *)
(* answers it with is refused as well.                                     *)
Shut ==
  stack # <<>> /\ (exc # None \/ ~Spent(Top)) /\ Reopens(stack) =>
    \/ exc = None /\ Quiet(Top)
    \/ exc = None /\ Top.fn = "send" /\ Tail(stack) # <<>> /\ Head(Tail(stack)).fn = "thenTry"
    \/ exc # None /\ Top.fn = "thenTry" /\ reply.onErr

Closed == (reply.sent \/ reply.onErr) /\ FramesIn(Settled) /\ Shut

(* The chain has started as often as it may, until the error handler runs. *)
SendsSpent == did.onSend = 2 \/ (did.onSend = 1 /\ ~reply.ehCalled)
SendsCounted == did.onSend <= 2 /\ (~reply.ehCalled => did.onSend <= 1)
SendInv == SendsCounted /\ (SendsSpent => Closed)

-----------------------------------------------------------------------------
LEMMA ReopensByFirst ==
  ASSUME NEW S, NEW q \in Seq(S), q # <<>>
  PROVE  Reopens(q) <=> Restarts(Head(q)) \/ (~Stops(Head(q)) /\ Reopens(Tail(q)))
<1> DEFINE r == Tail(q)
<1>1. /\ Len(q) \in Nat /\ Len(q) >= 1 /\ Head(q) = q[1]
      /\ Len(r) = Len(q) - 1 /\ \A n \in 1..Len(r) : r[n] = q[n + 1]
  OBVIOUS
<1> HIDE DEF r
<1>2. \A n \in 1..Len(q) : n = 1 \/ (n - 1 \in 1..Len(r) /\ r[n - 1] = q[n])
  <2> SUFFICES ASSUME NEW n \in 1..Len(q), n # 1 PROVE n - 1 \in 1..Len(r) /\ r[n - 1] = q[n]
    OBVIOUS
  <2>1. n - 1 \in 1..Len(r) /\ (n - 1) + 1 = n
    BY <1>1
  <2> QED BY <1>1, <2>1
<1>3. 1 \in 1..Len(q) /\ \A n \in 1..Len(r) : n + 1 \in 1..Len(q) /\ r[n] = q[n + 1]
  BY <1>1
<1>4. ASSUME Reopens(q), ~Restarts(q[1]) PROVE ~Stops(q[1]) /\ Reopens(r)
  <2>1. PICK n \in 1..Len(q) : Restarts(q[n]) /\ \A m \in 1..(n - 1) : ~Stops(q[m])
    BY <1>4 DEF Reopens
  <2>2. n - 1 \in 1..Len(r) /\ r[n - 1] = q[n]
    BY <1>2, <1>4, <2>1
  <2>3. 1 \in 1..(n - 1) /\ \A m \in 1..((n - 1) - 1) : m \in 1..Len(r) /\ m + 1 \in 1..(n - 1)
    BY <1>1, <2>2
  <2>4. \A m \in 1..((n - 1) - 1) : ~Stops(r[m])
    BY <1>3, <2>1, <2>3
  <2> QED BY <2>1, <2>2, <2>3, <2>4 DEF Reopens
<1>5. ASSUME Restarts(q[1]) PROVE Reopens(q)
  <2>1. 1..(1 - 1) = {}
    OBVIOUS
  <2> QED BY <1>3, <1>5, <2>1 DEF Reopens
<1>6. ASSUME ~Stops(q[1]), Reopens(r) PROVE Reopens(q)
  <2>1. PICK n \in 1..Len(r) : Restarts(r[n]) /\ \A m \in 1..(n - 1) : ~Stops(r[m])
    BY <1>6 DEF Reopens
  <2>2. \A m \in 1..((n + 1) - 1) : m = 1 \/ (m - 1 \in 1..(n - 1) /\ m \in 1..Len(q))
    BY <1>1
  <2>3. \A m \in 1..((n + 1) - 1) : ~Stops(q[m])
    BY <1>2, <1>6, <2>1, <2>2
  <2> QED BY <1>3, <2>1, <2>3 DEF Reopens
<1> QED BY <1>1, <1>4, <1>5, <1>6 DEF r

(* How the frames are told apart.                                          *)
LEMMA SendKinds ==
  ASSUME NEW t
  PROVE  /\ MayStart(t) => Writes(t)
         /\ ~(Restarts(t) /\ Stops(t))
         /\ Waits(t) => Spent(t) \/ Stops(t)
         /\ Catches(t) => Restarts(t) \/ Stops(t)
         /\ t.fn \notin {"thenTry", "cbTry", "user"} => ~Restarts(t) /\ ~Stops(t)
         /\ t.fn \notin {"onSendHook", "onErrorHook", "handleError", "preserializeHookEnd", "sendNext"} \cup UserSide
              => ~MayStart(t)
BY DEF MayStart, Writes, Restarts, Stops, Waits, Spent, IsAsyncUser, Catches, Tries

(* A running frame that is no exception to Shut. *)
Watched ==
  /\ stack # <<>> /\ (exc # None \/ ~Spent(Top))
  /\ exc = None => ~Quiet(Top) /\ Top.fn # "send"
  /\ exc # None => Top.fn # "thenTry"

LEMMA ShutTop ==
  ASSUME TypeOK, Shut, Watched
  PROVE  ~Restarts(Top) /\ (Stops(Top) \/ ~Reopens(Tail(stack)))
<1>1. ~Reopens(stack)
  BY DEF Shut, Watched
<1>2. stack \in Seq(Frame) /\ stack # <<>>
  BY DEF TypeOK, LoopTypeOK, Watched
<1>3. Reopens(stack) <=> Restarts(Top) \/ (~Stops(Top) /\ Reopens(Tail(stack)))
  BY <1>2, ReopensByFirst DEF Top
<1> QED BY <1>1, <1>3

(* A frame from g on top of q. *)
LEMMA ShutOnTop ==
  ASSUME NEW q \in Seq(Frame), NEW g, stack' = <<g>> \o q,
         \/ ~Restarts(g) /\ (Stops(g) \/ ~Reopens(q))
         \/ exc' = None /\ Quiet(g)
         \/ exc' = None /\ g.fn = "send" /\ q # <<>> /\ Head(q).fn = "thenTry"
  PROVE  Shut'
<1>1. /\ stack' # <<>> /\ Head(stack') = g /\ Tail(stack') = q
      /\ stack' \in Seq(Frame \cup {g})
  BY OnTop
<1>2. Reopens(stack') <=> Restarts(g) \/ (~Stops(g) /\ Reopens(q))
  BY <1>1, ReopensByFirst
<1> QED BY <1>1, <1>2 DEF Shut, Top

(* The running frame is left to those under it, *)
LEMMA ShutLeft ==
  ASSUME TypeOK, Lock, stack # <<>>, stack' = Tail(stack), exc' = None
  PROVE  Shut'
<1>1. stack' \in Seq(Frame) /\ AllWait(stack')
  BY LockAtTop, LockFacts DEF Ground
<1>2. CASE stack' = <<>>
  BY <1>2 DEF Shut
<1>3. CASE stack' # <<>>
  <2> DEFINE u == Head(stack')
  <2>1. Waits(u) /\ (Reopens(stack') <=> Restarts(u) \/ (~Stops(u) /\ Reopens(Tail(stack'))))
    BY <1>1, <1>3, ByFirst, ReopensByFirst
  <2> HIDE DEF u
  <2>2. Spent(u) \/ ~Reopens(stack')
    BY <2>1, SendKinds
  <2> QED BY <2>2 DEF Shut, Top, u
<1> QED BY <1>2, <1>3

(* or for an exception. *)
LEMMA ShutThrown ==
  ASSUME TypeOK, Shut, Watched, ~Stops(Top), stack' = Tail(stack)
  PROVE  Shut'
BY ShutTop DEF Shut

-----------------------------------------------------------------------------
(* What the moves of EventLoop leave of it, when what they add starts no   *)
(* chain.  Raised is what every such step keeps of the flags.              *)

Still(g) == g \in Frame => ~MayStart(g)
Flagged == reply.sent \/ reply.onErr

LEMMA StillSettled ==
  /\ Settled \subseteq Frame
  /\ \A g : Still(g) => (g \in Frame => g \in Settled)
BY DEF Settled, Still

LEMMA ClosedTop ==
  ASSUME Closed, stack # <<>>
  PROVE  Top \in Frame /\ ~MayStart(Top) /\ Still(Top)
BY DEF Closed, FramesIn, Settled, Still, Top

LEMMA ClosedReturn ==
  ASSUME TypeOK, TypeOK', Lock, Closed, stack # <<>>, exc' = None, Flagged',
         NEW y, Still(y), (exc = None /\ Return) \/ Leave(y) \/ Settle(y) \/ CatchSettling(y)
  PROVE  Closed'
<1>1. FramesIn(Settled)'
  BY StillSettled, FramesMove DEF Closed
<1>2. Shut'
  BY ShutLeft DEF Return, Leave, Settle, CatchSettling
<1> QED BY <1>1, <1>2 DEF Closed, Flagged

(* Another function goes on, *)
LEMMA ClosedGoto ==
  ASSUME TypeOK, TypeOK', Closed, Watched, ~Stops(Top), Flagged',
         NEW g, Still(g), ~Restarts(g), Goto(g) \/ Catch(g)
  PROVE  Closed'
<1>1. FramesIn(Settled)'
  BY StillSettled, FramesMove DEF Closed, Watched
<1>2. Tail(stack) \in Seq(Frame) /\ stack' = <<g>> \o Tail(stack)
  BY DEF Goto, Catch, Watched, TypeOK, LoopTypeOK
<1>3. Shut'
  BY <1>2, ShutTop, ShutOnTop DEF Closed
<1> QED BY <1>1, <1>3 DEF Closed, Flagged

(* that of a failed chain, or one that lets no exception past it; *)
LEMMA ClosedQuiet ==
  ASSUME TypeOK, TypeOK', Closed, stack # <<>>, exc' = None, Flagged',
         NEW g, Still(g), Quiet(g) \/ Stops(g), Goto(g) \/ Catch(g)
  PROVE  Closed'
<1>1. FramesIn(Settled)'
  BY StillSettled, FramesMove DEF Closed
<1>2. Tail(stack) \in Seq(Frame) /\ stack' = <<g>> \o Tail(stack)
  BY DEF Goto, Catch, TypeOK, LoopTypeOK
<1>3. Shut'
  BY <1>2, SendKinds, ShutOnTop DEF Closed
<1> QED BY <1>1, <1>3 DEF Closed, Flagged

(* it calls one that catches nothing; *)
LEMMA ClosedCall ==
  ASSUME TypeOK, TypeOK', Closed, stack # <<>>, Flagged',
         NEW h, Still(h), NEW g, Still(g), g.fn \notin {"thenTry", "cbTry", "user"}, Call(h, g),
         \/ Stops(h)
         \/ Watched /\ (Stops(Top) => Stops(h)) /\ (Restarts(h) => Restarts(Top))
         \/ exc = None /\ Tail(stack) = <<>> /\ g.fn = "send" /\ h.fn = "thenTry"
  PROVE  Closed'
<1>1. FramesIn(Settled)'
  BY StillSettled, FramesMove DEF Closed
<1>2. Tail(stack) \in Seq(Frame) /\ stack' = <<g, h>> \o Tail(stack) /\ stack' \in Seq(Frame) /\ exc' = exc
  BY DEF Call, TypeOK, LoopTypeOK
<1>3. PICK q : q = <<h>> \o Tail(stack)
  OBVIOUS
<1>4. q \in Seq(Frame) /\ stack' = <<g>> \o q
  BY <1>2, <1>3, TwoOnTop
<1>5. q # <<>> /\ Head(q) = h /\ Tail(q) = Tail(stack)
  BY <1>2, <1>3, OnTop
<1>6. Reopens(q) <=> Restarts(h) \/ (~Stops(h) /\ Reopens(Tail(stack)))
  BY <1>4, <1>5, ReopensByFirst
<1>7. ~Restarts(g) /\ ~Stops(g)
  BY SendKinds
<1>8. ~Reopens(q) \/ (exc' = None /\ g.fn = "send" /\ q # <<>> /\ Head(q).fn = "thenTry")
  BY <1>2, <1>5, <1>6, ShutTop, SendKinds DEF Closed
<1>9. Shut'
  BY <1>4, <1>7, <1>8, ShutOnTop
<1> QED BY <1>1, <1>9 DEF Closed, Flagged

(* a turn of the event loop, or what happens between two. *)
LEMMA ClosedTurn ==
  ASSUME TypeOK, TypeOK', Closed, stack = <<>>, Flagged', NEW g, Still(g), ~Restarts(g), NEW y, NEW k,
         StartTurn(k, y, g) \/ DropJob(y) \/ SettleJob(y, g) \/ StartEvent(g) \/ Escapes
         \/ UNCHANGED <<stack, ready, jobs>>
  PROVE  Closed'
<1>1. FramesIn(Settled)'
  BY StillSettled, FramesTurn DEF Closed
<1>2. CASE stack' = <<>>
  BY <1>1, <1>2 DEF Closed, Flagged, Shut
<1>3. CASE StartTurn(k, y, g) \/ StartEvent(g)
  <2>1. stack' = <<g>> /\ <<g>> \o <<>> = <<g>> /\ <<>> \in Seq(Frame) /\ ~Reopens(<<>>)
    BY <1>3 DEF StartTurn, StartEvent, Reopens
  <2>2. Shut'
    BY <2>1, ShutOnTop
  <2> QED BY <1>1, <2>2 DEF Closed, Flagged
<1> QED BY <1>2, <1>3 DEF DropJob, SettleJob, Escapes

(* The frames the code makes.                                              *)
LEMMA StillNeutral ==
  ASSUME NEW g, Neutral(g)
  PROVE  Still(g) /\ ~Restarts(g)
BY SendKinds DEF Neutral, Still, Restarts

LEMMA StillOther ==
  ASSUME NEW g,
         \/ g.fn \in {"onErrorHook", "handleError"} /\ ~g.k
         \/ g.fn \notin {"onSendHook", "onErrorHook", "handleError", "preserializeHookEnd", "sendNext",
                         "thenTry", "cbTry"} \cup UserSide
  PROVE  Still(g) /\ ~Restarts(g) /\ ~Stops(g)
BY SendKinds DEF MayStart, UserSide, Still

LEMMA StillChain ==
  ASSUME NEW t \in Frame, t.c \in HookChains, ~OfError(t), NEW err, NEW new,
         t.c = "preSerialization" \/ (t.c = "onSend" /\ t.i = 0) => err # None
  PROVE  /\ \A g \in {Callback(t, err), NextOf(t, err, new)} :
              /\ Still(g) /\ ~Restarts(g) /\ g.fn \notin {"thenTry", "cbTry", "user"}
              /\ t.c \in PayloadChains /\ err # None => Quiet(g)
         /\ t.c = "onError" => Quiet(Callback(t, err))
         /\ t.c \in PayloadChains => Quiet(NextOf(t, err, new))
<1>1. PICK g, h : g = Callback(t, err) /\ h = NextOf(t, err, new)
  OBVIOUS
<1>2. /\ g.fn = CallbackOf[t.c] /\ g.c = t.c /\ g.k = t.k /\ g.e = IF t.c = "onError" THEN t.p ELSE err
      /\ h.fn = (CASE t.c \in PayloadChains -> "sendNext" [] t.c = "preParsing" -> "preParsingNext"
                   [] OTHER -> "hookNext")
      /\ h.c = t.c /\ h.k = t.k /\ h.i = t.i /\ h.e = err
  BY <1>1 DEF Callback, NextOf, Frame, FrameOf
<1>3. /\ g.fn \notin {"thenTry", "cbTry", "onSendHook", "onErrorHook", "sendNext"} \cup UserSide
      /\ g.fn = "handleError" => t.c = "onError"
      /\ g.fn = "preserializeHookEnd" => t.c = "preSerialization"
      /\ t.c = "onError" => g.fn = "handleError"
      /\ t.c = "onSend" => g.fn = "wrapOnSendEnd"
      /\ t.c = "preSerialization" => g.fn = "preserializeHookEnd"
  BY <1>2 DEF CallbackOf, HookChains, RequestChains, PayloadChains, UserSide
<1>4. ~MayStart(g)
  BY <1>2, <1>3 DEF MayStart, OfError
<1>5. h.fn \in {"sendNext", "preParsingNext", "hookNext"} /\ ~MayStart(h)
  BY <1>2 DEF MayStart, OfError, UserSide
<1>6. /\ t.c \in PayloadChains /\ err # None => Quiet(g)
      /\ t.c = "onError" => Quiet(g)
      /\ t.c \in PayloadChains => Quiet(h)
  BY <1>2, <1>3 DEF Quiet, PayloadChains
<1>7. ~Restarts(g) /\ ~Restarts(h) /\ g.fn \notin {"thenTry", "cbTry", "user"} /\ h.fn \notin {"thenTry", "cbTry", "user"}
  BY <1>3, <1>5, SendKinds DEF UserSide
<1> QED BY <1>1, <1>4, <1>5, <1>6, <1>7 DEF Still

LEMMA StillUser ==
  ASSUME NEW t \in Frame, NEW c, c # "preSerialization", c = "onError" => ~t.k, NEW i, c = "onSend" => i # 0,
         NEW s \in {"sync", "async"}, NEW g, g = User(t, c, i, s)
  PROVE  Still(g) /\ ~Restarts(g) /\ (c \in PayloadChains => Stops(g))
<1>1. g.fn = "user" /\ g.c = c /\ g.i = i /\ g.k = t.k /\ g.m = s
  BY DEF User, Frame, FrameOf
<1> QED BY <1>1 DEF Still, MayStart, Restarts, Stops, Catches, OfError, IsAsyncUser

(* A hook that may not lead to the start of a chain, and what it goes on   *)
(* with.                                                                   *)
LEMMA StillOutcome ==
  ASSUME NEW u \in Frame, u.fn \in UserSide, u.c \in UserFns, ~MayStart(u), u.c \in PayloadChains => Writes(u),
         NEW err, NEW new, NEW v, NEW fn \in {"fulfilled", "rejected"}, NEW g,
         \/ g \in {Fulfilment(u), Rejection(u, err), BodyDone(u, err), Thenable(u, fn, v),
                   [Thenable(u, fn, v) EXCEPT !.f = MaxSends + 1]}
         \/ u.c \in HookChains /\ g = NextOf(u, err, new)
         \/ u.c \in HookChains \cup {"parser"} /\ g = Completion(u, err, new)
  PROVE  Still(g) /\ g.fn \notin {"thenTry", "cbTry", "user"}
<1>1. u.c \in PayloadChains => ~OfError(u) /\ u.c # "preSerialization" /\ (u.c = "onSend" => u.i # 0)
  BY DEF MayStart
<1>2. ~OfError(u) \/ u.c \notin PayloadChains
  BY <1>1
<1>3. ~OfError(u)
  BY <1>2 DEF OfError, PayloadChains
<1>4. CASE /\ u.c \in HookChains
           /\ \/ g \in {NextOf(u, err, new), NextOf(u, err, None), NextOf(u, None, None)}
              \/ u.c \in PayloadChains /\ g = Callback(u, err)
  <2>1. PICK e, n : g = NextOf(u, e, n) \/ (u.c \in PayloadChains /\ g = Callback(u, e))
    BY <1>4
  <2>2. ~(u.c = "preSerialization" \/ (u.c = "onSend" /\ u.i = 0))
    BY <1>1 DEF PayloadChains
  <2> QED BY <1>3, <1>4, <2>1, <2>2, StillChain
<1>5. CASE g \in {BodyDone(u, err), BodyDone(u, None)}
  <2>1. g.fn = "bodyDone"
    BY <1>5 DEF BodyDone, Frame, FrameOf
  <2> QED BY <2>1, StillOther DEF UserSide
<1>6. CASE g \in {Thenable(u, fn, v), [Thenable(u, fn, v) EXCEPT !.f = MaxSends + 1],
                  Thenable(u, "fulfilled", None), Thenable(u, "rejected", err)}
  <2>1. g.fn \in {"fulfilled", "rejected"}
    BY <1>6 DEF Thenable, Frame, FrameOf
  <2> QED BY <2>1, StillOther DEF UserSide
<1>7. CASE g = [u EXCEPT !.fn = "handleReject", !.e = err, !.m = "sync", !.done = FALSE]
  <2>1. g.fn = "handleReject"
    BY <1>7 DEF Frame, FrameOf
  <2> QED BY <2>1, StillOther DEF UserSide
<1>8. CASE u.c \in HookChains \cup {"parser"} /\ g = Completion(u, err, new)
  BY <1>4, <1>5, <1>8 DEF Completion
<1>9. CASE g = Fulfilment(u)
  BY <1>4, <1>5, <1>6, <1>9 DEF Fulfilment, Completion, UserFns
<1>10. CASE g = Rejection(u, err)
  BY <1>4, <1>5, <1>6, <1>7, <1>10 DEF Rejection, UserFns, HookChains, RequestChains, PayloadChains
<1>11. CASE u.c \in HookChains /\ g = NextOf(u, err, new)
  BY <1>4, <1>11
<1> QED BY <1>5, <1>6, <1>8, <1>9, <1>10, <1>11

-----------------------------------------------------------------------------
(* Every action keeps it.                                                  *)

LEMMA ClosedFlagged ==
  ASSUME TypeOK, Lock, Closed
  PROVE  /\ Flagged /\ (SameFlags => Flagged')
         /\ \A fn : Running(fn) /\ fn # "send" => reply.sent
         /\ \A fn : Unwinding(fn) => reply.sent
         /\ Idle => reply.sent
<1>1. Flagged /\ (SameFlags => Flagged')
  BY DEF Closed, Flagged, SameFlags
<1>2. ASSUME NEW fn, Running(fn), fn # "send" PROVE reply.sent
  BY <1>1, <1>2, Runs DEF Flagged
<1>3. ASSUME NEW fn, Unwinding(fn) PROVE reply.sent
  BY <1>1, <1>3, LockAtTop, LockFacts DEF Flagged, Unwinding
<1>4. ASSUME Idle PROVE reply.sent
  BY <1>1, <1>4, LockWhenIdle DEF Flagged, Idle, LockIdle
<1> QED BY <1>1, <1>2, <1>3, <1>4

LEMMA WatchedRuns ==
  ASSUME Lock, NEW fn, Running(fn),
         fn \notin Tries \cup {"user", "send", "sendNext", "onErrorHook", "handleError", "writeHead", "wrapOnSendEnd",
                               "preserializeHookEnd"}
  PROVE  Watched /\ ~Stops(Top)
<1>1. stack # <<>> /\ exc = None /\ Top.fn = fn
  BY Runs
<1>2. ~Spent(Top) /\ ~Quiet(Top)
  BY <1>1 DEF Spent, Quiet
<1>3. ~Stops(Top)
  BY <1>1, SendKinds DEF Tries
<1> QED BY <1>1, <1>2, <1>3 DEF Watched

LEMMA HookStepsClosed ==
  ASSUME TypeOK, TypeOK', Lock, Closed, HookSteps
  PROVE  Closed'
<1>1. RequestTypeOK /\ (SameFlags => Flagged')
  BY ClosedFlagged DEF TypeOK
<1>2. CASE HookDropped \/ PreParsingDropped \/ PayloadCallbackReturns
  <2>1. /\ stack # <<>> /\ exc = None /\ Return /\ SameFlags /\ Still(Top)
    BY <1>1, <1>2, Runs, FlagsKept, ClosedTop DEF HookDropped, PreParsingDropped, PayloadCallbackReturns
  <2>2. exc' = None
    BY <2>1 DEF Return
  <2> QED BY <1>1, <2>1, <2>2, ClosedReturn
<1>3. CASE HookRunnerEnds \/ HookRejected \/ PreParsingEnds
  <2>1. PICK fn \in {"hookNext", "handleReject", "preParsingNext"} : Running(fn)
    BY <1>3 DEF HookRunnerEnds, HookRejected, PreParsingEnds
  <2>2. Watched /\ ~Stops(Top) /\ Top \in Frame /\ Top.c \in OtherChains
    BY <2>1, Runs, WatchedRuns DEF Tries, Fits, OtherChains, RequestChains
  <2>3. PICK err : Goto(Callback(Top, err))
    BY <1>3 DEF HookRunnerEnds, HookRejected, PreParsingEnds
  <2>4. Neutral(Callback(Top, err))
    BY <2>2, NeutralChain
  <2>5. SameFlags
    BY <1>1, <1>3, FlagsKept DEF HookRunnerEnds, HookRejected, PreParsingEnds
  <2> QED BY <1>1, <2>2, <2>3, <2>4, <2>5, StillNeutral, ClosedGoto
<1>4. CASE HookCalled \/ PreParsingCalled
  <2>1. PICK fn \in {"hookNext", "preParsingNext"} : Running(fn)
    BY <1>4 DEF HookCalled, PreParsingCalled
  <2>2. Watched /\ ~Stops(Top) /\ Top \in Frame /\ Top.c \notin PayloadChains
    BY <2>1, Runs, WatchedRuns DEF Tries, Fits, RequestChains, PayloadChains
  <2>3. PICK i, s : Goto(User(Top, Top.c, i, s))
    BY <1>4 DEF HookCalled, PreParsingCalled
  <2>4. Neutral(User(Top, Top.c, i, s))
    BY <2>2, NeutralUser
  <2>5. SameFlags
    BY <1>1, <1>4, FlagsKept DEF HookCalled, PreParsingCalled
  <2> QED BY <1>1, <2>2, <2>3, <2>4, <2>5, StillNeutral, ClosedGoto
<1>5. CASE PayloadRunnerFails \/ PayloadRunnerEnds \/ PayloadHookCalled
  <2>1. /\ stack # <<>> /\ exc = None /\ Top.fn = "sendNext" /\ Top \in Frame /\ Top.c \in PayloadChains
        /\ ~MayStart(Top) /\ SameFlags
    BY <1>1, <1>5, Runs, FlagsKept, ClosedTop
    DEF Fits, PayloadRunnerFails, PayloadRunnerEnds, PayloadHookCalled
  <2>2. /\ Top.c \in HookChains /\ ~OfError(Top)
        /\ Top.c = "preSerialization" \/ (Top.c = "onSend" /\ Top.i = 0) => Top.e # None
    BY <2>1 DEF HookChains, MayStart
  <2>3. CASE PayloadRunnerFails
    <3>1. PICK g : g = Callback(Top, Top.e)
      OBVIOUS
    <3>2. Still(g) /\ Quiet(g)
      BY <2>1, <2>2, <2>3, <3>1, StillChain DEF PayloadRunnerFails
    <3>3. Goto(g) /\ exc' = None
      BY <2>1, <2>3, <3>1 DEF PayloadRunnerFails, Goto
    <3> QED BY <1>1, <2>1, <3>2, <3>3, ClosedQuiet
  <2>4. CASE PayloadRunnerEnds
    <3>1. Top.e = None /\ Call([Top EXCEPT !.fn = "cbTry"], Callback(Top, None))
      BY <2>4 DEF PayloadRunnerEnds
    <3>2. PICK h : h = [Top EXCEPT !.fn = "cbTry"]
      OBVIOUS
    <3>3. PICK g : g = Callback(Top, None)
      OBVIOUS
    <3>4. h.fn = "cbTry" /\ h.c = Top.c /\ h.k = Top.k
      BY <2>1, <3>2 DEF Frame, FrameOf
    <3>5. Still(h) /\ Stops(h)
      BY <2>2, <3>4, SendKinds DEF Still, Stops, Catches, OfError, UserSide
    <3>6. Still(g) /\ g.fn \notin {"thenTry", "cbTry", "user"}
      BY <2>1, <2>2, <3>1, <3>3, StillChain
    <3> QED BY <1>1, <2>1, <3>1, <3>2, <3>3, <3>5, <3>6, ClosedCall
  <2>5. CASE PayloadHookCalled
    <3>1. PICK s \in Style[Top.c] : Goto(User(Top, Top.c, Top.i + 1, s))
      BY <2>5 DEF PayloadHookCalled
    <3>2. PICK g : g = User(Top, Top.c, Top.i + 1, s)
      OBVIOUS
    <3>3. s \in {"sync", "async"}
      BY <2>2, <3>1, UserAssumption DEF UserFns
    <3>4. Top.i + 1 # 0
      BY <2>1 DEF Frame, FrameOf
    <3>5. Top.c # "preSerialization" /\ (Top.c = "onError" => ~Top.k)
      BY <2>2, <2>5 DEF PayloadHookCalled, OfError
    <3>6. Still(g) /\ Stops(g)
      BY <2>1, <3>2, <3>3, <3>4, <3>5, StillUser
    <3>7. exc' = None
      BY <2>1, <3>1 DEF Goto
    <3> QED BY <1>1, <2>1, <3>1, <3>2, <3>6, <3>7, ClosedQuiet
  <2> QED BY <1>5, <2>3, <2>4, <2>5
<1>6. CASE PayloadCallbackThrew
  <2>1. /\ stack # <<>> /\ exc # None /\ Top.fn = "cbTry" /\ SameFlags /\ Catch(Callback(Top, exc))
        /\ Top \in Frame /\ Top.c \in PayloadChains
    BY <1>1, <1>6, FlagsKept, LockAtTop DEF PayloadCallbackThrew, Unwinding, Fits
  <2>2. ~OfError(Top)
    <3>1. ~Restarts(Top)
      BY <2>1, ShutTop DEF Watched, Closed
    <3> QED BY <2>1, <3>1 DEF Restarts, Catches
  <2>3. PICK g : g = Callback(Top, exc)
    OBVIOUS
  <2>4. Still(g) /\ Quiet(g)
    BY <2>1, <2>2, <2>3, StillChain DEF HookChains
  <2>5. exc' = None
    BY <2>1 DEF Catch
  <2> QED BY <1>1, <2>1, <2>3, <2>4, <2>5, ClosedQuiet
<1> QED BY <1>2, <1>3, <1>4, <1>5, <1>6 DEF HookSteps

LEMMA ReplyStepsClosed ==
  ASSUME TypeOK, TypeOK', Lock, Closed, ReplySteps
  PROVE  Closed' \/ ErrorHandlerCalled
<1>0. /\ RequestTypeOK /\ Flagged /\ (SameFlags => Flagged')
      /\ reply.sent \in BOOLEAN /\ reply.onErr \in BOOLEAN
  BY ClosedFlagged, FlagsKept DEF TypeOK
<1>1. CASE SendInsideOnError
  <2>1. /\ stack # <<>> /\ exc = None /\ Top.fn = "send" /\ Throw("Error") /\ reply.onErr /\ SameFlags
    BY <1>0, <1>1, Runs, FlagsKept DEF SendInsideOnError
  <2>2. FramesIn(Settled)'
    BY <2>1, StillSettled, ClosedTop, FramesMove DEF Closed
  <2>3. stack' = Tail(stack) /\ exc' = "Error" /\ reply'.onErr
    BY <2>1 DEF Throw, SameFlags
  <2>4. Shut'
    <3>1. ~Spent(Top) /\ ~Stops(Top) /\ ~Quiet(Top)
      BY <2>1, SendKinds DEF Spent, Tries, Quiet
    <3>2. stack \in Seq(Frame)
      BY DEF TypeOK, LoopTypeOK
    <3>3. Reopens(stack) <=> Restarts(Top) \/ (~Stops(Top) /\ Reopens(Tail(stack)))
      BY <2>1, <3>2, ReopensByFirst DEF Top
    <3>4. ~Reopens(Tail(stack)) \/ (Tail(stack) # <<>> /\ Head(Tail(stack)).fn = "thenTry")
      BY <2>1, <3>1, <3>3 DEF Closed, Shut
    <3> QED BY <2>3, <3>4 DEF Shut, Top
  <2> QED BY <1>0, <2>1, <2>2, <2>4 DEF Closed, Flagged
<1>2. CASE SendError \/ SendAsIs \/ SendSerialized
  BY <1>0, <1>2 DEF SendError, SendAsIs, SendSerialized, Accepting, Flagged
<1>3. CASE SendAgain \/ OnResponseCallback
  <2>1. stack # <<>> /\ exc = None /\ Return /\ SameFlags /\ Still(Top)
    BY <1>0, <1>3, Runs, FlagsKept, ClosedTop DEF SendAgain, OnResponseCallback
  <2>2. exc' = None
    BY <2>1 DEF Return
  <2> QED BY <1>0, <2>1, <2>2, ClosedReturn
<1>4. CASE SerializerThrows \/ Serialized \/ OnSendHook \/ ErrorToOnSend
  BY <1>4, Runs, ClosedTop DEF SerializerThrows, Serialized, OnSendHook, ErrorToOnSend, MayStart
<1>5. CASE NotFoundInside404 \/ NotFound
  <2>1. Running("notFound") /\ reply.sent
    BY <1>5, ClosedFlagged DEF NotFoundInside404, NotFound
  <2> QED BY <2>1, Runs, LockAtTop DEF LockTop
<1>6. CASE PreserializationFailed \/ OnSendFailed \/ OnErrorHookSkipped \/ ErrorWritten
  <2>1. PICK fn \in WriterFns : Running(fn)
    BY <1>6 DEF PreserializationFailed, OnSendFailed, OnErrorHookSkipped, ErrorWritten, WriterFns
  <2>2. stack # <<>> /\ exc = None /\ Top \in Frame /\ ~MayStart(Top)
    BY <2>1, Runs, ClosedTop
  <2>3. PICK g : /\ Goto(g)
                 /\ \/ g = [Top EXCEPT !.fn = "onErrorHook", !.k = FALSE]
                    \/ g = [Top EXCEPT !.fn = "writeHead", !.p = "string", !.e = None]
                    \/ g = [Top EXCEPT !.fn = "handleError"] /\ Running("onErrorHook")
    BY <1>6 DEF PreserializationFailed, OnSendFailed, OnErrorHookSkipped, ErrorWritten
  <2>4. (g.fn \in {"onErrorHook", "handleError"} /\ ~g.k) \/ g.fn = "writeHead"
    BY <2>2, <2>3 DEF Frame, FrameOf, MayStart, Running
  <2>5. Still(g) /\ Quiet(g)
    BY <2>4, StillOther DEF Quiet, UserSide
  <2>6. Flagged'
    BY <1>0, <1>6, FlagsKept DEF PreserializationFailed, OnSendFailed, OnErrorHookSkipped, ErrorWritten, Flagged,
       RequestTypeOK, ReplyType
  <2>7. exc' = None
    BY <2>2, <2>3 DEF Goto
  <2> QED BY <2>2, <2>3, <2>5, <2>6, <2>7, ClosedQuiet
<1>7. CASE OnErrorHookRuns
  <2>1. stack # <<>> /\ exc = None /\ Top \in Frame /\ Top.fn = "onErrorHook" /\ ~Top.k
    BY <1>7, Runs, ClosedTop DEF OnErrorHookRuns, MayStart
  <2>2. PICK t : t = [Top EXCEPT !.c = "onError", !.i = 0, !.p = Top.e]
    OBVIOUS
  <2>3. t \in Frame /\ t.c = "onError" /\ t.k = Top.k
    BY <2>1, <2>2 DEF Frame, FrameOf, UserFns, HookChains, PayloadChains, RunnerFns
  <2>4. Goto(NextOf(t, None, None)) /\ exc' = None
    BY <1>7, <2>1, <2>2 DEF OnErrorHookRuns, Goto
  <2>5. PICK g : g = NextOf(t, None, None)
    OBVIOUS
  <2>6. Still(g) /\ Quiet(g)
    BY <2>1, <2>3, <2>5, StillChain DEF OfError, HookChains, PayloadChains
  <2>7. Flagged'
    BY <1>0, <1>7 DEF OnErrorHookRuns, Flagged, RequestTypeOK, ReplyType
  <2> QED BY <2>1, <2>4, <2>5, <2>6, <2>7, ClosedQuiet
<1>8. CASE OnSendPassed \/ OnSendEnd
  <2>1. PICK fn \in {"wrapOnSendEnd", "onSendEnd"} : Running(fn)
    BY <1>8 DEF OnSendPassed, OnSendEnd
  <2>2. /\ stack # <<>> /\ exc = None /\ Top \in Frame /\ Top.fn = fn
    BY <2>1, Runs
  <2>3. Watched /\ ~Stops(Top)
    <3>1. ~Spent(Top) /\ ~Quiet(Top)
      BY <1>8, <2>2 DEF Spent, Tries, Quiet, OnSendPassed, OnSendEnd, Running
    <3>2. ~Stops(Top)
      BY <2>2, SendKinds
    <3> QED BY <2>2, <3>1, <3>2 DEF Watched
  <2>4. PICK g : /\ Goto(g)
                 /\ g \in {[Top EXCEPT !.fn = "onSendEnd"], [Top EXCEPT !.fn = "writeHead"]}
    BY <1>8 DEF OnSendPassed, OnSendEnd
  <2>5. g.fn \in {"onSendEnd", "writeHead"}
    BY <2>2, <2>4 DEF Frame, FrameOf
  <2>6. Still(g) /\ ~Restarts(g)
    BY <2>5, StillOther DEF UserSide
  <2>7. Flagged'
    BY <1>0, <1>8, FlagsKept DEF OnSendPassed, OnSendEnd, Flagged, RequestTypeOK, ReplyType
  <2> QED BY <2>3, <2>4, <2>6, <2>7, ClosedGoto
<1>9. CASE OnSendEndRejects
  <2>1. /\ stack # <<>> /\ exc = None /\ Top.fn = "onSendEnd" /\ Throw("Error") /\ SameFlags /\ Still(Top)
    BY <1>0, <1>9, Runs, FlagsKept, ClosedTop DEF OnSendEndRejects
  <2>2. Watched /\ ~Stops(Top)
    BY <1>9, WatchedRuns DEF OnSendEndRejects, Tries
  <2>3. FramesIn(Settled)'
    BY <2>1, StillSettled, FramesMove DEF Closed
  <2>4. Shut'
    BY <2>1, <2>2, ShutThrown DEF Closed, Throw
  <2> QED BY <1>0, <2>1, <2>3, <2>4 DEF Closed, Flagged
<1>10. CASE SendStream
  <2>1. stack # <<>> /\ exc = None /\ Top \in Frame /\ SameFlags
    BY <1>0, <1>10, Runs, FlagsKept DEF SendStream
  <2>2. PICK y : y = [Top EXCEPT !.fn = "pipe"]
    OBVIOUS
  <2>3. y.fn = "pipe" /\ Leave(y) /\ exc' = None
    BY <1>10, <2>1, <2>2 DEF SendStream, Frame, FrameOf, Leave
  <2>4. Still(y)
    BY <2>3, StillOther DEF UserSide
  <2> QED BY <1>0, <2>1, <2>3, <2>4, ClosedReturn
<1>11. CASE WriteHead
  <2>1. /\ stack # <<>> /\ exc = None /\ Writes(Top) /\ Still(Top) /\ res.head = "none"
    BY <1>11, Runs, ClosedTop DEF WriteHead, Writes
  <2>2. Return /\ exc' = None
    BY <1>11, <2>1 DEF WriteHead, Return
  <2>3. Flagged'
    BY <1>0, <1>11 DEF WriteHead, Flagged
  <2> QED BY <2>1, <2>2, <2>3, ClosedReturn
<1>12. CASE AwaitedReplySent
  <2>1. /\ stack # <<>> /\ exc = None /\ Top.fn = "awaitReply" /\ Top \in Frame /\ Fits(Top) /\ Top.c \in UserFns
        /\ SameFlags /\ ~MayStart(Top) /\ Settle(Fulfilment(Top))
    BY <1>0, <1>12, Runs, FlagsKept, ClosedTop DEF AwaitedReplySent, UserSide
  <2>2. Top.c \in PayloadChains => Writes(Top)
    BY <2>1 DEF Fits, Writes, UserSide
  <2>3. PICK v, fn : v = None /\ fn = "fulfilled"
    OBVIOUS
  <2>4. PICK g : g = Fulfilment(Top)
    OBVIOUS
  <2>5. Still(g)
    BY <2>1, <2>2, <2>3, <2>4, StillOutcome DEF UserSide
  <2>6. exc' = None
    BY <2>1 DEF Settle
  <2> QED BY <1>0, <2>1, <2>4, <2>5, <2>6, ClosedReturn
<1>13. CASE AwaitedReplyPending
  BY <1>13, ClosedFlagged DEF AwaitedReplyPending
<1> QED BY <1>1, <1>2, <1>3, <1>4, <1>5, <1>6, <1>7, <1>8, <1>9, <1>10, <1>11, <1>12, <1>13 DEF ReplySteps

(* User code. *)
LEMMA UserSettled ==
  ASSUME TypeOK, Lock, Closed, Running("user")
  PROVE  /\ ~MayStart(Top)
         /\ ~Top.done \/ IsAsync => Watched /\ (Top.c \in PayloadChains => Writes(Top))
         /\ Stops(Top) => IsAsync \/ (Top.m = "sync" /\ Top.c \in PayloadChains)
<1>1. stack # <<>> /\ exc = None /\ Top.fn = "user" /\ ~MayStart(Top)
  BY UserRuns, ClosedTop
<1>2. ~Top.done \/ IsAsync => Watched
  <2>1. ~Top.done \/ IsAsync => ~Spent(Top)
    BY UserRuns
  <2>2. ~Quiet(Top)
    BY <1>1 DEF Quiet
  <2> QED BY <1>1, <2>1, <2>2 DEF Watched
<1>3. Stops(Top) => IsAsync \/ (Top.m = "sync" /\ Top.c \in PayloadChains)
  BY <1>1 DEF Stops, IsAsyncUser, IsAsync, Catches
<1> QED BY <1>1, <1>2, <1>3, UserRuns

(* What keeps the chain, the place in it and the continuation of t.        *)
LEMMA StillLike ==
  ASSUME NEW t \in Frame, ~MayStart(t), t.fn \in UserSide, NEW y, y.fn \in UserSide, y.c = t.c, y.k = t.k, y.i = t.i,
         Writes(y) => Writes(t)
  PROVE  Still(y)
BY DEF Still, MayStart, OfError, UserSide

LEMMA StillFinished ==
  ASSUME NEW t \in Frame, ~MayStart(t), Fits(t), t.fn = "user", NEW h, h = Finished(t)
  PROVE  Still(h) /\ (Stops(h) <=> Stops(t)) /\ (Restarts(h) <=> Restarts(t))
<1>1. /\ h.fn = "user" /\ h.c = t.c /\ h.k = t.k /\ h.i = t.i
      /\ Catches(h) <=> Catches(t)
      /\ IsAsyncUser(h) <=> IsAsyncUser(t)
      /\ Writes(h) => Writes(t)
  <2>1. h.fn = "user" /\ h.c = t.c /\ h.k = t.k /\ h.i = t.i
    BY DEF Finished, Frame, FrameOf
  <2> QED BY <2>1, FinishedUser
<1>2. Still(h)
  BY <1>1, StillLike DEF UserSide
<1> QED BY <1>1, <1>2 DEF Stops, Restarts, OfError

LEMMA UserCallsClosed ==
  ASSUME TypeOK, TypeOK', Lock, Closed, UserCallsNext \/ UserFails \/ UserSends \/ UserCallsNotFound
  PROVE  Closed'
<1>0. Running("user") /\ (~Top.done \/ IsAsync)
  BY DEF UserCallsNext, UserFails, UserSends, UserCallsNotFound, May, OnceMore
<1>1. /\ stack # <<>> /\ Top \in Frame /\ Fits(Top) /\ Top.fn = "user" /\ Top.c \in UserFns
      /\ Watched /\ ~MayStart(Top) /\ (Top.c \in PayloadChains => Writes(Top))
  BY <1>0, UserRuns, UserSettled
<1>2. Flagged'
  <2>1. UNCHANGED <<reply, res>>
    BY DEF UserCallsNext, UserFails, UserSends, UserCallsNotFound, request
  <2> QED BY <2>1, FlagsKept, ClosedFlagged DEF TypeOK
<1>3. PICK h : h = Finished(Top)
  OBVIOUS
<1>4. Still(h) /\ (Stops(h) <=> Stops(Top)) /\ (Restarts(h) <=> Restarts(Top))
  BY <1>1, <1>3, StillFinished
<1>5. \E g : Call(h, g) /\ Still(g) /\ g.fn \notin {"thenTry", "cbTry", "user"}
  <2>1. CASE UserCallsNext \/ UserFails
    <3>1. PICK err, new : Call(h, Completion(Top, err, new)) /\ Top.c \in HookChains \cup {"parser"}
      BY <1>3, <2>1 DEF UserCallsNext, UserFails, ByCallback, IsHook
    <3>2. PICK g, v, fn : g = Completion(Top, err, new) /\ fn = "fulfilled" /\ v = None
      OBVIOUS
    <3>3. Still(g) /\ g.fn \notin {"thenTry", "cbTry", "user"}
      BY <1>1, <3>1, <3>2, StillOutcome DEF UserSide
    <3> QED BY <3>1, <3>2, <3>3
  <2>2. CASE UserSends
    <3>1. PICK p : Call(h, [Plain("send") EXCEPT !.p = p, !.f = did.sends + 1])
      BY <1>3, <2>2 DEF UserSends
    <3>2. PICK g : g = [Plain("send") EXCEPT !.p = p, !.f = did.sends + 1]
      OBVIOUS
    <3>3. g.fn = "send"
      BY <3>2 DEF Plain
    <3> QED BY <3>1, <3>2, <3>3, StillOther DEF UserSide
  <2>3. CASE UserCallsNotFound
    <3>1. PICK g : g = [Plain("notFound") EXCEPT !.f = did.sends + 1]
      OBVIOUS
    <3>2. g.fn = "notFound" /\ Call(h, g)
      BY <1>3, <2>3, <3>1 DEF UserCallsNotFound, Plain
    <3> QED BY <3>2, StillOther DEF UserSide
  <2> QED BY <2>1, <2>2, <2>3
<1> QED BY <1>1, <1>2, <1>4, <1>5, ClosedCall

(* It ends, for now or for good, *)
LEMMA UserLeavesClosed ==
  ASSUME TypeOK, TypeOK', Lock, Closed,
         \/ UserDefers \/ UserAwaits \/ UserReturns \/ HookResolves \/ ParserResolves \/ HandlerResolves
         \/ UserAwaitsReply \/ UserRejects
  PROVE  Closed'
<1>0. Running("user") /\ UNCHANGED <<reply, res>>
  BY DEF UserDefers, UserAwaits, UserReturns, HookResolves, ParserResolves, HandlerResolves, UserAwaitsReply,
     UserRejects, May, request
<1>1. /\ stack # <<>> /\ exc = None /\ Top \in Frame /\ Top.fn = "user" /\ Top.c \in UserFns
      /\ ~MayStart(Top) /\ (~Top.done \/ IsAsync => (Top.c \in PayloadChains => Writes(Top)))
  BY <1>0, UserRuns, UserSettled
<1>2. Flagged'
  BY <1>0, FlagsKept, ClosedFlagged DEF TypeOK
<1>3. \E y : Still(y) /\ (Return \/ Leave(y) \/ Settle(y))
  <2>1. CASE UserReturns
    <3>1. Still(Top)
      BY <1>1 DEF Still
    <3> QED BY <2>1, <3>1 DEF UserReturns
  <2>2. CASE UserDefers \/ UserAwaits \/ UserAwaitsReply
    <3>1. PICK y : /\ y \in {[Top EXCEPT !.m = "late"], [Top EXCEPT !.m = "resumed"],
                             [Top EXCEPT !.fn = "awaitReply"]}
                   /\ Leave(y) \/ Settle(y)
      BY <2>2 DEF UserDefers, UserAwaits, UserAwaitsReply
    <3>2. y.fn \in UserSide /\ y.c = Top.c /\ y.k = Top.k /\ y.i = Top.i
      BY <1>1, <3>1 DEF Frame, FrameOf, UserSide
    <3>3. ~Top.done \/ IsAsync
      BY <2>2 DEF UserDefers, UserAwaits, UserAwaitsReply, IsAsync
    <3>4. Writes(y) => Writes(Top)
      BY <1>1, <3>2, <3>3 DEF Writes, UserSide
    <3>5. Still(y)
      BY <1>1, <3>2, <3>4, StillLike DEF UserSide
    <3> QED BY <3>1, <3>5
  <2>3. CASE HookResolves \/ ParserResolves \/ HandlerResolves \/ UserRejects
    <3>1. IsAsync
      BY <2>3 DEF HookResolves, ParserResolves, HandlerResolves, UserRejects
    <3>2. PICK y, err, new, v :
            /\ Settle(y)
            /\ \/ y \in {Rejection(Top, err), BodyDone(Top, err), Thenable(Top, "fulfilled", v),
                         [Thenable(Top, "fulfilled", v) EXCEPT !.f = MaxSends + 1]}
               \/ Top.c \in HookChains /\ y = NextOf(Top, err, new)
      BY <2>3 DEF HookResolves, ParserResolves, HandlerResolves, UserRejects, IsHook
    <3>3. PICK fn : fn = "fulfilled"
      OBVIOUS
    <3>4. Still(y)
      BY <1>1, <3>1, <3>2, <3>3, StillOutcome DEF UserSide
    <3> QED BY <3>2, <3>4
  <2> QED BY <2>1, <2>2, <2>3
<1>4. PICK y : Still(y) /\ (Return \/ Leave(y) \/ Settle(y))
  BY <1>3
<1>5. exc' = None
  BY <1>1, <1>4 DEF Return, Leave, Settle
<1> QED BY <1>1, <1>2, <1>4, <1>5, ClosedReturn

(* throws, or is reached by an exception. *)
LEMMA UserThrewClosed ==
  ASSUME TypeOK, TypeOK', Lock, Closed, HookThrew \/ HandlerThrew \/ AsyncUserThrew \/ UserThrewUncaught
  PROVE  Closed'
<1>0. RequestTypeOK /\ (SameFlags => Flagged')
  BY ClosedFlagged DEF TypeOK
<1>1. /\ stack # <<>> /\ exc # None /\ Top.fn = "user" /\ Top \in Frame /\ Fits(Top) /\ Top.c \in UserFns
      /\ ~MayStart(Top) /\ Still(Top) /\ Watched
      /\ IsAsyncUser(Top) <=> IsAsync
  <2>1. stack # <<>> /\ exc # None /\ Top.fn = "user" /\ Top \in Frame /\ Fits(Top) /\ Top.c \in UserFns
    BY LockAtTop DEF HookThrew, HandlerThrew, AsyncUserThrew, UserThrewUncaught, Unwinding
  <2> QED BY <2>1, ClosedTop DEF Watched, IsAsyncUser, IsAsync
<1>2. Flagged'
  <2>1. SameFlags
    BY <1>0, FlagsKept DEF HookThrew, HandlerThrew, AsyncUserThrew, UserThrewUncaught
  <2> QED BY <1>0, <2>1
<1>3. CASE HookThrew
  <2>1. PICK g : g = NextOf(Top, exc, None)
    OBVIOUS
  <2>2. Catch(g) /\ exc' = None /\ Top.m = "sync" /\ Top.c \in HookChains
    BY <1>3, <2>1 DEF HookThrew, IsHook, Catch
  <2>3. CASE Top.c \in PayloadChains
    <3>1. ~OfError(Top)
      <4>1. Catches(Top) /\ ~Restarts(Top)
        BY <1>1, <2>2, <2>3, ShutTop DEF Closed, Catches
      <4> QED BY <4>1 DEF Restarts
    <3>2. Still(g) /\ Quiet(g)
      BY <1>1, <2>1, <2>2, <2>3, <3>1, StillChain
    <3> QED BY <1>1, <1>2, <2>2, <3>2, ClosedQuiet
  <2>4. CASE Top.c \notin PayloadChains
    <3>1. Top.c \in OtherChains
      BY <2>2, <2>4 DEF OtherChains, HookChains
    <3>2. Neutral(g)
      BY <1>1, <2>1, <3>1, NeutralChain
    <3>3. ~Stops(Top)
      BY <1>1, <2>2, <2>4 DEF Stops, Catches, IsAsyncUser
    <3> QED BY <1>1, <1>2, <2>2, <3>2, <3>3, StillNeutral, ClosedGoto
  <2> QED BY <2>3, <2>4
<1>4. CASE HandlerThrew
  <2>1. PICK g : g = [Top EXCEPT !.fn = "send", !.p = exc, !.done = FALSE]
    OBVIOUS
  <2>2. g.fn = "send" /\ Catch(g)
    BY <1>1, <1>4, <2>1 DEF HandlerThrew, Frame, FrameOf
  <2>3. Still(g) /\ ~Restarts(g)
    BY <2>2, StillOther DEF UserSide
  <2>4. ~Stops(Top)
    BY <1>1, <1>4 DEF HandlerThrew, Stops, Catches, IsAsyncUser, PayloadChains
  <2> QED BY <1>1, <1>2, <2>2, <2>3, <2>4, ClosedGoto
<1>5. CASE AsyncUserThrew
  <2>1. PICK g, new, v, err, fn : g = Rejection(Top, err) /\ err = exc /\ new = None /\ v = None /\ fn = "rejected"
    OBVIOUS
  <2>2. CatchSettling(g) /\ exc' = None /\ IsAsync
    BY <1>5, <2>1 DEF AsyncUserThrew, CatchSettling
  <2>3. Top.c \in PayloadChains => Writes(Top)
    BY <1>1, <2>2 DEF Writes, UserSide, IsAsync
  <2>4. Still(g)
    BY <1>1, <2>1, <2>3, StillOutcome DEF UserSide
  <2> QED BY <1>1, <1>2, <2>2, <2>4, ClosedReturn
<1>6. CASE UserThrewUncaught
  <2>1. Pass /\ ~IsAsync /\ (Top.m = "late" \/ Top.c \in {"parser", "errorHandler"})
    BY <1>6 DEF UserThrewUncaught
  <2>2. ~Stops(Top)
    BY <1>1, <2>1 DEF Stops, Catches, PayloadChains
  <2>3. FramesIn(Settled)'
    BY <1>1, <2>1, StillSettled, FramesMove DEF Closed
  <2>4. Shut'
    BY <1>1, <2>1, <2>2, ShutThrown DEF Closed, Pass
  <2> QED BY <1>2, <2>3, <2>4 DEF Closed, Flagged
<1> QED BY <1>3, <1>4, <1>5, <1>6

LEMMA UserStepsClosed ==
  ASSUME TypeOK, TypeOK', Lock, Closed, UserSteps
  PROVE  Closed'
<1>0. RequestTypeOK /\ (SameFlags => Flagged')
  BY ClosedFlagged DEF TypeOK
<1>1. CASE UserThrows
  <2>1. Running("user") /\ ~Top.done /\ UNCHANGED <<stack, ready, jobs>> /\ SameFlags
    BY <1>0, <1>1, FlagsKept DEF UserThrows, May
  <2>2. Watched
    BY <2>1, UserSettled
  <2>3. ~Reopens(stack)
    BY <2>2 DEF Closed, Shut, Watched
  <2>4. FramesIn(Settled)' /\ Shut'
    BY <2>1, <2>3 DEF Closed, FramesIn, Shut
  <2> QED BY <1>0, <2>1, <2>4 DEF Closed, Flagged
<1>2. CASE UserHijacks \/ UserMarksSent
  <2>1. Running("user") /\ ~reply.sent
    BY <1>2 DEF UserHijacks, UserMarksSent, May
  <2> QED BY <2>1, ClosedFlagged
<1>3. CASE UserSetsNoContent
  <2>1. UNCHANGED <<stack, ready, jobs, exc>> /\ SameFlags
    BY <1>0, <1>3, FlagsKept DEF UserSetsNoContent, loop
  <2>2. FramesIn(Settled)'
    BY <2>1 DEF Closed, FramesIn
  <2>3. Shut'
    BY <2>1 DEF Closed, Shut, Top, SameFlags
  <2> QED BY <1>0, <2>1, <2>2, <2>3 DEF Closed, Flagged
<1>4. CASE HandlerReturnsValue
  <2>1. PICK p : Goto([Plain("send") EXCEPT !.p = p, !.f = MaxSends + 1])
    BY <1>4 DEF HandlerReturnsValue
  <2>2. PICK g : g = [Plain("send") EXCEPT !.p = p, !.f = MaxSends + 1]
    OBVIOUS
  <2>3. g.fn = "send"
    BY <2>2 DEF Plain
  <2>4. Still(g) /\ ~Restarts(g)
    BY <2>3, StillOther DEF UserSide
  <2>5. Running("user") /\ ~Top.done /\ SameFlags /\ ~IsAsync /\ Top.c = "handler"
    BY <1>0, <1>4, FlagsKept DEF HandlerReturnsValue, May, IsAsync
  <2>6. Watched /\ ~Stops(Top)
    BY <2>5, UserSettled DEF PayloadChains
  <2> QED BY <1>0, <2>1, <2>2, <2>4, <2>5, <2>6, ClosedGoto
<1> QED BY <1>1, <1>2, <1>3, <1>4, UserCallsClosed, UserLeavesClosed, UserThrewClosed DEF UserSteps

(* The request phase: with reply.sent set it only drops what it is given.  *)
LEMMA NeutralCloses ==
  ASSUME TypeOK, TypeOK', Lock, Closed, NEW fn \in NeutralFns \ {"send", "handlerTry"}, Running(fn),
         NEW g, Neutral(g), Goto(g), SameFlags
  PROVE  Closed'
<1>1. Watched /\ ~Stops(Top)
  BY WatchedRuns DEF NeutralFns, Tries
<1> QED BY <1>1, ClosedFlagged, StillNeutral, ClosedGoto

LEMMA ThenStepsClosed ==
  ASSUME TypeOK, TypeOK', Lock, Closed, FulfilledSends \/ ThenTryThrew \/ Handler \/ HandlerTryThrew
  PROVE  Closed'
<1>0. RequestTypeOK /\ (SameFlags => Flagged')
  BY ClosedFlagged DEF TypeOK
<1>1. CASE FulfilledSends
  <2>1. stack # <<>> /\ exc = None /\ Top \in Frame /\ Top.fn = "fulfilled" /\ SameFlags
    BY <1>0, <1>1, Runs, FlagsKept DEF FulfilledSends
  <2>2. Tail(stack) = <<>>
    BY <2>1, LockAtTop DEF LockTop, First
  <2>3. PICK g, h : g = [Top EXCEPT !.fn = "send", !.e = None] /\ h = [Top EXCEPT !.fn = "thenTry"]
    OBVIOUS
  <2>4. g.fn = "send" /\ h.fn = "thenTry" /\ Call(h, g)
    BY <1>1, <2>1, <2>3 DEF FulfilledSends, Frame, FrameOf
  <2>5. Still(g) /\ Still(h)
    BY <2>4, SendKinds DEF Still, UserSide
  <2> QED BY <1>0, <2>1, <2>2, <2>4, <2>5, ClosedCall
<1>2. CASE ThenTryThrew
  <2>1. stack # <<>> /\ exc # None /\ Top \in Frame /\ Top.fn = "thenTry"
    BY <1>2, LockAtTop DEF ThenTryThrew, Unwinding
  <2>2. reply.onErr /\ Tail(stack) \in Seq(Frame)
    <3>1. Restarts(Top)
      BY <2>1 DEF Restarts
    <3>2. stack \in Seq(Frame)
      BY DEF TypeOK, LoopTypeOK
    <3>3. Reopens(stack)
      BY <2>1, <3>1, <3>2, ReopensByFirst DEF Top
    <3> QED BY <2>1, <3>2, <3>3 DEF Closed, Shut
  <2>3. reply'.onErr
    BY <1>0, <1>2, <2>2 DEF ThenTryThrew, RequestTypeOK, ReplyType
  <2>4. PICK g : g = [Top EXCEPT !.fn = "send", !.p = exc, !.e = None]
    OBVIOUS
  <2>5. g.fn = "send" /\ Catch(g)
    BY <1>2, <2>1, <2>4 DEF ThenTryThrew, Frame, FrameOf
  <2>6. Still(g) /\ ~Restarts(g) /\ ~Stops(g)
    BY <2>5, StillOther DEF UserSide
  <2>7. FramesIn(Settled)'
    BY <2>1, <2>5, <2>6, StillSettled, FramesMove DEF Closed
  <2>8. Tail(stack) = <<>>
    BY <2>1, LockAtTop DEF LockTop, First
  <2>9. ~Reopens(Tail(stack))
    <3>1. ~Reopens(<<>>)
      BY DEF Reopens
    <3> QED BY <2>8, <3>1
  <2>10. Shut'
    BY <2>2, <2>5, <2>6, <2>9, ShutOnTop DEF Catch
  <2> QED BY <2>3, <2>7, <2>10 DEF Closed
<1>3. CASE Handler
  <2>1. Watched /\ ~Stops(Top) /\ stack # <<>> /\ Top \in Frame /\ SameFlags
    BY <1>0, <1>3, Runs, FlagsKept, WatchedRuns DEF Handler, Tries
  <2>2. PICK g, h : g = StartChain(Top, "preValidation") /\ h = [Top EXCEPT !.fn = "handlerTry"]
    OBVIOUS
  <2>3. h.fn = "handlerTry" /\ Call(h, g)
    BY <1>3, <2>1, <2>2 DEF Handler, Frame, FrameOf
  <2>4. Still(h) /\ ~Restarts(h)
    BY <2>3, StillOther DEF UserSide
  <2>5. Neutral(g)
    BY <2>1, <2>2, NeutralStart DEF OtherChains, RequestChains
  <2>6. g.fn \notin {"thenTry", "cbTry", "user"}
    <3>1. PICK t2 : t2 = [Top EXCEPT !.c = "preValidation", !.i = 0, !.e = None]
      OBVIOUS
    <3>2. t2 \in Frame /\ t2.c = "preValidation"
      BY <2>1, <3>1 DEF Frame, FrameOf, UserFns, HookChains, RequestChains, Payload
    <3>3. PICK err, new : err = None /\ new = None
      OBVIOUS
    <3>4. ~OfError(t2) /\ t2.c \in HookChains
      BY <3>2 DEF OfError, HookChains, RequestChains
    <3>5. g = Callback(t2, err) \/ g = NextOf(t2, err, new)
      BY <2>2, <3>1, <3>3 DEF StartChain
    <3> QED BY <3>2, <3>4, <3>5, StillChain
  <2> QED BY <1>0, <2>1, <2>3, <2>4, <2>5, <2>6, StillNeutral, ClosedCall
<1>4. CASE HandlerTryThrew
  <2>1. stack # <<>> /\ exc # None /\ Top \in Frame /\ Top.fn = "handlerTry" /\ SameFlags
    BY <1>0, <1>4, LockAtTop, FlagsKept DEF HandlerTryThrew, Unwinding
  <2>2. PICK g : g = [Top EXCEPT !.fn = "preValidationCallback", !.e = exc]
    OBVIOUS
  <2>3. g.fn = "preValidationCallback" /\ Catch(g)
    BY <1>4, <2>1, <2>2 DEF HandlerTryThrew, Frame, FrameOf
  <2>4. Still(g) /\ ~Restarts(g)
    BY <2>3, StillOther DEF UserSide
  <2>5. Watched /\ ~Stops(Top)
    BY <2>1, SendKinds DEF Watched
  <2> QED BY <1>0, <2>1, <2>3, <2>4, <2>5, ClosedGoto
<1> QED BY <1>1, <1>2, <1>3, <1>4

LEMMA LifecycleStepsClosed ==
  ASSUME TypeOK, TypeOK', Lock, Closed, LifecycleSteps
  PROVE  Closed'
<1>0. RequestTypeOK /\ (SameFlags => Flagged')
  BY ClosedFlagged DEF TypeOK
<1>1. CASE \/ RunPreParsing \/ CallbackFails \/ HandleWithoutBody \/ HandleRefused \/ HandleBadMethod
           \/ HandleCustomParser \/ HandleRawBody \/ PreValidationCallback \/ PreHandlerCallback \/ RejectedSends
  <2>1. ~reply.sent
    BY <1>1 DEF RunPreParsing, CallbackFails, HandleWithoutBody, HandleRefused, HandleBadMethod,
       HandleCustomParser, HandleRawBody, PreValidationCallback, PreHandlerCallback, RejectedSends, Handling
  <2>2. PICK fn \in {"runPreParsing", "handleRequest", "preValidationCallback", "preHandlerCallback", "rejected"} :
          Running(fn)
    BY <1>1 DEF RunPreParsing, CallbackFails, HandleWithoutBody, HandleRefused, HandleBadMethod,
       HandleCustomParser, HandleRawBody, PreValidationCallback, PreHandlerCallback, RejectedSends, Handling
  <2> QED BY <2>1, <2>2, ClosedFlagged
<1>2. CASE RouteHandler
  <2>1. SameFlags
    BY <1>0, <1>2 DEF RouteHandler, SameFlags, RequestTypeOK, ResType
  <2>2. Neutral(StartChain(Top, "onRequest"))
    BY <1>2, Runs, NeutralStart DEF RouteHandler, OtherChains, RequestChains
  <2> QED BY <1>2, <2>1, <2>2, NeutralCloses DEF RouteHandler, NeutralFns
<1>3. CASE CallbackDropped \/ HandlerTryReturns \/ FulfilledIgnored \/ RejectedIgnored
  <2>1. stack # <<>> /\ exc = None /\ SameFlags /\ Return
    BY <1>0, <1>3, FlagsKept
    DEF CallbackDropped, HandlerTryReturns, FulfilledIgnored, RejectedIgnored, Running, Steady
  <2>2. Still(Top) /\ exc' = None
    BY <2>1, ClosedTop DEF Return
  <2> QED BY <1>0, <2>1, <2>2, ClosedReturn
<1>4. CASE BodyDoneFails \/ BodyDoneHandles
  <2>1. Running("bodyDone") /\ SameFlags
    BY <1>0, <1>4, FlagsKept DEF BodyDoneFails, BodyDoneHandles
  <2>2. PICK g : Goto(g) /\ g \in {[Top EXCEPT !.fn = "send", !.p = Top.e], [Top EXCEPT !.fn = "handler"]}
    BY <1>4 DEF BodyDoneFails, BodyDoneHandles
  <2>3. g.fn \in {"send", "handler"}
    BY <2>1, <2>2, Runs DEF Frame, FrameOf
  <2>4. Neutral(g)
    BY <2>3, NeutralFrame DEF NeutralFns
  <2> QED BY <2>1, <2>2, <2>4, NeutralCloses DEF NeutralFns
<1> QED BY <1>1, <1>2, <1>3, <1>4, ThenStepsClosed DEF LifecycleSteps

(* The platform, and what is in no turn. *)
LEMMA JobClosed ==
  ASSUME Lock, Closed, Idle, NEW y \in jobs
  PROVE  y \in Frame /\ FitsJob(y) /\ Fits(y) /\ ~MayStart(y) /\ Still(y) /\ stack = <<>>
BY JobFacts DEF Closed, FramesIn, Settled, Still, Idle

LEMMA ReadyClosed ==
  ASSUME TypeOK, TypeOK', Lock, Closed, RunReady, Flagged'
  PROVE  Closed'
<1>1. LockIdle(ready, jobs, None, reply.sent, reply.onErr, res.head)
  BY LockWhenIdle DEF RunReady
<1>2. PICK t : t = Head(ready)
  OBVIOUS
<1>3. FitsReady(t)
  <2>1. ready \in Seq(Frame) /\ ready # <<>> /\ AllReady(ready)
    BY <1>1 DEF LockIdle, Ground, RunReady
  <2> QED BY <1>2, <2>1, ByFirst
<1>4. ~Restarts(t)
  BY <1>3 DEF FitsReady, Restarts, Catches
<1>5. stack' = <<t>> /\ <<t>> \o <<>> = <<t>> /\ <<>> \in Seq(Frame) /\ ~Reopens(<<>>)
  BY <1>2 DEF RunReady, Reopens
<1>6. Shut'
  BY <1>4, <1>5, ShutOnTop
<1>7. FramesIn(Settled)'
  <2>1. PICK z : z = Plain("send")
    OBVIOUS
  <2>2. Still(z)
    BY <2>1, StillOther DEF Plain, UserSide
  <2> QED BY <2>2, StillSettled, FramesTurn DEF Closed
<1> QED BY <1>6, <1>7 DEF Closed, Flagged

LEMMA PlatformStepsClosed ==
  ASSUME TypeOK, TypeOK', Lock, Closed, PlatformSteps \/ Mishap \/ UNCHANGED vars
  PROVE  Closed'
<1>0. RequestTypeOK /\ (SameFlags => Flagged')
  BY ClosedFlagged DEF TypeOK
<1>1. Flagged'
  <2>1. reply' = reply
    BY DEF PlatformSteps, Mishap, RunPromiseJob, UserGoesOn, RawEnd, RawBodyDone, RawBodyBroken,
       StreamData, StreamEnd, StreamErrorAfterHead, StreamErrorBeforeHead, AwaitedReplyOver, ResFinish,
       ProcessLost, ResError, ClientAborts, request, vars
  <2> QED BY <2>1 DEF Closed, Flagged
<1>2. PICK z : z = Plain("send")
  OBVIOUS
<1>3. Still(z) /\ ~Restarts(z)
  BY <1>2, StillOther DEF Plain, UserSide
<1>4. CASE RunPromiseJob
  BY <1>1, <1>4, ReadyClosed DEF RunPromiseJob
<1>5. CASE RawEnd \/ StreamEnd \/ StreamErrorAfterHead
  <2>1. PICK y : DropJob(y)
    BY <1>5 DEF RawEnd, StreamEnd, StreamErrorAfterHead
  <2>2. stack = <<>>
    BY <2>1 DEF DropJob, Idle
  <2> QED BY <1>1, <1>3, <2>1, <2>2, ClosedTurn
<1>6. CASE ProcessLost
  <2>1. Escapes /\ stack = <<>>
    BY <1>6 DEF ProcessLost, Escapes
  <2> QED BY <1>1, <1>3, <2>1, ClosedTurn
<1>7. CASE StreamData \/ ClientAborts
  <2>1. UNCHANGED <<stack, ready, jobs>> /\ stack = <<>>
    BY <1>7 DEF StreamData, ClientAborts, loop, Idle
  <2> QED BY <1>1, <1>3, <2>1, ClosedTurn
<1>8. CASE UNCHANGED vars
  <2>1. UNCHANGED <<stack, ready, jobs, exc, reply>>
    BY <1>8 DEF vars, loop, request
  <2>2. FramesIn(Settled)'
    BY <2>1 DEF Closed, FramesIn
  <2>3. Shut'
    BY <2>1 DEF Closed, Shut, Top
  <2> QED BY <1>1, <2>2, <2>3 DEF Closed, Flagged
<1>9. CASE UserGoesOn
  <2>1. PICK y, k : y \in jobs /\ y.fn = "user" /\ StartTurn(k, y, y)
    BY <1>9 DEF UserGoesOn
  <2>2. Idle
    BY <2>1 DEF StartTurn
  <2>3. Still(y) /\ FitsJob(y) /\ stack = <<>>
    BY <2>1, <2>2, JobClosed
  <2>4. ~Restarts(y)
    BY <2>1, <2>3 DEF FitsJob, Restarts, Catches
  <2> QED BY <1>1, <2>1, <2>3, <2>4, ClosedTurn
<1>10. CASE RawBodyDone \/ RawBodyBroken \/ StreamErrorBeforeHead
  <2>1. PICK y, err, g :
          /\ y \in jobs /\ StartTurn("callback", y, g)
          /\ \/ g = BodyDone(y, err)
             \/ g = [y EXCEPT !.fn = "send", !.p = "Error"]
             \/ g = [y EXCEPT !.fn = "onErrorHook", !.e = "Error", !.k = FALSE]
    BY <1>10 DEF RawBodyDone, RawBodyBroken, StreamErrorBeforeHead, PipeJob
  <2>2. Idle
    BY <2>1 DEF StartTurn
  <2>3. y \in Frame /\ stack = <<>>
    BY <2>1, <2>2, JobClosed
  <2>4. g.fn \in {"bodyDone", "send"} \/ (g.fn = "onErrorHook" /\ ~g.k)
    BY <2>1, <2>3 DEF BodyDone, Frame, FrameOf
  <2>5. Still(g) /\ ~Restarts(g)
    BY <2>4, StillOther DEF UserSide
  <2>6. PICK k : StartTurn(k, y, g)
    BY <2>1
  <2> QED BY <1>1, <2>3, <2>5, <2>6, ClosedTurn
<1>11. CASE AwaitedReplyOver
  <2>1. PICK y \in jobs : y.fn = "eos" /\ SettleJob(y, Fulfilment(y))
    BY <1>11 DEF AwaitedReplyOver
  <2>2. PICK g, err, new, v, fn : g = Fulfilment(y) /\ err = None /\ new = None /\ v = None /\ fn = "fulfilled"
    OBVIOUS
  <2>3. Idle
    BY <2>1 DEF SettleJob
  <2>4. y \in Frame /\ Fits(y) /\ ~MayStart(y) /\ stack = <<>>
    BY <2>1, <2>3, JobClosed
  <2>5. y.c \in UserFns /\ (y.c \in PayloadChains => Writes(y))
    BY <2>1, <2>4 DEF Fits, Frame, Writes, UserSide
  <2>6. Still(g)
    BY <2>1, <2>2, <2>4, <2>5, StillOutcome DEF UserSide
  <2>7. FramesIn(Settled)'
    BY <2>1, <2>2, <2>6, StillSettled, FramesTurn DEF Closed
  <2>8. Shut'
    BY <2>1, <2>4 DEF SettleJob, Shut
  <2> QED BY <1>1, <2>7, <2>8 DEF Closed, Flagged
<1>12. CASE ResFinish \/ ResError
  <2>1. PICK g : g = StartChain(Plain("hookNext"), "onResponse")
    OBVIOUS
  <2>2. Idle /\ (StartEvent(g) \/ UNCHANGED <<stack, ready, jobs>>)
    BY <1>12, <2>1 DEF ResFinish, ResError, OnResFinished, StartEvent, loop
  <2>3. Still(g) /\ ~Restarts(g)
    BY <2>1, NeutralResponse, StillNeutral
  <2>4. stack = <<>>
    BY <2>2 DEF Idle
  <2> QED BY <1>1, <2>2, <2>3, <2>4, ClosedTurn
<1> QED BY <1>4, <1>5, <1>6, <1>7, <1>8, <1>9, <1>10, <1>11, <1>12 DEF PlatformSteps, Mishap

LEMMA NextCloses ==
  ASSUME TypeOK, TypeOK', Lock, Closed, [Next]_vars
  PROVE  Closed' \/ ErrorHandlerCalled
BY HookStepsClosed, ReplyStepsClosed, UserStepsClosed, LifecycleStepsClosed, PlatformStepsClosed
   DEF Next, Progress, Stutter

-----------------------------------------------------------------------------
(* Nothing resets kReplyErrorHandlerCalled. *)
LEMMA OnlyErrorHandlerCalled ==
  ASSUME RequestTypeOK, [Next]_vars
  PROVE  reply'.ehCalled = reply.ehCalled \/ ErrorHandlerCalled
<1>0. reply \in ReplyType
  BY DEF RequestTypeOK
<1>1. CASE reply' = reply
  BY <1>1
<1>2. CASE HookRejected \/ PreParsingEnds
  BY <1>0, <1>2 DEF HookRejected, PreParsingEnds, ReplyType
<1>3. CASE \/ OnSendHook \/ OnSendEnd \/ OnErrorHookRuns \/ OnErrorHookSkipped \/ ErrorToOnSend \/ ErrorWritten
           \/ NotFoundInside404 \/ NotFound
  BY <1>0, <1>3 DEF OnSendHook, OnSendEnd, OnErrorHookRuns, OnErrorHookSkipped, ErrorToOnSend, ErrorWritten,
      NotFoundInside404, NotFound, ReplyType
<1>4. CASE UserHijacks \/ UserMarksSent \/ HandlerThrew
  BY <1>0, <1>4 DEF UserHijacks, UserMarksSent, HandlerThrew, ReplyType
<1>5. CASE ThenTryThrew \/ RejectedSends
  BY <1>0, <1>5 DEF ThenTryThrew, RejectedSends, ReplyType
<1>6. HookSteps => reply' = reply \/ HookRejected \/ PreParsingEnds
  BY DEF HookSteps, HookRunnerEnds, HookDropped, HookCalled, PreParsingDropped, PreParsingCalled, PayloadRunnerFails,
      PayloadRunnerEnds, PayloadHookCalled, PayloadCallbackThrew, PayloadCallbackReturns, request
<1>7. ReplySteps => \/ reply' = reply \/ ErrorHandlerCalled \/ OnSendHook \/ OnSendEnd \/ OnErrorHookRuns
                    \/ OnErrorHookSkipped \/ ErrorToOnSend \/ ErrorWritten \/ NotFoundInside404 \/ NotFound
  BY DEF ReplySteps, SendInsideOnError, SendAgain, SendError, SendAsIs, SendSerialized, PreserializationFailed,
      SerializerThrows, Serialized, OnSendFailed, OnSendPassed, OnSendEndRejects, SendStream, AwaitedReplySent,
      AwaitedReplyPending, OnResponseCallback, WriteHead, request
<1>8. UserSteps => reply' = reply \/ UserHijacks \/ UserMarksSent \/ HandlerThrew
  BY DEF UserSteps, UserCallsNext, UserFails, UserThrows, UserSends, UserCallsNotFound, UserSetsNoContent,
      HandlerReturnsValue, UserDefers, UserAwaits, UserReturns, HookResolves, ParserResolves, HandlerResolves,
      UserAwaitsReply, UserRejects, HookThrew, AsyncUserThrew, UserThrewUncaught, request
<1>9. LifecycleSteps => reply' = reply \/ ThenTryThrew \/ RejectedSends
  BY DEF LifecycleSteps, RouteHandler, RunPreParsing, CallbackDropped, CallbackFails, HandleWithoutBody,
      HandleRefused, HandleBadMethod, HandleCustomParser, HandleRawBody, BodyDoneFails, BodyDoneHandles, Handler,
      HandlerTryThrew, HandlerTryReturns, PreValidationCallback, PreHandlerCallback, FulfilledSends,
      FulfilledIgnored, RejectedIgnored, request
<1>10. PlatformSteps \/ Mishap \/ UNCHANGED vars => reply' = reply
  BY DEF PlatformSteps, Mishap, RunPromiseJob, UserGoesOn, RawEnd, RawBodyDone, RawBodyBroken,
      StreamData, StreamEnd, StreamErrorAfterHead, StreamErrorBeforeHead, AwaitedReplyOver, ResFinish,
      ProcessLost, ResError, ClientAborts, vars, request
<1> QED BY <1>1, <1>2, <1>3, <1>4, <1>5, <1>6, <1>7, <1>8, <1>9, <1>10 DEF Next, Progress, Stutter

(* A chain that may start finds nothing that would start another. *)
LEMMA ChainStartCloses ==
  ASSUME TypeOK, TypeOK', Lock, ChainStarts
  PROVE  MayStart(Top) /\ Closed'
<1>1. /\ stack # <<>> /\ exc = None /\ Top.fn = "sendNext" /\ Top \in Frame /\ Top.c = "onSend" /\ Top.i = 0
      /\ Top.e = None /\ UNCHANGED <<reply, res>>
  BY Runs DEF ChainStarts, PayloadHookCalled
<1>2. reply.sent /\ ~Below(Tail(stack), ready, jobs)
  BY <1>1, LockAtTop, LockFacts DEF Firm, Writes
<1>4. Tail(stack) \in Seq(Settled) /\ ready \in Seq(Settled) /\ jobs \subseteq Settled
  <2>1. ASSUME NEW q \in Seq(Frame), ~Writing(q) PROVE q \in Seq(Settled)
    <3>1. \A n \in 1..Len(q) : q[n] \in Settled
      BY <2>1, SendKinds DEF Writing, Settled
    <3> QED BY <3>1
  <2>2. Tail(stack) \in Seq(Frame) /\ ready \in Seq(Frame) /\ jobs \subseteq Frame
    BY <1>1 DEF TypeOK, LoopTypeOK
  <2>3. jobs \subseteq Settled
    BY <1>2, <2>2, SendKinds DEF Below, SomeJobWrites, Settled
  <2> QED BY <1>2, <2>1, <2>2, <2>3 DEF Below
<1>5. PICK s \in Style["onSend"] : Goto(User(Top, "onSend", 1, s))
  BY <1>1 DEF ChainStarts, PayloadHookCalled
<1>6. PICK g : g = User(Top, "onSend", 1, s)
  OBVIOUS
<1>7. Still(g) /\ ~Restarts(g) /\ Stops(g)
  <2>1. s \in {"sync", "async"}
    BY <1>5, UserAssumption DEF UserFns, HookChains, PayloadChains
  <2> QED BY <1>1, <1>6, <2>1, StillUser DEF PayloadChains
<1>8. /\ stack' = <<g>> \o Tail(stack) /\ Tail(stack) \in Seq(Frame)
      /\ ready' = ready /\ jobs' = jobs
  BY <1>1, <1>5, <1>6 DEF Goto, TypeOK, LoopTypeOK
<1>9. g \in Settled
  BY <1>7, <1>8, LockOnTop, StillSettled
<1>10. FramesIn(Settled)'
  BY <1>4, <1>8, <1>9 DEF FramesIn
<1>11. Shut'
  BY <1>7, <1>8, ShutOnTop
<1> QED BY <1>1, <1>2, <1>10, <1>11 DEF Closed, MayStart

LEMMA SendInvStep ==
  ASSUME TypeOK, TypeOK', Lock, SendInv, [Next]_vars
  PROVE  SendInv'
<1>1. did.onSend \in Nat /\ reply.ehCalled \in BOOLEAN /\ RequestTypeOK
  BY DEF TypeOK, RequestTypeOK, DidType, ReplyType
<1>2. CASE ChainStarts
  <2>1. ~SendsSpent /\ Closed'
    BY <1>2, ChainStartCloses, ClosedTop, Runs DEF SendInv, ChainStarts, PayloadHookCalled
  <2>2. reply' = reply /\ (did'.onSend = did.onSend \/ did'.onSend = did.onSend + 1)
    BY <1>1, <1>2, OnlyChainStarts DEF ChainStarts, PayloadHookCalled
  <2>3. SendsCounted'
    BY <1>1, <2>1, <2>2 DEF SendInv, SendsCounted, SendsSpent
  <2> QED BY <2>1, <2>3 DEF SendInv
<1>3. CASE ErrorHandlerCalled
  <2>1. ~reply.ehCalled /\ reply'.ehCalled = TRUE
    BY <1>1, <1>3, ErrorHandlerCounted
  <2>2. did'.onSend = did.onSend
    BY <1>1, <1>3, OnlyChainStarts DEF ErrorHandlerCalled, ChainStarts, PayloadHookCalled, Running
  <2> QED BY <1>1, <2>1, <2>2 DEF SendInv, SendsCounted, SendsSpent
<1>4. CASE ~ChainStarts /\ ~ErrorHandlerCalled
  <2>1. did'.onSend = did.onSend /\ reply'.ehCalled = reply.ehCalled
    BY <1>1, <1>4, OnlyChainStarts, OnlyErrorHandlerCalled
  <2>2. Closed => Closed'
    BY <1>4, NextCloses
  <2> QED BY <2>1, <2>2 DEF SendInv, SendsCounted, SendsSpent
<1> QED BY <1>2, <1>3, <1>4

(* The onSend chain is given a payload once, and once more for the error   *)
(* that takes its place: whatever hooks throw, reject, answer a second time *)
(* or leave to a later turn, neither onErrorHook nor wrapThenable brings a *)
(* third payload to it (onSendHook in lib/reply.js).                       *)
THEOREM OnSendTwiceAtMost ==
  ASSUME SyncSerialization
  PROVE  Spec /\ NotFoundInTime => []OnSendAtMostTwice
<1>1. Init => SendInv
  BY DEF Init, ExchangeInit, SendInv, SendsCounted, SendsSpent
<1>2. TypeOK /\ TypeOK' /\ Lock /\ SendInv /\ [Next]_vars => SendInv'
  BY SendInvStep
<1>3. SendInv => OnSendAtMostTwice
  BY DEF SendInv, SendsCounted, OnSendAtMostTwice
<1> QED BY <1>1, <1>2, <1>3, AlwaysLocked, TypeCorrect, PTL DEF Spec

-----------------------------------------------------------------------------
(***************************************************************************)
(* The order of the request phase.  One frame at most has the request: it  *)
(* calls the next user function of the phase, or waits for the one that    *)
(* was called.  A frame that may call callNotFound counts as one, since    *)
(* callNotFound starts the hooks of the 404 whoever has the request.       *)
(***************************************************************************)

RequestFns == RequestChains \cup {"parser"}

(* callNotFound is left to the handler, and to hooks and parsers that are  *)
(* not async functions.  An async hook still has the request after it      *)
(* called callNotFound: with its promise it calls the hooks of the route   *)
(* after those of the 404.  So does one whose error was given to an error  *)
(* handler, or to an onError, onSend or onResponse hook, that calls it.    *)
NotFoundInTurn ==
  \A c \in UserFns :
    "notFound" \in Acts[c] => c = "handler" \/ (c \in RequestFns /\ Style[c] \subseteq {"sync"})

(* The frames that go on with the request phase, *)
Live(t) ==
  \/ t.fn \in {"routeHandler", "rawBody", "handler"}
  \/ t.fn \in {"runPreParsing", "handleRequest", "bodyDone", "preValidationCallback",
               "preHandlerCallback"} /\ t.e = None
  \/ t.fn \in {"hookNext", "preParsingNext"} /\ t.c \in RequestChains /\ t.e = None
  \/ t.fn \in {"awaitReply", "eos"} /\ t.c \in RequestFns
  \/ t.fn = "user" /\ t.c \in RequestFns /\ (~t.done \/ t.m \in {"async", "resumed"})
(* those that may start over with the 404, *)
Asks(t) == t.fn = "notFound" \/ (t.fn = "user" /\ t.c = "handler" /\ ~t.done)
(* and both. *)
Token(t) == Live(t) \/ Asks(t)

(* The last function that was called is before those of this frame. *)
Reached(fn) ==
  CASE fn = "routeHandler"                     -> 0
    [] fn = "runPreParsing"                    -> 1
    [] fn = "handleRequest"                    -> 2
    [] fn \in {"rawBody", "bodyDone", "handler"} -> 3
    [] fn = "preValidationCallback"            -> 4
    [] OTHER                                   -> Phase("preHandler")

(* Hooks up to number i of chain c have been called, and none of a later   *)
(* one; of the 404 only the preHandler hooks run.                          *)
Stands(c, i) ==
  /\ did.phase < Phase(c) \/ (did.phase = Phase(c) /\ did.hook <= i)
  /\ ctx = "404" => c = "preHandler"

CallsOn == UserSide \cup {"hookNext", "preParsingNext"}
InTurn(t) ==
  IF t.fn \in CallsOn THEN Stands(t.c, t.i)
  ELSE did.phase <= Reached(t.fn) /\ (ctx = "404" => t.fn = "preHandlerCallback")

Due == {t \in Frame : Live(t) => InTurn(t)}

(* What the frames of the runners and of user functions work for. *)
Apt(t) ==
  /\ t.fn \in {"sendNext", "cbTry"} => t.c \in PayloadChains
  /\ t.fn = "preParsingNext" => t.c = "preParsing"
  /\ t.fn = "user" /\ t.m \in {"async", "resumed"} => "async" \in Style[t.c]
AptFrames == {t \in Frame : Apt(t)}

(* No frame of q has the request; one at most, and that is in V.           *)
Bare(q) == \A n \in 1..Len(q) : ~Token(q[n])
Lone(q, V) ==
  /\ \A n \in 1..Len(q) : Token(q[n]) => q[n] \in V
  /\ \A n, m \in 1..Len(q) : Token(q[n]) /\ Token(q[m]) => n = m
BareJobs(j) == \A x \in j : ~Token(x)
LoneJobs(j, V) == \A x \in j : Token(x) => x \in V /\ \A y \in j : Token(y) => x = y

Clear(q, r, j) == Bare(q) /\ Bare(r) /\ BareJobs(j)
Sole(q, r, j, V) ==
  /\ Lone(q, V) /\ Lone(r, V) /\ LoneJobs(j, V)
  /\ Bare(q) \/ Bare(r)
  /\ Bare(q) \/ BareJobs(j)
  /\ Bare(r) \/ BareJobs(j)

RoutePhase == ctx = "route" => did.phase <= 6
OrderInv == FramesIn(AptFrames) /\ Sole(stack, ready, jobs, Due) /\ RoutePhase

LEMMA NoFrameBare == Bare(<<>>) /\ \A V : Lone(<<>>, V)
BY DEF Bare, Lone

LEMMA BareIsLone ==
  ASSUME NEW q, Bare(q), NEW V
  PROVE  Lone(q, V)
BY DEF Bare, Lone

(* By the first frame and the rest, *)
LEMMA LoneByFirst ==
  ASSUME NEW S, NEW q \in Seq(S), q # <<>>, NEW V
  PROVE  /\ Bare(q) <=> ~Token(Head(q)) /\ Bare(Tail(q))
         /\ Lone(q, V) <=> /\ Lone(Tail(q), V)
                           /\ Token(Head(q)) => Head(q) \in V /\ Bare(Tail(q))
<1> DEFINE r == Tail(q)
<1>1. /\ Len(q) \in Nat /\ Len(q) >= 1 /\ Head(q) = q[1] /\ r \in Seq(S)
      /\ Len(r) = Len(q) - 1 /\ \A n \in 1..Len(r) : r[n] = q[n + 1]
  OBVIOUS
<1> HIDE DEF r
<1>2. \A n \in 1..Len(q) : n = 1 \/ (n - 1 \in 1..Len(r) /\ r[n - 1] = q[n])
  <2> SUFFICES ASSUME NEW n \in 1..Len(q), n # 1 PROVE n - 1 \in 1..Len(r) /\ r[n - 1] = q[n]
    OBVIOUS
  <2>1. n - 1 \in 1..Len(r) /\ (n - 1) + 1 = n
    BY <1>1
  <2> QED BY <1>1, <2>1
<1>3. 1 \in 1..Len(q) /\ \A n \in 1..Len(r) : n + 1 \in 1..Len(q) /\ r[n] = q[n + 1]
  BY <1>1
<1>4. Bare(q) <=> (~Token(q[1]) /\ Bare(r))
  BY <1>2, <1>3 DEF Bare
<1>5. ASSUME Lone(q, V) PROVE Lone(r, V) /\ (Token(q[1]) => q[1] \in V /\ Bare(r))
  <2>1. ASSUME NEW n \in 1..Len(r), NEW m \in 1..Len(r), Token(r[n]), Token(r[m]) PROVE n = m
    <3>1. n + 1 = m + 1
      BY <1>3, <1>5, <2>1 DEF Lone
    <3> QED BY <3>1
  <2>2. Token(q[1]) => Bare(r)
    <3> SUFFICES ASSUME Token(q[1]), NEW n \in 1..Len(r), Token(r[n]) PROVE FALSE
      BY DEF Bare
    <3>1. n + 1 = 1
      BY <1>3, <1>5 DEF Lone
    <3> QED BY <3>1
  <2> QED BY <1>3, <1>5, <2>1, <2>2 DEF Lone
<1>6. ASSUME Lone(r, V), Token(q[1]) => q[1] \in V /\ Bare(r) PROVE Lone(q, V)
  <2>1. ASSUME NEW n \in 1..Len(q), NEW m \in 1..Len(q), Token(q[n]), Token(q[m]) PROVE n = m
    <3>1. CASE n = 1 \/ m = 1
      BY <1>2, <1>6, <2>1, <3>1 DEF Bare
    <3>2. CASE n # 1 /\ m # 1
      <4>1. n - 1 = m - 1
        BY <1>2, <1>6, <2>1, <3>2 DEF Lone
      <4> QED BY <4>1
    <3> QED BY <3>1, <3>2
  <2>2. \A n \in 1..Len(q) : Token(q[n]) => q[n] \in V
    BY <1>2, <1>6 DEF Lone
  <2> QED BY <2>1, <2>2 DEF Lone
<1> QED BY <1>1, <1>4, <1>5, <1>6 DEF r

(* and with one behind the others. *)
LEMMA LoneAtEnd ==
  ASSUME NEW q \in Seq(Frame), NEW g, NEW V
  PROVE  /\ Bare(q) /\ ~Token(g) => Bare(Append(q, g))
         /\ Lone(q, V) /\ ~Token(g) => Lone(Append(q, g), V)
         /\ Bare(q) /\ g \in V => Lone(Append(q, g), V)
<1> DEFINE r == Append(q, g)
<1>1. /\ Len(q) \in Nat /\ Len(r) = Len(q) + 1 /\ r[Len(q) + 1] = g
      /\ \A n \in 1..Len(q) : r[n] = q[n]
  OBVIOUS
<1> HIDE DEF r
<1>2. \A n \in 1..Len(r) : n \in 1..Len(q) \/ n = Len(q) + 1
  BY <1>1
<1>3. Bare(q) /\ ~Token(g) => Bare(r)
  BY <1>1, <1>2 DEF Bare
<1>4. Lone(q, V) /\ ~Token(g) => Lone(r, V)
  BY <1>1, <1>2 DEF Lone
<1>5. Bare(q) /\ g \in V => Lone(r, V)
  BY <1>1, <1>2 DEF Lone, Bare
<1> QED BY <1>3, <1>4, <1>5 DEF r

(* A frame that has the request finds room where no other has it. *)
Room(q, r, j, V, g) == (~Token(g) /\ Sole(q, r, j, V)) \/ (g \in V /\ Clear(q, r, j))

LEMMA ClearIsSole ==
  ASSUME NEW q, NEW r, NEW j, NEW V, Clear(q, r, j)
  PROVE  Sole(q, r, j, V)
BY BareIsLone DEF Clear, Sole, BareJobs, LoneJobs

LEMMA Added ==
  ASSUME NEW q \in Seq(Frame), NEW r \in Seq(Frame), NEW j, NEW V, NEW g, Room(q, r, j, V, g)
  PROVE  /\ Sole(<<g>> \o q, r, j, V) /\ Sole(q, Append(r, g), j, V) /\ Sole(q, r, j \cup {g}, V)
<1>1. PICK s : s = <<g>> \o q
  OBVIOUS
<1>2. /\ Bare(s) <=> ~Token(g) /\ Bare(q)
      /\ Lone(s, V) <=> Lone(q, V) /\ (Token(g) => g \in V /\ Bare(q))
  <2>1. s # <<>> /\ Head(s) = g /\ Tail(s) = q /\ s \in Seq(Frame \cup {g})
    BY <1>1, OnTop
  <2>2. /\ Bare(s) <=> ~Token(Head(s)) /\ Bare(Tail(s))
        /\ Lone(s, V) <=> Lone(Tail(s), V) /\ (Token(Head(s)) => Head(s) \in V /\ Bare(Tail(s)))
    BY <2>1, LoneByFirst
  <2> QED BY <2>1, <2>2, Zenon
<1>3. PICK a : a = Append(r, g)
  OBVIOUS
<1>4. /\ Bare(r) /\ ~Token(g) => Bare(a)
      /\ Lone(r, V) /\ ~Token(g) => Lone(a, V)
      /\ Bare(r) /\ g \in V => Lone(a, V)
  BY <1>3, LoneAtEnd
<1>5. PICK y : y = j \cup {g}
  OBVIOUS
<1>6. CASE ~Token(g) /\ Sole(q, r, j, V)
  <2>1. (BareJobs(j) => BareJobs(y)) /\ LoneJobs(y, V)
    BY <1>5, <1>6 DEF BareJobs, LoneJobs, Sole
  <2> QED BY <1>1, <1>2, <1>3, <1>4, <1>5, <1>6, <2>1 DEF Sole
<1>7. CASE g \in V /\ Clear(q, r, j)
  <2>1. LoneJobs(y, V)
    BY <1>5, <1>7 DEF BareJobs, LoneJobs, Clear
  <2>2. Lone(q, V) /\ Lone(r, V) /\ LoneJobs(j, V)
    BY <1>7, ClearIsSole DEF Sole
  <2> QED BY <1>1, <1>2, <1>3, <1>4, <1>5, <1>7, <2>1, <2>2 DEF Sole, Clear
<1> QED BY <1>6, <1>7 DEF Room

LEMMA StillClear ==
  ASSUME NEW q \in Seq(Frame), NEW r, NEW j, NEW h, Clear(q, r, j), ~Token(h)
  PROVE  Clear(<<h>> \o q, r, j) /\ Clear(q, r, j \cup {h})
<1>1. PICK s : s = <<h>> \o q
  OBVIOUS
<1>2. Bare(s)
  <2>1. s # <<>> /\ Head(s) = h /\ Tail(s) = q /\ s \in Seq(Frame \cup {h})
    BY <1>1, OnTop
  <2> QED BY <2>1, LoneByFirst DEF Clear
<1> QED BY <1>1, <1>2 DEF Clear, BareJobs

(* What is left when a frame is taken away. *)
LEMMA TopTaken ==
  ASSUME NEW s \in Seq(Frame), s # <<>>, NEW r, NEW j, NEW V, NEW W, Sole(s, r, j, V),
         Token(Head(s)) \/ V \subseteq W
  PROVE  /\ Sole(Tail(s), r, j, W)
         /\ Token(Head(s)) => Head(s) \in V /\ Clear(Tail(s), r, j)
<1>1. /\ Bare(s) <=> ~Token(Head(s)) /\ Bare(Tail(s))
      /\ Lone(s, V) <=> Lone(Tail(s), V) /\ (Token(Head(s)) => Head(s) \in V /\ Bare(Tail(s)))
  BY LoneByFirst
<1>2. Token(Head(s)) => Head(s) \in V /\ Clear(Tail(s), r, j)
  BY <1>1 DEF Sole, Clear
<1>3. CASE Token(Head(s))
  BY <1>2, <1>3, ClearIsSole
<1>4. CASE ~Token(Head(s)) /\ V \subseteq W
  <2>1. Sole(Tail(s), r, j, V)
    BY <1>1, <1>4 DEF Sole
  <2> QED BY <1>2, <1>4, <2>1 DEF Sole, Lone, LoneJobs
<1> QED BY <1>3, <1>4

LEMMA JobTaken ==
  ASSUME NEW q, NEW r, NEW j, NEW V, Sole(q, r, j, V), NEW x \in j
  PROVE  /\ Sole(q, r, j \ {x}, V)
         /\ Token(x) => x \in V /\ Clear(q, r, j \ {x})
<1>1. Token(x) => x \in V /\ BareJobs(j \ {x}) /\ ~BareJobs(j)
  BY DEF Sole, LoneJobs, BareJobs
<1>2. LoneJobs(j \ {x}, V) /\ (BareJobs(j) => BareJobs(j \ {x}))
  BY DEF Sole, LoneJobs, BareJobs
<1> QED BY <1>1, <1>2 DEF Sole, Clear

LEMMA ReadyTaken ==
  ASSUME NEW r \in Seq(Frame), r # <<>>, NEW j, NEW V, Sole(<<>>, r, j, V)
  PROVE  Sole(<<Head(r)>>, Tail(r), j, V)
<1>1. /\ Bare(r) <=> ~Token(Head(r)) /\ Bare(Tail(r))
      /\ Lone(r, V) <=> Lone(Tail(r), V) /\ (Token(Head(r)) => Head(r) \in V /\ Bare(Tail(r)))
  BY LoneByFirst
<1>2. Tail(r) \in Seq(Frame) /\ <<>> \in Seq(Frame)
  OBVIOUS
<1>3. PICK g : g = Head(r)
  OBVIOUS
<1>4. Room(<<>>, Tail(r), j, V, g)
  BY <1>1, <1>3, NoFrameBare DEF Room, Sole, Clear
<1>5. Sole(<<g>> \o <<>>, Tail(r), j, V)
  BY <1>2, <1>4, Added
<1>6. <<g>> \o <<>> = <<g>>
  OBVIOUS
<1> QED BY <1>3, <1>5, <1>6

-----------------------------------------------------------------------------
(* A frame made by x may have the request only where x had it, and then    *)
(* stands where x stood; or it never has it.                               *)
Follows(x, g) == g \in Frame => Apt(g) /\ (Token(g) => Token(x)) /\ (Live(g) => InTurn(g))
Extra(g) == g \in Frame => Apt(g) /\ ~Token(g)

LEMMA ExtraFollows ==
  ASSUME NEW g, Extra(g), NEW x
  PROVE  Follows(x, g)
BY DEF Extra, Follows, Token

LEMMA MadeFrames ==
  ASSUME TypeOK, TypeOK', stack # <<>>, NEW g, NEW h
  PROVE  /\ \/ Goto(g) \/ Catch(g) \/ Leave(g) \/ Settle(g) \/ CatchSettling(g) \/ Call(h, g)
            \/ LeaveAndGo(h, g)
            => g \in Frame
         /\ Call(h, g) \/ LeaveAndGo(h, g) => h \in Frame
<1>1. Tail(stack) \in Seq(Frame) /\ stack' \in Seq(Frame) /\ ready \in Seq(Frame) /\ ready' \in Seq(Frame)
      /\ jobs' \subseteq Frame
  BY DEF TypeOK, LoopTypeOK
<1>2. ASSUME Goto(g) \/ Catch(g) \/ LeaveAndGo(h, g) PROVE g \in Frame
  <2>1. stack' = <<g>> \o Tail(stack)
    BY <1>2 DEF Goto, Catch, LeaveAndGo
  <2>2. Head(stack') = g /\ stack' # <<>>
    BY <1>1, <2>1, OnTop
  <2> QED BY <1>1, <2>2
<1>3. ASSUME Call(h, g) PROVE g \in Frame /\ h \in Frame
  <2>1. <<g, h>> \o Tail(stack) \in Seq(Frame)
    BY <1>1, <1>3 DEF Call
  <2> QED BY <1>1, <2>1, TwoOnTop
<1>4. Leave(g) => g \in Frame
  BY <1>1 DEF Leave
<1>5. ASSUME Settle(g) \/ CatchSettling(g) PROVE g \in Frame
  <2>1. Append(ready, g) \in Seq(Frame)
    BY <1>1, <1>5 DEF Settle, CatchSettling
  <2>2. Append(ready, g)[Len(ready) + 1] = g /\ Len(Append(ready, g)) = Len(ready) + 1 /\ Len(ready) \in Nat
    BY <1>1, <2>1
  <2> QED BY <2>1, <2>2
<1>6. LeaveAndGo(h, g) => h \in Frame
  BY <1>1 DEF LeaveAndGo
<1> QED BY <1>2, <1>3, <1>4, <1>5, <1>6

Yields(g, W) == Token(g) => Token(Top) /\ g \in W

(* The request stays with one frame in every move of EventLoop, *)
LEMMA SoleMove ==
  ASSUME TypeOK, TypeOK', stack # <<>>, NEW V, NEW W, Sole(stack, ready, jobs, V), Token(Top) \/ V \subseteq W,
         NEW g, g \in Frame => Yields(g, W), NEW h, h \in Frame => Yields(h, W), ~(Token(g) /\ Token(h)), NEW v,
         \/ Goto(g) \/ Call(h, g) \/ Return \/ Pass \/ Leave(g) \/ Settle(g) \/ LeaveAndGo(h, g)
         \/ Throw(v) \/ Catch(g) \/ CatchSettling(g)
  PROVE  Sole(stack', ready', jobs', W)
<1>1. PICK q : q = Tail(stack)
  OBVIOUS
<1>2. /\ q \in Seq(Frame) /\ ready \in Seq(Frame) /\ stack \in Seq(Frame)
  BY <1>1 DEF TypeOK, LoopTypeOK
<1>3. Sole(q, ready, jobs, W) /\ (Token(Top) => Clear(q, ready, jobs))
  <2>1. \/ Token(Head(stack))
        \/ V \subseteq W
    BY DEF Top
  <2> QED BY <1>1, <1>2, <2>1, TopTaken DEF Top
<1>4. CASE Return \/ Pass \/ Throw(v)
  BY <1>1, <1>3, <1>4 DEF Return, Pass, Throw
<1>5. ASSUME g \in Frame
      PROVE  Room(q, ready, jobs, W, g)
  BY <1>3, <1>5 DEF Room, Yields
<1>6. CASE Goto(g) \/ Catch(g) \/ Leave(g) \/ Settle(g) \/ CatchSettling(g)
  <2>1. Room(q, ready, jobs, W, g)
    BY <1>5, <1>6, MadeFrames
  <2>2. Sole(<<g>> \o q, ready, jobs, W) /\ Sole(q, Append(ready, g), jobs, W) /\ Sole(q, ready, jobs \cup {g}, W)
    BY <1>2, <2>1, Added
  <2> QED BY <1>1, <1>6, <2>2 DEF Goto, Catch, Leave, Settle, CatchSettling
<1>7. CASE Call(h, g) \/ LeaveAndGo(h, g)
  <2>1. g \in Frame /\ h \in Frame
    BY <1>7, MadeFrames
  <2>2. PICK s : s = <<h>> \o q
    OBVIOUS
  <2>3. PICK y : y = jobs \cup {h}
    OBVIOUS
  <2>4. s \in Seq(Frame)
    BY <1>2, <2>1, <2>2
  <2>5. Sole(s, ready, jobs, W) /\ Sole(q, ready, y, W)
    <3>1. Room(q, ready, jobs, W, h)
      BY <1>3, <2>1 DEF Room, Yields
    <3> QED BY <1>2, <2>2, <2>3, <3>1, Added
  <2>6. ~Token(h) /\ Token(Top) => Clear(s, ready, jobs) /\ Clear(q, ready, y)
    BY <1>2, <1>3, <2>2, <2>3, StillClear
  <2>7. Room(s, ready, jobs, W, g) /\ Room(q, ready, y, W, g)
    BY <2>1, <2>5, <2>6 DEF Room, Yields
  <2>8. Sole(<<g>> \o s, ready, jobs, W) /\ Sole(<<g>> \o q, ready, y, W)
    BY <1>2, <2>4, <2>7, Added
  <2>9. CASE Call(h, g)
    <3>1. stack' = <<g, h>> \o q /\ stack' \in Seq(Frame) /\ ready' = ready /\ jobs' = jobs
      BY <1>1, <2>9 DEF Call, TypeOK, LoopTypeOK
    <3>2. <<g, h>> \o q = <<g>> \o s
      BY <1>2, <2>2, <3>1, TwoOnTop
    <3> QED BY <2>8, <3>1, <3>2
  <2>10. CASE LeaveAndGo(h, g)
    BY <1>1, <2>3, <2>8, <2>10 DEF LeaveAndGo
  <2> QED BY <1>7, <2>9, <2>10
<1> QED BY <1>4, <1>6, <1>7

(* and in every start of a turn. *)
LEMMA SoleTurn ==
  ASSUME TypeOK, TypeOK', NEW V, Sole(stack, ready, jobs, V), NEW y, NEW g,
         g \in Frame /\ Token(g) => y \in jobs /\ Token(y) /\ g \in V, NEW k,
         \/ RunReady \/ StartTurn(k, y, g) \/ DropJob(y) \/ SettleJob(y, g) \/ (StartEvent(g) /\ ~Token(g))
         \/ Escapes \/ UNCHANGED <<stack, ready, jobs>>
  PROVE  Sole(stack', ready', jobs', V)
<1>1. ready \in Seq(Frame) /\ <<>> \in Seq(Frame)
  BY DEF TypeOK, LoopTypeOK
<1>2. CASE RunReady
  BY <1>1, <1>2, ReadyTaken DEF RunReady
<1>3. CASE DropJob(y)
  BY <1>3, JobTaken DEF DropJob
<1>4. CASE Escapes \/ UNCHANGED <<stack, ready, jobs>>
  BY <1>4 DEF Escapes
<1>5. CASE StartTurn(k, y, g) \/ (StartEvent(g) /\ ~Token(g))
  <2>1. stack = <<>> /\ stack' = <<g>> /\ ready' = ready /\ stack' \in Seq(Frame)
    BY <1>5 DEF StartTurn, StartEvent, Idle, TypeOK, LoopTypeOK
  <2>2. g \in Frame /\ <<g>> \o <<>> = <<g>>
    BY <2>1
  <2>3. Room(<<>>, ready, jobs', V, g)
    BY <1>5, <2>1, <2>2, JobTaken DEF Room, StartTurn, StartEvent
  <2>4. Sole(<<g>> \o <<>>, ready, jobs', V)
    BY <1>1, <2>3, Added
  <2> QED BY <2>1, <2>2, <2>4
<1>6. CASE SettleJob(y, g)
  <2>1. stack = <<>> /\ stack' = stack /\ ready' = Append(ready, g) /\ ready' \in Seq(Frame) /\ y \in jobs
        /\ jobs' = jobs \ {y}
    BY <1>6 DEF SettleJob, Idle, TypeOK, LoopTypeOK
  <2>2. g \in Frame
    <3>1. Append(ready, g)[Len(ready) + 1] = g /\ Len(Append(ready, g)) = Len(ready) + 1 /\ Len(ready) \in Nat
      BY <1>1
    <3> QED BY <2>1, <3>1
  <2>3. Room(<<>>, ready, jobs', V, g)
    BY <2>1, <2>2, JobTaken DEF Room
  <2> QED BY <1>1, <2>1, <2>3, Added
<1> QED BY <1>2, <1>3, <1>4, <1>5, <1>6

(* The order is kept by what goes on without calling a function of the     *)
(* request phase, *)
SamePlace == did'.phase = did.phase /\ did'.hook = did.hook /\ ctx' = ctx

LEMMA DueKept ==
  ASSUME SamePlace
  PROVE  Due' = Due /\ (RoutePhase => RoutePhase')
BY DEF SamePlace, Due, InTurn, Stands, Reached, Phase, RoutePhase

LEMMA OrderKept ==
  ASSUME TypeOK, TypeOK', OrderInv, stack # <<>>, SamePlace,
         NEW g, Follows(Top, g), NEW h, Extra(h), NEW v,
         \/ Goto(g) \/ Call(h, g) \/ Call(g, h) \/ Return \/ Pass \/ Leave(g) \/ Settle(g)
         \/ LeaveAndGo(h, g) \/ Throw(v) \/ Catch(g) \/ CatchSettling(g)
  PROVE  OrderInv'
<1>1. PICK V : V = Due
  OBVIOUS
<1>2. /\ g \in Frame => g \in AptFrames /\ Yields(g, V)
      /\ h \in Frame => h \in AptFrames /\ ~Token(h) /\ Yields(h, V)
  BY <1>1 DEF Follows, Extra, AptFrames, Yields, Due, Token
<1>3. AptFrames \subseteq Frame
  BY DEF AptFrames
<1>4. Sole(stack, ready, jobs, V) /\ FramesIn(AptFrames)
  BY <1>1 DEF OrderInv
<1>5. FramesIn(AptFrames)' /\ Sole(stack', ready', jobs', V)
  <2>1. CASE Call(g, h)
    <3>1. ~(Token(h) /\ Token(g))
      BY <1>2, <2>1, MadeFrames
    <3> QED BY <1>2, <1>3, <1>4, <2>1, <3>1, FramesMove, SoleMove
  <2>2. CASE Call(h, g) \/ LeaveAndGo(h, g)
    <3>1. ~(Token(g) /\ Token(h))
      BY <1>2, <2>2, MadeFrames
    <3> QED BY <1>2, <1>3, <1>4, <2>2, <3>1, FramesMove, SoleMove
  <2>3. CASE \/ Goto(g) \/ Return \/ Pass \/ Leave(g) \/ Settle(g) \/ Throw(v) \/ Catch(g) \/ CatchSettling(g)
    <3>1. PICK z : z = Plain("send")
      OBVIOUS
    <3>2. ~Token(z) /\ Apt(z)
      BY <3>1 DEF Plain, Token, Live, Asks, UserSide, Apt
    <3>3. (z \in Frame => z \in AptFrames /\ Yields(z, V)) /\ ~(Token(g) /\ Token(z))
      BY <3>2 DEF AptFrames, Yields
    <3> QED BY <1>2, <1>3, <1>4, <2>3, <3>3, FramesMove, SoleMove
  <2> QED BY <2>1, <2>2, <2>3
<1>6. V = Due' /\ RoutePhase'
  BY <1>1, DueKept DEF OrderInv
<1> QED BY <1>5, <1>6 DEF OrderInv

(* by what calls one, *)
LEMMA OrderMoves ==
  ASSUME TypeOK, TypeOK', OrderInv, stack # <<>>, Token(Top), RoutePhase',
         NEW g, Apt(g), (Live(g) => InTurn(g))', Goto(g)
  PROVE  OrderInv'
<1>1. PICK V : V = Due
  OBVIOUS
<1>2. PICK W : W = Due'
  OBVIOUS
<1>3. g \in Frame
  BY MadeFrames
<1>4. g \in AptFrames /\ AptFrames \subseteq Frame /\ g \in W
  BY <1>2, <1>3 DEF AptFrames, Due
<1>5. Sole(stack, ready, jobs, V) /\ FramesIn(AptFrames)
  BY <1>1 DEF OrderInv
<1>6. PICK z : z = Plain("send")
  OBVIOUS
<1>7. ~Token(z) /\ Apt(z)
  BY <1>6 DEF Plain, Token, Live, Asks, UserSide, Apt
<1>8. Yields(g, W) /\ (z \in Frame => z \in AptFrames /\ Yields(z, W)) /\ ~(Token(g) /\ Token(z))
  BY <1>4, <1>7 DEF Yields, AptFrames
<1>9. FramesIn(AptFrames)'
  BY <1>4, <1>5, <1>8, FramesMove
<1>10. Sole(stack', ready', jobs', W)
  BY <1>5, <1>8, SoleMove
<1> QED BY <1>2, <1>9, <1>10 DEF OrderInv

(* and when a turn starts. *)
LEMMA OrderTurn ==
  ASSUME TypeOK, TypeOK', OrderInv, SamePlace, NEW y, NEW g,
         Extra(g) \/ (Follows(y, g) /\ y \in jobs), NEW k,
         \/ RunReady \/ StartTurn(k, y, g) \/ DropJob(y) \/ SettleJob(y, g) \/ (StartEvent(g) /\ ~Token(g))
         \/ Escapes \/ UNCHANGED <<stack, ready, jobs>>
  PROVE  OrderInv'
<1>1. PICK V : V = Due
  OBVIOUS
<1>2. AptFrames \subseteq Frame /\ Sole(stack, ready, jobs, V) /\ FramesIn(AptFrames)
  BY <1>1 DEF OrderInv, AptFrames
<1>3. /\ g \in Frame => g \in AptFrames
      /\ g \in Frame /\ Token(g) => y \in jobs /\ Token(y) /\ g \in V
  BY <1>1 DEF Follows, Extra, AptFrames, Due, Token
<1>4. FramesIn(AptFrames)'
  BY <1>2, <1>3, FramesTurn
<1>5. Sole(stack', ready', jobs', V)
  BY <1>2, <1>3, SoleTurn
<1>6. V = Due' /\ RoutePhase'
  BY <1>1, DueKept DEF OrderInv
<1> QED BY <1>4, <1>5, <1>6 DEF OrderInv

-----------------------------------------------------------------------------
(* The frames the code makes.                                              *)

LEMMA TopInTurn ==
  ASSUME TypeOK, OrderInv, NEW fn, Running(fn) \/ Unwinding(fn)
  PROVE  stack # <<>> /\ Top \in Frame /\ Top.fn = fn /\ Apt(Top) /\ (Live(Top) => InTurn(Top))
<1>1. stack # <<>> /\ Top.fn = fn /\ stack \in Seq(Frame) /\ stack \in Seq(AptFrames)
  BY DEF Running, Unwinding, OrderInv, FramesIn, TypeOK, LoopTypeOK
<1>2. Top \in Frame /\ Apt(Top)
  BY <1>1 DEF Top, AptFrames
<1>3. PICK V : V = Due
  OBVIOUS
<1>4. Lone(stack, V)
  BY <1>3 DEF OrderInv, Sole
<1>5. Token(Head(stack)) => Head(stack) \in V
  BY <1>1, <1>4, LoneByFirst
<1> QED BY <1>1, <1>2, <1>3, <1>5 DEF Top, Due, Token

LEMMA Numbers ==
  ASSUME TypeOK
  PROVE  /\ did.phase \in Nat /\ did.hook \in Nat /\ ctx \in {"route", "404"} /\ did \in DidType
         /\ reply \in ReplyType /\ res \in ResType
BY DEF TypeOK, RequestTypeOK, DidType

SpareFns ==
  {"handleReject", "handlerTry", "fulfilled", "rejected", "thenTry", "send", "preserializeHookEnd",
   "onSendHook", "wrapOnSendEnd", "onSendEnd", "writeHead", "onErrorHook", "handleError",
   "onResponseCallback", "pipe", "rawEnd"}
LEMMA SpareFrame ==
  ASSUME NEW g, g.fn \in SpareFns
  PROVE  Extra(g)
BY DEF Extra, SpareFns, Apt, Token, Live, Asks, UserSide

(* Where user function number i of c leaves the request, and where a chain *)
(* begins.                                                                 *)
LEMMA StandsReach ==
  ASSUME TypeOK, NEW c \in RequestChains, NEW i, Stands(c, i)
  PROVE  did.phase <= Reached(CallbackOf[c]) /\ (ctx = "404" => CallbackOf[c] = "preHandlerCallback")
<1>1. /\ c = "onRequest" => CallbackOf[c] = "runPreParsing" /\ Phase(c) = 1
      /\ c = "preParsing" => CallbackOf[c] = "handleRequest" /\ Phase(c) = 2
      /\ c = "preValidation" => CallbackOf[c] = "preValidationCallback" /\ Phase(c) = 4
      /\ c = "preHandler" => CallbackOf[c] = "preHandlerCallback"
  BY DEF CallbackOf, Phase
<1>2. Reached(CallbackOf[c]) = Phase(c)
  BY <1>1 DEF Reached, RequestChains
<1>3. Phase(c) \in Nat
  BY DEF Phase
<1> QED BY <1>1, <1>2, <1>3, Numbers DEF Stands

LEMMA ChainFollows ==
  ASSUME TypeOK, NEW x, NEW t \in Frame, t.c \in HookChains, NEW err, NEW new,
         t.c \in RequestChains /\ err = None => Token(x) /\ Stands(t.c, t.i)
  PROVE  Follows(x, Callback(t, err)) /\ Follows(x, NextOf(t, err, new))
<1>1. Follows(x, Callback(t, err))
  <2>1. PICK g : g = Callback(t, err)
    OBVIOUS
  <2>2. g.fn = CallbackOf[t.c] /\ (t.c \in RequestChains => g.e = err)
    BY <2>1 DEF Callback, Frame, FrameOf, RequestChains
  <2>3. CASE t.c \notin RequestChains
    <3>1. g.fn \in SpareFns
      BY <2>2, <2>3 DEF CallbackOf, SpareFns, HookChains, PayloadChains
    <3> QED BY <2>1, <3>1, SpareFrame, ExtraFollows
  <2>4. CASE t.c \in RequestChains
    <3>1. /\ g.fn \in {"runPreParsing", "handleRequest", "preValidationCallback", "preHandlerCallback"}
          /\ g.e = err
      BY <2>2, <2>4 DEF CallbackOf, RequestChains
    <3>2. Apt(g) /\ (Token(g) => err = None)
      BY <3>1 DEF Apt, Token, Live, Asks, UserSide
    <3>3. err = None => InTurn(g)
      BY <2>2, <2>4, <3>1, StandsReach DEF InTurn, CallsOn, UserSide
    <3> QED BY <2>1, <2>4, <3>2, <3>3 DEF Follows, Token
  <2> QED BY <2>3, <2>4
<1>2. Follows(x, NextOf(t, err, new))
  <2>1. PICK g : g = NextOf(t, err, new)
    OBVIOUS
  <2>2. /\ g.c = t.c /\ g.e = err /\ g.i = t.i
        /\ g.fn = CASE t.c \in PayloadChains -> "sendNext"
                    [] t.c = "preParsing" -> "preParsingNext" [] OTHER -> "hookNext"
    BY <2>1 DEF NextOf, Frame, FrameOf
  <2>3. /\ t.c \in PayloadChains => g.fn = "sendNext" /\ t.c \notin RequestChains
        /\ t.c = "preParsing" => g.fn = "preParsingNext"
        /\ t.c \notin PayloadChains \cup {"preParsing"} => g.fn = "hookNext"
    BY <2>2 DEF PayloadChains, RequestChains
  <2>4. Apt(g) /\ (Token(g) => t.c \in RequestChains /\ err = None)
    BY <2>2, <2>3 DEF Apt, Token, Live, Asks, UserSide, PayloadChains, RequestChains
  <2>5. Token(g) => InTurn(g)
    BY <2>2, <2>3, <2>4 DEF InTurn, CallsOn
  <2> QED BY <2>1, <2>4, <2>5 DEF Follows, Token
<1> QED BY <1>1, <1>2

LEMMA StartFollows ==
  ASSUME TypeOK, NEW x, NEW t \in Frame, NEW c \in HookChains,
         c \in RequestChains => Token(x) /\ did.phase < Phase(c) /\ (ctx = "404" => c = "preHandler")
  PROVE  Follows(x, StartChain(t, c))
<1>1. PICK s : s = [t EXCEPT !.c = c, !.i = 0, !.e = None]
  OBVIOUS
<1>2. s \in Frame /\ s.c = c /\ s.i = 0
  BY <1>1 DEF Frame, FrameOf, Payload, UserFns
<1>3. c \in RequestChains => Token(x) /\ Stands(c, 0)
  BY DEF Stands
<1>4. PICK err, new : err = None /\ new = None
  OBVIOUS
<1>5. Follows(x, Callback(s, err)) /\ Follows(x, NextOf(s, err, new))
  BY <1>2, <1>3, ChainFollows
<1> QED BY <1>1, <1>4, <1>5 DEF StartChain

LEMMA BodyFollows ==
  ASSUME NEW x, NEW t \in Frame, NEW err, err = None => Token(x) /\ did.phase <= 3 /\ ctx # "404"
  PROVE  Follows(x, BodyDone(t, err))
<1>1. PICK g : g = BodyDone(t, err)
  OBVIOUS
<1>2. g.fn = "bodyDone" /\ g.e = err
  BY <1>1 DEF BodyDone, Frame, FrameOf
<1>3. Apt(g) /\ (Token(g) => err = None) /\ (err = None => InTurn(g))
  BY <1>2 DEF Apt, Token, Live, Asks, UserSide, InTurn, CallsOn, Reached
<1> QED BY <1>1, <1>3 DEF Follows, Token

(* A function that goes on keeps its place. *)
GoesOn(t) == t.c \in RequestFns => Live(t) /\ InTurn(t)

LEMMA ParserStands ==
  ASSUME TypeOK, NEW i, Stands("parser", i)
  PROVE  did.phase <= 3 /\ ctx # "404"
BY Numbers DEF Stands, Phase

LEMMA OutcomeFollows ==
  ASSUME TypeOK, NEW t \in Frame, t.fn \in UserSide, GoesOn(t), NEW err, NEW new, NEW v, NEW fn \in {"fulfilled", "rejected"}
  PROVE  /\ t.c \in HookChains => Follows(t, NextOf(t, err, new))
         /\ t.c = "parser" => Follows(t, BodyDone(t, err))
         /\ t.c \in HookChains \cup {"parser"} => Follows(t, Completion(t, err, new))
         /\ Extra(Thenable(t, fn, v))
         /\ Follows(t, Rejection(t, err))
         /\ Follows(t, Fulfilment(t))
<1>0. t.c \in UserFns
  BY DEF Frame, UserSide
<1>1. t.c \in RequestFns => Token(t) /\ Stands(t.c, t.i)
  BY DEF GoesOn, InTurn, CallsOn, Token
<1>2. ASSUME NEW e, NEW n, t.c \in HookChains
      PROVE  Follows(t, Callback(t, e)) /\ Follows(t, NextOf(t, e, n))
  BY <1>1, <1>2, ChainFollows DEF RequestFns
<1>3. ASSUME NEW e, t.c = "parser" PROVE Follows(t, BodyDone(t, e))
  <2>1. Token(t) /\ did.phase <= 3 /\ ctx # "404"
    BY <1>1, <1>3, ParserStands DEF RequestFns
  <2> QED BY <2>1, BodyFollows
<1>4. ASSUME NEW f \in {"fulfilled", "rejected"}, NEW w
      PROVE  Extra(Thenable(t, f, w)) /\ Follows(t, Thenable(t, f, w))
  <2>1. PICK g : g = Thenable(t, f, w)
    OBVIOUS
  <2>2. g.fn \in SpareFns
    BY <2>1 DEF Thenable, Frame, FrameOf, SpareFns
  <2> QED BY <2>1, <2>2, SpareFrame, ExtraFollows
<1>5. ASSUME NEW e, NEW n, t.c \in HookChains \cup {"parser"} PROVE Follows(t, Completion(t, e, n))
  BY <1>2, <1>3, <1>5 DEF Completion
<1>6. Follows(t, Fulfilment(t))
  BY <1>0, <1>4, <1>5 DEF Fulfilment, UserFns
<1>7. Follows(t, Rejection(t, err))
  <2>1. CASE t.c \in {"handler", "errorHandler"}
    BY <1>4, <2>1 DEF Rejection, PayloadChains
  <2>2. CASE t.c = "parser"
    BY <1>3, <2>2 DEF Rejection, PayloadChains
  <2>3. CASE t.c = "preParsing"
    BY <1>2, <2>3 DEF Rejection, PayloadChains, HookChains, RequestChains
  <2>4. CASE t.c \in PayloadChains
    BY <1>2, <2>4 DEF Rejection, PayloadChains, HookChains
  <2>5. CASE t.c \notin {"handler", "errorHandler", "parser", "preParsing"} \cup PayloadChains
    <3>1. PICK g : g = [t EXCEPT !.fn = "handleReject", !.e = err, !.m = "sync", !.done = FALSE]
      OBVIOUS
    <3>2. g.fn \in SpareFns
      BY <3>1 DEF Frame, FrameOf, SpareFns
    <3>3. Rejection(t, err) = g
      BY <2>5, <3>1 DEF Rejection
    <3> QED BY <3>2, <3>3, SpareFrame, ExtraFollows
  <2> QED BY <2>1, <2>2, <2>3, <2>4, <2>5
<1> QED BY <1>2, <1>3, <1>4, <1>5, <1>6, <1>7

(* A user function that is called, of the request phase or not. *)
LEMMA UserIs ==
  ASSUME NEW t \in Frame, NEW c \in UserFns, NEW i, NEW s \in Style[c], NEW g, g = User(t, c, i, s)
  PROVE  g.fn = "user" /\ g.c = c /\ g.i = i /\ ~g.done /\ Apt(g)
<1>1. g.fn = "user" /\ g.c = c /\ g.i = i /\ g.m = s /\ g.done = FALSE
  BY DEF User, Frame, FrameOf
<1>2. s \in {"sync", "async"}
  BY UserAssumption
<1> QED BY <1>1, <1>2 DEF Apt

LEMMA UserExtra ==
  ASSUME NEW t \in Frame, NEW c \in UserFns \ (RequestFns \cup {"handler"}), NEW i, NEW s \in Style[c]
  PROVE  Extra(User(t, c, i, s))
<1>1. PICK g : g = User(t, c, i, s)
  OBVIOUS
<1>2. g.fn = "user" /\ g.c = c /\ Apt(g)
  BY <1>1, UserIs
<1>3. ~Token(g)
  BY <1>2 DEF Token, Live, Asks
<1> QED BY <1>1, <1>2, <1>3 DEF Extra

LEMMA RequestCalled ==
  ASSUME TypeOK, TypeOK', OrderInv, stack # <<>>, Token(Top), NEW c \in RequestFns \cup {"handler"},
         NEW i \in Nat, NEW s \in Style[c], Goto(User(Top, c, i, s)), Calls(c, i), ctx' = ctx,
         c \in RequestFns /\ ctx = "404" => c = "preHandler"
  PROVE  OrderInv' /\ did'.phase = Phase(c) /\ did'.hook = i
<1>1. Top \in Frame /\ c \in UserFns
  BY DEF TypeOK, LoopTypeOK, Top, RequestFns, UserFns, HookChains
<1>2. PICK g : g = User(Top, c, i, s)
  OBVIOUS
<1>3. g.fn = "user" /\ g.c = c /\ g.i = i /\ Apt(g)
  BY <1>1, <1>2, UserIs
<1>4. Phase(c) > 0 /\ (ctx = "route" => Phase(c) <= 6) /\ Phase(c)' = Phase(c) /\ Phase(c) \in Nat
  BY DEF Phase, RequestFns, RequestChains
<1>5. did'.phase = Phase(c) /\ did'.hook = i
  BY <1>4, Numbers DEF Calls, DidType
<1>6. (Live(g) => InTurn(g))'
  <2>1. Live(g) => c \in RequestFns
    BY <1>3 DEF Live, UserSide
  <2>2. c \in RequestFns => Stands(c, i)'
    BY <1>4, <1>5 DEF Stands
  <2> QED BY <1>3, <2>1, <2>2 DEF InTurn, CallsOn, UserSide
<1>7. RoutePhase'
  BY <1>4, <1>5 DEF RoutePhase
<1> QED BY <1>2, <1>3, <1>5, <1>6, <1>7, OrderMoves

-----------------------------------------------------------------------------
(* Every step keeps the order, and a call of the request phase goes up.    *)
Rises ==
  \/ did'.phase > did.phase
  \/ did'.phase = did.phase /\ did'.hook > did.hook

LEMMA HookCalledOrder ==
  ASSUME TypeOK, TypeOK', OrderInv, HookCalled
  PROVE  OrderInv' /\ (Top.c \in RequestChains => Rises)
<1>1. /\ stack # <<>> /\ Top \in Frame /\ Top.fn = "hookNext" /\ (Live(Top) => InTurn(Top))
      /\ Top.e = None /\ Top.i \in Nat /\ Top.c \in HookChains
  <2>1. stack # <<>> /\ Top \in Frame /\ Top.fn = "hookNext" /\ (Live(Top) => InTurn(Top)) /\ Top.e = None
    BY TopInTurn DEF HookCalled
  <2> QED BY <2>1 DEF Frame, FrameOf, RunnerFns
<1>2. PICK c, i, s : /\ c = Top.c /\ i = Top.i + 1 /\ s \in Style[c]
                     /\ Goto(User(Top, c, i, s)) /\ Calls(c, i) /\ ctx' = ctx
  BY DEF HookCalled
<1>3. CASE c \in RequestChains
  <2>1. Token(Top) /\ Stands(c, Top.i)
    BY <1>1, <1>2, <1>3 DEF Live, Token, InTurn, CallsOn
  <2>2. i \in Nat /\ (ctx = "404" => c = "preHandler")
    BY <1>1, <1>2, <2>1 DEF Stands
  <2>3. OrderInv' /\ did'.phase = Phase(c) /\ did'.hook = i
    BY <1>1, <1>2, <1>3, <2>1, <2>2, RequestCalled DEF RequestFns
  <2>4. Rises
    BY <1>1, <1>2, <2>1, <2>3, Numbers DEF Stands, Rises, Phase
  <2> QED BY <2>3, <2>4
<1>4. CASE c \notin RequestChains
  <2>1. c \in UserFns \ (RequestFns \cup {"handler"})
    BY <1>1, <1>2, <1>4 DEF UserFns, RequestFns, HookChains, PayloadChains
  <2>2. Phase(c) = 0
    BY <2>1 DEF Phase, RequestFns, RequestChains
  <2>3. SamePlace
    BY <1>2, <2>2, Numbers DEF Calls, SamePlace, DidType
  <2>4. PICK g : g = User(Top, c, i, s)
    OBVIOUS
  <2>5. Extra(g)
    BY <1>1, <1>2, <2>1, <2>4, UserExtra
  <2> QED BY <1>1, <1>2, <1>4, <2>3, <2>4, <2>5, ExtraFollows, OrderKept
<1> QED BY <1>2, <1>3, <1>4

LEMMA PreParsingCalledOrder ==
  ASSUME TypeOK, TypeOK', OrderInv, PreParsingCalled
  PROVE  OrderInv' /\ Rises /\ Top.c = "preParsing"
<1>1. /\ stack # <<>> /\ Top \in Frame /\ Top.fn = "preParsingNext" /\ (Live(Top) => InTurn(Top))
      /\ Top.e = None /\ Top.i \in Nat /\ Top.c = "preParsing"
  <2>1. /\ stack # <<>> /\ Top \in Frame /\ Top.fn = "preParsingNext" /\ (Live(Top) => InTurn(Top))
        /\ Top.e = None /\ Apt(Top)
    BY TopInTurn DEF PreParsingCalled
  <2> QED BY <2>1 DEF Frame, FrameOf, Apt
<1>2. PICK c, i, s : /\ c = "preParsing" /\ i = Top.i + 1 /\ s \in Style[c]
                     /\ Goto(User(Top, c, i, s)) /\ Calls(c, i) /\ ctx' = ctx
  BY <1>1 DEF PreParsingCalled
<1>3. Token(Top) /\ Stands(c, Top.i) /\ c \in RequestFns \cup {"handler"}
  BY <1>1, <1>2 DEF Live, Token, InTurn, CallsOn, RequestFns, RequestChains
<1>4. i \in Nat /\ (ctx = "404" => c = "preHandler")
  BY <1>1, <1>2, <1>3 DEF Stands
<1>5. OrderInv' /\ did'.phase = Phase(c) /\ did'.hook = i
  BY <1>1, <1>2, <1>3, <1>4, RequestCalled
<1>6. Rises
  BY <1>1, <1>2, <1>3, <1>5, Numbers DEF Stands, Rises, Phase
<1> QED BY <1>1, <1>5, <1>6

LEMMA HookStepsOrder ==
  ASSUME TypeOK, TypeOK', OrderInv, HookSteps
  PROVE  OrderInv'
<1>1. CASE HookDropped \/ PreParsingDropped \/ PayloadCallbackReturns
  <2>1. stack # <<>> /\ Return /\ SamePlace
    BY <1>1, TopInTurn DEF HookDropped, PreParsingDropped, PayloadCallbackReturns, SamePlace, request
  <2>2. PICK z : z = Plain("send")
    OBVIOUS
  <2>3. Extra(z)
    BY <2>2, SpareFrame DEF Plain, SpareFns
  <2> QED BY <2>1, <2>3, ExtraFollows, OrderKept
<1>2. CASE HookRunnerEnds \/ HookRejected \/ PreParsingEnds \/ PayloadRunnerFails \/ PayloadCallbackThrew
  <2>1. /\ stack # <<>> /\ Top \in Frame /\ Top.c \in HookChains /\ (Live(Top) => InTurn(Top)) /\ SamePlace
        /\ Top.fn \in {"hookNext", "handleReject", "preParsingNext", "sendNext", "cbTry"} /\ Apt(Top)
    <3>1. \E fn \in {"hookNext", "handleReject", "preParsingNext", "sendNext", "cbTry"} : Running(fn) \/ Unwinding(fn)
      BY <1>2 DEF HookRunnerEnds, HookRejected, PreParsingEnds, PayloadRunnerFails, PayloadCallbackThrew
    <3>2. SamePlace
      BY <1>2 DEF HookRunnerEnds, HookRejected, PreParsingEnds, PayloadRunnerFails, PayloadCallbackThrew,
         SamePlace, request
    <3>3. Top.fn \in RunnerFns => (Top \in Frame => Top.c \in HookChains)
      BY DEF Frame
    <3> QED BY <3>1, <3>2, <3>3, TopInTurn DEF RunnerFns
  <2>2. PICK err : /\ Goto(Callback(Top, err)) \/ Catch(Callback(Top, err))
                   /\ err = None => \/ Top.e = None /\ Top.fn \in {"hookNext", "preParsingNext"}
                                    \/ Top.fn \in {"sendNext", "cbTry"}
    BY <1>2, <2>1
    DEF HookRunnerEnds, HookRejected, PreParsingEnds, PayloadRunnerFails, PayloadCallbackThrew, Running, Unwinding
  <2>3. Top.c \in RequestChains /\ err = None => Token(Top) /\ Stands(Top.c, Top.i)
    BY <2>1, <2>2 DEF Token, Live, InTurn, CallsOn, Apt, RequestChains, PayloadChains
  <2>4. PICK g, new : g = Callback(Top, err) /\ new = None
    OBVIOUS
  <2>5. Follows(Top, g)
    BY <2>1, <2>3, <2>4, ChainFollows
  <2>6. Extra(Plain("send"))
    BY SpareFrame DEF Plain, SpareFns
  <2> QED BY <2>1, <2>2, <2>4, <2>5, <2>6, OrderKept
<1>3. CASE PayloadRunnerEnds
  <2>1. stack # <<>> /\ Top \in Frame /\ Top.c \in PayloadChains /\ SamePlace
    BY <1>3, TopInTurn DEF PayloadRunnerEnds, Apt, SamePlace, request
  <2>2. PICK h, g, err, new : /\ h = [Top EXCEPT !.fn = "cbTry"] /\ g = Callback(Top, err) /\ err = None
                              /\ new = None /\ Call(h, g)
    BY <1>3 DEF PayloadRunnerEnds
  <2>3. h.fn = "cbTry" /\ h.c = Top.c
    BY <2>1, <2>2 DEF Frame, FrameOf
  <2>4. Extra(h)
    BY <2>1, <2>3 DEF Extra, Apt, Token, Live, Asks, UserSide
  <2>5. Follows(Top, g)
    <3>1. Top.c \in HookChains /\ Top.c \notin RequestChains
      BY <2>1 DEF HookChains, PayloadChains, RequestChains
    <3> QED BY <2>1, <2>2, <3>1, ChainFollows
  <2> QED BY <2>1, <2>2, <2>4, <2>5, OrderKept
<1>4. CASE PayloadHookCalled
  <2>1. stack # <<>> /\ Top \in Frame /\ Top.c \in PayloadChains
    BY <1>4, TopInTurn DEF PayloadHookCalled, Apt
  <2>2. PICK c, i, s : c = Top.c /\ s \in Style[c] /\ Goto(User(Top, c, i, s))
    BY <1>4 DEF PayloadHookCalled
  <2>3. SamePlace
    BY <1>4, Numbers DEF PayloadHookCalled, SamePlace, DidType
  <2>4. PICK g : g = User(Top, c, i, s)
    OBVIOUS
  <2>5. Extra(g)
    <3>1. c \in UserFns \ (RequestFns \cup {"handler"})
      BY <2>1, <2>2 DEF UserFns, RequestFns, HookChains, PayloadChains, RequestChains
    <3> QED BY <2>1, <2>2, <2>4, <3>1, UserExtra
  <2> QED BY <2>1, <2>2, <2>3, <2>4, <2>5, ExtraFollows, OrderKept
<1>5. CASE HookCalled \/ PreParsingCalled
  BY <1>5, HookCalledOrder, PreParsingCalledOrder
<1> QED BY <1>1, <1>2, <1>3, <1>4, <1>5 DEF HookSteps

LEMMA ReplyStepsOrder ==
  ASSUME TypeOK, TypeOK', OrderInv, ReplySteps
  PROVE  OrderInv'
<1>0. PICK z : z = Plain("send")
  OBVIOUS
<1>z. Extra(z)
  BY <1>0, SpareFrame DEF Plain, SpareFns
<1>1. CASE SendInsideOnError \/ SendAgain \/ SerializerThrows \/ OnSendEndRejects \/ WriteHead \/ OnResponseCallback
  <2>1. stack # <<>> /\ SamePlace
    BY <1>1, TopInTurn DEF SendInsideOnError, SendAgain, SerializerThrows, OnSendEndRejects, WriteHead,
       OnResponseCallback, SamePlace, request
  <2>2. Return \/ Throw("Error")
    BY <1>1 DEF SendInsideOnError, SendAgain, SerializerThrows, OnSendEndRejects, WriteHead, OnResponseCallback
  <2> QED BY <1>z, <2>1, <2>2, ExtraFollows, OrderKept
<1>2. CASE \/ SendError \/ SendAsIs \/ PreserializationFailed \/ Serialized \/ OnSendFailed
           \/ OnSendPassed \/ OnSendEnd \/ SendStream \/ OnErrorHookSkipped \/ ErrorToOnSend \/ ErrorWritten
           \/ NotFoundInside404
  <2>1. stack # <<>> /\ Top \in Frame
    <3>1. \E fn : Running(fn)
      BY <1>2 DEF SendError, SendAsIs, PreserializationFailed, Serialized, OnSendFailed, OnSendPassed,
        OnSendEnd, SendStream, OnErrorHookSkipped, ErrorToOnSend, ErrorWritten, NotFoundInside404, Accepting
    <3> QED BY <3>1, TopInTurn
  <2>2. PICK g : /\ Goto(g) \/ Leave(g)
                 /\ g \in {[Top EXCEPT !.fn = "onErrorHook", !.e = Top.p, !.k = TRUE],
                           [Top EXCEPT !.fn = "onSendHook"],
                           [Top EXCEPT !.fn = "onErrorHook", !.k = FALSE],
                           [Top EXCEPT !.fn = "onSendHook", !.p = IF @ = None THEN None ELSE "string"],
                           [Top EXCEPT !.fn = "onSendEnd"],
                           [Top EXCEPT !.fn = "pipe"],
                           [Top EXCEPT !.fn = "writeHead"],
                           [Top EXCEPT !.fn = "handleError"],
                           [Top EXCEPT !.fn = "onSendHook", !.p = "string", !.e = None],
                           [Top EXCEPT !.fn = "writeHead", !.p = "string", !.e = None],
                           [Top EXCEPT !.fn = "send", !.p = "string"]}
    BY <1>2
    DEF SendError, SendAsIs, PreserializationFailed, Serialized, OnSendFailed, OnSendPassed,
        OnSendEnd, SendStream, OnErrorHookSkipped, ErrorToOnSend, ErrorWritten, NotFoundInside404
  <2>3. g.fn \in SpareFns
    BY <2>1, <2>2 DEF Frame, FrameOf, SpareFns
  <2>4. SamePlace
    BY <1>2, Numbers
    DEF SendError, SendAsIs, PreserializationFailed, Serialized, OnSendFailed, OnSendPassed,
        OnSendEnd, SendStream, OnErrorHookSkipped, ErrorToOnSend, ErrorWritten, NotFoundInside404,
        Accepted, SamePlace, request, DidType
  <2> QED BY <1>z, <2>1, <2>2, <2>3, <2>4, SpareFrame, ExtraFollows, OrderKept
<1>3. CASE SendSerialized \/ OnSendHook \/ OnErrorHookRuns
  <2>1. stack # <<>> /\ Top \in Frame
    BY <1>3, TopInTurn DEF SendSerialized, OnSendHook, OnErrorHookRuns, Accepting
  <2>2. SamePlace
    BY <1>3, Numbers DEF SendSerialized, OnSendHook, OnErrorHookRuns, Accepted, SamePlace, request, DidType
  <2>3. \E g : Goto(g) /\ Follows(Top, g)
    <3>1. CASE SendSerialized \/ OnSendHook
      <4>1. PICK c : c \in {"preSerialization", "onSend"} /\ Goto(StartChain(Top, c))
        BY <3>1 DEF SendSerialized, OnSendHook
      <4>2. c \in HookChains /\ c \notin RequestChains
        BY <4>1 DEF HookChains, PayloadChains, RequestChains
      <4> QED BY <2>1, <4>1, <4>2, StartFollows
    <3>2. CASE OnErrorHookRuns
      <4>1. PICK t : t = [Top EXCEPT !.c = "onError", !.i = 0, !.p = Top.e]
        OBVIOUS
      <4>2. t \in Frame /\ t.c = "onError"
        BY <2>1, <4>1 DEF Frame, FrameOf, UserFns, HookChains, PayloadChains, RunnerFns
      <4>3. t.c \in HookChains /\ t.c \notin RequestChains
        BY <4>2 DEF HookChains, PayloadChains, RequestChains
      <4>4. PICK err, new : err = None /\ new = None /\ Goto(NextOf(t, err, new))
        BY <3>2, <4>1 DEF OnErrorHookRuns
      <4> QED BY <4>2, <4>3, <4>4, ChainFollows
    <3> QED BY <1>3, <3>1, <3>2
  <2> QED BY <1>z, <2>1, <2>2, <2>3, OrderKept
<1>4. CASE ErrorHandlerCalled
  <2>1. stack # <<>> /\ Top \in Frame
    BY <1>4, TopInTurn DEF ErrorHandlerCalled
  <2>2. SamePlace
    <3>1. Phase("errorHandler") = 0
      BY DEF Phase
    <3> QED BY <1>4, <3>1, Numbers DEF ErrorHandlerCalled, Calls, SamePlace, DidType
  <2>3. \E g : Goto(g) /\ Extra(g)
    <3>1. PICK t : t = [Top EXCEPT !.p = Top.e, !.e = None]
      OBVIOUS
    <3>2. t \in Frame
      BY <2>1, <3>1 DEF Frame, FrameOf, Payload
    <3>3. PICK g : g = [Top EXCEPT !.fn = "send", !.p = Top.e, !.e = None]
      OBVIOUS
    <3>4. g.fn \in SpareFns
      BY <2>1, <3>3 DEF Frame, FrameOf, SpareFns
    <3>5. PICK c : c = "errorHandler"
      OBVIOUS
    <3>6. c \in UserFns \ (RequestFns \cup {"handler"})
      BY <3>5 DEF UserFns, RequestFns, RequestChains
    <3>7. Goto(g) \/ \E s \in Style[c] : Goto(User(t, c, 0, s))
      BY <1>4, <3>1, <3>3, <3>5 DEF ErrorHandlerCalled
    <3>8. CASE Goto(g)
      BY <3>4, <3>8, SpareFrame
    <3>9. ASSUME NEW s \in Style[c], Goto(User(t, c, 0, s)) PROVE \E x : Goto(x) /\ Extra(x)
      BY <3>2, <3>6, <3>9, UserExtra
    <3> QED BY <3>7, <3>8, <3>9
  <2> QED BY <1>z, <2>1, <2>2, <2>3, ExtraFollows, OrderKept
<1>5. CASE NotFound
  <2>1. stack # <<>> /\ Top \in Frame /\ Token(Top) /\ ctx = "route" /\ ctx' = "404" /\ did' = did
    BY <1>5, TopInTurn DEF NotFound, Token, Asks
  <2>2. PICK g, c : c = "preHandler" /\ g = StartChain(Top, c) /\ Goto(g)
    BY <1>5 DEF NotFound
  <2>3. PICK t : t = [Top EXCEPT !.c = c, !.i = 0, !.e = None]
    OBVIOUS
  <2>4. t \in Frame /\ t.c = c /\ t.i = 0 /\ c \in HookChains
    BY <2>1, <2>2, <2>3 DEF Frame, FrameOf, Payload, UserFns, HookChains, RequestChains
  <2>5. g = Callback(t, None) \/ g = NextOf(t, None, None)
    BY <2>2, <2>3 DEF StartChain
  <2>6. /\ g.fn \in {"preHandlerCallback", "hookNext"} /\ g.c = "preHandler" /\ g.i = 0
    <3>1. CASE g = Callback(t, None)
      <4>1. g.fn = CallbackOf[t.c] /\ g.c = t.c /\ g.i = t.i
        BY <2>4, <3>1 DEF Callback, Frame, FrameOf
      <4>2. CallbackOf["preHandler"] = "preHandlerCallback"
        BY DEF CallbackOf
      <4> QED BY <2>2, <2>4, <4>1, <4>2
    <3>2. CASE g = NextOf(t, None, None)
      <4>1. g.c = t.c /\ g.i = t.i /\ (t.c = "preHandler" => g.fn = "hookNext")
        BY <2>4, <3>2 DEF NextOf, Frame, FrameOf, PayloadChains
      <4> QED BY <2>2, <2>4, <4>1
    <3> QED BY <2>5, <3>1, <3>2
  <2>7. did.phase <= 6
    BY <2>1 DEF OrderInv, RoutePhase
  <2>8. (Live(g) => InTurn(g))' /\ RoutePhase'
    BY <2>1, <2>6, <2>7, Numbers DEF InTurn, Stands, Phase, Reached, CallsOn, UserSide, RoutePhase
  <2>9. Apt(g)
    BY <2>6 DEF Apt
  <2> QED BY <2>1, <2>2, <2>8, <2>9, OrderMoves
<1>6. CASE AwaitedReplySent \/ AwaitedReplyPending
  <2>1. /\ stack # <<>> /\ Top \in Frame /\ Top.fn = "awaitReply" /\ (Live(Top) => InTurn(Top)) /\ SamePlace
    BY <1>6, TopInTurn DEF AwaitedReplySent, AwaitedReplyPending, SamePlace, request
  <2>2. GoesOn(Top) /\ Top.fn \in UserSide
    BY <2>1 DEF GoesOn, Live, UserSide
  <2>3. PICK err, new, v, fn : err = None /\ new = None /\ v = None /\ fn = "fulfilled"
    OBVIOUS
  <2>4. Follows(Top, Fulfilment(Top))
    BY <2>1, <2>2, <2>3, OutcomeFollows
  <2>5. PICK g : g = [Top EXCEPT !.fn = "eos"]
    OBVIOUS
  <2>6. Follows(Top, g)
    <3>1. g.fn = "eos" /\ g.c = Top.c /\ g.i = Top.i
      BY <2>1, <2>5 DEF Frame, FrameOf
    <3>2. Apt(g) /\ (Token(g) => Live(Top)) /\ (Live(Top) => InTurn(g))
      BY <2>1, <3>1 DEF Apt, Token, Live, Asks, InTurn, CallsOn, UserSide
    <3> QED BY <3>2 DEF Follows, Token
  <2>7. Leave(g) \/ Settle(Fulfilment(Top))
    BY <1>6, <2>5 DEF AwaitedReplySent, AwaitedReplyPending
  <2> QED BY <1>z, <2>1, <2>4, <2>6, <2>7, OrderKept
<1> QED BY <1>1, <1>2, <1>3, <1>4, <1>5, <1>6 DEF ReplySteps

LEMMA UserStepsOrder ==
  ASSUME TypeOK, TypeOK', OrderInv, UserSteps, NotFoundInTurn
  PROVE  OrderInv'
<1>0. PICK z : z = Plain("send")
  OBVIOUS
<1>z. Extra(z) /\ Follows(Top, z)
  BY <1>0, SpareFrame, ExtraFollows DEF Plain, SpareFns
<1>1. /\ stack # <<>> /\ Top \in Frame /\ Top.fn = "user" /\ Apt(Top) /\ (Live(Top) => InTurn(Top))
  BY TopInTurn
  DEF UserSteps, UserCallsNext, UserFails, UserThrows, UserSends, UserCallsNotFound, UserHijacks,
      UserMarksSent, UserSetsNoContent, HandlerReturnsValue, UserDefers, UserAwaits, UserReturns,
      HookResolves, ParserResolves, HandlerResolves, UserAwaitsReply, UserRejects, HookThrew,
      HandlerThrew, AsyncUserThrew, UserThrewUncaught, May
<1>2. SamePlace
  BY Numbers
  DEF UserSteps, UserCallsNext, UserFails, UserThrows, UserSends, UserCallsNotFound, UserHijacks,
      UserMarksSent, UserSetsNoContent, HandlerReturnsValue, UserDefers, UserAwaits, UserReturns,
      HookResolves, ParserResolves, HandlerResolves, UserAwaitsReply, UserRejects, HookThrew,
      HandlerThrew, AsyncUserThrew, UserThrewUncaught, SamePlace, request, Blame, DidType
<1>3. ~Top.done \/ IsAsync => GoesOn(Top)
  BY <1>1 DEF IsAsync, GoesOn, Live
<1>4. Top.fn \in UserSide
  BY <1>1 DEF UserSide
<1>5. PICK h : h = Finished(Top)
  OBVIOUS
<1>6. h.fn = "user" /\ h.c = Top.c /\ h.i = Top.i /\ h.m = Top.m /\ h.done = TRUE
  BY <1>1, <1>5 DEF Finished, Frame, FrameOf
<1>7. Apt(h) /\ (Token(h) => Top.c \in RequestFns /\ IsAsync)
  BY <1>1, <1>6 DEF Apt, Token, Live, Asks, IsAsync
<1>8. Follows(Top, h)
  <2>1. Token(h) => Live(Top) /\ InTurn(Top)
    BY <1>1, <1>3, <1>7 DEF GoesOn
  <2>2. InTurn(Top) => InTurn(h)
    BY <1>1, <1>6 DEF InTurn
  <2> QED BY <1>7, <2>1, <2>2 DEF Follows, Token
<1>9. CASE UserReturns \/ UserThrewUncaught
  BY <1>1, <1>2, <1>9, <1>z, OrderKept DEF UserReturns, UserThrewUncaught
<1>10. CASE UserThrows \/ UserSetsNoContent
  <2>1. UNCHANGED <<stack, ready, jobs>>
    BY <1>10 DEF UserThrows, UserSetsNoContent, loop
  <2> QED BY <1>2, <1>z, <2>1, OrderTurn
<1>11. CASE UserCallsNext \/ UserFails
  <2>1. PICK err, new : Call(h, Completion(Top, err, new))
    BY <1>5, <1>11 DEF UserCallsNext, UserFails
  <2>2. Top.c \in HookChains \cup {"parser"} /\ ~Top.done /\ ~IsAsync
    BY <1>11 DEF UserCallsNext, UserFails, ByCallback, IsHook
  <2>3. PICK v, fn : v = None /\ fn = "fulfilled"
    OBVIOUS
  <2>4. Follows(Top, Completion(Top, err, new))
    BY <1>1, <1>3, <1>4, <2>2, <2>3, OutcomeFollows
  <2>5. Extra(h)
    BY <1>7, <2>2 DEF Extra
  <2> QED BY <1>1, <1>2, <2>1, <2>4, <2>5, OrderKept
<1>12. CASE UserSends
  <2>1. PICK p : Call(h, [Plain("send") EXCEPT !.p = p, !.f = did.sends + 1])
    BY <1>5, <1>12 DEF UserSends
  <2>2. PICK g : g = [Plain("send") EXCEPT !.p = p, !.f = did.sends + 1]
    OBVIOUS
  <2>3. g.fn \in SpareFns
    BY <2>2 DEF Plain, SpareFns
  <2> QED BY <1>1, <1>2, <1>8, <2>1, <2>2, <2>3, SpareFrame, OrderKept
<1>13. CASE UserCallsNotFound
  <2>1. PICK g : g = [Plain("notFound") EXCEPT !.f = did.sends + 1]
    OBVIOUS
  <2>2. g.fn = "notFound" /\ Call(h, g) /\ ~Top.done /\ "notFound" \in Acts[Top.c] /\ Top.c \in UserFns
    <3>1. Top.c \in UserFns
      BY <1>1 DEF Frame
    <3> QED BY <1>5, <1>13, <2>1, <3>1 DEF UserCallsNotFound, May, Plain
  <2>3. Top.c = "handler" \/ (Top.c \in RequestFns /\ Style[Top.c] \subseteq {"sync"})
    BY <2>2 DEF NotFoundInTurn
  <2>4. Token(Top)
    BY <1>1, <2>2, <2>3 DEF Token, Live, Asks
  <2>5. Follows(Top, g)
    <3>1. Apt(g) /\ ~Live(g)
      BY <2>2 DEF Apt, Live
    <3> QED BY <2>4, <3>1 DEF Follows
  <2>6. ~Token(h)
    <3>1. Top.c \in RequestFns => ~IsAsync
      <4>1. Top.c = "handler" => Top.c \notin RequestFns
        BY DEF RequestFns, RequestChains
      <4>2. Top.c \in RequestFns => "async" \notin Style[Top.c]
        BY <2>3, <4>1
      <4> QED BY <1>1, <4>2 DEF Apt, IsAsync
    <3> QED BY <1>7, <3>1
  <2>7. Extra(h)
    BY <1>7, <2>6 DEF Extra
  <2> QED BY <1>1, <1>2, <2>2, <2>5, <2>7, OrderKept
<1>14. CASE UserHijacks \/ UserMarksSent
  <2>1. PICK g : g = Plain("rawEnd")
    OBVIOUS
  <2>2. g.fn = "rawEnd" /\ LeaveAndGo(g, h)
    BY <1>5, <1>14, <2>1 DEF UserHijacks, UserMarksSent, Plain
  <2>3. g.fn \in SpareFns
    BY <2>2 DEF SpareFns
  <2> QED BY <1>1, <1>2, <1>8, <2>2, <2>3, SpareFrame, OrderKept
<1>15. CASE HandlerReturnsValue
  <2>1. PICK p : Goto([Plain("send") EXCEPT !.p = p, !.f = MaxSends + 1])
    BY <1>15 DEF HandlerReturnsValue
  <2>2. PICK g : g = [Plain("send") EXCEPT !.p = p, !.f = MaxSends + 1]
    OBVIOUS
  <2>3. g.fn \in SpareFns
    BY <2>2 DEF Plain, SpareFns
  <2> QED BY <1>1, <1>2, <1>z, <2>1, <2>2, <2>3, SpareFrame, ExtraFollows, OrderKept
<1>16. CASE UserDefers \/ UserAwaits \/ UserAwaitsReply
  <2>1. PICK g : /\ Leave(g) \/ Settle(g)
                 /\ \/ g = [Top EXCEPT !.m = "late"] /\ ~Top.done
                    \/ g = [Top EXCEPT !.m = "resumed"] /\ IsAsync
                    \/ g = [Top EXCEPT !.fn = "awaitReply"] /\ IsAsync
    BY <1>16 DEF UserDefers, UserAwaits, UserAwaitsReply, IsAsync
  <2>2. /\ g.c = Top.c /\ g.i = Top.i /\ g.done = Top.done
        /\ \/ g.fn = "user" /\ g.m = "late" /\ ~Top.done
           \/ g.fn = "user" /\ g.m = "resumed" /\ IsAsync
           \/ g.fn = "awaitReply" /\ IsAsync
    BY <1>1, <2>1 DEF Frame, FrameOf
  <2>3. GoesOn(Top)
    BY <1>3, <2>2
  <2>4. Apt(g) /\ (Live(g) => Live(Top)) /\ (Token(g) => Token(Top))
    BY <1>1, <2>2, <2>3 DEF Apt, Token, Live, Asks, GoesOn, IsAsync
  <2>5. Live(g) => InTurn(g)
    <3>1. g.fn \in CallsOn /\ Top.fn \in CallsOn
      BY <1>1, <2>2 DEF CallsOn, UserSide
    <3> QED BY <1>1, <2>2, <2>4, <3>1 DEF InTurn
  <2>6. Follows(Top, g)
    BY <2>4, <2>5 DEF Follows
  <2> QED BY <1>1, <1>2, <1>z, <2>1, <2>6, OrderKept
<1>17. CASE HookResolves \/ ParserResolves \/ UserRejects \/ AsyncUserThrew
  <2>1. IsAsync
    BY <1>17 DEF HookResolves, ParserResolves, UserRejects, AsyncUserThrew
  <2>2. \E g : /\ Settle(g) \/ CatchSettling(g)
               /\ Follows(Top, g)
    <3>1. PICK err, new, v, fn : /\ \/ Top.c \in HookChains /\ Settle(NextOf(Top, err, new))
                                    \/ Top.c = "parser" /\ Settle(BodyDone(Top, err))
                                    \/ Settle(Rejection(Top, err)) \/ CatchSettling(Rejection(Top, err))
                                 /\ v = None /\ fn = "fulfilled"
      BY <1>17 DEF HookResolves, ParserResolves, UserRejects, AsyncUserThrew, IsHook
    <3>2. /\ Top.c \in HookChains => Follows(Top, NextOf(Top, err, new))
          /\ Top.c = "parser" => Follows(Top, BodyDone(Top, err))
          /\ Follows(Top, Rejection(Top, err))
      BY <1>1, <1>3, <1>4, <2>1, <3>1, OutcomeFollows
    <3> QED BY <3>1, <3>2
  <2> QED BY <1>1, <1>2, <1>z, <2>2, OrderKept
<1>18. CASE HandlerResolves
  <2>1. PICK p, g : /\ g \in {Thenable(Top, "fulfilled", p), [Thenable(Top, "fulfilled", p) EXCEPT !.f = MaxSends + 1]}
                    /\ Settle(g)
    BY <1>18 DEF HandlerResolves
  <2>2. g.fn \in SpareFns
    BY <1>1, <2>1 DEF Thenable, Frame, FrameOf, SpareFns
  <2> QED BY <1>1, <1>2, <1>z, <2>1, <2>2, SpareFrame, ExtraFollows, OrderKept
<1>19. CASE HookThrew
  <2>1. PICK err, new, g : err = exc /\ new = None /\ g = NextOf(Top, err, new)
    OBVIOUS
  <2>2. Catch(g) /\ err # None /\ Top.c \in HookChains
    BY <1>19, <2>1 DEF HookThrew, Unwinding, IsHook
  <2>3. Follows(Top, g)
    BY <1>1, <2>1, <2>2, ChainFollows
  <2> QED BY <1>1, <1>2, <1>z, <2>2, <2>3, OrderKept
<1>20. CASE HandlerThrew
  <2>1. PICK g : g = [Top EXCEPT !.fn = "send", !.p = exc, !.done = FALSE]
    OBVIOUS
  <2>2. g.fn \in SpareFns /\ Catch(g)
    BY <1>1, <1>20, <2>1 DEF HandlerThrew, Frame, FrameOf, SpareFns
  <2> QED BY <1>1, <1>2, <1>z, <2>2, SpareFrame, ExtraFollows, OrderKept
<1> QED BY <1>9, <1>10, <1>11, <1>12, <1>13, <1>14, <1>15, <1>16, <1>17, <1>18, <1>19, <1>20 DEF UserSteps

LEMMA HandlersCalledOrder ==
  ASSUME TypeOK, TypeOK', OrderInv, HandleCustomParser \/ PreHandlerCallback
  PROVE  OrderInv' /\ Rises
<1>1. /\ stack # <<>> /\ Top \in Frame /\ Top.e = None /\ Live(Top) /\ InTurn(Top)
      /\ Top.fn = IF HandleCustomParser THEN "handleRequest" ELSE "preHandlerCallback"
  <2>1. Running(IF HandleCustomParser THEN "handleRequest" ELSE "preHandlerCallback") /\ Top.e = None
    BY DEF HandleCustomParser, PreHandlerCallback, Handling
  <2>2. /\ stack # <<>> /\ Top \in Frame /\ (Live(Top) => InTurn(Top))
        /\ Top.fn = IF HandleCustomParser THEN "handleRequest" ELSE "preHandlerCallback"
    BY <2>1, TopInTurn
  <2> QED BY <2>1, <2>2 DEF Live
<1>2. PICK c, i, s : /\ c = IF HandleCustomParser THEN "parser" ELSE "handler"
                     /\ i = 0 /\ s \in Style[c] /\ Goto(User(Top, c, i, s)) /\ Calls(c, i) /\ ctx' = ctx
  BY DEF HandleCustomParser, PreHandlerCallback
<1>3. c = "parser" => did.phase <= 2 /\ ctx # "404"
  BY <1>1, <1>2 DEF InTurn, CallsOn, UserSide, Reached
<1>4. c = "handler" => did.phase <= Phase("preHandler")
  BY <1>1, <1>2 DEF InTurn, CallsOn, UserSide, Reached
<1>5. Token(Top) /\ c \in RequestFns \cup {"handler"} /\ (c \in RequestFns /\ ctx = "404" => c = "preHandler")
  BY <1>1, <1>2, <1>3 DEF Token, RequestFns, RequestChains
<1>6. OrderInv' /\ did'.phase = Phase(c)
  BY <1>1, <1>2, <1>5, RequestCalled
<1>7. did.phase < Phase(c)
  BY <1>2, <1>3, <1>4, Numbers DEF Phase
<1> QED BY <1>6, <1>7, Numbers DEF Rises, Phase

LEMMA LifecycleStepsOrder ==
  ASSUME TypeOK, TypeOK', OrderInv, LifecycleSteps
  PROVE  OrderInv'
<1>0. PICK z : z = Plain("send")
  OBVIOUS
<1>z. Extra(z) /\ Follows(Top, z)
  BY <1>0, SpareFrame, ExtraFollows DEF Plain, SpareFns
<1>1. CASE HandleCustomParser \/ PreHandlerCallback
  BY <1>1, HandlersCalledOrder
<1>2. ASSUME ~(HandleCustomParser \/ PreHandlerCallback) PROVE SamePlace
  BY <1>2
  DEF LifecycleSteps, RouteHandler, RunPreParsing, CallbackDropped, CallbackFails, HandleWithoutBody,
      HandleRefused, HandleBadMethod, HandleRawBody, BodyDoneFails, BodyDoneHandles,
      Handler, HandlerTryThrew, HandlerTryReturns, PreValidationCallback,
      FulfilledSends, FulfilledIgnored, ThenTryThrew, RejectedSends, RejectedIgnored, SamePlace, request
<1>3. /\ stack # <<>> /\ Top \in Frame /\ (Live(Top) => InTurn(Top))
  BY TopInTurn
  DEF LifecycleSteps, RouteHandler, RunPreParsing, CallbackDropped, CallbackFails, HandleWithoutBody,
      HandleRefused, HandleBadMethod, HandleCustomParser, HandleRawBody, BodyDoneFails, BodyDoneHandles,
      Handler, HandlerTryThrew, HandlerTryReturns, PreValidationCallback, PreHandlerCallback,
      FulfilledSends, FulfilledIgnored, ThenTryThrew, RejectedSends, RejectedIgnored, Handling
<1>4. CASE CallbackDropped \/ HandlerTryReturns \/ FulfilledIgnored \/ RejectedIgnored
  <2>1. Return /\ SamePlace
    BY <1>4 DEF CallbackDropped, HandlerTryReturns, FulfilledIgnored, RejectedIgnored, SamePlace, request
  <2> QED BY <1>3, <1>z, <2>1, OrderKept
<1>5. CASE RouteHandler \/ RunPreParsing \/ Handler \/ PreValidationCallback
  <2>1. SamePlace
    BY <1>5 DEF RouteHandler, RunPreParsing, Handler, PreValidationCallback, SamePlace, request
  <2>2. /\ Live(Top) /\ InTurn(Top)
        /\ \/ RouteHandler /\ Top.fn = "routeHandler"
           \/ RunPreParsing /\ Top.fn = "runPreParsing"
           \/ Handler /\ Top.fn = "handler"
           \/ PreValidationCallback /\ Top.fn = "preValidationCallback"
    BY <1>3, <1>5 DEF RouteHandler, RunPreParsing, Handler, PreValidationCallback, Running, Live
  <2>3. ctx = "route" /\ did.phase <= Reached(Top.fn)
    BY <2>2, Numbers DEF InTurn, CallsOn, UserSide
  <2>4. ASSUME NEW c \in RequestChains, did.phase < Phase(c)
        PROVE  Follows(Top, StartChain(Top, c))
    BY <1>3, <2>2, <2>3, <2>4, StartFollows DEF Token, HookChains
  <2>5. CASE RouteHandler
    <3>1. PICK c : c = "onRequest" /\ Goto(StartChain(Top, c)) /\ Top.fn = "routeHandler"
      BY <2>5 DEF RouteHandler, Running
    <3>2. did.phase < Phase(c) /\ c \in RequestChains
      BY <2>3, <3>1, Numbers DEF Phase, RequestChains, Reached
    <3> QED BY <1>3, <1>z, <2>1, <2>4, <3>1, <3>2, OrderKept
  <2>6. CASE RunPreParsing
    <3>1. PICK c : c = "preParsing" /\ Goto(StartChain(Top, c)) /\ Top.fn = "runPreParsing"
      BY <2>6 DEF RunPreParsing, Running
    <3>2. did.phase < Phase(c) /\ c \in RequestChains
      BY <2>3, <3>1, Numbers DEF Phase, RequestChains, Reached
    <3> QED BY <1>3, <1>z, <2>1, <2>4, <3>1, <3>2, OrderKept
  <2>7. CASE Handler
    <3>1. PICK c, h : /\ c = "preValidation" /\ h = [Top EXCEPT !.fn = "handlerTry"]
                      /\ Call(h, StartChain(Top, c)) /\ Top.fn = "handler"
      BY <2>7 DEF Handler, Running
    <3>2. did.phase < Phase(c) /\ c \in RequestChains
      BY <2>3, <3>1, Numbers DEF Phase, RequestChains, Reached
    <3>3. h.fn \in SpareFns
      BY <1>3, <3>1 DEF Frame, FrameOf, SpareFns
    <3>4. Extra(h) /\ Follows(Top, StartChain(Top, c))
      BY <2>4, <3>2, <3>3, SpareFrame
    <3> QED BY <1>3, <2>1, <3>1, <3>4, OrderKept
  <2>8. CASE PreValidationCallback
    <3>1. PICK c, g : /\ c = "preHandler" /\ Top.fn = "preValidationCallback"
                      /\ g = [Top EXCEPT !.fn = "send", !.p = "Error"]
                      /\ Goto(StartChain(Top, c)) \/ Goto(g)
      BY <2>8 DEF PreValidationCallback, Running
    <3>2. did.phase < Phase(c) /\ c \in RequestChains
      BY <2>3, <3>1, Numbers DEF Phase, RequestChains, Reached
    <3>3. g.fn \in SpareFns
      BY <1>3, <3>1 DEF Frame, FrameOf, SpareFns
    <3>4. Follows(Top, g) /\ Follows(Top, StartChain(Top, c))
      BY <2>4, <3>2, <3>3, SpareFrame, ExtraFollows
    <3> QED BY <1>3, <1>z, <2>1, <3>1, <3>4, OrderKept
  <2> QED BY <1>5, <2>5, <2>6, <2>7, <2>8
<1>6. CASE HandleWithoutBody \/ HandleRawBody \/ BodyDoneHandles
  <2>1. SamePlace
    BY <1>6 DEF HandleWithoutBody, HandleRawBody, BodyDoneHandles, SamePlace, request
  <2>2. PICK g : /\ Goto(g) \/ Leave(g)
                 /\ g \in {[Top EXCEPT !.fn = "handler"], [Top EXCEPT !.fn = "rawBody"]}
                 /\ Top.fn \in {"handleRequest", "bodyDone"} /\ Top.e = None
    BY <1>6 DEF HandleWithoutBody, HandleRawBody, BodyDoneHandles, Handling, Running
  <2>3. g.fn \in {"handler", "rawBody"}
    BY <1>3, <2>2 DEF Frame, FrameOf
  <2>4. Live(Top) /\ InTurn(Top)
    BY <1>3, <2>2 DEF Live
  <2>5. did.phase <= 3 /\ ctx # "404"
    BY <2>2, <2>4, Numbers DEF InTurn, CallsOn, UserSide, Reached
  <2>6. Apt(g) /\ InTurn(g)
    BY <2>3, <2>5 DEF Apt, InTurn, CallsOn, UserSide, Reached
  <2>7. Follows(Top, g)
    BY <2>4, <2>6 DEF Follows, Token
  <2> QED BY <1>3, <1>z, <2>1, <2>2, <2>7, OrderKept
<1>7. CASE \/ CallbackFails \/ HandleRefused \/ HandleBadMethod \/ BodyDoneFails \/ HandlerTryThrew
           \/ ThenTryThrew \/ RejectedSends
  <2>1. SamePlace
    BY <1>7 DEF CallbackFails, HandleRefused, HandleBadMethod, BodyDoneFails, HandlerTryThrew,
       ThenTryThrew, RejectedSends, SamePlace, request
  <2>2. PICK g : /\ Goto(g) \/ Catch(g)
                 /\ \/ g \in {[Top EXCEPT !.fn = "send", !.p = Top.e], [Top EXCEPT !.fn = "send", !.p = "Error"],
                              [Top EXCEPT !.fn = "send", !.p = exc, !.e = None],
                              [Top EXCEPT !.fn = "send", !.e = None]}
                    \/ g = [Top EXCEPT !.fn = "preValidationCallback", !.e = exc] /\ exc # None
    BY <1>7 DEF CallbackFails, HandleRefused, HandleBadMethod, BodyDoneFails, HandlerTryThrew,
       ThenTryThrew, RejectedSends, Unwinding
  <2>3. g.fn \in SpareFns \/ (g.fn = "preValidationCallback" /\ g.e # None)
    BY <1>3, <2>2 DEF Frame, FrameOf, SpareFns
  <2>4. g.fn = "preValidationCallback" /\ g.e # None => Extra(g)
    BY DEF Extra, Apt, Token, Live, Asks, UserSide
  <2> QED BY <1>3, <1>z, <2>1, <2>2, <2>3, <2>4, SpareFrame, ExtraFollows, OrderKept
<1>8. CASE FulfilledSends
  <2>1. SamePlace
    BY <1>8 DEF FulfilledSends, SamePlace, request
  <2>2. PICK h, g : /\ Call(h, g) /\ h = [Top EXCEPT !.fn = "thenTry"]
                    /\ g = [Top EXCEPT !.fn = "send", !.e = None]
    BY <1>8 DEF FulfilledSends
  <2>3. h.fn \in SpareFns /\ g.fn \in SpareFns
    BY <1>3, <2>2 DEF Frame, FrameOf, SpareFns
  <2> QED BY <1>3, <2>1, <2>2, <2>3, SpareFrame, ExtraFollows, OrderKept
<1> QED BY <1>1, <1>4, <1>5, <1>6, <1>7, <1>8 DEF LifecycleSteps

LEMMA JobInTurn ==
  ASSUME TypeOK, OrderInv, NEW y \in jobs
  PROVE  y \in Frame /\ Apt(y) /\ (Live(y) => InTurn(y))
<1>1. y \in Frame /\ Apt(y)
  BY DEF OrderInv, FramesIn, AptFrames
<1>2. PICK V : V = Due
  OBVIOUS
<1>3. Token(y) => y \in V
  BY <1>2 DEF OrderInv, Sole, LoneJobs
<1> QED BY <1>1, <1>2, <1>3 DEF Due, Token

LEMMA ResponseExtra == Extra(StartChain(Plain("hookNext"), "onResponse"))
<1>1. PICK s : s = [Plain("hookNext") EXCEPT !.c = "onResponse", !.i = 0, !.e = None]
  OBVIOUS
<1>2. s.c = "onResponse"
  BY <1>1 DEF Plain
<1>3. PICK g \in {Callback(s, None), NextOf(s, None, None)} : g = StartChain(Plain("hookNext"), "onResponse")
  BY <1>1 DEF StartChain
<1>4. g.fn \in {"onResponseCallback", "hookNext"} /\ g.c = "onResponse"
  BY <1>1, <1>2, <1>3 DEF Callback, NextOf, CallbackOf, Plain, PayloadChains
<1>5. Apt(g) /\ ~Token(g)
  BY <1>4 DEF Apt, Token, Live, Asks, UserSide, RequestChains
<1> QED BY <1>3, <1>5 DEF Extra

LEMMA PlatformStepsOrder ==
  ASSUME TypeOK, TypeOK', OrderInv, PlatformSteps \/ Mishap \/ UNCHANGED vars
  PROVE  OrderInv'
<1>0. PICK z : z = Plain("send")
  OBVIOUS
<1>z. Extra(z)
  BY <1>0, SpareFrame DEF Plain, SpareFns
<1>1. SamePlace
  BY Numbers
  DEF PlatformSteps, Mishap, RunPromiseJob, UserGoesOn, RawEnd, RawBodyDone, RawBodyBroken, StreamData,
      StreamEnd, StreamErrorAfterHead, StreamErrorBeforeHead, AwaitedReplyOver, ResFinish, ProcessLost,
      ResError, ClientAborts, OnResFinished, SamePlace, vars, request, DidType
<1>2. CASE RunPromiseJob \/ RawEnd \/ StreamEnd \/ StreamErrorAfterHead \/ ProcessLost
  <2>1. RunReady \/ Escapes \/ \E y : DropJob(y)
    BY <1>2 DEF RunPromiseJob, RawEnd, StreamEnd, StreamErrorAfterHead, ProcessLost
  <2> QED BY <1>1, <1>z, <2>1, OrderTurn
<1>3. CASE StreamData \/ ClientAborts \/ UNCHANGED vars
  <2>1. UNCHANGED <<stack, ready, jobs>>
    BY <1>3 DEF StreamData, ClientAborts, vars, loop
  <2> QED BY <1>1, <1>z, <2>1, OrderTurn
<1>4. CASE UserGoesOn
  <2>1. PICK y, k : y \in jobs /\ StartTurn(k, y, y)
    BY <1>4 DEF UserGoesOn
  <2>2. Follows(y, y)
    BY <2>1, JobInTurn DEF Follows
  <2> QED BY <1>1, <2>1, <2>2, OrderTurn
<1>5. CASE RawBodyDone
  <2>1. PICK y, err : y \in jobs /\ y.fn = "rawBody" /\ StartTurn("callback", y, BodyDone(y, err))
    BY <1>5 DEF RawBodyDone
  <2>2. y \in Frame /\ Token(y) /\ InTurn(y)
    BY <2>1, JobInTurn DEF Live, Token
  <2>3. did.phase <= 3 /\ ctx # "404"
    BY <2>1, <2>2 DEF InTurn, CallsOn, UserSide, Reached
  <2>4. Follows(y, BodyDone(y, err))
    BY <2>2, <2>3, BodyFollows
  <2> QED BY <1>1, <2>1, <2>4, OrderTurn
<1>6. CASE RawBodyBroken \/ StreamErrorBeforeHead
  <2>1. PICK y, g : /\ y \in jobs /\ StartTurn("callback", y, g)
                    /\ g \in {[y EXCEPT !.fn = "send", !.p = "Error"],
                              [y EXCEPT !.fn = "onErrorHook", !.e = "Error", !.k = FALSE]}
    BY <1>6 DEF RawBodyBroken, StreamErrorBeforeHead, PipeJob
  <2>2. g.fn \in SpareFns
    BY <2>1, JobInTurn DEF Frame, FrameOf, SpareFns
  <2> QED BY <1>1, <2>1, <2>2, SpareFrame, OrderTurn
<1>7. CASE AwaitedReplyOver
  <2>1. PICK y \in jobs : y.fn = "eos" /\ SettleJob(y, Fulfilment(y))
    BY <1>7 DEF AwaitedReplyOver
  <2>2. y \in Frame /\ y.fn \in UserSide /\ GoesOn(y)
    BY <2>1, JobInTurn DEF GoesOn, Live, UserSide
  <2>3. PICK err, new, v, fn : err = None /\ new = None /\ v = None /\ fn = "fulfilled"
    OBVIOUS
  <2>4. Follows(y, Fulfilment(y))
    BY <2>2, <2>3, OutcomeFollows
  <2> QED BY <1>1, <2>1, <2>4, OrderTurn
<1>8. CASE ResFinish \/ ResError
  <2>1. PICK g : g = StartChain(Plain("hookNext"), "onResponse")
    OBVIOUS
  <2>2. Extra(g)
    BY <2>1, ResponseExtra
  <2>3. StartEvent(g) \/ UNCHANGED <<stack, ready, jobs>>
    BY <1>8, <2>1 DEF ResFinish, ResError, OnResFinished, loop
  <2>4. CASE StartEvent(g)
    <3>1. g \in Frame
      <4>1. stack' = <<g>> /\ stack' \in Seq(Frame)
        BY <2>4 DEF StartEvent, TypeOK, LoopTypeOK
      <4> QED BY <4>1
    <3>2. ~Token(g)
      BY <2>2, <3>1 DEF Extra
    <3> QED BY <1>1, <2>2, <2>4, <3>2, OrderTurn
  <2> QED BY <1>1, <1>z, <2>3, <2>4, OrderTurn
<1> QED BY <1>2, <1>3, <1>4, <1>5, <1>6, <1>7, <1>8 DEF PlatformSteps, Mishap

LEMMA OrderInit ==
  ASSUME Init
  PROVE  OrderInv
<1>1. PICK g : g = Plain("routeHandler")
  OBVIOUS
<1>2. /\ stack = <<g>> /\ ready = <<>> /\ jobs = {} /\ did.phase = 0 /\ ctx = "route"
  BY <1>1 DEF Init, LoopInit, ExchangeInit
<1>3. g.fn = "routeHandler" /\ Apt(g) /\ g \in Frame
  <2>1. TypeOK
    BY InitTypes DEF TypeOK
  <2>2. g \in Frame
    BY <1>2, <2>1 DEF TypeOK, LoopTypeOK
  <2> QED BY <1>1, <2>2 DEF Plain, Apt
<1>4. PICK V : V = Due
  OBVIOUS
<1>5. g \in V
  BY <1>2, <1>3, <1>4 DEF Due, InTurn, CallsOn, UserSide, Reached
<1>6. Room(<<>>, <<>>, {}, V, g)
  BY <1>5, NoFrameBare DEF Room, Clear, BareJobs
<1>7. <<>> \in Seq(Frame) /\ <<g>> \o <<>> = <<g>>
  OBVIOUS
<1>8. Sole(<<g>>, <<>>, {}, V)
  BY <1>6, <1>7, Added
<1>9. FramesIn(AptFrames)
  <2>1. g \in AptFrames
    BY <1>3 DEF AptFrames
  <2> QED BY <1>2, <2>1 DEF FramesIn
<1> QED BY <1>2, <1>4, <1>8, <1>9 DEF OrderInv, RoutePhase

LEMMA OrderStep ==
  ASSUME TypeOK, TypeOK', OrderInv, [Next]_vars, NotFoundInTurn
  PROVE  OrderInv'
BY HookStepsOrder, ReplyStepsOrder, UserStepsOrder, LifecycleStepsOrder, PlatformStepsOrder
DEF Next, Progress, Stutter

(* A call of the request phase goes up. *)
LEMMA CallRises ==
  ASSUME TypeOK, TypeOK', OrderInv, [Next]_vars, NEW c \in RequestPhase, CallsUser(c)
  PROVE  Rises
<1>1. PayloadRuns
  BY TopInTurn DEF PayloadRuns, Apt
<1>2. RequestCalls /\ (HookCalled => Top.c = c)
  BY <1>1, OnlyRequestCalls
<1>3. CASE HookCalled
  <2>1. Top.c \in HookChains
    BY <1>3, TopIs DEF HookCalled, Frame, RunnerFns
  <2>2. Top.c \in RequestChains
    BY <1>2, <1>3, <2>1 DEF RequestPhase, HookChains, RequestChains, PayloadChains
  <2> QED BY <1>3, <2>2, HookCalledOrder
<1>4. CASE PreParsingCalled \/ HandleCustomParser \/ PreHandlerCallback
  BY <1>4, PreParsingCalledOrder, HandlersCalledOrder
<1> QED BY <1>2, <1>3, <1>4 DEF RequestCalls

(* Hooks, parser and handler are called in the order of docs/Lifecycle.md, *)
(* each at most once, and callNotFound starts over with those of the 404:  *)
(* with any number of hooks, any styles of user code and any interleaving  *)
(* of its turns, provided that callNotFound is called by who has the       *)
(* request (NotFoundInTurn).                                               *)
THEOREM RequestInOrder ==
  ASSUME NotFoundInTurn
  PROVE  Spec => LifecycleOrder
<1>1. TypeOK /\ TypeOK' /\ OrderInv /\ [Next]_vars =>
        [\A c \in RequestPhase : CallsUser(c) =>
           \/ did'.phase > did.phase
           \/ did'.phase = did.phase /\ did'.hook > did.hook]_vars
  BY CallRises DEF Rises
<1>2. Init => OrderInv
  BY OrderInit
<1>3. TypeOK /\ TypeOK' /\ OrderInv /\ [Next]_vars => OrderInv'
  BY OrderStep
<1> QED BY <1>1, <1>2, <1>3, TypeCorrect, PTL DEF Spec, LifecycleOrder

-----------------------------------------------------------------------------
(***************************************************************************)
(* No exception takes the process down.  One that is thrown reaches at     *)
(* once a frame that catches it: what user code throws the try block it    *)
(* was called in, what serialization and the end of onSend throw the one   *)
(* of the runner of the payload hooks.                                     *)
(***************************************************************************)

(* What the framework sends or throws besides the payloads of user code.   *)
Sendable == SendPayloads \cup {"Error", "string", None}
Writable == {"undefined", "null", "string", "stream"}

(* Without preSerialization hooks what cannot be serialized throws where   *)
(* it is sent, without onSend hooks so does an object sent as something    *)
(* else than JSON (lib/reply.js: serialize, onSendEnd).                    *)
PayloadsFit ==
  /\ HookCount["preSerialization"] = 0 => "unserializable" \notin SendPayloads
  /\ HookCount["onSend"] = 0 => "untyped" \notin SendPayloads

(* A parser or an error handler that throws has a try block around it only *)
(* if no turn of the event loop was left since the last one                *)
(* (doc_throwing_error_handler).                                           *)
ThrowsInTry == \A c \in UserFns : "throw" \in Acts[c] => c \in HookChains \cup {"handler"}

(* A rejection with undefined counts as a success, and what the hook was   *)
(* given goes on outside the try block of the runner.                      *)
RejectsWithReason == \A c \in {"preSerialization", "onSend"} : None \notin Rejections[c]

(* docs/Hooks.md: calling reply.send in an onError hook throws.  The flag  *)
(* that tells is the reply's, so that it throws for whoever calls it then. *)
QuietSend == Running("send") => ~reply.onErr
NoSendInOnError == []QuietSend

(* What frames carry until they come to the end of the onSend chain. *)
Fitting(t) ==
  /\ t.e \in Sendable
  /\ t.fn \in {"send", "fulfilled", "rejected"} => t.p \in Sendable
  /\ t.c = "onError" /\ t.fn \in RunnerFns \cup UserSide => t.p \in Sendable
  /\ t.fn = "onSendHook" /\ HookCount["onSend"] = 0 => t.p \in Writable
  /\ t.fn = "onSendEnd" => t.e = None
FittingFrames == {t \in Frame : Fitting(t)}

(* A frame that throws, or goes on as one that does; one that catches.     *)
Risky(t) ==
  /\ t.e = None
  /\ \/ t.fn \in {"wrapOnSendEnd", "onSendEnd"} /\ t.p \notin Writable
     \/ t.fn = "preserializeHookEnd" /\ t.p = "unserializable"
TopCatches(t) ==
  \/ t.fn = "cbTry"
  \/ t.fn = "user" /\ t.m = "sync" /\ t.c \in HookChains \cup {"handler"}

UnderTry == Tail(stack) # <<>> /\ Head(Tail(stack)).fn = "cbTry"

KeptInv ==
  /\ FramesIn(FittingFrames)
  /\ \A n \in 1..Len(ready) : ~Risky(ready[n])
  /\ fault = "none"
  /\ exc = None /\ stack # <<>> /\ Risky(Top) => UnderTry
  /\ exc # None => exc \in Sendable /\ stack # <<>> /\ TopCatches(Top)

-----------------------------------------------------------------------------
(* The moves. *)

Safe(g) == g \in Frame => Fitting(g) /\ ~Risky(g)

LEMMA FittingTop ==
  ASSUME TypeOK, KeptInv, NEW fn, Running(fn) \/ Unwinding(fn)
  PROVE  stack # <<>> /\ Top \in Frame /\ Top.fn = fn /\ Fitting(Top)
<1>1. stack # <<>> /\ Top.fn = fn /\ stack \in Seq(FittingFrames)
  BY DEF Running, Unwinding, KeptInv, FramesIn
<1>2. Top \in FittingFrames
  BY <1>1 DEF Top
<1> QED BY <1>1, <1>2 DEF FittingFrames

(* A frame that waits is not one that throws. *)
LEMMA WaitsSafe ==
  ASSUME Lock, stack # <<>>, Tail(stack) # <<>>
  PROVE  ~Risky(Head(Tail(stack)))
<1>1. Ground(Tail(stack), ready, jobs)
  BY DEF Lock, LockOf, LockTop
<1>2. PICK q : q = Tail(stack)
  OBVIOUS
<1>3. q \in Seq(Frame) /\ AllWait(q) /\ q # <<>>
  BY <1>1, <1>2 DEF Ground
<1>4. 1 \in 1..Len(q) /\ Head(q) = q[1]
  BY <1>3
<1>5. Waits(Head(q))
  BY <1>3, <1>4 DEF AllWait
<1> QED BY <1>2, <1>5 DEF Waits, Tries, Risky

LEMMA ReadyAdded ==
  ASSUME NEW r \in Seq(Frame), \A n \in 1..Len(r) : ~Risky(r[n]), NEW g, ~Risky(g)
  PROVE  \A n \in 1..Len(Append(r, g)) : ~Risky(Append(r, g)[n])
<1> SUFFICES ASSUME NEW n \in 1..Len(Append(r, g)) PROVE ~Risky(Append(r, g)[n])
  OBVIOUS
<1>1. n \in 1..Len(r) \/ n = Len(r) + 1
  OBVIOUS
<1>2. n \in 1..Len(r) => Append(r, g)[n] = r[n]
  OBVIOUS
<1>3. n = Len(r) + 1 => Append(r, g)[n] = g
  OBVIOUS
<1> QED BY <1>1, <1>2, <1>3

LEMMA KeptMove ==
  ASSUME TypeOK, TypeOK', Lock, KeptInv, stack # <<>>,
         NEW g, Safe(g), NEW h, h \in Frame => Fitting(h),
         \/ exc = None /\ (Goto(g) \/ Call(h, g) \/ Return \/ Leave(g) \/ Settle(g) \/ LeaveAndGo(h, g))
         \/ Catch(g)
  PROVE  KeptInv'
<1>1. PICK q : q = Tail(stack)
  OBVIOUS
<1>2. q \in Seq(Frame) /\ ready \in Seq(Frame) /\ stack' \in Seq(Frame)
  BY <1>1 DEF TypeOK, LoopTypeOK
<1>3. FittingFrames \subseteq Frame /\ (g \in Frame => g \in FittingFrames) /\ (h \in Frame => h \in FittingFrames)
  BY DEF FittingFrames, Safe
<1>4. FramesIn(FittingFrames)'
  BY <1>3, FramesMove DEF KeptInv
<1>5. fault' = "none" /\ exc' = None
  BY DEF KeptInv, Goto, Call, Return, Leave, Settle, LeaveAndGo, Catch
<1>6. \A n \in 1..Len(ready') : ~Risky(ready'[n])
  <2>1. CASE Settle(g)
    <3>1. g \in Frame
      BY <2>1, MadeFrames
    <3> QED BY <1>2, <2>1, <3>1, ReadyAdded DEF Settle, Safe, KeptInv
  <2>2. CASE ready' = ready
    BY <2>2 DEF KeptInv
  <2> QED BY <2>1, <2>2 DEF Goto, Call, Return, Leave, LeaveAndGo, Catch
<1>7. stack' # <<>> => ~Risky(Head(stack'))
  <2>1. CASE Goto(g) \/ LeaveAndGo(h, g) \/ Catch(g)
    <3>1. g \in Frame /\ stack' = <<g>> \o q
      BY <1>1, <2>1, MadeFrames DEF Goto, LeaveAndGo, Catch
    <3> QED BY <1>2, <3>1, OnTop DEF Safe
  <2>2. CASE Call(h, g)
    <3>1. g \in Frame /\ stack' = <<g, h>> \o q
      BY <1>1, <2>2, MadeFrames DEF Call
    <3> QED BY <1>2, <3>1, TwoOnTop DEF Safe
  <2>3. CASE Return \/ Leave(g) \/ Settle(g)
    BY <2>3, WaitsSafe DEF Return, Leave, Settle
  <2> QED BY <2>1, <2>2, <2>3
<1> QED BY <1>4, <1>5, <1>6, <1>7 DEF KeptInv, Top

(* The frames that may throw: one under the try block of a runner, *)
LEMMA KeptGuarded ==
  ASSUME TypeOK, TypeOK', KeptInv, stack # <<>>, exc = None,
         NEW g, Fitting(g), NEW h, Fitting(h),
         \/ Goto(g) /\ Risky(Top)
         \/ Call(h, g) /\ h.fn = "cbTry"
  PROVE  KeptInv'
<1>1. PICK q : q = Tail(stack)
  OBVIOUS
<1>2. q \in Seq(Frame) /\ stack' \in Seq(Frame)
  BY <1>1 DEF TypeOK, LoopTypeOK
<1>3. FittingFrames \subseteq Frame /\ (g \in Frame => g \in FittingFrames) /\ (h \in Frame => h \in FittingFrames)
  BY DEF FittingFrames
<1>4. FramesIn(FittingFrames)'
  BY <1>3, FramesMove DEF KeptInv
<1>5. fault' = "none" /\ exc' = None /\ ready' = ready
  BY DEF KeptInv, Goto, Call
<1>6. Tail(stack') # <<>> /\ Head(Tail(stack')).fn = "cbTry"
  <2>1. CASE Goto(g) /\ Risky(Top)
    <3>1. stack' = <<g>> \o q /\ q # <<>> /\ Head(q).fn = "cbTry"
      BY <1>1, <2>1 DEF Goto, KeptInv, UnderTry
    <3>2. Tail(stack') = q
      BY <1>2, <3>1, OnTop
    <3> QED BY <3>1, <3>2
  <2>2. CASE Call(h, g) /\ h.fn = "cbTry"
    <3>1. stack' = <<g, h>> \o q
      BY <1>1, <2>2 DEF Call
    <3>2. Tail(stack') = <<h>> \o q
      BY <1>2, <3>1, TwoOnTop
    <3>3. <<h>> \o q # <<>> /\ Head(<<h>> \o q) = h
      BY <1>2, OnTop
    <3> QED BY <2>2, <3>2, <3>3
  <2> QED BY <2>1, <2>2
<1> QED BY <1>4, <1>5, <1>6 DEF KeptInv, UnderTry

(* that throws into it. *)
LEMMA KeptThrow ==
  ASSUME TypeOK, TypeOK', KeptInv, stack # <<>>, exc = None, Risky(Top), Throw("Error")
  PROVE  KeptInv'
<1>1. stack' = Tail(stack) /\ Tail(stack) # <<>> /\ Head(Tail(stack)).fn = "cbTry"
  BY DEF Throw, KeptInv, UnderTry
<1>2. exc' = "Error" /\ fault' = "none" /\ ready' = ready
  BY DEF Throw, KeptInv
<1>3. PICK z : z = Plain("send")
  OBVIOUS
<1>4. z \in Frame => z \in FittingFrames
  BY <1>3 DEF Plain, FittingFrames, Fitting, Sendable, UserSide, RunnerFns
<1>5. FramesIn(FittingFrames)'
  BY <1>4, FramesMove DEF KeptInv, FittingFrames
<1> QED BY <1>1, <1>2, <1>5 DEF KeptInv, TopCatches, Top, Sendable

LEMMA KeptTurn ==
  ASSUME TypeOK, TypeOK', KeptInv, NEW g, Safe(g), NEW y, NEW k,
         \/ RunReady \/ StartTurn(k, y, g) \/ DropJob(y) \/ SettleJob(y, g) \/ StartEvent(g)
         \/ UNCHANGED loop
  PROVE  KeptInv'
<1>1. FittingFrames \subseteq Frame /\ (g \in Frame => g \in FittingFrames)
  BY DEF FittingFrames, Safe
<1>2. FramesIn(FittingFrames)'
  BY <1>1, FramesTurn DEF KeptInv, loop
<1>3. fault' = fault /\ exc' = exc
  BY DEF RunReady, StartTurn, DropJob, SettleJob, StartEvent, loop
<1>4. CASE RunReady
  <2>1. ready \in Seq(Frame) /\ ready # <<>> /\ stack' = <<Head(ready)>> /\ ready' = Tail(ready) /\ exc = None
    BY <1>4 DEF RunReady, Steady, TypeOK, LoopTypeOK
  <2>2. 1 \in 1..Len(ready) /\ Head(ready) = ready[1]
    BY <2>1
  <2>3. \A n \in 1..Len(Tail(ready)) : n + 1 \in 1..Len(ready) /\ Tail(ready)[n] = ready[n + 1]
    BY <2>1
  <2>4. ~Risky(Head(stack'))
    BY <2>1, <2>2 DEF KeptInv
  <2> QED BY <1>2, <1>3, <2>1, <2>3, <2>4 DEF KeptInv, Top
<1>5. CASE StartTurn(k, y, g) \/ StartEvent(g)
  <2>1. stack' = <<g>> /\ ready' = ready /\ stack' \in Seq(Frame) /\ exc = None
    BY <1>5 DEF StartTurn, StartEvent, Idle, Steady, TypeOK, LoopTypeOK
  <2>2. g \in Frame /\ Head(stack') = g
    BY <2>1
  <2> QED BY <1>2, <1>3, <2>1, <2>2 DEF KeptInv, Top, Safe
<1>6. CASE SettleJob(y, g)
  <2>1. stack = <<>> /\ stack' = stack /\ ready' = Append(ready, g) /\ ready' \in Seq(Frame) /\ exc = None
        /\ ready \in Seq(Frame)
    BY <1>6 DEF SettleJob, Idle, Steady, TypeOK, LoopTypeOK
  <2>2. g \in Frame
    <3>1. Append(ready, g)[Len(ready) + 1] = g /\ Len(Append(ready, g)) = Len(ready) + 1 /\ Len(ready) \in Nat
      BY <2>1
    <3> QED BY <2>1, <3>1
  <2>3. \A n \in 1..Len(ready') : ~Risky(ready'[n])
    BY <2>1, <2>2, ReadyAdded DEF KeptInv, Safe
  <2> QED BY <1>2, <1>3, <2>1, <2>3 DEF KeptInv
<1>7. CASE DropJob(y) \/ UNCHANGED loop
  BY <1>2, <1>3, <1>7 DEF KeptInv, DropJob, loop, Top, UnderTry
<1> QED BY <1>4, <1>5, <1>6, <1>7

-----------------------------------------------------------------------------
(* The frames that are built. *)

LEMMA PlainlySafe ==
  ASSUME NEW g, g.fn \notin {"wrapOnSendEnd", "onSendEnd", "preserializeHookEnd", "onSendHook"},
         g.e \in Sendable,
         g.fn \in {"send", "fulfilled", "rejected"} => g.p \in Sendable,
         g.fn \in RunnerFns \cup UserSide => g.c # "onError" \/ g.p \in Sendable
  PROVE  Safe(g)
BY DEF Safe, Fitting, Risky

LEMMA SafeCallback ==
  ASSUME NEW t \in Frame, Fitting(t), t.fn \in RunnerFns \cup UserSide, t.c \in HookChains,
         NEW err \in Sendable
  PROVE  /\ Fitting(Callback(t, err))
         /\ err # None \/ t.c \notin {"preSerialization", "onSend"} => Safe(Callback(t, err))
<1>1. PICK g : g = Callback(t, err)
  OBVIOUS
<1>2. /\ g.fn = CallbackOf[t.c] /\ g.c = t.c /\ g.e = IF t.c = "onError" THEN t.p ELSE err
      /\ g.e \in Sendable
  BY <1>1 DEF Callback, Frame, FrameOf, Fitting
<1>3. /\ CallbackOf[t.c] \notin {"send", "fulfilled", "rejected", "onSendHook", "onSendEnd"} \cup RunnerFns \cup UserSide
      /\ CallbackOf[t.c] = "wrapOnSendEnd" => t.c = "onSend"
      /\ CallbackOf[t.c] = "preserializeHookEnd" => t.c = "preSerialization"
  BY DEF CallbackOf, HookChains, RequestChains, PayloadChains, RunnerFns, UserSide
<1>4. Fitting(g)
  BY <1>2, <1>3 DEF Fitting
<1>5. err # None \/ t.c \notin {"preSerialization", "onSend"} => ~Risky(g)
  BY <1>2, <1>3 DEF Risky
<1> QED BY <1>1, <1>4, <1>5 DEF Safe

LEMMA SafeNext ==
  ASSUME NEW t \in Frame, Fitting(t), t.fn \in RunnerFns \cup UserSide \/ t.c # "onError", NEW err \in Sendable, NEW new
  PROVE  Safe(NextOf(t, err, new))
<1>1. PICK g : g = NextOf(t, err, new)
  OBVIOUS
<1>2. /\ g.fn \in {"sendNext", "preParsingNext", "hookNext"} /\ g.c = t.c /\ g.e = err
      /\ t.c = "onError" => g.p = t.p
  BY <1>1 DEF NextOf, Frame, FrameOf
<1>3. t.c = "onError" => g.p \in Sendable
  BY <1>2 DEF Fitting
<1> QED BY <1>1, <1>2, <1>3, PlainlySafe DEF UserSide

(* The payload passes a chain without hooks. *)
Passes(t, c) ==
  HookCount[c] = 0 => /\ c = "onSend" => t.p \in Writable
                      /\ c = "preSerialization" => t.p # "unserializable"

LEMMA SafeStart ==
  ASSUME NEW t \in Frame, Fitting(t), NEW c \in HookChains \ {"onError"}, Passes(t, c)
  PROVE  Safe(StartChain(t, c))
<1>1. PICK s : s = [t EXCEPT !.c = c, !.i = 0, !.e = None]
  OBVIOUS
<1>2. s \in Frame /\ s.c = c /\ s.e = None /\ s.p = t.p /\ s.fn = t.fn
  BY <1>1 DEF Frame, FrameOf, Payload, UserFns
<1>3. Fitting(s)
  BY <1>2 DEF Fitting, Sendable
<1>4. CASE HookCount[c] = 0
  <2>1. PICK g : g = Callback(s, None)
    OBVIOUS
  <2>2. StartChain(t, c) = g
    BY <1>1, <1>4, <2>1 DEF StartChain
  <2>3. /\ g.fn = CallbackOf[c] /\ g.c = c /\ g.e = None /\ g.p = t.p
    BY <1>2, <2>1 DEF Callback, Frame, FrameOf
  <2>4. /\ g.fn \notin {"send", "fulfilled", "rejected", "onSendHook", "onSendEnd"} \cup RunnerFns \cup UserSide
        /\ g.fn = "wrapOnSendEnd" => c = "onSend"
        /\ g.fn = "preserializeHookEnd" => c = "preSerialization"
    BY <2>3 DEF CallbackOf, HookChains, RequestChains, PayloadChains, RunnerFns, UserSide
  <2>5. Fitting(g)
    BY <2>3, <2>4 DEF Fitting, Sendable
  <2>6. ~Risky(g)
    BY <1>4, <2>3, <2>4 DEF Risky, Passes
  <2> QED BY <2>2, <2>5, <2>6 DEF Safe
<1>5. CASE HookCount[c] # 0
  <2>1. StartChain(t, c) = NextOf(s, None, None)
    BY <1>1, <1>5 DEF StartChain
  <2>2. PICK err, new : err = None /\ new = None
    OBVIOUS
  <2>3. Safe(NextOf(s, err, new))
    BY <1>2, <1>3, <2>2, SafeNext DEF Sendable
  <2> QED BY <2>1, <2>2, <2>3
<1> QED BY <1>4, <1>5

LEMMA SafeUser ==
  ASSUME NEW t \in Frame, Fitting(t), NEW c \in UserFns, c = "onError" => t.c = c /\ t.fn \in RunnerFns \cup UserSide,
         NEW i, NEW s
  PROVE  Safe(User(t, c, i, s))
<1>1. PICK g : g = User(t, c, i, s)
  OBVIOUS
<1>2. g.fn = "user" /\ g.c = c /\ g.e = t.e /\ g.p = t.p
  BY <1>1 DEF User, Frame, FrameOf
<1> QED BY <1>1, <1>2, PlainlySafe DEF UserSide, Fitting

LEMMA SafeBody ==
  ASSUME NEW t \in Frame, NEW err \in Sendable
  PROVE  Safe(BodyDone(t, err))
<1>1. PICK g : g = BodyDone(t, err)
  OBVIOUS
<1>2. g.fn = "bodyDone" /\ g.e = err
  BY <1>1 DEF BodyDone, Frame, FrameOf
<1> QED BY <1>1, <1>2, PlainlySafe DEF RunnerFns, UserSide

LEMMA SafeThenable ==
  ASSUME NEW t \in Frame, NEW fn \in {"fulfilled", "rejected"}, NEW v \in Sendable
  PROVE  Safe(Thenable(t, fn, v))
<1>1. PICK g : g = Thenable(t, fn, v)
  OBVIOUS
<1>2. g.fn = fn /\ g.e = v /\ g.p = v
  BY <1>1 DEF Thenable, Frame, FrameOf
<1> QED BY <1>1, <1>2, PlainlySafe DEF RunnerFns, UserSide

LEMMA SafeOutcome ==
  ASSUME NEW t \in Frame, Fitting(t), t.fn \in UserSide, NEW err \in Sendable, NEW new
  PROVE  /\ Safe(Completion(t, err, new)) /\ Safe(Fulfilment(t))
         /\ (t.c \in {"preSerialization", "onSend"} => err # None) => Safe(Rejection(t, err))
<1>0. t.c \in UserFns
  BY DEF Frame, UserSide
<1>1. ASSUME NEW e \in Sendable, NEW n PROVE Safe(Completion(t, e, n)) /\ Safe(NextOf(t, e, n))
  BY <1>1, SafeBody, SafeNext DEF Completion
<1>2. None \in Sendable
  BY DEF Sendable
<1>3. Safe(Fulfilment(t))
  <2>1. PICK e, n, fn : e = None /\ n = None /\ fn = "fulfilled"
    OBVIOUS
  <2>2. Safe(Completion(t, e, n)) /\ Safe(Thenable(t, fn, e))
    BY <1>1, <1>2, <2>1, SafeThenable
  <2> QED BY <2>1, <2>2 DEF Fulfilment
<1>4. ASSUME t.c \in {"preSerialization", "onSend"} => err # None PROVE Safe(Rejection(t, err))
  <2>1. CASE t.c \in {"handler", "errorHandler"}
    <3>1. PICK fn : fn = "rejected"
      OBVIOUS
    <3>2. Safe(Thenable(t, fn, err))
      BY <3>1, SafeThenable
    <3> QED BY <2>1, <3>1, <3>2 DEF Rejection, PayloadChains
  <2>2. CASE t.c = "parser"
    BY <2>2, SafeBody DEF Rejection, PayloadChains
  <2>3. CASE t.c = "preParsing"
    <3>1. PICK n : n = None
      OBVIOUS
    <3>2. Safe(NextOf(t, err, n))
      BY <1>1
    <3> QED BY <2>3, <3>1, <3>2 DEF Rejection, PayloadChains
  <2>4. CASE t.c \in PayloadChains
    BY <1>4, <2>4, SafeCallback DEF Rejection, PayloadChains, HookChains
  <2>5. CASE t.c \notin {"handler", "errorHandler", "parser", "preParsing"} \cup PayloadChains
    <3>1. PICK g : g = [t EXCEPT !.fn = "handleReject", !.e = err, !.m = "sync", !.done = FALSE]
      OBVIOUS
    <3>2. g.fn = "handleReject" /\ g.e = err /\ g.c = t.c
      BY <3>1 DEF Frame, FrameOf
    <3>3. Safe(g)
      BY <2>5, <3>2, PlainlySafe DEF PayloadChains, UserSide
    <3>4. Rejection(t, err) = g
      BY <2>5, <3>1 DEF Rejection
    <3> QED BY <3>3, <3>4
  <2> QED BY <2>1, <2>2, <2>3, <2>4, <2>5
<1> QED BY <1>1, <1>3, <1>4

-----------------------------------------------------------------------------
(* The steps. *)

(* An exception is caught where it is: nothing else can happen then. *)
LEMMA OnlyCaught ==
  ASSUME KeptInv, NEW fn, Unwinding(fn)
  PROVE  exc \in Sendable /\ exc # None /\ fn \in {"cbTry", "user"} /\ TopCatches(Top)
BY DEF KeptInv, Unwinding, TopCatches

LEMMA HookStepsKept ==
  ASSUME TypeOK, TypeOK', Lock, KeptInv, HookSteps
  PROVE  KeptInv'
<1>0. PICK z : z = Plain("notFound")
  OBVIOUS
<1>z. Safe(z) /\ (z \in Frame => Fitting(z))
  BY <1>0, PlainlySafe DEF Plain, Sendable, RunnerFns, UserSide, Safe
<1>1. stack # <<>> /\ Top \in Frame /\ Top.fn \in RunnerFns /\ Fitting(Top) /\ Top.c \in HookChains /\ Top.e \in Sendable
  <2>1. stack # <<>> /\ Top \in Frame /\ Top.fn \in RunnerFns /\ Fitting(Top)
    BY FittingTop
    DEF HookSteps, HookRunnerEnds, HookDropped, HookCalled, HookRejected, PreParsingDropped,
        PreParsingEnds, PreParsingCalled, PayloadRunnerFails, PayloadRunnerEnds, PayloadHookCalled,
        PayloadCallbackThrew, PayloadCallbackReturns, RunnerFns
  <2> QED BY <2>1 DEF Frame, Fitting
<1>2. CASE HookDropped \/ PreParsingDropped \/ PayloadCallbackReturns
  <2>1. exc = None /\ Return
    BY <1>2 DEF HookDropped, PreParsingDropped, PayloadCallbackReturns, Running, Steady
  <2> QED BY <1>1, <1>z, <2>1, KeptMove
<1>3. CASE HookRunnerEnds \/ HookRejected \/ PreParsingEnds \/ PayloadRunnerFails \/ PayloadCallbackThrew
  <2>1. PICK err : /\ (exc = None /\ Goto(Callback(Top, err))) \/ Catch(Callback(Top, err))
                   /\ err \in Sendable
                   /\ err # None \/ Top.c \notin {"preSerialization", "onSend"}
    <3>1. CASE HookRunnerEnds \/ PreParsingEnds
      <4>1. Fits(Top) /\ Top.fn \in {"hookNext", "preParsingNext"}
        BY <3>1, Runs DEF HookRunnerEnds, PreParsingEnds
      <4>2. Top.c \notin {"preSerialization", "onSend"}
        BY <4>1 DEF Fits, RequestChains
      <4> QED BY <1>1, <3>1, <4>2 DEF HookRunnerEnds, PreParsingEnds, Running, Steady
    <3>2. CASE HookRejected
      <4>1. PICK err : err = IF Top.e = None THEN "Error" ELSE Top.e
        OBVIOUS
      <4>2. err \in Sendable /\ err # None
        BY <1>1, <4>1 DEF Sendable
      <4> QED BY <3>2, <4>1, <4>2 DEF HookRejected, Running, Steady
    <3>3. CASE PayloadRunnerFails
      BY <1>1, <3>3 DEF PayloadRunnerFails, Running, Steady
    <3>4. CASE PayloadCallbackThrew
      BY <3>4, OnlyCaught DEF PayloadCallbackThrew
    <3> QED BY <1>3, <3>1, <3>2, <3>3, <3>4
  <2>2. Safe(Callback(Top, err))
    BY <1>1, <2>1, SafeCallback
  <2> QED BY <1>1, <1>z, <2>1, <2>2, KeptMove
<1>4. CASE HookCalled \/ PreParsingCalled \/ PayloadHookCalled
  <2>1. PICK i, s : exc = None /\ Goto(User(Top, Top.c, i, s))
    BY <1>4 DEF HookCalled, PreParsingCalled, PayloadHookCalled, Running, Steady
  <2>2. Safe(User(Top, Top.c, i, s))
    BY <1>1, SafeUser DEF UserFns
  <2> QED BY <1>1, <1>z, <2>1, <2>2, KeptMove
<1>5. CASE PayloadRunnerEnds
  <2>1. PICK h : h = [Top EXCEPT !.fn = "cbTry"]
    OBVIOUS
  <2>2. PICK err : err = None
    OBVIOUS
  <2>3. Fitting(h) /\ h.fn = "cbTry"
    <3>1. h.fn = "cbTry" /\ h.e = Top.e /\ h.c = Top.c /\ h.p = Top.p
      BY <1>1, <2>1 DEF Frame, FrameOf
    <3> QED BY <1>1, <3>1 DEF Fitting, RunnerFns
  <2>4. Fitting(Callback(Top, err))
    BY <1>1, <2>2, SafeCallback DEF Sendable
  <2>5. exc = None /\ Call(h, Callback(Top, err))
    BY <1>5, <2>1, <2>2 DEF PayloadRunnerEnds, Running, Steady
  <2> QED BY <1>1, <2>3, <2>4, <2>5, KeptGuarded
<1> QED BY <1>2, <1>3, <1>4, <1>5 DEF HookSteps

LEMMA ReplyStepsKept ==
  ASSUME TypeOK, TypeOK', Lock, KeptInv, ReplySteps, PayloadsFit, QuietSend
  PROVE  KeptInv'
<1>0. PICK z : z = Plain("notFound")
  OBVIOUS
<1>z. Safe(z) /\ (z \in Frame => Fitting(z))
  BY <1>0, PlainlySafe DEF Plain, Sendable, RunnerFns, UserSide, Safe
<1>1. stack # <<>> /\ Top \in Frame /\ Fitting(Top) /\ exc = None
  BY FittingTop
  DEF ReplySteps, SendInsideOnError, SendAgain, SendError, SendAsIs, SendSerialized, PreserializationFailed,
      SerializerThrows, Serialized, OnSendHook, OnSendFailed, OnSendPassed, OnSendEndRejects, OnSendEnd,
      SendStream, WriteHead, OnErrorHookRuns, OnErrorHookSkipped, ErrorHandlerCalled, ErrorToOnSend,
      ErrorWritten, NotFoundInside404, NotFound, AwaitedReplySent, AwaitedReplyPending, OnResponseCallback,
      Accepting, Running, Steady
<1>2. ~SendInsideOnError
  BY DEF SendInsideOnError, QuietSend, Running
<1>3. CASE SendAgain \/ OnResponseCallback \/ WriteHead
  <2>1. Return
    <3>1. WriteHead => res.head = "none"
      BY Runs DEF WriteHead, Writes
    <3> QED BY <1>3, <3>1 DEF SendAgain, OnResponseCallback, WriteHead
  <2> QED BY <1>1, <1>z, <2>1, KeptMove
<1>4. CASE \/ SendError \/ PreserializationFailed \/ OnSendFailed \/ OnSendEnd \/ OnErrorHookSkipped
           \/ ErrorWritten \/ NotFoundInside404 \/ SendStream
  <2>1. PICK g : /\ Goto(g) \/ Leave(g)
                 /\ \/ g = [Top EXCEPT !.fn = "onErrorHook", !.e = Top.p, !.k = TRUE] /\ Top.fn = "send"
                    \/ g \in {[Top EXCEPT !.fn = "onErrorHook", !.k = FALSE],
                              [Top EXCEPT !.fn = "onErrorHook", !.k = TRUE],
                              [Top EXCEPT !.fn = "writeHead"],
                              [Top EXCEPT !.fn = "handleError"],
                              [Top EXCEPT !.fn = "pipe"],
                              [Top EXCEPT !.fn = "writeHead", !.p = "string", !.e = None],
                              [Top EXCEPT !.fn = "send", !.p = "string"]}
    BY <1>4
    DEF SendError, PreserializationFailed, OnSendFailed, OnSendEnd, OnErrorHookSkipped, ErrorWritten,
        NotFoundInside404, SendStream, Accepting, Running
  <2>2. /\ g.fn \in {"onErrorHook", "writeHead", "handleError", "pipe", "send"}
        /\ g.fn = "send" => g.p = "string"
        /\ g.e \in Sendable
    BY <1>1, <2>1 DEF Frame, FrameOf, Fitting, Sendable
  <2>3. Safe(g)
    BY <2>2, PlainlySafe DEF Sendable, RunnerFns, UserSide
  <2> QED BY <1>1, <1>z, <2>1, <2>3, KeptMove
<1>5. CASE SendAsIs \/ Serialized \/ ErrorToOnSend
  <2>1. PICK g : /\ Goto(g)
                 /\ \/ g = [Top EXCEPT !.fn = "onSendHook"] /\ Top.fn = "send"
                       /\ Top.p \in {"undefined", "string", "stream", "untyped"}
                    \/ g \in {[Top EXCEPT !.fn = "onSendHook", !.p = IF @ = None THEN None ELSE "string"],
                              [Top EXCEPT !.fn = "onSendHook", !.p = "string", !.e = None]}
    BY <1>5 DEF SendAsIs, Serialized, ErrorToOnSend, Accepting, Running
  <2>2. g.fn = "onSendHook" /\ g.e \in Sendable
    BY <1>1, <2>1 DEF Frame, FrameOf, Fitting, Sendable
  <2>3. HookCount["onSend"] = 0 => g.p \in Writable
    BY <1>1, <2>1 DEF Frame, FrameOf, Fitting, Sendable, Writable, PayloadsFit
  <2>4. Safe(g)
    BY <2>2, <2>3 DEF Safe, Fitting, Risky, RunnerFns, UserSide
  <2> QED BY <1>1, <1>z, <2>1, <2>4, KeptMove
<1>6. CASE OnSendPassed
  <2>1. PICK g : g = [Top EXCEPT !.fn = "onSendEnd"]
    OBVIOUS
  <2>2. Top.fn = "wrapOnSendEnd" /\ Top.e = None /\ Goto(g)
    BY <1>6, <2>1 DEF OnSendPassed, Running
  <2>3. g.fn = "onSendEnd" /\ g.e = None /\ g.p = Top.p
    BY <1>1, <2>1, <2>2 DEF Frame, FrameOf
  <2>4. Fitting(g) /\ (Risky(g) => Risky(Top))
    BY <2>2, <2>3 DEF Fitting, Risky, Sendable, RunnerFns, UserSide
  <2>5. CASE Risky(Top)
    BY <1>1, <2>2, <2>4, <2>5, KeptGuarded
  <2>6. CASE ~Risky(Top)
    BY <1>1, <1>z, <2>2, <2>4, <2>6, KeptMove DEF Safe
  <2> QED BY <2>5, <2>6
<1>7. CASE SerializerThrows \/ OnSendEndRejects
  <2>1. Risky(Top) /\ Throw("Error")
    BY <1>1, <1>7 DEF SerializerThrows, OnSendEndRejects, Running, Fitting, Risky, Writable
  <2> QED BY <1>1, <2>1, KeptThrow
<1>8. CASE SendSerialized \/ OnSendHook \/ NotFound
  <2>1. PICK c \in HookChains \ {"onError"} :
          /\ Goto(StartChain(Top, c))
          /\ Passes(Top, c)
    <3>1. SendSerialized /\ HookCount["preSerialization"] = 0 => Top.p # "unserializable"
      BY <1>1 DEF SendSerialized, Accepting, Running, Fitting, Sendable, PayloadsFit
    <3>2. OnSendHook /\ HookCount["onSend"] = 0 => Top.p \in Writable
      BY <1>1 DEF OnSendHook, Running, Fitting
    <3> QED BY <1>8, <3>1, <3>2
            DEF SendSerialized, OnSendHook, NotFound, Passes, HookChains, PayloadChains, RequestChains
  <2>2. Safe(StartChain(Top, c))
    BY <1>1, <2>1, SafeStart
  <2> QED BY <1>1, <1>z, <2>1, <2>2, KeptMove
<1>9. CASE OnErrorHookRuns
  <2>1. PICK t : t = [Top EXCEPT !.c = "onError", !.i = 0, !.p = Top.e]
    OBVIOUS
  <2>2. t.c = "onError" /\ t.p = Top.e /\ t \in Frame
    BY <1>1, <1>9, <2>1
    DEF Frame, FrameOf, OnErrorHookRuns, Running, UserFns, HookChains, PayloadChains, RunnerFns
  <2>3. PICK g : g = NextOf(t, None, None)
    OBVIOUS
  <2>4. g.fn = "sendNext" /\ g.e = None /\ g.p = Top.e /\ Goto(g)
    BY <1>9, <2>1, <2>2, <2>3 DEF OnErrorHookRuns, NextOf, Frame, FrameOf, PayloadChains
  <2>5. Safe(g)
    BY <1>1, <2>4, PlainlySafe DEF Fitting, Sendable
  <2> QED BY <1>1, <1>z, <2>4, <2>5, KeptMove
<1>10. CASE ErrorHandlerCalled
  <2>1. PICK t : t = [Top EXCEPT !.p = Top.e, !.e = None]
    OBVIOUS
  <2>2. PICK g : /\ Goto(g)
                 /\ \/ \E s : g = User(t, "errorHandler", 0, s)
                    \/ g = [Top EXCEPT !.fn = "send", !.p = Top.e, !.e = None]
    BY <1>10, <2>1 DEF ErrorHandlerCalled
  <2>3. t.e = None /\ t \in FrameOf(Fns, UserFns \cup {"none"})
    BY <1>1, <2>1 DEF Frame, FrameOf, Payload
  <2>4. \/ g.fn = "user" /\ g.c = "errorHandler" /\ g.e = None
        \/ g.fn = "send" /\ g.p = Top.e /\ g.e = None
    BY <1>1, <2>2, <2>3 DEF User, Frame, FrameOf
  <2>5. Safe(g)
    BY <1>1, <2>4, PlainlySafe DEF Fitting, Sendable, RunnerFns, UserSide
  <2> QED BY <1>1, <1>z, <2>2, <2>5, KeptMove
<1>11. CASE AwaitedReplySent \/ AwaitedReplyPending
  <2>0. PICK err, new : err = None /\ new = None
    OBVIOUS
  <2>1. Top.fn \in UserSide
    BY <1>11 DEF AwaitedReplySent, AwaitedReplyPending, Running, UserSide
  <2>2. Safe(Fulfilment(Top))
    BY <1>1, <2>0, <2>1, SafeOutcome DEF Sendable
  <2>3. PICK g : g = [Top EXCEPT !.fn = "eos"]
    OBVIOUS
  <2>4. Safe(g)
    <3>1. g.fn = "eos" /\ g.e = Top.e /\ g.p = Top.p /\ g.c = Top.c
      BY <1>1, <2>3 DEF Frame, FrameOf
    <3> QED BY <1>1, <2>1, <3>1, PlainlySafe DEF Fitting, UserSide, RunnerFns
  <2>5. Settle(Fulfilment(Top)) \/ Leave(g)
    BY <1>11, <2>3 DEF AwaitedReplySent, AwaitedReplyPending
  <2> QED BY <1>1, <1>z, <2>2, <2>4, <2>5, KeptMove
<1> QED BY <1>2, <1>3, <1>4, <1>5, <1>6, <1>7, <1>8, <1>9, <1>10, <1>11 DEF ReplySteps

LEMMA UserStepsKept ==
  ASSUME TypeOK, TypeOK', Lock, KeptInv, UserSteps, ThrowsInTry, RejectsWithReason
  PROVE  KeptInv'
<1>0. PICK z : z = Plain("notFound")
  OBVIOUS
<1>z. Safe(z) /\ (z \in Frame => Fitting(z))
  BY <1>0, PlainlySafe DEF Plain, Sendable, RunnerFns, UserSide, Safe
<1>1. /\ stack # <<>> /\ Top \in Frame /\ Top.fn = "user" /\ Fitting(Top) /\ Top.c \in UserFns
      /\ Top.e \in Sendable /\ (Top.c = "onError" => Top.p \in Sendable)
  <2>1. stack # <<>> /\ Top \in Frame /\ Top.fn = "user" /\ Fitting(Top)
    BY FittingTop
    DEF UserSteps, UserCallsNext, UserFails, UserThrows, UserSends, UserCallsNotFound, UserHijacks,
        UserMarksSent, UserSetsNoContent, HandlerReturnsValue, UserDefers, UserAwaits, UserReturns,
        HookResolves, ParserResolves, HandlerResolves, UserAwaitsReply, UserRejects, HookThrew,
        HandlerThrew, AsyncUserThrew, UserThrewUncaught, May
  <2> QED BY <2>1 DEF Frame, Fitting, UserSide
<1>2. /\ None \in Sendable /\ "Error" \in Sendable
      /\ Failures \subseteq Sendable /\ SendPayloads \subseteq Sendable
      /\ Rejections[Top.c] \subseteq Sendable
  BY <1>1, PayloadAssumption DEF Sendable
<1>3. PICK u : u = Finished(Top)
  OBVIOUS
<1>4. Fitting(u) /\ Safe(u)
  <2>1. u.fn = "user" /\ u.e = Top.e /\ u.p = Top.p /\ u.c = Top.c
    BY <1>1, <1>3 DEF Finished, Frame, FrameOf
  <2>2. Fitting(u) /\ ~Risky(u)
    BY <1>1, <2>1 DEF Fitting, Risky
  <2> QED BY <2>2 DEF Safe
<1>5. ASSUME NEW act, May(act) PROVE exc = None
  BY <1>5 DEF May, Running, Steady
<1>6. CASE UserCallsNext \/ UserFails
  <2>1. PICK err, new : err \in Sendable /\ Call(u, Completion(Top, err, new)) /\ exc = None
    BY <1>2, <1>3, <1>5, <1>6 DEF UserCallsNext, UserFails
  <2>2. Safe(Completion(Top, err, new))
    BY <1>1, <2>1, SafeOutcome DEF UserSide
  <2> QED BY <1>1, <1>4, <2>1, <2>2, KeptMove
<1>7. CASE UserThrows
  <2>1. exc' \in Sendable \ {None} /\ stack' = stack /\ ready' = ready /\ jobs' = jobs /\ fault' = fault
        /\ Top.m = "sync" /\ "throw" \in Acts[Top.c]
    BY <1>2, <1>7, PayloadAssumption DEF UserThrows, May
  <2>2. TopCatches(Top)
    BY <1>1, <2>1 DEF TopCatches, ThrowsInTry
  <2> QED BY <1>1, <2>1, <2>2 DEF KeptInv, FramesIn, Top
<1>8. CASE UserSends \/ UserCallsNotFound
  <2>1. PICK g : /\ Call(u, g) /\ exc = None
                 /\ \/ g = [Plain("notFound") EXCEPT !.f = did.sends + 1]
                    \/ \E p \in SendPayloads : g = [Plain("send") EXCEPT !.p = p, !.f = did.sends + 1]
    BY <1>3, <1>5, <1>8 DEF UserSends, UserCallsNotFound
  <2>2. g.fn \in {"send", "notFound"} /\ g.e = None /\ g.p \in Sendable
    BY <1>2, <2>1 DEF Plain
  <2>3. Safe(g)
    BY <1>2, <2>2, PlainlySafe DEF RunnerFns, UserSide
  <2> QED BY <1>1, <1>4, <2>1, <2>3, KeptMove
<1>9. CASE UserHijacks \/ UserMarksSent
  <2>1. PICK h : h = Plain("rawEnd")
    OBVIOUS
  <2>2. exc = None /\ LeaveAndGo(h, u)
    BY <1>3, <1>5, <1>9, <2>1 DEF UserHijacks, UserMarksSent
  <2>3. Fitting(h)
    BY <1>2, <2>1 DEF Plain, Fitting, RunnerFns, UserSide
  <2> QED BY <1>1, <1>4, <2>2, <2>3, KeptMove
<1>10. CASE UserSetsNoContent
  BY <1>z, <1>10, KeptTurn DEF UserSetsNoContent
<1>11. CASE HandlerReturnsValue
  <2>1. PICK p \in SendPayloads : exc = None /\ Goto([Plain("send") EXCEPT !.p = p, !.f = MaxSends + 1])
    BY <1>5, <1>11 DEF HandlerReturnsValue
  <2>2. PICK g : g = [Plain("send") EXCEPT !.p = p, !.f = MaxSends + 1]
    OBVIOUS
  <2>3. g.fn = "send" /\ g.e = None /\ g.p \in Sendable
    BY <1>2, <2>2 DEF Plain
  <2>4. Safe(g)
    BY <1>2, <2>3, PlainlySafe DEF RunnerFns, UserSide
  <2> QED BY <1>1, <1>z, <2>1, <2>2, <2>4, KeptMove
<1>12. CASE UserDefers \/ UserAwaits \/ UserAwaitsReply
  <2>1. PICK g : /\ exc = None /\ (Leave(g) \/ Settle(g))
                 /\ g \in {[Top EXCEPT !.m = "late"], [Top EXCEPT !.m = "resumed"], [Top EXCEPT !.fn = "awaitReply"]}
    BY <1>5, <1>12 DEF UserDefers, UserAwaits, UserAwaitsReply
  <2>2. g.fn \in UserSide /\ g.e = Top.e /\ g.p = Top.p /\ g.c = Top.c
    BY <1>1, <2>1 DEF Frame, FrameOf, UserSide
  <2>3. Safe(g)
    BY <1>1, <2>2, PlainlySafe DEF UserSide
  <2> QED BY <1>1, <1>z, <2>1, <2>3, KeptMove
<1>13. CASE UserReturns
  <2>1. exc = None /\ Return
    BY <1>13 DEF UserReturns, Running, Steady
  <2> QED BY <1>1, <1>z, <2>1, KeptMove
<1>14. CASE HookResolves \/ ParserResolves
  <2>1. PICK g, err, new : /\ exc = None /\ Settle(g) /\ err = None
                           /\ g = NextOf(Top, err, new) \/ g = BodyDone(Top, err)
    BY <1>14 DEF HookResolves, ParserResolves, Running, Steady
  <2>2. Safe(g)
    BY <1>1, <1>2, <2>1, SafeNext, SafeBody DEF UserSide
  <2> QED BY <1>1, <1>z, <2>1, <2>2, KeptMove
<1>15. CASE HandlerResolves
  <2>1. PICK fn, v, g : /\ exc = None /\ Settle(g) /\ fn = "fulfilled" /\ v \in Sendable
                        /\ g = Thenable(Top, fn, v) \/ g = [Thenable(Top, fn, v) EXCEPT !.f = MaxSends + 1]
    BY <1>2, <1>15 DEF HandlerResolves, Running, Steady
  <2>2. g.fn = "fulfilled" /\ g.e = v /\ g.p = v
    BY <1>1, <2>1 DEF Thenable, Frame, FrameOf
  <2>3. Safe(g)
    BY <2>1, <2>2, PlainlySafe DEF RunnerFns, UserSide
  <2> QED BY <1>1, <1>z, <2>1, <2>3, KeptMove
<1>16. CASE UserRejects
  <2>1. PICK err \in Rejections[Top.c] : exc = None /\ Settle(Rejection(Top, err))
    BY <1>5, <1>16 DEF UserRejects
  <2>2. Top.c \in {"preSerialization", "onSend"} => err # None
    BY <2>1 DEF RejectsWithReason
  <2>3. err \in Sendable
    BY <1>2, <2>1
  <2>4. PICK new : new = None
    OBVIOUS
  <2>5. Safe(Rejection(Top, err))
    BY <1>1, <2>2, <2>3, <2>4, SafeOutcome DEF UserSide
  <2> QED BY <1>1, <1>z, <2>1, <2>5, KeptMove
<1>17. CASE HookThrew
  <2>1. PICK err, new : err = exc /\ new = None
    OBVIOUS
  <2>2. err \in Sendable /\ Catch(NextOf(Top, err, new))
    BY <1>17, <2>1, OnlyCaught DEF HookThrew
  <2>3. Safe(NextOf(Top, err, new))
    BY <1>1, <2>2, SafeNext DEF UserSide
  <2> QED BY <1>1, <1>z, <2>2, <2>3, KeptMove
<1>18. CASE HandlerThrew
  <2>1. PICK g : g = [Top EXCEPT !.fn = "send", !.p = exc, !.done = FALSE]
    OBVIOUS
  <2>2. exc \in Sendable /\ Catch(g)
    BY <1>18, <2>1, OnlyCaught DEF HandlerThrew
  <2>3. g.fn = "send" /\ g.p = exc /\ g.e = Top.e
    BY <1>1, <2>1 DEF Frame, FrameOf
  <2>4. Safe(g)
    BY <1>1, <2>2, <2>3, PlainlySafe DEF RunnerFns, UserSide
  <2> QED BY <1>1, <1>z, <2>2, <2>4, KeptMove
<1>19. ~AsyncUserThrew /\ ~UserThrewUncaught
  BY <1>1, OnlyCaught DEF AsyncUserThrew, UserThrewUncaught, TopCatches, IsAsync, HookChains, RequestChains, PayloadChains
<1> QED BY <1>6, <1>7, <1>8, <1>9, <1>10, <1>11, <1>12, <1>13, <1>14, <1>15, <1>16, <1>17, <1>18, <1>19
        DEF UserSteps

LEMMA LifecycleStepsKept ==
  ASSUME TypeOK, TypeOK', Lock, KeptInv, LifecycleSteps
  PROVE  KeptInv'
<1>0. PICK z : z = Plain("notFound")
  OBVIOUS
<1>z. Safe(z) /\ (z \in Frame => Fitting(z))
  BY <1>0, PlainlySafe DEF Plain, Sendable, RunnerFns, UserSide, Safe
<1>1. ~HandlerTryThrew /\ ~ThenTryThrew
  BY OnlyCaught DEF HandlerTryThrew, ThenTryThrew
<1>2. stack # <<>> /\ Top \in Frame /\ Fitting(Top) /\ exc = None /\ Top.e \in Sendable
  <2>1. stack # <<>> /\ Top \in Frame /\ Fitting(Top) /\ exc = None
    BY <1>1, FittingTop
    DEF LifecycleSteps, RouteHandler, RunPreParsing, CallbackDropped, CallbackFails, HandleWithoutBody,
        HandleRefused, HandleBadMethod, HandleCustomParser, HandleRawBody, BodyDoneFails, BodyDoneHandles,
        Handler, HandlerTryReturns, PreValidationCallback, PreHandlerCallback, FulfilledSends,
        FulfilledIgnored, RejectedSends, RejectedIgnored, Handling, Running, Steady
  <2> QED BY <2>1 DEF Fitting
<1>3. None \in Sendable /\ "Error" \in Sendable
  BY DEF Sendable
<1>4. ASSUME NEW c \in RequestChains PROVE Safe(StartChain(Top, c))
  <2>1. Passes(Top, c) /\ c \in HookChains \ {"onError"}
    BY DEF Passes, RequestChains, HookChains
  <2> QED BY <1>2, <2>1, SafeStart
<1>5. CASE CallbackDropped \/ HandlerTryReturns \/ FulfilledIgnored \/ RejectedIgnored
  <2>1. Return
    BY <1>5 DEF CallbackDropped, HandlerTryReturns, FulfilledIgnored, RejectedIgnored
  <2> QED BY <1>2, <1>z, <2>1, KeptMove
<1>6. CASE RouteHandler \/ RunPreParsing
  <2>1. PICK c \in RequestChains : Goto(StartChain(Top, c))
    BY <1>6 DEF RouteHandler, RunPreParsing, RequestChains
  <2> QED BY <1>2, <1>4, <1>z, <2>1, KeptMove
<1>7. CASE \/ CallbackFails \/ HandleWithoutBody \/ HandleRefused \/ HandleBadMethod \/ HandleRawBody
           \/ BodyDoneFails \/ BodyDoneHandles \/ RejectedSends
  <2>1. PICK g : /\ Goto(g) \/ Leave(g)
                 /\ \/ g \in {[Top EXCEPT !.fn = "send", !.p = Top.e], [Top EXCEPT !.fn = "handler"],
                              [Top EXCEPT !.fn = "rawBody"], [Top EXCEPT !.fn = "send", !.p = "Error"]}
                    \/ g = [Top EXCEPT !.fn = "send", !.e = None] /\ Top.fn = "rejected"
    BY <1>7 DEF CallbackFails, HandleWithoutBody, HandleRefused, HandleBadMethod, HandleRawBody,
       BodyDoneFails, BodyDoneHandles, RejectedSends, Running
  <2>2. /\ g.fn \in {"send", "handler", "rawBody"} /\ g.e \in Sendable
        /\ g.fn = "send" => g.p \in Sendable
    BY <1>2, <1>3, <2>1 DEF Frame, FrameOf, Fitting
  <2>3. Safe(g)
    BY <2>2, PlainlySafe DEF RunnerFns, UserSide
  <2> QED BY <1>2, <1>z, <2>1, <2>3, KeptMove
<1>8. CASE PreValidationCallback
  <2>1. PICK c, g : /\ c = "preHandler" /\ g = [Top EXCEPT !.fn = "send", !.p = "Error"]
                    /\ Goto(StartChain(Top, c)) \/ Goto(g)
    BY <1>8 DEF PreValidationCallback
  <2>2. g.fn = "send" /\ g.p = "Error" /\ g.e = Top.e
    BY <1>2, <2>1 DEF Frame, FrameOf
  <2>3. Safe(g) /\ Safe(StartChain(Top, c))
    BY <1>2, <1>3, <1>4, <2>1, <2>2, PlainlySafe DEF RunnerFns, UserSide, RequestChains
  <2> QED BY <1>2, <1>z, <2>1, <2>3, KeptMove
<1>9. CASE HandleCustomParser \/ PreHandlerCallback
  <2>1. PICK c, i, s : c \in {"parser", "handler"} /\ Goto(User(Top, c, i, s))
    BY <1>9 DEF HandleCustomParser, PreHandlerCallback
  <2>2. Safe(User(Top, c, i, s))
    BY <1>2, <2>1, SafeUser DEF UserFns
  <2> QED BY <1>2, <1>z, <2>1, <2>2, KeptMove
<1>10. CASE Handler \/ FulfilledSends
  <2>1. PICK h, g, c : /\ Call(h, g) /\ c = "preValidation"
                       /\ h \in {[Top EXCEPT !.fn = "handlerTry"], [Top EXCEPT !.fn = "thenTry"]}
                       /\ \/ g = StartChain(Top, c)
                          \/ g = [Top EXCEPT !.fn = "send", !.e = None] /\ Top.fn = "fulfilled"
    BY <1>10 DEF Handler, FulfilledSends, Running
  <2>2. h.fn \in {"handlerTry", "thenTry"} /\ h.e = Top.e
    BY <1>2, <2>1 DEF Frame, FrameOf
  <2>3. Fitting(h)
    BY <1>2, <2>2 DEF Fitting, RunnerFns, UserSide
  <2>4. Safe(g)
    <3>1. CASE g = StartChain(Top, c)
      BY <1>4, <2>1, <3>1 DEF RequestChains
    <3>2. CASE g = [Top EXCEPT !.fn = "send", !.e = None] /\ Top.fn = "fulfilled"
      <4>1. g.fn = "send" /\ g.e = None /\ g.p = Top.p /\ Top.p \in Sendable
        BY <1>2, <3>2 DEF Frame, FrameOf, Fitting
      <4> QED BY <1>3, <4>1, PlainlySafe DEF RunnerFns, UserSide
    <3> QED BY <2>1, <3>1, <3>2
  <2> QED BY <1>2, <2>1, <2>3, <2>4, KeptMove
<1> QED BY <1>1, <1>5, <1>6, <1>7, <1>8, <1>9, <1>10 DEF LifecycleSteps

LEMMA PlatformStepsKept ==
  ASSUME TypeOK, TypeOK', KeptInv, PlatformSteps \/ Mishap \/ UNCHANGED vars
  PROVE  KeptInv'
<1>0. PICK z : z = Plain("notFound")
  OBVIOUS
<1>z. Safe(z)
  BY <1>0, PlainlySafe DEF Plain, Sendable, RunnerFns, UserSide
<1>1. ASSUME NEW y \in jobs PROVE y \in Frame /\ Fitting(y) /\ y.e \in Sendable
  BY DEF KeptInv, FramesIn, FittingFrames, Fitting
<1>2. CASE RunPromiseJob \/ RawEnd \/ StreamEnd \/ StreamErrorAfterHead
  <2>1. RunReady \/ \E y : DropJob(y)
    BY <1>2 DEF RunPromiseJob, RawEnd, StreamEnd, StreamErrorAfterHead
  <2> QED BY <1>z, <2>1, KeptTurn
<1>3. CASE StreamData \/ ClientAborts \/ UNCHANGED vars
  <2>1. UNCHANGED loop
    BY <1>3 DEF StreamData, ClientAborts, vars
  <2> QED BY <1>z, <2>1, KeptTurn
<1>4. ~ProcessLost
  BY DEF ProcessLost, Escapes, KeptInv
<1>5. CASE UserGoesOn
  <2>1. PICK y, k : y \in jobs /\ y.fn = "user" /\ StartTurn(k, y, y)
    BY <1>5 DEF UserGoesOn
  <2>2. Safe(y)
    BY <1>1, <2>1 DEF Safe, Risky
  <2> QED BY <2>1, <2>2, KeptTurn
<1>6. CASE RawBodyDone \/ RawBodyBroken \/ StreamErrorBeforeHead
  <2>1. PICK y, g, err : /\ y \in jobs /\ StartTurn("callback", y, g) /\ err \in {None, "Error"}
                         /\ \/ g = BodyDone(y, err)
                            \/ g \in {[y EXCEPT !.fn = "send", !.p = "Error"],
                                      [y EXCEPT !.fn = "onErrorHook", !.e = "Error", !.k = FALSE]}
    BY <1>6 DEF RawBodyDone, RawBodyBroken, StreamErrorBeforeHead, PipeJob
  <2>2. g.fn \in {"bodyDone", "send", "onErrorHook"} /\ g.e \in Sendable /\ (g.fn = "send" => g.p \in Sendable)
    BY <1>1, <2>1 DEF BodyDone, Frame, FrameOf, Sendable
  <2>3. Safe(g)
    BY <2>2, PlainlySafe DEF RunnerFns, UserSide
  <2> QED BY <2>1, <2>3, KeptTurn
<1>7. CASE AwaitedReplyOver
  <2>0. PICK err, new : err = None /\ new = None
    OBVIOUS
  <2>1. PICK y \in jobs : y.fn = "eos" /\ SettleJob(y, Fulfilment(y))
    BY <1>7 DEF AwaitedReplyOver
  <2>2. Safe(Fulfilment(y))
    BY <1>1, <2>0, <2>1, SafeOutcome DEF UserSide, Sendable
  <2> QED BY <2>1, <2>2, KeptTurn
<1>8. CASE ResFinish \/ ResError
  <2>1. PICK t, c : t = Plain("hookNext") /\ c = "onResponse"
    OBVIOUS
  <2>2. StartEvent(StartChain(t, c)) \/ UNCHANGED loop
    BY <1>8, <2>1 DEF ResFinish, ResError, OnResFinished
  <2>3. PICK s : s = [t EXCEPT !.c = c, !.i = 0, !.e = None]
    OBVIOUS
  <2>4. PICK g \in {Callback(s, None), NextOf(s, None, None)} : g = StartChain(t, c)
    BY <2>3 DEF StartChain
  <2>5. g.fn \in {"onResponseCallback", "hookNext"} /\ g.c = "onResponse" /\ g.e = None
    BY <2>1, <2>3, <2>4 DEF Callback, NextOf, CallbackOf, Plain, PayloadChains
  <2>6. Safe(g)
    BY <2>5, PlainlySafe DEF Sendable, RunnerFns, UserSide
  <2> QED BY <1>z, <2>2, <2>4, <2>6, KeptTurn
<1> QED BY <1>2, <1>3, <1>4, <1>5, <1>6, <1>7, <1>8 DEF PlatformSteps, Mishap

LEMMA KeptInit == Init => KeptInv
<1> SUFFICES ASSUME Init PROVE KeptInv
  OBVIOUS
<1>1. PICK g : g = Plain("routeHandler")
  OBVIOUS
<1>2. stack = <<g>> /\ ready = <<>> /\ jobs = {} /\ exc = None /\ fault = "none" /\ g \in Frame
  <2>1. stack = <<g>> /\ ready = <<>> /\ jobs = {} /\ exc = None /\ fault = "none"
    BY <1>1 DEF Init, LoopInit
  <2>2. stack \in Seq(Frame)
    BY InitTypes DEF LoopTypeOK
  <2> QED BY <2>1, <2>2
<1>3. Fitting(g) /\ ~Risky(g)
  BY <1>1 DEF Fitting, Risky, Plain, Sendable, RunnerFns, UserSide
<1>4. <<g>> \in Seq(FittingFrames) /\ Head(<<g>>) = g /\ <<>> \in Seq(FittingFrames)
  BY <1>2, <1>3 DEF FittingFrames
<1> QED BY <1>2, <1>3, <1>4 DEF KeptInv, FramesIn, Top

LEMMA ProcessStep ==
  ASSUME TypeOK, TypeOK', Lock, KeptInv, [Next]_vars, QuietSend,
         PayloadsFit, ThrowsInTry, RejectsWithReason
  PROVE  KeptInv'
BY HookStepsKept, ReplyStepsKept, UserStepsKept, LifecycleStepsKept, PlatformStepsKept
DEF Next, Progress, Stutter

(* What user code throws where the framework promises to catch it, what a  *)
(* serializer throws and what the end of an onSend chain refuses never     *)
(* take the process down, and the framework throws nothing of its own: for *)
(* any hooks, styles, payloads and interleavings, as long as parsers and   *)
(* error handlers do not throw, payload hooks reject with a reason and     *)
(* preSerialization hooks answer synchronously, nothing is sent without    *)
(* the hooks that would have caught its failure (PayloadsFit), and neither *)
(* callNotFound nor reply.send is called at the wrong time.                *)
THEOREM ProcessIsKept ==
  ASSUME SyncSerialization, PayloadsFit, ThrowsInTry, RejectsWithReason
  PROVE  Spec /\ NotFoundInTime /\ NoSendInOnError => []ProcessKept
<1>1. Init => KeptInv
  BY KeptInit
<1>2. TypeOK /\ TypeOK' /\ Lock /\ KeptInv /\ QuietSend /\ [Next]_vars => KeptInv'
  BY ProcessStep
<1>3. KeptInv => ProcessKept
  BY DEF KeptInv, ProcessKept
<1> QED BY <1>1, <1>2, <1>3, AlwaysLocked, TypeCorrect, PTL DEF Spec, NoSendInOnError
=============================================================================
