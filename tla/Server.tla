------------------------------- MODULE Server -------------------------------
(***************************************************************************)
(* The life of one Fastify server: ready, listen, close and inject         *)
(* (fastify.js, lib/server.js) called in any order by the application, the *)
(* onReady hooks (hookRunnerApplication of lib/hooks.js), and the raw http *)
(* server.                                                                 *)
(*                                                                         *)
(* Plugins are loaded and queues are worked off by avvio, which is not in  *)
(* this repository.  Of it the module has what the code relies on: what is *)
(* given to its ready function waits in a queue until the plugins are      *)
(* loaded and then runs one by one, with the error the function before     *)
(* reported; "start" is emitted the first time that queue is empty; close  *)
(* waits in the same queue and then works off the onClose functions, the   *)
(* last one added first.                                                   *)
(***************************************************************************)
EXTENDS Naturals, Sequences, FiniteSets

CONSTANTS
  Callers,             \* the calls the application makes
  Kinds,               \* what they may be, see CallKinds
  OnReadyHooks,        \* how many onReady hooks there are
  MayFail,             \* what may fail: "load", "hook", "bind"
  Return503OnClosing,  \* the option return503OnClosing
  RacingListens        \* may listen be called, without a callback, while
                       \* another listen is under way?

CallKinds == {"ready", "listen", "listenPromise", "inject", "close"}

ASSUME ServerAssumption ==
  /\ Kinds \subseteq CallKinds
  /\ Callers \cap {"server", "hook"} = {}   \* what else is in closeQ
  /\ OnReadyHooks \in Nat
  /\ MayFail \subseteq {"load", "hook", "bind"}
  /\ Return503OnClosing \in BOOLEAN
  /\ RacingListens \in BOOLEAN

VARIABLES
  call,       \* what each caller called, and how far the call is
  boot,       \* avvio: idle, loading plugins, or flowing through readyQ
  readyQ,     \* the queue of avvio's ready, the running function included
  running,    \* what the function at its head is doing
  bootErr,    \* the function before it, or the loading of plugins, failed
  closeQ,     \* the onClose functions and close callbacks to run
  closeAt,    \* paused, flowing, or the function the queue waits for
  started, listening, closing,   \* fastify[kState]
  server,     \* the raw server
  lookups,    \* how many calls of server.listen look up their host
  ticks, micros,   \* process.nextTick callbacks and promise jobs
  turn,       \* what the event loop is working off
  ran         \* history: how many onReady hooks ran without an error

queue == <<boot, readyQ, running, bootErr>>
close == <<closeQ, closeAt>>
state == <<started, listening, closing, server, lookups>>
loop == <<ticks, micros, turn>>
vars == <<call, queue, close, state, loop, ran>>

Item(k, c) == [k |-> k, c |-> c]
Items == [k : {"boot", "hook", "exit", "close"}, c : Callers]
Ticks == [k : {"runHooks", "resume", "release", "serve", "closed", "bound", "broken"}, c : Callers]
OnClose == {"server", "hook"}

(* A call is refused when the answer says that the server is closed or is  *)
(* listening already; a request that is refused gets an error or a 503.    *)
(* "unbound" is the failure of a listen that the raw server reported.      *)
Ends == {"done", "failed", "unbound", "refused"}
Stages == {"idle", "waiting", "granted", "binding", "serving"} \cup Ends

(* "open": there is a handle that takes connections; "shutting": closed,   *)
(* with connections that have not ended.                                   *)
ServerStates == {"idle", "open", "shutting", "closed"}
HasHandle == server = "open"

(* The variables keep their types. *)
TypeOK ==
  /\ call \in [Callers -> [kind : Kinds, at : Stages]]
  /\ boot \in {"idle", "loading", "flowing"}
  /\ readyQ \in Seq(Items)
  /\ running \in {"no", "inside", "returns", "waits"}
  /\ bootErr \in BOOLEAN
  /\ closeQ \in Seq(OnClose \cup Callers)
  /\ closeAt \in {"paused", "flowing"} \cup OnClose
  /\ started \in BOOLEAN /\ listening \in BOOLEAN /\ closing \in BOOLEAN
  /\ server \in ServerStates /\ lookups \in Nat
  /\ ticks \in Seq(Ticks) /\ micros \in Seq(Callers)
  /\ turn \in {"script", "ticks", "micros"}
  /\ ran \in 0 .. OnReadyHooks

(* The application added one onClose hook. *)
Init ==
  /\ call \in [Callers -> [kind : Kinds, at : {"idle"}]]
  /\ boot = "idle" /\ readyQ = <<>> /\ running = "no" /\ bootErr = FALSE
  /\ closeQ = <<"hook">> /\ closeAt = "paused"
  /\ started = FALSE /\ listening = FALSE /\ closing = FALSE
  /\ server = "idle" /\ lookups = 0
  /\ ticks = <<>> /\ micros = <<>> /\ turn = "script"
  /\ ran = 0

To(c, stage) == call' = [call EXCEPT ![c].at = stage]

-----------------------------------------------------------------------------
(* A turn goes on while one of the queues can; then come the nextTick      *)
(* callbacks and the promise jobs, those of the kind that is being worked  *)
(* off first.                                                              *)
ReadyRuns == boot = "flowing" /\ running = "no" /\ readyQ # <<>>
CloseRuns == closeAt = "flowing" /\ closeQ # <<>>
TurnOver == ~ReadyRuns /\ ~CloseRuns /\ running \notin {"inside", "returns"}
TickNext == TurnOver /\ ticks # <<>> /\ (turn # "micros" \/ micros = <<>>)
MicroNext == TurnOver /\ micros # <<>> /\ (turn = "micros" \/ ticks = <<>>)
LoopIdle == TurnOver /\ ticks = <<>> /\ micros = <<>>

(* The application makes its calls inside a callback or an onReady hook,   *)
(* or in a turn of its own.                                                *)
Calls(c, kinds) ==
  /\ call[c].at = "idle" /\ call[c].kind \in kinds
  /\ running = "inside" \/ LoopIdle \/ (TurnOver /\ turn = "script")
  /\ turn' = IF running = "inside" THEN turn ELSE "script"

Made(kind) == {c \in Callers : call[c].kind = kind /\ call[c].at # "idle"}
MayListen(c) ==
  \/ RacingListens
  \/ \A d \in Made("listen") \cup Made("listenPromise") :
       call[d].at \in Ends \/ {call[c].kind, call[d].kind} = {"listen"}

(* ready(): the hooks run after the promise was returned. *)
WaitForReady(c) ==
  /\ To(c, "waiting")
  /\ ticks' = Append(ticks, Item("runHooks", c))

Refuse(c) == To(c, "refused") /\ UNCHANGED ticks
Serve(c) == To(c, "serving") /\ ticks' = Append(ticks, Item("serve", c))

CallReady(c) ==
  /\ Calls(c, {"ready", "listen"})
  /\ call[c].kind = "listen" => MayListen(c)
  /\ WaitForReady(c)
  /\ UNCHANGED <<queue, close, state, micros, ran>>

(* listenPromise looks at the state before it waits, *)
CallListenPromise(c) ==
  /\ Calls(c, {"listenPromise"}) /\ MayListen(c)
  /\ IF listening THEN Refuse(c) ELSE WaitForReady(c)
  /\ UNCHANGED <<queue, close, state, micros, ran>>

(* and inject goes the short way once the server has started. *)
CallInject(c) ==
  /\ Calls(c, {"inject"})
  /\ \/ ~started /\ WaitForReady(c)
     \/ started /\ closing /\ Refuse(c)
     \/ started /\ ~closing /\ Serve(c)
  /\ UNCHANGED <<queue, close, state, micros, ran>>

Start == boot' = IF boot = "idle" THEN "loading" ELSE boot

(* close is avvio's. *)
CallClose(c) ==
  /\ Calls(c, {"close"})
  /\ To(c, "waiting")
  /\ readyQ' = Append(readyQ, Item("close", c))
  /\ Start
  /\ UNCHANGED <<running, bootErr, close, state, ticks, micros, ran>>

-----------------------------------------------------------------------------
(* preReady adds the function that closes the server, the first to run. *)
PluginsLoaded ==
  /\ LoopIdle
  /\ boot = "loading"
  /\ boot' = "flowing"
  /\ closeQ' = <<"server">> \o closeQ
  /\ bootErr' \in {FALSE, "load" \in MayFail}
  /\ turn' = "ticks"
  /\ UNCHANGED <<call, readyQ, running, closeAt, state, ticks, micros, ran>>

(* runHooks gives avvio the function that starts the onReady hooks. *)
RunHooks ==
  /\ TickNext /\ Head(ticks).k = "runHooks"
  /\ ticks' = Tail(ticks) /\ turn' = "ticks"
  /\ readyQ' = Append(readyQ, Item("boot", Head(ticks).c))
  /\ Start
  /\ UNCHANGED <<call, running, bootErr, close, state, micros, ran>>

(* The raw server gets its handle, or an error; either is emitted on the   *)
(* next tick.                                                              *)
Open(c) ==
  \/ server' = "open" /\ ticks' = Append(ticks, Item("bound", c))
  \/ /\ "bind" \in MayFail
     /\ ticks' = Append(ticks, Item("broken", c)) /\ UNCHANGED server

(* server.listen throws when the server has a handle already, which only   *)
(* the promise variant can meet; it looks up the host first if it has one. *)
Bind(c) ==
  \/ HasHandle /\ To(c, "failed") /\ UNCHANGED <<server, listening, lookups, ticks>>
  \/ /\ ~HasHandle /\ To(c, "binding")
     /\ listening' = TRUE
     /\ \/ Open(c) /\ UNCHANGED lookups
        \/ lookups' = lookups + 1 /\ UNCHANGED <<server, ticks>>

(* Mutant: listen does not look at the state. *)
NeverRefused == FALSE

IsRefused == listening

(* manageErr: the callback or the promise of c gets the result. *)
Answer(c) ==
  \/ /\ bootErr /\ To(c, "failed")
     /\ UNCHANGED <<server, listening, lookups, ticks, micros>>
  \/ /\ ~bootErr /\ call[c].kind = "ready" /\ To(c, "done")
     /\ UNCHANGED <<server, listening, lookups, ticks, micros>>
  \/ /\ ~bootErr /\ call[c].kind = "listen"
     /\ \/ ~IsRefused /\ Bind(c)
        \/ IsRefused /\ Refuse(c) /\ UNCHANGED <<server, listening, lookups>>
     /\ UNCHANGED micros
  \/ /\ ~bootErr /\ call[c].kind = "listenPromise"
     /\ To(c, "granted") /\ micros' = Append(micros, c)
     /\ UNCHANGED <<server, listening, lookups, ticks>>
  \/ /\ ~bootErr /\ call[c].kind = "inject" /\ Serve(c)
     /\ UNCHANGED <<server, listening, lookups, micros>>

(* The callback of a call that ends is the application's code. *)
AnswerAt(c) ==
  /\ Answer(c)
  /\ running' = IF call'[c].at \in Ends THEN "inside" ELSE "returns"

Runs(k) == ReadyRuns /\ Head(readyQ).k = k
Current == Head(readyQ).c

(* Mutant: the answer is not put behind the hooks. *)
ExitThenHooks(c) ==
  <<Item("exit", c)>> \o [i \in 1 .. OnReadyHooks |-> Item("hook", c)]

(* Mutant: the answer is put behind every hook.                            *)
ExitBehindEach(c) ==
  [i \in 1 .. 2 * OnReadyHooks |-> Item(IF i % 2 = 1 THEN "hook" ELSE "exit", c)]

(* Mutant: hooks[++i] for hooks[i++].                                      *)
HooksOffByOne(c) ==
  [i \in 1 .. OnReadyHooks |-> Item(IF i = OnReadyHooks THEN "undefined" ELSE "hook", c)]
    \o <<Item("exit", c)>>

HooksThenExit(c) ==
  [i \in 1 .. OnReadyHooks |-> Item("hook", c)] \o <<Item("exit", c)>>

(* The function ready gave to avvio.  With hooks to run it puts them in    *)
(* the queue, and after them the function that answers.                    *)
RunBoot ==
  /\ Runs("boot")
  /\ \/ /\ bootErr \/ started \/ OnReadyHooks = 0
        /\ AnswerAt(Current)
        /\ UNCHANGED readyQ
     \/ /\ ~bootErr /\ ~started /\ OnReadyHooks > 0
        /\ readyQ' = readyQ \o HooksThenExit(Current)
        /\ running' = "returns"
        /\ UNCHANGED <<call, server, listening, lookups, ticks, micros>>
  /\ bootErr' = FALSE
  /\ UNCHANGED <<boot, close, started, closing, turn, ran>>

(* wrap: a hook that comes after an error is not called. *)
RunHook ==
  /\ Runs("hook")
  /\ running' = IF bootErr THEN "returns" ELSE "inside"
  /\ UNCHANGED <<call, boot, readyQ, bootErr, close, state, loop, ran>>

(* manageTimeout answers and passes the error on. *)
RunExit ==
  /\ Runs("exit")
  /\ AnswerAt(Current)
  /\ UNCHANGED <<boot, readyQ, bootErr, close, started, closing, turn, ran>>

RunClose ==
  /\ Runs("close")
  /\ bootErr' = FALSE
  /\ closeQ' = Append(closeQ, Current)
  /\ ticks' = ticks \o <<Item("resume", Current), Item("release", Current)>>
  /\ running' = "waits"
  /\ UNCHANGED <<call, boot, readyQ, closeAt, state, micros, turn, ran>>

(* The function at the head of the queue calls back: the queue goes on,    *)
(* and has started when it is empty.                                       *)
GoOn ==
  /\ running' = "no"
  /\ readyQ' = Tail(readyQ)
  /\ started' = (started \/ Tail(readyQ) = <<>>)
  /\ UNCHANGED <<call, boot, close, listening, closing, server, lookups>>

(* A hook may throw, call back at once, or later. *)
HookCalled == running = "inside" /\ Head(readyQ).k = "hook"
Ran(hook) == ran' = IF hook /\ ran < OnReadyHooks THEN ran + 1 ELSE ran

Return ==
  /\ running \in {"inside", "returns"}
  /\ bootErr' \in {bootErr, HookCalled /\ "hook" \in MayFail}
  /\ bootErr => bootErr'
  /\ GoOn
  /\ Ran(HookCalled /\ ~bootErr')
  /\ UNCHANGED loop

HookWaits ==
  /\ HookCalled
  /\ running' = "waits"
  /\ UNCHANGED <<call, boot, readyQ, bootErr, close, state, loop, ran>>

(* A late hook calls back: from an event, or as a promise that settles.  A *)
(* hook that never does is timed out by avvio and has failed.              *)
HookSettles ==
  /\ LoopIdle
  /\ running = "waits" /\ Head(readyQ).k = "hook"
  /\ bootErr' \in {FALSE, "hook" \in MayFail}
  /\ turn' \in {"ticks", "micros"}
  /\ GoOn
  /\ Ran(~bootErr')
  /\ UNCHANGED <<ticks, micros>>

(* nextTick: avvio's close resumes its queue and then lets ready go on. *)
Resume ==
  /\ TickNext /\ Head(ticks).k = "resume"
  /\ ticks' = Tail(ticks) /\ turn' = "ticks"
  /\ closeAt' = IF closeAt = "paused" THEN "flowing" ELSE closeAt
  /\ UNCHANGED <<call, queue, closeQ, state, micros, ran>>

Release ==
  /\ TickNext /\ Head(ticks).k = "release"
  /\ ticks' = Tail(ticks) /\ turn' = "ticks"
  /\ GoOn
  /\ UNCHANGED <<bootErr, micros, ran>>

(* Mutant: closeRoutes is not called. *)
NeverUnavailable == FALSE

Unavailable == closing /\ Return503OnClosing

(* The injected request reaches routeHandler. *)
ServeRequest ==
  /\ TickNext /\ Head(ticks).k = "serve"
  /\ ticks' = Tail(ticks) /\ turn' = "ticks"
  /\ To(Head(ticks).c, IF Unavailable THEN "refused" ELSE "done")
  /\ UNCHANGED <<queue, close, state, micros, ran>>

(* this.ready().then(...) of listenPromise *)
Granted ==
  /\ MicroNext
  /\ Bind(Head(micros))
  /\ micros' = Tail(micros) /\ turn' = "micros"
  /\ UNCHANGED <<queue, close, started, closing, ran>>

-----------------------------------------------------------------------------
(* The raw server reports: the callers that wait for it are answered.      *)
Report(waiting, stage) ==
  call' = [c \in Callers |-> IF c \in waiting
                             THEN [call[c] EXCEPT !.at = stage] ELSE call[c]]

Binding == {c \in Callers : call[c].at = "binding"}

(* wrap takes itself off the error event only: the callback of a listen    *)
(* that failed is called again when a later one binds the server.          *)
Unbound == {c \in Callers : call[c].at = "unbound" /\ call[c].kind = "listen"}

LookupPending == lookups > 0

LookupDone ==
  /\ LoopIdle /\ LookupPending
  /\ lookups' = lookups - 1
  /\ \E c \in Callers :
       \/ ~HasHandle /\ Open(c)
       \/ HasHandle /\ ticks' = Append(ticks, Item("bound", c)) /\ UNCHANGED server
  /\ turn' = "ticks"
  /\ UNCHANGED <<call, queue, close, started, listening, closing, micros, ran>>

(* The listening event is not emitted if the handle was closed meanwhile. *)
Bound ==
  /\ TickNext /\ Head(ticks).k = "bound"
  /\ IF HasHandle THEN Report(Binding \cup Unbound, "done") ELSE UNCHANGED call
  /\ ticks' = Tail(ticks) /\ turn' = "script"
  /\ UNCHANGED <<queue, close, state, micros, ran>>

(* Mutant: the error listener is not set before listen is called. *)
BrokenUnheard ==
  /\ TickNext /\ Head(ticks).k = "broken"
  /\ listening' = FALSE
  /\ ticks' = Tail(ticks) /\ turn' = "script"
  /\ UNCHANGED <<call, queue, close, started, closing, server, lookups, micros,
                 ran>>

Broken ==
  /\ TickNext /\ Head(ticks).k = "broken"
  /\ Report(Binding, "unbound")
  /\ listening' = FALSE
  /\ ticks' = Tail(ticks) /\ turn' = "script"
  /\ UNCHANGED <<queue, close, started, closing, server, lookups, micros, ran>>

(* Mutant: server.close is not given the callback. *)
ShutUnawaited == closeAt' = "flowing" /\ server' = "shutting"

Shut == closeAt' = "server" /\ server' = "shutting"

(* The onClose function of preReady.  Without a handle server.close calls  *)
(* back on the next tick, with an error that avvio drops.                  *)
CloseServer ==
  /\ CloseRuns /\ Head(closeQ) = "server"
  /\ closing' = TRUE
  /\ closeQ' = Tail(closeQ)
  /\ \/ /\ ~listening /\ closeAt' = "flowing"
        /\ UNCHANGED <<server, ticks>>
     \/ /\ listening /\ HasHandle
        /\ Shut
        /\ UNCHANGED ticks
     \/ /\ listening /\ ~HasHandle
        /\ closeAt' = "server"
        /\ ticks' = Append(ticks, Item("closed", closeQ[Len(closeQ)]))
        /\ UNCHANGED server
  /\ UNCHANGED <<call, queue, started, listening, lookups, micros, turn, ran>>

NoHandle ==
  /\ TickNext /\ Head(ticks).k = "closed"
  /\ ticks' = Tail(ticks) /\ turn' = "ticks"
  /\ closeAt' = "flowing"
  /\ UNCHANGED <<call, queue, closeQ, state, micros, ran>>

(* The last connection has ended. *)
ServerClosed ==
  /\ LoopIdle
  /\ server = "shutting"
  /\ server' = "closed" /\ closeAt' = "flowing"
  /\ turn' = "ticks"
  /\ UNCHANGED <<call, queue, closeQ, started, listening, closing, lookups, ticks,
                 micros, ran>>

CloseHook ==
  /\ CloseRuns /\ Head(closeQ) = "hook"
  /\ closeQ' = Tail(closeQ)
  /\ closeAt' = "hook"
  /\ UNCHANGED <<call, queue, state, loop, ran>>

CloseHookDone ==
  /\ closeAt = "hook" /\ TurnOver
  /\ closeAt' = "flowing"
  /\ UNCHANGED <<call, queue, closeQ, state, loop, ran>>

Closed ==
  /\ CloseRuns /\ Head(closeQ) \in Callers
  /\ closeQ' = Tail(closeQ)
  /\ To(Head(closeQ), "done")
  /\ UNCHANGED <<queue, closeAt, state, loop, ran>>

-----------------------------------------------------------------------------
Call(c) == CallReady(c) \/ CallListenPromise(c) \/ CallInject(c) \/ CallClose(c)
Avvio ==
  \/ PluginsLoaded \/ RunBoot \/ RunHook \/ RunExit \/ RunClose \/ Return
  \/ HookSettles \/ Resume \/ Release
  \/ CloseServer \/ NoHandle \/ ServerClosed \/ CloseHook \/ CloseHookDone \/ Closed
Progress == Avvio \/ RunHooks \/ ServeRequest \/ Granted
  \/ LookupDone \/ Bound \/ Broken

Next == (\E c \in Callers : Call(c)) \/ HookWaits \/ Progress

(* The event loop serves what is ready: an application that goes on making *)
(* calls in one turn cannot, as it has Callers many.                       *)
Spec == Init /\ [][Next]_vars /\ WF_vars(Progress)
-----------------------------------------------------------------------------
Closers == Made("close")

(* The raw server takes connections, and an injected request is on its     *)
(* way, only after every onReady hook has run without an error, unless     *)
(* ready reported a failure to an earlier caller or close was called       *)
(* (docs/Hooks.md, onReady; ready of fastify.js, hookRunnerApplication).   *)
OnReadyBeforeRequests ==
  \/ ran = OnReadyHooks
  \/ server = "idle" /\ \A c \in Callers : call[c].at # "serving"
  \/ Closers # {}
  \/ \E c \in Callers : call[c].at = "failed"

(* close answers when the server is told to stop taking connections and    *)
(* the last of them has ended (the onClose function of fastify.js), and    *)
(* what the application's onClose hooks close is closed after it.          *)
CloseIsLast ==
  /\ (\E c \in Closers : call[c].at = "done") => closing /\ server # "shutting"
  /\ closeAt = "hook" => closing /\ server # "shutting"

(* Once the server is closing, an injected request is never served         *)
(* (closing of lib/route.js, and inject of fastify.js).                    *)
ClosedServesNothing ==
  [][\A c \in Made("inject") :
       closing /\ call[c].at \notin Ends => call'[c].at # "done"]_vars

(* The flag that keeps a second listen out is set as long as the raw       *)
(* server has a handle, whatever fails or is called meanwhile              *)
(* (lib/server.js).                                                        *)
ListeningFlag == HasHandle => listening

(* An answer is final: the callback or the promise of a call gets no       *)
(* second one, in any order of calls, failures and closing.  Only the      *)
(* callback of a listen that failed to bind may be called again (ready and *)
(* manageErr of fastify.js, wrap of lib/server.js).                        *)
AnsweredOnce ==
  [][\A c \in Callers :
       call[c].at \in Ends =>
         \/ call'[c].at = call[c].at
         \/ call[c].at = "unbound" /\ call[c].kind = "listen"]_vars

(* Every call of ready, listen, close and inject gets its answer, in any   *)
(* order of calls, failing hooks, plugins and bindings included.  The      *)
(* promise of a listen may stay pending when close was called: without the *)
(* handle the raw server does not emit listening.                          *)
CallsEnd ==
  \A c \in Callers :
    call[c].at # "idle" ~> \/ call[c].at \in Ends
                           \/ call[c].kind = "listenPromise" /\ closing

(* A server that was closed stays closed (lib/errors.js: "Fastify has      *)
(* already been closed and cannot be reopened").                           *)
ClosedStaysClosed == (\E c \in Closers : call[c].at = "done") => ~HasHandle
=============================================================================
