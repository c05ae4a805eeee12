# Fastify 3.19.1 in TLA+

TLA+ models of the core of Fastify, the TLC runs that check them on small
instances, and theorems about them checked by TLAPS. The reference is the code:
`src/fastify.js` and `src/lib/`. Paths below are relative to the repository.

Fastify runs in one thread of Node.js, so there are no data races. What makes it
hard is that a request is a long chain of callbacks in which *user code* (hooks,
parsers, handlers, error handlers) decides whether to answer by callback, by
promise, by `reply.send`, by exception or later, that a second answer, a late
rejection, a client that goes away or a failing stream can come in between any two
turns of the event loop, and that the state that should keep all this apart is a
handful of flags on the Reply.

## The system

| Component | State | Operations | Interacts with | What is hard | What makes it correct |
|---|---|---|---|---|---|
| Hook runners of a request (`lib/hooks.js`, `preParsingHookRunner` of `lib/route.js`) | index into a hook list, in closures | call the next hook; settle; end | Reply (`reply.sent`, `send`), the callbacks of route and handleRequest | a hook may answer and settle, throw, reject with anything; the runner tests `reply.sent` in a later promise job | order of the phases; an answer stops the request; a failure is reported |
| Request handling (`routeHandler`, `lib/handleRequest.js`, `lib/wrapThenable.js`) | none of its own | start the phases, parse, validate, call the handler, take its promise | all others | what is thrown in one try block after another function marked the reply sent | handler last and once; its value or rejection sent unless answered |
| Reply (`lib/reply.js`) | `kReplySent`, `kReplySentOverwritten`, `kReplyIsError`, `kReplyIsRunningOnErrorHook`, `kReplyErrorHandlerCalled`, the raw response | `send`, `callNotFound`, `hijack`, `sent =`, `then`; serialization, onSend, error handling, onResponse | payload hooks, error handler, streams, `http.ServerResponse` | errors in every phase come back to `handleError`; flags are set later than the event they stand for | one head, one end, one onResponse, one error handler call, every request answered |
| Body collection (`rawBody`, `ContentTypeParser.run`) | collected chunks, `receivedLength` | data, end, error of the stream; run a parser | Reply, handler | chunks in any number; lengths in units, bytes, encoded bytes; events after a refusal | limit and declared length hold for what is parsed; one outcome |
| Server (`ready`, `inject` of `fastify.js`, `lib/server.js`, `hookRunnerApplication`) | `kState` (`started`, `listening`, `closing`), avvio's queues, the raw server | ready, listen, inject, close | avvio, onReady and onClose hooks, `net.Server` | the calls come in any order and wait for one another | hooks before requests, close waits, no second listen, every call answered |
| Content type parsers (`lib/contentTypeParser.js`) | `customParsers`, `parserList`, `parserRegExpList`, a cache | add, existingParser, getParser, inheritance | routes, encapsulation | the cache and the three lists must agree; a child takes a copy | the parser found is the one the documentation describes, with three exceptions |
| Encapsulation (`lib/pluginOverride.js`, `lib/pluginUtils.js`, `lib/decorate.js`, setters of `fastify.js`) | a tree of instances, each with copies of or links to what it inherits | register, after, addHook, decorate, the setters | avvio, routes, 404, parsers, schemas | what is copied when, what is put off with `after`, what still follows the parent | a route gets what its plugin and those around it added, whenever they did |
| Routes and 404 (`lib/route.js`, `lib/headRoute.js`, `lib/fourOhFour.js`, `lib/context.js`) | contexts, completed by `preReady` listeners | route, exposed HEAD routes, onRoute hooks, setNotFoundHandler | encapsulation, find-my-way | a context is read from its instance at two moments; contexts of 404 handlers are replaced and copied | a HEAD route for every exposed GET; the 404 handler of the nearest prefix |
| Schemas (`lib/schema-controller.js`, `lib/schemas.js`) | schema buckets, compilers | addSchema, the compilers' setters, setup | encapsulation | a compiler built for another instance, or before a schema was added | a compiler knows every schema its instance sees |
| Socket timeouts (`handleTimeout` of `lib/route.js`) | `_meta` of a socket | set per request, read on timeout | keep-alive connections | a socket outlives its requests | onTimeout hooks run for the request that timed out, once |
| Request ids (`lib/reqIdGenFactory.js`) | a 31 bit counter | next | routeHandler | wrap-around | ids of any 2^31 requests in a row differ |
| Configuration, errors, logging | none | | | | not modelled: tables, generated validation, pure I/O |

avvio (boot queues), find-my-way (router), ajv and fast-json-stringify, and Node.js
are not in the repository; what the code relies on is modelled and marked external.

## The modules

```
EventLoop -- Exchange -- Hooks -- Reply -- UserCode -- Lifecycle -- MCLifecycle
                                                           |
                               ResponseContract  <-- refinement     LifecycleProofs -- ContractProofs
RawBody -- MCRawBody, RawBodyProofs
Server  -- MCServer, ServerProofs -- ReadyProofs
ContentTypes -+
Schemas ------+- Encapsulation -- Routing -+- Application -- MCApplication
                                  Serving -+            ApplicationProofs
                                                        InheritanceProofs -- ParserProofs
```

**EventLoop** (external). Node.js as the code sees it: a stack of call frames, the
promise jobs that are ready, the operations the platform still has, exceptions
that unwind the stack to a frame with a try block, and the two ways a process is
lost (`fault`). A turn runs to completion, promise jobs run before platform events.

**Exchange**. The state of one request: `reply` (the flags of Reply), `res` (the raw
response), `ctx` (the context of the route or of the 404 handler), and `did`, history
that only properties read.

**Hooks**, **Reply**, **UserCode**, **Lifecycle**. One action per step of a function
of the code between two calls of something that can answer, throw or suspend. A frame
names the function that runs. A callback, promise or event of the code is a frame that
is called, queued as a promise job, or left with the platform, as in the code, with its
try blocks: `Unwinding(f)` is the catch clause of `f`. So `HookCalled`, `HookRejected`,
`HookRunnerEnds` are `next` and `handleReject` of `hookRunner`; `SendError`, `SendAsIs`,
`SendSerialized` are the branches of `Reply.prototype.send`; `PROJECT.json` has the lines
of every definition. UserCode is the application: the constants `Style` and `Acts` say
how each kind of function is written and what it may do, within the documentation: it
calls its callback or settles its promise once.

Data are reduced to what the code tells apart: a payload is one of `Payload`
(`"stream"`, `"unserializable"`, `"Error"`, ...), a status is ok, 204 or error. Headers,
logging, the text of errors, serializer lookup and HEAD requests are left out.

**ResponseContract** is the abstract specification: the client of a request sees one
status line and then the end of the body, or loses the connection, and the onResponse
hooks are started at most once. `Lifecycle!KeepsContract` is `FairSpec` of it under a
refinement mapping (`ClientPhase`); a process that is lost loses the connection, whether
it may be lost is asked by `ProcessKept`.

**RawBody** models `rawBody` event by event with the three lengths of a chunk.
Lifecycle contains only its outcomes (`HandleRawBody`, `RawBodyDone`, `RawBodyBroken`).

**Server** models a server instance and a set of callers that each make one call.
`readyQ`, `closeQ`, `running` and `bootErr` are avvio's; `ticks` and `micros` are
`process.nextTick` callbacks and promise jobs, whose relative order decides races
between close and the promise of listen. A promise inject is modelled as the callback
one: it waits for ready and then serves.

**Application** models what an application makes of Fastify before and between
requests. Main script and plugins call the methods of `fastify.js` in any order
(`Call`); `frames` are the plugins avvio is loading, each with the jobs its body asked
for, and `Boot` is avvio: a body runs to its end, then its jobs in order, depth first. A
method acts at once (`CallDecorate`, `CallAddSchema`, `CallSet`, ...) or puts its work
off with `after` (`CallAddHook`, `CallRoute`, the second half of
`CallSetNotFoundHandler`), as in the code: that difference is where the order of two
calls matters. When the root plugin is loaded the `preReady` listeners run one by one
(`RouteListener`, `NotFoundListener`), and the server starts or fails. `log` records
what took effect; it is what the properties compare the contexts with.

What is computed along the way are operators of their own modules, on values instead
of variables: **ContentTypes** (one registry of parsers), **Schemas** (one schema
controller), **Encapsulation** (the sequence `insts` of all instances: `Override` makes a
child from its parent, `Nearest` is a lookup on the prototype chain, `AddHook` and
`AddSchema` recurse over `kChildren`), **Routing** (`AddRoute` is `addNewRoute` with
`afterRouteAdded` for each of its paths, `RouteReady` the preReady listener of a route, the
rest `fourOhFour.js`) and **Serving** (requests on sockets: ids, `_meta`, timeouts). A hook,
handler or setting is the serial number of the call that gave it; a path is a sequence
of slashes and segments, because prefixes are joined by looking at their slashes.
What happens to one request between its arrival and its answer is Lifecycle's; here a
request has the route, the id, the socket and the parser that the application's
registries give it.

## The runs

| Run | Question | Bounds |
|---|---|---|
| `payloads` | async hooks and handlers that answer, settle and reject while promise jobs interleave, payload hooks that replace, reject, throw: error handler once, onError only behind it, onSend at most twice, no exception lost, every request ends | two preHandler (async) and two onSend hooks, one preSerialization, one onError, handler and error handler of either style; three sends; rejections with an Error, a string and undefined; a custom error handler |
| `responses` | who writes the response and who learns of it: hijack, `reply.sent = true`, callNotFound, late sends and rejections, failing streams, clients that leave, response errors; phases in order, an answer stops the request, failures reported, onSend covers all that is written, the contract of ResponseContract | one hook of every kind but preSerialization; handler, parser and early hooks of either style; all six ways a body is handled; three sends |
| `raw_body` | limit, declared length, one outcome, an answer | limit 3, four chunks of five shapes, content-lengths 0 to 5 and none |
| `server` | ready, listen, inject, close in any order: each is answered, and once | three calls of any kind, two onReady hooks, any failure |
| `application` | ten topics: do hooks, settings, 404 handlers (also dropped with a body that throws, replaced by the default one, set under the prefix `/`), HEAD routes, schemas, plugins and parsers end up where their declaration says, are boot errors reported, are ids distinct, does a timeout reach its request | four or five calls per topic, two sockets, three requests, ids wrap after 1 |

Two hooks in a chain are the first case with "the next hook" and "the last hook"; the
runners keep no state but the index. Three sends are a first answer, a second one, and
the error that either leads to. A limit of 3 with chunks of 0 to 3 units lets a body be
below, at and above the limit in one to four chunks. Three calls are enough for two
listens and a close or for a failed ready, a listen and an inject. Every topic of
`application` (`MCApplication`) is the handful of methods that touch one piece of state:
in four or five calls they give a plugin in a plugin, the call before and after the
declaration it is about in each of them, and an `after` that takes an error. With two
sockets, three requests and `MaxId = 1` a request follows another on its socket, one of
another socket comes between them, and the counter wraps.

What may go wrong is asked in the run in which it can: `CHECK_DEADLOCK FALSE` is said of
`raw_body`, whose request ends, and of `server` and `application`, whose application may
stop calling and whose client may send no more. In the Lifecycle runs deadlock is checked:
a request that hangs is a deadlock.

`doc_regexp_parser` and `doc_call_not_found` have a topic of `application` each, the other
`doc_` runs as little user code as they need.

Left out of the passing runs, because the code then breaks the property (see the
findings and the list below): `responses`, which asks whether an answer stops the request,
has no preSerialization hook; `UserCode!OnceMore` has no second send after callNotFound;
user code that sets 204, with which a promise that resolves to nothing is an answer, does so in
the route and does not also call callNotFound; `server` has `RacingListens = FALSE`; only
`LostNotFoundTopic` has a plugin with the prefix `/`, and what it does to the root's handler
is outside `OwnNotFound`, under which the two properties of 404 handlers are said.

Three properties of `application` state their exceptions in their definitions:

- `HeadForEveryGet`: a GET route that asks for a HEAD route gets none of its own if the
  router finds one for its url (`router.find` at `lib/route.js:250`): after `HEAD /*`, or
  after a `GET /*` with its own HEAD route, a `GET /a` has the HEAD route of the wildcard, with
  the handler and the hooks of that. The constant `Covers` says which pattern matches which url;
  the proof assumes nothing of it. It is not said of a route under a prefix that ends in a slash:
  there the HEAD route is added under the prefix alone (listed below).
- `ParserFound`: `DocumentedParser` is what docs/ContentTypeParser.md says of the
  parsers of an instance and those around it. The code `Departs` from it in three ways: a regular
  expression of an instance around is not handed down (`NotHandedDown`, the subject of
  `doc_regexp_parser`); a parser added around a plugin that was there already is not seen by that plugin
  (`AddedLate`); one for `application/json` or `text/plain` takes the place of the built-in one,
  behind all other strings (`PlacedLast`). Of every other request the property says that it gets the
  parser that is described.
- `ErrorsReported` is about the errors that avvio is told of. It hears `done` of a job once: with
  `prefixTrailingSlash: 'both'` the error of the second path goes nowhere
  (`lib/route.js:170-173`), is in the log as `"ignored"`, and the server starts. And an error of a
  route takes the place of the one the job was handed (`lib/route.js:217`, `255`), so that an `after`
  is told of the later one alone (`TakesPlace`); `bootErr` and the entry of the log that
  says what an `after` was told (`"taken"`) have the call the error is of.

`HeadForEveryGet` and `RequirementsMet` are said of a boot in which no `after` took an error
(`Clean`): an application that swallows the error of a route goes without it. `RequirementsMet`
leaves out a plugin's own name: one that depends on it is not refused, the name goes in before
the check. `SettingsCoverBody` is said of settings made in plugin bodies: a route reads them when
it is added, and one set in an `after` comes before or after that by their order.

Seven runs show a disagreement with the
documentation or a test (`PROJECT.json` "findings" quotes the lines):

- `doc_reply_from_hook`: an async preHandler that sent an object is followed by the
  handler while an async preSerialization hook is pending.
- `doc_throwing_error_handler`: a custom error handler that throws takes the process
  down when the route handler failed in a promise job.
- `doc_undefined_rejection`: a preParsing hook rejected with undefined is a success.
- `doc_body_limit`: a body parsed as a string may have twice the limit in bytes.
- `doc_reopened`: a server closed before it ever listened opens on a later listen.
- `doc_regexp_parser`: a parser that the root instance has for a regular expression is not
  found for a request to a route of a plugin.
- `doc_call_not_found`: `reply.callNotFound` does not run the preHandler hook given with
  the 404 handler for a route that was declared before that handler was set: the route
  copied the context of the 404 handler when its hooks were not collected yet.

## Fairness

`Lifecycle!FairSpec` has weak fairness of `Progress`: JavaScript runs to completion and the
event loop serves what is ready. `Progress` includes that user code that waits goes on
(`UserGoesOn`), that a piped stream ends or fails and that a body arrives or breaks;
aborts and response errors (`Mishap`) are never assumed. `RawBody!Spec` assumes that the
stream of the body ends or fails. `Server!Spec` has weak fairness of what avvio, the event
loop and the raw server do: a hook that never calls back is timed out by avvio
(`pluginTimeout`), a closed server's connections end. A call is never assumed to be made.
`Application!Spec` states no fairness and no liveness: that plugins are loaded is avvio's
promise, and Fastify's part of a boot has no loop and waits for nobody.

## Proofs

Each theorem holds for every value of the constants that meets the named assumptions of
its module. A proof module has the inductive invariant first, a lemma per operator or
group of actions with a step per action, and the theorems last.

`LifecycleProofs`: any number of hooks, any `Style` and `Acts`, any payloads, any `MaxSends`.

- `TypeCorrect`: `Spec => []TypeOK`, with one lemma for each operator of EventLoop
  (`CallType`, `SettleType`, ...).
- `ErrorHandlerCalledOnce`: `Spec => []ErrorHandlerOnce`. `did.errorHandler <= 1` is not
  inductive: nothing in it stops a second call. The strengthening is
  `HandlerCounted`: the count is 1 exactly if `kReplyErrorHandlerCalled` is set. Only
  `ErrorHandlerCalled` changes either, and it needs the flag not set.
- `OnErrorHooksFollowHandler`: `Spec => []OnErrorAfterErrorHandler`. The invariant is
  `Handled`: once `routeHandler` has run, every frame on the stack, every promise job and
  every pending operation is one of `Later(reply.ehCalled)`, the frames that are not of
  `routeHandler` and that work for an onError hook only if the error handler was called.
  `Later` takes the flag as a constant, so that a step is typed in the frames of one value of
  it; the one step that sets it moves to a larger set (`LaterGrows`).

`ContractProofs`, from the same invariant:

- `OnResponseStartsOnce`: `Spec => []OnResponseOnce`. `Responded` adds what ties the history
  to the response: a listener is left only if the hooks were not started, a response that
  ended has a head. That `routeHandler`, which attaches the listeners, does not run again is
  what `Handled` says of the frames.
- `KeepsResponseContract`: `Spec => Contract!Spec`, the refinement without its liveness. All
  but nine actions leave what the client sees alone (`UnseenOrEvent`); each of the nine is a
  step of the contract under the mapping, or is invisible in a response that is lost already.
- `HeadFollowsFlag`, `OneHead` and `HijackIsFinal`: `ASSUME SyncSerialization PROVE Spec /\
  NotFoundInTime => P` for `[]HeadImpliesSent`, `[]HeadWrittenOnce` and `HijackHolds`. None of the
  three is inductive: two sends that were both accepted break them later. `reply.send` uses
  `kReplySent` as a lock, and the invariant `Lock` says who holds it. A frame that is on its way to
  write the response `Writes`: every frame of `send` from its acceptance to `writeHead`, the
  runner of a payload hook, the hook itself until it is done, the pipe of a stream, and user code
  that took the response over. Over stack, promise jobs and pending operations there is at most
  one, and while there is one (`Firm` or past preSerialization) the flag is set. The hard part is the
  code that clears the flag: `handleError`, `wrapThenable` on an error and `callNotFound`. For the
  first two `Lock` says of every frame that may throw or be caught (`Catches`, `Open`, `OverThen`)
  that no other frame is the writer then, of the flag `kReplyIsRunningOnErrorHook` that it is set
  only while the writer is an onError chain (`Calm`), and it allows one state in which the flag
  is clear while a chain is pending: the send that follows throws, and the process is lost
  (`Doomed`). There is a lemma for each operator of EventLoop under `Lock` (`NeutralGoto`,
  `ReturnStep`, `LeaveStep`, `TurnStep`, ...) and one for each group of actions. For the third
  theorem `Hijacked` adds that the raw response that user code ends is a writer until it wrote.
  The two hypotheses are what the code leaves open: a preSerialization
  hook that answers later leaves the flag clear (`SyncSerialization`: there are no such hooks or
  they are synchronous; `doc_reply_from_hook`), and `callNotFound` clears it whatever was sent
  (`NotFoundInTime`: it is called before a reply was sent; listed below). Both hold in
  every behaviour of the run `responses`, which has handlers that call `callNotFound`.
- `OnSendCoversAll`: `ASSUME NoSerializationHooks PROVE Spec => []OnSendCovers`. `Unpassed`: until
  the first onSend hook is called every frame on the stack, every promise job and every pending
  operation is `Early`: none is on the way from an onSend chain to `writeHead`, an onSend chain is
  at its first hook, and whoever handles an error was given `onSendHook` to go on with (`k`). A lemma
  for each operator that builds a frame says which it builds of an early one. With a
  preSerialization hook the claim is false: an error object that cannot be serialized comes to
  `onErrorHook` without a callback and is written at once.
- `OnSendTwiceAtMost`: `ASSUME SyncSerialization PROVE Spec /\ NotFoundInTime =>
  []OnSendAtMostTwice`. Nothing in the code counts the chains; a third one is kept off by
  `reply.sent`. `SendInv` says that the count is at most one until the error handler was called and
  two after it, and that once the chain started as often as it may (`SendsSpent`) the reply is `Closed`:
  the flag, or that of a running onError chain, is set, no frame anywhere is on its way to
  `onSendHook` (`MayStart`), and no exception gets to a frame that would start the chain again
  (`Shut`: on the stack, the catch clause of an onError chain or of `wrapThenable` is reached only
  past a frame that stops the exception, or the running frame throws nothing). That a chain which
  may start is the only one is what `Lock` says. The error handler is where the flag is cleared, and
  it is called once.
- `RequestInOrder`: `ASSUME NotFoundInTurn PROVE Spec => LifecycleOrder`. Nothing in the code looks at
  what ran before: the order is kept because one frame at most has the request. `Token` says which
  frames do (`Live`: a runner, callback, promise job or pending function that will go on with the
  phase; `Asks`: one that may call `callNotFound`), and `OrderInv` that over stack, promise jobs and
  pending operations there is at most one (`Sole`), and that the last function called is not past
  the place where it stands (`InTurn`: up to hook `i` of chain `c`, or before the functions that
  follow the callback). The lemmas are those of a token that is handed on: what each move and
  each start of a turn does to `Sole` (`SoleMove`, `SoleTurn`), and which frames built from another
  one have the request only if that one had it (`Follows`: `ChainFollows`, `StartFollows`,
  `BodyFollows`, `OutcomeFollows`). `RequestCalled` is the only place where the history goes up. The
  hypothesis is about the application: `callNotFound` is left to the handler, and to hooks and
  parsers that are not async. Without it TLC finds the order broken: `callNotFound` starts the 404's
  hooks whoever has the request, so an async hook that calls it, or an error handler that does while
  an async function is pending, has the hooks of the route called after those of the 404. The run
  `responses` satisfies it.
- `ProcessIsKept`: `ASSUME SyncSerialization, PayloadsFit, ThrowsInTry, RejectsWithReason PROVE
  Spec /\ NotFoundInTime /\ NoSendInOnError => []ProcessKept`. `KeptInv` says that an exception that
  was thrown has at once reached a frame that catches it (`TopCatches`), and that a frame which is
  about to throw (`Risky`: a payload that cannot be serialized, a replacement that is no string) runs
  right on top of the try block of the payload hooks' runner and is never queued. That needs what
  frames carry up to the end of the onSend chain (`Fitting`); that such a frame is `Safe` where it is
  made is a lemma for each way to make one (`SafeCallback`, `SafeNext`, `SafeStart`, `SafeUser`,
  `SafeOutcome`). Each hypothesis names a way to lose the process that the code has:
  `ThrowsInTry`, a parser or error handler that throws after a turn of the loop
  (`doc_throwing_error_handler`); `RejectsWithReason`, a payload hook that rejects with `undefined`,
  which counts as a success and goes on outside the try block; `PayloadsFit`, a payload that cannot
  be sent in a route without the hooks whose runner would catch that; `NoSendInOnError`, a send while
  onError hooks run, of which docs/Hooks.md says that it throws. `SyncSerialization` and
  `NotFoundInTime` are those of the lock. The run `payloads` checks the property with preSerialization
  hooks that may be async too, and with the other hypotheses met.

`RawBodyProofs` proves `BodyTypeCorrect`, `WithinLimit`, `AsDeclared` and `DecidedOnce` for any
limit, content-lengths and chunks. The inductive invariant says of the time in which the
listeners are attached (`Collecting`) that nothing is decided, that `received` is the length
collected and that the limit holds for it, and (`Sourced`) that nothing was unpacked before a
byte was counted, without which the fallback `receivedEncodedLength || length` would compare the
wrong length.

`ServerProofs`: any callers and calls, any hooks.

- `ServerTypeCorrect`: `Spec => []TypeOK`, `CloseComesLast`: `Spec => []CloseIsLast`, and
  `ServedNeverWhileClosing`: with `return503OnClosing`, `Spec => ClosedServesNothing`.
- Their inductive invariant `IInv` has four parts besides the types. `Flowing`: the function
  avvio runs is the head of its queue, and a tick that releases a queue belongs to a close
  that waits. `Ordered`: the function that closes the server is first in `closeQ` until it
  ran, and nothing of `closeQ` runs before a close. `Shutting`: while the server shuts down
  the rest of `closeQ` waits for it. `Kinded`: what is queued for a call is of the kind of
  that call. `CloseIsLast` is read off `Shutting`; by itself it is not inductive, it says nothing
  of the order of what has not run.

`ReadyProofs`, on top of that invariant:

- `AnswersAreFinal`: `Spec => AnsweredOnce`, an action property. No flag of a call says that
  it was answered; what keeps it from a second answer is that only one thing can still bring
  it on. `Tokens` says that a call that waits has one token (its tick, its function in avvio's
  queue or its callback in `closeQ`), that one that was granted or that is served has one, and
  that any other has none. Each action hands the token on or spends it (`Less`).
- `ReadyComesFirst`: `Spec => []OnReadyBeforeRequests`. `InOrder`: the function that answers a
  ready is queued right behind the onReady hooks, and an error among them reaches it, so what
  opens the server or serves a request (`Opened`) comes after them.
- `FlagFollowsHandle`: `ASSUME ~RacingListens PROVE Spec => []ListeningFlag`. `OneBinds`: one
  listen at a time is between its binding and the report on it, with the flag set. The
  hypothesis is the one under which the run checks the property; without it the code breaks it
  (listed below).

`ApplicationProofs`, first part: any application, any number of calls, plugins, sockets and
requests.

- `IdsAreDistinct`: two requests closer than the bound of the counter differ in their ids.
  `Counted` says of any two requests that their ids differ by their distance modulo
  `MaxId + 1`; distinctness alone is lost at the wrap.
- `TimeoutIsReached`: `Armed` (a socket has its listener once, and `_meta` is the last request
  that came on it with a timeout) and `Latest` (the requests of a socket have a last one).
- `ErrorsAreReported`: `Spec => []ErrorsReported`. `KeptInv`: until the boot fails, each error
  in the log was told to an `after`, or an error that took its place was (`Reported`), or it is
  `Held`: no `after` came since, and what avvio holds is that error or one that took its place. A job
  that fails hands the place on to its own error; an `after` turns all that is held into
  reported. A boot starts with nothing held.

`ApplicationProofs`, second part, has the facts the proofs on the tree of instances are read
from: lemmas on sequences (what `Append`, `SelectSeq` and the greatest element of a set of
positions give), on `Override`, on the lookup along the prototype chain, and on what each step
of the boot does to `insts`, `frames`, `routes` and `log` (one lemma a step). Its invariant
`Shape` says that the chain of an instance holds the root, itself and only earlier instances,
that frames, jobs, routes, listeners and the entries of the log belong to instances that exist,
and that job ids are those of calls that were made.

InheritanceProofs proves, with the inductive invariant `InheritIInv`:

- `HooksReachEveryRoute`: `Spec => []HooksReachRoutes`. `addHook` pushes to the lists of an
  instance and of all its descendants, `Override` copies the lists: two mechanisms for one
  promise. `HooksInv` says what both keep true: the list of an instance holds exactly the
  logged hooks of its chain, each once, in the order of the log. Order is stated by position
  (a hook's position is the number of earlier ones on the chain, plus one), which is preserved
  by a push and a copy alike. `Finishing` carries it to the contexts: a route waits for its
  `preReady` listener or has all hooks of its instance.
- `SchemasReachEveryRoute`: `Spec => []SchemasReachRoutes`. `SchemasInv` says the store of an
  instance has every schema logged on its chain, that no compiler of the factory is kept while
  plugins load, and that a route failed to build only for a schema that its store did not have.
- `SettingsCoverTheBody`: `Spec => []SettingsCoverBody`. A context reads the settings of its
  instance when the route is added, so the claim is about time: `Fresh` says that no
  route of an instance is added while a body of it or around it is open (a route is a job, and
  jobs come after the body). `SettingsInv` says that what was logged last, nearest on the chain,
  is what the lookup gives.
- `RequirementsAreMet`: `Spec => []RequirementsMet`. `NamesInv`: unless an error is
  pending or was taken, each name registered on an instance has the load of a plugin of
  that name there. While an error is pending no plugin is loaded.
- `NotFoundHandlersStay` and `NotFoundOfNearestLevel`: `Spec => []NotFoundHandlersKept` and
  `Spec => []NotFoundHandlerOfLevel`. Both are about the boots in which no error was taken and
  every accepted handler is one for a prefix of its own (`Clean`, `OwnNotFound`); in the others the
  code does lose handlers: with a body that throws and whose error an `after` takes, by a call
  without a handler, which brings the default one back, and by the prefix `/`, whose handler
  replaces the root's. The invariant `NotFoundInv` follows a handler from the accepted call over the
  job in a frame of avvio to the context: `One404` (the flag of a level lets one in), `JobsLogged`
  (each job was asked for), `DefaultFirst` (nothing runs before the factory's own call), `Bounds404`
  (a context belongs to one level) and, for the boots the theorems are about, `HandlersIn`: every
  handler is in the context of its level or has a job, and no context holds anything else. The delicate
  step is `RunPuts`: `afterNotFound` of an instance without a prefix must replace the root's context
  and nothing else, which holds because every level along its chain is at most its own
  (`Levels`). `Finishing404` carries it to the copies the routes take.
- `TypesOfApplication`: `Spec => []TypeOK`. What the type says of hooks and parsers is that each
  is of a call that was made, wherever a push or a copy has put it (`Made`); `RouteIds` and
  `ErrorType` say it of the routes and of the error avvio holds; `PhaseType` and `CallsType`
  relate the phase of the boot to its frames, its error and the bound on calls. That
  a started server has a 404 handler comes from `NotFoundInv`.

`ParserProofs`:

- `NewestParserFound`: `Spec => []ParserFound`. The property names a parser by the log of calls;
  the code finds it by walking two lists that were pushed to, copied to child instances without
  the regular expressions, and short-cut by a cache. The proof has two halves. The first is about the
  code: `NewestParser` says which of the calls that the registry of an instance took in (`Visible`)
  the lookup finds (`NewestFoundFor`). `ParsersInv` says what the lists have
  to do with these calls: the keys of `list` but the last two and the keys of `regexps` are those of
  the calls, newest first (`Ranked`), the last two keys of `list` are the built-in ones, and
  `customParsers` has the newest parser of each key. `CacheInv`: nothing is cached before the start,
  and what is cached is what would be found again. The second half is about the documentation: where no
  parser `Departs`, what is visible of those that match is all there is around the instance
  (`AllVisible`), and the newest is the documented one (`DocumentedIs`). No assumption is made on how a
  content type matches a key; of the keys, `KeysAssumption`: a regular expression is no string.
- `HeadRouteForEveryGet`: `Spec => []HeadForEveryGet`. A call of `route` becomes a job of
  avvio, the job one or two routes and jobs for HEAD routes, and these more routes; `onRoute` hooks
  change the options on the way, and an error drops jobs. `HeadInv` follows it all: `Headed` (a GET
  route whose call asked for a HEAD route has one that was there before it and that the router finds,
  or one of its own call with its url, or a job of that call that will add it), `ExposeInv` (a job
  still asks for what the log says its call asked for), `PiecesInv` (what comes of one call has its
  id, and a HEAD among what comes of a GET ends its own onSend hooks with the one that drops the
  body) and `IdleJobs` (no job is left when the listeners run).
  `Headed` is said until an error is logged: after one, a job may be gone. That the body is
  dropped last in the hooks a request runs, and not only among the route's own, comes from `HooksInv`
  and `Finishing` of InheritanceProofs. `HooksAssumption`: onSend and preHandler are among
  the hooks a request runs.

Model-checked only:

- liveness (`RequestEnds`, `Answered`, `CallsEnd`, the fairness of `KeepsContract`), out of the
  prover's reach;
- of Lifecycle, what does not hold for every way user code may be written and is checked for
  those of a run: `FailureIsReported` (`doc_undefined_rejection`) and `AnswerStopsRequest`
  (`doc_reply_from_hook`).

## What the model shows besides

Met while modelling, true of the code and not the subject of a run:

- `reply.sent` is false between an accepted `send` and the end of an async
  preSerialization chain (`lib/reply.js:380`; `docs/Reply.md:55`).
- A null payload goes through preSerialization (`lib/reply.js:155`; `docs/Hooks.md:137`).
- `done(value)` with a value that is no Error answers 200 (`lib/hooks.js:157`; `docs/Hooks.md:229`).
- A synchronous handler that sends an object with a content type that is not JSON leaves
  the request unanswered (`lib/reply.js:429`, `lib/handleRequest.js:132`).
- An error object of a custom error handler that fails preSerialization is written
  without the onSend hooks.
- A sync-returned value that cannot be serialized, after an async hook, is an
  unhandled rejection; so is a rejection of a handler that sent an Error while an async
  error handler is pending.
- An async handler that calls callNotFound and sends again can answer twice; an async hook
  that calls callNotFound with a pending 404 handler lets the request go on.
- An onSend hook or a parser rejected with undefined counts as a success.
- Two calls of ready before the server has started run the onReady hooks twice
  (`fastify.js:465`).
- Two racing listens, one of them without a callback, both reach the raw server; if one
  cannot bind, `listening` is cleared under the server that is open, and the second handle
  can keep a close from ending (`lib/server.js:87-118`).
- The promise of a listen stays pending when close takes the handle away before the
  listening event (an async onReady hook, then close, in one turn).
- The callback of a listen that failed to bind is called again when a later one binds:
  its listening listener is not removed (`lib/server.js:76-85`).

Of the application:

- A `'*'` parser may be set twice without an error.
- A validator compiler that was set on an instance is replaced by the default one when a
  schema is added to that instance (`lib/schema-controller.js:83`).
- A schema whose id a child has already is added to the instance and to some children before
  the error.
- A plugin with the prefix `/` replaces the 404 handler of the root without an error; two
  plugins with one prefix that both set a 404 handler end the boot.
- `/first/` and `second` are joined to `/first//second`. A route `/` under a prefix that ends
  in a slash, with `prefixTrailingSlash: 'slash'`, gives `GET /p//` and `HEAD /p/`.
- The onRoute hooks see an exposed HEAD route twice.
- Pipelined requests overwrite the `_meta` of their socket. The onTimeout hooks are skipped
  for a reply that was sent and is still streaming.
- A preReady listener that throws leaves the contexts after it without hooks.
- The name of a plugin is registered before its requirements are checked.
- Calls made in onReady hooks are accepted and change nothing of the routes that exist.

## Not modelled

- Configuration (`lib/configValidator.js` is generated), `lib/errors.js`, `lib/logger.js`,
  `lib/warnings.js`, the choice of `http`, `https` or `http2`, the normalisation of arguments:
  tables and pure functions.
- The getters of Request and the setters of headers and serializers of Reply: no state that a
  later step reads but what is sent.
- The onReady hooks of child instances: `hookRunnerApplication` recurses over `kChildren`
  (`lib/hooks.js:99`, `116-120`); Server has the hooks of one instance.
- The `rejected` branch of `Reply.prototype.then` (`lib/reply.js:334-339`): in Lifecycle an awaited
  reply is fulfilled once the response finished or closed; that an error of the response rejects
  it, for code that gave `then` a second argument, is left out.
- `setSchemaController` and the normalisation of schemas; what a compiled validator or
  serializer says of a value is a choice in Lifecycle (`"invalid"`, `"unserializable"`).
- Error handlers, compilers and formatters given in the options of a route; constraints;
  onRegister hooks beyond their registration; the version checks of `register`; `await` of a
  register; `pluginTimeout`; `ignoreTrailingSlash` and `caseSensitive`; the request id header;
  the limit of 100 content types in the cache of parsers, which only makes it forget.
- The routing of a URL (find-my-way) and the fallback of the 404 router: a request is given its
  route.
- Liveness of a boot: that plugins are loaded is avvio's promise.

## Plan

Done, in this order: EventLoop to Lifecycle with ResponseContract; RawBody; Server; the
application (ContentTypes, Schemas, Encapsulation, Routing, Serving, Application); the
theorems above.

Left:

1. `setSchemaController` and the settings given in the options of a route, which would replace
   what the instance says.

Runs that ask related questions share one configuration; what is proved about is written
without RECURSIVE operators.
