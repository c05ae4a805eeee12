----------------------------- MODULE Application -----------------------------
(***************************************************************************)
(* An application built with Fastify: the main script and the plugins call *)
(* the methods of fastify.js, avvio loads the plugins and runs what the    *)
(* methods put off with `after`, the preReady listeners finish the routes, *)
(* and the server takes requests.                                          *)
(*                                                                         *)
(* avvio is modelled from how the code uses it: a plugin's body runs to    *)
(* its end, then what it asked for runs in that order, depth first, each   *)
(* job before the next; after an error plugins are skipped until an        *)
(* `after` has been given the error.                                       *)
(***************************************************************************)
EXTENDS Routing, Serving

CONSTANT Topics   \* what an application may call, and how often
ASSUME TopicsAssumption ==
  \A topic \in Topics :
    /\ topic.sockets \subseteq Sockets /\ topic.calls \in Nat
    /\ \A c \in topic.uses : /\ c.op = "route" => c.parts \subseteq Parts
                             /\ c.op = "register" => c.plugin.prefix \in Seq(STRING)

VARIABLES
  api,        \* the topic
  calls,      \* how many calls were made
  phase,      \* "loading", "preReady", "started", "failed", "crashed"
  frames,     \* avvio's _current, the innermost plugin first
  bootErr,    \* avvio's _error: the call it is of, or nothing
  insts,      \* the instances
  routes,     \* the contexts of the routes, as they were added
  contexts,   \* the contexts of the 404 handlers
  listeners,  \* the preReady listeners still to run
  log         \* what took effect, for properties only
registryVars == <<insts, routes, contexts, listeners>>
bootVars == <<api, calls, phase, frames, bootErr, registryVars, log>>
vars == <<bootVars, servingVars>>

Frame(i, at) == [inst |-> i, at |-> at, open |-> TRUE, jobs |-> <<>>]
DefaultNotFound == [op |-> "setNotFoundHandler", handler |-> FALSE, own |-> {}]
DefaultJob == RouteJob(DefaultNotFound, 0, 1)

(* The factory ends with setNotFoundHandler() for the default handler.     *)
Init ==
  /\ api \in Topics
  /\ calls = 0
  /\ phase = "loading"
  /\ frames = <<[Frame(1, "body") EXCEPT !.jobs = <<DefaultJob>>]>>
  /\ bootErr = {}
  /\ insts = <<Fastify>>
  /\ routes = <<>> /\ contexts = <<>> /\ listeners = <<>>
  /\ log = <<>>
  /\ ServingInit

Top == Head(frames)
Here == Top.inst
Me == calls + 1
Log(op, i, arg, id) == log' = Append(log, [op |-> op, inst |-> i, arg |-> arg, id |-> id, at |-> Top.at])
Enqueue(job) == frames' = <<[Top EXCEPT !.jobs = Append(@, job)]>> \o Tail(frames)
Job(c) == [call |-> c, id |-> Me, inst |-> Here, own |-> NoHooks]
UnchangedRoutes == UNCHANGED <<routes, contexts, listeners>>
Errored == bootErr # {}

-----------------------------------------------------------------------------
(* The methods, called by the body of the innermost plugin.  All of them   *)
(* throw once the server has started.  Those that put their work off only  *)
(* enqueue it.                                                             *)

NotStarted == phase = "loading"   \* throwIfAlreadyStarted and its like

Calling(c, op) ==
  /\ NotStarted /\ Top.open
  /\ c.op = op
  /\ calls < api.calls /\ calls' = Me
  /\ UnchangedRoutes /\ UNCHANGED <<api, servingVars>>

Done(c, arg) == Log(c.op, Here, arg, Me) /\ UNCHANGED <<phase, bootErr>>
Sets(instances) == insts' = instances /\ UNCHANGED frames
PutsOff(job) == Enqueue(job) /\ UNCHANGED insts

(* A body that throws drops what it asked for; the main script ends the    *)
(* process.                                                                *)
Throws(c) ==
  /\ Log("error", Here, c.op, Me)
  /\ IF Len(frames) = 1 THEN phase' = "crashed" /\ UNCHANGED <<frames, bootErr>>
     ELSE frames' = Tail(frames) /\ bootErr' = {Me} /\ UNCHANGED phase

BodyThrows(c) == Calling(c, "throw") /\ Throws(c) /\ UNCHANGED insts

CallRegister(c) == Calling(c, "register") /\ PutsOff(Job(c)) /\ Done(c, "")
CallAfter(c) == Calling(c, "after") /\ PutsOff(Job(c)) /\ Done(c, "")
CallAddHook(c) == Calling(c, "addHook") /\ PutsOff(Job(c)) /\ Done(c, "")
CallRoute(c) ==
  /\ Calling(c, "route")
  /\ PutsOff(RouteJob(c, Me, Here))
  /\ Done(c, IF c.expose THEN "expose" ELSE "")

CallDecorate(c) ==
  /\ Calling(c, "decorate")
  /\ \/ /\ ~CannotDecorate(insts, Here, c.name, c.needs)
        /\ Sets(Decorate(insts, Here, c.name)) /\ Done(c, "")
     \/ CannotDecorate(insts, Here, c.name, c.needs) /\ Throws(c) /\ UNCHANGED insts

CallAddContentTypeParser(c) ==
  /\ Calling(c, "addContentTypeParser")
  /\ \/ /\ ~CannotAddParser(insts[Here].parsers, c.type)
        /\ Sets([insts EXCEPT ![Here].parsers = AddParser(@, c.type, Me)]) /\ Done(c, c.type)
     \/ CannotAddParser(insts[Here].parsers, c.type) /\ Throws(c) /\ UNCHANGED insts

(* When it throws it has changed the instances it came by.                 *)
CallAddSchema(c) ==
  /\ Calling(c, "addSchema")
  /\ insts' = AddSchema(insts, Here, c.id)
  /\ \/ ~CannotAddSchema(insts, Here, c.id) /\ Done(c, c.id) /\ UNCHANGED frames
     \/ CannotAddSchema(insts, Here, c.id) /\ Throws(c)

CallSetCompiler(c) ==
  /\ Calling(c, "setCompiler")
  /\ Sets([insts EXCEPT ![Here].schemas = SetCompiler(@, c.part)]) /\ Done(c, c.part)

(* setErrorHandler, setReplySerializer, setSchemaErrorFormatter            *)
CallSet(c) ==
  /\ Calling(c, "set")
  /\ Sets([insts EXCEPT ![Here].settings[c.setting] = Me]) /\ Done(c, c.setting)

CallSetNotFoundHandler(c) ==
  /\ Calling(c, "setNotFoundHandler")
  /\ \/ /\ ~CannotSetNotFound(insts, Here)
        /\ insts' = TakeNotFound(insts, Here, c)
        /\ Enqueue(RouteJob(c, Me, Here))
        /\ Done(c, CASE ~c.handler -> "default"
                     [] c.handler /\ "preHandler" \in c.own -> "preHandler"
                     [] OTHER -> "")
     \/ CannotSetNotFound(insts, Here) /\ Throws(c) /\ UNCHANGED insts

Call(c) ==
  \/ BodyThrows(c) \/ CallRegister(c) \/ CallAfter(c) \/ CallAddHook(c) \/ CallRoute(c)
  \/ CallDecorate(c) \/ CallAddContentTypeParser(c) \/ CallAddSchema(c)
  \/ CallSetCompiler(c) \/ CallSet(c) \/ CallSetNotFoundHandler(c)

-----------------------------------------------------------------------------
(* avvio.                                                                  *)

BodyEnds ==
  /\ phase = "loading" /\ Top.open
  /\ frames' = <<[Top EXCEPT !.open = FALSE]>> \o Tail(frames)
  /\ UNCHANGED <<api, calls, phase, bootErr, registryVars, log, servingVars>>

Current == Head(Top.jobs)
Dropped == <<[Top EXCEPT !.jobs = Tail(@)]>> \o Tail(frames)
Within(jobs) == <<[Top EXCEPT !.jobs = jobs \o Tail(@)]>> \o Tail(frames)
Running(op) ==
  /\ phase = "loading" /\ ~Top.open /\ Top.jobs # <<>> /\ Current.call.op = op
  /\ UNCHANGED <<api, calls, servingVars>>

(* A plugin: skipped after an error, else registerPlugin and override.     *)
SkipPlugin ==
  /\ Running("register") /\ Errored
  /\ frames' = Dropped
  /\ UNCHANGED <<phase, bootErr, registryVars, log>>

LoadPlugin ==
  LET plugin == Current.call.plugin
      named  == RegisterPluginName(insts, Current.inst, plugin)
  IN /\ Running("register") /\ ~Errored
     /\ UnchangedRoutes /\ UNCHANGED phase
     /\ \/ /\ ~PluginAccepted(named, Current.inst, plugin)
           /\ insts' = named /\ frames' = Dropped /\ bootErr' = {Current.id}
           /\ Log("error", Current.inst, "register", Current.id)
        \/ /\ PluginAccepted(named, Current.inst, plugin)
           /\ insts' = IF plugin.skipOverride THEN named
                       ELSE Override(named, Current.inst, plugin, calls)
           /\ frames' = <<IF plugin.skipOverride THEN Frame(Current.inst, "later")
                          ELSE Frame(Len(insts) + 1, "body")>> \o Dropped
           /\ Log("load", Current.inst, plugin, Current.id)
           /\ UNCHANGED bootErr

(* after((err) => ...): the error is taken, of whichever call it is.       *)
RunAfter ==
  /\ Running("after")
  /\ frames' = <<Frame(Current.inst, "later")>> \o Dropped
  /\ bootErr' = {}
  /\ IF Errored THEN Log("taken", Current.inst, bootErr, Current.id) ELSE UNCHANGED log
  /\ UNCHANGED <<phase, registryVars>>

RunAddHook ==
  LET c == Current.call
  IN /\ Running("addHook")
     /\ insts' = AddHook(insts, Current.inst, c.name, [id |-> Current.id, does |-> c.does])
     /\ frames' = Dropped
     /\ Log("hook", Current.inst, c.name, Current.id)
     /\ UnchangedRoutes /\ UNCHANGED <<phase, bootErr>>

RouteEnds(st) ==   \* what is logged of it
  CASE RouteFailed(st)      -> Log("error", Current.inst, "route", Current.id)
    [] SecondPathFailed(st) -> Log("ignored", Current.inst, "route", Current.id)
    [] OTHER                -> UNCHANGED log
RunRouteForgets ==   \* a mutant: done(err) in the place of done(err or notHandledErr)
  LET st == AddRoute(insts, Current, routes, listeners)
  IN /\ Running("route")
     /\ routes' = st.routes /\ listeners' = st.listeners
     /\ frames' = Within(st.jobs)
     /\ bootErr' = IF RouteFailed(st) THEN {Current.id} ELSE {}
     /\ RouteEnds(st)
     /\ UNCHANGED <<phase, insts, contexts>>

(* An error takes the place of the one that avvio handed to it.            *)
RunRoute ==
  LET st == AddRoute(insts, Current, routes, listeners)
  IN /\ Running("route")
     /\ routes' = st.routes /\ listeners' = st.listeners
     /\ frames' = Within(st.jobs)
     /\ bootErr' = IF RouteFailed(st) THEN {Current.id} ELSE bootErr
     /\ RouteEnds(st)
     /\ UNCHANGED <<phase, insts, contexts>>

(* The listener is there before router.all throws, out of reach of avvio.  *)
RunSetNotFound ==
  /\ Running("setNotFoundHandler")
  /\ listeners' = Append(listeners, [at |-> 0, job |-> Current])
  /\ contexts' = AddNotFound(insts, Current, contexts)
  /\ insts' = AfterNotFound(insts, Current, contexts)
  /\ phase' = IF PrefixTaken(insts, Current, contexts) THEN "crashed" ELSE phase
  /\ frames' = Dropped
  /\ UNCHANGED <<bootErr, routes, log>>

(* A plugin and all it asked for is loaded; in the end the root plugin is. *)
Loaded ==
  /\ phase = "loading" /\ ~Top.open /\ Top.jobs = <<>>
  /\ IF Len(frames) = 1 THEN phase' = "preReady" /\ UNCHANGED frames
     ELSE frames' = Tail(frames) /\ UNCHANGED phase
  /\ UNCHANGED <<api, calls, bootErr, registryVars, log, servingVars>>

(* preReady: a listener that throws leaves the rest uncalled.              *)
RouteListener ==
  LET k == Head(listeners).at
      fails == BuildFails(insts, routes[k])
  IN /\ phase = "preReady" /\ listeners # <<>> /\ k # 0
     /\ routes' = [routes EXCEPT ![k] = RouteReady(insts, contexts, routes[k])]
     /\ insts' = SchemasReady(insts, routes[k])
     /\ listeners' = IF fails THEN <<>> ELSE Tail(listeners)
     /\ bootErr' = IF fails THEN {routes[k].id} ELSE bootErr
     /\ IF fails THEN Log("build", routes[k].inst, routes[k].schema, routes[k].id) ELSE UNCHANGED log
     /\ UNCHANGED <<api, calls, phase, frames, contexts, servingVars>>

NotFoundListener ==
  /\ phase = "preReady" /\ listeners # <<>> /\ Head(listeners).at = 0
  /\ contexts' = NotFoundReady(insts, Head(listeners).job, contexts)
  /\ listeners' = Tail(listeners)
  /\ UNCHANGED <<api, calls, phase, frames, bootErr, insts, routes, log, servingVars>>

StartAnyway ==   \* a mutant: an error of the boot is not looked at
  /\ phase = "preReady" /\ listeners = <<>>
  /\ phase' = "started"
  /\ UNCHANGED <<api, calls, frames, bootErr, registryVars, log, servingVars>>

Start ==
  /\ phase = "preReady" /\ listeners = <<>>
  /\ phase' = IF Errored THEN "failed" ELSE "started"
  /\ UNCHANGED <<api, calls, frames, bootErr, registryVars, log, servingVars>>

Boot ==
  \/ BodyEnds \/ SkipPlugin \/ LoadPlugin \/ RunAfter \/ RunAddHook \/ RunRoute
  \/ RunSetNotFound \/ Loaded \/ RouteListener \/ NotFoundListener \/ Start

-----------------------------------------------------------------------------
(* Requests.  The parser of a body is looked up in the route's instance.   *)

Ready == phase = "started"

Request(s, k, type) ==
  LET i == routes[k].inst
  IN /\ Ready /\ Len(requests) < api.requests
     /\ Arrive(s, k, routes[k].hooks["onTimeout"] # <<>>, type, Lookup(insts[i].parsers, type))
     /\ insts' = [insts EXCEPT ![i].parsers = AfterLookup(@, type)]
     /\ UnchangedRoutes
     /\ UNCHANGED <<api, calls, phase, frames, bootErr, log>>

Serve ==
  \/ \E s \in api.sockets, k \in DOMAIN routes, type \in api.types : Request(s, k, type)
  \/ Ready /\ UNCHANGED bootVars /\ \E k \in DOMAIN requests : Answer(k)
  \/ Ready /\ UNCHANGED bootVars /\ \E s \in api.sockets : Timeout(s)

Next ==
  \/ \E c \in api.uses : Call(c)
  \/ Boot
  \/ Serve

Spec == Init /\ [][Next]_vars

-----------------------------------------------------------------------------
(* Properties.  Clean: no error was handed to an `after`, which takes it.  *)

Took(Test(_)) == {log[k] : k \in {n \in DOMAIN log : Test(log[n])}}
OnChain(e, i) == e.inst \in insts[i].chain
Clean == Took(LAMBDA e : e.op = "taken") = {}
Asked(op, arg, id) == Took(LAMBDA e : e.op = op /\ e.arg = arg /\ e.id = id) # {}

(* Types: every index names something that is there, and what the server   *)
(* takes requests with is complete.                                        *)
FrameType(f) == f.inst \in DOMAIN insts /\ \A k \in DOMAIN f.jobs : f.jobs[k].inst \in DOMAIN insts
InstanceType(i) ==
  /\ insts[i].chain \subseteq 1..i /\ {1, i} \subseteq insts[i].chain
  /\ insts[i].level \in insts[i].chain
  /\ insts[i].context404 \in 0..Len(contexts)
  /\ insts[i].parsers.custom \in [DOMAIN insts[i].parsers.custom -> 0..calls]
  /\ \A h \in HookNames : \A k \in DOMAIN insts[i].hooks[h] : insts[i].hooks[h][k].id \in 1..calls
TypeOK ==
  /\ phase \in {"loading", "preReady", "started", "failed", "crashed"}
  /\ calls \in 0..api.calls /\ bootErr \in {{}} \cup {{id} : id \in 1..calls}
  /\ frames # <<>> /\ \A k \in DOMAIN frames : FrameType(frames[k])
  /\ \A i \in DOMAIN insts : InstanceType(i)
  /\ \A k \in DOMAIN routes : routes[k].inst \in DOMAIN insts
  /\ \A k \in DOMAIN listeners : listeners[k].at \in 0..Len(routes)
  /\ Ready => Context404Of(insts, 1) # 0 /\ ~Errored
  /\ nextReqId \in 0..MaxId
  /\ \A s \in Sockets : sockets[s].meta \in 0..Len(requests)

(* A route runs every hook of its instance and of the instances around it, *)
(* in the order they were added, once each, wherever its declaration       *)
(* stands among theirs, and no other; then its own.  (addHook puts itself  *)
(* off, buildHooks copies, the preReady listener of the route collects.)   *)
HooksAdded(i, h) == {n \in DOMAIN log : log[n].op = "hook" /\ log[n].arg = h /\ OnChain(log[n], i)}
InTheOrderAdded(hooks, i, h) ==
  /\ Len(hooks) = Cardinality(HooksAdded(i, h))
  /\ \A n \in HooksAdded(i, h) :
       hooks[Cardinality({m \in HooksAdded(i, h) : m <= n})].id = log[n].id
HooksReachRoutes ==
  Ready => \A k \in DOMAIN routes, h \in LifecycleHooks :
    LET theirs == insts[routes[k].inst].hooks[h]
    IN /\ InTheOrderAdded(theirs, routes[k].inst, h)
       /\ routes[k].hooks[h] = theirs \o routes[k].own[h]

(* Error handler, reply serializer and schema error formatter: a route has *)
(* the last that its own plugin, or else the nearest plugin around it, set *)
(* in its body, before or after the route was declared.                    *)
SettingsCoverBody ==
  Ready => \A k \in DOMAIN routes, s \in Settings :
    LET set  == Took(LAMBDA e : e.op = "set" /\ e.arg = s /\ OnChain(e, routes[k].inst))
        near == {e \in set : \A d \in set : d.inst <= e.inst}
    IN (\A e \in set : e.at = "body") =>
         routes[k].settings[s] = Max({0} \cup {e.id : e \in near})

(* Two calls are about more than a handler for its own prefix: one without *)
(* a handler brings back the default one, even in the place of a handler   *)
(* that is there; one under the prefix "/" is taken for the root's.        *)
NotFoundSet == Took(LAMBDA e : e.op = "setNotFoundHandler")
OwnNotFound == \A e \in NotFoundSet : e.arg # "default" /\ insts[e.inst].prefix # Slash

(* reply.callNotFound of a route goes to the handler set for the nearest   *)
(* prefix around the route that has one, whenever it was set.              *)
NotFoundHandlerOfLevel ==
  Ready /\ Clean /\ OwnNotFound => \A k \in DOMAIN routes :
    LET set  == {e \in NotFoundSet : insts[e.inst].level \in insts[routes[k].inst].chain}
        near == {e \in set : \A d \in set : insts[d.inst].level <= insts[e.inst].level}
    IN routes[k].notFound.id = Max({0} \cup {e.id : e \in near})

(* A 404 handler that was accepted is there when the server starts.        *)
NotFoundHandlersKept ==
  Ready /\ Clean /\ OwnNotFound =>
    \A e \in NotFoundSet : \E k \in DOMAIN contexts : contexts[k].id = e.id

(* exposeHeadRoute: a GET route that asks for it has a HEAD route with its *)
(* url, whose last onSend hook drops the body, but for one case: a HEAD    *)
(* route that was there before, of the application or of another GET,      *)
(* under whatever pattern the router finds for that url.  (Not under a     *)
(* prefix that ends with a slash: the HEAD route of prefix/ and / is added *)
(* under the prefix alone.)                                                *)
IsHead(n) == n \in DOMAIN routes /\ routes[n].method = "HEAD"
HeadForEveryGet ==
  Ready /\ Clean => \A k \in DOMAIN routes :
    routes[k].method = "GET" /\ Asked("route", "expose", routes[k].id)
      /\ ~EndsWithSlash(insts[routes[k].inst].prefix) =>
      \/ \E n \in 1..(k - 1) : IsHead(n) /\ MatchesUrl(routes[n].url, routes[k].url)
      \/ \E n \in DOMAIN routes :
           /\ IsHead(n) /\ routes[n].url = routes[k].url /\ routes[n].id = routes[k].id
           /\ Last(routes[n].hooks["onSend"]) = HeadRouteOnSendHandler

(* The parser of a body that the documentation describes, of the parsers   *)
(* added to the instance and to those around it: of the strings in the     *)
(* content type the one passed last, application/json and text/plain being *)
(* there before all others; then of the regular expressions the one passed *)
(* last; then the catch-all.                                               *)
ParsersAround(i) == Took(LAMBDA e : e.op = "addContentTypeParser" /\ OnChain(e, i))
IsString(e) == e.arg \notin RegExps \cup {"*"}
PassedLast(S) == Max({e.id : e \in S})
DocumentedParser(i, type) ==
  LET match   == {e \in ParsersAround(i) : <<e.arg, type>> \in Matches}
      strings == {e \in match : IsString(e)}
      builtIn == {b \in BuiltIn : <<b, type>> \in Matches}
      regexps == {e \in match : e.arg \in RegExps}
      others  == {e \in ParsersAround(i) : e.arg = "*"}
  IN CASE strings # {} -> PassedLast(strings)
       [] strings = {} /\ builtIn # {} -> 0
       [] strings \cup builtIn = {} /\ regexps # {} -> PassedLast(regexps)
       [] OTHER -> IF others = {} THEN NoParser ELSE PassedLast(others)

(* The code does otherwise with a regular expression of an instance around *)
(* (it is not handed down), with a parser added around a plugin that was   *)
(* there already (it got a copy), and with a parser for application/json   *)
(* or text/plain (it has the place of the one it replaces, behind all      *)
(* other strings).                                                         *)
NotHandedDown(e, i) == e.inst # i /\ e.arg \in RegExps
AddedLate(e, i) == e.inst # i /\ e.id > insts[Min({j \in insts[i].chain : j > e.inst})].born
PlacedLast(e, i, type) ==
  /\ e.arg \in BuiltIn
  /\ \/ \E d \in ParsersAround(i) : IsString(d) /\ <<d.arg, type>> \in Matches /\ d.id < e.id
     \/ \E b \in BuiltIn \ {e.arg} : <<b, type>> \in Matches /\ \A d \in ParsersAround(i) : d.arg # b
Departs(i, type) ==
  \E e \in ParsersAround(i) :
    /\ <<e.arg, type>> \in Matches \/ e.arg = "*"
    /\ NotHandedDown(e, i) \/ AddedLate(e, i) \/ PlacedLast(e, i, type)

(* But for these, the parser of a body is the one described, and neither   *)
(* the cache nor the order in which plugins load makes a difference.       *)
ParserFound ==
  \A k \in DOMAIN requests :
    LET i    == routes[requests[k].route].inst
        type == requests[k].type
    IN Departs(i, type) \/ requests[k].parser = DocumentedParser(i, type)

(* And what the documentation says, without the exceptions.                *)
ParserAsDocumented ==
  \A k \in DOMAIN requests :
    requests[k].parser = DocumentedParser(routes[requests[k].route].inst, requests[k].type)

(* A compiler of the factory knows every schema added to the instance of   *)
(* its route or to an instance around it, before or after that was made;   *)
(* so a route fails to build only for a schema that none of them added.    *)
SchemasOf(i) == {e.arg : e \in Took(LAMBDA x : x.op = "addSchema" /\ OnChain(x, i))}
SchemasReachRoutes ==
  /\ Ready => \A k \in DOMAIN routes : \A part \in routes[k].parts :
       /\ routes[k].compiled[part] # NoCompiler
       /\ routes[k].compiled[part].by = "factory" =>
            SchemasOf(routes[k].inst) \subseteq routes[k].compiled[part].knows
  /\ \A e \in Took(LAMBDA x : x.op = "build") : e.arg \notin SchemasOf(e.inst)

(* A plugin runs after the plugins it depends on, which ran where it sees  *)
(* them: in its instance or in an instance around it.  (Its own name, if   *)
(* it depends on that, is among the names before the check.)               *)
RequirementsMet ==
  Clean => \A n \in DOMAIN log : log[n].op = "load" =>
    \A d \in log[n].arg.dependencies \ {log[n].arg.name} :
      \E m \in 1..(n - 1) : log[m].op = "load" /\ log[m].arg.name = d /\ OnChain(log[m], log[n].inst)

(* Of every error that avvio is told of, an `after` is told before the     *)
(* server starts: of that very error, or of a later one, of a route, that  *)
(* took its place when no `after` was told of either.  The errors avvio is *)
(* not told of, those of a second path, are in the log as "ignored": of    *)
(* these nobody is ever told, and the server starts.                       *)
Told(n) == \E m \in DOMAIN log : m > n /\ log[m].op = "taken" /\ log[n].id \in log[m].arg
TakesPlace(m, n) ==
  /\ m > n /\ log[m].op = "error" /\ log[m].arg = "route"
  /\ \A j \in n..m : log[j].op # "taken"
ErrorsReported ==
  Ready => \A n \in DOMAIN log : log[n].op = "error" =>
    Told(n) \/ \E m \in DOMAIN log : TakesPlace(m, n) /\ Told(m)

(* The ids of any 2^31 requests in a row are different.                    *)
IdsDistinct ==
  \A j, k \in DOMAIN requests :
    j < k /\ k - j <= MaxId => requests[j].id # requests[k].id

(* When a socket times out, the onTimeout hooks run once for its last      *)
(* request if that has some and is unanswered, and never for a request     *)
(* that is answered or of another socket.                                  *)
TimeoutReachesRequest ==
  [][\A s \in Sockets : sockets[s].open /\ ~sockets'[s].open =>
       LET mine    == {k \in DOMAIN requests : requests[k].socket = s}
           waiting == {k \in mine : requests[k].timed /\ ~requests[k].sent}
           last    == Max({0} \cup mine)
       IN /\ last \in waiting => sockets'[s].ran = <<last>>
          /\ sockets'[s].ran = <<>> \/ \E k \in waiting : sockets'[s].ran = <<k>>]_vars

(* What the documentation says of reply.callNotFound: it calls the         *)
(* preHandler hooks given to setNotFoundHandler.                           *)
CallNotFoundRunsPreHandler ==
  Ready => \A k \in DOMAIN routes :
    Asked("setNotFoundHandler", "preHandler", routes[k].notFound.id) =>
      routes[k].notFound.id \in {h.id : h \in ToSet(routes[k].notFound.hooks["preHandler"])}
=============================================================================
