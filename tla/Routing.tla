------------------------------- MODULE Routing -------------------------------
(***************************************************************************)
(* Routes, the HEAD routes exposed for them and the 404 handlers, as they  *)
(* are added while plugins load (lib/route.js, lib/headRoute.js,           *)
(* lib/context.js, lib/fourOhFour.js), and what the preReady listeners     *)
(* make of their contexts.  A hook is [id, does]: the serial number of the *)
(* call that gave it and what an onRoute hook does to the route.           *)
(***************************************************************************)
EXTENDS Encapsulation

CONSTANT Covers   \* find-my-way: <<pattern, url>>, a url that another pattern matches

Slash == <<"/">>

HeadRouteOnSendHandler == [id |-> 0, does |-> "head"]
ParseHeadOnSendFirst(own) ==   \* a mutant: the handler before the route's own
  [own EXCEPT !["onSend"] = <<HeadRouteOnSendHandler>> \o @]

ParseHeadOnSendHandlers(own) == [own EXCEPT !["onSend"] = Append(@, HeadRouteOnSendHandler)]

NoHooks == [h \in LifecycleHooks |-> <<>>]
OwnHooks(names, id) ==
  [h \in LifecycleHooks |-> IF h \in names THEN <<[id |-> id, does |-> "next"]>> ELSE <<>>]

(* The job that `after` runs for a route or a 404 handler: the options,    *)
(* the instance and the hooks among the options.                           *)
RouteJob(call, id, i) ==
  [call |-> call, id |-> id, inst |-> i, own |-> OwnHooks(call.own, id)]
HeadJob(job, path, own) ==
  [job EXCEPT !.call.method = "HEAD", !.call.path = path,
              !.own = ParseHeadOnSendHandlers(own)]

(* Which paths a route is added under, the second one as `prefixing`.      *)
RoutePaths(route, prefix) ==
  LET first(path) == [path |-> path, prefixing |-> FALSE]
      again(path) == [path |-> path, prefixing |-> TRUE]
  IN CASE route.path = Slash /\ prefix # <<>> /\ route.method # "HEAD" ->
            (CASE route.slash = "slash"    -> <<first(Slash)>>
               [] route.slash = "no-slash" -> <<first(<<>>)>>
               [] route.slash = "both"     -> <<first(<<>>), again(Slash)>>)
       [] route.path # <<>> /\ Head(route.path) = "/" /\ EndsWithSlash(prefix) ->
            <<first(Tail(route.path))>>
       [] OTHER -> <<first(route.path)>>

(* The onRoute hooks that run on a route: up to the first that throws.     *)
Throwing(hooks) == {k \in DOMAIN hooks : hooks[k].does = "throw"}
OnRouteRuns(hooks) == SubSeq(hooks, 1, Min({Len(hooks)} \cup Throwing(hooks)))

(* Context: all that is read of the instance when the route is added.      *)
Context(insts, job, url) ==
  [inst     |-> job.inst,
   id       |-> job.id,
   method   |-> job.call.method,
   url      |-> url,
   own      |-> job.own,
   hooks    |-> NoHooks,
   settings |-> [s \in Settings |-> SettingOf(insts, job.inst, s)],
   schema   |-> job.call.schema,
   parts    |-> job.call.parts,
   compiled |-> [part \in Parts |-> NoCompiler],
   notFound |-> [id |-> 0, hooks |-> NoHooks]]

(* router.find looks a url up, router.on throws on a pattern that is there. *)
MatchesUrl(pattern, url) == pattern = url \/ <<pattern, url>> \in Covers
Finds(routes, method, url) ==
  \E k \in DOMAIN routes : routes[k].method = method /\ MatchesUrl(routes[k].url, url)
Has(routes, method, url) == \E k \in DOMAIN routes : routes[k].method = method /\ routes[k].url = url

(* afterRouteAdded, on a record of what it changes: the routes, the        *)
(* preReady listeners, the hooks among the options (which onRoute hooks    *)
(* may add to), the jobs it asks for and what it calls `done` with.        *)
AfterRouteAdded(insts, job, st, entry) ==
  LET url    == insts[job.inst].prefix \o entry.path
      ran    == IF entry.prefixing THEN <<>> ELSE OnRouteRuns(insts[job.inst].hooks["onRoute"])
      own    == [st.own EXCEPT !["preHandler"] =
                   @ \o SelectSeq(ran, LAMBDA h : h.does = "append")]
      opts   == [job EXCEPT !.own = own]
      failed == [st EXCEPT !.own = own, !.done = Append(@, "error")]
      added  == [routes    |-> Append(st.routes, Context(insts, opts, url)),
                 listeners |-> Append(st.listeners, [at |-> Len(st.routes) + 1, job |-> opts]),
                 own       |-> own,
                 jobs      |-> st.jobs,
                 done      |-> Append(st.done, "ok")]
  IN CASE Throwing(ran) # {}                 -> failed
       [] Has(st.routes, job.call.method, url) -> failed
       [] job.call.expose /\ job.call.method = "GET" /\ ~Finds(st.routes, "HEAD", url) ->
            [added EXCEPT !.jobs = Append(@, HeadJob(job, entry.path, own))]
       [] OTHER -> added

(* Once for each path: there are one or two.                               *)
AddRoute(insts, job, routes, listeners) ==
  LET paths == RoutePaths(job.call, insts[job.inst].prefix)
      none  == [routes |-> routes, listeners |-> listeners, own |-> job.own,
                jobs |-> <<>>, done |-> <<>>]
      first == AfterRouteAdded(insts, job, none, Head(paths))
  IN IF Len(paths) = 1 THEN first ELSE AfterRouteAdded(insts, job, first, Last(paths))

(* avvio hears `done` once: the error of a second path goes nowhere.       *)
RouteFailed(st) == Head(st.done) = "error"
SecondPathFailed(st) == ~RouteFailed(st) /\ Last(st.done) = "error"

-----------------------------------------------------------------------------
(* 404 handlers.  The contexts they are called in are kept in a sequence.  *)

Level(insts, i) == insts[i].level
CannotSetNotFound(insts, i) == ~insts[Level(insts, i)].canSet404
TakeNotFoundHere(insts, i, call) ==   \* a mutant: this for its level instance
  IF call.handler THEN [insts EXCEPT ![i].canSet404 = FALSE] ELSE insts

TakeNotFound(insts, i, call) ==
  IF call.handler THEN [insts EXCEPT ![Level(insts, i)].canSet404 = FALSE] ELSE insts

NotFoundPrefix(insts, i) == IF insts[i].prefix = <<>> THEN Slash ELSE insts[i].prefix
Context404(insts, job) ==
  [prefix |-> NotFoundPrefix(insts, job.inst),
   id     |-> IF job.call.handler THEN job.id ELSE 0,
   hooks  |-> NoHooks]

(* The handler of a context that is there already is replaced in it.       *)
Replaces(insts, i) == Context404Of(insts, i) # 0 /\ NotFoundPrefix(insts, i) = Slash
AddNotFound(insts, job, contexts) ==
  LET there == Context404Of(insts, job.inst)
  IN IF Replaces(insts, job.inst)
     THEN [contexts EXCEPT ![there] =
             [Context404(insts, job) EXCEPT !.prefix = contexts[there].prefix]]
     ELSE Append(contexts, Context404(insts, job))
AfterNotFoundHere(insts, job, contexts) ==   \* a mutant: this for its level instance
  IF Replaces(insts, job.inst) THEN insts
  ELSE [insts EXCEPT ![job.inst].context404 = Len(contexts) + 1]

AfterNotFound(insts, job, contexts) ==
  IF Replaces(insts, job.inst) THEN insts
  ELSE [insts EXCEPT ![Level(insts, job.inst)].context404 = Len(contexts) + 1]

(* router.all throws on a pattern that has a handler: /p and /p/ share one. *)
NotFoundPaths(prefix) ==
  {prefix, prefix \o (IF EndsWithSlash(prefix) THEN <<"*">> ELSE <<"/", "*">>)}
PrefixTaken(insts, job, contexts) ==
  /\ ~Replaces(insts, job.inst)
  /\ \E k \in DOMAIN contexts :
       NotFoundPaths(contexts[k].prefix) \cap NotFoundPaths(NotFoundPrefix(insts, job.inst)) # {}

-----------------------------------------------------------------------------
(* The listeners for preReady, in the order of what they are for.          *)

AllHooks(insts, i, own) == [h \in LifecycleHooks |-> insts[i].hooks[h] \o own[h]]

NotFoundReady(insts, job, contexts) ==
  [contexts EXCEPT ![Context404Of(insts, job.inst)].hooks = AllHooks(insts, job.inst, job.own)]

(* setContext: a copy of the 404 context as it is by now, with the onSend  *)
(* hooks of the route.                                                     *)
SetContext(insts, context, contexts) ==
  LET theirs == contexts[Context404Of(insts, context.inst)]
  IN [id    |-> theirs.id,
      hooks |-> [theirs.hooks EXCEPT !["onSend"] = context.hooks["onSend"]]]

(* The compilers are set up for the parts of the route that have a schema. *)
SchemasReady(insts, context) ==
  [insts EXCEPT ![context.inst].schemas = SetupAll(@, context.parts)]

(* compileSchemasForValidation, compileSchemasForSerialization             *)
BuildFails(insts, context) ==
  \E part \in context.parts :
    ~Compiles(SchemasReady(insts, context)[context.inst].schemas, part, context.schema)
Compiled(insts, context) ==
  [part \in Parts |->
     IF part \in context.parts
     THEN SchemasReady(insts, context)[context.inst].schemas.compiler[part] ELSE NoCompiler]

RouteReady(insts, contexts, context) ==
  LET hooked == [context EXCEPT !.hooks = AllHooks(insts, context.inst, context.own)]
  IN [hooked EXCEPT !.notFound = SetContext(insts, hooked, contexts),
                    !.compiled = IF BuildFails(insts, context) THEN @ ELSE Compiled(insts, context)]
=============================================================================
