-------------------------- MODULE InheritanceProofs --------------------------
(***************************************************************************)
(* What reaches a route from its instance and from the instances around    *)
(* it: hooks, schemas and their compilers, settings, and for a plugin the  *)
(* plugins it depends on; then the 404 handlers.  Each part of             *)
(* InheritIInv and of IInv404 relates what is kept with the instances, the *)
(* routes, the contexts and the jobs to the log of the calls that took     *)
(* effect.                                                                 *)
(***************************************************************************)
EXTENDS ApplicationProofs

-----------------------------------------------------------------------------
(* The log grows by one entry at a time.                                   *)

LEMMA LogGrowsByOne ==
  ASSUME Shape, [Next]_vars
  PROVE  /\ DOMAIN log = 1..Len(log) /\ Len(log) \in Nat
         /\ DOMAIN log \subseteq DOMAIN log'
         /\ \A n \in DOMAIN log : log'[n] = log[n]
         /\ \A n \in DOMAIN log' : n \in DOMAIN log \/ (n = Len(log) + 1 /\ Entry(log'[n]))
<1>1. DOMAIN log = 1..Len(log) /\ Len(log) \in Nat
  BY ListedIs DEF Shape, Entries
<1>2. CASE log' = log
  BY <1>1, <1>2
<1>3. ASSUME NEW e, Entry(e), log' = Append(log, e)
      PROVE  /\ DOMAIN log \subseteq DOMAIN log'
             /\ \A n \in DOMAIN log : log'[n] = log[n]
             /\ \A n \in DOMAIN log' : n \in DOMAIN log \/ (n = Len(log) + 1 /\ Entry(log'[n]))
  <2>1. /\ log'[Len(log) + 1] = e
        /\ \A n \in DOMAIN log : log'[n] = log[n]
        /\ DOMAIN log' = DOMAIN log \cup {Len(log) + 1}
    BY <1>3, ListAppend DEF Shape, Entries
  <2>2. ASSUME NEW n \in DOMAIN log', n \notin DOMAIN log
        PROVE  n = Len(log) + 1 /\ Entry(log'[n])
    <3>1. n = Len(log) + 1 /\ log'[n] = e
      BY <2>1, <2>2
    <3> QED BY <1>3, <3>1
  <2> QED BY <2>1, <2>2
<1> QED BY <1>1, <1>2, <1>3, NextLog DEF LogKept

(* The jobs are told apart by what they call.                              *)
LEMMA OneJob ==
  /\ LoadPlugin => ~RunAddHook /\ phase = "loading"
  /\ RunAddHook => phase = "loading" /\ phase' = "loading"
  /\ RunAfter => ~LoadPlugin /\ ~RunAddHook
BY DEF LoadPlugin, RunAddHook, RunAfter, Running

(* The instance of a plugin, made on the instance that loads it.           *)
LEMMA Born ==
  ASSUME Shape, LoadPlugin, DOMAIN insts' # DOMAIN insts
  PROVE  LET me == Len(insts) + 1
             i  == Current.inst
         IN /\ i \in DOMAIN insts
            /\ DOMAIN insts' = DOMAIN insts \cup {me} /\ me \notin DOMAIN insts
            /\ insts'[me].chain = insts[i].chain \cup {me} /\ insts'[me].born = calls
            /\ insts'[me].settings = [s \in Settings |-> 0]
            /\ insts'[me].hooks = insts[i].hooks
            /\ insts'[me].plugins = {}
            /\ insts'[me].parsers = BuildContentTypeParser(insts[i].parsers)
            /\ insts'[me].schemas = BuildSchemaController(insts[i].schemas,
                                       [part \in Parts |-> CompilerOf(insts, i, part)])
<1> DEFINE named == RegisterPluginName(insts, Current.inst, Current.call.plugin)
           me == Len(insts) + 1
           i  == Current.inst
<1>1. i \in DOMAIN insts
  BY JobThere DEF LoadPlugin, Running
<1>2. /\ DOMAIN named = DOMAIN insts /\ Len(named) = Len(insts)
      /\ \A j \in DOMAIN insts : /\ SameBut(insts[j], named[j])
                                 /\ named[j].schemas = insts[j].schemas
                                 /\ named[j].parsers = insts[j].parsers
                                 /\ named[j].hooks = insts[j].hooks
      /\ NewInstance(named, insts')
  BY LoadInsts DEF Shape
<1> HIDE DEF named
<1>3. insts' # named
  BY <1>2
<1>4. /\ DOMAIN insts' = DOMAIN insts \cup {me} /\ me \notin DOMAIN insts
      /\ insts'[me].chain = named[i].chain \cup {me} /\ insts'[me].born = calls
      /\ insts'[me].settings = [s \in Settings |-> 0]
      /\ insts'[me].hooks = named[i].hooks
      /\ insts'[me].plugins = {}
      /\ insts'[me].parsers = BuildContentTypeParser(named[i].parsers)
      /\ insts'[me].schemas = BuildSchemaController(named[i].schemas,
                                 [part \in Parts |-> CompilerOf(named, i, part)])
  BY <1>2, <1>3 DEF NewInstance
<1>5. /\ named[i].chain = insts[i].chain /\ named[i].hooks = insts[i].hooks
      /\ named[i].schemas = insts[i].schemas /\ named[i].parsers = insts[i].parsers
  BY <1>1, <1>2 DEF SameBut
<1>6. ASSUME NEW part
      PROVE  CompilerOf(named, i, part) = CompilerOf(insts, i, part)
  <2>1. {k \in DOMAIN named : named[k].schemas.compiler[part] # NoCompiler}
          = {k \in DOMAIN insts : insts[k].schemas.compiler[part] # NoCompiler}
    BY <1>2
  <2>2. \A k \in DOMAIN insts : named[k].schemas = insts[k].schemas
    BY <1>2
  <2> DEFINE j == Nearest(insts, i, {k \in DOMAIN insts : insts[k].schemas.compiler[part] # NoCompiler})
  <2>3. j = Nearest(named, i, {k \in DOMAIN named : named[k].schemas.compiler[part] # NoCompiler})
    BY <1>5, <2>1 DEF Nearest
  <2>4. j = 0 \/ j \in DOMAIN insts
    <3>1. Tree /\ {k \in DOMAIN insts : insts[k].schemas.compiler[part] # NoCompiler} \subseteq DOMAIN insts
      BY DEF Shape
    <3> QED BY <1>1, <3>1, NearestOf
  <2> HIDE DEF j
  <2> QED BY <2>2, <2>3, <2>4 DEF CompilerOf, j
<1> QED BY <1>1, <1>4, <1>5, <1>6

-----------------------------------------------------------------------------
(* Hooks: those of an instance are the ones logged on its chain.           *)

OrderedBy(hooks, N, l) ==
  /\ Len(hooks) = Cardinality(N)
  /\ \A n \in N : hooks[Cardinality({m \in N : m <= n})].id = l[n].id
HooksLogged(chain, l, h) == {n \in DOMAIN l : l[n].op = "hook" /\ l[n].arg = h /\ l[n].inst \in chain}
HooksOf(hooks, chain, l) ==
  /\ DOMAIN hooks = HookNames
  /\ \A h \in HookNames : Listed(hooks[h]) /\ OrderedBy(hooks[h], HooksLogged(chain, l, h), l)
HooksInv == \A i \in DOMAIN insts : HooksOf(insts[i].hooks, insts[i].chain, log)

LEMMA OrderedGrows ==
  ASSUME NEW len \in Nat, NEW N, N \subseteq 1..len, NEW hooks, Listed(hooks),
         NEW l, OrderedBy(hooks, N, l), NEW hook,
         NEW l2, \A n \in N : l2[n] = l[n], l2[len + 1].id = hook.id
  PROVE  Listed(Append(hooks, hook)) /\ OrderedBy(Append(hooks, hook), N \cup {len + 1}, l2)
<1> DEFINE more == Append(hooks, hook)
           M == N \cup {len + 1}
<1>1. IsFiniteSet(1..len)
  BY FS_Interval
<1>2. IsFiniteSet(N) /\ len + 1 \notin N /\ N \subseteq Nat
  <2>1. N \in SUBSET (1..len) /\ len + 1 \notin N /\ N \subseteq Nat
    OBVIOUS
  <2> QED BY <1>1, <2>1, FS_Subset
<1>3. Cardinality(M) = Cardinality(N) + 1 /\ Cardinality(N) \in Nat
  BY <1>2, FS_AddElement, FS_CardinalityType
<1>4. /\ Listed(more) /\ Len(more) = Len(hooks) + 1 /\ more[Len(hooks) + 1] = hook
      /\ \A n \in DOMAIN hooks : more[n] = hooks[n]
      /\ DOMAIN hooks = 1..Len(hooks)
  BY ListAppend, ListedIs
<1> HIDE DEF more
<1>5. Len(hooks) = Cardinality(N)
  BY DEF OrderedBy
<1>6. ASSUME NEW n \in M
      PROVE  more[Cardinality({m \in M : m <= n})].id = l2[n].id
  <2>1. CASE n = len + 1
    <3>1. {m \in M : m <= n} = M
      BY <2>1
    <3> QED BY <1>3, <1>4, <1>5, <2>1, <3>1
  <2>2. CASE n \in N
    <3> DEFINE before == {m \in N : m <= n}
    <3>1. {m \in M : m <= n} = before
      BY <2>2
    <3>2. before \subseteq N /\ n \in before
      BY <1>2, <2>2
    <3> HIDE DEF before
    <3>3. IsFiniteSet(before) /\ Cardinality(before) <= Cardinality(N)
      BY <1>2, <3>2, FS_Subset
    <3>4. Cardinality(before) \in Nat /\ Cardinality(before) # 0
      BY <3>2, <3>3, FS_CardinalityType, FS_EmptySet
    <3>5. Cardinality(before) \in DOMAIN hooks
      BY <1>3, <1>4, <1>5, <3>3, <3>4
    <3>6. hooks[Cardinality(before)].id = l[n].id
      BY <2>2 DEF OrderedBy, before
    <3>7. more[Cardinality(before)] = hooks[Cardinality(before)] /\ l2[n] = l[n]
      BY <1>4, <2>2, <3>5
    <3> QED BY <3>1, <3>6, <3>7
  <2> QED BY <2>1, <2>2
<1>7. Len(more) = Cardinality(M)
  BY <1>3, <1>4, <1>5
<1>8. OrderedBy(more, M, l2)
  BY <1>6, <1>7 DEF OrderedBy
<1> QED BY <1>4, <1>8 DEF more

(* An entry that is not about a hook, and one that is.                     *)
LEMMA HooksLeft ==
  ASSUME NEW hooks, NEW chain, NEW l, HooksOf(hooks, chain, l),
         NEW l2, DOMAIN l \subseteq DOMAIN l2, \A n \in DOMAIN l : l2[n] = l[n],
         \A n \in DOMAIN l2 : n \in DOMAIN l \/ l2[n].op # "hook",
         NEW chain2, \A n \in DOMAIN l : l[n].inst \in chain2 <=> l[n].inst \in chain
  PROVE  HooksOf(hooks, chain2, l2)
<1>1. ASSUME NEW h
      PROVE  HooksLogged(chain2, l2, h) = HooksLogged(chain, l, h)
  BY DEF HooksLogged
<1>2. \A h : \A n \in HooksLogged(chain, l, h) : l2[n] = l[n]
  BY DEF HooksLogged
<1>3. ASSUME NEW h \in HookNames
      PROVE  Listed(hooks[h]) /\ OrderedBy(hooks[h], HooksLogged(chain2, l2, h), l2)
  <2>1. Listed(hooks[h]) /\ OrderedBy(hooks[h], HooksLogged(chain, l, h), l)
    BY DEF HooksOf
  <2>2. PICK N : N = HooksLogged(chain, l, h)
    OBVIOUS
  <2>3. OrderedBy(hooks[h], N, l) /\ \A n \in N : l2[n] = l[n]
    BY <1>2, <2>1, <2>2
  <2>4. OrderedBy(hooks[h], N, l2)
    BY <2>3 DEF OrderedBy
  <2> QED BY <1>1, <2>1, <2>2, <2>4
<1> QED BY <1>3 DEF HooksOf

LEMMA HooksGrow ==
  ASSUME NEW hooks, NEW chain, NEW l, HooksOf(hooks, chain, l), Listed(l), NEW hook,
         NEW e, e.op = "hook", e.id = hook.id
  PROVE  /\ e.inst \in chain =>
              HooksOf([hooks EXCEPT ![e.arg] = Append(@, hook)], chain, Append(l, e))
         /\ e.inst \notin chain => HooksOf(hooks, chain, Append(l, e))
<1> DEFINE l2 == Append(l, e)
           len == Len(l)
<1>1. /\ l2[len + 1] = e /\ \A n \in DOMAIN l : l2[n] = l[n]
      /\ DOMAIN l2 = DOMAIN l \cup {len + 1} /\ DOMAIN l = 1..len /\ len \in Nat
  BY ListAppend, ListedIs
<1> HIDE DEF l2, len
<1>2. ASSUME NEW h
      PROVE  /\ e.inst \in chain /\ h = e.arg =>
                  HooksLogged(chain, l2, h) = HooksLogged(chain, l, h) \cup {len + 1}
             /\ ~(e.inst \in chain /\ h = e.arg) => HooksLogged(chain, l2, h) = HooksLogged(chain, l, h)
             /\ HooksLogged(chain, l, h) \subseteq 1..len
             /\ \A n \in HooksLogged(chain, l, h) : l2[n] = l[n]
  BY <1>1 DEF HooksLogged
<1>3. ASSUME NEW h \in HookNames, ~(e.inst \in chain /\ h = e.arg)
      PROVE  Listed(hooks[h]) /\ OrderedBy(hooks[h], HooksLogged(chain, l2, h), l2)
  BY <1>2, <1>3 DEF HooksOf, OrderedBy
<1>4. ASSUME NEW h \in HookNames, e.inst \in chain, h = e.arg
      PROVE  /\ Listed(Append(hooks[h], hook))
             /\ OrderedBy(Append(hooks[h], hook), HooksLogged(chain, l2, h), l2)
  <2>1. Listed(hooks[h]) /\ OrderedBy(hooks[h], HooksLogged(chain, l, h), l)
    BY DEF HooksOf
  <2>2. l2[len + 1].id = hook.id
    BY <1>1
  <2>3. /\ HooksLogged(chain, l, h) \subseteq 1..len
        /\ \A n \in HooksLogged(chain, l, h) : l2[n] = l[n]
        /\ HooksLogged(chain, l2, h) = HooksLogged(chain, l, h) \cup {len + 1}
    BY <1>2, <1>4
  <2> QED BY <1>1, <2>1, <2>2, <2>3, OrderedGrows
<1>5. ASSUME e.inst \in chain
      PROVE  HooksOf([hooks EXCEPT ![e.arg] = Append(@, hook)], chain, l2)
  <2>1. DOMAIN hooks = HookNames
    BY DEF HooksOf
  <2>2. ASSUME NEW h \in HookNames
        PROVE  /\ Listed([hooks EXCEPT ![e.arg] = Append(@, hook)][h])
               /\ OrderedBy([hooks EXCEPT ![e.arg] = Append(@, hook)][h], HooksLogged(chain, l2, h), l2)
    <3>1. CASE h = e.arg
      <4>1. [hooks EXCEPT ![e.arg] = Append(@, hook)][h] = Append(hooks[h], hook)
        BY <2>1, <3>1
      <4> QED BY <1>4, <1>5, <3>1, <4>1
    <3>2. CASE h # e.arg
      <4>1. [hooks EXCEPT ![e.arg] = Append(@, hook)][h] = hooks[h]
        BY <2>1, <3>2
      <4> QED BY <1>3, <3>2, <4>1
    <3> QED BY <3>1, <3>2
  <2>3. DOMAIN [hooks EXCEPT ![e.arg] = Append(@, hook)] = HookNames
    BY <2>1
  <2> QED BY <2>2, <2>3 DEF HooksOf
<1>6. ASSUME e.inst \notin chain
      PROVE  HooksOf(hooks, chain, l2)
  BY <1>3, <1>6 DEF HooksOf
<1> QED BY <1>5, <1>6 DEF l2

LEMMA InitHooks == Init => HooksInv
<1> SUFFICES ASSUME Init PROVE HooksInv
  OBVIOUS
<1>1. DOMAIN insts = {1} /\ insts[1] = Fastify /\ log = <<>> /\ DOMAIN <<>> = {}
  BY DEF Init
<1>2. Fastify.hooks = [h \in HookNames |-> <<>>]
  BY DEF Fastify
<1>3. \A h : HooksLogged(Fastify.chain, <<>>, h) = {}
  BY <1>1 DEF HooksLogged
<1>4. Listed(<<>>) /\ Len(<<>>) = 0
  BY DEF Listed, Elements
<1>5. ASSUME NEW h \in HookNames
      PROVE  /\ Listed(Fastify.hooks[h])
             /\ OrderedBy(Fastify.hooks[h], HooksLogged(Fastify.chain, <<>>, h), <<>>)
  BY <1>2, <1>3, <1>4, FS_EmptySet DEF OrderedBy
<1>6. HooksOf(Fastify.hooks, Fastify.chain, <<>>)
  BY <1>2, <1>5 DEF HooksOf
<1> QED BY <1>1, <1>6 DEF HooksInv

LEMMA RunAddHookHooks ==
  ASSUME Shape, HooksInv, RunAddHook
  PROVE  HooksInv'
<1> DEFINE c == Current.call
           i0 == Current.inst
           hook == [id |-> Current.id, does |-> c.does]
           e == [op |-> "hook", inst |-> i0, arg |-> c.name, id |-> Current.id, at |-> Top.at]
<1>1. insts' = AddHook(insts, i0, c.name, hook) /\ log' = Append(log, e)
  BY DEF RunAddHook, Log
<1>2. e.op = "hook" /\ e.inst = i0 /\ e.arg = c.name /\ e.id = hook.id
  OBVIOUS
<1> HIDE DEF e, hook, i0, c
<1>3. DOMAIN insts' = DOMAIN insts
  BY <1>1 DEF AddHook
<1>4. ASSUME NEW i \in DOMAIN insts
      PROVE  /\ insts'[i].chain = insts[i].chain
             /\ i0 \in insts[i].chain =>
                  insts'[i].hooks = [insts[i].hooks EXCEPT ![c.name] = Append(@, hook)]
             /\ i0 \notin insts[i].chain => insts'[i].hooks = insts[i].hooks
  <2> DEFINE w == [insts[i].hooks EXCEPT ![c.name] = Append(@, hook)]
  <2>1. CASE i0 \in insts[i].chain
    <3>1. insts'[i] = [insts[i] EXCEPT !.hooks = w]
      BY <1>1, <2>1 DEF AddHook, Descendants
    <3> HIDE DEF w
    <3>2. insts'[i].chain = insts[i].chain
      BY <3>1
    <3>3. insts'[i].hooks = w
      BY <3>1
    <3> QED BY <2>1, <3>2, <3>3 DEF w
  <2>2. CASE i0 \notin insts[i].chain
    <3>1. insts'[i] = insts[i]
      BY <1>1, <2>2 DEF AddHook, Descendants
    <3> QED BY <2>2, <3>1
  <2> QED BY <2>1, <2>2
<1>5. ASSUME NEW i \in DOMAIN insts
      PROVE  HooksOf(insts'[i].hooks, insts'[i].chain, log')
  <2>1. HooksOf(insts[i].hooks, insts[i].chain, log) /\ Listed(log)
    BY DEF HooksInv, Shape, Entries
  <2>2. /\ e.inst \in insts[i].chain =>
             HooksOf([insts[i].hooks EXCEPT ![e.arg] = Append(@, hook)], insts[i].chain, Append(log, e))
        /\ e.inst \notin insts[i].chain => HooksOf(insts[i].hooks, insts[i].chain, Append(log, e))
    BY <1>2, <2>1, HooksGrow
  <2> QED BY <1>1, <1>2, <1>4, <2>2
<1> QED BY <1>3, <1>5 DEF HooksInv

LEMMA NextHooks ==
  ASSUME Shape, HooksInv, [Next]_vars
  PROVE  HooksInv'
<1>1. CASE RunAddHook
  BY <1>1, RunAddHookHooks
<1>2. CASE ~RunAddHook
  <2>1. InstsKept
    BY NextInsts DEF Shape
  <2>2. /\ DOMAIN log \subseteq DOMAIN log' /\ \A n \in DOMAIN log : log'[n] = log[n]
        /\ \A n \in DOMAIN log' : n \in DOMAIN log \/ log'[n].op # "hook"
    BY <1>2, LogGrowsByOne DEF Entry
  <2>3. ASSUME NEW i \in DOMAIN insts, NEW chain,
               \A n \in DOMAIN log : log[n].inst \in chain <=> log[n].inst \in insts[i].chain
        PROVE  HooksOf(insts[i].hooks, chain, log')
    <3>1. HooksOf(insts[i].hooks, insts[i].chain, log)
      BY DEF HooksInv
    <3> QED BY <2>2, <2>3, <3>1, HooksLeft
  <2>4. ASSUME NEW i \in DOMAIN insts
        PROVE  HooksOf(insts'[i].hooks, insts'[i].chain, log')
    <3>1. insts'[i].hooks = insts[i].hooks /\ insts'[i].chain = insts[i].chain
      BY <1>2, <2>1 DEF InstsKept, SameBut
    <3> QED BY <2>3, <3>1
  <2>5. CASE DOMAIN insts' = DOMAIN insts
    BY <2>4, <2>5 DEF HooksInv
  <2>6. CASE LoadPlugin
    <3> DEFINE me == Len(insts) + 1
               i  == Current.inst
    <3>1. i \in DOMAIN insts
      BY <2>6, JobThere DEF LoadPlugin, Running
    <3>2. DOMAIN insts' # DOMAIN insts =>
            /\ DOMAIN insts' = DOMAIN insts \cup {me} /\ me \notin DOMAIN insts
            /\ insts'[me].chain = insts[i].chain \cup {me} /\ insts'[me].hooks = insts[i].hooks
      BY <2>6, <3>1, Born
    <3> HIDE DEF me
    <3>3. me \notin DOMAIN insts => \A n \in DOMAIN log : log[n].inst # me
      BY DEF Shape, Entries
    <3>4. DOMAIN insts' # DOMAIN insts => HooksOf(insts'[me].hooks, insts'[me].chain, log')
      BY <2>3, <3>1, <3>2, <3>3
    <3> QED BY <2>4, <2>5, <3>2, <3>4 DEF HooksInv
  <2> QED BY <2>1, <2>5, <2>6 DEF InstsKept
<1> QED BY <1>1, <1>2

-----------------------------------------------------------------------------
(* Phases: routes are added and listeners put off while plugins load; then *)
(* the listeners run; then nothing changes either.                         *)

(* What the listener of a route makes of its context.                      *)
Finished(is, c, w) ==
  /\ w.inst = c.inst /\ w.id = c.id /\ w.parts = c.parts /\ w.own = c.own /\ w.settings = c.settings
  /\ \A h \in LifecycleHooks : w.hooks[h] = is[c.inst].hooks[h] \o c.own[h]
  /\ ~BuildFails(is, c) => w.compiled = Compiled(is, c)
LEMMA ReadyIs ==
  ASSUME NEW is, NEW cs, NEW c
  PROVE  Finished(is, c, RouteReady(is, cs, c))
<1> DEFINE hooks == AllHooks(is, c.inst, c.own)
           hooked == [c EXCEPT !.hooks = hooks]
           nf == SetContext(is, hooked, cs)
           compiled == IF BuildFails(is, c) THEN c.compiled ELSE Compiled(is, c)
           w == RouteReady(is, cs, c)
<1>1. w = [hooked EXCEPT !.notFound = nf, !.compiled = compiled]
  BY DEF RouteReady
<1>2. \A h \in LifecycleHooks : hooks[h] = is[c.inst].hooks[h] \o c.own[h]
  BY DEF AllHooks
<1>3. ~BuildFails(is, c) => compiled = Compiled(is, c)
  OBVIOUS
<1>7. hooked.hooks = hooks
  OBVIOUS
<1> HIDE DEF w, compiled, nf, hooks
<1>4. w.inst = c.inst /\ w.id = c.id /\ w.parts = c.parts /\ w.own = c.own /\ w.settings = c.settings
  BY <1>1
<1>5. w.hooks = hooks
  BY <1>1, <1>7
<1>6. w.compiled = compiled
  BY <1>1
<1> QED BY <1>2, <1>3, <1>4, <1>5, <1>6 DEF w, Finished

LEMMA NextPhase ==
  ASSUME [Next]_vars
  PROVE  \/ /\ phase = "loading" /\ phase' \in {"loading", "crashed"}
            /\ UNCHANGED <<routes, listeners>> \/ RunRoute \/ RunSetNotFound
         \/ /\ phase = "loading" /\ phase' = "preReady"
            /\ UNCHANGED <<bootErr, insts, routes, listeners, log>>
         \/ phase = "preReady" /\ phase' = "preReady" /\ (RouteListener \/ NotFoundListener)
         \/ /\ phase = "preReady" /\ listeners = <<>> /\ phase' = IF Errored THEN "failed" ELSE "started"
            /\ UNCHANGED <<bootErr, insts, routes, listeners, log>>
         \/ UNCHANGED <<phase, bootErr, routes, listeners, log>> /\ (UNCHANGED insts \/ phase = "started")
<1>1. ASSUME NEW c \in api.uses, Call(c)
      PROVE  /\ phase = "loading" /\ phase' \in {"loading", "crashed"}
             /\ UNCHANGED <<routes, listeners>>
  <2>1. UNCHANGED <<routes, listeners>>
    BY <1>1 DEF Call, Calling, BodyThrows, CallRegister, CallAfter, CallAddHook, CallRoute,
           CallDecorate, CallAddContentTypeParser, CallAddSchema, CallSetCompiler, CallSet,
           CallSetNotFoundHandler, UnchangedRoutes
  <2>2. phase = "loading" /\ (Throws(c) \/ UNCHANGED phase)
    BY <1>1, CallCases
  <2>3. Throws(c) => phase' \in {"loading", "crashed"}
    BY <2>2 DEF Throws
  <2> QED BY <2>1, <2>2, <2>3
<1>2. CASE BodyEnds \/ SkipPlugin \/ LoadPlugin \/ RunAfter \/ RunAddHook
  BY <1>2 DEF BodyEnds, SkipPlugin, LoadPlugin, RunAfter, RunAddHook, Running, registryVars, UnchangedRoutes
<1>3. CASE RunRoute \/ RunSetNotFound
  BY <1>3 DEF RunRoute, RunSetNotFound, Running
<1>4. CASE Loaded
  BY <1>4 DEF Loaded, registryVars
<1>5. CASE RouteListener \/ NotFoundListener
  BY <1>5 DEF RouteListener, NotFoundListener
<1>6. CASE Start
  BY <1>6 DEF Start, registryVars
<1>7. CASE Serve
  <2>1. UNCHANGED <<phase, bootErr, routes, listeners, log>>
    BY <1>7 DEF Serve, Request, bootVars, registryVars, UnchangedRoutes
  <2>2. phase = "started"
    BY <1>7 DEF Serve, Request, Ready
  <2> QED BY <2>1, <2>2
<1>8. CASE UNCHANGED vars
  BY <1>8 DEF vars, bootVars, registryVars
<1> QED BY <1>1, <1>2, <1>3, <1>4, <1>5, <1>6, <1>7, <1>8 DEF Next, Boot

LEMMA ListenerRoutes ==
  ASSUME Shape, RouteListener
  PROVE  LET k == Head(listeners).at
         IN /\ k \in DOMAIN routes /\ DOMAIN routes' = DOMAIN routes
            /\ Finished(insts, routes[k], routes'[k])
            /\ \A n \in DOMAIN routes : n # k => routes'[n] = routes[n]
<1> DEFINE k == Head(listeners).at
           w == RouteReady(insts, contexts, routes[k])
<1>1. routes' = [routes EXCEPT ![k] = w] /\ listeners # <<>> /\ k # 0
  BY DEF RouteListener
<1>2. k \in DOMAIN routes
  BY <1>1, ListenerThere
<1>4. Finished(insts, routes[k], w)
  BY ReadyIs
<1> HIDE DEF k, w
<1>3. /\ DOMAIN routes' = DOMAIN routes /\ routes'[k] = w
      /\ \A n \in DOMAIN routes : n # k => routes'[n] = routes[n]
  BY <1>1, <1>2
<1> QED BY <1>2, <1>3, <1>4 DEF k

-----------------------------------------------------------------------------
(* Schemas: a store has all that were added on the chain of its instance,  *)
(* and no compiler of the factory is there before the schemas all are.     *)

SchemasLogged(chain, l) ==
  {l[n].arg : n \in {m \in DOMAIN l : l[m].op = "addSchema" /\ l[m].inst \in chain}}
SchemasKnown(s, chain, l, loading) ==
  /\ DOMAIN s.compiler = Parts
  /\ SchemasLogged(chain, l) \subseteq s.store
  /\ \A part \in Parts : s.compiler[part].by = "factory" =>
       ~loading /\ SchemasLogged(chain, l) \subseteq s.compiler[part].knows
Loading == phase = "loading"
SchemasInv ==
  /\ \A i \in DOMAIN insts : SchemasKnown(insts[i].schemas, insts[i].chain, log, Loading)
  /\ \A n \in DOMAIN log : log[n].op = "build" =>
       ~Loading /\ log[n].arg \notin SchemasLogged(insts[log[n].inst].chain, log)

LEMMA SchemasOfIs ==
  ASSUME NEW i
  PROVE  SchemasOf(i) = SchemasLogged(insts[i].chain, log)
BY DEF SchemasOf, SchemasLogged, Took, OnChain

(* A step that logs no schema, or that logs one.                           *)
LEMMA SchemasLeft ==
  ASSUME NEW l, NEW l2, DOMAIN l \subseteq DOMAIN l2, \A n \in DOMAIN l : l2[n] = l[n],
         \A n \in DOMAIN l2 : n \in DOMAIN l \/ l2[n].op # "addSchema",
         NEW chain, NEW chain2, \A n \in DOMAIN l : l[n].inst \in chain2 <=> l[n].inst \in chain
  PROVE  SchemasLogged(chain2, l2) = SchemasLogged(chain, l)
<1>1. {m \in DOMAIN l2 : l2[m].op = "addSchema" /\ l2[m].inst \in chain2}
        = {m \in DOMAIN l : l[m].op = "addSchema" /\ l[m].inst \in chain}
  OBVIOUS
<1> QED BY <1>1 DEF SchemasLogged

LEMMA SchemasGrow ==
  ASSUME NEW l, NEW l2, NEW e, \A n \in DOMAIN l2 : (n \in DOMAIN l /\ l2[n] = l[n]) \/ l2[n] = e,
         NEW chain
  PROVE  /\ SchemasLogged(chain, l2) \subseteq SchemasLogged(chain, l) \cup {e.arg}
         /\ e.inst \notin chain \/ e.op # "addSchema" =>
              SchemasLogged(chain, l2) \subseteq SchemasLogged(chain, l)
BY DEF SchemasLogged

(* The compilers are set up: those of the parts that were there, or those  *)
(* of the factory over the whole store.                                    *)
SetUp(s, parts, S, t) ==
  /\ DOMAIN t.compiler = Parts /\ t.store = s.store
  /\ \A part \in Parts :
       /\ t.compiler[part].by = "factory" => S \subseteq t.compiler[part].knows
       /\ part \in parts => t.compiler[part] # NoCompiler
LEMMA SetupKnows ==
  ASSUME NEW s, NEW parts, DOMAIN s.compiler = Parts, NEW S, S \subseteq s.store,
         \A part \in Parts : s.compiler[part].by = "factory" => S \subseteq s.compiler[part].knows
  PROVE  SetUp(s, parts, S, SetupAll(s, parts))
<1> DEFINE compiler == [part \in Parts |-> IF part \in parts THEN Setup(s, part).compiler[part] ELSE s.compiler[part]]
           t == SetupAll(s, parts)
<1>1. t = [s EXCEPT !.compiler = compiler]
  BY DEF SetupAll
<1>2. DOMAIN compiler = Parts
  OBVIOUS
<1>3. ASSUME NEW part \in Parts
      PROVE  /\ compiler[part].by = "factory" => S \subseteq compiler[part].knows
             /\ part \in parts => compiler[part] # NoCompiler
  <2>1. CASE part \notin parts
    BY <2>1
  <2>2. CASE part \in parts /\ IsReady(s, part)
    BY <2>2 DEF Setup, IsReady
  <2>3. CASE part \in parts /\ ~IsReady(s, part)
    <3> DEFINE new == [by |-> "factory", knows |-> s.store]
               cs == [s.compiler EXCEPT ![part] = new]
    <3>1. Setup(s, part) = [s EXCEPT !.compiler = cs]
      BY <2>3 DEF Setup
    <3>2. cs[part] = new
      OBVIOUS
    <3>3. new.knows = s.store /\ new # NoCompiler
      BY DEF NoCompiler
    <3> HIDE DEF cs
    <3>4. Setup(s, part).compiler = cs
      BY <3>1
    <3>5. compiler[part] = new
      BY <2>3, <3>2, <3>4
    <3> QED BY <3>3, <3>5
  <2> QED BY <2>1, <2>2, <2>3
<1> HIDE DEF compiler, t
<1>4. t.compiler = compiler /\ t.store = s.store
  BY <1>1
<1> QED BY <1>2, <1>3, <1>4 DEF t, SetUp

(* A step that gives no instance a schema or a compiler.                   *)
LEMMA SchemasStay ==
  ASSUME Shape, SchemasInv, [Next]_vars, ~AddSchemaStep, ~SetCompilerStep, ~RouteListener
  PROVE  SchemasInv'
<1>1. InstsKept /\ (Loading' => Loading) /\ Loading \in BOOLEAN /\ Loading' \in BOOLEAN
  BY NextInsts, NextPhase DEF Shape, Loading
<1>2. /\ DOMAIN log \subseteq DOMAIN log' /\ \A n \in DOMAIN log : log'[n] = log[n]
      /\ \A n \in DOMAIN log' : n \in DOMAIN log \/ (log'[n].op # "addSchema" /\ log'[n].op # "build")
  BY LogGrowsByOne DEF Entry
<1>3. ASSUME NEW chain, NEW chain2, \A n \in DOMAIN log : log[n].inst \in chain2 <=> log[n].inst \in chain
      PROVE  SchemasLogged(chain2, log') = SchemasLogged(chain, log)
  BY <1>2, <1>3, SchemasLeft
<1>4. ASSUME NEW i \in DOMAIN insts
      PROVE  /\ insts'[i].chain = insts[i].chain
             /\ SchemasKnown(insts'[i].schemas, insts'[i].chain, log', Loading')
  <2>1. insts'[i].schemas = insts[i].schemas /\ insts'[i].chain = insts[i].chain
    BY <1>1 DEF InstsKept, SameBut
  <2>2. SchemasLogged(insts[i].chain, log') = SchemasLogged(insts[i].chain, log)
    BY <1>3
  <2>3. SchemasKnown(insts[i].schemas, insts[i].chain, log, Loading)
    BY DEF SchemasInv
  <2> QED BY <1>1, <2>1, <2>2, <2>3 DEF SchemasKnown
<1>5. ASSUME NEW n \in DOMAIN log', log'[n].op = "build"
      PROVE  ~Loading' /\ log'[n].arg \notin SchemasLogged(insts'[log'[n].inst].chain, log')
  <2>1. n \in DOMAIN log /\ log'[n] = log[n] /\ log[n].inst \in DOMAIN insts
    BY <1>2, <1>5 DEF Shape, Entries
  <2>2. SchemasLogged(insts'[log[n].inst].chain, log') = SchemasLogged(insts[log[n].inst].chain, log)
    BY <1>3, <1>4, <2>1
  <2> QED BY <1>1, <1>5, <2>1, <2>2 DEF SchemasInv
<1>6. CASE DOMAIN insts' = DOMAIN insts
  BY <1>4, <1>5, <1>6 DEF SchemasInv
<1>7. CASE LoadPlugin /\ DOMAIN insts' # DOMAIN insts
  <2> DEFINE me == Len(insts) + 1
             i  == Current.inst
             compilers == [part \in Parts |-> CompilerOf(insts, i, part)]
  <2>1. /\ i \in DOMAIN insts
        /\ DOMAIN insts' = DOMAIN insts \cup {me} /\ me \notin DOMAIN insts
        /\ insts'[me].chain = insts[i].chain \cup {me}
        /\ insts'[me].schemas = BuildSchemaController(insts[i].schemas, compilers)
    BY <1>7, Born
  <2>2. Loading /\ Loading'
    BY <1>7, OneJob DEF LoadPlugin, Loading
  <2>3. ASSUME NEW part \in Parts
        PROVE  compilers[part].by # "factory"
    <3>1. compilers[part] = CompilerOf(insts, i, part)
      OBVIOUS
    <3>2. \A j \in DOMAIN insts : insts[j].schemas.compiler[part].by # "factory"
      BY <2>2 DEF SchemasInv, SchemasKnown
    <3> DEFINE having == {k \in DOMAIN insts : insts[k].schemas.compiler[part] # NoCompiler}
               j == Nearest(insts, i, having)
    <3>3. j = 0 \/ j \in DOMAIN insts
      <4>1. Tree /\ having \subseteq DOMAIN insts
        BY DEF Shape
      <4> QED BY <2>1, <4>1, NearestOf
    <3>4. CompilerOf(insts, i, part) = IF j = 0 THEN NoCompiler ELSE insts[j].schemas.compiler[part]
      BY DEF CompilerOf
    <3>5. NoCompiler.by # "factory"
      BY DEF NoCompiler
    <3> HIDE DEF j, compilers
    <3> QED BY <3>1, <3>2, <3>3, <3>4, <3>5
  <2>4. /\ insts'[me].schemas.store = insts[i].schemas.store
        /\ insts'[me].schemas.compiler = compilers
    BY <2>1 DEF BuildSchemaController, SchemaController
  <2>5. DOMAIN compilers = Parts
    OBVIOUS
  <2> HIDE DEF compilers, me
  <2>6. SchemasLogged(insts'[me].chain, log') = SchemasLogged(insts[i].chain, log)
    <3>1. \A n \in DOMAIN log : log[n].inst # me
      BY <2>1 DEF Shape, Entries
    <3> QED BY <1>3, <2>1, <3>1
  <2>7. SchemasLogged(insts[i].chain, log) \subseteq insts[i].schemas.store
    BY <2>1 DEF SchemasInv, SchemasKnown
  <2>8. SchemasKnown(insts'[me].schemas, insts'[me].chain, log', Loading')
    BY <2>3, <2>4, <2>5, <2>6, <2>7 DEF SchemasKnown
  <2> QED BY <1>4, <1>5, <2>1, <2>8 DEF SchemasInv
<1> QED BY <1>1, <1>6, <1>7 DEF InstsKept

(* addSchema: when it does not throw, every instance below has the schema. *)
LEMMA AddSchemaKnown ==
  ASSUME Shape, SchemasInv, NEW c \in api.uses, CallAddSchema(c), [Next]_vars
  PROVE  SchemasInv'
<1>1. /\ Loading /\ Loading \in BOOLEAN /\ Loading' \in BOOLEAN
      /\ insts' = AddSchema(insts, Here, c.id) /\ DOMAIN insts' = DOMAIN insts
  BY DEF CallAddSchema, Calling, NotStarted, Loading, AddSchema
<1>2. \A n \in DOMAIN log : log[n].op # "build"
  BY <1>1 DEF SchemasInv
<1>3. PICK e : /\ log' = Append(log, e) /\ e.inst = Here /\ e.op \in {"error", "addSchema"}
               /\ e.op = "addSchema" => e.arg = c.id /\ ~CannotAddSchema(insts, Here, c.id)
  <2>1. CASE Throws(c)
    BY <2>1 DEF Throws, Log
  <2>2. CASE ~CannotAddSchema(insts, Here, c.id) /\ Done(c, c.id)
    BY <2>2 DEF CallAddSchema, Calling, Done, Log
  <2> QED BY <2>1, <2>2 DEF CallAddSchema
<1>4. /\ \A n \in DOMAIN log' : (n \in DOMAIN log /\ log'[n] = log[n]) \/ log'[n] = e
  BY <1>3, ListAppend DEF Shape, Entries
<1>5. ASSUME NEW i \in DOMAIN insts
      PROVE  SchemasKnown(insts'[i].schemas, insts'[i].chain, log', Loading')
  <2>1. SchemasKnown(insts[i].schemas, insts[i].chain, log, Loading)
    BY DEF SchemasInv
  <2>2. /\ insts'[i].chain = insts[i].chain /\ insts'[i].schemas.compiler = insts[i].schemas.compiler
        /\ insts[i].schemas.store \subseteq insts'[i].schemas.store
        /\ Here \in insts[i].chain /\ ~CannotAddSchema(insts, Here, c.id) =>
             c.id \in insts'[i].schemas.store
    <3> DEFINE s == AddToBucket(insts[i].schemas, c.id)
    <3>1. s.compiler = insts[i].schemas.compiler /\ s.store = insts[i].schemas.store \cup {c.id}
      BY DEF AddToBucket
    <3> HIDE DEF s
    <3>2. insts'[i] = insts[i] \/ insts'[i] = [insts[i] EXCEPT !.schemas = s]
      BY <1>1 DEF AddSchema, s
    <3>3. Here \in insts[i].chain /\ ~CannotAddSchema(insts, Here, c.id) =>
            insts'[i] = [insts[i] EXCEPT !.schemas = s]
      BY <1>1 DEF AddSchema, CannotAddSchema, Descendants, s
    <3>4. insts'[i] = [insts[i] EXCEPT !.schemas = s] =>
            insts'[i].chain = insts[i].chain /\ insts'[i].schemas = s
      OBVIOUS
    <3> QED BY <3>1, <3>2, <3>3, <3>4
  <2>3. SchemasLogged(insts[i].chain, log') \subseteq insts'[i].schemas.store
    <3>1. /\ SchemasLogged(insts[i].chain, log') \subseteq SchemasLogged(insts[i].chain, log) \cup {e.arg}
          /\ e.inst \notin insts[i].chain \/ e.op # "addSchema" =>
               SchemasLogged(insts[i].chain, log') \subseteq SchemasLogged(insts[i].chain, log)
      BY <1>4, SchemasGrow
    <3> QED BY <1>3, <2>1, <2>2, <3>1 DEF SchemasKnown
  <2> QED BY <1>1, <2>1, <2>2, <2>3 DEF SchemasKnown
<1>6. \A n \in DOMAIN log' : log'[n].op # "build"
  BY <1>2, <1>3, <1>4
<1> QED BY <1>1, <1>5, <1>6 DEF SchemasInv

(* setValidatorCompiler, setSerializerCompiler.                            *)
LEMMA SetCompilerKnown ==
  ASSUME Shape, SchemasInv, NEW c \in api.uses, CallSetCompiler(c), [Next]_vars
  PROVE  SchemasInv'
<1> DEFINE s == SetCompiler(insts[Here].schemas, c.part)
           w == [insts[Here] EXCEPT !.schemas = s]
<1>1. /\ Loading /\ Loading \in BOOLEAN /\ Loading' \in BOOLEAN /\ Here \in DOMAIN insts
      /\ insts' = [insts EXCEPT ![Here] = w]
  BY TopThere DEF CallSetCompiler, Calling, NotStarted, Loading, Sets
<1>2. /\ DOMAIN log \subseteq DOMAIN log' /\ \A n \in DOMAIN log : log'[n] = log[n]
      /\ \A n \in DOMAIN log' : n \in DOMAIN log \/ (log'[n].op # "addSchema" /\ log'[n].op # "build")
  <2> DEFINE e == [op |-> c.op, inst |-> Here, arg |-> c.part, id |-> Me, at |-> Top.at]
  <2>1. log' = Append(log, e) /\ e.op = "setCompiler"
    BY DEF CallSetCompiler, Calling, Done, Log
  <2> HIDE DEF e
  <2> QED BY <2>1, ListAppend DEF Shape, Entries
<1>3. s.store = insts[Here].schemas.store /\ s.compiler = [insts[Here].schemas.compiler EXCEPT ![c.part] = Custom]
  BY DEF SetCompiler
<1> HIDE DEF s
<1>4. w.chain = insts[Here].chain /\ w.schemas = s
  OBVIOUS
<1> HIDE DEF w
<1>5. DOMAIN insts' = DOMAIN insts /\ \A i \in DOMAIN insts : insts'[i] = IF i = Here THEN w ELSE insts[i]
  BY <1>1
<1>6. Custom.by # "factory"
  BY DEF Custom
<1>7. ASSUME NEW i \in DOMAIN insts
      PROVE  SchemasKnown(insts'[i].schemas, insts'[i].chain, log', Loading')
  <2>1. SchemasKnown(insts[i].schemas, insts[i].chain, log, Loading)
    BY DEF SchemasInv
  <2>2. SchemasLogged(insts[i].chain, log') = SchemasLogged(insts[i].chain, log)
    BY <1>2, SchemasLeft
  <2>3. CASE i # Here
    BY <1>1, <1>5, <2>1, <2>2, <2>3 DEF SchemasKnown
  <2>4. CASE i = Here
    <3>1. /\ insts'[i].chain = insts[i].chain /\ insts'[i].schemas.store = insts[i].schemas.store
          /\ insts'[i].schemas.compiler = [insts[i].schemas.compiler EXCEPT ![c.part] = Custom]
      BY <1>3, <1>4, <1>5, <2>4
    <3>2. ASSUME NEW part \in Parts
          PROVE  insts'[i].schemas.compiler[part].by # "factory"
      BY <1>1, <1>6, <2>1, <3>1 DEF SchemasKnown
    <3> QED BY <2>1, <2>2, <3>1, <3>2 DEF SchemasKnown
  <2> QED BY <2>3, <2>4
<1>8. \A n \in DOMAIN log' : log'[n].op # "build"
  BY <1>1, <1>2 DEF SchemasInv
<1> QED BY <1>5, <1>7, <1>8 DEF SchemasInv

(* The listener of a route sets its compilers up, or fails to for a schema *)
(* that they do not know.                                                  *)
LEMMA RouteCompiled ==
  ASSUME Shape, SchemasInv, RouteListener
  PROVE  LET k == Head(listeners).at
             i == routes[k].inst
         IN /\ i \in DOMAIN insts
            /\ SchemasKnown(SetupAll(insts[i].schemas, routes[k].parts), insts[i].chain, log, FALSE)
            /\ \A part \in routes[k].parts :
                 /\ part \in Parts
                 /\ SetupAll(insts[i].schemas, routes[k].parts).compiler[part] # NoCompiler
            /\ BuildFails(insts, routes[k]) => routes[k].schema \notin SchemasLogged(insts[i].chain, log)
<1> DEFINE k == Head(listeners).at
           i == routes[k].inst
           s == insts[i].schemas
           t == SetupAll(s, routes[k].parts)
           S == SchemasLogged(insts[i].chain, log)
<1>1. k \in DOMAIN routes
  BY ListenerRoutes
<1>2. i \in DOMAIN insts /\ routes[k].parts \subseteq Parts
  BY <1>1 DEF Shape, Registry
<1>3. SchemasKnown(s, insts[i].chain, log, Loading)
  BY <1>2 DEF SchemasInv
<1>4. /\ DOMAIN t.compiler = Parts /\ t.store = s.store
      /\ \A part \in Parts :
           /\ t.compiler[part].by = "factory" => S \subseteq t.compiler[part].knows
           /\ part \in routes[k].parts => t.compiler[part] # NoCompiler
  <2>1. SetUp(s, routes[k].parts, S, t)
    BY <1>3, SetupKnows DEF SchemasKnown
  <2> QED BY <2>1 DEF SetUp
<1>5. SchemasReady(insts, routes[k])[i].schemas = t
  <2> DEFINE w == [insts[i] EXCEPT !.schemas = t]
  <2>1. SchemasReady(insts, routes[k]) = [insts EXCEPT ![i] = w]
    BY DEF SchemasReady
  <2>2. w.schemas = t
    OBVIOUS
  <2> HIDE DEF w, t, i
  <2> QED BY <1>2, <2>1, <2>2
<1>6. ASSUME BuildFails(insts, routes[k])
      PROVE  routes[k].schema \notin S
  <2>1. PICK part \in routes[k].parts : ~Compiles(t, part, routes[k].schema)
    BY <1>5, <1>6 DEF BuildFails
  <2>2. part \in Parts /\ t.compiler[part].by = "factory" /\ routes[k].schema \notin t.compiler[part].knows
    BY <1>2, <2>1 DEF Compiles
  <2> QED BY <1>4, <2>2
<1>7. SchemasKnown(t, insts[i].chain, log, FALSE)
  BY <1>3, <1>4 DEF SchemasKnown
<1> QED BY <1>2, <1>4, <1>6, <1>7

LEMMA ListenerKnown ==
  ASSUME Shape, SchemasInv, RouteListener, [Next]_vars
  PROVE  /\ SchemasInv'
         /\ LET k == Head(listeners).at
            IN \A part \in routes[k].parts :
                 SetupAll(insts[routes[k].inst].schemas, routes[k].parts).compiler[part] # NoCompiler
<1> DEFINE k == Head(listeners).at
           i == routes[k].inst
           t == SetupAll(insts[i].schemas, routes[k].parts)
           w == [insts[i] EXCEPT !.schemas = t]
           e == [op |-> "build", inst |-> i, arg |-> routes[k].schema, id |-> routes[k].id, at |-> Top.at]
<1>1. /\ i \in DOMAIN insts /\ SchemasKnown(t, insts[i].chain, log, FALSE)
      /\ \A part \in routes[k].parts : part \in Parts /\ t.compiler[part] # NoCompiler
      /\ BuildFails(insts, routes[k]) => routes[k].schema \notin SchemasLogged(insts[i].chain, log)
  BY RouteCompiled
<1>2. insts' = [insts EXCEPT ![i] = w]
  BY DEF RouteListener, SchemasReady
<1>3. ~Loading /\ ~Loading'
  BY DEF RouteListener, Loading
<1>4. log' = log \/ (log' = Append(log, e) /\ routes[k].schema \notin SchemasLogged(insts[i].chain, log))
  BY <1>1 DEF RouteListener, Log
<1>5. e.op = "build" /\ e.inst = i /\ e.arg = routes[k].schema
  OBVIOUS
<1>6. w.chain = insts[i].chain /\ w.schemas = t
  OBVIOUS
<1> HIDE DEF e, w, t
<1>7. /\ DOMAIN log \subseteq DOMAIN log' /\ \A n \in DOMAIN log : log'[n] = log[n]
      /\ \A n \in DOMAIN log' : n \in DOMAIN log \/ log'[n] = e
  BY <1>4, ListAppend DEF Shape, Entries
<1>8. ASSUME NEW chain
      PROVE  SchemasLogged(chain, log') = SchemasLogged(chain, log)
  BY <1>5, <1>7, SchemasLeft
<1> HIDE DEF i, k
<1>9. /\ DOMAIN insts' = DOMAIN insts
      /\ \A j \in DOMAIN insts : insts'[j] = IF j = i THEN w ELSE insts[j]
  BY <1>2
<1>10. ASSUME NEW j \in DOMAIN insts
       PROVE  /\ insts'[j].chain = insts[j].chain
              /\ SchemasKnown(insts'[j].schemas, insts'[j].chain, log', Loading')
  <2>1. CASE j = i
    <3>1. insts'[j].chain = insts[j].chain /\ insts'[j].schemas = t
      BY <1>6, <1>9, <2>1
    <3> QED BY <1>1, <1>3, <1>8, <2>1, <3>1 DEF SchemasKnown
  <2>2. CASE j # i
    <3>1. insts'[j] = insts[j]
      BY <1>9, <2>2
    <3> QED BY <1>3, <1>8, <3>1 DEF SchemasInv, SchemasKnown
  <2> QED BY <2>1, <2>2
<1>11. ASSUME NEW n \in DOMAIN log', log'[n].op = "build"
       PROVE  log'[n].arg \notin SchemasLogged(insts'[log'[n].inst].chain, log')
  <2>1. CASE n \in DOMAIN log
    <3>1. log'[n] = log[n] /\ log[n].inst \in DOMAIN insts
      BY <1>7, <2>1 DEF Shape, Entries
    <3> QED BY <1>8, <1>10, <1>11, <2>1, <3>1 DEF SchemasInv
  <2>2. CASE n \notin DOMAIN log
    <3>1. log'[n] = e /\ log' # log
      BY <1>7, <2>2
    <3> QED BY <1>1, <1>4, <1>5, <1>8, <1>10, <3>1
  <2> QED BY <2>1, <2>2
<1>12. SchemasInv'
  BY <1>3, <1>9, <1>10, <1>11 DEF SchemasInv
<1> QED BY <1>1, <1>12 DEF t, i, k

LEMMA NextSchemas ==
  ASSUME Shape, SchemasInv, [Next]_vars
  PROVE  SchemasInv'
<1>1. CASE AddSchemaStep
  BY <1>1, AddSchemaKnown DEF AddSchemaStep
<1>2. CASE SetCompilerStep
  BY <1>2, SetCompilerKnown DEF SetCompilerStep
<1>3. CASE RouteListener
  BY <1>3, ListenerKnown
<1> QED BY <1>1, <1>2, <1>3, SchemasStay

LEMMA InitSchemas == Init => SchemasInv
<1> SUFFICES ASSUME Init PROVE SchemasInv
  OBVIOUS
<1>1. DOMAIN insts = {1} /\ insts[1] = Fastify /\ log = <<>> /\ DOMAIN <<>> = {}
  BY DEF Init
<1>2. Fastify.schemas = SchemaController
  BY DEF Fastify
<1>3. SchemaController.compiler = [part \in Parts |-> NoCompiler] /\ NoCompiler.by = "none"
  BY DEF SchemaController, NoCompiler
<1>4. SchemasLogged(Fastify.chain, <<>>) = {}
  BY <1>1 DEF SchemasLogged
<1>5. SchemasKnown(Fastify.schemas, Fastify.chain, <<>>, Loading)
  BY <1>2, <1>3, <1>4 DEF SchemasKnown
<1> QED BY <1>1, <1>5 DEF SchemasInv

-----------------------------------------------------------------------------
(* A route is waiting for its preReady listener until that has finished it *)
(* with the hooks and the compilers there are, and none comes later.       *)

Waiting(k) == \E m \in DOMAIN listeners : listeners[m].at = k
HooksDone(k) ==
  \A h \in LifecycleHooks : routes[k].hooks[h] = insts[routes[k].inst].hooks[h] \o routes[k].own[h]
PartsDone(k) ==
  \A part \in routes[k].parts :
    /\ routes[k].compiled[part] # NoCompiler
    /\ routes[k].compiled[part].by = "factory" =>
         SchemasLogged(insts[routes[k].inst].chain, log) \subseteq routes[k].compiled[part].knows
RouteDone(k) == HooksDone(k) /\ PartsDone(k)
Finishing ==
  \A k \in DOMAIN routes :
    /\ phase = "loading" => Waiting(k)
    /\ phase = "preReady" => Errored \/ Waiting(k) \/ RouteDone(k)
    /\ phase = "started" => RouteDone(k)

(* A route added, and a listener for a 404 handler.                        *)
LEMMA WaitingAdded ==
  ASSUME Shape, Finishing, phase = "loading",
         UNCHANGED <<routes, listeners>> \/ RunRoute \/ RunSetNotFound
  PROVE  \A k \in DOMAIN routes' : Waiting(k)'
<1>1. \A k \in DOMAIN routes : Waiting(k)
  BY DEF Finishing
<1>2. CASE UNCHANGED <<routes, listeners>>
  BY <1>1, <1>2 DEF Waiting
<1>3. CASE RunRoute
  <2> DEFINE st == AddRoute(insts, Current, routes, listeners)
  <2>1. routes' = st.routes /\ listeners' = st.listeners
    BY <1>3 DEF RunRoute
  <2>2. RoutesTo(insts, Current, routes, listeners, st.routes, st.listeners)
    BY RoutesAdded DEF Added, Shape, Registry
  <2> HIDE DEF st
  <2> QED BY <1>1, <2>1, <2>2 DEF Waiting, RoutesTo
<1>4. CASE RunSetNotFound
  <2> DEFINE l == [at |-> 0, job |-> Current]
  <2>1. routes' = routes /\ listeners' = Append(listeners, l)
    BY <1>4 DEF RunSetNotFound
  <2> HIDE DEF l
  <2>2. /\ DOMAIN listeners \subseteq DOMAIN listeners'
        /\ \A m \in DOMAIN listeners : listeners'[m] = listeners[m]
    BY <2>1, ListAppend DEF Shape, Registry
  <2> QED BY <1>1, <2>1, <2>2 DEF Waiting
<1> QED BY <1>2, <1>3, <1>4

(* Whether there is an error of the boot, which a listener may add.        *)
LEMMA SameErrored == ASSUME UNCHANGED bootErr PROVE Errored' = Errored
BY DEF Errored

LEMMA ListenerErrs ==
  ASSUME RouteListener
  PROVE  Errored' = (BuildFails(insts, routes[Head(listeners).at]) \/ Errored)
BY DEF RouteListener, Errored

(* A listener runs: the route it is for is finished, or the boot fails.    *)
LEMMA ListenerRuns ==
  ASSUME Shape, RouteListener \/ NotFoundListener, NEW k \in DOMAIN routes', Waiting(k)
  PROVE  \/ Waiting(k)' \/ Errored'
         \/ RouteListener /\ k = Head(listeners).at /\ ~BuildFails(insts, routes[k])
<1>1. PICK m \in DOMAIN listeners : listeners[m].at = k
  BY DEF Waiting
<1>2. listeners # <<>> /\ (Errored' \/ listeners' = Tail(listeners))
  BY DEF RouteListener, NotFoundListener, Errored
<1>3. /\ Head(listeners) = listeners[1]
      /\ m # 1 => m - 1 \in DOMAIN Tail(listeners) /\ Tail(listeners)[m - 1] = listeners[m]
  BY <1>2, ListTail DEF Shape, Registry
<1>4. CASE m # 1
  BY <1>1, <1>2, <1>3, <1>4 DEF Waiting
<1>5. CASE m = 1
  <2>1. k # 0
    <3>1. Listed(routes')
      BY NextRegistry DEF Next, Boot, Registry
    <3> QED BY <3>1, ListedIs
  <2>2. RouteListener
    BY <1>1, <1>3, <1>5, <2>1 DEF NotFoundListener
  <2>3. Errored' = (BuildFails(insts, routes[Head(listeners).at]) \/ Errored)
    BY <2>2, ListenerErrs
  <2> QED BY <1>1, <1>3, <1>5, <2>2, <2>3
<1> QED BY <1>4, <1>5

(* Neither the hooks nor the schemas change after the plugins are loaded.  *)
LEMMA RouteSettled ==
  ASSUME Shape, [Next]_vars, phase # "loading", NEW k \in DOMAIN routes
  PROVE  /\ insts'[routes[k].inst].hooks = insts[routes[k].inst].hooks
         /\ SchemasLogged(insts'[routes[k].inst].chain, log') =
              SchemasLogged(insts[routes[k].inst].chain, log)
<1>1. ~RunAddHook /\ ~AddSchemaStep
  BY OneJob DEF AddSchemaStep, CallAddSchema, Calling, NotStarted
<1>2. /\ insts'[routes[k].inst].hooks = insts[routes[k].inst].hooks
      /\ insts'[routes[k].inst].chain = insts[routes[k].inst].chain
  BY <1>1, NextInsts DEF InstsKept, SameBut, Shape, Registry
<1>3. /\ DOMAIN log \subseteq DOMAIN log' /\ \A n \in DOMAIN log : log'[n] = log[n]
      /\ \A n \in DOMAIN log' : n \in DOMAIN log \/ log'[n].op # "addSchema"
  BY <1>1, LogGrowsByOne DEF Entry
<1> QED BY <1>2, <1>3, SchemasLeft

(* The listener of a route, when it does not throw.                        *)
LEMMA DoneNow ==
  ASSUME Shape, SchemasInv, [Next]_vars, RouteListener, NEW k, k = Head(listeners).at,
         ~BuildFails(insts, routes[k])
  PROVE  RouteDone(k)'
<1> DEFINE i == routes[k].inst
           t == SetupAll(insts[i].schemas, routes[k].parts)
<1>1. k \in DOMAIN routes /\ Finished(insts, routes[k], routes'[k])
  BY ListenerRoutes
<1>2. /\ insts'[i].hooks = insts[i].hooks
      /\ SchemasLogged(insts'[i].chain, log') = SchemasLogged(insts[i].chain, log)
  BY <1>1, RouteSettled DEF RouteListener
<1>3. HooksDone(k)'
  BY <1>1, <1>2 DEF HooksDone, Finished
<1>4. /\ i \in DOMAIN insts /\ SchemasKnown(t, insts[i].chain, log, FALSE)
      /\ \A part \in routes[k].parts : part \in Parts /\ t.compiler[part] # NoCompiler
  BY RouteCompiled
<1>5. SchemasReady(insts, routes[k])[i].schemas = t
  <2> DEFINE w == [insts[i] EXCEPT !.schemas = t]
  <2>1. SchemasReady(insts, routes[k]) = [insts EXCEPT ![i] = w]
    BY DEF SchemasReady
  <2>2. w.schemas = t
    OBVIOUS
  <2> HIDE DEF w, t, i
  <2> QED BY <1>4, <2>1, <2>2
<1>6. \A part \in routes[k].parts : Compiled(insts, routes[k])[part] = t.compiler[part]
  <2> HIDE DEF t
  <2> QED BY <1>4, <1>5 DEF Compiled
<1> HIDE DEF t
<1>7. routes'[k].inst = i /\ routes'[k].parts = routes[k].parts /\ routes'[k].compiled = Compiled(insts, routes[k])
  BY <1>1 DEF Finished
<1>8. PartsDone(k)'
  BY <1>2, <1>4, <1>6, <1>7 DEF PartsDone, SchemasKnown
<1> QED BY <1>3, <1>8 DEF RouteDone

LEMMA DoneKept ==
  ASSUME Shape, [Next]_vars, phase # "loading", NEW k \in DOMAIN routes, RouteDone(k),
         routes'[k] = routes[k]
  PROVE  RouteDone(k)'
BY RouteSettled DEF RouteDone, HooksDone, PartsDone

LEMMA NextFinishing ==
  ASSUME Shape, SchemasInv, Finishing, [Next]_vars
  PROVE  Finishing'
<1>1. CASE /\ phase = "loading" /\ phase' \in {"loading", "crashed"}
           /\ UNCHANGED <<routes, listeners>> \/ RunRoute \/ RunSetNotFound
  BY <1>1, WaitingAdded DEF Finishing
<1>2. CASE phase = "loading" /\ phase' = "preReady" /\ UNCHANGED <<routes, listeners>>
  BY <1>2 DEF Finishing, Waiting
<1>3. CASE phase = "preReady" /\ phase' = "preReady" /\ RouteListener
  <2> DEFINE now == Head(listeners).at
  <2>1. /\ DOMAIN routes' = DOMAIN routes
        /\ \A n \in DOMAIN routes : n # now => routes'[n] = routes[n]
    BY <1>3, ListenerRoutes
  <2>2. Errored' = (BuildFails(insts, routes[now]) \/ Errored)
    BY <1>3, ListenerErrs
  <2>3. ASSUME NEW k \in DOMAIN routes
        PROVE  Errored' \/ Waiting(k)' \/ RouteDone(k)'
    <3>1. Errored \/ Waiting(k) \/ RouteDone(k)
      BY <1>3 DEF Finishing
    <3>2. CASE k = now
      BY <1>3, <2>2, <3>2, DoneNow
    <3>3. CASE k # now /\ RouteDone(k)
      BY <1>3, <2>1, <3>3, DoneKept
    <3>4. CASE k # now /\ Waiting(k)
      BY <1>3, <2>1, <3>4, ListenerRuns
    <3> QED BY <2>2, <3>1, <3>2, <3>3, <3>4
  <2> QED BY <1>3, <2>1, <2>3 DEF Finishing
<1>4. CASE phase = "preReady" /\ phase' = "preReady" /\ NotFoundListener
  <2>1. UNCHANGED routes /\ Errored' = Errored
    BY <1>4, SameErrored DEF NotFoundListener
  <2>2. ASSUME NEW k \in DOMAIN routes
        PROVE  Errored' \/ Waiting(k)' \/ RouteDone(k)'
    <3>1. Errored \/ Waiting(k) \/ RouteDone(k)
      BY <1>4 DEF Finishing
    <3>2. CASE RouteDone(k)
      BY <1>4, <2>1, <3>2, DoneKept
    <3>3. CASE Waiting(k)
      <4>1. ~RouteListener
        BY <1>4, ListenerThere DEF RouteListener, NotFoundListener
      <4> QED BY <1>4, <2>1, <3>3, <4>1, ListenerRuns
    <3> QED BY <2>1, <3>1, <3>2, <3>3
  <2> QED BY <1>4, <2>1, <2>2 DEF Finishing
<1>5. CASE /\ phase = "preReady" /\ listeners = <<>> /\ phase' = IF Errored THEN "failed" ELSE "started"
           /\ UNCHANGED <<bootErr, insts, routes, listeners, log>>
  <2>1. DOMAIN listeners = {}
    BY <1>5
  <2>2. \A k \in DOMAIN routes : Errored \/ RouteDone(k)
    BY <1>5, <2>1 DEF Finishing, Waiting
  <2> QED BY <1>5, <2>2, DoneKept DEF Finishing
<1>6. CASE UNCHANGED <<phase, bootErr, routes, listeners, log>> /\ (UNCHANGED insts \/ phase = "started")
  <2>1. ASSUME NEW k \in DOMAIN routes, RouteDone(k), phase # "loading"
        PROVE  RouteDone(k)'
    BY <1>6, <2>1, DoneKept
  <2> QED BY <1>6, <2>1, SameErrored DEF Finishing, Waiting
<1> QED BY <1>1, <1>2, <1>3, <1>4, <1>5, <1>6, NextPhase

-----------------------------------------------------------------------------
(* Settings: an instance has the one it set last, and a route is added     *)
(* after the body of its own plugin and of every plugin around it ended.   *)

SetIds(j, s, l) ==
  {l[n].id : n \in {m \in DOMAIN l : l[m].op = "set" /\ l[m].inst = j /\ l[m].arg = s}}
LastOf(v, ids) == IF ids = {} THEN v = 0 ELSE v \in ids /\ \A x \in ids : x <= v
SettingsOf(settings, j, l) ==
  DOMAIN settings = Settings /\ \A s \in Settings : LastOf(settings[s], SetIds(j, s, l))
AllSetInBody(chain, s, l) ==
  \A n \in DOMAIN l : l[n].op = "set" /\ l[n].arg = s /\ l[n].inst \in chain => l[n].at = "body"
Fresh ==
  Top.open /\ Top.at = "body" => \A k \in DOMAIN routes : Here \notin insts[routes[k].inst].chain
SettingsInv ==
  /\ \A n \in DOMAIN log : log[n].op = "set" => log[n].id \in 1..calls
  /\ \A j \in DOMAIN insts : SettingsOf(insts[j].settings, j, log)
  /\ \A k \in DOMAIN routes, s \in Settings :
       AllSetInBody(insts[routes[k].inst].chain, s, log) =>
         routes[k].settings[s] = SettingOf(insts, routes[k].inst, s)

(* Only RunRoute adds a route, and a route keeps what it was added with.   *)
LEMMA RoutesKept ==
  ASSUME Shape, [Next]_vars, ~RunRoute
  PROVE  /\ DOMAIN routes' = DOMAIN routes
         /\ \A k \in DOMAIN routes :
              /\ routes'[k].inst = routes[k].inst /\ routes'[k].id = routes[k].id
              /\ routes'[k].settings = routes[k].settings
<1>1. CASE routes' = routes
  BY <1>1
<1>2. CASE RouteListener
  BY <1>2, ListenerRoutes DEF Finished
<1> QED BY <1>1, <1>2, NextPhase DEF RunSetNotFound, NotFoundListener

(* The innermost frame after a step.                                       *)
LEMMA NextTop ==
  ASSUME Shape, [Next]_vars
  PROVE  LET f == Head(frames')
         IN \/ ~f.open
            \/ f.at = "later"
            \/ f.inst = Here /\ f.at = Top.at /\ f.open = Top.open /\ ~RunRoute
            \/ LoadPlugin /\ f.inst \notin DOMAIN insts
<1>1. ASSUME NEW c \in api.uses, Call(c)
      PROVE  \/ ~Head(frames').open
             \/ Head(frames').inst = Here /\ Head(frames').at = Top.at /\ Head(frames').open = Top.open
  <2>1. CASE Throws(c)
    BY <2>1, FramesLeave DEF Throws, Shape, Top, Here
  <2>2. CASE frames' = frames
    BY <2>2 DEF Top, Here
  <2>3. ASSUME NEW job, Enqueue(job)
        PROVE  Head(frames').inst = Here /\ Head(frames').at = Top.at /\ Head(frames').open = Top.open
    <3> DEFINE f == [Top EXCEPT !.jobs = Append(Top.jobs, job)]
    <3>1. frames' = <<f>> \o Tail(frames)
      BY <2>3 DEF Enqueue
    <3>2. f.inst = Here /\ f.at = Top.at /\ f.open = Top.open
      BY DEF Here
    <3> HIDE DEF f
    <3>3. Head(frames') = f
      <4>1. Listed(frames) /\ frames # <<>>
        BY DEF Shape, FramesOn
      <4> QED BY <3>1, <4>1, ListReplace
    <3> QED BY <3>2, <3>3
  <2> QED BY <1>1, <2>1, <2>2, <2>3
       DEF Call, BodyThrows, CallRegister, CallAfter, CallAddHook, CallRoute, CallDecorate,
           CallAddContentTypeParser, CallAddSchema, CallSetCompiler, CallSet, CallSetNotFoundHandler,
           PutsOff, Sets
<1>2. ASSUME NEW c \in api.uses, Call(c)
      PROVE  Top.open
  BY <1>2 DEF Call, Calling, BodyThrows, CallRegister, CallAfter, CallAddHook, CallRoute,
         CallDecorate, CallAddContentTypeParser, CallAddSchema, CallSetCompiler, CallSet,
         CallSetNotFoundHandler
<1>3. CASE BodyEnds
  <2> DEFINE f == [Top EXCEPT !.open = FALSE]
  <2>1. frames' = <<f>> \o Tail(frames) /\ ~f.open
    BY <1>3 DEF BodyEnds
  <2> HIDE DEF f
  <2>2. Listed(frames) /\ frames # <<>>
    BY DEF Shape, FramesOn
  <2> QED BY <2>1, <2>2, ListReplace
<1>4. CASE SkipPlugin \/ RunAddHook \/ RunSetNotFound
  BY <1>4, JobThere DEF SkipPlugin, RunAddHook, RunSetNotFound, Running
<1>5. ASSUME NEW i, NEW at, frames' = <<Frame(i, at)>> \o Dropped, Top.jobs # <<>>, ~Top.open
      PROVE  Head(frames').inst = i /\ Head(frames').at = at
  <2> DEFINE f == Frame(i, at)
  <2>1. f.inst = i /\ f.at = at
    BY DEF Frame
  <2> HIDE DEF f
  <2>2. Listed(Dropped)
    BY <1>5, JobThere DEF FramesOn
  <2>3. Pushed(Dropped, f, <<f>> \o Dropped)
    BY <2>2, ListPush
  <2>4. frames' = <<f>> \o Dropped
    BY <1>5 DEF f
  <2> QED BY <2>1, <2>3, <2>4 DEF Pushed
<1>6. CASE LoadPlugin
  <2>1. Top.jobs # <<>> /\ ~Top.open
    BY <1>6 DEF LoadPlugin, Running
  <2>2. CASE frames' = Dropped
    BY <2>1, <2>2, JobThere
  <2>3. CASE frames' = <<Frame(Current.inst, "later")>> \o Dropped
    BY <1>5, <2>1, <2>3
  <2>4. CASE frames' = <<Frame(Len(insts) + 1, "body")>> \o Dropped
    <3>1. Head(frames').inst = Len(insts) + 1
      BY <1>5, <2>1, <2>4
    <3>2. Len(insts) + 1 \notin DOMAIN insts
      BY ListedIs DEF Shape, Tree
    <3> QED BY <1>6, <3>1, <3>2
  <2> QED BY <1>6, <2>2, <2>3, <2>4 DEF LoadPlugin
<1>7. CASE RunAfter
  <2>1. Top.jobs # <<>> /\ ~Top.open /\ frames' = <<Frame(Current.inst, "later")>> \o Dropped
    BY <1>7 DEF RunAfter, Running
  <2> QED BY <1>5, <2>1
<1>8. CASE RunRoute
  <2> DEFINE st == AddRoute(insts, Current, routes, listeners)
  <2>1. Top.jobs # <<>> /\ ~Top.open /\ frames' = Within(st.jobs) /\ Current.call.op = "route"
    BY <1>8 DEF RunRoute, Running
  <2>2. JobOn(insts, calls, Current)
    BY <2>1, JobThere
  <2>3. Listed(st.jobs) /\ \A j \in Elements(st.jobs) : AskedBy(Current, j)
    BY RoutesAdded DEF Added, Shape, Registry
  <2> HIDE DEF st
  <2>4. \A j \in Elements(st.jobs) : JobOn(insts, calls, j)
    BY <2>1, <2>2, <2>3 DEF AskedBy, JobOn
  <2> QED BY <2>1, <2>3, <2>4, JobThere
<1>9. CASE Loaded
  BY <1>9, FramesLeave DEF Loaded, Shape, Top, Here, RunRoute, Running
<1>10. CASE RouteListener \/ NotFoundListener \/ Start
  BY <1>10 DEF RouteListener, NotFoundListener, Start, RunRoute, Running, Top, Here
<1>11. CASE Serve
  BY <1>11 DEF Serve, Request, Ready, bootVars, RunRoute, Running, Top, Here
<1>12. CASE UNCHANGED vars /\ ~RunRoute
  BY <1>12 DEF vars, bootVars, Top, Here
<1> QED BY <1>1, <1>2, <1>3, <1>4, <1>6, <1>7, <1>8, <1>9, <1>10, <1>11, <1>12 DEF Next, Boot, RunRoute, Running

LEMMA NextFresh ==
  ASSUME Shape, Fresh, [Next]_vars
  PROVE  Fresh'
<1>1. InstsKept
  BY NextInsts DEF Shape
<1>2. SUFFICES ASSUME Head(frames').open, Head(frames').at = "body", NEW k \in DOMAIN routes'
               PROVE  Head(frames').inst \notin insts'[routes'[k].inst].chain
  BY DEF Fresh, Top, Here
<1>3. \/ Head(frames').inst = Here /\ Top.at = "body" /\ Top.open /\ ~RunRoute
      \/ LoadPlugin /\ Head(frames').inst \notin DOMAIN insts
  BY <1>2, NextTop
<1>4. ~RunRoute
  BY <1>3 DEF LoadPlugin, RunRoute, Running
<1>5. /\ k \in DOMAIN routes /\ routes'[k].inst = routes[k].inst
      /\ routes[k].inst \in DOMAIN insts
      /\ insts'[routes[k].inst].chain = insts[routes[k].inst].chain
  BY <1>1, <1>4, RoutesKept DEF InstsKept, SameBut, Shape, Registry
<1>6. insts[routes[k].inst].chain \subseteq DOMAIN insts
  <2>1. DOMAIN insts = 1..Len(insts) /\ Len(insts) \in Nat
    BY ListedIs DEF Shape, Tree
  <2> QED BY <1>5, <2>1 DEF Shape, Tree
<1> QED BY <1>3, <1>5, <1>6 DEF Fresh

(* The nearest setting is read of the instances on the chain only.         *)
LEMMA SettingSame ==
  ASSUME Tree, NEW i \in DOMAIN insts, NEW s, NEW is, DOMAIN insts \subseteq DOMAIN is,
         is[i].chain = insts[i].chain,
         \A j \in insts[i].chain : is[j].settings[s] = insts[j].settings[s]
  PROVE  SettingOf(is, i, s) = SettingOf(insts, i, s)
<1> DEFINE having == {k \in DOMAIN insts : insts[k].settings[s] # 0}
           having2 == {k \in DOMAIN is : is[k].settings[s] # 0}
           T == insts[i].chain \cap having
           j == Nearest(insts, i, having)
<1>1. insts[i].chain \subseteq DOMAIN insts
  <2>1. DOMAIN insts = 1..Len(insts) /\ Len(insts) \in Nat
    BY ListedIs DEF Tree
  <2> QED BY <2>1 DEF Tree
<1>2. insts[i].chain \cap having = is[i].chain \cap having2
  BY <1>1
<1>3. Nearest(is, i, having2) = j
  BY <1>2 DEF Nearest
<1>4. j = 0 \/ j \in insts[i].chain
  <2>1. having \subseteq DOMAIN insts
    OBVIOUS
  <2> HIDE DEF having
  <2>2. (T = {} => j = 0) /\ (T # {} => j \in T)
    BY <2>1, NearestOf
  <2> QED BY <2>2
<1> HIDE DEF j
<1> QED BY <1>3, <1>4 DEF SettingOf, j

(* What is logged of a setting, by a step that sets none and by one that   *)
(* does.                                                                   *)
LEMMA SetIdsLeft ==
  ASSUME NEW l, NEW l2, DOMAIN l \subseteq DOMAIN l2, \A n \in DOMAIN l : l2[n] = l[n],
         NEW j, NEW s,
         \A n \in DOMAIN l2 : n \in DOMAIN l \/ ~(l2[n].op = "set" /\ l2[n].inst = j /\ l2[n].arg = s)
  PROVE  SetIds(j, s, l2) = SetIds(j, s, l)
<1>1. {m \in DOMAIN l2 : l2[m].op = "set" /\ l2[m].inst = j /\ l2[m].arg = s}
        = {m \in DOMAIN l : l[m].op = "set" /\ l[m].inst = j /\ l[m].arg = s}
  OBVIOUS
<1> QED BY <1>1 DEF SetIds

LEMMA SetIdsGrow ==
  ASSUME NEW l, Listed(l), NEW e, e.op = "set"
  PROVE  SetIds(e.inst, e.arg, Append(l, e)) = SetIds(e.inst, e.arg, l) \cup {e.id}
<1> DEFINE l2 == Append(l, e)
           len == Len(l)
           Is(x) == x.op = "set" /\ x.inst = e.inst /\ x.arg = e.arg
<1>1. /\ l2[len + 1] = e /\ \A n \in DOMAIN l : l2[n] = l[n]
      /\ DOMAIN l2 = DOMAIN l \cup {len + 1} /\ len + 1 \notin DOMAIN l
  BY ListAppend
<1> HIDE DEF l2, len
<1>2. {m \in DOMAIN l2 : Is(l2[m])} = {m \in DOMAIN l : Is(l[m])} \cup {len + 1}
  BY <1>1
<1>3. SetIds(e.inst, e.arg, l2) = {l2[n].id : n \in {m \in DOMAIN l : Is(l[m])} \cup {len + 1}}
  BY <1>2 DEF SetIds
<1> QED BY <1>1, <1>3 DEF SetIds, l2

LEMMA SetKeeps ==
  ASSUME Shape, Fresh, SettingsInv, NEW c \in api.uses, CallSet(c), [Next]_vars
  PROVE  SettingsInv'
<1> DEFINE settings == [insts[Here].settings EXCEPT ![c.setting] = Me]
           w == [insts[Here] EXCEPT !.settings = settings]
           e == [op |-> "set", inst |-> Here, arg |-> c.setting, id |-> Me, at |-> Top.at]
<1>1. /\ insts' = [insts EXCEPT ![Here] = w] /\ log' = Append(log, e) /\ Top.open
      /\ Here \in DOMAIN insts /\ calls \in Nat /\ calls' = calls + 1 /\ Me = calls + 1
  BY TopThere DEF CallSet, Calling, Sets, Done, Log, Me, Shape
<1>2. e.op = "set" /\ e.inst = Here /\ e.arg = c.setting /\ e.id = Me /\ e.at = Top.at
  OBVIOUS
<1>3. w.settings = settings /\ w.chain = insts[Here].chain
  OBVIOUS
<1> HIDE DEF e, w
<1>4. DOMAIN insts' = DOMAIN insts /\ \A j \in DOMAIN insts : insts'[j] = IF j = Here THEN w ELSE insts[j]
  BY <1>1
<1>5. /\ DOMAIN log \subseteq DOMAIN log' /\ \A n \in DOMAIN log : log'[n] = log[n]
      /\ \A n \in DOMAIN log' : n \in DOMAIN log \/ log'[n] = e
      /\ \E n \in DOMAIN log' : log'[n] = e
  BY <1>1, ListAppend DEF Shape, Entries
<1>6. ASSUME NEW n \in DOMAIN log', log'[n].op = "set"
      PROVE  log'[n].id \in 1..calls'
  BY <1>1, <1>2, <1>5, <1>6 DEF SettingsInv
<1>7. ASSUME NEW j \in DOMAIN insts'
      PROVE  SettingsOf(insts'[j].settings, j, log')
  <2>1. SettingsOf(insts[j].settings, j, log)
    BY <1>4 DEF SettingsInv
  <2>2. ASSUME NEW s \in Settings, j # Here \/ s # c.setting
        PROVE  insts'[j].settings[s] = insts[j].settings[s] /\ SetIds(j, s, log') = SetIds(j, s, log)
    <3>1. SetIds(j, s, log') = SetIds(j, s, log)
      BY <1>2, <1>5, <2>2, SetIdsLeft
    <3>2. insts'[j].settings[s] = insts[j].settings[s]
      BY <1>3, <1>4, <2>1, <2>2 DEF SettingsOf
    <3> QED BY <3>1, <3>2
  <2>3. CASE j # Here
    <3>1. insts'[j].settings = insts[j].settings
      BY <1>4, <2>3
    <3> QED BY <2>1, <2>2, <2>3, <3>1 DEF SettingsOf
  <2>4. CASE j = Here
    <3>1. insts'[j].settings = settings
      BY <1>3, <1>4, <2>4
    <3>2. DOMAIN settings = Settings
      BY <2>1, <2>4 DEF SettingsOf
    <3>3. ASSUME NEW s \in Settings, s = c.setting
          PROVE  LastOf(settings[s], SetIds(j, s, log'))
      <4>1. settings[s] = Me
        BY <2>1, <2>4, <3>3 DEF SettingsOf
      <4>2. SetIds(j, s, log') = SetIds(j, s, log) \cup {Me}
        BY <1>1, <1>2, <2>4, <3>3, SetIdsGrow DEF Shape, Entries
      <4>3. \A x \in SetIds(j, s, log) : x \in 1..calls
        BY DEF SetIds, SettingsInv
      <4>4. \A x \in SetIds(j, s, log') : x <= Me
        BY <1>1, <4>2, <4>3
      <4> QED BY <4>1, <4>2, <4>4 DEF LastOf
    <3> QED BY <2>1, <2>2, <3>1, <3>2, <3>3 DEF SettingsOf
  <2> QED BY <2>3, <2>4
<1>8. ASSUME NEW k \in DOMAIN routes', NEW s \in Settings,
             AllSetInBody(insts'[routes'[k].inst].chain, s, log')
      PROVE  routes'[k].settings[s] = SettingOf(insts', routes'[k].inst, s)
  <2>1. ~RunRoute
    BY <1>1 DEF RunRoute, Running
  <2> DEFINE i == routes[k].inst
  <2>2. /\ k \in DOMAIN routes /\ routes'[k].inst = i /\ routes'[k].settings = routes[k].settings
        /\ i \in DOMAIN insts
    BY <2>1, RoutesKept DEF Shape, Registry
  <2>3. insts'[i].chain = insts[i].chain
    BY <1>3, <1>4, <2>2
  <2>4. AllSetInBody(insts[i].chain, s, log)
    BY <1>5, <1>8, <2>2, <2>3 DEF AllSetInBody
  <2>5. Here \notin insts[i].chain \/ s # c.setting
    <3>1. Here \in insts[i].chain /\ s = c.setting => Top.at = "body"
      BY <1>2, <1>5, <1>8, <2>2, <2>3 DEF AllSetInBody
    <3>2. Top.at = "body" => Here \notin insts[i].chain
      BY <1>1, <2>2 DEF Fresh
    <3> QED BY <3>1, <3>2
  <2>6. ASSUME NEW j \in insts[i].chain
        PROVE  insts'[j].settings[s] = insts[j].settings[s]
    <3>1. j \in DOMAIN insts
      <4>1. DOMAIN insts = 1..Len(insts) /\ Len(insts) \in Nat
        BY ListedIs DEF Shape, Tree
      <4> QED BY <2>2, <4>1 DEF Shape, Tree
    <3>2. DOMAIN insts[j].settings = Settings
      BY <3>1 DEF SettingsInv, SettingsOf
    <3>3. CASE j = Here
      BY <1>3, <1>4, <2>5, <3>1, <3>2, <3>3
    <3>4. CASE j # Here
      BY <1>4, <3>1, <3>4
    <3> QED BY <3>3, <3>4
  <2>7. SettingOf(insts', i, s) = SettingOf(insts, i, s)
    BY <1>4, <2>2, <2>3, <2>6, SettingSame DEF Shape
  <2> QED BY <2>2, <2>4, <2>7 DEF SettingsInv
<1> QED BY <1>6, <1>7, <1>8 DEF SettingsInv

LEMMA SettingsStay ==
  ASSUME Shape, SettingsInv, [Next]_vars, ~SetStep
  PROVE  SettingsInv'
<1>1. InstsKept /\ calls \in Nat /\ calls' \in Nat /\ calls <= calls'
  BY NextInsts, CallsGrow DEF Shape
<1>2. /\ DOMAIN log \subseteq DOMAIN log' /\ \A n \in DOMAIN log : log'[n] = log[n]
      /\ \A n \in DOMAIN log' : n \in DOMAIN log \/ log'[n].op # "set"
  BY LogGrowsByOne DEF Entry
<1>3. \A j, s : SetIds(j, s, log') = SetIds(j, s, log)
  BY <1>2, SetIdsLeft
<1>4. ASSUME NEW n \in DOMAIN log', log'[n].op = "set"
      PROVE  log'[n].id \in 1..calls'
  BY <1>1, <1>2, <1>4 DEF SettingsInv
<1>5. ASSUME NEW j \in DOMAIN insts
      PROVE  /\ insts'[j].chain = insts[j].chain /\ insts'[j].settings = insts[j].settings
             /\ SettingsOf(insts'[j].settings, j, log')
  BY <1>1, <1>3 DEF InstsKept, SameBut, SettingsInv, SettingsOf
<1>6. ASSUME NEW j \in DOMAIN insts'
      PROVE  SettingsOf(insts'[j].settings, j, log')
  <2>1. CASE j \in DOMAIN insts
    BY <1>5, <2>1
  <2>2. CASE j \notin DOMAIN insts
    <3>1. LoadPlugin /\ j = Len(insts) + 1 /\ insts'[j].settings = [s \in Settings |-> 0]
      BY <1>1, <2>2, Born DEF InstsKept
    <3>2. \A n \in DOMAIN log : log[n].inst # j
      BY <2>2 DEF Shape, Entries
    <3>3. \A s : SetIds(j, s, log) = {}
      BY <3>2 DEF SetIds
    <3> QED BY <1>3, <3>1, <3>3 DEF SettingsOf, LastOf
  <2> QED BY <2>1, <2>2
<1>7. ASSUME NEW i \in DOMAIN insts, NEW s
      PROVE  SettingOf(insts', i, s) = SettingOf(insts, i, s)
  <2>1. insts[i].chain \subseteq DOMAIN insts
    <3>1. DOMAIN insts = 1..Len(insts) /\ Len(insts) \in Nat
      BY ListedIs DEF Shape, Tree
    <3> QED BY <3>1 DEF Shape, Tree
  <2>2. \A j \in insts[i].chain : insts'[j].settings[s] = insts[j].settings[s]
    BY <1>5, <2>1
  <2> QED BY <1>1, <1>5, <2>2, SettingSame DEF Shape, InstsKept
<1>8. ASSUME NEW k \in DOMAIN routes', NEW s \in Settings,
             AllSetInBody(insts'[routes'[k].inst].chain, s, log')
      PROVE  routes'[k].settings[s] = SettingOf(insts', routes'[k].inst, s)
  <2>1. ASSUME k \in DOMAIN routes, routes'[k].inst = routes[k].inst, routes'[k].settings = routes[k].settings
        PROVE  routes'[k].settings[s] = SettingOf(insts', routes'[k].inst, s)
    <3>1. routes[k].inst \in DOMAIN insts /\ insts'[routes[k].inst].chain = insts[routes[k].inst].chain
      BY <1>5, <2>1 DEF Shape, Registry
    <3>2. AllSetInBody(insts[routes[k].inst].chain, s, log)
      BY <1>2, <1>8, <2>1, <3>1 DEF AllSetInBody
    <3> QED BY <1>7, <2>1, <3>1, <3>2 DEF SettingsInv
  <2>2. CASE ~RunRoute
    BY <2>1, <2>2, RoutesKept
  <2>3. CASE RunRoute
    <3> DEFINE st == AddRoute(insts, Current, routes, listeners)
    <3>1. routes' = st.routes /\ insts' = insts
      BY <2>3 DEF RunRoute
    <3>2. RoutesTo(insts, Current, routes, listeners, st.routes, st.listeners)
      BY RoutesAdded DEF Added, Shape, Registry
    <3> HIDE DEF st
    <3>3. CASE k \in DOMAIN routes
      BY <2>1, <3>1, <3>2, <3>3 DEF RoutesTo
    <3>4. CASE k \notin DOMAIN routes
      <4>1. NewContext(insts, Current, routes'[k])
        BY <3>1, <3>2, <3>4 DEF RoutesTo
      <4> QED BY <3>1, <4>1 DEF NewContext
    <3> QED BY <3>3, <3>4
  <2> QED BY <2>2, <2>3
<1> QED BY <1>4, <1>6, <1>8 DEF SettingsInv

LEMMA NextSettings ==
  ASSUME Shape, Fresh, SettingsInv, [Next]_vars
  PROVE  SettingsInv'
BY SetKeeps, SettingsStay DEF SetStep

LEMMA InitSettings == Init => Fresh /\ SettingsInv
<1> SUFFICES ASSUME Init PROVE Fresh /\ SettingsInv
  OBVIOUS
<1>1. /\ DOMAIN insts = {1} /\ insts[1] = Fastify /\ log = <<>> /\ DOMAIN <<>> = {} /\ routes = <<>>
  BY DEF Init
<1>2. Fastify.settings = [s \in Settings |-> 0]
  BY DEF Fastify
<1>3. \A j, s : SetIds(j, s, <<>>) = {}
  BY <1>1 DEF SetIds
<1>4. SettingsOf(Fastify.settings, 1, <<>>)
  BY <1>2, <1>3 DEF SettingsOf, LastOf
<1> QED BY <1>1, <1>4 DEF Fresh, SettingsInv

(* What a route has, when all that matters was set in a body.              *)
LEMMA SettingCovers ==
  ASSUME Shape, SettingsInv, NEW k \in DOMAIN routes, NEW s \in Settings,
         NEW set, set = Took(LAMBDA e : e.op = "set" /\ e.arg = s /\ OnChain(e, routes[k].inst)),
         \A e \in set : e.at = "body"
  PROVE  routes[k].settings[s] =
           Max({0} \cup {e.id : e \in {x \in set : \A d \in set : d.inst <= x.inst}})
<1> DEFINE i == routes[k].inst
           having == {j \in DOMAIN insts : insts[j].settings[s] # 0}
           T == insts[i].chain \cap having
           near == {x \in set : \A d \in set : d.inst <= x.inst}
           ids == {e.id : e \in near}
<1>1. i \in DOMAIN insts /\ insts[i].chain \subseteq DOMAIN insts /\ DOMAIN insts \subseteq Nat
  <2>1. DOMAIN insts = 1..Len(insts) /\ Len(insts) \in Nat
    BY ListedIs DEF Shape, Tree
  <2> QED BY <2>1 DEF Shape, Tree, Registry
<1>2. \A e : e \in set <=> \E n \in DOMAIN log : /\ e = log[n] /\ log[n].op = "set" /\ log[n].arg = s
                                               /\ log[n].inst \in insts[i].chain
  BY DEF Took, OnChain
<1>3. AllSetInBody(insts[i].chain, s, log)
  BY <1>2 DEF AllSetInBody
<1>4. routes[k].settings[s] = SettingOf(insts, i, s)
  BY <1>3 DEF SettingsInv
<1>5. ASSUME NEW j \in insts[i].chain
      PROVE  /\ LastOf(insts[j].settings[s], SetIds(j, s, log))
             /\ \A x : x \in SetIds(j, s, log) <=> \E e \in set : e.inst = j /\ e.id = x
             /\ \A x \in SetIds(j, s, log) : x \in Nat /\ x # 0
             /\ j \in having <=> \E e \in set : e.inst = j
  <2>1. LastOf(insts[j].settings[s], SetIds(j, s, log))
    BY <1>1 DEF SettingsInv, SettingsOf
  <2>2. \A x : x \in SetIds(j, s, log) <=> \E e \in set : e.inst = j /\ e.id = x
    <3>1. \A x : x \in SetIds(j, s, log) <=>
            \E n \in DOMAIN log : log[n].op = "set" /\ log[n].inst = j /\ log[n].arg = s /\ log[n].id = x
      BY DEF SetIds
    <3>2. \A x : (\E e \in set : e.inst = j /\ e.id = x) <=>
            \E n \in DOMAIN log : log[n].op = "set" /\ log[n].inst = j /\ log[n].arg = s /\ log[n].id = x
      <4>1. ASSUME NEW x, NEW e \in set, e.inst = j, e.id = x
            PROVE  \E n \in DOMAIN log : log[n].op = "set" /\ log[n].inst = j /\ log[n].arg = s /\ log[n].id = x
        <5>1. PICK n \in DOMAIN log : e = log[n] /\ log[n].op = "set" /\ log[n].arg = s
          BY <1>2
        <5> QED BY <4>1, <5>1
      <4>2. ASSUME NEW x, NEW n \in DOMAIN log,
                   log[n].op = "set" /\ log[n].inst = j /\ log[n].arg = s /\ log[n].id = x
            PROVE  \E e \in set : e.inst = j /\ e.id = x
        <5>1. log[n] \in set
          BY <1>2, <4>2
        <5> QED BY <4>2, <5>1
      <4> QED BY <4>1, <4>2
    <3> QED BY <3>1, <3>2
  <2>3. \A x \in SetIds(j, s, log) : x \in Nat /\ x # 0
    <3>1. \A x \in SetIds(j, s, log) : x \in 1..calls
      BY DEF SetIds, SettingsInv
    <3> QED BY <3>1 DEF Shape
  <2>4. j \in having <=> SetIds(j, s, log) # {}
    BY <1>1, <2>1, <2>3 DEF LastOf
  <2> QED BY <2>1, <2>2, <2>3, <2>4
<1>6. \A e \in set : e.inst \in insts[i].chain
  BY <1>2
<1>7. SettingOf(insts, i, s) = IF T = {} THEN 0 ELSE insts[Nearest(insts, i, having)].settings[s]
  <2>1. having \subseteq DOMAIN insts
    OBVIOUS
  <2> HIDE DEF having
  <2>2. (T = {} => Nearest(insts, i, having) = 0) /\ (T # {} => Nearest(insts, i, having) # 0)
    BY <1>1, <2>1, NearestOf DEF Shape
  <2> QED BY <2>2 DEF SettingOf, having
<1>8. CASE T = {}
  <2>1. set = {}
    BY <1>5, <1>6, <1>8
  <2>2. {0} \cup ids = {0}
    BY <2>1
  <2>3. Max({0}) = 0
    BY MaxIs
  <2> QED BY <1>4, <1>7, <1>8, <2>2, <2>3
<1>9. CASE T # {}
  <2> DEFINE j == Nearest(insts, i, having)
  <2>1. j \in T /\ \A x \in T : x <= j
    <3>1. having \subseteq DOMAIN insts
      OBVIOUS
    <3> HIDE DEF having
    <3> QED BY <1>1, <1>9, <3>1, NearestOf DEF Shape
  <2> HIDE DEF j
  <2>2. j \in insts[i].chain /\ j \in having
    BY <2>1
  <2>3. \A e \in set : e.inst \in T /\ e.inst <= j
    BY <1>5, <1>6, <2>1
  <2>4. PICK e0 \in set : e0.inst = j
    BY <1>5, <2>2
  <2>5. \A e \in set : e.inst \in Nat
    BY <1>1, <1>6
  <2>6. \A e : e \in near <=> e \in set /\ e.inst = j
    <3> HIDE DEF T, having
    <3>1. j \in Nat
      BY <1>1, <2>2
    <3>2. ASSUME NEW e \in set, \A d \in set : d.inst <= e.inst
          PROVE  e.inst = j
      <4>1. j <= e.inst /\ e.inst <= j /\ e.inst \in Nat
        BY <2>3, <2>4, <2>5, <3>2
      <4> QED BY <3>1, <4>1
    <3>3. ASSUME NEW e \in set, e.inst = j
          PROVE  \A d \in set : d.inst <= e.inst
      BY <2>3, <3>3
    <3> QED BY <3>2, <3>3
  <2>7. ids = SetIds(j, s, log)
    <3> HIDE DEF near
    <3>1. \A x : x \in ids <=> \E e \in set : e.inst = j /\ e.id = x
      BY <2>6
    <3> HIDE DEF ids
    <3>2. \A x : x \in SetIds(j, s, log) <=> \E e \in set : e.inst = j /\ e.id = x
      BY <1>5, <2>2
    <3>3. \A x : x \in SetIds(j, s, log) <=> x \in ids
      BY <3>1, <3>2
    <3> QED BY <3>3
  <2> DEFINE v == insts[j].settings[s]
  <2>8. ids # {} /\ v \in ids /\ (\A x \in ids : x <= v /\ x \in Nat)
    <3>2. v # 0
      BY <2>2
    <3> HIDE DEF ids, v
    <3>1. LastOf(v, ids) /\ (\A x \in ids : x \in Nat /\ x # 0) /\ v # 0
      BY <1>5, <2>2, <2>7, <3>2 DEF v
    <3> QED BY <3>1 DEF LastOf
  <2> HIDE DEF v, ids
  <2>9. Max({0} \cup ids) = v
    <3>1. {0} \cup ids \subseteq Int /\ v \in {0} \cup ids /\ \A y \in {0} \cup ids : y <= v
      BY <2>8
    <3> QED BY <3>1, MaxIs
  <2> QED BY <1>4, <1>7, <1>9, <2>9 DEF ids, v, j
<1> QED BY <1>8, <1>9

-----------------------------------------------------------------------------
(* Plugins: but for an error, each name that is registered has its load.   *)

IsLoad(e, d, i) == e.op = "load" /\ e.arg.name = d /\ e.inst = i
Untaken == \A n \in DOMAIN log : log[n].op # "taken"
NamesInv ==
  /\ Errored \/ ~Untaken \/ \A j \in DOMAIN insts : \A d \in insts[j].plugins :
       \E m \in DOMAIN log : IsLoad(log[m], d, j)
  /\ Untaken => \A n \in DOMAIN log : log[n].op = "load" =>
       \A d \in log[n].arg.dependencies \ {log[n].arg.name} :
         \E m \in 1..(n - 1) : \E j \in insts[log[n].inst].chain : IsLoad(log[m], d, j)

LEMMA CleanIs == Clean <=> Untaken
BY DEF Clean, Took, Untaken

LEMMA ErrorStays ==
  ASSUME [Next]_vars, Errored, ~RunAfter
  PROVE  Errored'
<1>1. ASSUME NEW c \in api.uses, Call(c)
      PROVE  Errored'
  <2>1. Throws(c) => UNCHANGED bootErr \/ bootErr' = {Me}
    BY DEF Throws
  <2> QED BY <1>1, <2>1, CallCases DEF Errored
<1>2. CASE RunRoute
  <2>1. bootErr' = {Current.id} \/ bootErr' = bootErr
    BY <1>2 DEF RunRoute
  <2> QED BY <2>1 DEF Errored
<1>3. CASE RouteListener
  BY <1>3, ListenerErrs
<1>4. CASE BodyEnds \/ SkipPlugin \/ LoadPlugin \/ RunAddHook \/ RunSetNotFound \/ Loaded
           \/ NotFoundListener \/ Start
  BY <1>4 DEF BodyEnds, SkipPlugin, LoadPlugin, RunAddHook, RunSetNotFound, Loaded, NotFoundListener, Start, Errored
<1>5. CASE Serve \/ UNCHANGED vars
  BY <1>5, ServeBoot DEF vars, bootVars, Errored
<1> QED BY <1>1, <1>2, <1>3, <1>4, <1>5 DEF Next, Boot

(* What was found of the loads before a step is found after it.            *)
LEMMA NamesKept ==
  ASSUME Shape, NamesInv, [Next]_vars, Untaken'
  PROVE  /\ Untaken
         /\ \A d, j : (\E m \in DOMAIN log : IsLoad(log[m], d, j)) =>
                      \E m \in DOMAIN log' : IsLoad(log'[m], d, j)
         /\ \A n \in DOMAIN log : log'[n].op = "load" =>
              \A d \in log'[n].arg.dependencies \ {log'[n].arg.name} :
                \E m \in 1..(n - 1) : \E j \in insts'[log'[n].inst].chain : IsLoad(log'[m], d, j)
<1>1. /\ DOMAIN log = 1..Len(log) /\ Len(log) \in Nat /\ DOMAIN log \subseteq DOMAIN log'
      /\ \A n \in DOMAIN log : log'[n] = log[n]
  BY LogGrowsByOne
<1>2. Untaken
  BY <1>1 DEF Untaken
<1>3. ASSUME NEW n \in DOMAIN log, log'[n].op = "load",
             NEW d \in log'[n].arg.dependencies \ {log'[n].arg.name}
      PROVE  \E m \in 1..(n - 1) : \E j \in insts'[log'[n].inst].chain : IsLoad(log'[m], d, j)
  <2>1. PICK m \in 1..(n - 1) : \E j \in insts[log[n].inst].chain : IsLoad(log[m], d, j)
    BY <1>1, <1>2, <1>3 DEF NamesInv
  <2>2. log'[m] = log[m] /\ log'[n] = log[n]
    BY <1>1
  <2>3. insts'[log[n].inst].chain = insts[log[n].inst].chain
    BY NextInsts DEF InstsKept, SameBut, Shape, Entries
  <2> QED BY <2>1, <2>2, <2>3
<1> QED BY <1>1, <1>2, <1>3

LEMMA LoadNames ==
  ASSUME Shape, NamesInv, LoadPlugin, [Next]_vars
  PROVE  NamesInv'
<1> DEFINE plugin == Current.call.plugin
           named == RegisterPluginName(insts, Current.inst, plugin)
           i == Current.inst
<1>1. /\ InstsKept /\ DOMAIN named = DOMAIN insts
      /\ \A j \in DOMAIN insts : /\ named[j].chain = insts[j].chain
                                 /\ named[j].plugins = insts[j].plugins \cup
                                      IF j = i /\ plugin.name # "" THEN {plugin.name} ELSE {}
      /\ NewInstance(named, insts')
  BY LoadInsts DEF Shape, SameBut
<1>2. i \in DOMAIN insts /\ insts[i].chain \subseteq DOMAIN insts
  <2>1. DOMAIN insts = 1..Len(insts) /\ Len(insts) \in Nat
    BY ListedIs DEF Shape, Tree
  <2> QED BY <2>1, JobThere DEF LoadPlugin, Running, Shape, Tree
<1>3. /\ DOMAIN log = 1..Len(log) /\ Len(log) \in Nat /\ DOMAIN log \subseteq DOMAIN log'
      /\ \A n \in DOMAIN log : log'[n] = log[n]
      /\ \A n \in DOMAIN log' : n \in DOMAIN log \/ n = Len(log) + 1
  BY LogGrowsByOne
<1>4. CASE Errored' /\ Log("error", i, "register", Current.id)
  <2> DEFINE e == [op |-> "error", inst |-> i, arg |-> "register", id |-> Current.id, at |-> Top.at]
  <2>1. log' = Append(log, e) /\ e.op = "error"
    BY <1>4 DEF Log
  <2> HIDE DEF e
  <2>2. \A n \in DOMAIN log' : n \in DOMAIN log \/ log'[n].op = "error"
    BY <2>1, ListAppend DEF Shape, Entries
  <2>3. ASSUME Untaken', NEW n \in DOMAIN log', log'[n].op = "load"
        PROVE  \A d \in log'[n].arg.dependencies \ {log'[n].arg.name} :
                 \E m \in 1..(n - 1) : \E j \in insts'[log'[n].inst].chain : IsLoad(log'[m], d, j)
    BY <2>2, <2>3, NamesKept
  <2> QED BY <1>4, <2>3 DEF NamesInv
<1>5. CASE PluginAccepted(named, i, plugin) /\ Log("load", i, plugin, Current.id)
  <2> DEFINE e == [op |-> "load", inst |-> i, arg |-> plugin, id |-> Current.id, at |-> Top.at]
             len == Len(log)
  <2>1. log' = Append(log, e) /\ e.op = "load" /\ e.inst = i /\ e.arg = plugin
    BY <1>5 DEF Log
  <2> HIDE DEF e
  <2>2. /\ log'[len + 1] = e /\ len + 1 \in DOMAIN log'
    BY <2>1, ListAppend DEF Shape, Entries
  <2>3. ~Errored
    BY DEF LoadPlugin
  <2> HIDE DEF named, len
  <2>4. ASSUME Untaken'
        PROVE  \A j \in DOMAIN insts : \A d \in insts[j].plugins :
                 \E m \in DOMAIN log : IsLoad(log[m], d, j)
    BY <2>3, <2>4, NamesKept DEF NamesInv
  <2>5. ASSUME Untaken', NEW j \in DOMAIN insts', NEW d \in insts'[j].plugins
        PROVE  \E m \in DOMAIN log' : IsLoad(log'[m], d, j)
    <3>1. CASE j \in DOMAIN insts /\ d \in insts[j].plugins
      BY <2>4, <2>5, <3>1, NamesKept
    <3>2. CASE j \in DOMAIN insts /\ d \notin insts[j].plugins
      <4>1. insts'[j] = named[j]
        BY <1>1, <3>2 DEF NewInstance
      <4>2. j = i /\ d = plugin.name
        BY <1>1, <2>5, <3>2, <4>1
      <4> QED BY <2>1, <2>2, <4>2 DEF IsLoad
    <3>3. CASE j \notin DOMAIN insts
      <4>1. j = Len(insts) + 1 /\ insts'[j].plugins = {}
        BY <1>1, <3>3, Born DEF InstsKept
      <4> QED BY <2>5, <4>1
    <3> QED BY <3>1, <3>2, <3>3
  <2>6. ASSUME Untaken', NEW d \in plugin.dependencies \ {plugin.name}
        PROVE  \E m \in 1..len : \E j \in insts'[i].chain : IsLoad(log'[m], d, j)
    <3>1. PICK j \in named[i].chain : d \in named[j].plugins
      BY <1>5, <2>6 DEF PluginAccepted, Registered
    <3>2. j \in insts[i].chain /\ j \in DOMAIN insts /\ d \in insts[j].plugins
      BY <1>1, <1>2, <2>6, <3>1
    <3>3. PICK m \in DOMAIN log : IsLoad(log[m], d, j)
      BY <2>4, <2>6, <3>2
    <3>4. insts'[i].chain = insts[i].chain
      BY <1>1, <1>2 DEF InstsKept, SameBut
    <3> QED BY <1>3, <3>2, <3>3, <3>4 DEF len
  <2>7. ASSUME Untaken', NEW n \in DOMAIN log', log'[n].op = "load"
        PROVE  \A d \in log'[n].arg.dependencies \ {log'[n].arg.name} :
                 \E m \in 1..(n - 1) : \E j \in insts'[log'[n].inst].chain : IsLoad(log'[m], d, j)
    <3>1. CASE n \in DOMAIN log
      BY <2>7, <3>1, NamesKept
    <3>2. CASE n = len + 1
      <4>1. log'[n].arg = plugin /\ log'[n].inst = i /\ n - 1 = len
        BY <1>3, <2>1, <2>2, <3>2 DEF len
      <4> QED BY <2>6, <2>7, <4>1
    <3> QED BY <1>3, <3>1, <3>2 DEF len
  <2> QED BY <2>5, <2>7 DEF NamesInv
<1>6. bootErr' = {Current.id} => Errored'
  BY DEF Errored
<1> QED BY <1>4, <1>5, <1>6 DEF LoadPlugin

LEMMA NextNames ==
  ASSUME Shape, NamesInv, [Next]_vars
  PROVE  NamesInv'
<1>1. CASE LoadPlugin
  BY <1>1, LoadNames
<1>2. CASE ~LoadPlugin
  <2>1. InstsKept /\ DOMAIN insts' = DOMAIN insts /\ \A j \in DOMAIN insts : insts'[j].plugins = insts[j].plugins
    BY <1>2, NextInsts DEF InstsKept, SameBut, Shape
  <2>2. \A n \in DOMAIN log' : n \in DOMAIN log \/ log'[n].op # "load"
    BY <1>2, LogGrowsByOne DEF Entry
  <2>3. ASSUME Untaken', ~Errored'
        PROVE  ~Errored
    <3>1. CASE RunAfter /\ Errored
      <4>1. PICK arg : Log("taken", Current.inst, arg, Current.id)
        BY <3>1 DEF RunAfter
      <4> DEFINE e == [op |-> "taken", inst |-> Current.inst, arg |-> arg, id |-> Current.id, at |-> Top.at]
      <4>2. log' = Append(log, e) /\ e.op = "taken"
        BY <4>1 DEF Log
      <4> HIDE DEF e
      <4>3. \E n \in DOMAIN log' : log'[n].op = "taken"
        BY <4>2, ListAppend DEF Shape, Entries
      <4> QED BY <2>3, <4>3 DEF Untaken
    <3> QED BY <2>3, <3>1, ErrorStays
  <2>4. ASSUME Untaken', ~Errored', NEW j \in DOMAIN insts', NEW d \in insts'[j].plugins
        PROVE  \E m \in DOMAIN log' : IsLoad(log'[m], d, j)
    <3>1. j \in DOMAIN insts /\ d \in insts[j].plugins
      BY <2>1, <2>4
    <3>2. \E m \in DOMAIN log : IsLoad(log[m], d, j)
      BY <2>3, <2>4, <3>1, NamesKept DEF NamesInv
    <3> QED BY <2>4, <3>2, NamesKept
  <2>5. ASSUME Untaken', NEW n \in DOMAIN log', log'[n].op = "load"
        PROVE  \A d \in log'[n].arg.dependencies \ {log'[n].arg.name} :
                 \E m \in 1..(n - 1) : \E j \in insts'[log'[n].inst].chain : IsLoad(log'[m], d, j)
    BY <2>2, <2>5, NamesKept
  <2> QED BY <2>4, <2>5 DEF NamesInv
<1> QED BY <1>1, <1>2

LEMMA InitNames == Init => NamesInv
<1> SUFFICES ASSUME Init PROVE NamesInv
  OBVIOUS
<1>1. DOMAIN insts = {1} /\ insts[1] = Fastify /\ DOMAIN log = {}
  BY DEF Init
<1>2. Fastify.plugins = {}
  BY DEF Fastify
<1> QED BY <1>1, <1>2 DEF NamesInv

-----------------------------------------------------------------------------
(* The inductive invariant, and what follows from it.                      *)

InheritIInv ==
  Shape /\ HooksInv /\ SchemasInv /\ Finishing /\ Fresh /\ SettingsInv /\ NamesInv

LEMMA InheritInductive == Spec => []InheritIInv
<1>1. Init => InheritIInv
  <2> SUFFICES ASSUME Init PROVE InheritIInv
    OBVIOUS
  <2>1. DOMAIN routes = {}
    BY DEF Init
  <2>2. Finishing
    BY <2>1 DEF Finishing
  <2> QED BY <2>2, InitShape, InitHooks, InitSchemas, InitSettings, InitNames DEF InheritIInv
<1>2. InheritIInv /\ [Next]_vars => InheritIInv'
  BY NextShape, NextHooks, NextSchemas, NextFinishing, NextFresh, NextSettings, NextNames DEF InheritIInv
<1> QED BY <1>1, <1>2, PTL DEF Spec

(* A route of a started server runs every hook that its instance or one    *)
(* around it was given, before or after the route was declared and before  *)
(* or after the instance was made, each once and in the order of the       *)
(* addHook calls as they took effect; then its own (fastify.js _addHook,   *)
(* lib/hooks.js buildHooks, the preReady listener of lib/route.js).        *)
THEOREM HooksReachEveryRoute == Spec => []HooksReachRoutes
<1>1. InheritIInv => HooksReachRoutes
  <2> SUFFICES ASSUME InheritIInv, Ready, NEW k \in DOMAIN routes, NEW h \in LifecycleHooks
               PROVE  /\ InTheOrderAdded(insts[routes[k].inst].hooks[h], routes[k].inst, h)
                      /\ routes[k].hooks[h] = insts[routes[k].inst].hooks[h] \o routes[k].own[h]
    BY DEF HooksReachRoutes
  <2>1. routes[k].inst \in DOMAIN insts /\ h \in HookNames
    BY DEF InheritIInv, Shape, Registry, HookNames
  <2>2. OrderedBy(insts[routes[k].inst].hooks[h], HooksLogged(insts[routes[k].inst].chain, log, h), log)
    BY <2>1 DEF InheritIInv, HooksInv, HooksOf
  <2>3. HooksLogged(insts[routes[k].inst].chain, log, h) = HooksAdded(routes[k].inst, h)
    BY DEF HooksLogged, HooksAdded, OnChain
  <2>4. HooksDone(k)
    BY DEF InheritIInv, Finishing, RouteDone, Ready
  <2> QED BY <2>2, <2>3, <2>4 DEF InTheOrderAdded, OrderedBy, HooksDone
<1> QED BY <1>1, InheritInductive, PTL

(* The compilers of the factory that a route of a started server has know  *)
(* every schema added to its instance or to one around it, and a route     *)
(* only ever failed to build for a schema that none of them was given      *)
(* (fastify.js addSchema, lib/schema-controller.js, lib/route.js).         *)
THEOREM SchemasReachEveryRoute == Spec => []SchemasReachRoutes
<1>1. InheritIInv => SchemasReachRoutes
  <2> SUFFICES ASSUME InheritIInv PROVE SchemasReachRoutes
    OBVIOUS
  <2>1. ASSUME Ready, NEW k \in DOMAIN routes, NEW part \in routes[k].parts
        PROVE  /\ routes[k].compiled[part] # NoCompiler
               /\ routes[k].compiled[part].by = "factory" =>
                    SchemasOf(routes[k].inst) \subseteq routes[k].compiled[part].knows
    <3>1. PartsDone(k)
      BY <2>1 DEF InheritIInv, Finishing, RouteDone, Ready
    <3> QED BY <3>1, SchemasOfIs DEF PartsDone
  <2>2. ASSUME NEW n \in DOMAIN log, log[n].op = "build"
        PROVE  log[n].arg \notin SchemasOf(log[n].inst)
    BY <2>2, SchemasOfIs DEF InheritIInv, SchemasInv
  <2>3. \A e \in Took(LAMBDA x : x.op = "build") : e.arg \notin SchemasOf(e.inst)
    BY <2>2 DEF Took
  <2> QED BY <2>1, <2>3 DEF SchemasReachRoutes
<1> QED BY <1>1, InheritInductive, PTL

(* A route is added only after the bodies of its plugin and of those       *)
(* around it have ended, so what they set there covers it, the nearest     *)
(* first and the last of an instance's own (the setters of fastify.js,     *)
(* lib/context.js).                                                        *)
THEOREM SettingsCoverTheBody == Spec => []SettingsCoverBody
<1>1. InheritIInv => SettingsCoverBody
  BY SettingCovers DEF InheritIInv, SettingsCoverBody
<1> QED BY <1>1, InheritInductive, PTL

(* When no error was taken, a plugin was loaded after those it depends on, *)
(* on its own instance or on one around it (lib/pluginUtils.js             *)
(* registerPluginName, checkDependencies).                                 *)
THEOREM RequirementsAreMet == Spec => []RequirementsMet
<1>1. InheritIInv => RequirementsMet
  <2> SUFFICES ASSUME InheritIInv, Clean, NEW n \in DOMAIN log, log[n].op = "load",
                      NEW d \in log[n].arg.dependencies \ {log[n].arg.name}
               PROVE  \E m \in 1..(n - 1) : /\ log[m].op = "load" /\ log[m].arg.name = d
                                            /\ OnChain(log[m], log[n].inst)
    BY DEF RequirementsMet
  <2>1. \E m \in 1..(n - 1) : \E j \in insts[log[n].inst].chain : IsLoad(log[m], d, j)
    BY CleanIs DEF InheritIInv, NamesInv
  <2> QED BY <2>1 DEF IsLoad, OnChain
<1> QED BY <1>1, InheritInductive, PTL

-----------------------------------------------------------------------------
(* 404 handlers.  First the jobs that will set one.                        *)

LEMMA ListFirst ==
  ASSUME NEW q, Listed(q), q # <<>>
  PROVE  Elements(q) = {Head(q)} \cup Elements(Tail(q))
<1>1. /\ Elements(Tail(q)) \subseteq Elements(q) /\ Head(q) = q[1] /\ Head(q) \in Elements(q)
      /\ \A n \in DOMAIN q : n # 1 => n - 1 \in DOMAIN Tail(q) /\ Tail(q)[n - 1] = q[n]
  BY ListTail
<1>2. \A n \in DOMAIN q : q[n] = Head(q) \/ q[n] \in Elements(Tail(q))
  BY <1>1 DEF Elements
<1> QED BY <1>1, <1>2 DEF Elements

LEMMA ListCons ==
  ASSUME NEW q, Listed(q), NEW e
  PROVE  Elements(<<e>> \o q) = {e} \cup Elements(q)
<1> DEFINE r == <<e>> \o q
<1>1. Listed(r) /\ r # <<>> /\ Head(r) = e /\ Tail(r) = q
  BY ListPush DEF Pushed
<1> HIDE DEF r
<1>2. Elements(r) = {e} \cup Elements(q)
  BY <1>1, ListFirst
<1> QED BY <1>2 DEF r

LEMMA ListJoined ==
  ASSUME NEW p, Listed(p), NEW q, Listed(q)
  PROVE  Elements(p \o q) = Elements(p) \cup Elements(q)
<1> DEFINE S == Elements(p) \cup Elements(q)
           r == p \o q
<1>1. p \in Seq(S) /\ q \in Seq(S)
  BY DEF Listed
<1>2. /\ DOMAIN p = 1..Len(p) /\ DOMAIN q = 1..Len(q) /\ Len(p) \in Nat /\ Len(q) \in Nat
      /\ DOMAIN r = 1..(Len(p) + Len(q))
      /\ \A n \in 1..Len(p) : r[n] = p[n]
      /\ \A n \in 1..Len(q) : r[Len(p) + n] = q[n]
  <2> HIDE DEF S
  <2> QED BY <1>1
<1>3. Elements(r) \subseteq S
  BY ListJoin
<1> HIDE DEF r
<1>4. \A n \in DOMAIN p : p[n] \in Elements(r)
  BY <1>2 DEF Elements
<1>5. ASSUME NEW n \in DOMAIN q
      PROVE  q[n] \in Elements(r)
  <2>1. Len(p) + n \in DOMAIN r /\ r[Len(p) + n] = q[n]
    BY <1>2
  <2> QED BY <2>1 DEF Elements
<1>6. S \subseteq Elements(r)
  BY <1>4, <1>5 DEF Elements
<1> QED BY <1>3, <1>6 DEF r

JobsOf(fs) == UNION {Elements(f.jobs) : f \in Elements(fs)}

LEMMA JobsOver ==
  ASSUME NEW fs, Listed(fs), NEW f
  PROVE  /\ JobsOf(<<f>> \o fs) = Elements(f.jobs) \cup JobsOf(fs)
         /\ fs # <<>> => JobsOf(fs) = Elements(Head(fs).jobs) \cup JobsOf(Tail(fs))
<1>1. Elements(<<f>> \o fs) = {f} \cup Elements(fs)
  BY ListCons
<1>2. fs # <<>> => Elements(fs) = {Head(fs)} \cup Elements(Tail(fs))
  BY ListFirst
<1> QED BY <1>1, <1>2 DEF JobsOf

Is404(j) == j.call.op = "setNotFoundHandler"
Jobs404 == {j \in JobsOf(frames) : Is404(j)}
Failed == \E n \in DOMAIN log : log[n].op = "error"

(* The frames that a step leaves.                                          *)
LEMMA TopJobs ==
  ASSUME Shape
  PROVE  /\ JobsOf(frames) = Elements(Top.jobs) \cup JobsOf(Tail(frames))
         /\ Listed(Top.jobs) /\ Listed(Tail(frames))
         /\ \A f : JobsOf(<<f>> \o Tail(frames)) = Elements(f.jobs) \cup JobsOf(Tail(frames))
<1>1. Listed(frames) /\ frames # <<>> /\ FrameOn(insts, calls, Top)
  BY TopThere DEF Shape, FramesOn
<1>2. Listed(Tail(frames))
  BY <1>1, ListTail
<1> QED BY <1>1, <1>2, JobsOver DEF Top, FrameOn

LEMMA CurrentJobs ==
  ASSUME Shape, Top.jobs # <<>>
  PROVE  /\ Current \in JobsOf(frames)
         /\ JobsOf(frames) = {Current} \cup JobsOf(Dropped)
         /\ Listed(Dropped) /\ Dropped # <<>>
         /\ \A f : JobsOf(<<f>> \o Dropped) = Elements(f.jobs) \cup JobsOf(Dropped)
         /\ \A jobs : Listed(jobs) => JobsOf(Within(jobs)) = Elements(jobs) \cup JobsOf(Dropped)
<1> DEFINE rest == JobsOf(Tail(frames))
<1>1. /\ JobsOf(frames) = Elements(Top.jobs) \cup rest
      /\ Elements(Top.jobs) = {Current} \cup Elements(Tail(Top.jobs))
      /\ Listed(Tail(Top.jobs))
  BY TopJobs, ListFirst, ListTail DEF Current
<1>2. ASSUME NEW jobs
      PROVE  JobsOf(<<[Top EXCEPT !.jobs = jobs]>> \o Tail(frames)) = Elements(jobs) \cup rest
  <2> DEFINE f == [Top EXCEPT !.jobs = jobs]
  <2>1. f.jobs = jobs
    <3>1. Top \in Elements(frames)
      BY ListTail DEF Shape, FramesOn, Top
    <3> QED BY <3>1, TopThere DEF Top, FrameOn
  <2> HIDE DEF f
  <2> QED BY <2>1, TopJobs DEF f
<1>3. JobsOf(Dropped) = Elements(Tail(Top.jobs)) \cup rest
  BY <1>2 DEF Dropped
<1>4. ASSUME NEW jobs, Listed(jobs)
      PROVE  JobsOf(Within(jobs)) = Elements(jobs) \cup JobsOf(Dropped)
  <2>1. Elements(jobs \o Tail(Top.jobs)) = Elements(jobs) \cup Elements(Tail(Top.jobs))
    BY <1>1, <1>4, ListJoined
  <2> QED BY <1>2, <1>3, <2>1 DEF Within
<1>5. Listed(Dropped) /\ Dropped # <<>>
  <2> DEFINE f == [Top EXCEPT !.jobs = Tail(Top.jobs)]
  <2>1. Dropped = <<f>> \o Tail(frames)
    BY DEF Dropped
  <2> HIDE DEF f
  <2> QED BY <2>1, ListReplace DEF Shape, FramesOn
<1> QED BY <1>1, <1>3, <1>4, <1>5, JobsOver

(* What a step does to the jobs for 404 handlers: none changes, an error   *)
(* drops some, setNotFoundHandler asks for one, or the current one runs.   *)
Asks404(c) == CallSetNotFoundHandler(c) /\ ~CannotSetNotFound(insts, Here) /\ ~Throws(c)
LEMMA CallJobs ==
  ASSUME Shape, NEW c \in api.uses, Call(c)
  PROVE  \/ Jobs404' = Jobs404 /\ ~Asks404(c)
         \/ Jobs404' \subseteq Jobs404 /\ Throws(c)
         \/ Asks404(c) /\ Jobs404' = Jobs404 \cup {RouteJob(c, Me, Here)}
<1> DEFINE job == RouteJob(c, Me, Here)
<1>1. CASE Throws(c)
  <2>1. frames' = frames \/ frames' = Tail(frames)
    BY <1>1 DEF Throws
  <2>2. Jobs404' \subseteq Jobs404
    BY <2>1, TopJobs DEF Jobs404
  <2> QED BY <1>1, <2>2
<1>2. ASSUME NEW j, Enqueue(j)
      PROVE  JobsOf(frames') = JobsOf(frames) \cup {j}
  <2> DEFINE f == [Top EXCEPT !.jobs = Append(Top.jobs, j)]
  <2>1. frames' = <<f>> \o Tail(frames)
    BY <1>2 DEF Enqueue
  <2>2. f.jobs = Append(Top.jobs, j)
    BY TopThere DEF FrameOn
  <2> HIDE DEF f
  <2>3. Elements(f.jobs) = Elements(Top.jobs) \cup {j}
    BY <2>2, TopJobs, ListAppend
  <2> QED BY <2>1, <2>3, TopJobs
<1>3. CASE CallRegister(c) \/ CallAfter(c) \/ CallAddHook(c)
  <2>1. Enqueue(Job(c)) /\ c.op # "setNotFoundHandler"
    BY <1>3 DEF CallRegister, CallAfter, CallAddHook, PutsOff, Calling
  <2>2. ~Is404(Job(c))
    BY <2>1 DEF Is404, Job
  <2>3. Jobs404' = Jobs404
    BY <1>2, <2>1, <2>2 DEF Jobs404
  <2> QED BY <2>1, <2>3 DEF Asks404, CallSetNotFoundHandler, Calling
<1>4. CASE CallRoute(c)
  <2>1. Enqueue(job) /\ c.op = "route"
    BY <1>4 DEF CallRoute, PutsOff, Calling
  <2>2. ~Is404(job)
    BY <2>1 DEF Is404, RouteJob
  <2> HIDE DEF job
  <2>3. Jobs404' = Jobs404
    BY <1>2, <2>1, <2>2 DEF Jobs404
  <2> QED BY <2>1, <2>3 DEF Asks404, CallSetNotFoundHandler, Calling
<1>5. CASE CallSetNotFoundHandler(c)
  <2>1. CASE Enqueue(job) /\ ~CannotSetNotFound(insts, Here) /\ ~Throws(c)
    <3>1. Is404(job)
      BY <1>5 DEF Is404, RouteJob, CallSetNotFoundHandler, Calling
    <3>3. Asks404(c)
      BY <1>5, <2>1 DEF Asks404
    <3> HIDE DEF job
    <3>2. Jobs404' = Jobs404 \cup {job}
      BY <1>2, <2>1, <3>1 DEF Jobs404
    <3> QED BY <3>2, <3>3 DEF job
  <2> QED BY <1>1, <1>5, <2>1 DEF CallSetNotFoundHandler
<1>6. CASE CallDecorate(c) \/ CallAddContentTypeParser(c) \/ CallAddSchema(c) \/ CallSetCompiler(c) \/ CallSet(c)
  <2>1. Throws(c) \/ frames' = frames
    BY <1>6 DEF CallDecorate, CallAddContentTypeParser, CallAddSchema, CallSetCompiler, CallSet, Sets
  <2>2. c.op # "setNotFoundHandler"
    BY <1>6 DEF CallDecorate, CallAddContentTypeParser, CallAddSchema, CallSetCompiler, CallSet, Calling
  <2>3. ~Asks404(c)
    BY <2>2 DEF Asks404, CallSetNotFoundHandler, Calling
  <2>4. frames' = frames => Jobs404' = Jobs404
    BY DEF Jobs404
  <2> QED BY <1>1, <2>1, <2>3, <2>4
<1> QED BY <1>1, <1>3, <1>4, <1>5, <1>6 DEF Call, BodyThrows

LEMMA BootJobs ==
  ASSUME Shape, Boot
  PROVE  \/ Jobs404' = Jobs404 /\ ~RunSetNotFound
         \/ /\ RunSetNotFound /\ Current \in Jobs404
            /\ Jobs404' \subseteq Jobs404 /\ Jobs404 \subseteq Jobs404' \cup {Current}
<1>1. ASSUME Top.jobs # <<>>, ~Is404(Current), NEW J, \A j \in J : ~Is404(j),
             JobsOf(frames') = J \cup JobsOf(Dropped)
      PROVE  Jobs404' = Jobs404 /\ ~RunSetNotFound
  <2>1. Jobs404' = Jobs404
    BY <1>1, CurrentJobs DEF Jobs404
  <2> QED BY <1>1, <2>1 DEF RunSetNotFound, Running, Is404
<1>0. ASSUME Top.jobs # <<>>, ~Is404(Current), frames' = Dropped
      PROVE  Jobs404' = Jobs404 /\ ~RunSetNotFound
  <2>1. Jobs404' = Jobs404
    BY <1>0, CurrentJobs DEF Jobs404
  <2> QED BY <1>0, <2>1 DEF RunSetNotFound, Running, Is404
<1>2. CASE SkipPlugin \/ RunAddHook
  <2>1. Top.jobs # <<>> /\ ~Is404(Current) /\ frames' = Dropped
    BY <1>2 DEF SkipPlugin, RunAddHook, Running, Is404
  <2> QED BY <1>0, <2>1
<1>3. ASSUME NEW i, NEW at, Top.jobs # <<>>, ~Is404(Current), frames' = <<Frame(i, at)>> \o Dropped
      PROVE  Jobs404' = Jobs404 /\ ~RunSetNotFound
  <2>1. Frame(i, at).jobs = <<>> /\ Elements(<<>>) = {}
    BY DEF Frame, Elements
  <2>2. JobsOf(frames') = {} \cup JobsOf(Dropped)
    BY <1>3, <2>1, CurrentJobs
  <2>3. \A j \in {} : ~Is404(j)
    OBVIOUS
  <2> QED BY <1>1, <1>3, <2>2, <2>3
<1>4. CASE LoadPlugin
  <2>1. Top.jobs # <<>> /\ ~Is404(Current)
    BY <1>4 DEF LoadPlugin, Running, Is404
  <2>2. \/ frames' = Dropped
        \/ frames' = <<Frame(Current.inst, "later")>> \o Dropped
        \/ frames' = <<Frame(Len(insts) + 1, "body")>> \o Dropped
    BY <1>4 DEF LoadPlugin
  <2>3. CASE frames' = Dropped
    BY <1>0, <2>1, <2>3
  <2>4. CASE frames' = <<Frame(Current.inst, "later")>> \o Dropped
    BY <1>3, <2>1, <2>4
  <2>5. CASE frames' = <<Frame(Len(insts) + 1, "body")>> \o Dropped
    BY <1>3, <2>1, <2>5
  <2> QED BY <2>2, <2>3, <2>4, <2>5
<1>5. CASE RunAfter
  <2>1. Top.jobs # <<>> /\ ~Is404(Current) /\ frames' = <<Frame(Current.inst, "later")>> \o Dropped
    BY <1>5 DEF RunAfter, Running, Is404
  <2> QED BY <1>3, <2>1
<1>6. CASE RunRoute
  <2> DEFINE st == AddRoute(insts, Current, routes, listeners)
  <2>1. Top.jobs # <<>> /\ ~Is404(Current) /\ frames' = Within(st.jobs)
    BY <1>6 DEF RunRoute, Running, Is404
  <2>2. Listed(st.jobs) /\ \A j \in Elements(st.jobs) : AskedBy(Current, j)
    BY RoutesAdded DEF Added, Shape, Registry
  <2> HIDE DEF st
  <2>3. \A j \in Elements(st.jobs) : ~Is404(j)
    BY <2>1, <2>2 DEF AskedBy, Is404
  <2>4. JobsOf(frames') = Elements(st.jobs) \cup JobsOf(Dropped)
    BY <2>1, <2>2, CurrentJobs
  <2> QED BY <1>1, <2>1, <2>3, <2>4
<1>7. CASE RunSetNotFound
  <2>1. Top.jobs # <<>> /\ Is404(Current) /\ frames' = Dropped
    BY <1>7 DEF RunSetNotFound, Running, Is404
  <2> QED BY <1>7, <2>1, CurrentJobs DEF Jobs404
<1>8. CASE BodyEnds
  <2> DEFINE f == [Top EXCEPT !.open = FALSE]
  <2>1. frames' = <<f>> \o Tail(frames) /\ f.jobs = Top.jobs
    BY <1>8 DEF BodyEnds
  <2> HIDE DEF f
  <2>2. JobsOf(frames') = JobsOf(frames)
    BY <2>1, TopJobs
  <2> QED BY <1>8, <2>2 DEF Jobs404, BodyEnds, RunSetNotFound, Running
<1>9. CASE Loaded
  <2>1. Top.jobs = <<>> /\ (frames' = frames \/ frames' = Tail(frames)) /\ Elements(<<>>) = {}
    BY <1>9 DEF Loaded, Elements
  <2>2. JobsOf(frames') = JobsOf(frames)
    BY <2>1, TopJobs
  <2> QED BY <2>1, <2>2 DEF Jobs404, RunSetNotFound, Running
<1>10. CASE RouteListener \/ NotFoundListener \/ Start
  <2>1. frames' = frames /\ phase = "preReady"
    BY <1>10 DEF RouteListener, NotFoundListener, Start
  <2> QED BY <2>1 DEF Jobs404, RunSetNotFound, Running
<1> QED BY <1>2, <1>4, <1>5, <1>6, <1>7, <1>8, <1>9, <1>10 DEF Boot

LEMMA NextJobs ==
  ASSUME Shape, [Next]_vars
  PROVE  \/ Jobs404' = Jobs404 /\ ~RunSetNotFound /\ ~\E c \in api.uses : Asks404(c)
         \/ Jobs404' \subseteq Jobs404 /\ Failed' /\ ~RunSetNotFound /\ ~\E c \in api.uses : Asks404(c)
         \/ /\ ~RunSetNotFound
            /\ \E c \in api.uses : Call(c) /\ Asks404(c) /\ Jobs404' = Jobs404 \cup {RouteJob(c, Me, Here)}
         \/ /\ RunSetNotFound /\ Current \in Jobs404 /\ ~\E c \in api.uses : Asks404(c)
            /\ Jobs404' \subseteq Jobs404 /\ Jobs404 \subseteq Jobs404' \cup {Current}
<1>1. RunSetNotFound => ~Top.open /\ Boot
  BY DEF RunSetNotFound, Running, Boot
<1>2. \A c : Asks404(c) => Top.open /\ Call(c)
  BY DEF Asks404, CallSetNotFoundHandler, Calling, Call
<1>3. CASE \E c \in api.uses : Asks404(c)
  <2>1. PICK c \in api.uses : Asks404(c)
    BY <1>3
  <2>2. Jobs404' = Jobs404 \cup {RouteJob(c, Me, Here)}
    BY <1>2, <2>1, CallJobs DEF Asks404
  <2> QED BY <1>1, <1>2, <2>1, <2>2
<1>4. CASE RunSetNotFound
  BY <1>1, <1>2, <1>4, BootJobs
<1>5. CASE ~RunSetNotFound /\ ~\E c \in api.uses : Asks404(c)
  <2>1. ASSUME NEW c \in api.uses, Call(c)
        PROVE  Jobs404' = Jobs404 \/ (Jobs404' \subseteq Jobs404 /\ Failed')
    <3>1. ASSUME Throws(c)
          PROVE  Failed'
      <4> DEFINE e == [op |-> "error", inst |-> Here, arg |-> c.op, id |-> Me, at |-> Top.at]
      <4>1. log' = Append(log, e) /\ e.op = "error"
        BY <3>1 DEF Throws, Log
      <4> HIDE DEF e
      <4>2. log'[Len(log) + 1] = e /\ Len(log) + 1 \in DOMAIN log'
        BY <4>1, ListAppend DEF Shape, Entries
      <4> QED BY <4>1, <4>2 DEF Failed
    <3> QED BY <1>5, <2>1, <3>1, CallJobs
  <2>2. Boot => Jobs404' = Jobs404
    BY <1>5, BootJobs
  <2>3. Serve \/ UNCHANGED vars => frames' = frames
    BY DEF Serve, Request, bootVars, vars
  <2>4. frames' = frames => Jobs404' = Jobs404
    BY DEF Jobs404
  <2> QED BY <1>5, <2>1, <2>2, <2>3, <2>4 DEF Next
<1> QED BY <1>3, <1>4, <1>5
-----------------------------------------------------------------------------
(* What is so of the instances, the log, the jobs and the contexts.  The   *)
(* level of an instance is the one that its 404 handler is kept for.       *)

SetsAt == {n \in DOMAIN log : log[n].op = "setNotFoundHandler"}
LevelOf(n) == insts[log[n].inst].level
Levels ==
  \A i \in DOMAIN insts :
    /\ Listed(insts[i].prefix)
    /\ insts[i].level \in 1..i /\ insts[insts[i].level].level = insts[i].level
    /\ insts[i].prefix = <<>> => insts[i].level = 1
    /\ \A j \in insts[i].chain : insts[j].level <= insts[i].level

(* Of the calls with a handler one at most is accepted for each level.     *)
One404 ==
  /\ \A n \in SetsAt : log[n].id \in Nat \ {0} /\ (log[n].arg = "default" \/ ~insts[LevelOf(n)].canSet404)
  /\ \A n, m \in SetsAt :
       log[n].arg # "default" /\ log[m].arg # "default" /\ LevelOf(n) = LevelOf(m) => n = m

(* The default handler of the factory is the first to be set.              *)
AskedFor(j, n) == log[n].inst = j.inst /\ log[n].id = j.id /\ (j.call.handler \/ log[n].arg = "default")
DefaultFirst ==
  contexts = <<>> =>
    /\ phase \in {"loading", "crashed"} /\ Len(frames) = 1 /\ Top.jobs # <<>> /\ Current = DefaultJob
    /\ \A j \in Elements(Tail(Top.jobs)) : j.id # 0
JobsLogged ==
  \A j \in Jobs404 : (contexts = <<>> /\ j = DefaultJob) \/ \E n \in SetsAt : AskedFor(j, n)
Idle404 == phase \in {"preReady", "started", "failed"} => Jobs404 = {}

(* Every context is of one level.                                          *)
Bounds404 ==
  /\ Listed(contexts)
  /\ \A i \in DOMAIN insts :
       /\ insts[i].context404 \in 0..Len(contexts)
       /\ insts[i].context404 # 0 => insts[i].level = i
  /\ \A i, j \in DOMAIN insts : insts[i].context404 = insts[j].context404 /\ insts[i].context404 # 0 => i = j
  /\ contexts # <<>> => insts[1].context404 # 0

(* When nothing failed and every handler is for a prefix of its own, a     *)
(* handler is in the context of its level or will be, and no other is.     *)
Usual ==
  ~Failed /\ \A n \in SetsAt : log[n].arg # "default" /\ insts[log[n].inst].prefix # Slash
InContext(i, id) == insts[i].context404 # 0 /\ contexts[insts[i].context404].id = id
HandlersIn ==
  /\ \A n \in SetsAt : InContext(LevelOf(n), log[n].id) \/ \E j \in Jobs404 : AskedFor(j, n)
  /\ \A i \in DOMAIN insts : insts[i].context404 # 0 =>
       (i = 1 /\ InContext(1, 0)) \/ \E n \in SetsAt : LevelOf(n) = i /\ InContext(i, log[n].id)
NotFoundInv ==
  Levels /\ One404 /\ DefaultFirst /\ JobsLogged /\ Idle404 /\ Bounds404 /\ (Usual => HandlersIn)

(* The context of a route has the handler that its instance finds.         *)
Done404(k) == routes[k].notFound.id = contexts[Context404Of(insts, routes[k].inst)].id
Finishing404 ==
  \A k \in DOMAIN routes :
    /\ phase = "preReady" => Errored \/ Waiting(k) \/ Done404(k)
    /\ phase = "started" => Done404(k)
-----------------------------------------------------------------------------
(* Levels.  An instance without a prefix is of the root's level.           *)

LEMMA Joined ==
  ASSUME NEW p, Listed(p), NEW q, Listed(q)
  PROVE  Listed(p \o q) /\ (p # <<>> \/ q # <<>> => p \o q # <<>>)
<1>1. Listed(p \o q) /\ Len(p \o q) = Len(p) + Len(q) /\ Len(p) \in Nat /\ Len(q) \in Nat
  BY ListJoin, ListedIs
<1>2. \A s : Listed(s) => (s = <<>> <=> Len(s) = 0)
  <2> SUFFICES ASSUME NEW s, Listed(s) PROVE s = <<>> <=> Len(s) = 0
    OBVIOUS
  <2>1. Len(<<>>) = 0
    OBVIOUS
  <2>2. s # <<>> => Len(s) > 0
    BY ListTail
  <2> QED BY <2>1, <2>2
<1> QED BY <1>1, <1>2

LEMMA PrefixBuilt ==
  ASSUME NEW p, Listed(p), NEW q, Listed(q)
  PROVE  LET r == BuildRoutePrefix(p, q)
         IN Listed(r) /\ (q = <<>> => r = p) /\ (q # <<>> => r # <<>>)
<1> DEFINE r == BuildRoutePrefix(p, q)
<1>1. CASE q = <<>>
  BY <1>1 DEF BuildRoutePrefix
<1>2. CASE q # <<>> /\ EndsWithSlash(p) /\ Head(q) = "/"
  <2>1. r = p \o Tail(q) /\ p # <<>>
    BY <1>2 DEF BuildRoutePrefix, EndsWithSlash
  <2>2. Listed(Tail(q))
    BY <1>2, ListTail
  <2> QED BY <1>2, <2>1, <2>2, Joined
<1>3. CASE q # <<>> /\ Head(q) # "/"
  <2>1. r = p \o <<"/">> \o q
    BY <1>3 DEF BuildRoutePrefix
  <2>2. Listed(<<"/">>)
    <3>1. \A e : <<e>> \in Seq({e})
      OBVIOUS
    <3> QED BY <3>1, ListedOver
  <2>3. Listed(p \o <<"/">>)
    BY <2>2, Joined
  <2> QED BY <1>3, <2>1, <2>3, Joined
<1>4. CASE q # <<>> /\ ~EndsWithSlash(p) /\ Head(q) = "/"
  <2>1. r = p \o q
    BY <1>4 DEF BuildRoutePrefix
  <2> QED BY <1>4, <2>1, Joined
<1> QED BY <1>1, <1>2, <1>3, <1>4

LEMMA Born404 ==
  ASSUME Shape, LoadPlugin, DOMAIN insts' # DOMAIN insts
  PROVE  LET me == Len(insts) + 1
             i  == Current.inst
             q  == Current.call.plugin.prefix
         IN /\ insts'[me].canSet404 = TRUE /\ insts'[me].context404 = 0
            /\ insts'[me].prefix = BuildRoutePrefix(insts[i].prefix, q) /\ Listed(q)
            /\ insts'[me].level = IF q # <<>> THEN me ELSE insts[i].level
<1> DEFINE named == RegisterPluginName(insts, Current.inst, Current.call.plugin)
           me == Len(insts) + 1
           i  == Current.inst
           q  == Current.call.plugin.prefix
<1>1. i \in DOMAIN insts /\ Listed(q)
  BY JobThere, ListedOver DEF LoadPlugin, Running, JobOn
<1>2. /\ DOMAIN named = DOMAIN insts /\ Len(named) = Len(insts)
      /\ \A j \in DOMAIN insts : SameBut(insts[j], named[j])
      /\ NewInstance(named, insts')
  BY LoadInsts DEF Shape
<1> HIDE DEF named
<1>3. insts' # named
  BY <1>2
<1>4. /\ insts'[me].canSet404 = TRUE /\ insts'[me].context404 = 0
      /\ insts'[me].prefix = BuildRoutePrefix(named[i].prefix, q)
      /\ insts'[me].level = IF q # <<>> THEN me ELSE named[i].level
  BY <1>2, <1>3 DEF NewInstance
<1>5. named[i].prefix = insts[i].prefix /\ named[i].level = insts[i].level
  BY <1>1, <1>2 DEF SameBut
<1> QED BY <1>1, <1>4, <1>5

LEMMA NextLevels ==
  ASSUME Shape, Levels, [Next]_vars
  PROVE  Levels'
<1>1. /\ InstsKept /\ DOMAIN insts = 1..Len(insts) /\ Len(insts) \in Nat
      /\ \A i \in DOMAIN insts : insts[i].chain \subseteq DOMAIN insts
  <2>1. DOMAIN insts = 1..Len(insts) /\ Len(insts) \in Nat
    BY ListedIs DEF Shape, Tree
  <2>2. \A i \in DOMAIN insts : insts[i].chain \subseteq DOMAIN insts
    BY <2>1 DEF Shape, Tree
  <2> QED BY <2>1, <2>2, NextInsts DEF Shape
<1>2. ASSUME NEW i \in DOMAIN insts
      PROVE  /\ insts'[i].prefix = insts[i].prefix /\ insts'[i].chain = insts[i].chain
             /\ insts'[i].level = insts[i].level /\ insts[i].level \in DOMAIN insts
  BY <1>1 DEF InstsKept, SameBut, Levels
<1>3. ASSUME NEW i \in DOMAIN insts
      PROVE  /\ Listed(insts'[i].prefix)
             /\ insts'[i].level \in 1..i /\ insts'[insts'[i].level].level = insts'[i].level
             /\ insts'[i].prefix = <<>> => insts'[i].level = 1
             /\ \A j \in insts'[i].chain : insts'[j].level <= insts'[i].level
  <2>1. \A j \in insts[i].chain : insts'[j].level = insts[j].level
    BY <1>1, <1>2
  <2>2. insts'[insts[i].level].level = insts[insts[i].level].level
    BY <1>2
  <2> QED BY <1>2, <2>1, <2>2 DEF Levels
<1>4. CASE DOMAIN insts' = DOMAIN insts
  BY <1>3, <1>4 DEF Levels
<1>5. CASE LoadPlugin /\ DOMAIN insts' # DOMAIN insts
  <2> DEFINE me == Len(insts) + 1
             i  == Current.inst
             q  == Current.call.plugin.prefix
  <2>1. /\ i \in DOMAIN insts /\ DOMAIN insts' = DOMAIN insts \cup {me}
        /\ insts'[me].chain = insts[i].chain \cup {me}
    BY <1>5, Born
  <2>2. /\ insts'[me].prefix = BuildRoutePrefix(insts[i].prefix, q) /\ Listed(q)
        /\ insts'[me].level = IF q # <<>> THEN me ELSE insts[i].level
    BY <1>5, Born404
  <2>3. /\ Listed(insts'[me].prefix)
        /\ q = <<>> => insts'[me].prefix = insts[i].prefix
        /\ q # <<>> => insts'[me].prefix # <<>>
    <3>1. Listed(insts[i].prefix)
      BY <2>1 DEF Levels
    <3> QED BY <2>2, <3>1, PrefixBuilt
  <2>4. /\ \A j \in insts[i].chain : insts'[j].level = insts[j].level /\ insts[j].level <= insts[i].level
        /\ insts[i].level \in 1..i /\ insts'[i].level = insts[i].level
        /\ insts'[insts[i].level].level = insts[i].level
    BY <1>1, <1>2, <2>1 DEF Levels
  <2>5. i \in Nat /\ i < me /\ me \in Nat
    BY <1>1, <2>1
  <2> HIDE DEF me, i, q
  <2>6. insts'[me].level \in 1..me /\ insts'[insts'[me].level].level = insts'[me].level
    BY <2>2, <2>4, <2>5
  <2>7. insts'[me].prefix = <<>> => insts'[me].level = 1
    BY <2>1, <2>2, <2>3 DEF Levels
  <2>8. ASSUME NEW j \in insts'[me].chain
        PROVE  insts'[j].level <= insts'[me].level
    <3>1. CASE j = me
      BY <2>6, <3>1
    <3>2. CASE j \in insts[i].chain
      <4>1. insts[j].level \in Nat
        BY <1>1, <2>1, <3>2 DEF Levels
      <4> QED BY <2>2, <2>4, <2>5, <3>2, <4>1
    <3> QED BY <2>1, <3>1, <3>2
  <2> QED BY <1>3, <2>1, <2>3, <2>6, <2>7, <2>8 DEF Levels
<1> QED BY <1>1, <1>4, <1>5 DEF InstsKept

(* A call to setNotFoundHandler is logged when it is accepted.             *)
Arg404(c) == CASE ~c.handler -> "default"
               [] c.handler /\ "preHandler" \in c.own -> "preHandler"
               [] OTHER -> ""
LEMMA Logged404 ==
  ASSUME Shape, [Next]_vars
  PROVE  \/ SetsAt' = SetsAt /\ ~\E c \in api.uses : Asks404(c)
         \/ \E c \in api.uses : LET n == Len(log) + 1
              IN /\ Asks404(c) /\ SetsAt' = SetsAt \cup {n} /\ n \notin DOMAIN log
                 /\ log'[n].inst = Here /\ log'[n].id = Me /\ log'[n].arg = Arg404(c)
<1> DEFINE len == Len(log)
<1>1. /\ DOMAIN log = 1..len /\ len \in Nat /\ DOMAIN log \subseteq DOMAIN log'
      /\ \A n \in DOMAIN log : log'[n] = log[n]
      /\ \A n \in DOMAIN log' : n \in DOMAIN log \/ n = len + 1
  BY LogGrowsByOne
<1>2. ASSUME NEW op, NEW i, NEW arg, NEW id, Log(op, i, arg, id)
      PROVE  /\ len + 1 \in DOMAIN log' /\ len + 1 \notin DOMAIN log
             /\ log'[len + 1].op = op /\ log'[len + 1].inst = i
             /\ log'[len + 1].arg = arg /\ log'[len + 1].id = id
  <2> DEFINE e == [op |-> op, inst |-> i, arg |-> arg, id |-> id, at |-> Top.at]
  <2>1. log' = Append(log, e) /\ e.op = op /\ e.inst = i /\ e.arg = arg /\ e.id = id
    BY <1>2 DEF Log
  <2> HIDE DEF e
  <2> QED BY <2>1, ListAppend DEF Shape, Entries
<1> HIDE DEF len
<1>3. ASSUME NEW c \in api.uses, Asks404(c)
      PROVE  /\ SetsAt' = SetsAt \cup {len + 1} /\ len + 1 \notin DOMAIN log
             /\ log'[len + 1].inst = Here /\ log'[len + 1].id = Me /\ log'[len + 1].arg = Arg404(c)
  <2>1. Log(c.op, Here, Arg404(c), Me) /\ c.op = "setNotFoundHandler"
    BY <1>3 DEF Asks404, CallSetNotFoundHandler, Calling, Done, Arg404
  <2> QED BY <1>1, <1>2, <2>1 DEF SetsAt
<1>4. ASSUME \A n \in DOMAIN log' : n \in DOMAIN log \/ log'[n].op # "setNotFoundHandler"
      PROVE  SetsAt' = SetsAt
  BY <1>1, <1>4 DEF SetsAt
<1>5. ASSUME NEW op, NEW i, NEW arg, NEW id, Log(op, i, arg, id), op # "setNotFoundHandler"
      PROVE  SetsAt' = SetsAt
  BY <1>1, <1>2, <1>4, <1>5
<1>6. log' = log => SetsAt' = SetsAt
  BY DEF SetsAt
<1>7. ASSUME ~\E c \in api.uses : Asks404(c)
      PROVE  SetsAt' = SetsAt
  <2>1. ASSUME NEW c \in api.uses, Call(c)
        PROVE  SetsAt' = SetsAt
    <3>1. CASE Throws(c)
      <4>1. Log("error", Here, c.op, Me)
        BY <3>1 DEF Throws
      <4> QED BY <1>5, <4>1
    <3>2. CASE ~Throws(c) /\ \E arg : Log(c.op, Here, arg, Me)
      <4>1. c.op = "setNotFoundHandler" => CallSetNotFoundHandler(c)
        BY <2>1, <3>2 DEF Call, Calling, BodyThrows, CallRegister, CallAfter, CallAddHook, CallRoute,
               CallDecorate, CallAddContentTypeParser, CallAddSchema, CallSetCompiler, CallSet
      <4>2. c.op # "setNotFoundHandler"
        BY <1>7, <3>2, <4>1 DEF Asks404, CallSetNotFoundHandler
      <4> QED BY <1>5, <3>2, <4>2
    <3> QED BY <2>1, <3>1, <3>2, CallCases
  <2>2. CASE BodyEnds \/ SkipPlugin \/ RunSetNotFound \/ Loaded \/ NotFoundListener \/ Start
    BY <1>6, <2>2 DEF BodyEnds, SkipPlugin, RunSetNotFound, Loaded, NotFoundListener, Start
  <2>3. CASE LoadPlugin
    BY <1>5, <2>3 DEF LoadPlugin
  <2>4. CASE RunAfter
    BY <1>5, <1>6, <2>4 DEF RunAfter
  <2>5. CASE RunAddHook
    BY <1>5, <2>5 DEF RunAddHook
  <2>6. CASE RunRoute
    <3>1. log' = log \/ \E op \in {"error", "ignored"} : Log(op, Current.inst, "route", Current.id)
      BY <2>6 DEF RunRoute, RouteEnds
    <3> QED BY <1>5, <1>6, <3>1
  <2>7. CASE RouteListener
    BY <1>5, <1>6, <2>7 DEF RouteListener
  <2>8. CASE Serve \/ UNCHANGED vars
    BY <1>6, <2>8, ServeBoot DEF vars, bootVars
  <2> QED BY <2>1, <2>2, <2>3, <2>4, <2>5, <2>6, <2>7, <2>8 DEF Next, Boot
<1> QED BY <1>3, <1>7 DEF len

-----------------------------------------------------------------------------
(* What a step leaves of all this.                                         *)

LEMMA Same404 ==
  ASSUME Shape, Levels, [Next]_vars
  PROVE  /\ \A n \in SetsAt :
              /\ n \in SetsAt' /\ log'[n] = log[n] /\ LevelOf(n)' = LevelOf(n) /\ LevelOf(n) \in DOMAIN insts
              /\ insts'[log[n].inst].prefix = insts[log[n].inst].prefix
         /\ \A i \in DOMAIN insts :
              /\ i \in DOMAIN insts' /\ insts'[i].level = insts[i].level /\ insts[i].level \in DOMAIN insts
              /\ insts'[i].context404 = insts[i].context404 \/ RunSetNotFound
         /\ \A i \in DOMAIN insts' : i \in DOMAIN insts \/ insts'[i].context404 = 0
<1>1. InstsKept /\ DOMAIN insts = 1..Len(insts)
  BY NextInsts, ListedIs DEF Shape, Tree
<1>2. ASSUME NEW i \in DOMAIN insts
      PROVE  /\ i \in DOMAIN insts' /\ insts'[i].level = insts[i].level /\ insts[i].level \in DOMAIN insts
             /\ insts'[i].prefix = insts[i].prefix
             /\ insts'[i].context404 = insts[i].context404 \/ RunSetNotFound
  <2>1. insts[i].level \in DOMAIN insts
    <3>1. insts[i].level \in 1..i /\ i \in 1..Len(insts) /\ Len(insts) \in Nat
      BY <1>1, ListedIs DEF Levels, Shape, Tree
    <3> QED BY <1>1, <3>1
  <2> QED BY <1>1, <2>1 DEF InstsKept, SameBut
<1>3. ASSUME NEW n \in SetsAt
      PROVE  n \in SetsAt' /\ log'[n] = log[n] /\ log[n].inst \in DOMAIN insts
  BY LogGrowsByOne DEF SetsAt, Shape, Entries
<1>4. ASSUME NEW i \in DOMAIN insts', i \notin DOMAIN insts
      PROVE  insts'[i].context404 = 0
  BY <1>1, <1>4, Born, Born404 DEF InstsKept
<1> QED BY <1>2, <1>3, <1>4 DEF LevelOf

(* A level that has a handler keeps it from being set again.               *)
LEMMA NextCanSet ==
  ASSUME Shape, Levels, [Next]_vars
  PROVE  /\ \A i \in DOMAIN insts : ~insts[i].canSet404 => ~insts'[i].canSet404
         /\ \A c \in api.uses : Asks404(c) /\ c.handler =>
              insts[insts[Here].level].canSet404 /\ ~insts'[insts[Here].level].canSet404
<1>1. InstsKept
  BY NextInsts DEF Shape
<1>2. ASSUME NEW c, NEW i \in DOMAIN insts, insts' = TakeNotFound(insts, Here, c)
      PROVE  /\ insts'[i].canSet404 = insts[i].canSet404 \/ insts'[i].canSet404 = FALSE
             /\ c.handler /\ i = insts[Here].level => insts'[i].canSet404 = FALSE
  <2>1. CASE ~c.handler
    BY <1>2, <2>1 DEF TakeNotFound
  <2>2. CASE c.handler
    <3> DEFINE w == [insts[insts[Here].level] EXCEPT !.canSet404 = FALSE]
    <3>1. insts' = [insts EXCEPT ![insts[Here].level] = w]
      BY <1>2, <2>2 DEF TakeNotFound, Level
    <3>2. w.canSet404 = FALSE
      OBVIOUS
    <3> HIDE DEF w
    <3> QED BY <3>1, <3>2
  <2> QED BY <2>1, <2>2
<1>3. ASSUME NEW c \in api.uses, CallSetNotFoundHandler(c), NEW i \in DOMAIN insts
      PROVE  insts'[i].canSet404 = insts[i].canSet404 \/ insts'[i].canSet404 = FALSE
  BY <1>2, <1>3 DEF CallSetNotFoundHandler
<1>4. ASSUME NEW i \in DOMAIN insts, ~insts[i].canSet404
      PROVE  ~insts'[i].canSet404
  BY <1>1, <1>3, <1>4 DEF InstsKept, SameBut, NotFoundStep
<1>5. ASSUME NEW c \in api.uses, Asks404(c), c.handler
      PROVE  insts[insts[Here].level].canSet404 /\ ~insts'[insts[Here].level].canSet404
  <2>1. insts[Here].level \in DOMAIN insts
    BY TopThere, Same404
  <2>2. insts' = TakeNotFound(insts, Here, c) /\ insts[insts[Here].level].canSet404
    BY <1>5 DEF Asks404, CallSetNotFoundHandler, CannotSetNotFound, Level
  <2> QED BY <1>2, <1>5, <2>1, <2>2
<1> QED BY <1>4, <1>5

LEMMA NextOne404 ==
  ASSUME Shape, Levels, One404, [Next]_vars
  PROVE  One404'
<1>1. ASSUME NEW n \in SetsAt
      PROVE  /\ log'[n].id \in Nat \ {0} /\ (log'[n].arg = "default" \/ ~insts'[LevelOf(n)'].canSet404)
  BY Same404, NextCanSet DEF One404
<1>2. ASSUME NEW n \in SetsAt, NEW m \in SetsAt, log'[n].arg # "default", log'[m].arg # "default",
             LevelOf(n)' = LevelOf(m)'
      PROVE  n = m
  BY <1>2, Same404 DEF One404
<1>3. CASE SetsAt' = SetsAt
  BY <1>1, <1>2, <1>3 DEF One404
<1>4. ASSUME NEW c \in api.uses, Asks404(c), NEW new, SetsAt' = SetsAt \cup {new},
             log'[new].inst = Here, log'[new].id = Me, log'[new].arg = Arg404(c)
      PROVE  One404'
  <2>1. Me \in Nat \ {0}
    BY DEF Shape, Me
  <2>2. log'[new].arg = "default" \/ c.handler
    BY <1>4 DEF Arg404
  <2>3. LevelOf(new)' = insts[Here].level
    BY <1>4, TopThere, Same404 DEF LevelOf
  <2>4. log'[new].arg = "default" \/ (insts[insts[Here].level].canSet404 /\ ~insts'[LevelOf(new)'].canSet404)
    BY <1>4, <2>2, <2>3, NextCanSet
  <2>5. ASSUME NEW n \in SetsAt, log'[n].arg # "default", log'[new].arg # "default"
        PROVE  LevelOf(n)' # LevelOf(new)'
    <3>1. log[n].arg # "default" /\ LevelOf(n)' = LevelOf(n)
      BY <2>5, Same404
    <3>2. ~insts[LevelOf(n)].canSet404
      BY <3>1 DEF One404
    <3> QED BY <2>3, <2>4, <2>5, <3>1, <3>2
  <2> QED BY <1>1, <1>2, <1>4, <2>1, <2>4, <2>5 DEF One404
<1> QED BY <1>3, <1>4, Logged404

(* The contexts: replaced, appended, completed.                            *)
LEMMA ContextsStay ==
  ASSUME Shape, Listed(contexts), [Next]_vars, ~RunSetNotFound
  PROVE  /\ Listed(contexts') /\ DOMAIN contexts' = DOMAIN contexts /\ Len(contexts') = Len(contexts)
         /\ \A k \in DOMAIN contexts : contexts'[k].id = contexts[k].id
         /\ contexts' = <<>> <=> contexts = <<>>
<1>1. contexts' = contexts \/ NotFoundListener
  BY DEF Next, Boot, Call, Calling, BodyThrows, CallRegister, CallAfter, CallAddHook, CallRoute,
         CallDecorate, CallAddContentTypeParser, CallAddSchema, CallSetCompiler, CallSet,
         CallSetNotFoundHandler, UnchangedRoutes, BodyEnds, SkipPlugin, LoadPlugin, RunAfter,
         RunAddHook, RunRoute, Loaded, RouteListener, Start, registryVars, Serve, Request, bootVars, vars
<1>2. CASE NotFoundListener
  <2> DEFINE c == Context404Of(insts, Head(listeners).job.inst)
             hooks == AllHooks(insts, Head(listeners).job.inst, Head(listeners).job.own)
             w == [contexts[c] EXCEPT !.hooks = hooks]
  <2>1. contexts' = [contexts EXCEPT ![c] = w]
    BY <1>2 DEF NotFoundListener, NotFoundReady
  <2>2. w.id = contexts[c].id
    OBVIOUS
  <2> HIDE DEF w, c
  <2>3. /\ Listed(contexts') /\ Len(contexts') = Len(contexts) /\ DOMAIN contexts' = DOMAIN contexts
        /\ \A n \in DOMAIN contexts : contexts'[n] = IF n = c THEN w ELSE contexts[n]
        /\ contexts # <<>> => contexts' # <<>>
    BY <2>1, ListUpdate
  <2>4. contexts = <<>> => contexts' = <<>>
    BY <2>1
  <2> QED BY <2>2, <2>3, <2>4
<1> QED BY <1>1, <1>2

Given404(j) == IF j.call.handler THEN j.id ELSE 0
LEMMA RunWhat ==
  ASSUME Shape, Levels, Bounds404, RunSetNotFound
  PROVE  LET i == Current.inst
             L == insts[i].level
             c == Context404Of(insts, i)
         IN /\ i \in DOMAIN insts /\ L \in DOMAIN insts
            /\ Listed(contexts') /\ contexts' # <<>> /\ DOMAIN insts' = DOMAIN insts
            /\ \/ /\ Replaces(insts, i) /\ insts' = insts
                  /\ DOMAIN contexts' = DOMAIN contexts /\ Len(contexts') = Len(contexts)
                  /\ c # 0 /\ c \in DOMAIN contexts /\ contexts'[c].id = Given404(Current)
                  /\ \A k \in DOMAIN contexts : k # c => contexts'[k] = contexts[k]
               \/ /\ ~Replaces(insts, i) /\ Len(contexts') = Len(contexts) + 1
                  /\ \A k \in DOMAIN insts :
                       insts'[k].context404 = IF k = L THEN Len(contexts) + 1 ELSE insts[k].context404
                  /\ contexts'[Len(contexts) + 1].id = Given404(Current)
                  /\ \A k \in DOMAIN contexts : contexts'[k] = contexts[k]
<1> DEFINE i == Current.inst
           L == insts[i].level
           c == Context404Of(insts, i)
           len == Len(contexts)
           new == Context404(insts, Current)
<1>1. i \in DOMAIN insts /\ L \in DOMAIN insts /\ Tree
  <2>1. i \in DOMAIN insts
    BY JobThere DEF RunSetNotFound, Running
  <2>2. L \in 1..i /\ i \in 1..Len(insts) /\ DOMAIN insts = 1..Len(insts) /\ Len(insts) \in Nat
    BY <2>1, ListedIs DEF Levels, Shape, Tree
  <2> HIDE DEF L, i
  <2> QED BY <2>1, <2>2 DEF Shape
<1>2. Listed(contexts) /\ DOMAIN contexts = 1..len /\ len \in Nat
  BY ListedIs DEF Bounds404
<1>3. CASE Replaces(insts, i)
  <2> DEFINE w == [new EXCEPT !.prefix = contexts[c].prefix]
  <2>1. contexts' = [contexts EXCEPT ![c] = w] /\ insts' = insts /\ c # 0
    BY <1>3 DEF RunSetNotFound, AddNotFound, AfterNotFound, Replaces
  <2>2. w.id = Given404(Current)
    BY DEF Context404, Given404
  <2>3. c \in DOMAIN contexts
    <3> DEFINE S == {k \in DOMAIN insts : insts[k].context404 # 0}
               j == Nearest(insts, i, S)
    <3>1. c = IF j = 0 THEN 0 ELSE insts[j].context404
      BY DEF Context404Of
    <3>2. S \subseteq DOMAIN insts
      OBVIOUS
    <3>3. j = 0 \/ j \in DOMAIN insts
      <4> HIDE DEF S
      <4> QED BY <1>1, <3>2, NearestOf
    <3> HIDE DEF j, c
    <3>4. c \in 0..len
      BY <1>2, <2>1, <3>1, <3>3 DEF Bounds404
    <3> QED BY <1>2, <2>1, <3>4 DEF c
  <2> HIDE DEF w, c
  <2>4. /\ Listed(contexts') /\ Len(contexts') = len /\ DOMAIN contexts' = DOMAIN contexts
        /\ \A n \in DOMAIN contexts : contexts'[n] = IF n = c THEN w ELSE contexts[n]
        /\ contexts # <<>> => contexts' # <<>>
    BY <1>2, <2>1, ListUpdate
  <2>5. contexts # <<>>
    BY <2>3
  <2> QED BY <1>1, <1>3, <2>1, <2>2, <2>3, <2>4, <2>5 DEF c
<1>4. CASE ~Replaces(insts, i)
  <2> DEFINE w == [insts[L] EXCEPT !.context404 = len + 1]
  <2>1. contexts' = Append(contexts, new) /\ insts' = [insts EXCEPT ![L] = w]
    BY <1>4 DEF RunSetNotFound, AddNotFound, AfterNotFound, Level
  <2>2. new.id = Given404(Current) /\ w.context404 = len + 1
    BY DEF Context404, Given404
  <2> HIDE DEF w, new, L
  <2>3. /\ Listed(contexts') /\ contexts' # <<>> /\ Len(contexts') = len + 1 /\ contexts'[len + 1] = new
        /\ \A n \in DOMAIN contexts : contexts'[n] = contexts[n]
    BY <1>2, <2>1, ListAppend
  <2>4. DOMAIN insts' = DOMAIN insts /\ \A k \in DOMAIN insts : insts'[k] = IF k = L THEN w ELSE insts[k]
    BY <2>1
  <2> QED BY <1>1, <1>4, <2>2, <2>3, <2>4 DEF L
<1> QED BY <1>3, <1>4

(* The first job is the default handler's.                                 *)
LEMMA CallAsks ==
  ASSUME Shape, NEW c \in api.uses, Call(c), ~Throws(c)
  PROVE  phase' = phase /\ (frames' = frames \/ \E j : Enqueue(j) /\ j.id = Me)
<1>1. phase' = phase
  BY CallCases
<1>2. Job(c).id = Me /\ RouteJob(c, Me, Here).id = Me
  BY DEF Job, RouteJob
<1> QED BY <1>1, <1>2 DEF Call, BodyThrows, CallRegister, CallAfter, CallAddHook, CallRoute,
         CallDecorate, CallAddContentTypeParser, CallAddSchema, CallSetCompiler, CallSet,
         CallSetNotFoundHandler, PutsOff, Sets

LEMMA NoContexts ==
  ASSUME Shape, Levels, Bounds404, [Next]_vars, contexts' = <<>>
  PROVE  contexts = <<>> /\ ~RunSetNotFound
BY RunWhat, ContextsStay DEF Bounds404

FirstIn(fs) ==
  /\ Len(fs) = 1 /\ Head(fs).jobs # <<>> /\ Head(Head(fs).jobs) = DefaultJob
  /\ \A j \in Elements(Tail(Head(fs).jobs)) : j.id # 0
LEMMA FirstKept ==
  ASSUME Shape, FirstIn(frames), NEW f, frames' = <<f>> \o Tail(frames),
         \/ f.jobs = Top.jobs
         \/ \E j : j.id # 0 /\ f.jobs = Append(Top.jobs, j)
  PROVE  FirstIn(frames')
<1>1. Len(frames') = Len(frames) /\ Head(frames') = f
  BY ListReplace DEF Shape, FramesOn
<1>2. Listed(Top.jobs) /\ Top = Head(frames)
  BY TopThere DEF FrameOn, Top
<1>3. CASE f.jobs = Top.jobs
  BY <1>1, <1>2, <1>3 DEF FirstIn
<1>4. ASSUME NEW j, j.id # 0, f.jobs = Append(Top.jobs, j)
      PROVE  FirstIn(frames')
  <2> DEFINE q == Top.jobs
             r == Append(q, j)
  <2>1. Listed(q) /\ q # <<>>
    BY <1>2 DEF FirstIn
  <2>2. /\ Listed(r) /\ r # <<>> /\ Len(r) = Len(q) + 1 /\ r[Len(q) + 1] = j
        /\ \A n \in DOMAIN q : r[n] = q[n]
        /\ DOMAIN r = DOMAIN q \cup {Len(q) + 1}
    BY <2>1, ListAppend
  <2>3. Head(q) = q[1] /\ 1 \in DOMAIN q /\ Head(r) = r[1]
        /\ \A n \in DOMAIN Tail(r) : n + 1 \in DOMAIN r /\ Tail(r)[n] = r[n + 1] /\ n \in Nat \ {0}
    <3>1. DOMAIN Tail(r) = 1..Len(Tail(r)) /\ Len(Tail(r)) \in Nat
      BY <2>2, ListTail, ListedIs
    <3> HIDE DEF r
    <3> QED BY <2>1, <2>2, <3>1, ListTail
  <2>4. \A n \in DOMAIN q : n # 1 => q[n] \in Elements(Tail(q))
    <3>1. \A n \in DOMAIN q : n # 1 => n - 1 \in DOMAIN Tail(q) /\ Tail(q)[n - 1] = q[n]
      BY <2>1, ListTail
    <3> HIDE DEF q
    <3> QED BY <3>1 DEF Elements
  <2> HIDE DEF q, r
  <2>5. \A n \in DOMAIN Tail(r) : Tail(r)[n] \in Elements(Tail(q)) \cup {j}
    <3> SUFFICES ASSUME NEW n \in DOMAIN Tail(r)
                 PROVE  Tail(r)[n] \in Elements(Tail(q)) \cup {j}
      OBVIOUS
    <3>1. n + 1 \in DOMAIN r /\ Tail(r)[n] = r[n + 1] /\ n + 1 # 1
      BY <2>3
    <3> QED BY <2>2, <2>4, <3>1
  <2>6. FirstIn(frames) /\ f.jobs = r /\ q = Head(frames).jobs
    BY <1>2, <1>4 DEF q, r
  <2>7. \A k \in Elements(Tail(r)) : k.id # 0
    BY <1>4, <2>5, <2>6 DEF FirstIn, Elements
  <2>8. Head(r) = DefaultJob
    BY <2>2, <2>3, <2>6 DEF FirstIn
  <2> QED BY <1>1, <2>2, <2>6, <2>7, <2>8 DEF FirstIn
<1> QED BY <1>3, <1>4

LEMMA NextDefaultFirst ==
  ASSUME Shape, Levels, Bounds404, DefaultFirst, [Next]_vars
  PROVE  DefaultFirst'
<1> SUFFICES ASSUME contexts' = <<>>
             PROVE  phase' \in {"loading", "crashed"} /\ FirstIn(frames')
  BY DEF DefaultFirst, FirstIn, Top, Current
<1>1. /\ ~RunSetNotFound /\ phase \in {"loading", "crashed"} /\ FirstIn(frames)
      /\ Len(frames) = 1 /\ Top.jobs # <<>> /\ Current = DefaultJob
  BY NoContexts DEF DefaultFirst, FirstIn, Top, Current
<1>2. DefaultJob.call.op = "setNotFoundHandler"
  BY DEF DefaultJob, RouteJob, DefaultNotFound
<1>3. ASSUME NEW c \in api.uses, Call(c)
      PROVE  phase' \in {"loading", "crashed"} /\ FirstIn(frames')
  <2>1. CASE Throws(c)
    BY <1>1, <2>1 DEF Throws
  <2>2. CASE ~Throws(c) /\ frames' = frames
    BY <1>1, <1>3, <2>2, CallAsks
  <2>3. ASSUME ~Throws(c), NEW j, Enqueue(j), j.id = Me
        PROVE  phase' \in {"loading", "crashed"} /\ FirstIn(frames')
    <3> DEFINE f == [Top EXCEPT !.jobs = Append(Top.jobs, j)]
    <3>1. frames' = <<f>> \o Tail(frames) /\ f.jobs = Append(Top.jobs, j)
      BY <2>3, TopThere DEF Enqueue, FrameOn
    <3> HIDE DEF f
    <3>2. j.id # 0
      BY <2>3 DEF Me, Shape
    <3>3. FirstIn(frames')
      BY <1>1, <3>1, <3>2, FirstKept
    <3> QED BY <1>1, <1>3, <2>3, <3>3, CallAsks
  <2> QED BY <1>3, <2>1, <2>2, <2>3, CallAsks
<1>4. CASE BodyEnds
  <2> DEFINE f == [Top EXCEPT !.open = FALSE]
  <2>1. frames' = <<f>> \o Tail(frames) /\ f.jobs = Top.jobs /\ phase' = phase
    BY <1>4 DEF BodyEnds
  <2> HIDE DEF f
  <2> QED BY <1>1, <2>1, FirstKept
<1>5. ~(SkipPlugin \/ LoadPlugin \/ RunAfter \/ RunAddHook \/ RunRoute \/ Loaded)
  BY <1>1, <1>2 DEF SkipPlugin, LoadPlugin, RunAfter, RunAddHook, RunRoute, Loaded, Running
<1>6. ~(RouteListener \/ NotFoundListener \/ Start \/ Serve)
  BY <1>1 DEF RouteListener, NotFoundListener, Start, Serve, Request, Ready
<1>7. UNCHANGED vars => phase' = phase /\ frames' = frames
  BY DEF vars, bootVars
<1> QED BY <1>1, <1>3, <1>4, <1>5, <1>6, <1>7 DEF Next, Boot

(* Every other job was logged when it was asked for.                       *)
LEMMA JobsDropped ==
  ASSUME Shape, RunSetNotFound, FirstIn(frames)
  PROVE  \A j \in Jobs404' : j.id # 0
<1>1. Len(frames) = 1 /\ Top.jobs # <<>> /\ \A j \in Elements(Tail(Top.jobs)) : j.id # 0
  BY DEF FirstIn, Top
<1>2. JobsOf(Tail(frames)) = {}
  <2>1. Listed(Tail(frames)) /\ Len(Tail(frames)) = 0
    BY <1>1, ListTail, ListedIs DEF Shape, FramesOn
  <2> QED BY <2>1, ListedIs DEF JobsOf, Elements
<1> DEFINE f == [Top EXCEPT !.jobs = Tail(Top.jobs)]
<1>3. frames' = <<f>> \o Tail(frames) /\ f.jobs = Tail(Top.jobs)
  BY TopThere DEF RunSetNotFound, Dropped, FrameOn
<1> HIDE DEF f
<1>4. JobsOf(frames') = Elements(Tail(Top.jobs))
  BY <1>2, <1>3, TopJobs
<1> QED BY <1>1, <1>4 DEF Jobs404

LEMMA NextJobsLogged ==
  ASSUME Shape, Levels, Bounds404, DefaultFirst, JobsLogged, [Next]_vars
  PROVE  JobsLogged'
<1>1. ASSUME NEW j, NEW n \in SetsAt, AskedFor(j, n)
      PROVE  n \in SetsAt' /\ AskedFor(j, n)'
  BY <1>1, Same404 DEF AskedFor
<1>2. ASSUME NEW j \in Jobs404, ~RunSetNotFound \/ j # DefaultJob
      PROVE  (contexts' = <<>> /\ j = DefaultJob) \/ \E n \in SetsAt' : AskedFor(j, n)'
  <2>1. CASE contexts = <<>> /\ j = DefaultJob
    BY <1>2, <2>1, ContextsStay DEF Bounds404
  <2>2. CASE \E n \in SetsAt : AskedFor(j, n)
    BY <1>1, <2>2
  <2> QED BY <2>1, <2>2 DEF JobsLogged
<1>3. CASE ~RunSetNotFound /\ Jobs404' \subseteq Jobs404
  BY <1>2, <1>3 DEF JobsLogged
<1>4. ASSUME ~RunSetNotFound, NEW c \in api.uses, Asks404(c), Jobs404' = Jobs404 \cup {RouteJob(c, Me, Here)}
      PROVE  JobsLogged'
  <2>1. PICK d \in api.uses : LET n == Len(log) + 1
              IN /\ Asks404(d) /\ SetsAt' = SetsAt \cup {n}
                 /\ log'[n].inst = Here /\ log'[n].id = Me /\ log'[n].arg = Arg404(d)
    BY <1>4, Logged404
  <2> DEFINE n == Len(log) + 1
             job == RouteJob(c, Me, Here)
  <2>2. job.inst = Here /\ job.id = Me /\ job.call = c
    BY DEF RouteJob
  <2>3. log'[n].arg = Arg404(c)
    <3>1. Log(c.op, Here, Arg404(c), Me)
      BY <1>4 DEF Asks404, CallSetNotFoundHandler, Done, Arg404
    <3> DEFINE e == [op |-> c.op, inst |-> Here, arg |-> Arg404(c), id |-> Me, at |-> Top.at]
    <3>2. log' = Append(log, e) /\ e.arg = Arg404(c)
      BY <3>1 DEF Log
    <3> HIDE DEF e
    <3> QED BY <3>2, ListAppend DEF Shape, Entries
  <2>4. c.handler \/ Arg404(c) = "default"
    BY DEF Arg404
  <2>5. n \in SetsAt' /\ log'[n].inst = job.inst /\ log'[n].id = job.id
        /\ (job.call.handler \/ log'[n].arg = "default")
    BY <2>1, <2>2, <2>3, <2>4
  <2> HIDE DEF n, job
  <2>6. \A j \in Jobs404' : (contexts' = <<>> /\ j = DefaultJob) \/ \E m \in SetsAt' : AskedFor(j, m)'
    <3> SUFFICES ASSUME NEW j \in Jobs404'
                 PROVE  (contexts' = <<>> /\ j = DefaultJob) \/ \E m \in SetsAt' : AskedFor(j, m)'
      OBVIOUS
    <3>1. CASE j \in Jobs404
      BY <1>2, <1>4, <3>1
    <3>2. CASE j = job
      <4>1. \A m : m = n => AskedFor(j, m)'
        BY <2>5, <3>2 DEF AskedFor
      <4> QED BY <2>5, <4>1
    <3> QED BY <1>4, <3>1, <3>2 DEF job
  <2> QED BY <2>6 DEF JobsLogged
<1>5. CASE RunSetNotFound /\ Jobs404' \subseteq Jobs404
  <2>1. DefaultJob.id = 0
    BY DEF DefaultJob, RouteJob
  <2>2. ASSUME NEW j \in Jobs404'
        PROVE  \E n \in SetsAt : AskedFor(j, n)
    <3>1. CASE contexts # <<>>
      BY <1>5, <2>2, <3>1 DEF JobsLogged
    <3>2. CASE contexts = <<>>
      <4>1. FirstIn(frames)
        BY <3>2 DEF DefaultFirst, FirstIn, Top, Current
      <4>2. j # DefaultJob
        BY <1>5, <2>1, <2>2, <4>1, JobsDropped
      <4> QED BY <1>5, <2>2, <4>2 DEF JobsLogged
    <3> QED BY <3>1, <3>2
  <2>3. ASSUME NEW j \in Jobs404'
        PROVE  \E n \in SetsAt' : AskedFor(j, n)'
    BY <1>1, <2>2, <2>3
  <2> QED BY <2>3 DEF JobsLogged
<1> QED BY <1>3, <1>4, <1>5, NextJobs

LEMMA NextIdle404 ==
  ASSUME Shape, Idle404, [Next]_vars
  PROVE  Idle404'
<1> SUFFICES ASSUME phase' \in {"preReady", "started", "failed"} PROVE Jobs404' = {}
  BY DEF Idle404
<1>1. ASSUME NEW c \in api.uses, Call(c)
      PROVE  phase' \in {"loading", "crashed"}
  BY <1>1, CallCases DEF Throws
<1>2. CASE BodyEnds \/ SkipPlugin \/ LoadPlugin \/ RunAfter \/ RunAddHook \/ RunRoute \/ RunSetNotFound
  <2>1. phase' \in {"loading", "crashed"}
    BY <1>2 DEF BodyEnds, SkipPlugin, LoadPlugin, RunAfter, RunAddHook, RunRoute, RunSetNotFound,
                Running, UnchangedRoutes
  <2> QED BY <2>1
<1>3. CASE Loaded
  <2>1. Len(frames) = 1 /\ frames' = frames /\ Top.jobs = <<>>
    BY <1>3 DEF Loaded
  <2>2. Listed(Tail(frames)) /\ Len(Tail(frames)) = 0
    BY <2>1, ListTail, ListedIs DEF Shape, FramesOn
  <2>3. JobsOf(Tail(frames)) = {} /\ Elements(<<>>) = {}
    BY <2>2, ListedIs DEF JobsOf, Elements
  <2>4. JobsOf(frames) = {}
    BY <2>1, <2>3, TopJobs
  <2> QED BY <2>1, <2>4 DEF Jobs404
<1>4. CASE RouteListener \/ NotFoundListener \/ Start \/ Serve \/ UNCHANGED vars
  <2>1. frames' = frames /\ phase \in {"preReady", "started", "failed"}
    BY <1>4 DEF RouteListener, NotFoundListener, Start, Serve, Request, Ready, bootVars, vars
  <2> QED BY <2>1 DEF Jobs404, Idle404
<1> QED BY <1>1, <1>2, <1>3, <1>4 DEF Next, Boot

LEMMA NoneYet ==
  ASSUME Shape, Bounds404, contexts = <<>>
  PROVE  /\ \A k \in DOMAIN insts : insts[k].context404 = 0
         /\ ~Replaces(insts, 1)
<1>1. Len(contexts) = 0 /\ 1 \in DOMAIN insts
  BY DEF Shape, Tree
<1>2. \A k \in DOMAIN insts : insts[k].context404 = 0
  <2>1. \A k \in DOMAIN insts : insts[k].context404 \in 0..Len(contexts)
    BY DEF Bounds404
  <2> QED BY <1>1, <2>1
<1>3. {k \in DOMAIN insts : insts[k].context404 # 0} = {}
  BY <1>2
<1>4. Context404Of(insts, 1) = 0
  BY <1>1, <1>3, NearestOf DEF Context404Of, Shape
<1> QED BY <1>2, <1>4 DEF Replaces

LEMMA NextBounds404 ==
  ASSUME Shape, Levels, Bounds404, DefaultFirst, [Next]_vars
  PROVE  Bounds404'
<1> DEFINE len == Len(contexts)
<1>1. len \in Nat /\ 1 \in DOMAIN insts /\ Listed(contexts)
  BY ListedIs DEF Bounds404, Shape, Tree
<1>2. CASE ~RunSetNotFound
  <2>1. Listed(contexts') /\ Len(contexts') = len /\ (contexts' = <<>> <=> contexts = <<>>)
    BY <1>1, <1>2, ContextsStay
  <2>2. ASSUME NEW i \in DOMAIN insts', insts'[i].context404 # 0
        PROVE  /\ i \in DOMAIN insts /\ insts'[i].context404 = insts[i].context404
               /\ insts'[i].level = insts[i].level
    BY <1>2, <2>2, Same404
  <2>3. ASSUME NEW i \in DOMAIN insts'
        PROVE  insts'[i].context404 \in 0..len /\ (insts'[i].context404 # 0 => insts'[i].level = i)
    <3>1. CASE insts'[i].context404 = 0
      BY <1>1, <3>1
    <3>2. CASE insts'[i].context404 # 0
      BY <2>2, <3>2 DEF Bounds404
    <3> QED BY <3>1, <3>2
  <2>4. ASSUME NEW i \in DOMAIN insts', NEW j \in DOMAIN insts',
               insts'[i].context404 = insts'[j].context404, insts'[i].context404 # 0
        PROVE  i = j
    BY <2>2, <2>4 DEF Bounds404
  <2>5. contexts' # <<>> => insts'[1].context404 # 0
    BY <1>1, <1>2, <2>1, Same404 DEF Bounds404
  <2> QED BY <2>1, <2>3, <2>4, <2>5 DEF Bounds404
<1>3. CASE RunSetNotFound
  <2> DEFINE L == insts[Current.inst].level
  <2>1. /\ L \in DOMAIN insts /\ Listed(contexts') /\ contexts' # <<>> /\ DOMAIN insts' = DOMAIN insts
        /\ \/ /\ Replaces(insts, Current.inst) /\ insts' = insts /\ Len(contexts') = len
           \/ /\ ~Replaces(insts, Current.inst) /\ Len(contexts') = len + 1
              /\ \A k \in DOMAIN insts :
                   insts'[k].context404 = IF k = L THEN len + 1 ELSE insts[k].context404
    BY <1>3, RunWhat
  <2>2. \A k \in DOMAIN insts : insts'[k].level = insts[k].level
    BY Same404
  <2>3. contexts = <<>> => Current.inst = 1
    BY DEF DefaultFirst, DefaultJob, RouteJob
  <2>4. insts[L].level = L
    BY <1>3, JobThere DEF Levels, RunSetNotFound, Running
  <2>5. insts[1].level = 1
    BY <1>1 DEF Levels
  <2>6. \A k \in DOMAIN insts : insts[k].context404 \in 0..len /\ (insts[k].context404 # 0 => insts[k].level = k)
    BY DEF Bounds404
  <2>7. insts'[1].context404 # 0
    <3>1. CASE contexts # <<>>
      BY <1>1, <2>1, <3>1 DEF Bounds404
    <3>2. CASE contexts = <<>>
      <4>1. Current.inst = 1 /\ L = 1
        BY <2>3, <2>5, <3>2
      <4>2. ~Replaces(insts, Current.inst)
        BY <3>2, <4>1, NoneYet
      <4> QED BY <1>1, <2>1, <4>1, <4>2
    <3> QED BY <3>1, <3>2
  <2>8. ASSUME NEW i \in DOMAIN insts, NEW j \in DOMAIN insts,
               insts'[i].context404 = insts'[j].context404, insts'[i].context404 # 0
        PROVE  i = j
    <3> HIDE DEF L
    <3>1. CASE insts' = insts
      BY <2>8, <3>1 DEF Bounds404
    <3>2. CASE \A k \in DOMAIN insts :
                 insts'[k].context404 = IF k = L THEN len + 1 ELSE insts[k].context404
      <4>1. i = L <=> j = L
        BY <1>1, <2>6, <2>8, <3>2
      <4>2. i # L => i = j
        BY <2>8, <3>2, <4>1 DEF Bounds404
      <4> QED BY <4>1, <4>2
    <3> QED BY <2>1, <3>1, <3>2 DEF L
  <2>9. ASSUME NEW i \in DOMAIN insts
        PROVE  insts'[i].context404 \in 0..Len(contexts') /\ (insts'[i].context404 # 0 => insts'[i].level = i)
    <3> HIDE DEF L
    <3>1. CASE insts' = insts /\ Len(contexts') = len
      BY <2>6, <3>1
    <3>2. CASE /\ Len(contexts') = len + 1
               /\ insts'[i].context404 = IF i = L THEN len + 1 ELSE insts[i].context404
      BY <1>1, <2>2, <2>4, <2>6, <3>2
    <3> QED BY <2>1, <3>1, <3>2 DEF L
  <2> QED BY <2>1, <2>7, <2>8, <2>9 DEF Bounds404
<1> QED BY <1>2, <1>3

(* What running setNotFoundHandler puts where: the first call is that of   *)
(* the factory, every other is kept for the level of its instance.         *)
LEMMA RunFirst ==
  ASSUME Shape, Levels, Bounds404, DefaultFirst, RunSetNotFound, [Next]_vars, contexts = <<>>
  PROVE  /\ Current = DefaultJob
         /\ \A k \in DOMAIN insts' : insts'[k].context404 # 0 => k = 1 /\ InContext(1, 0)'
<1>1. Current = DefaultJob /\ Current.inst = 1 /\ Given404(Current) = 0
  BY DEF DefaultFirst, DefaultJob, RouteJob, DefaultNotFound, Given404
<1>2. insts[1].level = 1
  BY DEF Levels, Shape, Tree
<1>3. ~Replaces(insts, 1) /\ \A k \in DOMAIN insts : insts[k].context404 = 0
  BY NoneYet
<1>4. /\ DOMAIN insts' = DOMAIN insts
      /\ \A k \in DOMAIN insts : insts'[k].context404 = IF k = 1 THEN Len(contexts) + 1 ELSE insts[k].context404
      /\ contexts'[Len(contexts) + 1].id = Given404(Current)
  BY <1>1, <1>2, <1>3, RunWhat
<1> QED BY <1>1, <1>3, <1>4 DEF InContext

Puts404(L, id) ==
  /\ insts'[L].context404 # 0 /\ contexts'[insts'[L].context404].id = id
  /\ \A k \in DOMAIN insts : k # L =>
       /\ insts'[k].context404 = insts[k].context404
       /\ insts[k].context404 # 0 =>
            contexts'[insts[k].context404].id = contexts[insts[k].context404].id
LEMMA RunPuts ==
  ASSUME Shape, Levels, Bounds404, RunSetNotFound, [Next]_vars, contexts # <<>>,
         insts[Current.inst].prefix # Slash
  PROVE  Puts404(insts[Current.inst].level, Given404(Current))
<1> DEFINE i == Current.inst
           L == insts[i].level
           len == Len(contexts)
           c == Context404Of(insts, i)
<1>1. /\ i \in DOMAIN insts /\ L \in DOMAIN insts /\ 1 \in DOMAIN insts
      /\ DOMAIN contexts = 1..len /\ len \in Nat
  BY RunWhat, ListedIs DEF Bounds404, Shape, Tree
<1>2. \A k \in DOMAIN insts : insts[k].context404 \in 0..len
  BY DEF Bounds404
<1>3. CASE Replaces(insts, i)
  <2>1. L = 1
    BY <1>1, <1>3 DEF Replaces, NotFoundPrefix, Levels
  <2>2. c = insts[1].context404
    <3> DEFINE S == {k \in DOMAIN insts : insts[k].context404 # 0}
               j == Nearest(insts, i, S)
    <3>1. 1 \in insts[i].chain \cap S
      BY <1>1 DEF Bounds404, Shape, Tree
    <3>2. j \in insts[i].chain /\ j \in S /\ j # 0
      <4> HIDE DEF S
      <4>1. S \subseteq DOMAIN insts
        BY DEF S
      <4> QED BY <1>1, <3>1, <4>1, NearestOf DEF Shape
    <3>3. c = insts[j].context404
      BY <3>2 DEF Context404Of
    <3>4. insts[j].level <= L /\ insts[j].level = j
      BY <1>1, <3>2 DEF Levels, Bounds404
    <3>5. j \in Nat
      BY <3>2, ListedIs DEF Shape, Tree
    <3> HIDE DEF j, c, L
    <3> QED BY <2>1, <3>2, <3>3, <3>4, <3>5
  <2>3. /\ insts' = insts /\ c # 0 /\ contexts'[c].id = Given404(Current)
        /\ \A k \in DOMAIN contexts : k # c => contexts'[k] = contexts[k]
    BY <1>3, RunWhat
  <2>4. ASSUME NEW k \in DOMAIN insts, k # 1, insts[k].context404 # 0
        PROVE  contexts'[insts[k].context404].id = contexts[insts[k].context404].id
    <3>1. insts[k].context404 # c
      BY <1>1, <2>2, <2>4 DEF Bounds404
    <3>2. insts[k].context404 \in DOMAIN contexts
      BY <1>1, <1>2, <2>4
    <3> QED BY <2>3, <3>1, <3>2
  <2> HIDE DEF c, L
  <2>5. Puts404(1, Given404(Current))
    BY <2>2, <2>3, <2>4 DEF Puts404
  <2> QED BY <2>1, <2>5 DEF L
<1>4. CASE ~Replaces(insts, i)
  <2>1. /\ \A k \in DOMAIN insts : insts'[k].context404 = IF k = L THEN len + 1 ELSE insts[k].context404
        /\ contexts'[len + 1].id = Given404(Current)
        /\ \A k \in DOMAIN contexts : contexts'[k] = contexts[k]
    BY <1>4, RunWhat
  <2>2. ASSUME NEW k \in DOMAIN insts, insts[k].context404 # 0
        PROVE  contexts'[insts[k].context404] = contexts[insts[k].context404]
    <3>1. insts[k].context404 \in DOMAIN contexts
      BY <1>1, <1>2, <2>2
    <3> QED BY <2>1, <3>1
  <2> HIDE DEF L
  <2>3. insts'[L].context404 = len + 1 /\ len + 1 # 0
    BY <1>1, <2>1 DEF L
  <2>4. Puts404(L, Given404(Current))
    BY <2>1, <2>2, <2>3 DEF Puts404
  <2> QED BY <2>4 DEF L
<1> QED BY <1>3, <1>4

LEMMA UsualBefore ==
  ASSUME Shape, Levels, [Next]_vars, Usual'
  PROVE  Usual
<1>1. ~Failed
  BY LogGrowsByOne DEF Usual, Failed
<1>2. ASSUME NEW n \in SetsAt
      PROVE  log[n].arg # "default" /\ insts[log[n].inst].prefix # Slash
  <2>1. /\ n \in SetsAt' /\ log'[n] = log[n]
        /\ insts'[log[n].inst].prefix = insts[log[n].inst].prefix
    BY Same404
  <2> QED BY <2>1 DEF Usual
<1> QED BY <1>1, <1>2 DEF Usual

LEMMA NewAsked ==
  ASSUME Shape, [Next]_vars, NEW c \in api.uses, Asks404(c)
  PROVE  /\ SetsAt' = SetsAt \cup {Len(log) + 1}
         /\ log'[Len(log) + 1].inst = Here /\ log'[Len(log) + 1].id = Me
         /\ log'[Len(log) + 1].arg = Arg404(c)
<1>1. SetsAt' = SetsAt \cup {Len(log) + 1}
  <2>1. \A n \in SetsAt' : n \in DOMAIN log \/ n = Len(log) + 1
    BY LogGrowsByOne DEF SetsAt
  <2>2. CASE SetsAt' = SetsAt
    BY Logged404
  <2> QED BY Logged404
<1> DEFINE e == [op |-> c.op, inst |-> Here, arg |-> Arg404(c), id |-> Me, at |-> Top.at]
<1>2. log' = Append(log, e) /\ e.inst = Here /\ e.id = Me /\ e.arg = Arg404(c)
  BY DEF Asks404, CallSetNotFoundHandler, Done, Log, Arg404
<1> HIDE DEF e
<1>3. log'[Len(log) + 1] = e
  BY <1>2, ListAppend DEF Shape, Entries
<1> QED BY <1>1, <1>2, <1>3

LEMMA NextHandlersIn ==
  ASSUME Shape, Levels, One404, DefaultFirst, JobsLogged, Bounds404, Usual => HandlersIn,
         [Next]_vars, Usual'
  PROVE  HandlersIn'
<1>1. Usual /\ HandlersIn
  BY UsualBefore
<1>2. ASSUME NEW j, NEW n \in SetsAt
      PROVE  AskedFor(j, n)' <=> AskedFor(j, n)
  BY Same404 DEF AskedFor
<1>3. CASE ~RunSetNotFound
  <2>1. ASSUME NEW i \in DOMAIN insts, NEW id, InContext(i, id)
        PROVE  InContext(i, id)'
    <3>1. insts'[i].context404 = insts[i].context404
      BY <1>3, Same404
    <3>2. insts[i].context404 \in DOMAIN contexts
      BY <2>1, ListedIs DEF InContext, Bounds404
    <3>3. contexts'[insts[i].context404].id = contexts[insts[i].context404].id
      BY <1>3, <3>2, ContextsStay DEF Bounds404
    <3> QED BY <2>1, <3>1, <3>3 DEF InContext
  <2>2. Jobs404 \subseteq Jobs404'
    BY <1>3, NextJobs DEF Usual
  <2>3. ASSUME NEW n \in SetsAt
        PROVE  InContext(LevelOf(n), log[n].id)' \/ \E j \in Jobs404' : AskedFor(j, n)'
    <3>1. CASE InContext(LevelOf(n), log[n].id)
      <4>1. PICK l, x : l = LevelOf(n) /\ x = log[n].id
        OBVIOUS
      <4>2. l \in DOMAIN insts /\ LevelOf(n)' = l /\ log'[n].id = x
        BY <4>1, Same404
      <4>3. InContext(l, x)'
        BY <2>1, <3>1, <4>1, <4>2
      <4> QED BY <4>2, <4>3
    <3>2. CASE \E j \in Jobs404 : AskedFor(j, n)
      BY <1>2, <2>2, <3>2
    <3> QED BY <1>1, <3>1, <3>2 DEF HandlersIn
  <2>4. ASSUME NEW n \in SetsAt', n \notin SetsAt
        PROVE  \E j \in Jobs404' : AskedFor(j, n)'
    <3>1. PICK c \in api.uses : Asks404(c) /\ Jobs404' = Jobs404 \cup {RouteJob(c, Me, Here)}
      BY <1>3, <2>4, Logged404, NextJobs DEF Usual
    <3>2. log'[n].inst = Here /\ log'[n].id = Me /\ log'[n].arg = Arg404(c)
      BY <2>4, <3>1, NewAsked
    <3>3. PICK j : j = RouteJob(c, Me, Here)
      OBVIOUS
    <3>4. j.inst = Here /\ j.id = Me /\ j.call = c
      BY <3>3 DEF RouteJob
    <3>5. c.handler \/ Arg404(c) = "default"
      BY DEF Arg404
    <3>6. AskedFor(j, n)'
      BY <3>2, <3>4, <3>5 DEF AskedFor
    <3> QED BY <3>1, <3>3, <3>6
  <2>5. ASSUME NEW i \in DOMAIN insts', insts'[i].context404 # 0
        PROVE  (i = 1 /\ InContext(1, 0)') \/ \E n \in SetsAt' : LevelOf(n)' = i /\ InContext(i, log[n].id)'
    <3>1. i \in DOMAIN insts /\ insts[i].context404 # 0
      BY <1>3, <2>5, Same404
    <3>2. CASE i = 1 /\ InContext(1, 0)
      BY <2>1, <3>1, <3>2
    <3>3. CASE \E n \in SetsAt : LevelOf(n) = i /\ InContext(i, log[n].id)
      <4>1. PICK n \in SetsAt : LevelOf(n) = i /\ InContext(i, log[n].id)
        BY <3>3
      <4>2. PICK x : x = log[n].id
        OBVIOUS
      <4>3. n \in SetsAt' /\ LevelOf(n)' = i /\ log'[n].id = x
        BY <4>1, <4>2, Same404
      <4>4. InContext(i, x)'
        BY <2>1, <3>1, <4>1, <4>2
      <4> QED BY <4>3, <4>4
    <3> QED BY <1>1, <3>1, <3>2, <3>3 DEF HandlersIn
  <2> QED BY <2>3, <2>4, <2>5 DEF HandlersIn
<1>4. CASE RunSetNotFound
  <2>1. SetsAt' = SetsAt
    BY <1>4, Logged404, NextJobs
  <2>2. Current \in Jobs404 /\ Jobs404 \subseteq Jobs404' \cup {Current}
    BY <1>4, NextJobs
  <2>3. CASE contexts = <<>>
    <3>1. /\ Current = DefaultJob
          /\ \A k \in DOMAIN insts' : insts'[k].context404 # 0 => k = 1 /\ InContext(1, 0)'
      BY <1>4, <2>3, RunFirst
    <3>2. Current.id = 0
      BY <3>1 DEF DefaultJob, RouteJob
    <3>3. ASSUME NEW n \in SetsAt
          PROVE  \E j \in Jobs404' : AskedFor(j, n)'
      <4>1. LevelOf(n) \in DOMAIN insts
        BY Same404
      <4>2. ~InContext(LevelOf(n), log[n].id)
        BY <2>3, <4>1, NoneYet DEF InContext
      <4>3. PICK j \in Jobs404 : AskedFor(j, n)
        BY <1>1, <4>2 DEF HandlersIn
      <4>4. j # Current
        BY <3>2, <4>3 DEF AskedFor, One404
      <4> QED BY <1>2, <2>2, <4>3, <4>4
    <3> QED BY <2>1, <3>1, <3>3 DEF HandlersIn
  <2>4. CASE contexts # <<>>
    <3>1. PICK n \in SetsAt : AskedFor(Current, n)
      BY <2>2, <2>4 DEF JobsLogged
    <3> DEFINE L == LevelOf(n)
    <3>2. /\ log[n].arg # "default" /\ insts[Current.inst].prefix # Slash
          /\ L = insts[Current.inst].level /\ Given404(Current) = log[n].id
      BY <1>1, <3>1 DEF Usual, AskedFor, Given404, LevelOf
    <3>0. PICK l, id : l = L /\ id = log[n].id
      OBVIOUS
    <3>3. Puts404(l, id)
      BY <1>4, <2>4, <3>0, <3>2, RunPuts
    <3>4. l \in DOMAIN insts /\ n \in SetsAt' /\ LevelOf(n)' = l /\ log'[n].id = id
      BY <3>0, Same404
    <3> HIDE DEF L
    <3>5. InContext(l, id)'
      BY <3>3 DEF Puts404, InContext
    <3>6. ASSUME NEW i \in DOMAIN insts, i # l, NEW x, InContext(i, x)
          PROVE  InContext(i, x)'
      BY <3>3, <3>6 DEF Puts404, InContext
    <3>7. ASSUME NEW m \in SetsAt
          PROVE  InContext(LevelOf(m), log[m].id)' \/ \E j \in Jobs404' : AskedFor(j, m)'
      <4>0. PICK k, x : k = LevelOf(m) /\ x = log[m].id
        OBVIOUS
      <4>1. k \in DOMAIN insts /\ LevelOf(m)' = k /\ log'[m].id = x
        BY <4>0, Same404
      <4>2. CASE m = n
        BY <3>4, <3>5, <4>2
      <4>3. CASE m # n
        <5>1. log[m].arg # "default"
          BY <1>1 DEF Usual
        <5>2. LevelOf(m) # l
          BY <3>0, <3>2, <4>3, <5>1 DEF One404, L
        <5>3. CASE InContext(LevelOf(m), log[m].id)
          <6>1. InContext(k, x)'
            BY <3>6, <4>0, <4>1, <5>2, <5>3
          <6> QED BY <4>1, <6>1
        <5>4. CASE \E j \in Jobs404 : AskedFor(j, m)
          <6>1. PICK j \in Jobs404 : AskedFor(j, m)
            BY <5>4
          <6>2. j # Current
            BY <3>0, <3>2, <5>2, <6>1 DEF AskedFor, LevelOf
          <6> QED BY <1>2, <2>2, <6>1, <6>2
        <5> QED BY <1>1, <5>3, <5>4 DEF HandlersIn
      <4> QED BY <4>2, <4>3
    <3>8. ASSUME NEW i \in DOMAIN insts', insts'[i].context404 # 0
          PROVE  (i = 1 /\ InContext(1, 0)') \/ \E m \in SetsAt' : LevelOf(m)' = i /\ InContext(i, log[m].id)'
      <4>1. i \in DOMAIN insts
        BY <3>8, Same404
      <4>2. CASE i = l
        BY <3>4, <3>5, <4>2
      <4>3. CASE i # l
        <5>1. insts[i].context404 # 0
          BY <3>3, <3>8, <4>1, <4>3 DEF Puts404
        <5>2. CASE i = 1 /\ InContext(1, 0)
          BY <3>6, <4>1, <4>3, <5>2
        <5>3. CASE \E m \in SetsAt : LevelOf(m) = i /\ InContext(i, log[m].id)
          <6>1. PICK m \in SetsAt : LevelOf(m) = i /\ InContext(i, log[m].id)
            BY <5>3
          <6>2. PICK x : x = log[m].id
            OBVIOUS
          <6>3. m \in SetsAt' /\ LevelOf(m)' = i /\ log'[m].id = x
            BY <6>1, <6>2, Same404
          <6>4. InContext(i, x)'
            BY <3>6, <4>1, <4>3, <6>1, <6>2
          <6> QED BY <6>3, <6>4
        <5> QED BY <1>1, <4>1, <5>1, <5>2, <5>3 DEF HandlersIn
      <4> QED BY <4>2, <4>3
    <3> QED BY <2>1, <3>7, <3>8 DEF HandlersIn
  <2> QED BY <2>3, <2>4
<1> QED BY <1>3, <1>4

-----------------------------------------------------------------------------
(* The 404 context that an instance finds, and the copy of it that a route *)
(* takes when its listener runs.                                           *)

LEMMA Context404There ==
  ASSUME Shape, Bounds404, contexts # <<>>, NEW i \in DOMAIN insts
  PROVE  \E j \in insts[i].chain :
           /\ j \in DOMAIN insts /\ insts[j].context404 # 0
           /\ Context404Of(insts, i) = insts[j].context404
           /\ \A k \in insts[i].chain : k \in DOMAIN insts /\ insts[k].context404 # 0 => k <= j
<1> DEFINE S == {k \in DOMAIN insts : insts[k].context404 # 0}
           j == Nearest(insts, i, S)
<1>1. 1 \in insts[i].chain \cap S
  BY DEF Bounds404, Shape, Tree
<1>2. j \in insts[i].chain \cap S /\ j # 0 /\ \A k \in insts[i].chain \cap S : k <= j
  <2> HIDE DEF S
  <2>1. S \subseteq DOMAIN insts
    BY DEF S
  <2> QED BY <1>1, <2>1, NearestOf DEF Shape
<1>3. Context404Of(insts, i) = insts[j].context404
  BY <1>2 DEF Context404Of
<1> HIDE DEF j
<1> QED BY <1>2, <1>3

LEMMA Settled404 ==
  ASSUME Shape, Levels, Bounds404, [Next]_vars, phase # "loading", contexts # <<>>, NEW i \in DOMAIN insts
  PROVE  contexts'[Context404Of(insts', i)].id = contexts[Context404Of(insts, i)].id
<1>1. ~RunSetNotFound /\ ~LoadPlugin
  BY DEF RunSetNotFound, LoadPlugin, Running
<1>2. DOMAIN insts' = DOMAIN insts /\ insts'[i].chain = insts[i].chain
  BY <1>1, NextInsts DEF InstsKept, SameBut, Shape
<1>3. \A k \in DOMAIN insts : insts'[k].context404 = insts[k].context404
  BY <1>1, Same404
<1>4. PICK c : c = Context404Of(insts, i)
  OBVIOUS
<1>5. c \in DOMAIN contexts
  <2>1. PICK j \in DOMAIN insts : insts[j].context404 # 0 /\ c = insts[j].context404
    BY <1>4, Context404There
  <2> QED BY <2>1, ListedIs DEF Bounds404
<1>6. Context404Of(insts', i) = c
  <2> DEFINE S == {k \in DOMAIN insts : insts[k].context404 # 0}
             j == Nearest(insts, i, S)
  <2>1. {k \in DOMAIN insts' : insts'[k].context404 # 0} = S
    BY <1>2, <1>3
  <2>2. Nearest(insts', i, S) = j
    BY <1>2 DEF Nearest
  <2>3. j = 0 \/ j \in DOMAIN insts
    <3> HIDE DEF S
    <3>1. S \subseteq DOMAIN insts
      BY DEF S
    <3> QED BY <3>1, NearestOf DEF Shape
  <2>4. c = IF j = 0 THEN 0 ELSE insts[j].context404
    BY <1>4 DEF Context404Of
  <2>5. Context404Of(insts', i) = IF j = 0 THEN 0 ELSE insts'[j].context404
    BY <2>1, <2>2 DEF Context404Of
  <2> HIDE DEF j
  <2> QED BY <1>3, <2>3, <2>4, <2>5
<1>7. contexts'[c].id = contexts[c].id
  BY <1>1, <1>5, ContextsStay DEF Bounds404
<1> QED BY <1>4, <1>6, <1>7

LEMMA Copied404 ==
  ASSUME Shape, RouteListener
  PROVE  LET k == Head(listeners).at
         IN routes'[k].notFound.id = contexts[Context404Of(insts, routes[k].inst)].id
<1> DEFINE k == Head(listeners).at
           c == routes[k]
           hooks == AllHooks(insts, c.inst, c.own)
           hooked == [c EXCEPT !.hooks = hooks]
           nf == SetContext(insts, hooked, contexts)
           compiled == IF BuildFails(insts, c) THEN c.compiled ELSE Compiled(insts, c)
           w == RouteReady(insts, contexts, c)
<1>1. k \in DOMAIN routes
  BY ListenerRoutes
<1>2. routes' = [routes EXCEPT ![k] = w]
  BY DEF RouteListener
<1>3. w = [hooked EXCEPT !.notFound = nf, !.compiled = compiled]
  BY DEF RouteReady
<1>4. nf.id = contexts[Context404Of(insts, hooked.inst)].id
  BY DEF SetContext
<1>5. hooked.inst = c.inst
  OBVIOUS
<1> HIDE DEF w, nf, compiled, hooked
<1>6. w.notFound = nf
  BY <1>3 DEF hooked
<1> HIDE DEF k
<1>7. routes'[k] = w
  BY <1>1, <1>2
<1> QED BY <1>4, <1>5, <1>6, <1>7 DEF k

LEMMA NextFinishing404 ==
  ASSUME Shape, Levels, DefaultFirst, Bounds404, Finishing, Finishing404, [Next]_vars
  PROVE  Finishing404'
<1>1. ASSUME NEW k \in DOMAIN routes, phase \in {"preReady", "started"}, Done404(k),
             routes'[k] = routes[k]
      PROVE  Done404(k)'
  <2>1. contexts # <<>> /\ phase # "loading" /\ routes[k].inst \in DOMAIN insts
    BY <1>1 DEF DefaultFirst, Shape, Registry
  <2> QED BY <1>1, <2>1, Settled404 DEF Done404
<1>2. CASE phase = "loading" /\ phase' \in {"loading", "crashed"}
  BY <1>2 DEF Finishing404
<1>3. CASE phase = "loading" /\ phase' = "preReady" /\ UNCHANGED <<routes, listeners>>
  BY <1>3 DEF Finishing, Finishing404, Waiting
<1>4. CASE phase = "preReady" /\ phase' = "preReady" /\ RouteListener
  <2>0. PICK now : now = Head(listeners).at
    OBVIOUS
  <2>1. /\ now \in DOMAIN routes /\ DOMAIN routes' = DOMAIN routes /\ routes'[now].inst = routes[now].inst
        /\ \A n \in DOMAIN routes : n # now => routes'[n] = routes[n]
    BY <1>4, <2>0, ListenerRoutes DEF Finished
  <2>2. Errored => Errored'
    BY <1>4, ListenerErrs
  <2>3. Done404(now)'
    <3>1. contexts # <<>> /\ phase # "loading" /\ routes[now].inst \in DOMAIN insts
      BY <1>4, <2>1 DEF DefaultFirst, Shape, Registry
    <3>2. routes'[now].notFound.id = contexts[Context404Of(insts, routes[now].inst)].id
      BY <1>4, <2>0, Copied404
    <3> QED BY <2>1, <3>1, <3>2, Settled404 DEF Done404
  <2>4. ASSUME NEW k \in DOMAIN routes
        PROVE  Errored' \/ Waiting(k)' \/ Done404(k)'
    <3>1. Errored \/ Waiting(k) \/ Done404(k)
      BY <1>4 DEF Finishing404
    <3>2. CASE k = now
      BY <2>3, <3>2
    <3>3. CASE k # now /\ Done404(k)
      BY <1>1, <1>4, <2>1, <3>3
    <3>4. CASE k # now /\ Waiting(k)
      BY <1>4, <2>0, <2>1, <3>4, ListenerRuns
    <3> QED BY <2>2, <3>1, <3>2, <3>3, <3>4
  <2> QED BY <1>4, <2>1, <2>4 DEF Finishing404
<1>5. CASE phase = "preReady" /\ phase' = "preReady" /\ NotFoundListener
  <2>1. UNCHANGED routes /\ Errored' = Errored
    BY <1>5, SameErrored DEF NotFoundListener
  <2>2. ASSUME NEW k \in DOMAIN routes
        PROVE  Errored' \/ Waiting(k)' \/ Done404(k)'
    <3>1. Errored \/ Waiting(k) \/ Done404(k)
      BY <1>5 DEF Finishing404
    <3>2. CASE Done404(k)
      BY <1>1, <1>5, <2>1, <3>2
    <3>3. CASE Waiting(k)
      <4>1. ~RouteListener
        BY <1>5, ListenerThere DEF RouteListener, NotFoundListener
      <4> QED BY <1>5, <2>1, <3>3, <4>1, ListenerRuns
    <3> QED BY <2>1, <3>1, <3>2, <3>3
  <2> QED BY <1>5, <2>1, <2>2 DEF Finishing404
<1>6. CASE /\ phase = "preReady" /\ listeners = <<>> /\ phase' = IF Errored THEN "failed" ELSE "started"
           /\ UNCHANGED <<bootErr, insts, routes, listeners, log>>
  <2>1. DOMAIN listeners = {}
    BY <1>6
  <2>2. \A k \in DOMAIN routes : Errored \/ Done404(k)
    BY <1>6, <2>1 DEF Finishing404, Waiting
  <2>3. phase' = "started" => \A k \in DOMAIN routes : Done404(k)'
    BY <1>1, <1>6, <2>2
  <2> QED BY <1>6, <2>3 DEF Finishing404
<1>7. CASE UNCHANGED <<phase, bootErr, routes, listeners, log>>
  <2>1. ASSUME NEW k \in DOMAIN routes, Done404(k), phase \in {"preReady", "started"}
        PROVE  Done404(k)'
    BY <1>1, <1>7, <2>1
  <2> QED BY <1>7, <2>1, SameErrored DEF Finishing404, Waiting
<1> QED BY <1>2, <1>3, <1>4, <1>5, <1>6, <1>7, NextPhase

-----------------------------------------------------------------------------
(* The 404 part of the inductive invariant.                                *)

LEMMA InitNotFound == Init => NotFoundInv /\ Finishing404
<1> SUFFICES ASSUME Init PROVE NotFoundInv /\ Finishing404
  OBVIOUS
<1>1. /\ DOMAIN insts = {1} /\ insts[1] = Fastify /\ contexts = <<>> /\ DOMAIN routes = {}
      /\ phase = "loading" /\ SetsAt = {}
  <2>1. log = <<>> /\ DOMAIN log = {}
    BY DEF Init
  <2> QED BY <2>1 DEF Init, SetsAt
<1>2. Fastify.prefix = <<>> /\ Fastify.level = 1 /\ Fastify.chain = {1} /\ Fastify.context404 = 0
  BY DEF Fastify
<1>3. Listed(<<>>) /\ Elements(<<>>) = {} /\ Len(<<>>) = 0
  BY DEF Listed, Elements
<1>4. Levels
  <2>1. 1 \in 1..1 /\ 1 <= 1
    OBVIOUS
  <2> QED BY <1>1, <1>2, <1>3, <2>1 DEF Levels
<1>5. One404
  BY <1>1 DEF One404
<1>6. /\ Len(frames) = 1 /\ Top.jobs = <<DefaultJob>> /\ JobsOf(frames) = Elements(<<DefaultJob>>)
  <2> DEFINE f == [Frame(1, "body") EXCEPT !.jobs = <<DefaultJob>>]
  <2>1. f.jobs = <<DefaultJob>>
    BY DEF Frame
  <2>2. frames = <<f>>
    BY DEF Init
  <2> HIDE DEF f
  <2>3. Len(frames) = 1 /\ Head(frames) = f /\ DOMAIN frames = {1} /\ frames[1] = f
    BY <2>2
  <2>4. Elements(frames) = {f}
    BY <2>3 DEF Elements
  <2> QED BY <2>1, <2>3, <2>4 DEF Top, JobsOf
<1>7. /\ Elements(<<DefaultJob>>) = {DefaultJob} /\ Head(<<DefaultJob>>) = DefaultJob
      /\ Tail(<<DefaultJob>>) = <<>> /\ <<DefaultJob>> # <<>>
  <2>1. \A e : /\ DOMAIN <<e>> = {1} /\ <<e>>[1] = e /\ Head(<<e>>) = e
               /\ Tail(<<e>>) = <<>> /\ <<e>> # <<>>
    OBVIOUS
  <2> QED BY <2>1 DEF Elements
<1>8. DefaultFirst
  BY <1>1, <1>3, <1>6, <1>7 DEF DefaultFirst, Current
<1>9. JobsLogged
  BY <1>1, <1>6, <1>7 DEF JobsLogged, Jobs404
<1>10. Idle404
  BY <1>1 DEF Idle404
<1>11. Bounds404
  BY <1>1, <1>2, <1>3 DEF Bounds404
<1>12. HandlersIn
  BY <1>1, <1>2 DEF HandlersIn
<1> QED BY <1>1, <1>4, <1>5, <1>8, <1>9, <1>10, <1>11, <1>12 DEF NotFoundInv, Finishing404

LEMMA NextNotFound ==
  ASSUME Shape, Finishing, NotFoundInv, Finishing404, [Next]_vars
  PROVE  NotFoundInv' /\ Finishing404'
BY NextLevels, NextOne404, NextDefaultFirst, NextJobsLogged, NextIdle404, NextBounds404,
   NextHandlersIn, NextFinishing404 DEF NotFoundInv

IInv404 == InheritIInv /\ NotFoundInv /\ Finishing404
LEMMA Inductive404 == Spec => [](IInv404 /\ ErrorsReported)
<1>1. Init => NotFoundInv /\ Finishing404
  BY InitNotFound
<1>2. InheritIInv /\ (NotFoundInv /\ Finishing404) /\ [Next]_vars => (NotFoundInv /\ Finishing404)'
  BY NextNotFound DEF InheritIInv
<1>3. InheritIInv /\ NotFoundInv /\ Finishing404 => IInv404
  BY DEF IInv404
<1> QED BY <1>1, <1>2, <1>3, InheritInductive, ErrorsAreReported, PTL DEF Spec

(* In the boots that the two properties are about every handler is in the  *)
(* context of its level.                                                   *)
LEMMA AllIn ==
  ASSUME IInv404, ErrorsReported, Ready, Clean, OwnNotFound
  PROVE  /\ HandlersIn /\ contexts # <<>> /\ NotFoundSet = {log[n] : n \in SetsAt}
         /\ \A n \in SetsAt : log[n].arg # "default" /\ InContext(LevelOf(n), log[n].id)
<1>1. NotFoundSet = {log[n] : n \in SetsAt}
  BY DEF NotFoundSet, Took, SetsAt
<1>2. ~Failed
  BY CleanIs DEF ErrorsReported, Told, Failed, Untaken
<1>3. Usual
  BY <1>1, <1>2 DEF Usual, OwnNotFound
<1>4. HandlersIn /\ Jobs404 = {} /\ contexts # <<>>
  BY <1>3 DEF IInv404, NotFoundInv, Idle404, DefaultFirst, Ready
<1> QED BY <1>1, <1>3, <1>4 DEF HandlersIn, Usual

(* When no boot error was taken and every call of setNotFoundHandler gave  *)
(* a handler for a prefix of its own, none of them is lost: the router of  *)
(* a started server has a context with each (fastify.js                    *)
(* setNotFoundHandler, lib/fourOhFour.js).                                 *)
THEOREM NotFoundHandlersStay == Spec => []NotFoundHandlersKept
<1>1. IInv404 /\ ErrorsReported => NotFoundHandlersKept
  <2> SUFFICES ASSUME IInv404, ErrorsReported, Ready, Clean, OwnNotFound, NEW e \in NotFoundSet
               PROVE  \E k \in DOMAIN contexts : contexts[k].id = e.id
    BY DEF NotFoundHandlersKept
  <2>1. PICK n \in SetsAt : e = log[n]
    BY AllIn
  <2>2. InContext(LevelOf(n), e.id) /\ LevelOf(n) \in DOMAIN insts
    <3>1. log[n].inst \in DOMAIN insts /\ DOMAIN insts = 1..Len(insts) /\ Len(insts) \in Nat
      BY ListedIs DEF SetsAt, IInv404, InheritIInv, Shape, Entries, Tree
    <3>2. LevelOf(n) \in 1..log[n].inst
      BY <3>1 DEF IInv404, NotFoundInv, Levels, LevelOf
    <3>3. LevelOf(n) \in DOMAIN insts
      BY <3>1, <3>2
    <3> QED BY <2>1, <3>3, AllIn
  <2>3. insts[LevelOf(n)].context404 \in DOMAIN contexts
    <3> DEFINE c == insts[LevelOf(n)].context404
    <3>1. c # 0 /\ c \in 0..Len(contexts) /\ DOMAIN contexts = 1..Len(contexts) /\ Len(contexts) \in Nat
      BY <2>2, ListedIs DEF IInv404, NotFoundInv, Bounds404, InContext
    <3> HIDE DEF c
    <3>2. c \in DOMAIN contexts
      BY <3>1
    <3> QED BY <3>2 DEF c
  <2> QED BY <2>2, <2>3 DEF InContext
<1> QED BY <1>1, Inductive404, PTL

(* In the same boots reply.callNotFound of a route gets the handler of the *)
(* nearest prefix around the route that was given one, set before or after *)
(* the route was declared, and the default one where none was              *)
(* (lib/reply.js callNotFound, lib/fourOhFour.js setContext).              *)
THEOREM NotFoundOfNearestLevel == Spec => []NotFoundHandlerOfLevel
<1>1. IInv404 /\ ErrorsReported => NotFoundHandlerOfLevel
  <2> SUFFICES ASSUME IInv404, ErrorsReported, Ready, Clean, OwnNotFound, NEW k \in DOMAIN routes
               PROVE  LET set  == {e \in NotFoundSet : insts[e.inst].level \in insts[routes[k].inst].chain}
                          near == {e \in set : \A d \in set : insts[d.inst].level <= insts[e.inst].level}
                      IN routes[k].notFound.id = Max({0} \cup {e.id : e \in near})
    BY DEF NotFoundHandlerOfLevel
  <2> DEFINE i    == routes[k].inst
             set  == {e \in NotFoundSet : insts[e.inst].level \in insts[i].chain}
             near == {e \in set : \A d \in set : insts[d.inst].level <= insts[e.inst].level}
             id   == routes[k].notFound.id
  <2>1. /\ HandlersIn /\ NotFoundSet = {log[n] : n \in SetsAt}
        /\ \A n \in SetsAt : log[n].arg # "default" /\ InContext(LevelOf(n), log[n].id)
    BY AllIn
  <2>2. i \in DOMAIN insts /\ id = contexts[Context404Of(insts, i)].id
    BY DEF IInv404, Finishing404, Done404, Ready, InheritIInv, Shape, Registry
  <2>3. PICK j \in insts[i].chain :
          /\ j \in DOMAIN insts /\ insts[j].context404 # 0
          /\ Context404Of(insts, i) = insts[j].context404
          /\ \A m \in insts[i].chain : m \in DOMAIN insts /\ insts[m].context404 # 0 => m <= j
    BY <2>2, AllIn, Context404There DEF IInv404, NotFoundInv, InheritIInv
  <2>4. InContext(j, id) /\ insts[i].chain \subseteq DOMAIN insts /\ DOMAIN insts \subseteq Nat \ {0}
    <3>1. DOMAIN insts = 1..Len(insts) /\ Len(insts) \in Nat /\ insts[i].chain \subseteq 1..i
      BY <2>2, ListedIs DEF IInv404, InheritIInv, Shape, Tree
    <3> QED BY <2>2, <2>3, <3>1 DEF InContext
  <2>5. \A n \in SetsAt : LevelOf(n) \in insts[i].chain => LevelOf(n) <= j
    BY <2>1, <2>3, <2>4 DEF InContext
  <2>6. \A n \in SetsAt : log[n].id \in Nat \ {0}
    BY DEF IInv404, NotFoundInv, One404
  <2> HIDE DEF id, i
  <2>7. CASE \E n \in SetsAt : LevelOf(n) = j /\ InContext(j, log[n].id)
    <3>1. PICK n \in SetsAt : LevelOf(n) = j /\ InContext(j, log[n].id)
      BY <2>7
    <3>2. id = log[n].id
      BY <2>4, <3>1 DEF InContext
    <3>3. log[n] \in near
      <4>1. log[n] \in set
        BY <2>1, <2>3, <3>1 DEF LevelOf
      <4>2. ASSUME NEW d \in set
            PROVE  insts[d.inst].level <= insts[log[n].inst].level
        <5>1. PICK m \in SetsAt : d = log[m]
          BY <2>1
        <5> QED BY <2>5, <3>1, <5>1 DEF LevelOf
      <4> QED BY <4>1, <4>2
    <3>4. ASSUME NEW e \in near
          PROVE  e = log[n]
      <4>1. PICK m \in SetsAt : e = log[m]
        BY <2>1
      <4>2. LevelOf(m) \in insts[i].chain /\ j <= LevelOf(m)
        BY <3>1, <3>3, <4>1 DEF LevelOf
      <4>3. LevelOf(m) = j
        BY <2>4, <2>5, <4>2
      <4>4. m = n
        BY <2>1, <3>1, <4>3 DEF IInv404, NotFoundInv, One404
      <4> QED BY <4>1, <4>4
    <3>5. {e.id : e \in near} = {id}
      <4> HIDE DEF near, set
      <4> QED BY <3>2, <3>3, <3>4
    <3>6. Max({0} \cup {id}) = id
      <4>1. id \in Nat
        BY <2>6, <3>2
      <4>2. {0} \cup {id} \subseteq Int /\ id \in {0} \cup {id} /\ \A y \in {0} \cup {id} : y <= id
        BY <4>1
      <4> QED BY <4>2, MaxIs
    <3> HIDE DEF near, set
    <3>7. id = Max({0} \cup {e.id : e \in near})
      BY <3>5, <3>6
    <3> QED BY <3>7 DEF near, set, id, i
  <2>8. CASE j = 1 /\ InContext(1, 0)
    <3>1. id = 0
      BY <2>4, <2>8 DEF InContext
    <3>2. ASSUME NEW n \in SetsAt
          PROVE  LevelOf(n) \notin insts[i].chain
      <4>1. SUFFICES ASSUME LevelOf(n) \in insts[i].chain PROVE FALSE
        OBVIOUS
      <4>2. LevelOf(n) = 1
        BY <2>4, <2>5, <2>8, <4>1
      <4> QED BY <2>1, <2>6, <2>8, <4>2 DEF InContext
    <3>3. set = {}
      BY <2>1, <3>2 DEF LevelOf
    <3>4. {e.id : e \in near} = {}
      BY <3>3
    <3>5. Max({0} \cup {}) = 0
      <4>1. {0} \cup {} \subseteq Int /\ 0 \in {0} \cup {} /\ \A y \in {0} \cup {} : y <= 0
        OBVIOUS
      <4> QED BY <4>1, MaxIs
    <3> HIDE DEF near, set
    <3>6. id = Max({0} \cup {e.id : e \in near})
      BY <3>1, <3>4, <3>5
    <3> QED BY <3>6 DEF near, set, id, i
  <2> QED BY <2>1, <2>3, <2>7, <2>8 DEF HandlersIn
<1> QED BY <1>1, Inductive404, PTL
-----------------------------------------------------------------------------
(* Types.  Every instance is of a level of its chain, and its hooks and    *)
(* its parsers are those of calls that were made.                          *)

HookIdsIn(hooks, n) == \A h \in HookNames : \A k \in DOMAIN hooks[h] : hooks[h][k].id \in 1..n
CustomIn(p, n) == p.custom \in [DOMAIN p.custom -> 0..n]
OfCalls(instance, n) == HookIdsIn(instance.hooks, n) /\ CustomIn(instance.parsers, n)
Made ==
  \A i \in DOMAIN insts : insts[i].level \in insts[i].chain /\ OfCalls(insts[i], calls)
PhaseType == phase \in {"loading", "preReady", "started", "failed", "crashed"}
CallsType == calls <= api.calls

LEMMA MoreCalls ==
  ASSUME NEW n \in Nat, NEW m \in Nat, n <= m
  PROVE  /\ \A hooks : HookIdsIn(hooks, n) => HookIdsIn(hooks, m)
         /\ \A p : CustomIn(p, n) => CustomIn(p, m)
<1>1. 1..n \subseteq 1..m /\ 0..n \subseteq 0..m
  OBVIOUS
<1>2. ASSUME NEW hooks, HookIdsIn(hooks, n)
      PROVE  HookIdsIn(hooks, m)
  BY <1>1, <1>2 DEF HookIdsIn
<1>3. ASSUME NEW p, CustomIn(p, n)
      PROVE  CustomIn(p, m)
  <2>1. p.custom = [t \in DOMAIN p.custom |-> p.custom[t]] /\ \A t \in DOMAIN p.custom : p.custom[t] \in 0..n
    BY <1>3 DEF CustomIn
  <2>2. \A t \in DOMAIN p.custom : p.custom[t] \in 0..m
    BY <1>1, <2>1
  <2> QED BY <2>1, <2>2 DEF CustomIn
<1> QED BY <1>2, <1>3

(* The three operations on the parsers of an instance.                     *)
LEMMA ParsersOf ==
  ASSUME NEW n \in Nat, NEW p, CustomIn(p, n), NEW type
  PROVE  /\ CustomIn(BuildContentTypeParser(p), n)
         /\ CustomIn(AfterLookup(p, type), n)
         /\ \A id \in 0..n : CustomIn(AddParser(p, type, id), n)
<1>1. BuildContentTypeParser(p).custom = p.custom
  BY DEF BuildContentTypeParser, ContentTypeParser
<1>2. AfterLookup(p, type).custom = p.custom
  BY DEF AfterLookup
<1>3. ASSUME NEW id \in 0..n
      PROVE  CustomIn(AddParser(p, type, id), n)
  <2> DEFINE key == IF type = "*" THEN "" ELSE type
             new == WithKey(p.custom, key, id)
  <2>1. AddParser(p, type, id).custom = new
    BY DEF AddParser
  <2> HIDE DEF key
  <2>2. \A t \in DOMAIN p.custom : p.custom[t] \in 0..n
    BY DEF CustomIn
  <2>3. new = [t \in DOMAIN p.custom \cup {key} |-> IF t = key THEN id ELSE p.custom[t]]
    BY DEF WithKey
  <2>4. new \in [DOMAIN new -> 0..n]
    BY <2>2, <2>3
  <2> QED BY <2>1, <2>4 DEF CustomIn
<1> QED BY <1>1, <1>2, <1>3 DEF CustomIn

LEMMA HookAdded ==
  ASSUME NEW n \in Nat, NEW hooks, HookIdsIn(hooks, n), NEW name, NEW hook, hook.id \in 1..n,
         DOMAIN hooks = HookNames, \A h \in HookNames : Listed(hooks[h])
  PROVE  HookIdsIn([hooks EXCEPT ![name] = Append(@, hook)], n)
<1> SUFFICES ASSUME NEW h \in HookNames
             PROVE  \A k \in DOMAIN [hooks EXCEPT ![name] = Append(@, hook)][h] :
                      [hooks EXCEPT ![name] = Append(@, hook)][h][k].id \in 1..n
  BY DEF HookIdsIn
<1>1. CASE h # name
  BY <1>1 DEF HookIdsIn
<1>2. CASE h = name
  <2>1. [hooks EXCEPT ![name] = Append(@, hook)][h] = Append(hooks[h], hook)
    BY <1>2
  <2>2. /\ DOMAIN Append(hooks[h], hook) = DOMAIN hooks[h] \cup {Len(hooks[h]) + 1}
        /\ Append(hooks[h], hook)[Len(hooks[h]) + 1] = hook
        /\ \A k \in DOMAIN hooks[h] : Append(hooks[h], hook)[k] = hooks[h][k]
    BY ListAppend
  <2>3. \A k \in DOMAIN hooks[h] : hooks[h][k].id \in 1..n
    BY DEF HookIdsIn
  <2> QED BY <2>1, <2>2, <2>3
<1> QED BY <1>1, <1>2

(* What a step does to the parsers of an instance that is there.           *)
LEMMA ParsersKept ==
  ASSUME Shape, Made, [Next]_vars, NEW i \in DOMAIN insts
  PROVE  CustomIn(insts'[i].parsers, calls')
<1>1. CustomIn(insts[i].parsers, calls) /\ calls \in Nat /\ calls' \in Nat /\ calls <= calls'
  BY CallsGrow DEF Made, OfCalls, Shape
<1>2. CustomIn(insts[i].parsers, calls')
  BY <1>1, MoreCalls
<1>3. DOMAIN insts' = DOMAIN insts \/ LoadPlugin
  BY NextInsts DEF InstsKept, Shape
<1>4. CASE ~ParserStep
  BY <1>2, <1>4, NextInsts DEF InstsKept, SameBut, Shape
<1>5. ASSUME NEW j, NEW v, insts' = [insts EXCEPT ![j].parsers = v],
             j = i => CustomIn(v, calls')
      PROVE  CustomIn(insts'[i].parsers, calls')
  <2> DEFINE w == [insts[j] EXCEPT !.parsers = v]
  <2>1. w.parsers = v /\ insts' = [insts EXCEPT ![j] = w]
    BY <1>5
  <2> HIDE DEF w
  <2>2. insts'[i] = IF i = j THEN w ELSE insts[i]
    <3>1. insts = [k \in DOMAIN insts |-> insts[k]]
      BY ListedIs DEF Shape, Tree
    <3> QED BY <2>1, <3>1
  <2> QED BY <1>2, <1>5, <2>1, <2>2
<1>6. ASSUME NEW c \in api.uses, CallAddContentTypeParser(c)
      PROVE  CustomIn(insts'[i].parsers, calls')
  <2>1. calls' = calls + 1 /\ Me = calls + 1
    BY <1>6 DEF CallAddContentTypeParser, Calling, Me
  <2>2. CASE insts' = insts
    BY <1>2, <2>2
  <2>3. CASE insts' = [insts EXCEPT ![Here].parsers = AddParser(@, c.type, Me)]
    <3> DEFINE v == AddParser(insts[Here].parsers, c.type, Me)
    <3>1. insts' = [insts EXCEPT ![Here].parsers = v]
      BY <2>3
    <3>2. Me \in 0..calls'
      BY <1>1, <2>1
    <3>3. Here = i => CustomIn(v, calls')
      <4>1. \A id \in 0..calls' : CustomIn(AddParser(insts[i].parsers, c.type, id), calls')
        BY <1>1, <1>2, ParsersOf
      <4> QED BY <3>2, <4>1
    <3> HIDE DEF v
    <3> QED BY <1>5, <3>1, <3>3
  <2> QED BY <1>6, <2>2, <2>3 DEF CallAddContentTypeParser, Sets
<1>7. ASSUME NEW s, NEW k, NEW type, Request(s, k, type)
      PROVE  CustomIn(insts'[i].parsers, calls')
  <2> DEFINE j == routes[k].inst
             v == AfterLookup(insts[j].parsers, type)
  <2>1. insts' = [insts EXCEPT ![j].parsers = v]
    BY <1>7 DEF Request
  <2>2. j = i => CustomIn(v, calls')
    BY <1>1, <1>2, ParsersOf
  <2> HIDE DEF v, j
  <2> QED BY <1>5, <2>1, <2>2
<1>8. CASE Serve
  <2>1. insts' = insts \/ \E s, k, type : Request(s, k, type)
    BY <1>8, ServeCases DEF bootVars, registryVars
  <2> QED BY <1>2, <1>7, <2>1
<1> QED BY <1>4, <1>6, <1>8 DEF ParserStep

LEMMA HooksKept ==
  ASSUME Shape, HooksInv, Made, [Next]_vars, NEW i \in DOMAIN insts
  PROVE  HookIdsIn(insts'[i].hooks, calls')
<1>1. HookIdsIn(insts[i].hooks, calls) /\ calls \in Nat /\ calls' \in Nat /\ calls <= calls'
  BY CallsGrow DEF Made, OfCalls, Shape
<1>2. HookIdsIn(insts[i].hooks, calls')
  BY <1>1, MoreCalls
<1>3. CASE ~RunAddHook
  BY <1>2, <1>3, NextInsts DEF InstsKept, SameBut, Shape
<1>4. CASE RunAddHook
  <2> DEFINE hook == [id |-> Current.id, does |-> Current.call.does]
             name == Current.call.name
             w == [insts[i].hooks EXCEPT ![name] = Append(@, hook)]
  <2>1. insts' = AddHook(insts, Current.inst, name, hook) /\ calls' = calls
    BY <1>4 DEF RunAddHook, Running
  <2>2. hook.id \in 1..calls
    <3>1. JobOn(insts, calls, Current) /\ Current.call.op = "addHook"
      BY <1>4, JobThere DEF RunAddHook, Running
    <3>2. Current.id \in 1..calls
      BY <1>1, <3>1 DEF JobOn
    <3> QED BY <3>2
  <2>3. DOMAIN insts[i].hooks = HookNames /\ \A h \in HookNames : Listed(insts[i].hooks[h])
    BY DEF HooksInv, HooksOf
  <2> HIDE DEF hook, name
  <2>4. HookIdsIn(w, calls)
    BY <1>1, <2>2, <2>3, HookAdded
  <2>5. insts'[i] = insts[i] \/ insts'[i] = [insts[i] EXCEPT !.hooks = w]
    BY <2>1 DEF AddHook
  <2>6. \A v : [insts[i] EXCEPT !.hooks = v].hooks = v
    OBVIOUS
  <2> HIDE DEF w
  <2>7. insts'[i].hooks = insts[i].hooks \/ insts'[i].hooks = w
    BY <2>5, <2>6
  <2> QED BY <1>1, <2>1, <2>4, <2>7
<1> QED BY <1>3, <1>4

LEMMA NextMade ==
  ASSUME Shape, HooksInv, Made, [Next]_vars
  PROVE  Made'
<1>1. /\ calls \in Nat /\ calls' \in Nat /\ calls <= calls' /\ InstsKept
      /\ LoadPlugin => calls' = calls
  BY CallsGrow, NextInsts DEF Shape, LoadPlugin, Running
<1>2. ASSUME NEW i \in DOMAIN insts
      PROVE  insts'[i].level \in insts'[i].chain /\ OfCalls(insts'[i], calls')
  <2>1. insts'[i].level = insts[i].level /\ insts'[i].chain = insts[i].chain
    BY <1>1 DEF InstsKept, SameBut
  <2> QED BY <2>1, ParsersKept, HooksKept DEF Made, OfCalls
<1>3. CASE DOMAIN insts' = DOMAIN insts
  BY <1>2, <1>3 DEF Made
<1>4. CASE LoadPlugin /\ DOMAIN insts' # DOMAIN insts
  <2> DEFINE me == Len(insts) + 1
             i  == Current.inst
  <2>1. /\ i \in DOMAIN insts /\ DOMAIN insts' = DOMAIN insts \cup {me}
        /\ insts'[me].chain = insts[i].chain \cup {me}
        /\ insts'[me].hooks = insts[i].hooks
        /\ insts'[me].parsers = BuildContentTypeParser(insts[i].parsers)
    BY <1>4, Born
  <2>2. insts'[me].level = me \/ insts'[me].level = insts[i].level
    BY <1>4, Born404
  <2> HIDE DEF me, i
  <2>3. insts[i].level \in insts[i].chain /\ HookIdsIn(insts[i].hooks, calls) /\ CustomIn(insts[i].parsers, calls)
    BY <2>1 DEF Made, OfCalls
  <2>4. CustomIn(insts'[me].parsers, calls')
    BY <1>1, <1>4, <2>1, <2>3, ParsersOf
  <2>5. OfCalls(insts'[me], calls')
    BY <1>1, <1>4, <2>1, <2>3, <2>4 DEF OfCalls
  <2> QED BY <1>2, <2>1, <2>2, <2>3, <2>5 DEF Made
<1> QED BY <1>1, <1>3, <1>4 DEF InstsKept

LEMMA InitMade == Init => Made /\ PhaseType /\ CallsType
<1> SUFFICES ASSUME Init PROVE Made /\ PhaseType /\ CallsType
  OBVIOUS
<1>1. DOMAIN insts = {1} /\ insts[1] = Fastify /\ calls = 0
  BY DEF Init
<1>2. /\ Fastify.level = 1 /\ Fastify.chain = {1} /\ Fastify.parsers = ContentTypeParser
      /\ \A h \in HookNames : Fastify.hooks[h] = <<>>
  BY DEF Fastify
<1>3. HookIdsIn(Fastify.hooks, 0)
  BY <1>2 DEF HookIdsIn
<1>4. CustomIn(ContentTypeParser, 0)
  BY DEF CustomIn, ContentTypeParser
<1>5. CallsType
  BY <1>1, TopicsAssumption DEF Init, CallsType
<1> QED BY <1>1, <1>2, <1>3, <1>4, <1>5 DEF Made, OfCalls, PhaseType, Init

LEMMA NextTypes ==
  ASSUME Shape, PhaseType, CallsType, [Next]_vars
  PROVE  PhaseType' /\ CallsType'
<1>1. PhaseType'
  BY NextPhase DEF PhaseType
<1>2. CallsType'
  <2>1. api.calls \in Nat /\ calls \in Nat
    BY TopicsAssumption DEF Shape
  <2> QED BY <2>1, CallsGrow DEF CallsType
<1> QED BY <1>1, <1>2

(* The error of the boot is of a call that was made: of one that throws    *)
(* now, or of one that put a job off, which a route keeps the id of.       *)
RouteIds == \A k \in DOMAIN routes : routes[k].id \in 1..calls
ErrorType == bootErr \in {{}} \cup {{id} : id \in 1..calls}

LEMMA CurrentId ==
  ASSUME Shape, NEW op, Running(op), op # "setNotFoundHandler"
  PROVE  Current.id \in 1..calls
<1>1. JobOn(insts, calls, Current) /\ Current.call.op = op /\ calls \in Nat
  BY JobThere DEF Running, Shape
<1> QED BY <1>1 DEF JobOn

LEMMA NextRouteIds ==
  ASSUME Shape, RouteIds, [Next]_vars
  PROVE  RouteIds'
<1>1. calls \in Nat /\ calls' \in Nat /\ calls <= calls'
  BY CallsGrow DEF Shape
<1>2. CASE ~RunRoute
  BY <1>1, <1>2, RoutesKept DEF RouteIds
<1>3. CASE RunRoute
  <2> DEFINE st == AddRoute(insts, Current, routes, listeners)
  <2>1. routes' = st.routes /\ Current.id \in 1..calls
    BY <1>3, CurrentId DEF RunRoute
  <2>2. RoutesTo(insts, Current, routes, listeners, st.routes, st.listeners)
    BY RoutesAdded DEF Added, Shape, Registry
  <2> HIDE DEF st
  <2> QED BY <1>1, <2>1, <2>2 DEF RouteIds, RoutesTo, NewContext
<1> QED BY <1>2, <1>3

LEMMA NextErrorType ==
  ASSUME Shape, RouteIds, ErrorType, [Next]_vars
  PROVE  ErrorType'
<1>1. calls \in Nat /\ calls' \in Nat /\ calls <= calls'
  BY CallsGrow DEF Shape
<1>2. CASE bootErr' = {} \/ UNCHANGED bootErr
  BY <1>1, <1>2 DEF ErrorType
<1>3. ASSUME NEW c \in api.uses, Call(c)
      PROVE  ErrorType'
  <2>1. Throws(c) => UNCHANGED bootErr \/ bootErr' = {Me}
    BY DEF Throws
  <2>2. calls' = calls + 1 /\ Me = calls + 1
    BY <1>3 DEF Me, Call, Calling, BodyThrows, CallRegister, CallAfter, CallAddHook, CallRoute,
           CallDecorate, CallAddContentTypeParser, CallAddSchema, CallSetCompiler, CallSet,
           CallSetNotFoundHandler
  <2>3. Me \in 1..calls'
    BY <1>1, <2>2
  <2> QED BY <1>2, <1>3, <2>1, <2>3, CallCases DEF ErrorType
<1>4. CASE LoadPlugin \/ RunRoute
  <2>1. Current.id \in 1..calls'
    BY <1>1, <1>4, CurrentId DEF LoadPlugin, RunRoute
  <2>2. bootErr' = {Current.id} \/ UNCHANGED bootErr
    BY <1>4 DEF LoadPlugin, RunRoute
  <2> QED BY <1>2, <2>1, <2>2 DEF ErrorType
<1>5. CASE RouteListener
  <2> DEFINE k == Head(listeners).at
  <2>1. k \in DOMAIN routes
    BY <1>5, ListenerThere DEF RouteListener
  <2>2. routes[k].id \in 1..calls'
    BY <1>1, <2>1 DEF RouteIds
  <2>3. bootErr' = {routes[k].id} \/ UNCHANGED bootErr
    BY <1>5 DEF RouteListener
  <2> HIDE DEF k
  <2> QED BY <1>2, <2>2, <2>3 DEF ErrorType
<1>6. CASE RunAfter
  BY <1>2, <1>6 DEF RunAfter
<1>7. CASE BodyEnds \/ SkipPlugin \/ RunAddHook \/ RunSetNotFound \/ Loaded
           \/ NotFoundListener \/ Start
  BY <1>2, <1>7 DEF BodyEnds, SkipPlugin, RunAddHook, RunSetNotFound, Loaded, NotFoundListener, Start
<1>8. CASE Serve \/ UNCHANGED vars
  BY <1>2, <1>8, ServeBoot DEF vars, bootVars
<1> QED BY <1>3, <1>4, <1>5, <1>6, <1>7, <1>8 DEF Next, Boot

(* Every index of the application names something that is there, every id  *)
(* is one of a call that was made, and a started server has a 404 handler  *)
(* and no error left from the boot (fastify.js, lib/fourOhFour.js).        *)
THEOREM TypesOfApplication == Spec => []TypeOK
<1> DEFINE More == Made /\ PhaseType /\ CallsType /\ RouteIds /\ ErrorType
           Types == IInv404 /\ More
<1>1. Init => More
  BY InitMade DEF Init, RouteIds, ErrorType
<1>2. IInv404 /\ More /\ [Next]_vars => More'
  BY NextMade, NextTypes, NextRouteIds, NextErrorType DEF IInv404, InheritIInv
<1>3. ASSUME Types, IInv
      PROVE  TypeOK
  <2>1. Shape /\ NotFoundInv /\ Made /\ PhaseType /\ CallsType /\ Bounds404 /\ calls \in Nat
    BY <1>3 DEF IInv404, InheritIInv, NotFoundInv, Shape
  <2>2. calls \in 0..api.calls /\ bootErr \in {{}} \cup {{id} : id \in 1..calls}
    <3>1. api.calls \in Nat
      BY <2>1, TopicsAssumption DEF Shape
    <3> QED BY <1>3, <2>1, <3>1 DEF CallsType, ErrorType
  <2>3. frames # <<>> /\ \A k \in DOMAIN frames : FrameType(frames[k])
    <3>1. FramesOn(insts, calls, frames)
      BY <2>1 DEF Shape
    <3>2. ASSUME NEW k \in DOMAIN frames
          PROVE  FrameType(frames[k])
      <4>1. FrameOn(insts, calls, frames[k])
        BY <3>1 DEF FramesOn, Elements
      <4> QED BY <4>1 DEF FrameOn, JobOn, Elements, FrameType
    <3> QED BY <3>1, <3>2 DEF FramesOn
  <2>4. ASSUME NEW i \in DOMAIN insts
        PROVE  InstanceType(i)
    <3>1. insts[i].chain \subseteq 1..i /\ {1, i} \subseteq insts[i].chain
      BY <2>1 DEF Shape, Tree
    <3>2. insts[i].context404 \in 0..Len(contexts)
      BY <2>1 DEF Bounds404
    <3>3. insts[i].level \in insts[i].chain /\ OfCalls(insts[i], calls)
      BY <2>1 DEF Made
    <3> QED BY <3>1, <3>2, <3>3 DEF InstanceType, OfCalls, HookIdsIn, CustomIn
  <2>5. \A k \in DOMAIN routes : routes[k].inst \in DOMAIN insts
    BY <2>1 DEF Shape, Registry
  <2>6. \A k \in DOMAIN listeners : listeners[k].at \in 0..Len(routes)
    BY <2>1 DEF Shape, Registry
  <2>7. ASSUME Ready
        PROVE  Context404Of(insts, 1) # 0 /\ ~Errored
    <3>1. ~Errored
      BY <1>3, <2>7 DEF Ready, IInv, StartsWell
    <3>2. contexts # <<>> /\ 1 \in DOMAIN insts
      BY <2>1, <2>7 DEF Ready, NotFoundInv, DefaultFirst, Shape, Tree
    <3>3. Context404Of(insts, 1) # 0
      BY <2>1, <3>2, Context404There
    <3> QED BY <3>1, <3>3
  <2>8. nextReqId \in 0..MaxId
    BY <1>3 DEF IInv, ServingIInv, Counted
  <2>9. ASSUME NEW s \in Sockets
        PROVE  sockets[s].meta \in 0..Len(requests)
    <3>1. DOMAIN requests = 1..Len(requests) /\ Len(requests) \in Nat
      BY <1>3 DEF IInv, ServingIInv, Requests
    <3>2. sockets[s].meta = 0 \/ sockets[s].meta \in DOMAIN requests
      BY <1>3 DEF IInv, ServingIInv, Armed, Mine
    <3> QED BY <3>1, <3>2
  <2> QED BY <2>1, <2>2, <2>3, <2>4, <2>5, <2>6, <2>7, <2>8, <2>9 DEF TypeOK, PhaseType
<1>4. (IInv404 /\ ErrorsReported) /\ More => Types
  OBVIOUS
<1> HIDE DEF Types, More
<1> QED BY <1>1, <1>2, <1>3, <1>4, Inductive404, Inductive, PTL DEF Spec
=============================================================================
