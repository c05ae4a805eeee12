---------------------------- MODULE Encapsulation ----------------------------
(***************************************************************************)
(* The tree of Fastify instances and what each keeps for itself, takes a   *)
(* copy of or looks up in its ancestors: lib/pluginOverride.js,            *)
(* lib/pluginUtils.js, lib/decorate.js and the setters of fastify.js.      *)
(* `insts` is the sequence of the instances in the order they are made,    *)
(* which is a preorder of the tree: the ancestors of an instance come      *)
(* before it.  A hook, a handler or a setting is the serial number of the  *)
(* call that gave it; a path is a sequence of slashes and segments.        *)
(***************************************************************************)
EXTENDS ContentTypes, Schemas, FiniteSetsExt, SequencesExt

CONSTANT LifecycleHooks
ASSUME HooksAssumption == {"preHandler", "onSend", "onTimeout"} \subseteq LifecycleHooks
HookNames == LifecycleHooks \cup {"onRoute"}

(* kErrorHandler, kReplySerializerDefault, kSchemaErrorFormatter           *)
Settings == {"errorHandler", "replySerializer", "schemaErrorFormatter"}

Fastify ==
  [chain      |-> {1},      \* the instance and its ancestors
   born       |-> 0,        \* the calls made before it was (for properties)
   prefix     |-> <<>>,
   hooks      |-> [h \in HookNames |-> <<>>],
   settings   |-> [s \in Settings |-> 0],
   plugins    |-> {},       \* registeredPlugins
   decorators |-> {},       \* <<target, name>>
   level      |-> 1,        \* kFourOhFourLevelInstance
   canSet404  |-> TRUE,     \* kCanSetNotFoundHandler, of a level instance
   context404 |-> 0,        \* kFourOhFourContext, 0 when it has none itself
   parsers    |-> ContentTypeParser,
   schemas    |-> SchemaController]

(* Property lookup on the prototype chain: the nearest of those that have  *)
(* it, or 0.                                                               *)
Nearest(insts, i, having) == Max({0} \cup (insts[i].chain \cap having))
Descendants(insts, i) == {j \in DOMAIN insts : i \in insts[j].chain}

SettingOfRoot(insts, i, s) == insts[1].settings[s]   \* a mutant: fastify for this

SettingOf(insts, i, s) ==
  LET j == Nearest(insts, i, {k \in DOMAIN insts : insts[k].settings[s] # 0})
  IN IF j = 0 THEN 0 ELSE insts[j].settings[s]

CompilerOf(insts, i, part) ==
  LET j == Nearest(insts, i, {k \in DOMAIN insts :
                              insts[k].schemas.compiler[part] # NoCompiler})
  IN IF j = 0 THEN NoCompiler ELSE insts[j].schemas.compiler[part]
Context404Of(insts, i) ==
  LET j == Nearest(insts, i, {k \in DOMAIN insts : insts[k].context404 # 0})
  IN IF j = 0 THEN 0 ELSE insts[j].context404

EndsWithSlash(path) == path # <<>> /\ Last(path) = "/"

BuildRoutePrefix(prefix, plugin) ==
  IF plugin = <<>> THEN prefix
  ELSE CASE EndsWithSlash(prefix) /\ Head(plugin) = "/" -> prefix \o Tail(plugin)
         [] Head(plugin) # "/"                          -> prefix \o <<"/">> \o plugin
         [] OTHER                                       -> prefix \o plugin

(* buildHooks: a copy, so that the instance's own hooks stay its own.      *)
BuildHooks(hooks) == hooks

(* override, for a plugin that is not marked skip-override.                *)
Override(insts, i, plugin, calls) ==
  LET old == insts[i]
      me  == Len(insts) + 1
  IN Append(insts,
       [Fastify EXCEPT
          !.chain      = old.chain \cup {me},
          !.born       = calls,
          !.prefix     = BuildRoutePrefix(old.prefix, plugin.prefix),
          !.hooks      = BuildHooks(old.hooks),
          !.level      = IF plugin.prefix # <<>> THEN me ELSE old.level,
          !.parsers    = BuildContentTypeParser(old.parsers),
          !.schemas    = BuildSchemaController(old.schemas,
                           [part \in Parts |-> CompilerOf(insts, i, part)])])

(* registerPlugin: the name goes in before the checks.                     *)
RegisterPluginName(insts, i, plugin) ==
  IF plugin.name = "" THEN insts ELSE [insts EXCEPT ![i].plugins = @ \cup {plugin.name}]
RegisteredAnywhere(insts, i) ==   \* a mutant: one list for all instances
  UNION {insts[j].plugins : j \in DOMAIN insts}

Registered(insts, i) == UNION {insts[j].plugins : j \in insts[i].chain}

Decorators(insts, i) == UNION {insts[j].decorators : j \in insts[i].chain}

PluginAccepted(insts, i, plugin) ==
  /\ plugin.decorators \subseteq Decorators(insts, i)
  /\ plugin.dependencies \subseteq Registered(insts, i)

(* decorate, decorateReply, decorateRequest: an ancestor's may be hidden.  *)
CannotDecorate(insts, i, name, deps) ==
  name \in insts[i].decorators \/ ~(deps \subseteq Decorators(insts, i))
Decorate(insts, i, name) == [insts EXCEPT ![i].decorators = @ \cup {name}]

AddHookHere(insts, i, name, hook) ==   \* a mutant: no recursion into kChildren
  [insts EXCEPT ![i].hooks[name] = Append(@, hook)]

(* _addHook: the instance and every instance below it.                     *)
AddHook(insts, i, name, hook) ==
  [j \in DOMAIN insts |->
     IF j \in Descendants(insts, i)
     THEN [insts[j] EXCEPT !.hooks[name] = Append(@, hook)] ELSE insts[j]]

(* addSchema walks the tree depth first and stops at the first instance    *)
(* that has the id: those before it keep the schema.                       *)
HaveSchema(insts, i, id) == {j \in Descendants(insts, i) : id \in insts[j].schemas.store}
CannotAddSchema(insts, i, id) == HaveSchema(insts, i, id) # {}

AddSchemaHere(insts, i, id) ==   \* a mutant: no recursion into kChildren
  [insts EXCEPT ![i].schemas = AddToBucket(@, id)]

AddSchema(insts, i, id) ==
  [j \in DOMAIN insts |->
     IF /\ j \in Descendants(insts, i)
        /\ \A k \in HaveSchema(insts, i, id) : j <= k
     THEN [insts[j] EXCEPT !.schemas = AddToBucket(@, id)] ELSE insts[j]]
=============================================================================
