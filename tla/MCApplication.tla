--------------------------- MODULE MCApplication ---------------------------
(***************************************************************************)
(* The applications that TLC checks: each topic is a handful of calls that *)
(* main script and plugins make in every order, as often as `calls` allows.*)
(***************************************************************************)
EXTENDS Application

Plain == [name |-> "", prefix |-> <<>>, skipOverride |-> FALSE,
          dependencies |-> {}, decorators |-> {}]
Register(plugin) == [op |-> "register", plugin |-> plugin]
Plugin == Register(Plain)
Shared == Register([Plain EXCEPT !.skipOverride = TRUE])
Prefixed(prefix) == Register([Plain EXCEPT !.prefix = prefix])
After == [op |-> "after"]
Throw == [op |-> "throw"]

Get(path) ==
  [op |-> "route", method |-> "GET", path |-> path, slash |-> "both", expose |-> FALSE,
   own |-> {}, schema |-> "", parts |-> {}]
Path == <<"/", "a">>
Hook(name, does) == [op |-> "addHook", name |-> name, does |-> does]
Set(setting) == [op |-> "set", setting |-> setting]
NotFound(own) == [op |-> "setNotFoundHandler", handler |-> TRUE, own |-> own]
Parser(type) == [op |-> "addContentTypeParser", type |-> type]
Schema(id) == [op |-> "addSchema", id |-> id]
Compiler(part) == [op |-> "setCompiler", part |-> part]
DecorateWith(name, needs) == [op |-> "decorate", name |-> name, needs |-> needs]

Topic(uses, n) ==
  [uses |-> uses, calls |-> n, requests |-> 0, types |-> {"none"}, sockets |-> {}]
Served(topic, n, types, socks) ==
  [topic EXCEPT !.requests = n, !.types = types, !.sockets = socks]

HookTopic == Topic({Plugin, Shared, After, Hook("preHandler", "next"),
                    [Get(Path) EXCEPT !.own = {"preHandler"}]}, 5)
SettingTopic == Topic({Plugin, After, Set("errorHandler"), Get(Path)}, 5)
NotFoundTopic == Topic({Plugin, Prefixed(<<"p", "/">>), NotFound({"preHandler"}), Get(Path)}, 5)
LostNotFoundTopic ==   \* handlers that are dropped or replaced
  Topic({Plugin, Prefixed(Slash), After, Throw, NotFound({}), [NotFound({}) EXCEPT !.handler = FALSE],
         Get(Path)}, 4)
HeadTopic ==
  Topic({Prefixed(<<"/", "p">>), Prefixed(<<"p", "/">>), Hook("onRoute", "append"), Hook("onRoute", "throw"), After,
         [Get(Slash) EXCEPT !.method = "HEAD"], [Get(<<"/", "*">>) EXCEPT !.method = "HEAD"]} \cup
        {[Get(Slash) EXCEPT !.expose = TRUE, !.own = {"onSend"}, !.slash = s] : s \in {"both", "slash", "no-slash"}}, 4)
SchemaTopic ==
  Topic({Plugin, After, Schema("a"), Compiler("validator"),
         [Get(Path) EXCEPT !.schema = "a", !.parts = Parts]}, 5)
Named == [Plain EXCEPT !.name = "a"]
PluginTopic ==
  Topic({Plugin, After, Throw, Register(Named), DecorateWith("x", {}), DecorateWith("y", {"x"}),
         Register([Named EXCEPT !.name = "b", !.dependencies = {"a"}]),
         Register([Named EXCEPT !.name = "c", !.decorators = {"x"}])}, 4)
Post == [Get(Path) EXCEPT !.method = "POST"]
OneSocket == {CHOOSE s \in Sockets : TRUE}
ParserTopic ==   \* which of several parsers that match
  Served(Topic({Post} \cup {Parser(t) : t \in {"application/v", "json", "/v/", "*", "application/json"}}, 4),
         3, {"application/v+json", "application/json; v", "text/v"}, OneSocket)
InheritedParserTopic ==   \* and from which instance
  Served(Topic({Plugin, After, Post} \cup {Parser(t) : t \in {"application/v", "/v/", "*"}}, 5),
         1, {"application/v+json", "text/v"}, OneSocket)
TimeoutTopic ==
  Served(Topic({Plugin, Get(Path), Hook("onTimeout", "next")}, 4), 3, {"none"}, Sockets)

RegExpTopic ==   \* a regular expression of the root instance
  Served(Topic({Plugin, Post, Parser("/v/")}, 3), 1, {"text/v"}, OneSocket)

AllTopics == {HookTopic, SettingTopic, NotFoundTopic, LostNotFoundTopic, HeadTopic,
              SchemaTopic, PluginTopic, ParserTopic, InheritedParserTopic, TimeoutTopic}
OnlyNotFound == {NotFoundTopic}
OnlyRegExp == {RegExpTopic}

Wildcards ==   \* what /* and /p/* match
  {<<prefix \o <<"*">>, prefix \o rest>> :
     prefix \in {Slash, <<"/", "p", "/">>},
     rest \in {<<>>, <<"p">>, <<"p", "/">>, <<"p", "/", "p">>, <<"p", "/", "p", "/">>}}
Hooks3 == {"preHandler", "onSend", "onTimeout"}
Patterns ==
  {<<"application/v", "application/v+json">>, <<"json", "application/v+json">>, <<"json", "application/json; v">>,
   <<"/v/", "application/v+json">>,
   <<"/v/", "text/v">>, <<"application/json", "application/json; v">>, <<"/v/", "application/json; v">>}
=============================================================================
