---------------------------- MODULE ContentTypes ----------------------------
(***************************************************************************)
(* The registry of content type parsers that every Fastify instance has    *)
(* (lib/contentTypeParser.js).  A parser is the serial number of the call  *)
(* that added it, 0 for the two that are built in.  How a content type     *)
(* compares with a string or a regular expression is the constant Matches. *)
(***************************************************************************)
EXTENDS Integers, Sequences, FiniteSetsExt

CONSTANTS RegExps,   \* the keys that are regular expressions
          Matches    \* <<key, content type>>: indexOf(key) > -1, or key.test

BuiltIn == {"application/json", "text/plain"}
ASSUME KeysAssumption == RegExps \cap (BuiltIn \cup {"", "*"}) = {}
NoParser == -1

(* customParsers, parserList, parserRegExpList and the lru cache.          *)
ContentTypeParser ==
  [custom  |-> [t \in BuiltIn |-> 0],
   list    |-> <<"application/json", "text/plain">>,
   regexps |-> <<>>,
   cache   |-> <<>>]

(* A catch-all parser is kept under '', so it never exists already.        *)
ExistingParser(p, type) ==
  /\ type \in DOMAIN p.custom
  /\ type \in BuiltIn => p.custom[type] # 0

(* The empty type would be the key of the catch-all.                       *)
CannotAddParser(p, type) == type = "" \/ ExistingParser(p, type)

(* customParsers[key] = parser, cache.set(key, parser)                     *)
WithKey(parsers, key, parser) ==
  [k \in DOMAIN parsers \cup {key} |-> IF k = key THEN parser ELSE parsers[k]]

AddParserLast(p, type, id) ==   \* a mutant: push where the code has unshift
  [p EXCEPT
     !.custom  = WithKey(@, IF type = "*" THEN "" ELSE type, id),
     !.list    = IF type \in BuiltIn \cup RegExps \cup {"*"} THEN @ ELSE Append(@, type),
     !.regexps = IF type \in RegExps THEN Append(@, type) ELSE @]

AddParser(p, type, id) ==
  [p EXCEPT
     !.custom  = WithKey(@, IF type = "*" THEN "" ELSE type, id),
     !.list    = IF type \in BuiltIn \cup RegExps \cup {"*"} THEN @ ELSE <<type>> \o @,
     !.regexps = IF type \in RegExps THEN <<type>> \o @ ELSE @]

(* getParser: the first that matches, of the strings and then of the       *)
(* regular expressions.                                                    *)
Keys(p) == p.list \o p.regexps
Candidates(p, type) == {k \in DOMAIN Keys(p) : <<Keys(p)[k], type>> \in Matches}

GetParser(p, type) ==
  IF Candidates(p, type) # {} THEN p.custom[Keys(p)[Min(Candidates(p, type))]]
  ELSE IF "" \in DOMAIN p.custom THEN p.custom[""] ELSE NoParser

(* run: the cache first; getParser fills it, but not with the catch-all.   *)
Lookup(p, type) ==
  IF type \in DOMAIN p.cache THEN p.cache[type] ELSE GetParser(p, type)

AfterLookup(p, type) ==
  IF Candidates(p, type) = {} THEN p
  ELSE [p EXCEPT !.cache = WithKey(@, type, Lookup(p, type))]

(* buildContentTypeParser: the regular expressions are not handed down.    *)
BuildContentTypeParser(p) ==
  [ContentTypeParser EXCEPT !.custom = p.custom, !.list = p.list]
=============================================================================
