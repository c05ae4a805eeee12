----------------------------- MODULE ParserProofs -----------------------------
(***************************************************************************)
(* The parser that a request gets.  ParsersInv relates the registry of an  *)
(* instance to the calls the instance sees: its own, and those made around *)
(* it before it was made.  Ranked says of the keys of a list that they are *)
(* those of the calls, newest first, by the ids of the calls.              *)
(*                                                                         *)
(* And the HEAD route of every GET route that asked for one.  HeadInv      *)
(* follows the call of route through the jobs and the routes it becomes:   *)
(* a GET route without its HEAD route has a job for it, unless an error    *)
(* dropped that.                                                           *)
(***************************************************************************)
EXTENDS InheritanceProofs

-----------------------------------------------------------------------------
(* Parsers.  What a registry of parsers has, of the calls that its         *)
(* instance sees, and the parser it finds among them.                      *)

Visible(e, i) ==
  \/ e.inst = i
  \/ OnChain(e, i) /\ e.arg \notin RegExps
       /\ e.id <= insts[Min({j \in insts[i].chain : j > e.inst})].born
FirstBuiltIn(type) ==
  IF <<"application/json", type>> \in Matches THEN "application/json" ELSE "text/plain"
NewestParser(i, type) ==
  LET added   == Took(LAMBDA e : e.op = "addContentTypeParser" /\ Visible(e, i))
      match   == {e \in added : <<e.arg, type>> \in Matches}
      strings == {e \in match : e.arg \notin BuiltIn \cup RegExps \cup {"*"}}
      builtIn == {b \in BuiltIn : <<b, type>> \in Matches}
      regexps == {e \in match : e.arg \in RegExps}
      others  == {e \in added : e.arg = "*"}
  IN CASE strings # {} -> PassedLast(strings)
       [] strings = {} /\ builtIn # {} ->
            Max({0} \cup {e.id : e \in {d \in added : d.arg = FirstBuiltIn(type)}})
       [] strings \cup builtIn = {} /\ regexps # {} -> PassedLast(regexps)
       [] OTHER -> IF others = {} THEN NoParser ELSE PassedLast(others)

ParserAt == {n \in DOMAIN log : log[n].op = "addContentTypeParser"}
SeenBy(i) == {n \in ParserAt : Visible(log[n], i)}
OfStrings(V, l) == {n \in V : l[n].arg \notin BuiltIn \cup RegExps \cup {"*"}}
OfRegExps(V, l) == {n \in V : l[n].arg \in RegExps}
OfKey(V, l, key) == {n \in V : l[n].arg = key}

(* The keys but for the last w are those of the entries N, newest first.   *)
Ranked(keys, w, custom, N, l) ==
  /\ \A k \in 1..(Len(keys) - w) : \E n \in N : keys[k] = l[n].arg
  /\ \A n \in N : /\ l[n].arg \in DOMAIN custom /\ custom[l[n].arg] = l[n].id
                  /\ \E k \in 1..(Len(keys) - w) : keys[k] = l[n].arg
  /\ \A k, m \in 1..(Len(keys) - w) : k < m => custom[keys[k]] > custom[keys[m]]
NewestOf(v, N, l) == (\E n \in N : v = l[n].id) /\ \A n \in N : l[n].id <= v
ParsersBy(p, V, l) ==
  /\ Listed(p.list) /\ Listed(p.regexps) /\ Len(p.list) >= 2
  /\ p.list[Len(p.list) - 1] = "application/json" /\ p.list[Len(p.list)] = "text/plain"
  /\ Ranked(p.list, 2, p.custom, OfStrings(V, l), l)
  /\ Ranked(p.regexps, 0, p.custom, OfRegExps(V, l), l)
  /\ \A b \in BuiltIn :
       /\ b \in DOMAIN p.custom
       /\ IF OfKey(V, l, b) = {} THEN p.custom[b] = 0 ELSE NewestOf(p.custom[b], OfKey(V, l, b), l)
  /\ IF OfKey(V, l, "*") = {} THEN "" \notin DOMAIN p.custom
     ELSE "" \in DOMAIN p.custom /\ NewestOf(p.custom[""], OfKey(V, l, "*"), l)
ParsersInv ==
  /\ \A n \in ParserAt : log[n].id \in 1..calls /\ log[n].arg # ""
  /\ \A i \in DOMAIN insts :
       insts[i].born \in 0..calls /\ ParsersBy(insts[i].parsers, SeenBy(i), log)

(* What was looked up is what would be found again.                        *)
CacheInv ==
  \A i \in DOMAIN insts : \A type \in DOMAIN insts[i].parsers.cache :
    phase = "started" /\ insts[i].parsers.cache[type] = GetParser(insts[i].parsers, type)
RequestsInv ==
  \A k \in DOMAIN requests :
    /\ phase = "started" /\ requests[k].route \in DOMAIN routes
    /\ requests[k].parser = GetParser(insts[routes[requests[k].route].inst].parsers, requests[k].type)

LEMMA Least ==
  ASSUME NEW S, S \subseteq Nat, S # {}
  PROVE  Min(S) \in S /\ \A x \in S : Min(S) <= x
<1>1. PICK x \in S : \A y \in S : ~(<<y, x>> \in OpToRel(<, Nat))
  <2>1. IsWellFoundedOn(OpToRel(<, Nat), Nat)
    BY NatLessThanWellFounded
  <2> QED BY <2>1, WFMin
<1>2. ASSUME NEW y \in S
      PROVE  x <= y
  <2>1. y \in Nat /\ x \in Nat /\ <<y, x>> \in Nat \X Nat
    OBVIOUS
  <2>2. ~(<<y, x>> \in {ss \in Nat \X Nat : ss[1] < ss[2]})
    BY <1>1 DEF OpToRel
  <2> QED BY <2>1, <2>2
<1> QED BY <1>2 DEF Min

LEMMA MinIs ==
  ASSUME NEW S, S \subseteq Int, NEW x \in S, \A y \in S : x <= y
  PROVE  Min(S) = x
<1>1. \A z \in S : (\A y \in S : z <= y) => z = x
  OBVIOUS
<1> QED BY <1>1 DEF Min

(* Neither the log nor the map changes for the entries N.                  *)
KeepsKeys(custom, custom2, N, l, l2) ==
  /\ DOMAIN custom \subseteq DOMAIN custom2
  /\ \A n \in N : l2[n] = l[n] /\ custom2[l[n].arg] = custom[l[n].arg]
LEMMA RankedSame ==
  ASSUME NEW keys, NEW w, NEW custom, NEW N, NEW l, NEW custom2, NEW l2,
         Ranked(keys, w, custom, N, l), KeepsKeys(custom, custom2, N, l, l2)
  PROVE  Ranked(keys, w, custom2, N, l2)
<1>0. DOMAIN custom \subseteq DOMAIN custom2 /\ \A n \in N : l2[n] = l[n] /\ custom2[l[n].arg] = custom[l[n].arg]
  BY DEF KeepsKeys
<1>1. \A k \in 1..(Len(keys) - w) : \E n \in N : keys[k] = l[n].arg /\ l2[n] = l[n]
  BY <1>0 DEF Ranked
<1>2. \A k \in 1..(Len(keys) - w) : custom2[keys[k]] = custom[keys[k]]
  BY <1>0, <1>1
<1>3. \A n \in N : /\ l2[n].arg \in DOMAIN custom2 /\ custom2[l2[n].arg] = l2[n].id
                   /\ \E k \in 1..(Len(keys) - w) : keys[k] = l2[n].arg
  BY <1>0 DEF Ranked
<1>4. ASSUME NEW k \in 1..(Len(keys) - w), NEW m \in 1..(Len(keys) - w), k < m
      PROVE  custom2[keys[k]] > custom2[keys[m]]
  <2>1. custom[keys[k]] > custom[keys[m]]
    BY <1>4 DEF Ranked
  <2>2. custom2[keys[k]] = custom[keys[k]] /\ custom2[keys[m]] = custom[keys[m]]
    BY <1>2
  <2> QED BY <2>1, <2>2
<1>5. \A k \in 1..(Len(keys) - w) : \E n \in N : keys[k] = l2[n].arg
  BY <1>1
<1> QED BY <1>3, <1>4, <1>5 DEF Ranked

(* One more key at the head, of the newest entry.                          *)
Prepended(more, keys, key) ==
  /\ Listed(more) /\ Len(more) = Len(keys) + 1 /\ more[1] = key
  /\ DOMAIN keys = 1..Len(keys) /\ Len(keys) \in Nat
  /\ \A k \in DOMAIN keys : more[k + 1] = keys[k]
LEMMA Prepends ==
  ASSUME NEW keys, Listed(keys), NEW key
  PROVE  Prepended(<<key>> \o keys, keys, key)
<1> DEFINE more == <<key>> \o keys
<1>1. Listed(more) /\ more # <<>> /\ Len(more) = Len(keys) + 1 /\ more[1] = key /\ Tail(more) = keys
  BY ListPush DEF Pushed
<1> HIDE DEF more
<1>2. DOMAIN keys = 1..Len(keys) /\ Len(keys) \in Nat
  BY ListedIs
<1>3. \A k \in DOMAIN Tail(more) : Tail(more)[k] = more[k + 1]
  BY <1>1, ListTail
<1>4. Prepended(more, keys, key)
  BY <1>1, <1>2, <1>3 DEF Prepended
<1> QED BY <1>4 DEF more

AddsKey(custom, custom2, N, l, l2, new, key, id) ==
  /\ key \notin DOMAIN custom /\ id \in Nat
  /\ DOMAIN custom2 = DOMAIN custom \cup {key} /\ custom2[key] = id
  /\ \A k \in DOMAIN custom : custom2[k] = custom[k]
  /\ \A n \in N : l2[n] = l[n] /\ l[n].id \in Nat /\ l[n].id < id
  /\ l2[new].arg = key /\ l2[new].id = id
LEMMA RankedFirst ==
  ASSUME NEW keys, NEW more, NEW key, Prepended(more, keys, key),
         NEW w \in Nat, w <= Len(keys),
         NEW custom, NEW custom2, NEW N, NEW l, NEW l2, NEW new, NEW id,
         Ranked(keys, w, custom, N, l), AddsKey(custom, custom2, N, l, l2, new, key, id)
  PROVE  Ranked(more, w, custom2, N \cup {new}, l2)
<1> DEFINE len == Len(keys) - w
           M == N \cup {new}
<1>1. /\ Listed(more) /\ Len(more) = Len(keys) + 1 /\ more[1] = key
      /\ DOMAIN keys = 1..Len(keys) /\ Len(keys) \in Nat
      /\ \A k \in DOMAIN keys : more[k + 1] = keys[k]
  BY DEF Prepended
<1>2. /\ DOMAIN custom2 = DOMAIN custom \cup {key} /\ custom2[key] = id
      /\ \A k \in DOMAIN custom : custom2[k] = custom[k]
      /\ \A n \in N : l2[n] = l[n] /\ l[n].id \in Nat /\ l[n].id < id
      /\ l2[new].arg = key /\ l2[new].id = id /\ id \in Nat
  BY DEF AddsKey
<1>3. /\ \A k \in 1..len : \E n \in N : keys[k] = l[n].arg
      /\ \A n \in N : /\ l[n].arg \in DOMAIN custom /\ custom[l[n].arg] = l[n].id
                      /\ \E k \in 1..len : keys[k] = l[n].arg
      /\ \A k, m \in 1..len : k < m => custom[keys[k]] > custom[keys[m]]
  BY DEF Ranked
<1>4. len \in Nat /\ Len(more) - w = len + 1 /\ \A k \in 1..len : more[k + 1] = keys[k]
  BY <1>1
<1> HIDE DEF len
<1>5. \A k \in 1..(len + 1) : k = 1 \/ (k - 1 \in 1..len /\ more[k] = keys[k - 1])
  <2>1. \A k \in 1..(len + 1) : k = 1 \/ (k - 1 \in 1..len /\ (k - 1) + 1 = k)
    BY <1>4
  <2> QED BY <1>4, <2>1
<1>6. ASSUME NEW k \in 1..(len + 1)
      PROVE  \E n \in M : more[k] = l2[n].arg
  <2>1. CASE k = 1
    BY <1>1, <1>2, <2>1
  <2>2. CASE k - 1 \in 1..len /\ more[k] = keys[k - 1]
    <3>1. PICK n \in N : keys[k - 1] = l[n].arg
      BY <1>3, <2>2
    <3> QED BY <1>2, <2>2, <3>1
  <2> QED BY <1>5, <2>1, <2>2
<1>7. ASSUME NEW n \in M
      PROVE  /\ l2[n].arg \in DOMAIN custom2 /\ custom2[l2[n].arg] = l2[n].id
             /\ \E k \in 1..(len + 1) : more[k] = l2[n].arg
  <2>1. CASE n = new
    <3>1. 1 \in 1..(len + 1)
      BY <1>4
    <3> QED BY <1>1, <1>2, <2>1, <3>1
  <2>2. CASE n \in N
    <3>1. PICK k \in 1..len : keys[k] = l[n].arg
      BY <1>3, <2>2
    <3>2. k + 1 \in 1..(len + 1) /\ more[k + 1] = l2[n].arg
      BY <1>2, <1>4, <2>2, <3>1
    <3> QED BY <1>2, <1>3, <2>2, <3>2
  <2> QED BY <2>1, <2>2
<1>8. ASSUME NEW k \in 1..(len + 1), k # 1
      PROVE  custom2[more[k]] \in Nat /\ custom2[more[k]] < id /\ custom2[more[k]] = custom[keys[k - 1]]
  <2>1. PICK n \in N : keys[k - 1] = l[n].arg /\ more[k] = keys[k - 1]
    BY <1>3, <1>5, <1>8
  <2> QED BY <1>2, <1>3, <2>1
<1>9. ASSUME NEW k \in 1..(len + 1), NEW m \in 1..(len + 1), k < m
      PROVE  custom2[more[k]] > custom2[more[m]]
  <2>1. CASE k = 1
    <3>1. m # 1
      BY <1>9, <2>1
    <3> QED BY <1>1, <1>2, <1>8, <2>1, <3>1
  <2>2. CASE k # 1
    <3>1. m # 1 /\ k - 1 \in 1..len /\ m - 1 \in 1..len /\ k - 1 < m - 1
      BY <1>4, <1>5, <1>9, <2>2
    <3>2. custom[keys[k - 1]] > custom[keys[m - 1]]
      BY <1>3, <3>1
    <3> QED BY <1>8, <2>2, <3>1, <3>2
  <2> QED BY <2>1, <2>2
<1> QED BY <1>4, <1>6, <1>7, <1>9 DEF Ranked


LEMMA KeyKinds ==
  /\ "*" \notin BuiltIn \cup RegExps /\ "" \notin BuiltIn \cup RegExps /\ "" # "*"
  /\ \A key \in RegExps : key \notin BuiltIn
BY KeysAssumption DEF BuiltIn

LEMMA SameKinds ==
  ASSUME NEW V, NEW l, NEW l2, \A n \in V : l2[n] = l[n]
  PROVE  /\ OfStrings(V, l2) = OfStrings(V, l) /\ OfRegExps(V, l2) = OfRegExps(V, l)
         /\ \A key : OfKey(V, l2, key) = OfKey(V, l, key)
BY DEF OfStrings, OfRegExps, OfKey

LEMMA NewestSame ==
  ASSUME NEW v, NEW N, NEW l, NEW l2, \A n \in N : l2[n] = l[n], NewestOf(v, N, l)
  PROVE  NewestOf(v, N, l2)
BY DEF NewestOf

(* What a registry says of the built-in keys and of the catch-all.         *)
BuiltInBy(custom, V, l, b) ==
  /\ b \in DOMAIN custom
  /\ IF OfKey(V, l, b) = {} THEN custom[b] = 0 ELSE NewestOf(custom[b], OfKey(V, l, b), l)
CatchAllBy(custom, V, l) ==
  IF OfKey(V, l, "*") = {} THEN "" \notin DOMAIN custom
  ELSE "" \in DOMAIN custom /\ NewestOf(custom[""], OfKey(V, l, "*"), l)
ListBy(list) ==
  /\ Listed(list) /\ Len(list) >= 2
  /\ list[Len(list) - 1] = "application/json" /\ list[Len(list)] = "text/plain"
LEMMA ParsersParts ==
  ASSUME NEW p, NEW V, NEW l
  PROVE  ParsersBy(p, V, l) <=>
           /\ ListBy(p.list) /\ Listed(p.regexps)
           /\ Ranked(p.list, 2, p.custom, OfStrings(V, l), l)
           /\ Ranked(p.regexps, 0, p.custom, OfRegExps(V, l), l)
           /\ \A b \in BuiltIn : BuiltInBy(p.custom, V, l, b)
           /\ CatchAllBy(p.custom, V, l)
BY DEF ParsersBy, BuiltInBy, CatchAllBy, ListBy

SameEntries(V, l, l2) == \A n \in V : l2[n] = l[n]
KeepsKey(custom, custom2, b) == DOMAIN custom \subseteq DOMAIN custom2 /\ custom2[b] = custom[b]
KeepsCatchAll(custom, custom2) ==
  /\ "" \in DOMAIN custom2 <=> "" \in DOMAIN custom
  /\ "" \in DOMAIN custom => custom2[""] = custom[""]
LEMMA BuiltInSame ==
  ASSUME NEW custom, NEW custom2, NEW V, NEW W, NEW l, NEW l2, NEW b,
         BuiltInBy(custom, V, l, b), KeepsKey(custom, custom2, b), SameEntries(V, l, l2),
         OfKey(W, l2, b) = OfKey(V, l, b)
  PROVE  BuiltInBy(custom2, W, l2, b)
<1>1. \A n \in OfKey(V, l, b) : l2[n] = l[n]
  BY DEF OfKey, SameEntries
<1> QED BY <1>1, NewestSame DEF BuiltInBy, KeepsKey

LEMMA CatchAllSame ==
  ASSUME NEW custom, NEW custom2, NEW V, NEW W, NEW l, NEW l2,
         CatchAllBy(custom, V, l), KeepsCatchAll(custom, custom2), SameEntries(V, l, l2),
         OfKey(W, l2, "*") = OfKey(V, l, "*")
  PROVE  CatchAllBy(custom2, W, l2)
<1>1. \A n \in OfKey(V, l, "*") : l2[n] = l[n]
  BY DEF OfKey, SameEntries
<1> QED BY <1>1, NewestSame DEF CatchAllBy, KeepsCatchAll

(* The same registry for a log that went on, and the copy for a plugin.    *)
LEMMA ParsersLeft ==
  ASSUME NEW p, NEW V, NEW l, ParsersBy(p, V, l), NEW l2, SameEntries(V, l, l2),
         NEW p2, p2.custom = p.custom, p2.list = p.list,
         NEW W, \/ W = V /\ p2.regexps = p.regexps
                \/ W = {n \in V : l[n].arg \notin RegExps} /\ p2.regexps = <<>>
  PROVE  ParsersBy(p2, W, l2)
<1>1. /\ ListBy(p.list) /\ Listed(p.regexps)
      /\ Ranked(p.list, 2, p.custom, OfStrings(V, l), l)
      /\ Ranked(p.regexps, 0, p.custom, OfRegExps(V, l), l)
      /\ \A b \in BuiltIn : BuiltInBy(p.custom, V, l, b)
      /\ CatchAllBy(p.custom, V, l)
  BY ParsersParts
<1>2. /\ OfStrings(W, l2) = OfStrings(V, l)
      /\ \A key : key \notin RegExps => OfKey(W, l2, key) = OfKey(V, l, key)
  BY DEF OfStrings, OfKey, SameEntries
<1>3. /\ KeepsKeys(p.custom, p.custom, OfStrings(V, l), l, l2)
      /\ KeepsKeys(p.custom, p.custom, OfRegExps(V, l), l, l2)
      /\ \A b : KeepsKey(p.custom, p.custom, b)
      /\ KeepsCatchAll(p.custom, p.custom)
  BY DEF OfStrings, OfRegExps, SameEntries, KeepsKeys, KeepsKey, KeepsCatchAll
<1>4. Ranked(p.list, 2, p.custom, OfStrings(W, l2), l2)
  BY <1>1, <1>2, <1>3, RankedSame
<1>5. Listed(p2.regexps) /\ Ranked(p2.regexps, 0, p.custom, OfRegExps(W, l2), l2)
  <2>1. CASE W = V /\ p2.regexps = p.regexps
    <3>1. OfRegExps(W, l2) = OfRegExps(V, l)
      BY <2>1 DEF OfRegExps, SameEntries
    <3>2. Ranked(p.regexps, 0, p.custom, OfRegExps(V, l), l2)
      BY <1>1, <1>3, RankedSame
    <3> QED BY <1>1, <2>1, <3>1, <3>2
  <2>2. CASE W = {n \in V : l[n].arg \notin RegExps} /\ p2.regexps = <<>>
    <3>1. OfRegExps(W, l2) = {}
      BY <2>2 DEF OfRegExps, SameEntries
    <3>2. Listed(<<>>) /\ Len(<<>>) - 0 = 0
      BY DEF Listed, Elements
    <3> QED BY <2>2, <3>1, <3>2 DEF Ranked
  <2> QED BY <2>1, <2>2
<1>6. ASSUME NEW b \in BuiltIn
      PROVE  BuiltInBy(p.custom, W, l2, b)
  <2>1. OfKey(W, l2, b) = OfKey(V, l, b) /\ BuiltInBy(p.custom, V, l, b)
    BY <1>1, <1>2, KeyKinds
  <2> QED BY <1>3, <2>1, BuiltInSame
<1>7. CatchAllBy(p.custom, W, l2)
  <2>1. OfKey(W, l2, "*") = OfKey(V, l, "*")
    BY <1>2, KeyKinds
  <2> QED BY <1>1, <1>3, <2>1, CatchAllSame
<1>8. /\ ListBy(p2.list) /\ Listed(p2.regexps)
      /\ Ranked(p2.list, 2, p2.custom, OfStrings(W, l2), l2)
      /\ Ranked(p2.regexps, 0, p2.custom, OfRegExps(W, l2), l2)
      /\ \A b \in BuiltIn : BuiltInBy(p2.custom, W, l2, b)
      /\ CatchAllBy(p2.custom, W, l2)
  BY <1>1, <1>4, <1>5, <1>6, <1>7
<1> QED BY <1>8, ParsersParts

(* A parser is added.                                                      *)
LEMMA NewestIs ==
  ASSUME NEW N, NEW l2, NEW new \in N, NEW id \in Nat, l2[new].id = id,
         \A n \in N : n = new \/ (l2[n].id \in Nat /\ l2[n].id < id)
  PROVE  NewestOf(id, N, l2)
BY DEF NewestOf

(* For the strings and for the regular expressions: the list as it was, or *)
(* with the new key.                                                       *)
KeySet(custom, custom2, key, id) ==
  /\ DOMAIN custom2 = DOMAIN custom \cup {key} /\ custom2[key] = id
  /\ \A k \in DOMAIN custom : k # key => custom2[k] = custom[k]
NewAmong(N, l, l2, new, key, type, id) ==
  /\ id \in Nat /\ l2[new].arg = type /\ l2[new].id = id
  /\ \A n \in N : l2[n] = l[n] /\ l[n].id \in Nat /\ l[n].id < id /\ l[n].arg # key
OneMore(keys, more, N, M, custom, new, key, type) ==
  \/ more = keys /\ M = N
  \/ more = <<type>> \o keys /\ M = N \cup {new} /\ key = type /\ type \notin DOMAIN custom
LEMMA RankedNext ==
  ASSUME NEW keys, Listed(keys), NEW w \in Nat, w <= Len(keys), NEW more, NEW key, NEW type,
         NEW custom, NEW custom2, NEW N, NEW M, NEW l, NEW l2, NEW new, NEW id,
         Ranked(keys, w, custom, N, l), KeySet(custom, custom2, key, id),
         NewAmong(N, l, l2, new, key, type, id), OneMore(keys, more, N, M, custom, new, key, type)
  PROVE  /\ Ranked(more, w, custom2, M, l2)
         /\ more = keys \/ Prepended(more, keys, type)
<1>0. /\ DOMAIN custom2 = DOMAIN custom \cup {key} /\ custom2[key] = id
      /\ \A k \in DOMAIN custom : k # key => custom2[k] = custom[k]
      /\ id \in Nat /\ l2[new].arg = type /\ l2[new].id = id
      /\ \A n \in N : l2[n] = l[n] /\ l[n].id \in Nat /\ l[n].id < id /\ l[n].arg # key
  BY DEF KeySet, NewAmong
<1>1. CASE more = keys /\ M = N
  <2>1. \A n \in N : l[n].arg \in DOMAIN custom
    BY DEF Ranked
  <2>2. KeepsKeys(custom, custom2, N, l, l2)
    BY <1>0, <2>1 DEF KeepsKeys
  <2> QED BY <1>1, <2>2, RankedSame
<1>2. CASE more = <<type>> \o keys /\ M = N \cup {new} /\ key = type /\ type \notin DOMAIN custom
  <2>1. Prepended(more, keys, type)
    BY <1>2, Prepends
  <2>2. AddsKey(custom, custom2, N, l, l2, new, type, id)
    BY <1>0, <1>2 DEF AddsKey
  <2> QED BY <1>2, <2>1, <2>2, RankedFirst
<1> QED BY <1>1, <1>2 DEF OneMore

LaterEntry(V, W, l, l2, new, type, id) ==
  /\ id \in Nat /\ type # "" /\ l2[new].arg = type /\ l2[new].id = id /\ W = V \cup {new}
  /\ \A n \in V : l2[n] = l[n] /\ l[n].id \in Nat /\ l[n].id < id /\ l[n].arg # ""
LEMMA ParserAdded ==
  ASSUME NEW p, NEW V, NEW W, NEW l, NEW l2, NEW new, NEW type, NEW id,
         ParsersBy(p, V, l), ~ExistingParser(p, type), LaterEntry(V, W, l, l2, new, type, id)
  PROVE  ParsersBy(AddParser(p, type, id), W, l2)
<1>0. PICK p2, key, custom, custom2, list, regexps :
        /\ p2 = AddParser(p, type, id) /\ key = (IF type = "*" THEN "" ELSE type)
        /\ custom = p.custom /\ custom2 = WithKey(custom, key, id)
        /\ list = p.list /\ regexps = p.regexps
  OBVIOUS
<1>1. /\ ListBy(list) /\ Listed(regexps)
      /\ Ranked(list, 2, custom, OfStrings(V, l), l)
      /\ Ranked(regexps, 0, custom, OfRegExps(V, l), l)
      /\ \A b \in BuiltIn : BuiltInBy(custom, V, l, b)
      /\ CatchAllBy(custom, V, l)
  BY <1>0, ParsersParts
<1>2. /\ DOMAIN custom2 = DOMAIN custom \cup {key} /\ custom2[key] = id
      /\ \A k \in DOMAIN custom : k # key => custom2[k] = custom[k]
  <2>1. custom2 = WithKey(custom, key, id)
    BY <1>0
  <2> QED BY <2>1 DEF WithKey
<1>3. /\ p2.custom = custom2
      /\ p2.list = IF type \in BuiltIn \cup RegExps \cup {"*"} THEN list ELSE <<type>> \o list
      /\ p2.regexps = IF type \in RegExps THEN <<type>> \o regexps ELSE regexps
  <2>1. p2 = AddParser(p, type, id)
    BY <1>0
  <2>2. /\ p2.custom = WithKey(p.custom, IF type = "*" THEN "" ELSE type, id)
        /\ p2.list = IF type \in BuiltIn \cup RegExps \cup {"*"} THEN p.list ELSE <<type>> \o p.list
        /\ p2.regexps = IF type \in RegExps THEN <<type>> \o p.regexps ELSE p.regexps
    BY <2>1 DEF AddParser
  <2> QED BY <1>0, <2>2
<1>4. /\ OfStrings(W, l2) = OfStrings(V, l) \cup
                              (IF type \notin BuiltIn \cup RegExps \cup {"*"} THEN {new} ELSE {})
      /\ OfRegExps(W, l2) = OfRegExps(V, l) \cup (IF type \in RegExps THEN {new} ELSE {})
      /\ \A k : OfKey(W, l2, k) = OfKey(V, l, k) \cup (IF type = k THEN {new} ELSE {})
  <2>1. W = V \cup {new} /\ l2[new].arg = type /\ \A n \in V : l2[n] = l[n]
    BY DEF LaterEntry
  <2> QED BY <2>1 DEF OfStrings, OfRegExps, OfKey
<1>5. /\ \A n \in OfStrings(V, l) : /\ l2[n] = l[n] /\ l[n].arg \in DOMAIN custom
                                    /\ l[n].id \in Nat /\ l[n].id < id
                                    /\ l[n].arg \notin BuiltIn \cup {"", "*"}
      /\ \A n \in OfRegExps(V, l) : /\ l2[n] = l[n] /\ l[n].arg \in DOMAIN custom
                                    /\ l[n].id \in Nat /\ l[n].id < id
                                    /\ l[n].arg \notin BuiltIn \cup {"", "*"}
      /\ \A k : \A n \in OfKey(V, l, k) : l2[n] = l[n] /\ l[n].id \in Nat /\ l[n].id < id
  <2>1. \A n \in V : l2[n] = l[n] /\ l[n].id \in Nat /\ l[n].id < id /\ l[n].arg # ""
    BY DEF LaterEntry
  <2> QED BY <1>1, <2>1, KeyKinds DEF OfStrings, OfRegExps, OfKey, Ranked
<1>6. type \notin BuiltIn \cup {"*"} => key = type /\ key \notin DOMAIN custom
  BY <1>0 DEF ExistingParser
<1>7. /\ \A n \in OfStrings(V, l) : l[n].arg # key
      /\ \A n \in OfRegExps(V, l) : l[n].arg # key
  BY <1>0, <1>5, <1>6
<1>8. SameEntries(V, l, l2)
  BY DEF SameEntries, LaterEntry
<1>9. ListBy(p2.list) /\ Ranked(p2.list, 2, custom2, OfStrings(W, l2), l2)
  <2>1. /\ Listed(list) /\ Len(list) \in Nat /\ 2 <= Len(list) /\ DOMAIN list = 1..Len(list)
        /\ list[Len(list) - 1] = "application/json" /\ list[Len(list)] = "text/plain" /\ 2 \in Nat
    BY <1>1, ListedIs DEF ListBy
  <2>2. \/ p2.list = list /\ OfStrings(W, l2) = OfStrings(V, l)
        \/ /\ p2.list = <<type>> \o list /\ OfStrings(W, l2) = OfStrings(V, l) \cup {new}
           /\ key = type /\ type \notin DOMAIN custom
    BY <1>3, <1>4, <1>6
  <2>3. PICK N, M, more : N = OfStrings(V, l) /\ M = OfStrings(W, l2) /\ more = p2.list
    OBVIOUS
  <2>4. /\ Ranked(list, 2, custom, N, l) /\ NewAmong(N, l, l2, new, key, type, id)
        /\ KeySet(custom, custom2, key, id) /\ OneMore(list, more, N, M, custom, new, key, type)
    <3>1. NewAmong(N, l, l2, new, key, type, id)
      BY <1>5, <1>7, <2>3 DEF NewAmong, LaterEntry
    <3>2. OneMore(list, more, N, M, custom, new, key, type)
      BY <2>2, <2>3 DEF OneMore
    <3>3. KeySet(custom, custom2, key, id)
      BY <1>2 DEF KeySet
    <3> QED BY <1>1, <2>3, <3>1, <3>2, <3>3
  <2>5. Ranked(more, 2, custom2, M, l2) /\ (more = list \/ Prepended(more, list, type))
    BY <2>1, <2>4, RankedNext
  <2>6. CASE Prepended(more, list, type)
    <3>1. Listed(more) /\ Len(more) = Len(list) + 1 /\ \A k \in DOMAIN list : more[k + 1] = list[k]
      BY <2>6 DEF Prepended
    <3>2. /\ Len(more) - 1 = (Len(list) - 1) + 1 /\ Len(list) - 1 \in DOMAIN list
          /\ Len(list) \in DOMAIN list /\ Len(more) >= 2
      <4>1. \A n \in Nat : 2 <= n => (n + 1) - 1 = (n - 1) + 1 /\ n - 1 \in 1..n /\ n \in 1..n /\ n + 1 >= 2
        OBVIOUS
      <4> QED BY <2>1, <3>1, <4>1
    <3>3. more[Len(more) - 1] = list[Len(list) - 1] /\ more[Len(more)] = list[Len(list)]
      BY <3>1, <3>2
    <3> QED BY <2>1, <2>3, <2>5, <3>1, <3>2, <3>3 DEF ListBy
  <2> QED BY <1>1, <2>3, <2>5, <2>6
<1>10. Listed(p2.regexps) /\ Ranked(p2.regexps, 0, custom2, OfRegExps(W, l2), l2)
  <2>1. Listed(regexps) /\ 0 <= Len(regexps) /\ 0 \in Nat
    <3>1. Len(regexps) \in Nat
      BY <1>1, ListedIs
    <3>2. \A n \in Nat : 0 <= n
      OBVIOUS
    <3> QED BY <1>1, <3>1, <3>2
  <2>2. \/ p2.regexps = regexps /\ OfRegExps(W, l2) = OfRegExps(V, l)
        \/ /\ p2.regexps = <<type>> \o regexps /\ OfRegExps(W, l2) = OfRegExps(V, l) \cup {new}
           /\ key = type /\ type \notin DOMAIN custom
    BY <1>3, <1>4, <1>6, KeyKinds
  <2>3. PICK N, M, more : N = OfRegExps(V, l) /\ M = OfRegExps(W, l2) /\ more = p2.regexps
    OBVIOUS
  <2>4. /\ Ranked(regexps, 0, custom, N, l) /\ NewAmong(N, l, l2, new, key, type, id)
        /\ KeySet(custom, custom2, key, id) /\ OneMore(regexps, more, N, M, custom, new, key, type)
    <3>1. NewAmong(N, l, l2, new, key, type, id)
      BY <1>5, <1>7, <2>3 DEF NewAmong, LaterEntry
    <3>2. OneMore(regexps, more, N, M, custom, new, key, type)
      BY <2>2, <2>3 DEF OneMore
    <3>3. KeySet(custom, custom2, key, id)
      BY <1>2 DEF KeySet
    <3> QED BY <1>1, <2>3, <3>1, <3>2, <3>3
  <2>5. Ranked(more, 0, custom2, M, l2) /\ (more = regexps \/ Prepended(more, regexps, type))
    BY <2>1, <2>4, RankedNext
  <2> QED BY <1>1, <2>3, <2>5 DEF Prepended
<1>11. ASSUME NEW b \in BuiltIn
       PROVE  BuiltInBy(custom2, W, l2, b)
  <2>1. BuiltInBy(custom, V, l, b) /\ b # "" /\ b # "*"
    BY <1>1, KeyKinds
  <2>2. CASE type # b
    <3>1. OfKey(W, l2, b) = OfKey(V, l, b)
      BY <1>4, <2>2
    <3>2. KeepsKey(custom, custom2, b)
      BY <1>0, <1>2, <2>1, <2>2 DEF BuiltInBy, KeepsKey
    <3> QED BY <1>8, <2>1, <3>1, <3>2, BuiltInSame
  <2>3. CASE type = b
    <3>1. key = b /\ OfKey(W, l2, b) = OfKey(V, l, b) \cup {new}
      BY <1>0, <1>4, <2>1, <2>3
    <3>2. NewestOf(id, OfKey(V, l, b) \cup {new}, l2)
      BY <1>5, NewestIs DEF LaterEntry
    <3> QED BY <1>2, <3>1, <3>2 DEF BuiltInBy
  <2> QED BY <2>2, <2>3
<1>12. CatchAllBy(custom2, W, l2)
  <2>1. CASE type # "*"
    <3>1. OfKey(W, l2, "*") = OfKey(V, l, "*") /\ key # ""
      BY <1>0, <1>4, <2>1 DEF LaterEntry
    <3>2. KeepsCatchAll(custom, custom2)
      BY <1>2, <3>1 DEF KeepsCatchAll
    <3> QED BY <1>1, <1>8, <3>1, <3>2, CatchAllSame
  <2>2. CASE type = "*"
    <3>1. key = "" /\ OfKey(W, l2, "*") = OfKey(V, l, "*") \cup {new}
      BY <1>0, <1>4, <2>2
    <3>2. NewestOf(id, OfKey(V, l, "*") \cup {new}, l2)
      BY <1>5, NewestIs DEF LaterEntry
    <3> QED BY <1>2, <3>1, <3>2 DEF CatchAllBy
  <2> QED BY <2>1, <2>2
<1>13. ParsersBy(p2, W, l2)
  BY <1>3, <1>9, <1>10, <1>11, <1>12, ParsersParts
<1> QED BY <1>0, <1>13

-----------------------------------------------------------------------------
(* The parsers that an instance sees.                                      *)

AddsParser(c) == CallAddContentTypeParser(c) /\ ~CannotAddParser(insts[Here].parsers, c.type)
LEMMA LoggedParser ==
  ASSUME Shape, [Next]_vars
  PROVE  \/ ParserAt' = ParserAt /\ ~\E c \in api.uses : AddsParser(c)
         \/ \E c \in api.uses : LET n == Len(log) + 1
              IN /\ AddsParser(c) /\ ParserAt' = ParserAt \cup {n} /\ n \notin DOMAIN log
                 /\ log'[n].inst = Here /\ log'[n].id = Me /\ log'[n].arg = c.type
<1> DEFINE len == Len(log)
<1>1. /\ DOMAIN log = 1..len /\ len \in Nat /\ DOMAIN log \subseteq DOMAIN log'
      /\ \A n \in DOMAIN log : log'[n] = log[n]
      /\ \A n \in DOMAIN log' : n \in DOMAIN log \/ n = len + 1
  BY LogGrowsByOne
<1>2. ASSUME NEW op, NEW i, NEW arg, NEW id, Log(op, i, arg, id)
      PROVE  /\ len + 1 \in DOMAIN log' /\ len + 1 \notin DOMAIN log
             /\ log'[len + 1].op = op /\ log'[len + 1].inst = i
             /\ log'[len + 1].arg = arg /\ log'[len + 1].id = id
  <2> DEFINE e == [op |-> op, inst |-> i, arg |-> arg, id |-> id, at |-> Top.at]
  <2>1. log' = Append(log, e) /\ e.op = op /\ e.inst = i /\ e.arg = arg /\ e.id = id
    BY <1>2 DEF Log
  <2> HIDE DEF e
  <2> QED BY <2>1, ListAppend DEF Shape, Entries
<1> HIDE DEF len
<1>3. ASSUME NEW c \in api.uses, AddsParser(c)
      PROVE  /\ ParserAt' = ParserAt \cup {len + 1} /\ len + 1 \notin DOMAIN log
             /\ log'[len + 1].inst = Here /\ log'[len + 1].id = Me /\ log'[len + 1].arg = c.type
  <2>1. Log(c.op, Here, c.type, Me) /\ c.op = "addContentTypeParser"
    BY <1>3 DEF AddsParser, CallAddContentTypeParser, Calling, Done
  <2> QED BY <1>1, <1>2, <2>1 DEF ParserAt
<1>4. ASSUME \A n \in DOMAIN log' : n \in DOMAIN log \/ log'[n].op # "addContentTypeParser"
      PROVE  ParserAt' = ParserAt
  BY <1>1, <1>4 DEF ParserAt
<1>5. ASSUME NEW op, NEW i, NEW arg, NEW id, Log(op, i, arg, id), op # "addContentTypeParser"
      PROVE  ParserAt' = ParserAt
  BY <1>1, <1>2, <1>4, <1>5
<1>6. log' = log => ParserAt' = ParserAt
  BY DEF ParserAt
<1>7. ASSUME ~\E c \in api.uses : AddsParser(c)
      PROVE  ParserAt' = ParserAt
  <2>1. ASSUME NEW c \in api.uses, Call(c)
        PROVE  ParserAt' = ParserAt
    <3>1. CASE Throws(c)
      <4>1. Log("error", Here, c.op, Me)
        BY <3>1 DEF Throws
      <4> QED BY <1>5, <4>1
    <3>2. CASE ~Throws(c) /\ \E arg : Log(c.op, Here, arg, Me)
      <4>1. c.op = "addContentTypeParser" => CallAddContentTypeParser(c)
        BY <2>1, <3>2 DEF Call, Calling, BodyThrows, CallRegister, CallAfter, CallAddHook, CallRoute,
               CallDecorate, CallAddSchema, CallSetCompiler, CallSet, CallSetNotFoundHandler
      <4>2. c.op # "addContentTypeParser"
        BY <1>7, <3>2, <4>1 DEF AddsParser, CallAddContentTypeParser
      <4> QED BY <1>5, <3>2, <4>2
    <3> QED BY <2>1, <3>1, <3>2, CallCases
  <2>2. CASE BodyEnds \/ SkipPlugin \/ RunSetNotFound \/ Loaded \/ NotFoundListener \/ Start
    BY <1>6, <2>2 DEF BodyEnds, SkipPlugin, RunSetNotFound, Loaded, NotFoundListener, Start
  <2>3. CASE LoadPlugin
    BY <1>5, <2>3 DEF LoadPlugin
  <2>4. CASE RunAfter
    BY <1>5, <1>6, <2>4 DEF RunAfter
  <2>5. CASE RunAddHook
    BY <1>5, <2>5 DEF RunAddHook
  <2>6. CASE RunRoute
    <3>1. log' = log \/ \E op \in {"error", "ignored"} : Log(op, Current.inst, "route", Current.id)
      BY <2>6 DEF RunRoute, RouteEnds
    <3> QED BY <1>5, <1>6, <3>1
  <2>7. CASE RouteListener
    BY <1>5, <1>6, <2>7 DEF RouteListener
  <2>8. CASE Serve \/ UNCHANGED vars
    BY <1>6, <2>8, ServeBoot DEF vars, bootVars
  <2> QED BY <2>1, <2>2, <2>3, <2>4, <2>5, <2>6, <2>7, <2>8 DEF Next, Boot
<1> QED BY <1>3, <1>7 DEF len

(* What a step does to the parsers of an instance that is there.           *)
LEMMA ParsersNext ==
  ASSUME Shape, [Next]_vars, NEW i \in DOMAIN insts
  PROVE  \/ insts'[i].parsers = insts[i].parsers /\ ~(i = Here /\ \E c \in api.uses : AddsParser(c))
         \/ \E c \in api.uses :
              /\ i = Here /\ AddsParser(c) /\ phase = "loading"
              /\ insts'[i].parsers = AddParser(insts[i].parsers, c.type, Me)
         \/ /\ phase = "started"
            /\ \E type : insts'[i].parsers = AfterLookup(insts[i].parsers, type)
<1>1. ASSUME NEW j, NEW v, insts' = [insts EXCEPT ![j].parsers = v]
      PROVE  insts'[i].parsers = IF i = j THEN v ELSE insts[i].parsers
  <2> DEFINE w == [insts[j] EXCEPT !.parsers = v]
  <2>1. w.parsers = v /\ insts' = [insts EXCEPT ![j] = w]
    BY <1>1
  <2> HIDE DEF w
  <2>2. insts'[i] = IF i = j THEN w ELSE insts[i]
    <3>1. insts = [k \in DOMAIN insts |-> insts[k]]
      BY ListedIs DEF Shape, Tree
    <3> QED BY <2>1, <3>1
  <2> QED BY <2>1, <2>2
<1>2. ASSUME NEW c \in api.uses, AddsParser(c)
      PROVE  /\ phase = "loading"
             /\ insts'[i].parsers = IF i = Here THEN AddParser(insts[i].parsers, c.type, Me) ELSE insts[i].parsers
  <2> DEFINE v == AddParser(insts[Here].parsers, c.type, Me)
  <2>1. insts' = [insts EXCEPT ![Here].parsers = v] /\ phase = "loading"
    BY <1>2 DEF AddsParser, CallAddContentTypeParser, Sets, Calling, NotStarted
  <2> HIDE DEF v
  <2>2. insts'[i].parsers = IF i = Here THEN v ELSE insts[i].parsers
    BY <1>1, <2>1
  <2> QED BY <2>1, <2>2 DEF v
<1>3. ASSUME NEW s, NEW k, NEW type, Request(s, k, type)
      PROVE  phase = "started" /\ (insts'[i].parsers = insts[i].parsers
                                     \/ insts'[i].parsers = AfterLookup(insts[i].parsers, type))
  <2> DEFINE j == routes[k].inst
             v == AfterLookup(insts[j].parsers, type)
  <2>1. insts' = [insts EXCEPT ![j].parsers = v] /\ phase = "started"
    BY <1>3 DEF Request, Ready
  <2> HIDE DEF v, j
  <2>2. insts'[i].parsers = IF i = j THEN v ELSE insts[i].parsers
    BY <1>1, <2>1
  <2> QED BY <2>1, <2>2 DEF v
<1>4. CASE \E c \in api.uses : AddsParser(c)
  BY <1>2, <1>4
<1>5. CASE ~\E c \in api.uses : AddsParser(c)
  <2>1. CASE ~ParserStep
    BY <1>5, <2>1, NextInsts DEF InstsKept, SameBut, Shape
  <2>2. CASE \E c \in api.uses : CallAddContentTypeParser(c)
    BY <1>5, <2>2 DEF CallAddContentTypeParser, AddsParser
  <2>3. CASE Serve
    <3>1. insts' = insts \/ \E s, k, type : Request(s, k, type)
      BY <2>3, ServeCases DEF bootVars, registryVars
    <3> QED BY <1>3, <1>5, <3>1
  <2> QED BY <2>1, <2>2, <2>3 DEF ParserStep
<1> QED BY <1>4, <1>5

(* Who sees a parser, in two states of the instances.                      *)
Beyond(is, i, k) == {j \in is[i].chain : j > k}
Sees(is, e, i) ==
  \/ e.inst = i
  \/ e.inst \in is[i].chain /\ e.arg \notin RegExps /\ e.id <= is[Min(Beyond(is, i, e.inst))].born
ChainOn(is, i) ==
  i \in DOMAIN is /\ i \in Nat /\ i \in is[i].chain /\ is[i].chain \subseteq 1..i /\ is[i].chain \subseteq DOMAIN is
SameChains(is, is2) == \A j \in DOMAIN is : is2[j].chain = is[j].chain /\ is2[j].born = is[j].born
LEMMA SeenIs ==
  ASSUME NEW i
  PROVE  /\ SeenBy(i) = {n \in ParserAt : Sees(insts, log[n], i)}
         /\ SeenBy(i)' = {n \in ParserAt' : Sees(insts', log'[n], i)}
BY DEF SeenBy, Visible, OnChain, Sees, Beyond

LEMMA AllChains ==
  ASSUME Tree
  PROVE  /\ \A i \in DOMAIN insts : ChainOn(insts, i)
         /\ DOMAIN insts = 1..Len(insts) /\ Len(insts) \in Nat
<1>1. DOMAIN insts = 1..Len(insts) /\ Len(insts) \in Nat
  BY ListedIs DEF Tree
<1>2. ASSUME NEW i \in DOMAIN insts
      PROVE  ChainOn(insts, i)
  <2>1. 1..i \subseteq 1..Len(insts)
    BY <1>1
  <2> QED BY <1>1, <2>1 DEF ChainOn, Tree
<1> QED BY <1>1, <1>2

(* The instance below the one of a call, on the way to i.                  *)
LEMMA BelowIs ==
  ASSUME NEW is, NEW i, ChainOn(is, i), NEW k \in is[i].chain, k # i
  PROVE  /\ Beyond(is, i, k) \subseteq Nat /\ Min(Beyond(is, i, k)) \in Beyond(is, i, k)
         /\ Min(Beyond(is, i, k)) \in DOMAIN is
         /\ \A x \in Beyond(is, i, k) : Min(Beyond(is, i, k)) <= x
<1>1. i \in Nat /\ i \in is[i].chain /\ is[i].chain \subseteq 1..i /\ is[i].chain \subseteq DOMAIN is
  BY DEF ChainOn
<1>2. k \in 1..i /\ i > k
  BY <1>1
<1>3. Beyond(is, i, k) \subseteq Nat /\ Beyond(is, i, k) # {} /\ Beyond(is, i, k) \subseteq DOMAIN is
  BY <1>1, <1>2 DEF Beyond
<1> QED BY <1>3, Least

LEMMA SeesKept ==
  ASSUME NEW is, NEW is2, SameChains(is, is2), NEW i, ChainOn(is, i), NEW e
  PROVE  Sees(is2, e, i) <=> Sees(is, e, i)
<1>1. is2[i].chain = is[i].chain /\ i \in DOMAIN is
  BY DEF SameChains, ChainOn
<1>2. CASE e.inst = i
  BY <1>2 DEF Sees
<1>3. CASE e.inst # i /\ e.inst \in is[i].chain
  <2>1. Min(Beyond(is, i, e.inst)) \in DOMAIN is
    BY <1>3, BelowIs
  <2>2. Beyond(is2, i, e.inst) = Beyond(is, i, e.inst)
    BY <1>1 DEF Beyond
  <2>3. is2[Min(Beyond(is, i, e.inst))].born = is[Min(Beyond(is, i, e.inst))].born
    BY <2>1 DEF SameChains
  <2> QED BY <1>1, <1>3, <2>2, <2>3 DEF Sees
<1>4. CASE e.inst # i /\ e.inst \notin is[i].chain
  BY <1>1, <1>4 DEF Sees
<1> QED BY <1>2, <1>3, <1>4

(* An instance that is there does not see what is added around it now.     *)
LEMMA NewUnseen ==
  ASSUME NEW is, NEW i, ChainOn(is, i), NEW m \in Nat, \A j \in DOMAIN is : is[j].born \in 0..m,
         NEW e, e.inst # i, e.id = m + 1
  PROVE  ~Sees(is, e, i)
<1>1. CASE e.inst \in is[i].chain
  <2>1. PICK k : k = Min(Beyond(is, i, e.inst))
    OBVIOUS
  <2>2. is[k].born \in 0..m
    BY <1>1, <2>1, BelowIs
  <2>3. ~(e.id <= is[Min(Beyond(is, i, e.inst))].born)
    BY <2>1, <2>2
  <2> QED BY <2>3 DEF Sees
<1> QED BY <1>1 DEF Sees

(* A new one sees what its parent sees, but for the regular expressions.   *)
LEMMA ChildSees ==
  ASSUME NEW is, NEW is2, SameChains(is, is2), NEW i, ChainOn(is, i),
         NEW m \in Nat, NEW me \in Nat, \A j \in DOMAIN is : j \in Nat /\ j < me,
         is2[me].chain = is[i].chain \cup {me}, is2[me].born = m,
         NEW e, e.inst \in DOMAIN is, e.id \in 0..m
  PROVE  Sees(is2, e, me) <=> Sees(is, e, i) /\ e.arg \notin RegExps
<1>1. /\ i \in DOMAIN is /\ i \in Nat /\ i \in is[i].chain
      /\ is[i].chain \subseteq 1..i /\ is[i].chain \subseteq DOMAIN is
  BY DEF ChainOn
<1>2. e.inst # me /\ e.inst \in Nat /\ e.inst < me /\ i < me
  BY <1>1
<1>3. CASE e.inst = i
  <2>1. Beyond(is2, me, e.inst) = {me}
    <3>1. \A j \in is[i].chain : ~(j > i)
      BY <1>1
    <3>2. me > i
      BY <1>1, <1>2
    <3> QED BY <1>3, <3>1, <3>2 DEF Beyond
  <2>2. Min({me}) = me
    <3>1. {me} \subseteq Int /\ me \in {me} /\ \A y \in {me} : me <= y
      OBVIOUS
    <3> QED BY <3>1, MinIs
  <2>3. e.inst \in is2[me].chain /\ e.id <= is2[Min(Beyond(is2, me, e.inst))].born
    BY <1>1, <1>3, <2>1, <2>2
  <2> QED BY <1>2, <1>3, <2>3 DEF Sees
<1>4. CASE e.inst # i /\ e.inst \in is[i].chain
  <2>1. PICK S, S2, k : /\ S = Beyond(is, i, e.inst) /\ S2 = Beyond(is2, me, e.inst)
                        /\ k = Min(Beyond(is, i, e.inst))
    OBVIOUS
  <2>2. S \subseteq Nat /\ k \in S /\ k \in DOMAIN is /\ \A x \in S : k <= x
    BY <1>4, <2>1, BelowIs
  <2>3. S2 = S \cup {me}
    <3>1. me > e.inst
      BY <1>2
    <3> QED BY <2>1, <3>1 DEF Beyond
  <2>4. k \in S2 /\ S2 \subseteq Int /\ \A y \in S2 : k <= y
    <3>1. k <= me
      BY <2>2
    <3> QED BY <2>2, <2>3, <3>1
  <2>5. Min(S2) = k
    BY <2>4, MinIs
  <2>6. is2[k].born = is[k].born
    BY <2>2 DEF SameChains
  <2> QED BY <1>2, <1>4, <2>1, <2>5, <2>6 DEF Sees
<1>5. CASE e.inst # i /\ e.inst \notin is[i].chain
  BY <1>2, <1>5 DEF Sees
<1> QED BY <1>3, <1>4, <1>5

LEMMA StepChains ==
  ASSUME Shape, [Next]_vars
  PROVE  /\ SameChains(insts, insts') /\ \A i \in DOMAIN insts : ChainOn(insts, i)
         /\ DOMAIN insts \subseteq DOMAIN insts'
<1>1. InstsKept
  BY NextInsts DEF Shape
<1> QED BY <1>1, AllChains DEF Shape, InstsKept, SameBut, SameChains

(* What an instance that is there sees after a step.                       *)
LEMMA SeenKept ==
  ASSUME Shape, ParsersInv, [Next]_vars, NEW i \in DOMAIN insts
  PROVE  /\ SameEntries(SeenBy(i), log, log')
         /\ ~(i = Here /\ \E c \in api.uses : AddsParser(c)) => SeenBy(i)' = SeenBy(i)
         /\ i = Here => \A c \in api.uses : AddsParser(c) =>
              LaterEntry(SeenBy(i), SeenBy(i)', log, log', Len(log) + 1, c.type, Me)
<1>1. /\ ParserAt \subseteq DOMAIN log /\ SeenBy(i) \subseteq ParserAt
      /\ \A n \in DOMAIN log : log'[n] = log[n]
  BY LogGrowsByOne DEF ParserAt, SeenBy
<1>2. /\ SameChains(insts, insts') /\ ChainOn(insts, i)
      /\ \A e : Sees(insts', e, i) <=> Sees(insts, e, i)
  BY StepChains, SeesKept
<1>3. /\ SeenBy(i) = {n \in ParserAt : Sees(insts, log[n], i)}
      /\ SeenBy(i)' = {n \in ParserAt' : Sees(insts', log'[n], i)}
  BY SeenIs
<1>4. {n \in ParserAt : Sees(insts', log'[n], i)} = SeenBy(i)
  BY <1>1, <1>2, <1>3
<1>5. CASE ParserAt' = ParserAt /\ ~\E c \in api.uses : AddsParser(c)
  BY <1>1, <1>3, <1>4, <1>5 DEF SameEntries
<1>6. ASSUME NEW c \in api.uses, NEW n, n = Len(log) + 1,
             AddsParser(c), ParserAt' = ParserAt \cup {n}, n \notin DOMAIN log,
             log'[n].inst = Here, log'[n].id = Me, log'[n].arg = c.type
      PROVE  /\ i # Here => SeenBy(i)' = SeenBy(i)
             /\ i = Here => SeenBy(i)' = SeenBy(i) \cup {n}
  <2>1. SeenBy(i)' = SeenBy(i) \cup {m \in {n} : Sees(insts', log'[m], i)}
    BY <1>3, <1>4, <1>6
  <2>2. CASE i = Here
    BY <1>6, <2>1, <2>2 DEF Sees
  <2>3. CASE i # Here
    <3>1. Me = calls + 1 /\ calls \in Nat /\ \A j \in DOMAIN insts : insts[j].born \in 0..calls
      BY DEF Me, Shape, ParsersInv
    <3>2. PICK e : e = log'[n] /\ e.inst # i /\ e.id = calls + 1
      BY <1>6, <2>3, <3>1
    <3>3. ~Sees(insts, e, i)
      BY <1>2, <3>1, <3>2, NewUnseen
    <3>4. ~Sees(insts', log'[n], i)
      BY <1>2, <3>2, <3>3
    <3> QED BY <2>1, <2>3, <3>4
  <2> QED BY <2>2, <2>3
<1>7. ASSUME NEW c \in api.uses, AddsParser(c), i = Here
      PROVE  LaterEntry(SeenBy(i), SeenBy(i)', log, log', Len(log) + 1, c.type, Me)
  <2> DEFINE n == Len(log) + 1
  <2>1. PICK d \in api.uses :
          /\ AddsParser(d) /\ ParserAt' = ParserAt \cup {n} /\ n \notin DOMAIN log
          /\ log'[n].inst = Here /\ log'[n].id = Me /\ log'[n].arg = d.type
    BY <1>7, LoggedParser
  <2>2. SeenBy(i)' = SeenBy(i) \cup {n}
    BY <1>6, <1>7, <2>1
  <2> HIDE DEF n
  <2>3. Me = calls + 1 /\ calls \in Nat
    BY DEF Me, Shape
  <2>4. /\ \A m \in SeenBy(i) : log[m].id \in 1..calls
        /\ \A m \in SeenBy(i) : log[m].arg # ""
        /\ \A m \in SeenBy(i) : log'[m] = log[m]
    BY <1>1 DEF ParsersInv
  <2>5. Me \in Nat /\ \A id \in 1..calls : id \in Nat /\ id < Me
    BY <2>3
  <2>6. \A m \in SeenBy(i) : log[m].id \in Nat /\ log[m].id < Me
    BY <2>4, <2>5
  <2>7. log'[n].arg = c.type /\ c.type # ""
    <3>1. \E arg : arg = c.type /\ Log(c.op, Here, arg, Me)
      BY <1>7 DEF AddsParser, CallAddContentTypeParser, Calling, Done
    <3>2. log'[n].arg = c.type
      <4> DEFINE e == [op |-> c.op, inst |-> Here, arg |-> c.type, id |-> Me, at |-> Top.at]
      <4>1. log' = Append(log, e) /\ e.arg = c.type
        BY <3>1 DEF Log
      <4> HIDE DEF e
      <4> QED BY <4>1, ListAppend DEF Shape, Entries, n
    <3>3. c.type # ""
      BY <1>7 DEF AddsParser, CannotAddParser
    <3> QED BY <3>2, <3>3
  <2> QED BY <2>1, <2>2, <2>4, <2>5, <2>6, <2>7 DEF LaterEntry, n
<1> QED BY <1>1, <1>5, <1>6, <1>7, LoggedParser DEF SameEntries

LEMMA LookupLeaves ==
  ASSUME NEW p, NEW type, NEW q, q = AfterLookup(p, type)
  PROVE  /\ q.custom = p.custom /\ q.list = p.list /\ q.regexps = p.regexps
         /\ Candidates(q, type) = Candidates(p, type)
         /\ q.cache = p.cache \/ q.cache = WithKey(p.cache, type, Lookup(p, type))
<1>1. CASE Candidates(p, type) = {}
  BY <1>1 DEF AfterLookup
<1>2. CASE Candidates(p, type) # {}
  <2> DEFINE cache == WithKey(p.cache, type, Lookup(p, type))
  <2>1. q = [p EXCEPT !.cache = cache]
    BY <1>2 DEF AfterLookup
  <2> HIDE DEF cache
  <2>2. q.custom = p.custom /\ q.list = p.list /\ q.regexps = p.regexps /\ q.cache = cache
    BY <2>1
  <2>3. Keys(q) = Keys(p)
    BY <2>2 DEF Keys
  <2> QED BY <2>2, <2>3 DEF Candidates, cache
<1> QED BY <1>1, <1>2

LEMMA NextParsers ==
  ASSUME Shape, ParsersInv, [Next]_vars
  PROVE  ParsersInv'
<1>1. /\ calls \in Nat /\ calls' \in Nat /\ calls <= calls' /\ 1..calls \subseteq 1..calls'
      /\ 0..calls \subseteq 0..calls' /\ InstsKept
  BY CallsGrow, NextInsts DEF Shape
<1>2. ASSUME NEW n \in ParserAt'
      PROVE  log'[n].id \in 1..calls' /\ log'[n].arg # ""
  <2>1. CASE n \in ParserAt
    <3>1. log'[n] = log[n]
      BY <2>1, LogGrowsByOne DEF ParserAt
    <3>2. log[n].id \in 1..calls /\ log[n].arg # ""
      BY <2>1 DEF ParsersInv
    <3> QED BY <1>1, <3>1, <3>2
  <2>2. CASE n \notin ParserAt
    <3>1. PICK c \in api.uses : /\ AddsParser(c) /\ n = Len(log) + 1
                                /\ log'[n].id = Me /\ log'[n].arg = c.type
      BY <2>2, LoggedParser
    <3>2. Me = calls + 1 /\ calls' = Me
      BY <3>1 DEF AddsParser, CallAddContentTypeParser, Calling, Me
    <3>3. c.type # ""
      BY <3>1 DEF AddsParser, CannotAddParser
    <3>4. Me \in 1..calls'
      BY <1>1, <3>2
    <3> QED BY <3>1, <3>3, <3>4
  <2> QED BY <2>1, <2>2
<1>3. ASSUME NEW i \in DOMAIN insts
      PROVE  insts'[i].born \in 0..calls' /\ ParsersBy(insts'[i].parsers, SeenBy(i)', log')
  <2>1. insts'[i].born = insts[i].born /\ insts[i].born \in 0..calls
    BY <1>1 DEF InstsKept, SameBut, ParsersInv
  <2>2. PICK p, p2, V, W, l, l2 : /\ p = insts[i].parsers /\ p2 = insts'[i].parsers
                                  /\ V = SeenBy(i) /\ W = SeenBy(i)' /\ l = log /\ l2 = log'
    OBVIOUS
  <2>3. ParsersBy(p, V, l) /\ SameEntries(V, l, l2)
    BY <2>2, SeenKept DEF ParsersInv
  <2> SUFFICES ParsersBy(p2, W, l2)
    BY <1>1, <2>1, <2>2
  <2>4. ASSUME p2.custom = p.custom, p2.list = p.list, p2.regexps = p.regexps, W = V
        PROVE  ParsersBy(p2, W, l2)
    BY <2>3, <2>4, ParsersLeft
  <2>5. CASE p2 = p /\ W = V
    BY <2>4, <2>5
  <2>6. CASE W = V /\ \E type : p2 = AfterLookup(p, type)
    BY <2>4, <2>6, LookupLeaves
  <2>7. ASSUME NEW c \in api.uses, i = Here, AddsParser(c), p2 = AddParser(p, c.type, Me)
        PROVE  ParsersBy(p2, W, l2)
    <3>1. ~ExistingParser(p, c.type)
      BY <2>2, <2>7 DEF AddsParser, CannotAddParser
    <3>2. LaterEntry(V, W, l, l2, Len(log) + 1, c.type, Me)
      BY <2>2, <2>7, SeenKept
    <3>3. PICK type, new, id : type = c.type /\ new = Len(log) + 1 /\ id = Me
      OBVIOUS
    <3>4. ParsersBy(AddParser(p, type, id), W, l2)
      BY <2>3, <3>1, <3>2, <3>3, ParserAdded
    <3> QED BY <2>7, <3>3, <3>4
  <2>8. CASE i = Here /\ \E c \in api.uses : AddsParser(c)
    <3>1. PICK c \in api.uses : AddsParser(c) /\ p2 = AddParser(p, c.type, Me)
      <4>1. phase = "loading"
        BY <2>8 DEF AddsParser, CallAddContentTypeParser, Calling, NotStarted
      <4> QED BY <2>2, <2>8, <4>1, ParsersNext
    <3> QED BY <2>7, <2>8, <3>1
  <2>9. CASE ~(i = Here /\ \E c \in api.uses : AddsParser(c))
    <3>1. W = V
      BY <2>2, <2>9, SeenKept
    <3>2. p2 = p \/ \E type : p2 = AfterLookup(p, type)
      BY <2>2, <2>9, ParsersNext
    <3> QED BY <2>5, <2>6, <3>1, <3>2
  <2> QED BY <2>8, <2>9
<1>4. CASE DOMAIN insts' = DOMAIN insts
  BY <1>2, <1>3, <1>4 DEF ParsersInv
<1>5. CASE LoadPlugin /\ DOMAIN insts' # DOMAIN insts
  <2>1. PICK me, i : /\ me = Len(insts) + 1 /\ i \in DOMAIN insts
                     /\ DOMAIN insts' = DOMAIN insts \cup {me} /\ me \notin DOMAIN insts
                     /\ insts'[me].chain = insts[i].chain \cup {me} /\ insts'[me].born = calls
                     /\ insts'[me].parsers = BuildContentTypeParser(insts[i].parsers)
    BY <1>5, Born
  <2>2. ParserAt' = ParserAt
    <3>1. ~\E c \in api.uses : AddsParser(c)
      BY <1>5 DEF LoadPlugin, Running, AddsParser, CallAddContentTypeParser, Calling
    <3> QED BY <3>1, LoggedParser
  <2>3. /\ SameChains(insts, insts') /\ ChainOn(insts, i)
        /\ me \in Nat /\ \A j \in DOMAIN insts : j \in Nat /\ j < me
    <3>1. DOMAIN insts = 1..Len(insts) /\ Len(insts) \in Nat
      BY AllChains DEF Shape
    <3> QED BY <2>1, <3>1, StepChains
  <2>4. ASSUME NEW n \in ParserAt
        PROVE  /\ log'[n] = log[n]
               /\ Sees(insts', log'[n], me) <=> Sees(insts, log[n], i) /\ log[n].arg \notin RegExps
    <3>1. log'[n] = log[n] /\ log[n].inst \in DOMAIN insts
      BY LogGrowsByOne DEF ParserAt, Shape, Entries
    <3>2. PICK e : e = log[n]
      OBVIOUS
    <3>3. e.id \in 1..calls
      BY <3>2 DEF ParsersInv
    <3>4. e.id \in 0..calls /\ e.inst \in DOMAIN insts
      BY <1>1, <3>1, <3>2, <3>3
    <3>5. Sees(insts', e, me) <=> Sees(insts, e, i) /\ e.arg \notin RegExps
      BY <1>1, <2>1, <2>3, <3>4, ChildSees
    <3> QED BY <3>1, <3>2, <3>5
  <2>5. SeenBy(me)' = {n \in SeenBy(i) : log[n].arg \notin RegExps}
    <3>1. /\ SeenBy(i) = {n \in ParserAt : Sees(insts, log[n], i)}
          /\ SeenBy(me)' = {n \in ParserAt' : Sees(insts', log'[n], me)}
      BY SeenIs
    <3> QED BY <2>2, <2>4, <3>1
  <2>6. ParsersBy(insts'[me].parsers, SeenBy(me)', log')
    <3>1. PICK p, p2, V, W, l, l2 : /\ p = insts[i].parsers /\ p2 = insts'[me].parsers
                                    /\ V = SeenBy(i) /\ W = SeenBy(me)' /\ l = log /\ l2 = log'
      OBVIOUS
    <3>2. p2.custom = p.custom /\ p2.list = p.list /\ p2.regexps = <<>>
      BY <2>1, <3>1 DEF BuildContentTypeParser, ContentTypeParser
    <3>3. ParsersBy(p, V, l) /\ SameEntries(V, l, l2)
      BY <2>1, <3>1, SeenKept DEF ParsersInv
    <3>4. W = {n \in V : l[n].arg \notin RegExps}
      BY <2>5, <3>1
    <3>5. ParsersBy(p2, W, l2)
      BY <3>2, <3>3, <3>4, ParsersLeft
    <3> QED BY <3>1, <3>5
  <2>7. insts'[me].born \in 0..calls'
    BY <1>1, <2>1
  <2> QED BY <1>2, <1>3, <2>1, <2>6, <2>7 DEF ParsersInv
<1> QED BY <1>1, <1>4, <1>5 DEF InstsKept

LEMMA InitParsers == Init => ParsersInv
<1> SUFFICES ASSUME Init PROVE ParsersInv
  OBVIOUS
<1>1. DOMAIN insts = {1} /\ insts[1] = Fastify /\ calls = 0 /\ log = <<>>
  BY DEF Init
<1>2. Fastify.born = 0 /\ Fastify.parsers = ContentTypeParser
  BY DEF Fastify
<1>3. ParserAt = {} /\ SeenBy(1) = {}
  BY <1>1 DEF ParserAt, SeenBy
<1>4. PICK p : p = ContentTypeParser
  OBVIOUS
<1>5. /\ p.custom = [t \in BuiltIn |-> 0] /\ p.list = <<"application/json", "text/plain">>
      /\ p.regexps = <<>>
  BY <1>4 DEF ContentTypeParser
<1>6. OfStrings({}, log) = {} /\ OfRegExps({}, log) = {} /\ \A k : OfKey({}, log, k) = {}
  BY DEF OfStrings, OfRegExps, OfKey
<1>7. ListBy(p.list) /\ Len(p.list) = 2
  BY <1>5 DEF ListBy, Listed, Elements
<1>8. Listed(p.regexps) /\ Len(p.regexps) = 0
  BY <1>5 DEF Listed, Elements
<1>9. ASSUME NEW keys, NEW w, Len(keys) - w = 0
      PROVE  Ranked(keys, w, p.custom, {}, log)
  BY <1>9 DEF Ranked
<1>10. Ranked(p.list, 2, p.custom, {}, log) /\ Ranked(p.regexps, 0, p.custom, {}, log)
  <2>1. Len(p.list) - 2 = 0 /\ Len(p.regexps) - 0 = 0
    BY <1>7, <1>8
  <2> QED BY <1>9, <2>1
<1>11. /\ \A b \in BuiltIn : BuiltInBy(p.custom, {}, log, b)
       /\ CatchAllBy(p.custom, {}, log)
  BY <1>5, <1>6, KeyKinds DEF BuiltInBy, CatchAllBy
<1>12. ParsersBy(p, {}, log)
  BY <1>6, <1>7, <1>8, <1>10, <1>11, ParsersParts
<1> QED BY <1>1, <1>2, <1>3, <1>4, <1>12 DEF ParsersInv

(* A lookup leaves what is found.                                          *)
LEMMA SameFound ==
  ASSUME NEW p, NEW q, q.custom = p.custom, q.list = p.list, q.regexps = p.regexps
  PROVE  \A type : GetParser(q, type) = GetParser(p, type)
BY DEF GetParser, Candidates, Keys

CacheOf(p) == \A type \in DOMAIN p.cache : p.cache[type] = GetParser(p, type)
LEMMA LookedUp ==
  ASSUME NEW p, CacheOf(p), NEW type
  PROVE  /\ Lookup(p, type) = GetParser(p, type)
         /\ CacheOf(AfterLookup(p, type))
<1>1. Lookup(p, type) = GetParser(p, type)
  BY DEF Lookup, CacheOf
<1>2. PICK q : q = AfterLookup(p, type)
  OBVIOUS
<1>3. /\ q.custom = p.custom /\ q.list = p.list /\ q.regexps = p.regexps
      /\ q.cache = p.cache \/ q.cache = WithKey(p.cache, type, Lookup(p, type))
  BY <1>2, LookupLeaves
<1>4. \A t : GetParser(q, t) = GetParser(p, t)
  BY <1>3, SameFound
<1>5. \A t \in DOMAIN q.cache : q.cache[t] = GetParser(p, t)
  <2>1. CASE q.cache = p.cache
    BY <2>1 DEF CacheOf
  <2>2. CASE q.cache = WithKey(p.cache, type, Lookup(p, type))
    BY <1>1, <2>2 DEF CacheOf, WithKey
  <2> QED BY <1>3, <2>1, <2>2
<1> QED BY <1>1, <1>2, <1>4, <1>5 DEF CacheOf

LEMMA NextCache ==
  ASSUME Shape, CacheInv, [Next]_vars
  PROVE  /\ CacheInv'
         /\ phase = "started" => /\ phase' = "started" /\ routes' = routes
                                 /\ \A i \in DOMAIN insts : \A type :
                                      GetParser(insts'[i].parsers, type) = GetParser(insts[i].parsers, type)
<1>1. phase = "started" => phase' = "started" /\ routes' = routes
  BY NextPhase
<1>2. InstsKept /\ \A i \in DOMAIN insts : CacheOf(insts[i].parsers)
  BY NextInsts DEF Shape, CacheInv, CacheOf
<1>3. ASSUME NEW i \in DOMAIN insts
      PROVE  /\ CacheOf(insts'[i].parsers)
             /\ DOMAIN insts'[i].parsers.cache # {} => phase' = "started"
             /\ phase = "started" => \A type :
                  GetParser(insts'[i].parsers, type) = GetParser(insts[i].parsers, type)
  <2>1. PICK p, q : p = insts[i].parsers /\ q = insts'[i].parsers
    OBVIOUS
  <2>2. CacheOf(p) /\ (DOMAIN p.cache # {} => phase = "started")
    BY <1>2, <2>1 DEF CacheInv
  <2>3. CASE q = p
    BY <1>1, <2>1, <2>2, <2>3
  <2>4. ASSUME NEW c, phase = "loading", q = AddParser(p, c.type, Me)
        PROVE  DOMAIN q.cache = {} /\ phase # "started"
    <3>1. q.cache = p.cache
      BY <2>4 DEF AddParser
    <3> QED BY <2>2, <2>4, <3>1
  <2>5. ASSUME NEW type, q = AfterLookup(p, type), phase = "started"
        PROVE  CacheOf(q) /\ \A t : GetParser(q, t) = GetParser(p, t)
    <3>1. q.custom = p.custom /\ q.list = p.list /\ q.regexps = p.regexps
      BY <2>5, LookupLeaves
    <3> QED BY <2>2, <2>5, <3>1, LookedUp, SameFound
  <2>6. \/ q = p
        \/ \E c \in api.uses : phase = "loading" /\ q = AddParser(p, c.type, Me)
        \/ phase = "started" /\ \E type : q = AfterLookup(p, type)
    BY <2>1, ParsersNext
  <2>7. CASE \E c \in api.uses : phase = "loading" /\ q = AddParser(p, c.type, Me)
    BY <2>1, <2>4, <2>7 DEF CacheOf
  <2>8. CASE phase = "started" /\ \E type : q = AfterLookup(p, type)
    BY <1>1, <2>1, <2>5, <2>8
  <2> QED BY <2>3, <2>6, <2>7, <2>8
<1>4. ASSUME NEW me, LoadPlugin, DOMAIN insts' # DOMAIN insts, me \in DOMAIN insts', me \notin DOMAIN insts
      PROVE  DOMAIN insts'[me].parsers.cache = {}
  <2>1. PICK i : insts'[me].parsers = BuildContentTypeParser(insts[i].parsers)
    BY <1>4, Born
  <2>2. insts'[me].parsers.cache = <<>>
    BY <2>1 DEF BuildContentTypeParser, ContentTypeParser
  <2> QED BY <2>2
<1>5. ASSUME NEW i \in DOMAIN insts', NEW type \in DOMAIN insts'[i].parsers.cache
      PROVE  phase' = "started" /\ insts'[i].parsers.cache[type] = GetParser(insts'[i].parsers, type)
  <2>1. i \in DOMAIN insts
    BY <1>2, <1>4, <1>5 DEF InstsKept
  <2> QED BY <1>3, <1>5, <2>1 DEF CacheOf
<1>6. CacheInv'
  BY <1>5 DEF CacheInv
<1> QED BY <1>1, <1>3, <1>6

LEMMA NextRequestsFound ==
  ASSUME Shape, Requests, CacheInv, RequestsInv, [Next]_vars
  PROVE  RequestsInv'
<1> DEFINE Found(r) == /\ r.route \in DOMAIN routes
                       /\ r.parser = GetParser(insts[routes[r.route].inst].parsers, r.type)
<1>1. \A k \in DOMAIN requests : phase = "started" /\ Found(requests[k])
  BY DEF RequestsInv
<1>2. \A k \in DOMAIN routes : routes[k].inst \in DOMAIN insts
  BY DEF Shape, Registry
<1>3. ASSUME NEW k \in DOMAIN requests', phase = "started",
             NEW r, Found(r), requests'[k].route = r.route, requests'[k].type = r.type,
             requests'[k].parser = r.parser
      PROVE  /\ phase' = "started" /\ requests'[k].route \in DOMAIN routes'
             /\ requests'[k].parser = GetParser(insts'[routes'[requests'[k].route].inst].parsers,
                                                requests'[k].type)
  BY <1>2, <1>3, NextCache
<1>4. CASE requests' = requests
  BY <1>1, <1>3, <1>4 DEF RequestsInv
<1>5. ASSUME NEW s, NEW k \in DOMAIN routes, NEW type, Request(s, k, type)
      PROVE  RequestsInv'
  <2> DEFINE r == [socket |-> s, route |-> k, id |-> GenReqId, timed |-> routes[k].hooks["onTimeout"] # <<>>,
                   type |-> type, parser |-> Lookup(insts[routes[k].inst].parsers, type), sent |-> FALSE]
  <2>1. phase = "started" /\ requests' = Append(requests, r)
    BY <1>5 DEF Request, Arrive, Ready
  <2>2. r.route = k /\ r.type = type /\ r.parser = Lookup(insts[routes[k].inst].parsers, type)
    OBVIOUS
  <2> HIDE DEF r
  <2>3. CacheOf(insts[routes[k].inst].parsers)
    BY <1>2 DEF CacheInv, CacheOf
  <2>4. Found(r)
    BY <2>2, <2>3, LookedUp
  <2>5. \A m \in DOMAIN requests' : requests'[m] = r \/ (m \in DOMAIN requests /\ requests'[m] = requests[m])
    BY <2>1, ListAppend DEF Requests, Listed, Elements
  <2>6. \A m \in DOMAIN requests' : Found(requests'[m])
    BY <1>1, <2>4, <2>5
  <2> QED BY <1>3, <2>1, <2>6 DEF RequestsInv
<1>6. ASSUME NEW a, Answer(a)
      PROVE  RequestsInv'
  <2>1. /\ DOMAIN requests' = DOMAIN requests /\ a \in DOMAIN requests
        /\ \A m \in DOMAIN requests : /\ requests'[m].route = requests[m].route
                                      /\ requests'[m].type = requests[m].type
                                      /\ requests'[m].parser = requests[m].parser
    BY <1>6 DEF Answer
  <2> QED BY <1>1, <1>3, <2>1 DEF RequestsInv
<1>7. CASE Serve
  <2>1. (\E s \in api.sockets : Timeout(s)) => requests' = requests
    BY DEF Timeout
  <2> QED BY <1>4, <1>5, <1>6, <1>7, <2>1, ServeCases
<1>8. CASE ~Serve
  <2>1. requests' = requests
    BY <1>8 DEF Next, Boot, Call, Calling, BodyThrows, CallRegister, CallAfter, CallAddHook, CallRoute,
           CallDecorate, CallAddContentTypeParser, CallAddSchema, CallSetCompiler, CallSet,
           CallSetNotFoundHandler, BodyEnds, SkipPlugin, LoadPlugin, RunAfter, RunAddHook, RunRoute,
           RunSetNotFound, Running, Loaded, RouteListener, NotFoundListener, Start, vars, servingVars
  <2> QED BY <1>4, <2>1
<1> QED BY <1>7, <1>8

LEMMA InitCache == Init => CacheInv /\ RequestsInv
<1> SUFFICES ASSUME Init PROVE CacheInv /\ RequestsInv
  OBVIOUS
<1>1. DOMAIN insts = {1} /\ insts[1] = Fastify /\ requests = <<>>
  BY DEF Init, ServingInit
<1>2. Fastify.parsers = ContentTypeParser
  BY DEF Fastify
<1>3. ContentTypeParser.cache = <<>>
  BY DEF ContentTypeParser
<1> QED BY <1>1, <1>2, <1>3 DEF CacheInv, RequestsInv

(* What the registry finds.                                                *)
Matching(N, l, type) == {n \in N : <<l[n].arg, type>> \in Matches}
IdsOf(N, l) == {l[n].id : n \in N}

(* The first of the keys that match is the one of the newest entry.        *)
LEMMA RankedFound ==
  ASSUME NEW keys, NEW w, NEW custom, NEW N, NEW l, Ranked(keys, w, custom, N, l),
         \A n \in N : l[n].id \in Nat,
         NEW type, NEW k \in 1..(Len(keys) - w), <<keys[k], type>> \in Matches,
         \A m \in 1..(Len(keys) - w) : <<keys[m], type>> \in Matches => k <= m
  PROVE  custom[keys[k]] = Max(IdsOf(Matching(N, l, type), l))
<1>1. PICK n \in N : keys[k] = l[n].arg
  BY DEF Ranked
<1>2. custom[keys[k]] = l[n].id /\ n \in Matching(N, l, type)
  BY <1>1 DEF Ranked, Matching
<1>3. custom[keys[k]] \in IdsOf(Matching(N, l, type), l)
  BY <1>2 DEF IdsOf
<1>4. \A e \in IdsOf(Matching(N, l, type), l) : e \in Int
  <2>1. \A d \in N : l[d].id \in Int
    OBVIOUS
  <2> QED BY <2>1 DEF IdsOf, Matching
<1>5. ASSUME NEW e \in IdsOf(Matching(N, l, type), l)
      PROVE  e <= custom[keys[k]]
  <2>1. PICK d \in N : e = l[d].id /\ <<l[d].arg, type>> \in Matches
    BY <1>5 DEF IdsOf, Matching
  <2>2. PICK m \in 1..(Len(keys) - w) : keys[m] = l[d].arg
    BY DEF Ranked
  <2>3. custom[keys[m]] = e /\ k <= m
    BY <2>1, <2>2 DEF Ranked
  <2>4. CASE k = m
    BY <1>4, <2>3, <2>4
  <2>5. CASE k < m
    <3>1. custom[keys[k]] > custom[keys[m]]
      BY <2>5 DEF Ranked
    <3> QED BY <1>3, <1>4, <2>3, <3>1
  <2> QED BY <2>3, <2>4, <2>5
<1>6. IdsOf(Matching(N, l, type), l) \subseteq Int
  BY <1>4
<1> QED BY <1>3, <1>5, <1>6, MaxIs

LEMMA RankedNone ==
  ASSUME NEW keys, NEW w, NEW custom, NEW N, NEW l, Ranked(keys, w, custom, N, l), NEW type
  PROVE  Matching(N, l, type) = {} <=> \A m \in 1..(Len(keys) - w) : <<keys[m], type>> \notin Matches
BY DEF Ranked, Matching

LEMMA KeysAre ==
  ASSUME NEW p, Listed(p.list), Listed(p.regexps)
  PROVE  /\ DOMAIN Keys(p) = 1..(Len(p.list) + Len(p.regexps))
         /\ Len(p.list) \in Nat /\ Len(p.regexps) \in Nat
         /\ \A k \in 1..Len(p.list) : Keys(p)[k] = p.list[k]
         /\ \A k \in 1..Len(p.regexps) : Keys(p)[Len(p.list) + k] = p.regexps[k]
<1> DEFINE S == Elements(p.list) \cup Elements(p.regexps)
<1>1. p.list \in Seq(S) /\ p.regexps \in Seq(S)
  BY DEF Listed
<1>2. PICK a \in Seq(S), b \in Seq(S) : a = p.list /\ b = p.regexps
  BY <1>1
<1> HIDE DEF S
<1>3. /\ DOMAIN (a \o b) = 1..(Len(a) + Len(b)) /\ Len(a) \in Nat /\ Len(b) \in Nat
      /\ \A k \in 1..Len(a) : (a \o b)[k] = a[k]
      /\ \A k \in 1..Len(b) : (a \o b)[Len(a) + k] = b[k]
  OBVIOUS
<1> QED BY <1>2, <1>3 DEF Keys

LEMMA NewestFound ==
  ASSUME NEW v, NEW N, NEW l, NewestOf(v, N, l), \A n \in N : l[n].id \in Nat
  PROVE  v = Max(IdsOf(N, l)) /\ v = Max({0} \cup IdsOf(N, l))
<1>1. v \in IdsOf(N, l) /\ IdsOf(N, l) \subseteq Nat /\ \A e \in IdsOf(N, l) : e <= v
  BY DEF NewestOf, IdsOf
<1>2. {0} \cup IdsOf(N, l) \subseteq Int /\ \A e \in {0} \cup IdsOf(N, l) : e <= v
  BY <1>1
<1> QED BY <1>1, <1>2, MaxIs

GetIs(p, V, l, type, v) ==
  LET strings == Matching(OfStrings(V, l), l, type)
      builtIn == {b \in BuiltIn : <<b, type>> \in Matches}
      first   == IF "application/json" \in builtIn THEN "application/json" ELSE "text/plain"
      regexps == Matching(OfRegExps(V, l), l, type)
      others  == OfKey(V, l, "*")
  IN /\ strings # {} => v = Max(IdsOf(strings, l))
     /\ strings = {} /\ builtIn # {} => v = Max({0} \cup IdsOf(OfKey(V, l, first), l))
     /\ strings = {} /\ builtIn = {} /\ regexps # {} => v = Max(IdsOf(regexps, l))
     /\ strings = {} /\ builtIn = {} /\ regexps = {} =>
          v = IF others = {} THEN NoParser ELSE Max(IdsOf(others, l))
LEMMA ParserGot ==
  ASSUME NEW p, NEW V, NEW l, ParsersBy(p, V, l), \A n \in V : l[n].id \in Nat, NEW type
  PROVE  GetIs(p, V, l, type, GetParser(p, type))
<1>0. PICK list, regexps, custom, keys, cand :
        /\ list = p.list /\ regexps = p.regexps /\ custom = p.custom /\ keys = Keys(p)
        /\ cand = Candidates(p, type)
  OBVIOUS
<1>1. /\ ListBy(list) /\ Listed(regexps)
      /\ Ranked(list, 2, custom, OfStrings(V, l), l)
      /\ Ranked(regexps, 0, custom, OfRegExps(V, l), l)
      /\ \A b \in BuiltIn : BuiltInBy(custom, V, l, b)
      /\ CatchAllBy(custom, V, l)
  BY <1>0, ParsersParts
<1>2. PICK L \in Nat, R \in Nat :
        /\ L = Len(list) /\ R = Len(regexps) /\ DOMAIN keys = 1..(L + R)
        /\ \A k \in 1..L : keys[k] = list[k]
        /\ \A k \in 1..R : keys[L + k] = regexps[k]
  BY <1>0, <1>1, KeysAre DEF ListBy
<1>3. L >= 2 /\ keys[L - 1] = "application/json" /\ keys[L] = "text/plain" /\ L - 1 \in 1..L /\ L \in 1..L
  <2>1. L >= 2 /\ list[L - 1] = "application/json" /\ list[L] = "text/plain"
    BY <1>1, <1>2 DEF ListBy
  <2>2. L - 1 \in 1..L /\ L \in 1..L
    BY <2>1
  <2> QED BY <1>2, <2>1, <2>2
<1>4. /\ cand = {k \in 1..(L + R) : <<keys[k], type>> \in Matches}
      /\ cand # {} => GetParser(p, type) = custom[keys[Min(cand)]]
      /\ cand = {} => GetParser(p, type) = IF "" \in DOMAIN custom THEN custom[""] ELSE NoParser
  BY <1>0, <1>2 DEF GetParser, Candidates
<1>5. cand \subseteq Nat /\ (cand # {} => Min(cand) \in cand /\ \A x \in cand : Min(cand) <= x)
  <2>1. cand \subseteq Nat
    <3>1. \A x \in cand : x \in 1..(L + R)
      BY <1>4
    <3>2. \A x \in 1..(L + R) : x \in Nat
      OBVIOUS
    <3> QED BY <3>1, <3>2
  <2> QED BY <2>1, Least
<1> DEFINE strings == Matching(OfStrings(V, l), l, type)
           builtIn == {b \in BuiltIn : <<b, type>> \in Matches}
           first   == IF "application/json" \in builtIn THEN "application/json" ELSE "text/plain"
           regular == Matching(OfRegExps(V, l), l, type)
           others  == OfKey(V, l, "*")
<1>6. /\ \A n \in OfStrings(V, l) : l[n].id \in Nat
      /\ \A n \in OfRegExps(V, l) : l[n].id \in Nat
      /\ \A k : \A n \in OfKey(V, l, k) : l[n].id \in Nat
  BY DEF OfStrings, OfRegExps, OfKey
<1>7. strings = {} <=> \A m \in 1..(L - 2) : m \notin cand
  <2>1. strings = {} <=> \A m \in 1..(L - 2) : <<list[m], type>> \notin Matches
    <3>1. PICK N : N = OfStrings(V, l)
      OBVIOUS
    <3>2. Matching(N, l, type) = {} <=> \A m \in 1..(Len(list) - 2) : <<list[m], type>> \notin Matches
      BY <1>1, <3>1, RankedNone
    <3> QED BY <1>2, <3>1, <3>2
  <2>2. \A m \in 1..(L - 2) : m \in 1..L /\ m \in 1..(L + R)
    BY <1>3
  <2> QED BY <1>2, <1>4, <2>1, <2>2
<1>8. regular = {} <=> \A m \in 1..R : L + m \notin cand
  <2>1. regular = {} <=> \A m \in 1..(R - 0) : <<regexps[m], type>> \notin Matches
    BY <1>1, <1>2, RankedNone
  <2>2. R - 0 = R /\ \A m \in 1..R : L + m \in 1..(L + R)
    OBVIOUS
  <2>3. \A m \in 1..R : <<regexps[m], type>> \in Matches <=> L + m \in cand
    BY <1>2, <1>4, <2>2
  <2> QED BY <2>1, <2>2, <2>3
<1>9. /\ "application/json" \in builtIn <=> L - 1 \in cand
      /\ builtIn = {} <=> L - 1 \notin cand /\ L \notin cand
  <2>1. L - 1 \in 1..(L + R) /\ L \in 1..(L + R)
    BY <1>3
  <2>2. /\ L - 1 \in cand <=> <<"application/json", type>> \in Matches
        /\ L \in cand <=> <<"text/plain", type>> \in Matches
    BY <1>3, <1>4, <2>1
  <2> QED BY <2>2 DEF BuiltIn
<1>10. \A x \in 1..(L + R) : x \in 1..(L - 2) \/ x = L - 1 \/ x = L \/ (x - L \in 1..R /\ x = L + (x - L))
  BY <1>3
<1> HIDE DEF strings, builtIn, first, regular, others
<1>11. ASSUME strings # {}
       PROVE  GetParser(p, type) = Max(IdsOf(strings, l))
  <2>1. PICK k : k = Min(cand)
    OBVIOUS
  <2>2. cand # {} /\ k \in cand /\ \A x \in cand : k <= x
    BY <1>5, <1>7, <1>11, <2>1
  <2>3. k \in 1..(L - 2)
    <3>1. PICK m \in 1..(L - 2) : m \in cand
      BY <1>7, <1>11
    <3>2. k <= m /\ k \in 1..(L + R)
      BY <1>4, <2>2, <3>1
    <3> QED BY <3>1, <3>2
  <2>4. /\ k \in 1..(Len(list) - 2) /\ keys[k] = list[k] /\ <<list[k], type>> \in Matches
        /\ \A m \in 1..(Len(list) - 2) : <<list[m], type>> \in Matches => k <= m
    <3>1. \A m \in 1..(L - 2) : m \in 1..L /\ m \in 1..(L + R)
      BY <1>3
    <3> QED BY <1>2, <1>4, <2>2, <2>3, <3>1
  <2>5. PICK N : N = OfStrings(V, l)
    OBVIOUS
  <2>6. custom[list[k]] = Max(IdsOf(Matching(N, l, type), l))
    <3>1. Ranked(list, 2, custom, N, l) /\ \A n \in N : l[n].id \in Nat
      BY <1>1, <1>6, <2>5
    <3> QED BY <2>4, <3>1, RankedFound
  <2> QED BY <1>4, <2>1, <2>2, <2>4, <2>5, <2>6 DEF strings
<1>12. ASSUME strings = {}, builtIn # {}
       PROVE  GetParser(p, type) = Max({0} \cup IdsOf(OfKey(V, l, first), l))
  <2>1. PICK k : k = IF L - 1 \in cand THEN L - 1 ELSE L
    OBVIOUS
  <2>2. k \in cand /\ cand \subseteq Int /\ \A x \in cand : k <= x
    <3>1. k \in cand
      BY <1>9, <1>12, <2>1
    <3>2. ASSUME NEW x \in cand
          PROVE  k <= x
      <4>1. x \in 1..(L + R) /\ x \notin 1..(L - 2)
        BY <1>4, <1>7, <1>12
      <4> QED BY <1>3, <1>10, <2>1, <4>1
    <3> QED BY <1>5, <3>1, <3>2
  <2>3. Min(cand) = k
    BY <2>2, MinIs
  <2>4. keys[k] = first /\ first \in BuiltIn
    BY <1>3, <1>9, <2>1 DEF first, BuiltIn
  <2>5. GetParser(p, type) = custom[first] /\ BuiltInBy(custom, V, l, first)
    BY <1>1, <1>4, <2>2, <2>3, <2>4
  <2>6. CASE OfKey(V, l, first) = {}
    <3>1. custom[first] = 0 /\ IdsOf(OfKey(V, l, first), l) = {}
      BY <2>5, <2>6 DEF BuiltInBy, IdsOf
    <3>2. Max({0} \cup {}) = 0
      <4>1. {0} \cup {} \subseteq Int /\ 0 \in {0} \cup {} /\ \A y \in {0} \cup {} : y <= 0
        OBVIOUS
      <4> QED BY <4>1, MaxIs
    <3> QED BY <2>5, <3>1, <3>2
  <2>7. CASE OfKey(V, l, first) # {}
    <3>1. NewestOf(custom[first], OfKey(V, l, first), l)
      BY <2>5, <2>7 DEF BuiltInBy
    <3> QED BY <1>6, <2>5, <3>1, NewestFound
  <2> QED BY <2>6, <2>7
<1>13. ASSUME strings = {}, builtIn = {}, regular # {}
       PROVE  GetParser(p, type) = Max(IdsOf(regular, l))
  <2>1. PICK k : k = Min(cand) - L
    OBVIOUS
  <2>2. cand # {} /\ Min(cand) \in cand /\ \A x \in cand : Min(cand) <= x
    BY <1>5, <1>8, <1>13
  <2>3. k \in 1..R /\ Min(cand) = L + k
    <3>1. Min(cand) \in 1..(L + R) /\ Min(cand) \notin 1..(L - 2) /\ Min(cand) # L - 1 /\ Min(cand) # L
      BY <1>4, <1>7, <1>9, <1>13, <2>2
    <3> QED BY <1>10, <2>1, <3>1
  <2>4. /\ k \in 1..(Len(regexps) - 0) /\ keys[L + k] = regexps[k] /\ <<regexps[k], type>> \in Matches
        /\ \A m \in 1..(Len(regexps) - 0) : <<regexps[m], type>> \in Matches => k <= m
    <3>1. \A m \in 1..R : L + m \in 1..(L + R) /\ R - 0 = R
      OBVIOUS
    <3>2. \A m \in 1..R : <<regexps[m], type>> \in Matches <=> L + m \in cand
      BY <1>2, <1>4, <3>1
    <3>3. \A m \in 1..R : L + k <= L + m => k <= m
      BY <2>3
    <3> QED BY <1>2, <2>2, <2>3, <3>1, <3>2, <3>3
  <2>5. PICK N : N = OfRegExps(V, l)
    OBVIOUS
  <2>6. custom[regexps[k]] = Max(IdsOf(Matching(N, l, type), l))
    <3>1. Ranked(regexps, 0, custom, N, l) /\ \A n \in N : l[n].id \in Nat
      BY <1>1, <1>6, <2>5
    <3> QED BY <2>4, <3>1, RankedFound
  <2> QED BY <1>4, <2>2, <2>3, <2>4, <2>5, <2>6 DEF regular
<1>14. ASSUME strings = {}, builtIn = {}, regular = {}
       PROVE  GetParser(p, type) = IF others = {} THEN NoParser ELSE Max(IdsOf(others, l))
  <2>1. cand = {}
    <3>1. ASSUME NEW x \in cand
          PROVE  FALSE
      <4>1. x \in 1..(L + R)
        BY <1>4
      <4> QED BY <1>7, <1>8, <1>9, <1>10, <1>14, <4>1
    <3> QED BY <3>1
  <2>2. CASE others = {}
    BY <1>1, <1>4, <2>1, <2>2 DEF CatchAllBy, others
  <2>3. CASE others # {}
    <3>1. "" \in DOMAIN custom /\ NewestOf(custom[""], OfKey(V, l, "*"), l)
      BY <1>1, <2>3 DEF CatchAllBy, others
    <3>2. custom[""] = Max(IdsOf(OfKey(V, l, "*"), l))
      BY <1>6, <3>1, NewestFound
    <3> QED BY <1>4, <2>1, <2>3, <3>1, <3>2 DEF others
  <2> QED BY <2>2, <2>3
<1> QED BY <1>11, <1>12, <1>13, <1>14 DEF GetIs, strings, builtIn, first, regular, others

LEMMA ParserInductive == Spec => [](IInv /\ IInv404 /\ ParsersInv /\ CacheInv /\ RequestsInv)
<1>1. Init => ParsersInv /\ CacheInv /\ RequestsInv
  BY InitParsers, InitCache
<1>2. Shape /\ Requests /\ (ParsersInv /\ CacheInv /\ RequestsInv) /\ [Next]_vars
        => (ParsersInv /\ CacheInv /\ RequestsInv)'
  BY NextParsers, NextCache, NextRequestsFound
<1>3. IInv404 => Shape
  BY DEF IInv404, InheritIInv
<1>4. IInv => Requests
  BY DEF IInv, ServingIInv
<1> QED BY <1>1, <1>2, <1>3, <1>4, Inductive404, Inductive, PTL DEF Spec

(* The parser of a request is the one of the newest matching call that the *)
(* instance sees: of strings but for the built-in types, of these, of      *)
(* regular expressions, or the catch-all.                                  *)
LEMMA NewestFoundFor ==
  ASSUME Shape, ParsersInv, RequestsInv, NEW k \in DOMAIN requests
  PROVE  requests[k].parser = NewestParser(routes[requests[k].route].inst, requests[k].type)
<1>1. PICK i, type, p : /\ i = routes[requests[k].route].inst /\ type = requests[k].type
                        /\ p = insts[i].parsers
  OBVIOUS
<1>2. i \in DOMAIN insts /\ requests[k].parser = GetParser(p, type)
  BY <1>1 DEF RequestsInv, Shape, Registry
<1>3. ParsersBy(p, SeenBy(i), log) /\ SeenBy(i) \subseteq ParserAt /\ ParserAt \subseteq DOMAIN log
  BY <1>1, <1>2 DEF ParsersInv, SeenBy, ParserAt
<1>4. \A n \in SeenBy(i) : log[n].id \in Nat
  <2>1. \A n \in ParserAt : log[n].id \in 1..calls
    BY DEF ParsersInv
  <2>2. \A x \in 1..calls : x \in Nat
    BY DEF Shape
  <2> QED BY <1>3, <2>1, <2>2
<1>5. PICK V : V = SeenBy(i)
  OBVIOUS
<1>6. GetIs(p, V, log, type, GetParser(p, type))
  BY <1>3, <1>4, <1>5, ParserGot
<1> DEFINE added   == Took(LAMBDA e : e.op = "addContentTypeParser" /\ Visible(e, i))
           match   == {e \in added : <<e.arg, type>> \in Matches}
           strings == {e \in match : e.arg \notin BuiltIn \cup RegExps \cup {"*"}}
           builtIn == {b \in BuiltIn : <<b, type>> \in Matches}
           first   == FirstBuiltIn(type)
           regexps == {e \in match : e.arg \in RegExps}
           others  == {e \in added : e.arg = "*"}
           ofFirst == {d \in added : d.arg = first}
           stringsAt == Matching(OfStrings(V, log), log, type)
           regexpsAt == Matching(OfRegExps(V, log), log, type)
           Ids(S) == {e.id : e \in S}
<1>7. added = {log[n] : n \in V}
  BY <1>5 DEF Took, SeenBy, ParserAt
<1> HIDE DEF added
<1>8. /\ Ids(strings) = IdsOf(stringsAt, log) /\ (strings = {} <=> stringsAt = {})
      /\ Ids(regexps) = IdsOf(regexpsAt, log) /\ (regexps = {} <=> regexpsAt = {})
  BY <1>7 DEF IdsOf, Matching, OfStrings, OfRegExps
<1>9. /\ Ids(others) = IdsOf(OfKey(V, log, "*"), log) /\ (others = {} <=> OfKey(V, log, "*") = {})
      /\ Ids(ofFirst) = IdsOf(OfKey(V, log, first), log)
  BY <1>7 DEF IdsOf, OfKey
<1> DEFINE Newest(v) ==
      /\ strings # {} => v = Max(Ids(strings))
      /\ strings = {} /\ builtIn # {} => v = Max({0} \cup Ids(ofFirst))
      /\ strings = {} /\ builtIn = {} /\ regexps # {} => v = Max(Ids(regexps))
      /\ strings = {} /\ builtIn = {} /\ regexps = {} =>
           v = IF others = {} THEN NoParser ELSE Max(Ids(others))
<1>10. Newest(GetParser(p, type))
  <2>1. PICK v : v = GetParser(p, type)
    OBVIOUS
  <2>2. /\ stringsAt # {} => v = Max(IdsOf(stringsAt, log))
        /\ stringsAt = {} /\ builtIn # {} => v = Max({0} \cup IdsOf(OfKey(V, log, first), log))
        /\ stringsAt = {} /\ builtIn = {} /\ regexpsAt # {} => v = Max(IdsOf(regexpsAt, log))
        /\ stringsAt = {} /\ builtIn = {} /\ regexpsAt = {} =>
             v = IF OfKey(V, log, "*") = {} THEN NoParser ELSE Max(IdsOf(OfKey(V, log, "*"), log))
    BY <1>6, <2>1 DEF GetIs, FirstBuiltIn, BuiltIn
  <2> HIDE DEF strings, builtIn, first, regexps, others, ofFirst, stringsAt, regexpsAt, Ids
  <2> QED BY <1>8, <1>9, <2>1, <2>2
<1>11. GetParser(p, type) = NewestParser(i, type)
  BY <1>10 DEF NewestParser, added, PassedLast
<1> QED BY <1>1, <1>2, <1>11

(* Two sets of entries whose newest is the same: what is only in the       *)
(* greater set is not newer than anything in the other.                    *)
IdsOfEntries(S) == {e.id : e \in S}
LEMMA NewestAmong ==
  ASSUME NEW n \in Nat, NEW S, NEW T, S \subseteq T, S # {}, IdsOfEntries(T) \subseteq 0..n,
         \A e \in T \ S : \A d \in S : e.id <= d.id
  PROVE  Max(IdsOfEntries(T)) = Max(IdsOfEntries(S))
<1>1. PICK x : x = Max(IdsOfEntries(S))
  OBVIOUS
<1>2. IdsOfEntries(S) \subseteq 0..n /\ IdsOfEntries(S) # {} /\ IdsOfEntries(S) \subseteq IdsOfEntries(T)
  BY DEF IdsOfEntries
<1>3. x \in IdsOfEntries(S) /\ \A y \in IdsOfEntries(S) : y <= x
  BY <1>1, <1>2, Greatest
<1>4. PICK d \in S : d.id = x
  BY <1>3 DEF IdsOfEntries
<1>5. ASSUME NEW y \in IdsOfEntries(T)
      PROVE  y <= x
  <2>1. PICK e \in T : e.id = y
    BY <1>5 DEF IdsOfEntries
  <2>2. CASE e \in S
    BY <1>3, <2>1, <2>2 DEF IdsOfEntries
  <2>3. CASE e \notin S
    BY <1>4, <2>1, <2>3
  <2> QED BY <2>2, <2>3
<1>6. IdsOfEntries(T) \subseteq Int /\ x \in IdsOfEntries(T)
  BY <1>2, <1>3
<1>7. Max(IdsOfEntries(T)) = x
  BY <1>5, <1>6, MaxIs
<1> QED BY <1>1, <1>7

(* When the code does as the documentation says, the entries that count    *)
(* are those the instance sees.                                            *)
LEMMA AllVisible ==
  ASSUME Shape, ParsersInv, NEW i \in DOMAIN insts, NEW type, ~Departs(i, type),
         NEW e, <<e.arg, type>> \in Matches \/ e.arg = "*"
  PROVE  e \in Took(LAMBDA x : x.op = "addContentTypeParser" /\ Visible(x, i)) <=> e \in ParsersAround(i)
<1>1. i \in insts[i].chain /\ insts[i].chain \subseteq 1..i /\ insts[i].chain \subseteq DOMAIN insts
      /\ DOMAIN insts = 1..Len(insts) /\ Len(insts) \in Nat
  BY AllChains DEF Shape, ChainOn
<1>2. ASSUME NEW n \in DOMAIN log, log[n].op = "addContentTypeParser", e = log[n], Visible(log[n], i)
      PROVE  e \in ParsersAround(i)
  <2>1. OnChain(log[n], i)
    BY <1>1, <1>2 DEF Visible, OnChain
  <2> QED BY <1>2, <2>1 DEF ParsersAround, Took
<1>3. ASSUME NEW n \in DOMAIN log, log[n].op = "addContentTypeParser", e = log[n], OnChain(log[n], i)
      PROVE  Visible(log[n], i)
  <2>1. e \in ParsersAround(i)
    BY <1>3 DEF ParsersAround, Took
  <2>2. ~NotHandedDown(e, i) /\ ~AddedLate(e, i)
    BY <2>1 DEF Departs
  <2>3. CASE e.inst = i
    BY <1>3, <2>3 DEF Visible
  <2>4. CASE e.inst # i
    <3> DEFINE least == Min({j \in insts[i].chain : j > e.inst})
    <3>1. e.inst \in 1..i /\ e.inst # i /\ i \in Nat
      BY <1>1, <1>3, <2>4 DEF OnChain
    <3>2. {j \in insts[i].chain : j > e.inst} \subseteq Nat /\ {j \in insts[i].chain : j > e.inst} # {}
      BY <1>1, <3>1
    <3>3. least \in insts[i].chain
      BY <3>2, Least
    <3>4. insts[least].born \in Int /\ e.id \in Int
      <4>1. insts[least].born \in 0..calls /\ e.id \in 1..calls /\ calls \in Nat
        BY <1>1, <1>3, <3>3 DEF ParsersInv, ParserAt, Shape
      <4> QED BY <4>1
    <3>5. ~(e.id > insts[least].born)
      BY <2>2, <2>4 DEF AddedLate
    <3>6. e.id <= insts[least].born
      BY <3>4, <3>5
    <3>7. e.arg \notin RegExps
      BY <2>2, <2>4 DEF NotHandedDown
    <3> QED BY <1>3, <3>6, <3>7 DEF Visible
  <2> QED BY <2>3, <2>4
<1> QED BY <1>2, <1>3 DEF Took, ParsersAround

(* The entries that count, of one registry and as the documentation says.  *)
LEMMA DocumentedIs ==
  ASSUME Shape, ParsersInv, NEW i \in DOMAIN insts, NEW type, ~Departs(i, type)
  PROVE  NewestParser(i, type) = DocumentedParser(i, type)
<1> DEFINE added   == Took(LAMBDA e : e.op = "addContentTypeParser" /\ Visible(e, i))
           around  == ParsersAround(i)
           Match(S)   == {e \in S : <<e.arg, type>> \in Matches}
           stringsSeen == {e \in Match(added) : e.arg \notin BuiltIn \cup RegExps \cup {"*"}}
           strings == {e \in Match(around) : IsString(e)}
           builtIn == {b \in BuiltIn : <<b, type>> \in Matches}
           first   == FirstBuiltIn(type)
           ofFirst == {d \in added : d.arg = first}
           Regular(S) == {e \in Match(S) : e.arg \in RegExps}
           Others(S)  == {e \in S : e.arg = "*"}
<1>1. Match(added) = Match(around) /\ Others(added) = Others(around)
  BY AllVisible
<1>2. \A e \in around : e.id \in 1..calls
  BY DEF ParsersAround, Took, ParsersInv, ParserAt
<1>3. calls \in Nat
  BY DEF Shape
<1>4. NewestParser(i, type) =
        CASE stringsSeen # {} -> Max(IdsOfEntries(stringsSeen))
          [] stringsSeen = {} /\ builtIn # {} -> Max({0} \cup IdsOfEntries(ofFirst))
          [] stringsSeen \cup builtIn = {} /\ Regular(added) # {} -> Max(IdsOfEntries(Regular(added)))
          [] OTHER -> IF Others(added) = {} THEN NoParser ELSE Max(IdsOfEntries(Others(added)))
  BY DEF NewestParser, PassedLast, IdsOfEntries
<1>5. DocumentedParser(i, type) =
        CASE strings # {} -> Max(IdsOfEntries(strings))
          [] strings = {} /\ builtIn # {} -> 0
          [] strings \cup builtIn = {} /\ Regular(around) # {} -> Max(IdsOfEntries(Regular(around)))
          [] OTHER -> IF Others(around) = {} THEN NoParser ELSE Max(IdsOfEntries(Others(around)))
  BY DEF DocumentedParser, PassedLast, IdsOfEntries
<1>6. /\ stringsSeen \subseteq strings /\ strings \subseteq around
      /\ \A e \in strings : IsString(e) /\ <<e.arg, type>> \in Matches
      /\ \A e \in strings \ stringsSeen : e.arg \in BuiltIn
      /\ \A e \in around : IsString(e) /\ <<e.arg, type>> \in Matches => e \in strings
  BY <1>1 DEF IsString
<1>7. /\ \A e \in strings : e.arg \in BuiltIn => e.arg \in builtIn
      /\ first \in BuiltIn /\ (builtIn # {} => first \in builtIn)
      /\ "application/json" \in BuiltIn /\ "text/plain" \in BuiltIn
  BY <1>6 DEF FirstBuiltIn, BuiltIn
<1>8. \A e \in strings : ~PlacedLast(e, i, type)
  BY <1>6 DEF Departs
<1>9. /\ builtIn # {} => ofFirst = {d \in strings : d.arg = first}
      /\ builtIn # {} => \A d \in around : d.arg = first => d \in strings
  <2>1. \A e : e.arg = first => IsString(e)
    BY <1>7, KeysAssumption DEF IsString, BuiltIn
  <2>2. \A d : d \in added /\ <<d.arg, type>> \in Matches <=> d \in around /\ <<d.arg, type>> \in Matches
    BY <1>1
  <2>3. builtIn # {} => <<first, type>> \in Matches
    BY <1>7
  <2> HIDE DEF added, around, first
  <2> QED BY <1>6, <2>1, <2>2, <2>3
<1> HIDE DEF added, around, stringsSeen, strings, first, ofFirst
<1>10. \A e \in strings, d \in strings : e.arg \in BuiltIn => e.id <= d.id
  <2> SUFFICES ASSUME NEW e \in strings, NEW d \in strings, e.arg \in BuiltIn
               PROVE  e.id <= d.id
    OBVIOUS
  <2>1. ~(d.id < e.id)
    BY <1>6, <1>8 DEF PlacedLast, around
  <2>2. e.id \in 1..calls /\ d.id \in 1..calls
    BY <1>2, <1>6
  <2> QED BY <1>3, <2>1, <2>2
<1>11. IdsOfEntries(strings) \subseteq 0..calls
  BY <1>2, <1>3, <1>6 DEF IdsOfEntries
<1>12. ASSUME stringsSeen # {}
       PROVE  Max(IdsOfEntries(strings)) = Max(IdsOfEntries(stringsSeen)) /\ strings # {}
  <2>1. \A e \in strings \ stringsSeen : \A d \in stringsSeen : e.id <= d.id
    BY <1>6, <1>10
  <2> QED BY <1>3, <1>6, <1>11, <1>12, <2>1, NewestAmong
<1>13. ASSUME stringsSeen = {}, builtIn # {}
       PROVE  Max({0} \cup IdsOfEntries(ofFirst)) = IF strings = {} THEN 0 ELSE Max(IdsOfEntries(strings))
  <2>1. CASE strings = {}
    <3>1. ofFirst = {}
      BY <1>9, <1>13, <2>1
    <3>2. {0} \cup IdsOfEntries(ofFirst) = {0}
      BY <3>1 DEF IdsOfEntries
    <3>3. Max({0}) = 0
      BY MaxIs
    <3> QED BY <2>1, <3>2, <3>3
  <2>2. CASE strings # {}
    <3>1. PICK e \in strings : TRUE
      BY <2>2
    <3>2. \A d \in strings : d.arg \in BuiltIn
      BY <1>6, <1>13
    <3>3. \A d \in strings : d.id = e.id
      <4>1. \A d \in strings : e.id <= d.id /\ d.id <= e.id /\ d.id \in 1..calls
        BY <1>2, <1>6, <1>10, <3>2
      <4> QED BY <1>3, <4>1
    <3>4. \E d \in strings : d.arg = first
      <4>1. e.arg # first => \E d \in around : d.arg = first
        BY <1>7, <1>8, <1>13, <3>2 DEF PlacedLast, around
      <4> QED BY <1>9, <1>13, <4>1
    <3>5. IdsOfEntries(ofFirst) = {e.id} /\ IdsOfEntries(strings) = {e.id}
      BY <1>9, <1>13, <3>3, <3>4 DEF IdsOfEntries
    <3>6. e.id \in 1..calls
      BY <1>2, <1>6
    <3>7. Max({0} \cup {e.id}) = e.id
      <4>1. PICK x : x = e.id
        OBVIOUS
      <4>2. {0} \cup {x} \subseteq Int /\ \A y \in {0} \cup {x} : y <= x
        BY <1>3, <3>6, <4>1
      <4> QED BY <4>1, <4>2, MaxIs
    <3>8. Max({e.id}) = e.id
      <4>1. PICK x : x = e.id
        OBVIOUS
      <4>2. {x} \subseteq Int /\ \A y \in {x} : y <= x
        BY <1>3, <3>6, <4>1
      <4> QED BY <4>1, <4>2, MaxIs
    <3> QED BY <2>2, <3>5, <3>7, <3>8
  <2> QED BY <2>1, <2>2
<1>14. ASSUME stringsSeen = {}, builtIn = {}
       PROVE  strings = {}
  BY <1>6, <1>7, <1>14
<1>15. Regular(added) = Regular(around)
  BY <1>1
<1> HIDE DEF builtIn, Regular, Others, Match
<1>16. CASE stringsSeen # {}
  BY <1>4, <1>5, <1>12, <1>16
<1>17. CASE stringsSeen = {} /\ builtIn # {}
  BY <1>4, <1>5, <1>13, <1>17
<1>18. CASE stringsSeen = {} /\ builtIn = {}
  <2>1. strings = {}
    BY <1>14, <1>18
  <2> QED BY <1>1, <1>4, <1>5, <1>15, <1>18, <2>1
<1> QED BY <1>16, <1>17, <1>18

(* But for the three cases in which the code does otherwise, the parser    *)
(* that is called for a body is the one the documentation describes        *)
(* (lib/contentTypeParser.js, docs/ContentTypeParser.md).                  *)
THEOREM NewestParserFound == Spec => []ParserFound
<1>1. ASSUME Shape, ParsersInv, RequestsInv
      PROVE  ParserFound
  <2> SUFFICES ASSUME NEW k \in DOMAIN requests, NEW i, i = routes[requests[k].route].inst,
                      NEW type, type = requests[k].type, ~Departs(i, type)
               PROVE  requests[k].parser = DocumentedParser(i, type)
    BY DEF ParserFound
  <2>1. i \in DOMAIN insts
    BY <1>1 DEF RequestsInv, Shape, Registry
  <2>2. requests[k].parser = NewestParser(i, type)
    BY <1>1, NewestFoundFor
  <2> QED BY <1>1, <2>1, <2>2, DocumentedIs
<1>2. IInv404 => Shape
  BY DEF IInv404, InheritIInv
<1> QED BY <1>1, <1>2, ParserInductive, PTL

-----------------------------------------------------------------------------
(* HEAD routes.  The jobs for routes that avvio still has, and what is     *)
(* left of the call in them and in the routes that are there.              *)

RouteJobs == {j \in JobsOf(frames) : j.call.op = "route"}
Piece(id, method, own) == [id |-> id, method |-> method, own |-> own]
OfJob(j) == Piece(j.id, j.call.method, j.own)
OfRoute(c) == Piece(c.id, c.method, c.own)
Pieces == {OfJob(j) : j \in RouteJobs} \cup {OfRoute(routes[k]) : k \in DOMAIN routes}

(* The last onSend hook of an exposed HEAD route drops the body.           *)
OwnOn(own) == DOMAIN own = LifecycleHooks /\ Listed(own["onSend"])
DropsBody(own) ==
  OwnOn(own) /\ own["onSend"] # <<>> /\ own["onSend"][Len(own["onSend"])] = HeadRouteOnSendHandler
PiecesInv ==
  /\ \A p \in Pieces : p.id \in 0..calls /\ OwnOn(p.own)
  /\ \A p, q \in Pieces : p.id = q.id /\ p.method = "GET" /\ q.method = "HEAD" => DropsBody(q.own)

(* Who asked for a HEAD route, and a GET route that still has to get it.   *)
AskedHead(id, l) == \E n \in DOMAIN l : l[n].op = "route" /\ l[n].arg = "expose" /\ l[n].id = id
ExposeInv ==
  /\ \A n \in DOMAIN log : log[n].op = "route" => log[n].id \in 0..calls
  /\ \A j \in RouteJobs : j.call.method = "GET" /\ AskedHead(j.id, log) => j.call.expose
HeadBefore(rs, k) ==
  \E n \in DOMAIN rs : n < k /\ rs[n].method = "HEAD" /\ MatchesUrl(rs[n].url, rs[k].url)
HeadThere(rs, id, url) == \E n \in DOMAIN rs : rs[n].method = "HEAD" /\ rs[n].url = url /\ rs[n].id = id
HeadJobFor(j, id, i, prefix, url) ==
  /\ j.call.op = "route" /\ j.call.method = "HEAD"
  /\ j.id = id /\ j.inst = i /\ prefix \o j.call.path = url
Headed(k) ==
  LET prefix == insts[routes[k].inst].prefix
  IN routes[k].method = "GET" /\ AskedHead(routes[k].id, log) /\ ~EndsWithSlash(prefix) =>
       \/ HeadBefore(routes, k) \/ HeadThere(routes, routes[k].id, routes[k].url)
       \/ \E j \in RouteJobs : HeadJobFor(j, routes[k].id, routes[k].inst, prefix, routes[k].url)
IdleJobs == phase \in {"preReady", "started", "failed"} => JobsOf(frames) = {}
HeadInv == PiecesInv /\ ExposeInv /\ IdleJobs /\ (~Failed => \A k \in DOMAIN routes : Headed(k))

(* What a route or a job hands on: the call, and the last onSend hook.     *)
Handed(p, q) ==
  /\ q.id = p.id
  /\ OwnOn(p.own) =>
       /\ OwnOn(q.own)
       /\ \/ q.method = p.method /\ (DropsBody(p.own) => DropsBody(q.own))
          \/ q.method = "HEAD" /\ DropsBody(q.own)
Passes(own, own2) == OwnOn(own) => OwnOn(own2) /\ (DropsBody(own) => DropsBody(own2))

(* What a job for a route builds, beside what Added says.                  *)
HeadOf(prefix, job, rs, jobs, k) ==
  \/ HeadBefore(rs, k)
  \/ \E j \in Elements(jobs) : HeadJobFor(j, job.id, job.inst, prefix, rs[k].url)
Built(is, job, rs, st) ==
  /\ Passes(job.own, st.own)
  /\ \A k \in DOMAIN st.routes \ DOMAIN rs :
       /\ Handed(OfJob(job), OfRoute(st.routes[k]))
       /\ st.routes[k].method = job.call.method /\ st.routes[k].id = job.id
       /\ job.call.method = "GET" /\ job.call.expose =>
            HeadOf(is[job.inst].prefix, job, st.routes, st.jobs, k)
  /\ \A j \in Elements(st.jobs) : Handed(OfJob(job), OfJob(j)) /\ j.call.method = "HEAD"

LEMMA PreHandlersPass ==
  ASSUME NEW own, NEW v
  PROVE  Passes(own, [own EXCEPT !["preHandler"] = v])
<1> SUFFICES ASSUME OwnOn(own) PROVE LET w == [own EXCEPT !["preHandler"] = v]
                                     IN w["onSend"] = own["onSend"] /\ DOMAIN w = DOMAIN own
  BY DEF Passes, OwnOn, DropsBody
<1>1. "onSend" \in DOMAIN own
  BY HooksAssumption DEF OwnOn
<1> QED BY <1>1

LEMMA HandlerDrops ==
  ASSUME NEW own, OwnOn(own)
  PROVE  DropsBody(ParseHeadOnSendHandlers(own))
<1> DEFINE q == own["onSend"]
           w == [own EXCEPT !["onSend"] = Append(q, HeadRouteOnSendHandler)]
<1>1. "onSend" \in DOMAIN own /\ Listed(q)
  BY HooksAssumption DEF OwnOn
<1>2. w["onSend"] = Append(q, HeadRouteOnSendHandler) /\ DOMAIN w = DOMAIN own
  BY <1>1
<1>3. w = ParseHeadOnSendHandlers(own)
  BY DEF ParseHeadOnSendHandlers
<1> HIDE DEF w, q
<1>4. /\ Listed(w["onSend"]) /\ w["onSend"] # <<>>
      /\ w["onSend"][Len(w["onSend"])] = HeadRouteOnSendHandler
  BY <1>1, <1>2, ListAppend
<1> QED BY <1>2, <1>3, <1>4 DEF DropsBody, OwnOn

LEMMA PassesOn ==
  ASSUME NEW a, NEW b, NEW c, Passes(a, b), Passes(b, c)
  PROVE  Passes(a, c)
BY DEF Passes

LEMMA HandedOn ==
  ASSUME NEW id, NEW m, NEW own, NEW own2, Passes(own, own2)
  PROVE  Handed(Piece(id, m, own), Piece(id, m, own2))
<1>1. ASSUME NEW o PROVE LET p == Piece(id, m, o) IN p.id = id /\ p.method = m /\ p.own = o
  BY DEF Piece
<1> QED BY <1>1 DEF Handed, Passes

LEMMA AfterBuilt ==
  ASSUME NEW is, NEW job, NEW rs, NEW ls, NEW st, NEW entry,
         Added(is, job, rs, ls, st), Built(is, job, rs, st), job.call.op = "route"
  PROVE  Built(is, job, rs, AfterRouteAdded(is, job, st, entry))
<1> DEFINE prefix == is[job.inst].prefix
           url == prefix \o entry.path
           ran == IF entry.prefixing THEN <<>> ELSE OnRouteRuns(is[job.inst].hooks["onRoute"])
           own == [st.own EXCEPT !["preHandler"] = @ \o SelectSeq(ran, LAMBDA h : h.does = "append")]
           opts == [job EXCEPT !.own = own]
           context == Context(is, opts, url)
           listener == [at |-> Len(st.routes) + 1, job |-> opts]
           head == HeadJob(job, entry.path, own)
           next == AfterRouteAdded(is, job, st, entry)
           failed == [st EXCEPT !.own = own, !.done = Append(@, "error")]
           added == [routes    |-> Append(st.routes, context),
                     listeners |-> Append(st.listeners, listener),
                     own       |-> own,
                     jobs      |-> st.jobs,
                     done      |-> Append(st.done, "ok")]
           asks == job.call.expose /\ job.call.method = "GET"
<1>0. \/ next = failed
      \/ next = added /\ (asks => Finds(st.routes, "HEAD", url))
      \/ next = [added EXCEPT !.jobs = Append(st.jobs, head)]
  BY DEF AfterRouteAdded
<1>1. /\ Passes(job.own, st.own)
      /\ Listed(st.routes) /\ Listed(st.jobs) /\ DOMAIN rs \subseteq DOMAIN st.routes
  BY DEF Built, Added, RoutesTo
<1>2. Passes(job.own, own)
  BY <1>1, PreHandlersPass, PassesOn
<1>3. next.own = own
  <2> HIDE DEF next, own, context, listener, head
  <2>1. CASE next = failed
    BY <2>1
  <2>2. CASE next = added
    BY <2>2
  <2>3. CASE next = [added EXCEPT !.jobs = Append(st.jobs, head)]
    BY <2>3
  <2> QED BY <1>0, <2>1, <2>2, <2>3
<1>4. Passes(job.own, next.own)
  BY <1>1, <1>2, <1>3
<1>5. /\ context.method = job.call.method /\ context.id = job.id
      /\ context.url = url /\ context.own = own
  <2>1. opts.id = job.id /\ opts.call = job.call
    OBVIOUS
  <2>2. opts.own = own
    <3> HIDE DEF own
    <3> QED OBVIOUS
  <2> HIDE DEF opts, url, own
  <2> QED BY <2>1, <2>2 DEF Context
<1>6. /\ head.id = job.id /\ head.inst = job.inst /\ head.call.op = "route"
      /\ head.call.method = "HEAD" /\ head.call.path = entry.path
      /\ head.own = ParseHeadOnSendHandlers(own)
  <2> DEFINE call == [job.call EXCEPT !.method = "HEAD", !.path = entry.path]
             tail == ParseHeadOnSendHandlers(own)
  <2>1. head = [job EXCEPT !.call = call, !.own = tail]
    BY DEF HeadJob
  <2>2. call.op = job.call.op /\ call.method = "HEAD" /\ call.path = entry.path
    OBVIOUS
  <2> HIDE DEF call, tail, head, own
  <2>3. head.inst = job.inst /\ head.id = job.id /\ head.call = call /\ head.own = tail
    BY <2>1
  <2> QED BY <2>2, <2>3 DEF tail
<1>7. Handed(OfJob(job), OfRoute(context))
  <2>1. OfRoute(context) = Piece(job.id, job.call.method, own)
    BY <1>5 DEF OfRoute
  <2> HIDE DEF context, own
  <2> QED BY <1>2, <2>1, HandedOn DEF OfJob
<1>8. Handed(OfJob(job), OfJob(head))
  <2>1. /\ OfJob(head).id = job.id /\ OfJob(head).method = "HEAD"
        /\ OfJob(head).own = ParseHeadOnSendHandlers(own)
        /\ OfJob(job).id = job.id /\ OfJob(job).own = job.own
    BY <1>6 DEF OfJob, Piece
  <2> HIDE DEF head, own
  <2>2. OwnOn(job.own) => DropsBody(ParseHeadOnSendHandlers(own))
    BY <1>2, HandlerDrops DEF Passes
  <2> QED BY <2>1, <2>2 DEF Handed, DropsBody
<1>9. HeadJobFor(head, job.id, job.inst, prefix, url)
  BY <1>6 DEF HeadJobFor
<1> DEFINE more == Append(st.routes, context)
           jobs == Append(st.jobs, head)
<1>10. \/ next.routes = st.routes /\ next.jobs = st.jobs
       \/ next.routes = more /\ next.jobs = st.jobs /\ (asks => Finds(st.routes, "HEAD", url))
       \/ next.routes = more /\ next.jobs = jobs
  <2> HIDE DEF next, own, context, listener, head, url, more, jobs
  <2>1. CASE next = failed
    BY <2>1
  <2>2. CASE next = added /\ (asks => Finds(st.routes, "HEAD", url))
    BY <2>2 DEF more
  <2>3. CASE next = [added EXCEPT !.jobs = Append(st.jobs, head)]
    BY <2>3 DEF more, jobs
  <2> QED BY <1>0, <2>1, <2>2, <2>3
<1> HIDE DEF next, context, head, own, url, prefix
<1>11. /\ DOMAIN more = DOMAIN st.routes \cup {Len(st.routes) + 1}
       /\ more[Len(st.routes) + 1] = context /\ \A k \in DOMAIN st.routes : more[k] = st.routes[k]
       /\ Elements(jobs) = Elements(st.jobs) \cup {head}
       /\ DOMAIN st.routes = 1..Len(st.routes) /\ Len(st.routes) \in Nat
  BY <1>1, ListAppend, ListedIs
<1> HIDE DEF more, jobs
<1>12. /\ next.routes = st.routes \/ next.routes = more
       /\ next.jobs = st.jobs \/ next.jobs = jobs
       /\ DOMAIN st.routes \subseteq DOMAIN next.routes
       /\ \A k \in DOMAIN st.routes : next.routes[k] = st.routes[k]
       /\ Elements(st.jobs) \subseteq Elements(next.jobs)
  BY <1>10, <1>11
<1>13. ASSUME NEW k \in DOMAIN st.routes, HeadOf(prefix, job, st.routes, st.jobs, k)
       PROVE  HeadOf(prefix, job, next.routes, next.jobs, k)
  BY <1>12, <1>13 DEF HeadOf, HeadBefore
<1>14. ASSUME NEW k \in DOMAIN next.routes \ DOMAIN rs
       PROVE  /\ Handed(OfJob(job), OfRoute(next.routes[k]))
              /\ next.routes[k].method = job.call.method /\ next.routes[k].id = job.id
              /\ asks => HeadOf(prefix, job, next.routes, next.jobs, k)
  <2>1. CASE k \in DOMAIN st.routes
    BY <1>12, <1>13, <2>1 DEF Built, prefix
  <2>2. CASE k \notin DOMAIN st.routes
    <3>1. next.routes = more /\ next.routes[k] = context /\ k = Len(st.routes) + 1
      BY <1>11, <1>12, <2>2
    <3>2. ASSUME Finds(st.routes, "HEAD", url)
          PROVE  HeadOf(prefix, job, next.routes, next.jobs, k)
      <4>1. PICK n \in DOMAIN st.routes : st.routes[n].method = "HEAD" /\ MatchesUrl(st.routes[n].url, url)
        BY <3>2 DEF Finds
      <4>2. n < k /\ n \in DOMAIN next.routes /\ next.routes[n] = st.routes[n]
        BY <1>11, <1>12, <3>1
      <4>3. next.routes[k].url = url
        BY <1>5, <3>1
      <4> QED BY <4>1, <4>2, <4>3 DEF HeadOf, HeadBefore
    <3>3. next.jobs = jobs => HeadOf(prefix, job, next.routes, next.jobs, k)
      BY <1>5, <1>9, <1>11, <3>1 DEF HeadOf
    <3>4. asks => HeadOf(prefix, job, next.routes, next.jobs, k)
      <4>1. CASE next.routes = st.routes
        BY <2>2, <4>1
      <4> QED BY <1>10, <3>2, <3>3, <4>1
    <3> QED BY <1>5, <1>7, <3>1, <3>4
  <2> QED BY <2>1, <2>2
<1>15. ASSUME NEW j \in Elements(next.jobs)
       PROVE  Handed(OfJob(job), OfJob(j)) /\ j.call.method = "HEAD"
  <2>1. j \in Elements(st.jobs) \/ j = head
    BY <1>11, <1>12
  <2> QED BY <1>6, <1>8, <2>1 DEF Built
<1> QED BY <1>4, <1>14, <1>15 DEF Built, next, prefix

LEMMA RoutesBuilt ==
  ASSUME NEW is, NEW job, NEW rs, NEW ls, Listed(rs), Listed(ls), job.call.op = "route"
  PROVE  Built(is, job, rs, AddRoute(is, job, rs, ls))
<1> DEFINE none == [routes |-> rs, listeners |-> ls, own |-> job.own, jobs |-> <<>>, done |-> <<>>]
           Both(st) == Added(is, job, rs, ls, st) /\ Built(is, job, rs, st)
<1>1. Both(none)
  <2>1. Listed(<<>>) /\ Elements(<<>>) = {}
    BY DEF Listed, Elements
  <2> QED BY <2>1 DEF Added, RoutesTo, Built, Passes
<1> HIDE DEF none
<1>2. \A entry : Both(AfterRouteAdded(is, job, none, entry))
  BY <1>1, AfterAdded, AfterBuilt
<1>3. \A e1, e2 : Both(AfterRouteAdded(is, job, AfterRouteAdded(is, job, none, e1), e2))
  BY <1>2, AfterAdded, AfterBuilt
<1> QED BY <1>2, <1>3 DEF AddRoute, none

(* A job for a HEAD route adds it, unless that fails.                      *)
LEMMA HeadAdded ==
  ASSUME NEW is, NEW job, NEW rs, NEW ls, Listed(rs), Listed(ls), job.call.method = "HEAD",
         ~EndsWithSlash(is[job.inst].prefix), ~RouteFailed(AddRoute(is, job, rs, ls))
  PROVE  HeadThere(AddRoute(is, job, rs, ls).routes, job.id, is[job.inst].prefix \o job.call.path)
<1> DEFINE none == [routes |-> rs, listeners |-> ls, own |-> job.own, jobs |-> <<>>, done |-> <<>>]
           entry == [path |-> job.call.path, prefixing |-> FALSE]
           st == AfterRouteAdded(is, job, none, entry)
<1>1. RoutePaths(job.call, is[job.inst].prefix) = <<entry>>
  BY DEF RoutePaths
<1>2. AddRoute(is, job, rs, ls) = st
  <2>1. Len(<<entry>>) = 1 /\ Head(<<entry>>) = entry
    OBVIOUS
  <2> HIDE DEF entry
  <2> QED BY <1>1, <2>1 DEF AddRoute
<1> DEFINE url == is[job.inst].prefix \o entry.path
           ran == IF entry.prefixing THEN <<>> ELSE OnRouteRuns(is[job.inst].hooks["onRoute"])
           own == [none.own EXCEPT !["preHandler"] = @ \o SelectSeq(ran, LAMBDA h : h.does = "append")]
           opts == [job EXCEPT !.own = own]
           context == Context(is, opts, url)
           listener == [at |-> Len(none.routes) + 1, job |-> opts]
           failed == [none EXCEPT !.own = own, !.done = Append(@, "error")]
           added == [routes    |-> Append(none.routes, context),
                     listeners |-> Append(none.listeners, listener),
                     own       |-> own,
                     jobs      |-> none.jobs,
                     done      |-> Append(none.done, "ok")]
<1>3. st = failed \/ st = added
  BY DEF AfterRouteAdded
<1>4. RouteFailed(failed)
  <2>1. failed.done = Append(<<>>, "error")
    <3> HIDE DEF own
    <3> QED OBVIOUS
  <2>2. Head(Append(<<>>, "error")) = "error"
    OBVIOUS
  <2> HIDE DEF failed
  <2> QED BY <2>1, <2>2 DEF RouteFailed
<1>5. context.method = "HEAD" /\ context.id = job.id /\ context.url = is[job.inst].prefix \o job.call.path
  <2>1. opts.call = job.call /\ opts.id = job.id /\ entry.path = job.call.path
    OBVIOUS
  <2> HIDE DEF opts, entry
  <2> QED BY <2>1 DEF Context
<1>6. added.routes = Append(rs, context)
  <2> HIDE DEF context, listener, own
  <2> QED OBVIOUS
<1> HIDE DEF st, failed, added, context
<1>7. st = added
  BY <1>2, <1>3, <1>4
<1>8. Append(rs, context)[Len(rs) + 1] = context /\ Len(rs) + 1 \in DOMAIN Append(rs, context)
  BY ListAppend
<1> QED BY <1>2, <1>5, <1>6, <1>7, <1>8 DEF HeadThere

LEMMA LastJoined ==
  ASSUME NEW p, Listed(p), NEW q, Listed(q), q # <<>>
  PROVE  (p \o q)[Len(p \o q)] = q[Len(q)]
<1>1. PICK S : p \in Seq(S) /\ q \in Seq(S)
  <2>1. p \in Seq(Elements(p) \cup Elements(q)) /\ q \in Seq(Elements(p) \cup Elements(q))
    BY DEF Listed
  <2> QED BY <2>1
<1>2. Len(q) \in 1..Len(q)
  BY <1>1
<1> QED BY <1>1, <1>2

-----------------------------------------------------------------------------
(* What a step does to the jobs for routes: none changes, an error drops   *)
(* some, a call of route asks for one, or the current one runs.            *)

Asks == \E c \in api.uses : CallRoute(c)
LeftJobs == {j \in JobsOf(Dropped) : j.call.op = "route"}

LEMMA ErrorLogged ==
  ASSUME Shape, NEW i, NEW arg, NEW id, Log("error", i, arg, id)
  PROVE  Failed'
<1> DEFINE e == [op |-> "error", inst |-> i, arg |-> arg, id |-> id, at |-> Top.at]
<1>1. log' = Append(log, e) /\ e.op = "error"
  BY DEF Log
<1> HIDE DEF e
<1>2. log'[Len(log) + 1] = e /\ Len(log) + 1 \in DOMAIN log'
  BY <1>1, ListAppend DEF Shape, Entries
<1> QED BY <1>1, <1>2 DEF Failed

LEMMA CallRouteJobs ==
  ASSUME Shape, NEW c \in api.uses, Call(c)
  PROVE  \/ RouteJobs' = RouteJobs /\ ~CallRoute(c)
         \/ RouteJobs' \subseteq RouteJobs /\ Failed' /\ ~CallRoute(c)
         \/ CallRoute(c) /\ RouteJobs' = RouteJobs \cup {RouteJob(c, Me, Here)}
<1> DEFINE job == RouteJob(c, Me, Here)
<1>0. c.op # "route" => ~CallRoute(c)
  BY DEF CallRoute, Calling
<1>1. ASSUME Throws(c)
      PROVE  RouteJobs' \subseteq RouteJobs /\ Failed'
  <2>1. frames' = frames \/ frames' = Tail(frames)
    BY <1>1 DEF Throws
  <2>2. RouteJobs' \subseteq RouteJobs
    BY <2>1, TopJobs DEF RouteJobs
  <2> QED BY <1>1, <2>2, ErrorLogged DEF Throws
<1>2. ASSUME NEW j, Enqueue(j)
      PROVE  JobsOf(frames') = JobsOf(frames) \cup {j}
  <2> DEFINE f == [Top EXCEPT !.jobs = Append(Top.jobs, j)]
  <2>1. frames' = <<f>> \o Tail(frames)
    BY <1>2 DEF Enqueue
  <2>2. f.jobs = Append(Top.jobs, j)
    BY TopThere DEF FrameOn
  <2> HIDE DEF f
  <2>3. Elements(f.jobs) = Elements(Top.jobs) \cup {j}
    BY <2>2, TopJobs, ListAppend
  <2> QED BY <2>1, <2>3, TopJobs
<1>3. ASSUME NEW j, Enqueue(j), j.call = c, c.op # "route"
      PROVE  RouteJobs' = RouteJobs /\ ~CallRoute(c)
  BY <1>0, <1>2, <1>3 DEF RouteJobs
<1>4. CASE CallRegister(c) \/ CallAfter(c) \/ CallAddHook(c)
  <2>1. Enqueue(Job(c)) /\ c.op # "route"
    BY <1>4 DEF CallRegister, CallAfter, CallAddHook, PutsOff, Calling
  <2>2. Job(c).call = c
    BY DEF Job
  <2> QED BY <1>3, <2>1, <2>2
<1>5. job.call = c
  BY DEF RouteJob
<1>6. CASE CallRoute(c)
  <2>1. Enqueue(job) /\ c.op = "route"
    BY <1>6 DEF CallRoute, PutsOff, Calling
  <2> HIDE DEF job
  <2>2. RouteJobs' = RouteJobs \cup {job}
    BY <1>2, <1>5, <2>1 DEF RouteJobs
  <2> QED BY <1>6, <2>2 DEF job
<1>7. CASE CallSetNotFoundHandler(c)
  <2>1. c.op # "route"
    BY <1>7 DEF CallSetNotFoundHandler, Calling
  <2>2. CASE Throws(c)
    BY <1>0, <1>1, <2>1, <2>2
  <2>3. CASE ~Throws(c)
    <3>1. Enqueue(job)
      BY <1>7, <2>3 DEF CallSetNotFoundHandler
    <3> QED BY <1>3, <1>5, <2>1, <3>1
  <2> QED BY <2>2, <2>3
<1>8. CASE CallDecorate(c) \/ CallAddContentTypeParser(c) \/ CallAddSchema(c) \/ CallSetCompiler(c) \/ CallSet(c)
           \/ BodyThrows(c)
  <2>1. Throws(c) \/ frames' = frames
    BY <1>8 DEF CallDecorate, CallAddContentTypeParser, CallAddSchema, CallSetCompiler, CallSet, Sets, BodyThrows
  <2>2. c.op # "route"
    BY <1>8 DEF CallDecorate, CallAddContentTypeParser, CallAddSchema, CallSetCompiler, CallSet, Calling, BodyThrows
  <2>3. frames' = frames => RouteJobs' = RouteJobs
    BY DEF RouteJobs
  <2> QED BY <1>0, <1>1, <2>1, <2>2, <2>3
<1> QED BY <1>4, <1>6, <1>7, <1>8 DEF Call

LEMMA BootRouteJobs ==
  ASSUME Shape, Boot
  PROVE  \/ RouteJobs' = RouteJobs /\ ~RunRoute
         \/ /\ RunRoute /\ Current \in RouteJobs /\ Top.jobs # <<>> /\ ~Top.open
            /\ RouteJobs = {Current} \cup LeftJobs
            /\ RouteJobs' = Elements(AddRoute(insts, Current, routes, listeners).jobs) \cup LeftJobs
<1>1. ASSUME Top.jobs # <<>>, Current.call.op # "route", JobsOf(frames') = JobsOf(Dropped)
      PROVE  RouteJobs' = RouteJobs /\ ~RunRoute
  <2>1. RouteJobs' = RouteJobs
    BY <1>1, CurrentJobs DEF RouteJobs
  <2> QED BY <1>1, <2>1 DEF RunRoute, Running
<1>2. ASSUME NEW i, NEW at, Top.jobs # <<>>, Current.call.op # "route", frames' = <<Frame(i, at)>> \o Dropped
      PROVE  RouteJobs' = RouteJobs /\ ~RunRoute
  <2>1. Frame(i, at).jobs = <<>> /\ Elements(<<>>) = {}
    BY DEF Frame, Elements
  <2>2. JobsOf(frames') = {} \cup JobsOf(Dropped)
    BY <1>2, <2>1, CurrentJobs
  <2> QED BY <1>1, <1>2, <2>2
<1>3. CASE SkipPlugin \/ RunAddHook \/ RunSetNotFound
  <2>1. Top.jobs # <<>> /\ Current.call.op # "route" /\ frames' = Dropped
    BY <1>3 DEF SkipPlugin, RunAddHook, RunSetNotFound, Running
  <2> QED BY <1>1, <2>1
<1>4. CASE LoadPlugin
  <2>1. Top.jobs # <<>> /\ Current.call.op # "route"
    BY <1>4 DEF LoadPlugin, Running
  <2>2. \/ frames' = Dropped
        \/ frames' = <<Frame(Current.inst, "later")>> \o Dropped
        \/ frames' = <<Frame(Len(insts) + 1, "body")>> \o Dropped
    BY <1>4 DEF LoadPlugin
  <2>3. CASE frames' = Dropped
    BY <1>1, <2>1, <2>3
  <2>4. CASE frames' = <<Frame(Current.inst, "later")>> \o Dropped
    BY <1>2, <2>1, <2>4
  <2>5. CASE frames' = <<Frame(Len(insts) + 1, "body")>> \o Dropped
    BY <1>2, <2>1, <2>5
  <2> QED BY <2>2, <2>3, <2>4, <2>5
<1>5. CASE RunAfter
  <2>1. Top.jobs # <<>> /\ Current.call.op # "route" /\ frames' = <<Frame(Current.inst, "later")>> \o Dropped
    BY <1>5 DEF RunAfter, Running
  <2> QED BY <1>2, <2>1
<1>6. CASE RunRoute
  <2> DEFINE st == AddRoute(insts, Current, routes, listeners)
  <2>1. Top.jobs # <<>> /\ ~Top.open /\ Current.call.op = "route" /\ frames' = Within(st.jobs)
    BY <1>6 DEF RunRoute, Running
  <2>2. Listed(st.jobs) /\ \A j \in Elements(st.jobs) : AskedBy(Current, j)
    BY RoutesAdded DEF Added, Shape, Registry
  <2> HIDE DEF st
  <2>3. \A j \in Elements(st.jobs) : j.call.op = "route"
    BY <2>1, <2>2 DEF AskedBy
  <2>4. JobsOf(frames') = Elements(st.jobs) \cup JobsOf(Dropped)
    BY <2>1, <2>2, CurrentJobs
  <2>5. JobsOf(frames) = {Current} \cup JobsOf(Dropped)
    BY <2>1, CurrentJobs
  <2>6. RouteJobs = {Current} \cup LeftJobs
    BY <2>1, <2>5 DEF RouteJobs, LeftJobs
  <2>7. RouteJobs' = Elements(st.jobs) \cup LeftJobs
    BY <2>3, <2>4 DEF RouteJobs, LeftJobs
  <2> QED BY <1>6, <2>1, <2>6, <2>7 DEF st
<1>7. CASE BodyEnds
  <2> DEFINE f == [Top EXCEPT !.open = FALSE]
  <2>1. frames' = <<f>> \o Tail(frames) /\ f.jobs = Top.jobs
    BY <1>7 DEF BodyEnds
  <2> HIDE DEF f
  <2>2. JobsOf(frames') = JobsOf(frames)
    BY <2>1, TopJobs
  <2> QED BY <1>7, <2>2 DEF RouteJobs, BodyEnds, RunRoute, Running
<1>8. CASE Loaded
  <2>1. Top.jobs = <<>> /\ (frames' = frames \/ frames' = Tail(frames)) /\ Elements(<<>>) = {}
    BY <1>8 DEF Loaded, Elements
  <2>2. JobsOf(frames') = JobsOf(frames)
    BY <2>1, TopJobs
  <2> QED BY <2>1, <2>2 DEF RouteJobs, RunRoute, Running
<1>9. CASE RouteListener \/ NotFoundListener \/ Start
  <2>1. frames' = frames /\ phase = "preReady"
    BY <1>9 DEF RouteListener, NotFoundListener, Start
  <2> QED BY <2>1 DEF RouteJobs, RunRoute, Running
<1> QED BY <1>3, <1>4, <1>5, <1>6, <1>7, <1>8, <1>9 DEF Boot

LEMMA NextRouteJobs ==
  ASSUME Shape, [Next]_vars
  PROVE  \/ ~RunRoute /\ ~Asks /\ RouteJobs' \subseteq RouteJobs /\ (Failed' \/ RouteJobs' = RouteJobs)
         \/ ~RunRoute /\ \E c \in api.uses : CallRoute(c) /\ RouteJobs' = RouteJobs \cup {RouteJob(c, Me, Here)}
         \/ /\ ~Asks /\ RunRoute /\ Current \in RouteJobs /\ Top.jobs # <<>> /\ ~Top.open
            /\ RouteJobs = {Current} \cup LeftJobs
            /\ RouteJobs' = Elements(AddRoute(insts, Current, routes, listeners).jobs) \cup LeftJobs
<1>1. RunRoute => ~Top.open /\ Boot
  BY DEF RunRoute, Running, Boot
<1>2. \A c : CallRoute(c) => Top.open /\ Call(c)
  BY DEF CallRoute, Calling, Call
<1>3. CASE Asks
  <2>1. PICK c \in api.uses : CallRoute(c)
    BY <1>3 DEF Asks
  <2> QED BY <1>1, <1>2, <2>1, CallRouteJobs
<1>4. CASE RunRoute
  BY <1>1, <1>2, <1>4, BootRouteJobs DEF Asks
<1>5. CASE ~RunRoute /\ ~Asks
  <2>1. ASSUME NEW c \in api.uses, Call(c)
        PROVE  RouteJobs' \subseteq RouteJobs /\ (Failed' \/ RouteJobs' = RouteJobs)
    BY <1>5, <2>1, CallRouteJobs DEF Asks
  <2>2. Boot => RouteJobs' = RouteJobs
    BY <1>5, BootRouteJobs
  <2>3. Serve \/ UNCHANGED vars => frames' = frames
    BY DEF Serve, Request, bootVars, vars
  <2>4. frames' = frames => RouteJobs' = RouteJobs
    BY DEF RouteJobs
  <2> QED BY <1>5, <2>1, <2>2, <2>3, <2>4 DEF Next
<1> QED BY <1>3, <1>4, <1>5

LEMMA NextIdleJobs ==
  ASSUME Shape, IdleJobs, [Next]_vars
  PROVE  IdleJobs'
<1> SUFFICES ASSUME phase' \in {"preReady", "started", "failed"} PROVE JobsOf(frames') = {}
  BY DEF IdleJobs
<1>1. ASSUME NEW c \in api.uses, Call(c)
      PROVE  phase' \in {"loading", "crashed"}
  BY <1>1, CallCases DEF Throws
<1>2. CASE BodyEnds \/ SkipPlugin \/ LoadPlugin \/ RunAfter \/ RunAddHook \/ RunRoute \/ RunSetNotFound
  <2>1. phase' \in {"loading", "crashed"}
    BY <1>2 DEF BodyEnds, SkipPlugin, LoadPlugin, RunAfter, RunAddHook, RunRoute, RunSetNotFound,
                Running, UnchangedRoutes
  <2> QED BY <2>1
<1>3. CASE Loaded
  <2>1. Len(frames) = 1 /\ frames' = frames /\ Top.jobs = <<>>
    BY <1>3 DEF Loaded
  <2>2. Listed(Tail(frames)) /\ Len(Tail(frames)) = 0
    BY <2>1, ListTail, ListedIs DEF Shape, FramesOn
  <2>3. JobsOf(Tail(frames)) = {} /\ Elements(<<>>) = {}
    BY <2>2, ListedIs DEF JobsOf, Elements
  <2> QED BY <2>1, <2>3, TopJobs
<1>4. CASE RouteListener \/ NotFoundListener \/ Start \/ Serve \/ UNCHANGED vars
  <2>1. frames' = frames /\ phase \in {"preReady", "started", "failed"}
    BY <1>4 DEF RouteListener, NotFoundListener, Start, Serve, Request, Ready, bootVars, vars
  <2> QED BY <2>1 DEF IdleJobs
<1> QED BY <1>1, <1>2, <1>3, <1>4 DEF Next, Boot

-----------------------------------------------------------------------------
(* What a step logs of the calls of route, and what it leaves of a route.  *)

LEMMA RouteLogged ==
  ASSUME Shape, [Next]_vars
  PROVE  /\ \A n \in DOMAIN log : n \in DOMAIN log' /\ log'[n] = log[n]
         /\ ~Asks => \A n \in DOMAIN log' : n \in DOMAIN log \/ log'[n].op # "route"
         /\ \A c \in api.uses : CallRoute(c) =>
              \A n \in DOMAIN log' : n \in DOMAIN log \/
                 (log'[n].id = Me /\ log'[n].arg = IF c.expose THEN "expose" ELSE "")
<1> DEFINE len == Len(log)
<1>1. /\ DOMAIN log = 1..len /\ len \in Nat /\ DOMAIN log \subseteq DOMAIN log'
      /\ \A n \in DOMAIN log : log'[n] = log[n]
      /\ \A n \in DOMAIN log' : n \in DOMAIN log \/ n = len + 1
  BY LogGrowsByOne
<1>2. ASSUME NEW op, NEW i, NEW arg, NEW id, Log(op, i, arg, id)
      PROVE  log'[len + 1].op = op /\ log'[len + 1].arg = arg /\ log'[len + 1].id = id
  <2> DEFINE e == [op |-> op, inst |-> i, arg |-> arg, id |-> id, at |-> Top.at]
  <2>1. log' = Append(log, e) /\ e.op = op /\ e.arg = arg /\ e.id = id
    BY <1>2 DEF Log
  <2> HIDE DEF e
  <2> QED BY <2>1, ListAppend DEF Shape, Entries
<1> HIDE DEF len
<1>3. ASSUME NEW c \in api.uses, CallRoute(c), NEW n \in DOMAIN log', n \notin DOMAIN log
      PROVE  log'[n].id = Me /\ log'[n].arg = IF c.expose THEN "expose" ELSE ""
  <2>1. PICK arg : arg = IF c.expose THEN "expose" ELSE ""
    OBVIOUS
  <2>2. Log(c.op, Here, arg, Me)
    BY <1>3, <2>1 DEF CallRoute, Done
  <2>3. log'[len + 1].arg = arg /\ log'[len + 1].id = Me /\ n = len + 1
    BY <1>1, <1>2, <1>3, <2>2
  <2> QED BY <2>1, <2>3
<1>4. ASSUME NEW op, NEW i, NEW arg, NEW id, Log(op, i, arg, id), op # "route"
      PROVE  \A n \in DOMAIN log' : n \in DOMAIN log \/ log'[n].op # "route"
  BY <1>1, <1>2, <1>4
<1>5. ASSUME ~Asks
      PROVE  \A n \in DOMAIN log' : n \in DOMAIN log \/ log'[n].op # "route"
  <2>1. ASSUME NEW c \in api.uses, Call(c)
        PROVE  \A n \in DOMAIN log' : n \in DOMAIN log \/ log'[n].op # "route"
    <3>1. CASE Throws(c)
      <4>1. Log("error", Here, c.op, Me)
        BY <3>1 DEF Throws
      <4> QED BY <1>4, <4>1
    <3>2. CASE ~Throws(c) /\ \E arg : Log(c.op, Here, arg, Me)
      <4>1. c.op = "route" => CallRoute(c)
        BY <2>1, <3>2 DEF Call, Calling, BodyThrows, CallRegister, CallAfter, CallAddHook, CallSetNotFoundHandler,
               CallDecorate, CallAddContentTypeParser, CallAddSchema, CallSetCompiler, CallSet
      <4>2. c.op # "route"
        BY <1>5, <4>1 DEF Asks
      <4> QED BY <1>4, <3>2, <4>2
    <3> QED BY <2>1, <3>1, <3>2, CallCases
  <2>2. CASE BodyEnds \/ SkipPlugin \/ RunSetNotFound \/ Loaded \/ NotFoundListener \/ Start
    BY <2>2 DEF BodyEnds, SkipPlugin, RunSetNotFound, Loaded, NotFoundListener, Start
  <2>3. CASE LoadPlugin
    BY <1>4, <2>3 DEF LoadPlugin
  <2>4. CASE RunAfter
    BY <1>4, <2>4 DEF RunAfter
  <2>5. CASE RunAddHook
    BY <1>4, <2>5 DEF RunAddHook
  <2>6. CASE RunRoute
    <3>1. log' = log \/ \E op \in {"error", "ignored"} : Log(op, Current.inst, "route", Current.id)
      BY <2>6 DEF RunRoute, RouteEnds
    <3> QED BY <1>4, <3>1
  <2>7. CASE RouteListener
    BY <1>4, <2>7 DEF RouteListener
  <2>8. CASE Serve \/ UNCHANGED vars
    BY <2>8, ServeBoot DEF vars, bootVars
  <2> QED BY <2>1, <2>2, <2>3, <2>4, <2>5, <2>6, <2>7, <2>8 DEF Next, Boot
<1> QED BY <1>1, <1>3, <1>5

SameCall(c, w) ==   \* of a route
  w.inst = c.inst /\ w.id = c.id /\ w.method = c.method /\ w.url = c.url /\ w.own = c.own

LEMMA RoutesStay ==
  ASSUME Shape, [Next]_vars
  PROVE  /\ DOMAIN routes \subseteq DOMAIN routes' /\ (~RunRoute => DOMAIN routes' = DOMAIN routes)
         /\ \A k \in DOMAIN routes : SameCall(routes[k], routes'[k])
<1>1. CASE routes' = routes
  BY <1>1 DEF SameCall
<1>2. CASE RouteListener
  <2> DEFINE k == Head(listeners).at
             c == routes[k]
             hooked == [c EXCEPT !.hooks = AllHooks(insts, c.inst, c.own)]
             nf == SetContext(insts, hooked, contexts)
             compiled == IF BuildFails(insts, c) THEN c.compiled ELSE Compiled(insts, c)
             w == RouteReady(insts, contexts, c)
  <2>1. w = [hooked EXCEPT !.notFound = nf, !.compiled = compiled]
    BY DEF RouteReady
  <2>2. SameCall(c, w)
    <3> HIDE DEF w, nf, compiled
    <3> QED BY <2>1 DEF SameCall
  <2>3. routes' = [routes EXCEPT ![k] = w]
    BY <1>2 DEF RouteListener
  <2>4. \A n \in DOMAIN routes : SameCall(routes[n], routes[n])
    BY DEF SameCall
  <2> HIDE DEF k, w
  <2> QED BY <2>2, <2>3, <2>4 DEF k
<1>3. CASE RunRoute
  <2> DEFINE st == AddRoute(insts, Current, routes, listeners)
  <2>1. routes' = st.routes
    BY <1>3 DEF RunRoute
  <2>2. RoutesTo(insts, Current, routes, listeners, st.routes, st.listeners)
    BY RoutesAdded DEF Added, Shape, Registry
  <2> HIDE DEF st
  <2> QED BY <1>3, <2>1, <2>2 DEF RoutesTo, SameCall
<1> QED BY <1>1, <1>2, <1>3, NextPhase DEF RunSetNotFound, NotFoundListener

(* What the current job for a route builds.                                *)
LEMMA RunBuilds ==
  ASSUME Shape, RunRoute
  PROVE  LET st == AddRoute(insts, Current, routes, listeners)
         IN /\ Built(insts, Current, routes, st) /\ Current.call.op = "route"
            /\ routes' = st.routes /\ insts' = insts
            /\ Failed' \/ ~RouteFailed(st)
            /\ \A k \in DOMAIN routes' \ DOMAIN routes : routes'[k].inst = Current.inst
<1> DEFINE st == AddRoute(insts, Current, routes, listeners)
<1>1. Current.call.op = "route" /\ routes' = st.routes /\ insts' = insts
  BY DEF RunRoute, Running
<1>2. Built(insts, Current, routes, st)
  BY <1>1, RoutesBuilt DEF Shape, Registry
<1>3. RouteFailed(st) => Failed'
  <2>1. RouteFailed(st) => Log("error", Current.inst, "route", Current.id)
    <3>1. RouteEnds(st)
      BY DEF RunRoute
    <3> HIDE DEF st
    <3> QED BY <3>1 DEF RouteEnds, SecondPathFailed
  <2> HIDE DEF st
  <2> QED BY <2>1, ErrorLogged
<1>4. RoutesTo(insts, Current, routes, listeners, st.routes, st.listeners)
  BY RoutesAdded DEF Added, Shape, Registry
<1> HIDE DEF st
<1>5. \A k \in DOMAIN routes' \ DOMAIN routes : routes'[k].inst = Current.inst
  BY <1>1, <1>4 DEF RoutesTo, NewContext
<1> QED BY <1>1, <1>2, <1>3, <1>5 DEF st

-----------------------------------------------------------------------------
(* The parts of HeadInv.                                                   *)

LEMMA NextPieces ==
  ASSUME Shape, PiecesInv, [Next]_vars
  PROVE  PiecesInv'
<1>0. calls \in Nat /\ calls' \in Nat /\ calls <= calls'
  BY CallsGrow DEF Shape
<1>1. \A k \in DOMAIN routes : OfRoute(routes'[k]) = OfRoute(routes[k])
  BY RoutesStay DEF SameCall, OfRoute
<1>2. \A p : Handed(p, p)
  BY DEF Handed
<1>3. ASSUME \A q \in Pieces' : \E p \in Pieces : Handed(p, q)
      PROVE  PiecesInv'
  <2>1. ASSUME NEW q \in Pieces'
        PROVE  q.id \in 0..calls' /\ OwnOn(q.own)
    BY <1>0, <1>3, <2>1 DEF PiecesInv, Handed
  <2>2. ASSUME NEW p \in Pieces', NEW q \in Pieces', p.id = q.id, p.method = "GET", q.method = "HEAD"
        PROVE  DropsBody(q.own)
    <3>1. PICK x \in Pieces, y \in Pieces : Handed(x, p) /\ Handed(y, q)
      BY <1>3
    <3>2. x.id = y.id /\ OwnOn(x.own) /\ OwnOn(y.own)
      BY <2>2, <3>1 DEF Handed, PiecesInv
    <3>3. x.method = "GET"
      BY <2>2, <3>1, <3>2 DEF Handed
    <3>4. (y.method = "HEAD" /\ (DropsBody(y.own) => DropsBody(q.own))) \/ DropsBody(q.own)
      BY <2>2, <3>1, <3>2 DEF Handed
    <3> QED BY <3>2, <3>3, <3>4 DEF PiecesInv
  <2> QED BY <2>1, <2>2 DEF PiecesInv
<1>4. CASE ~RunRoute /\ RouteJobs' \subseteq RouteJobs
  <2>1. DOMAIN routes' = DOMAIN routes
    BY <1>4, RoutesStay
  <2>2. Pieces' \subseteq Pieces
    BY <1>1, <1>4, <2>1 DEF Pieces
  <2> QED BY <1>2, <1>3, <2>2
<1>5. ASSUME ~RunRoute, NEW c \in api.uses, CallRoute(c), RouteJobs' = RouteJobs \cup {RouteJob(c, Me, Here)}
      PROVE  PiecesInv'
  <2> DEFINE job == RouteJob(c, Me, Here)
             z == OfJob(job)
  <2>1. DOMAIN routes' = DOMAIN routes
    BY <1>5, RoutesStay
  <2>2. z.id = calls + 1 /\ calls' = calls + 1 /\ z.own = OwnHooks(c.own, Me) /\ z.method = c.method
    BY <1>5 DEF RouteJob, OfJob, Piece, Me, CallRoute, Calling
  <2>3. OwnOn(OwnHooks(c.own, Me))
    <3> DEFINE own == OwnHooks(c.own, Me)
    <3>1. DOMAIN own = LifecycleHooks /\ "onSend" \in LifecycleHooks
      BY HooksAssumption DEF OwnHooks
    <3>2. PICK x : x = [id |-> Me, does |-> "next"]
      OBVIOUS
    <3>3. own["onSend"] = <<x>> \/ own["onSend"] = <<>>
      BY <3>1, <3>2 DEF OwnHooks
    <3>4. <<x>> \in Seq({x}) /\ <<>> \in Seq({})
      OBVIOUS
    <3>5. Listed(<<>>) /\ Listed(<<x>>)
      BY <3>4, ListedOver DEF Listed, Elements
    <3> HIDE DEF own
    <3>6. Listed(own["onSend"])
      BY <3>3, <3>5
    <3> QED BY <3>1, <3>6 DEF OwnOn, own
  <2>4. Pieces' \subseteq Pieces \cup {z}
    <3> HIDE DEF job
    <3> QED BY <1>1, <1>5, <2>1 DEF Pieces, job
  <2> HIDE DEF z, job
  <2>5. ASSUME NEW q \in Pieces'
        PROVE  q.id \in 0..calls' /\ OwnOn(q.own)
    BY <1>0, <2>2, <2>3, <2>4 DEF PiecesInv
  <2>6. ASSUME NEW p \in Pieces', NEW q \in Pieces', p.id = q.id, p.method = "GET", q.method = "HEAD"
        PROVE  DropsBody(q.own)
    <3>1. \A x \in Pieces : x.id # z.id
      <4>1. \A x \in Pieces : x.id \in 0..calls
        BY DEF PiecesInv
      <4>2. calls + 1 \notin 0..calls
        BY <1>0
      <4> QED BY <2>2, <4>1, <4>2
    <3>2. p \in Pieces /\ q \in Pieces
      <4>1. "GET" # "HEAD"
        OBVIOUS
      <4> QED BY <2>4, <2>6, <3>1, <4>1
    <3> QED BY <2>6, <3>2 DEF PiecesInv
  <2> QED BY <2>5, <2>6 DEF PiecesInv
<1>6. CASE /\ RunRoute /\ Current \in RouteJobs
           /\ RouteJobs = {Current} \cup LeftJobs
           /\ RouteJobs' = Elements(AddRoute(insts, Current, routes, listeners).jobs) \cup LeftJobs
  <2> DEFINE st == AddRoute(insts, Current, routes, listeners)
  <2>1. Built(insts, Current, routes, st) /\ routes' = st.routes
    BY <1>6, RunBuilds
  <2>2. RouteJobs' = Elements(st.jobs) \cup LeftJobs
    BY <1>6
  <2> HIDE DEF st
  <2>3. OfJob(Current) \in Pieces /\ \A j \in LeftJobs : OfJob(j) \in Pieces
    BY <1>6 DEF Pieces
  <2>4. ASSUME NEW j \in RouteJobs'
        PROVE  \E p \in Pieces : Handed(p, OfJob(j))
    BY <1>2, <2>1, <2>2, <2>3 DEF Built
  <2>5. ASSUME NEW k \in DOMAIN routes'
        PROVE  \E p \in Pieces : Handed(p, OfRoute(routes'[k]))
    <3>1. CASE k \in DOMAIN routes
      <4>1. OfRoute(routes[k]) \in Pieces
        BY <3>1 DEF Pieces
      <4> QED BY <1>1, <1>2, <3>1, <4>1
    <3>2. CASE k \notin DOMAIN routes
      BY <2>1, <2>3, <3>2 DEF Built
    <3> QED BY <3>1, <3>2
  <2>6. \A q \in Pieces' : \E p \in Pieces : Handed(p, q)
    BY <2>4, <2>5 DEF Pieces
  <2> QED BY <1>3, <2>6
<1> QED BY <1>4, <1>5, <1>6, NextRouteJobs

LEMMA NextExpose ==
  ASSUME Shape, ExposeInv, [Next]_vars
  PROVE  ExposeInv'
<1>0. calls \in Nat /\ calls' \in Nat /\ calls <= calls'
  BY CallsGrow DEF Shape
<1>1. \A j \in RouteJobs : j.id \in 0..calls
  <2>1. \A f \in Elements(frames) : \A j \in Elements(f.jobs) : JobOn(insts, calls, j)
    BY DEF Shape, FramesOn, FrameOn
  <2> QED BY <2>1 DEF RouteJobs, JobsOf, JobOn
<1>2. \A n \in DOMAIN log : n \in DOMAIN log' /\ log'[n] = log[n]
  BY RouteLogged
<1>3. CASE ~Asks
  <2>1. \A n \in DOMAIN log' : n \in DOMAIN log \/ log'[n].op # "route"
    BY <1>3, RouteLogged
  <2>2. \A id : AskedHead(id, log') => AskedHead(id, log)
    BY <1>2, <2>1 DEF AskedHead
  <2>3. ASSUME NEW n \in DOMAIN log', log'[n].op = "route"
        PROVE  log'[n].id \in 0..calls'
    <3>1. n \in DOMAIN log /\ log[n].id \in 0..calls /\ log'[n] = log[n]
      BY <1>2, <2>1, <2>3 DEF ExposeInv
    <3> QED BY <1>0, <3>1
  <2>4. ASSUME NEW j \in RouteJobs', j.call.method = "GET"
        PROVE  j \in RouteJobs
    <3>1. CASE RunRoute
      <4> DEFINE st == AddRoute(insts, Current, routes, listeners)
      <4>1. Built(insts, Current, routes, st)
        BY <3>1, RunBuilds
      <4>2. RouteJobs = {Current} \cup LeftJobs /\ RouteJobs' = Elements(st.jobs) \cup LeftJobs
        BY <3>1, NextRouteJobs
      <4> HIDE DEF st
      <4>3. j \notin Elements(st.jobs)
        BY <2>4, <4>1 DEF Built
      <4> QED BY <2>4, <4>2, <4>3
    <3>2. CASE ~RunRoute
      BY <1>3, <2>4, <3>2, NextRouteJobs DEF Asks
    <3> QED BY <3>1, <3>2
  <2> QED BY <2>2, <2>3, <2>4 DEF ExposeInv
<1>4. ASSUME ~RunRoute, NEW c \in api.uses, CallRoute(c), RouteJobs' = RouteJobs \cup {RouteJob(c, Me, Here)}
      PROVE  ExposeInv'
  <2>1. \A n \in DOMAIN log' : n \in DOMAIN log \/
          (log'[n].id = Me /\ log'[n].arg = IF c.expose THEN "expose" ELSE "")
    BY <1>4, RouteLogged DEF Asks
  <2>2. Me = calls + 1 /\ calls' = calls + 1
    BY <1>4 DEF Me, CallRoute, Calling
  <2>3. ASSUME NEW n \in DOMAIN log', log'[n].op = "route"
        PROVE  log'[n].id \in 0..calls'
    <3>1. CASE n \in DOMAIN log
      <4>1. log[n].id \in 0..calls /\ log'[n] = log[n]
        BY <1>2, <2>3, <3>1 DEF ExposeInv
      <4> QED BY <1>0, <4>1
    <3>2. CASE n \notin DOMAIN log
      <4>1. log'[n].id = Me
        BY <2>1, <3>2
      <4> QED BY <1>0, <2>2, <4>1
    <3> QED BY <3>1, <3>2
  <2> DEFINE job == RouteJob(c, Me, Here)
  <2>4. job.call = c /\ job.id = Me
    BY DEF RouteJob
  <2> HIDE DEF job
  <2>5. ASSUME NEW j \in RouteJobs', j.call.method = "GET", AskedHead(j.id, log')
        PROVE  j.call.expose
    <3>1. PICK n \in DOMAIN log' : log'[n].op = "route" /\ log'[n].arg = "expose" /\ log'[n].id = j.id
      BY <2>5 DEF AskedHead
    <3>2. calls + 1 \notin 0..calls
      BY <1>0
    <3>3. CASE n \in DOMAIN log
      <4>1. log[n].op = "route" /\ log[n].arg = "expose" /\ log[n].id = j.id /\ log[n].id \in 0..calls
        BY <1>2, <3>1, <3>3 DEF ExposeInv
      <4>2. j # job
        BY <2>2, <2>4, <3>2, <4>1
      <4>3. j \in RouteJobs
        BY <1>4, <2>5, <4>2 DEF job
      <4>4. AskedHead(j.id, log)
        BY <3>3, <4>1 DEF AskedHead
      <4> QED BY <2>5, <4>3, <4>4 DEF ExposeInv
    <3>4. CASE n \notin DOMAIN log
      <4>1. log'[n].id = Me /\ log'[n].arg = IF c.expose THEN "expose" ELSE ""
        BY <2>1, <3>4
      <4>2. c.expose
        BY <3>1, <4>1
      <4>3. j = job
        BY <1>1, <1>4, <2>2, <2>5, <3>1, <3>2, <4>1 DEF job
      <4> QED BY <2>4, <4>2, <4>3
    <3> QED BY <3>3, <3>4
  <2> QED BY <2>3, <2>5 DEF ExposeInv
<1> QED BY <1>3, <1>4, NextRouteJobs

(* A step asks for the HEAD route of no call made before it.               *)
LEMMA AskedBefore ==
  ASSUME Shape, [Next]_vars, NEW id \in 0..calls, AskedHead(id, log')
  PROVE  AskedHead(id, log)
<1>1. PICK n \in DOMAIN log' : log'[n].op = "route" /\ log'[n].arg = "expose" /\ log'[n].id = id
  BY DEF AskedHead
<1>2. n \in DOMAIN log => log'[n] = log[n]
  BY RouteLogged
<1>3. CASE n \in DOMAIN log
  BY <1>1, <1>2, <1>3 DEF AskedHead
<1>4. CASE n \notin DOMAIN log
  <2>1. Asks
    BY <1>1, <1>4, RouteLogged
  <2>2. PICK c \in api.uses : CallRoute(c)
    BY <2>1 DEF Asks
  <2>3. log'[n].id = Me
    BY <1>4, <2>2, RouteLogged
  <2>4. Me \notin 0..calls
    <3>1. calls + 1 \notin 0..calls
      BY DEF Shape
    <3> QED BY <3>1 DEF Me
  <2> QED BY <1>1, <2>3, <2>4
<1> QED BY <1>3, <1>4

LEMMA HeadStays ==
  ASSUME Shape, [Next]_vars
  PROVE  /\ \A id, url : HeadThere(routes, id, url) => HeadThere(routes', id, url)
         /\ \A k \in DOMAIN routes : HeadBefore(routes, k) => HeadBefore(routes', k)
BY RoutesStay DEF HeadThere, HeadBefore, SameCall

LEMMA PrefixesStay ==
  ASSUME Shape, [Next]_vars, NEW i \in DOMAIN insts
  PROVE  insts'[i].prefix = insts[i].prefix
BY NextInsts DEF Shape, InstsKept, SameBut

(* A HEAD route that is still to come stays so or is added.                *)
LEMMA HeadJobRuns ==
  ASSUME Shape, [Next]_vars, ~Failed', NEW id, NEW i, NEW url, ~EndsWithSlash(insts[i].prefix),
         NEW j \in RouteJobs, HeadJobFor(j, id, i, insts[i].prefix, url)
  PROVE  HeadThere(routes', id, url) \/ j \in RouteJobs'
<1>1. CASE j \in RouteJobs'
  BY <1>1
<1>2. CASE j \notin RouteJobs'
  <2> DEFINE st == AddRoute(insts, Current, routes, listeners)
  <2>1. RunRoute /\ j = Current
    BY <1>2, NextRouteJobs
  <2>2. routes' = st.routes /\ ~RouteFailed(st)
    BY <2>1, RunBuilds
  <2>3. /\ Current.call.method = "HEAD" /\ Current.inst = i /\ Current.id = id
        /\ insts[i].prefix \o Current.call.path = url
    BY <2>1 DEF HeadJobFor
  <2>4. HeadThere(st.routes, Current.id, insts[i].prefix \o Current.call.path)
    BY <2>2, <2>3, HeadAdded DEF Shape, Registry
  <2> QED BY <2>2, <2>3, <2>4
<1> QED BY <1>1, <1>2

LEMMA NextHeaded ==
  ASSUME Shape, PiecesInv, ExposeInv, [Next]_vars, ~Failed => \A k \in DOMAIN routes : Headed(k), ~Failed',
         NEW k \in DOMAIN routes'
  PROVE  Headed(k)'
<1> DEFINE i == routes'[k].inst
           id == routes'[k].id
           url == routes'[k].url
<1>1. ~Failed
  <2>1. \A n \in DOMAIN log : n \in DOMAIN log' /\ log'[n] = log[n]
    BY RouteLogged
  <2> QED BY <2>1 DEF Failed
<1>2. SUFFICES ASSUME routes'[k].method = "GET", AskedHead(routes'[k].id, log'),
                      ~EndsWithSlash(insts'[i].prefix)
               PROVE  \/ HeadBefore(routes', k) \/ HeadThere(routes', id, url)
                      \/ \E j \in RouteJobs' : HeadJobFor(j, id, i, insts'[i].prefix, url)
  BY DEF Headed
<1>3. CASE k \in DOMAIN routes
  <2>1. SameCall(routes[k], routes'[k])
    BY <1>3, RoutesStay
  <2>2. /\ i = routes[k].inst /\ url = routes[k].url
        /\ routes[k].method = "GET" /\ id = routes[k].id
    BY <1>2, <2>1 DEF SameCall
  <2>3. insts'[i].prefix = insts[i].prefix
    BY <1>3, <2>2, PrefixesStay DEF Shape, Registry
  <2>4. OfRoute(routes[k]) \in Pieces
    BY <1>3 DEF Pieces
  <2>5. routes[k].id \in 0..calls
    BY <2>4 DEF PiecesInv, OfRoute, Piece
  <2>6. AskedHead(routes[k].id, log)
    BY <1>2, <2>2, <2>5, AskedBefore
  <2> HIDE DEF i, id, url
  <2>7. \/ HeadBefore(routes, k) \/ HeadThere(routes, id, url)
        \/ \E j \in RouteJobs : HeadJobFor(j, id, i, insts[i].prefix, url)
    BY <1>1, <1>2, <1>3, <2>2, <2>3, <2>6 DEF Headed
  <2>8. CASE HeadBefore(routes, k) \/ HeadThere(routes, id, url)
    BY <1>3, <2>8, HeadStays
  <2>9. ASSUME NEW j \in RouteJobs, HeadJobFor(j, id, i, insts[i].prefix, url)
        PROVE  HeadThere(routes', id, url) \/ j \in RouteJobs'
    BY <1>2, <2>3, <2>9, HeadJobRuns
  <2> QED BY <2>3, <2>7, <2>8, <2>9
<1>4. CASE k \notin DOMAIN routes
  <2> DEFINE st == AddRoute(insts, Current, routes, listeners)
  <2>1. RunRoute
    BY <1>4, RoutesStay
  <2>2. /\ Built(insts, Current, routes, st)
        /\ routes' = st.routes /\ insts' = insts /\ i = Current.inst
    BY <1>4, <2>1, RunBuilds
  <2>3. Current \in RouteJobs /\ RouteJobs' = Elements(st.jobs) \cup LeftJobs
    BY <2>1, NextRouteJobs
  <2> HIDE DEF st
  <2>4. /\ routes'[k].method = Current.call.method /\ routes'[k].id = Current.id
        /\ Current.call.method = "GET" /\ Current.call.expose =>
             HeadOf(insts[Current.inst].prefix, Current, routes', st.jobs, k)
    BY <1>4, <2>2 DEF Built
  <2>5. OfJob(Current) \in Pieces
    BY <2>3 DEF Pieces
  <2>6. Current.id \in 0..calls
    BY <2>5 DEF PiecesInv, OfJob, Piece
  <2>7. AskedHead(Current.id, log)
    BY <1>2, <2>4, <2>6, AskedBefore
  <2>8. Current.call.expose
    BY <1>2, <2>3, <2>4, <2>7 DEF ExposeInv
  <2>9. id = Current.id
    BY <2>4
  <2>10. \/ HeadBefore(routes', k)
         \/ \E j \in Elements(st.jobs) : HeadJobFor(j, Current.id, Current.inst, insts[Current.inst].prefix, url)
    BY <1>2, <2>4, <2>8 DEF HeadOf
  <2> HIDE DEF i, id, url
  <2> QED BY <2>2, <2>3, <2>9, <2>10
<1> QED BY <1>3, <1>4

LEMMA InitHead == Init => HeadInv
<1> SUFFICES ASSUME Init PROVE HeadInv
  OBVIOUS
<1> DEFINE f == [Frame(1, "body") EXCEPT !.jobs = <<DefaultJob>>]
<1>1. f.jobs = <<DefaultJob>>
  BY DEF Frame
<1>2. frames = <<f>> /\ DOMAIN routes = {} /\ DOMAIN log = {} /\ phase = "loading"
  <2>1. routes = <<>> /\ log = <<>>
    BY DEF Init
  <2> QED BY <2>1 DEF Init
<1> HIDE DEF f
<1>3. JobsOf(frames) = {DefaultJob}
  <2>1. \A e : Elements(<<e>>) = {e}
    BY DEF Elements
  <2> QED BY <1>1, <1>2, <2>1 DEF JobsOf
<1>4. DefaultJob.call.op # "route"
  BY DEF DefaultJob, RouteJob, DefaultNotFound
<1>5. RouteJobs = {} /\ Pieces = {}
  BY <1>2, <1>3, <1>4 DEF RouteJobs, Pieces
<1> QED BY <1>2, <1>5 DEF HeadInv, PiecesInv, ExposeInv, IdleJobs

LEMMA HeadInductive == Spec => [](InheritIInv /\ HeadInv /\ ErrorsReported)
<1>1. Shape /\ HeadInv /\ [Next]_vars => HeadInv'
  <2> SUFFICES ASSUME Shape, HeadInv, [Next]_vars PROVE HeadInv'
    OBVIOUS
  <2>1. PiecesInv' /\ ExposeInv' /\ IdleJobs'
    BY NextPieces, NextExpose, NextIdleJobs DEF HeadInv
  <2>2. ~Failed' => \A k \in DOMAIN routes' : Headed(k)'
    BY NextHeaded DEF HeadInv
  <2> QED BY <2>1, <2>2 DEF HeadInv
<1>2. InheritIInv => Shape
  BY DEF InheritIInv
<1> QED BY <1>1, <1>2, InitHead, InheritInductive, ErrorsAreReported, PTL DEF Spec

(* When no boot error was taken, every GET route that asked for it has a   *)
(* HEAD route with its url that ends its onSend hooks with the one that    *)
(* drops the body, unless the router found a HEAD route for that url among *)
(* those added before it (lib/route.js exposeHeadRoute and headRouteExists,*)
(* lib/headRoute.js).                                                      *)
THEOREM HeadRouteForEveryGet == Spec => []HeadForEveryGet
<1>1. ASSUME InheritIInv, HeadInv, ErrorsReported
      PROVE  HeadForEveryGet
  <2> SUFFICES ASSUME Ready, Clean, NEW k \in DOMAIN routes,
                      routes[k].method = "GET", Asked("route", "expose", routes[k].id),
                      ~EndsWithSlash(insts[routes[k].inst].prefix)
               PROVE  \/ \E n \in 1..(k - 1) : IsHead(n) /\ MatchesUrl(routes[n].url, routes[k].url)
                      \/ \E n \in DOMAIN routes :
                           /\ IsHead(n) /\ routes[n].url = routes[k].url /\ routes[n].id = routes[k].id
                           /\ Last(routes[n].hooks["onSend"]) = HeadRouteOnSendHandler
    BY DEF HeadForEveryGet
  <2>1. ~Failed
    BY <1>1, CleanIs DEF ErrorsReported, Told, Failed, Untaken
  <2>2. RouteJobs = {}
    BY <1>1 DEF HeadInv, IdleJobs, Ready, RouteJobs
  <2>3. AskedHead(routes[k].id, log)
    BY DEF Asked, Took, AskedHead
  <2>4. HeadBefore(routes, k) \/ HeadThere(routes, routes[k].id, routes[k].url)
    BY <1>1, <2>1, <2>2, <2>3 DEF HeadInv, Headed
  <2>5. CASE HeadBefore(routes, k)
    <3>1. PICK n \in DOMAIN routes :
            n < k /\ routes[n].method = "HEAD" /\ MatchesUrl(routes[n].url, routes[k].url)
      BY <2>5 DEF HeadBefore
    <3>2. DOMAIN routes = 1..Len(routes) /\ Len(routes) \in Nat
      BY <1>1, ListedIs DEF InheritIInv, Shape, Registry
    <3>3. n \in 1..(k - 1)
      BY <3>1, <3>2
    <3> QED BY <3>1, <3>3 DEF IsHead
  <2>6. CASE HeadThere(routes, routes[k].id, routes[k].url)
    <3>1. PICK n \in DOMAIN routes :
            routes[n].method = "HEAD" /\ routes[n].url = routes[k].url /\ routes[n].id = routes[k].id
      BY <2>6 DEF HeadThere
    <3>2. OfRoute(routes[n]) \in Pieces /\ OfRoute(routes[k]) \in Pieces
      BY DEF Pieces
    <3>3. DropsBody(routes[n].own)
      BY <1>1, <3>1, <3>2 DEF HeadInv, PiecesInv, OfRoute, Piece
    <3>4. PICK p, q : p = insts[routes[n].inst].hooks["onSend"] /\ q = routes[n].own["onSend"]
      OBVIOUS
    <3>5. Listed(q) /\ q # <<>> /\ q[Len(q)] = HeadRouteOnSendHandler
      BY <3>3, <3>4 DEF DropsBody, OwnOn
    <3>6. Listed(p)
      BY <1>1, <3>4, HooksAssumption DEF InheritIInv, Shape, Registry, HooksInv, HooksOf, HookNames
    <3>7. routes[n].hooks["onSend"] = p \o q
      BY <1>1, <3>4, HooksAssumption DEF InheritIInv, Finishing, RouteDone, HooksDone, Ready
    <3>8. Last(routes[n].hooks["onSend"]) = HeadRouteOnSendHandler
      BY <3>5, <3>6, <3>7, LastJoined DEF Last
    <3> QED BY <3>1, <3>8 DEF IsHead
  <2> QED BY <2>4, <2>5, <2>6
<1> QED BY <1>1, HeadInductive, PTL
=============================================================================
