---------------------------- MODULE ServerProofs ----------------------------
(***************************************************************************)
(* Proofs about Server, for any number of calls and of onReady hooks, with *)
(* or without racing listens: types, and that close comes last.            *)
(***************************************************************************)
EXTENDS Server, TLAPS

(* The elements of a sequence.                                             *)
Elements(q) == {q[i] : i \in 1..Len(q)}

LEMMA AppendElements ==
  ASSUME NEW S, NEW q \in Seq(S), NEW x \in S
  PROVE  /\ Append(q, x) \in Seq(S) /\ Append(q, x) # <<>>
         /\ Elements(Append(q, x)) = Elements(q) \cup {x}
         /\ Append(q, x)[Len(Append(q, x))] = x
         /\ q # <<>> => Head(Append(q, x)) = Head(q) /\ Tail(Append(q, x)) = Append(Tail(q), x)
         /\ q = <<>> => Head(Append(q, x)) = x /\ Tail(Append(q, x)) = <<>>
  BY DEF Elements

LEMMA ConcatElements ==
  ASSUME NEW S, NEW q \in Seq(S), NEW r \in Seq(S)
  PROVE  /\ q \o r \in Seq(S)
         /\ Elements(q \o r) = Elements(q) \cup Elements(r)
         /\ q # <<>> => q \o r # <<>> /\ Head(q \o r) = Head(q)
<1>1. q \o r \in Seq(S) /\ Len(q \o r) = Len(q) + Len(r)
  OBVIOUS
<1>2. ASSUME NEW x \in Elements(q \o r)
      PROVE  x \in Elements(q) \cup Elements(r)
  <2>1. PICK i \in 1..Len(q \o r) : x = (q \o r)[i]
    BY <1>2 DEF Elements
  <2>2. CASE i <= Len(q)
    BY <1>1, <2>1, <2>2 DEF Elements
  <2>3. CASE i > Len(q)
    <3>1. i - Len(q) \in 1..Len(r) /\ x = r[i - Len(q)]
      BY <1>1, <2>1, <2>3
    <3> QED BY <3>1 DEF Elements
  <2> QED BY <1>1, <2>2, <2>3
<1>3. Elements(q) \subseteq Elements(q \o r)
  BY <1>1 DEF Elements
<1>4. ASSUME NEW x \in Elements(r)
      PROVE  x \in Elements(q \o r)
  <2>1. PICK i \in 1..Len(r) : x = r[i]
    BY <1>4 DEF Elements
  <2>2. Len(q) + i \in 1..Len(q \o r) /\ (q \o r)[Len(q) + i] = x
    BY <1>1, <2>1
  <2> QED BY <2>2 DEF Elements
<1>5. q # <<>> => q \o r # <<>> /\ Head(q \o r) = Head(q)
  OBVIOUS
<1> QED BY <1>1, <1>2, <1>3, <1>4, <1>5

LEMMA PutFirst ==
  ASSUME NEW S, NEW x \in S, NEW q \in Seq(S)
  PROVE  /\ <<x>> \o q \in Seq(S) /\ <<x>> \o q # <<>>
         /\ Head(<<x>> \o q) = x /\ Tail(<<x>> \o q) = q
         /\ Elements(<<x>> \o q) = {x} \cup Elements(q)
<1>1. <<x>> \in Seq(S) /\ <<x>> # <<>> /\ Head(<<x>>) = x /\ Elements(<<x>>) = {x}
  BY DEF Elements
<1> DEFINE one == <<x>>
<1>2. one \in Seq(S) /\ one # <<>> /\ Head(one) = x /\ Elements(one) = {x}
  BY <1>1
<1>3. Tail(one \o q) = q
  OBVIOUS
<1> HIDE DEF one
<1>4. /\ one \o q \in Seq(S) /\ one \o q # <<>> /\ Head(one \o q) = x
      /\ Elements(one \o q) = {x} \cup Elements(q)
  BY <1>2, ConcatElements
<1> QED BY <1>3, <1>4 DEF one

LEMMA TailElements ==
  ASSUME NEW S, NEW q \in Seq(S), q # <<>>
  PROVE  /\ Head(q) \in S /\ Head(q) \in Elements(q)
         /\ Tail(q) \in Seq(S) /\ Elements(Tail(q)) \subseteq Elements(q)
         /\ Elements(q) = {Head(q)} \cup Elements(Tail(q))
         /\ q[Len(q)] \in S
         /\ Tail(q) # <<>> => Tail(q)[Len(Tail(q))] = q[Len(q)]
<1>1. /\ Len(q) \in Nat /\ Len(q) >= 1 /\ Head(q) = q[1] /\ Head(q) \in S
      /\ Tail(q) \in Seq(S) /\ Len(Tail(q)) = Len(q) - 1
      /\ \A i \in 1..(Len(q) - 1) : Tail(q)[i] = q[i + 1]
  OBVIOUS
<1>2. Head(q) \in Elements(q)
  BY <1>1 DEF Elements
<1>3. Elements(Tail(q)) \subseteq Elements(q)
  BY <1>1 DEF Elements
<1>4. ASSUME NEW x \in Elements(q)
      PROVE  x = Head(q) \/ x \in Elements(Tail(q))
  <2>1. PICK i \in 1..Len(q) : x = q[i]
    BY <1>4 DEF Elements
  <2>2. CASE i = 1
    BY <1>1, <2>1, <2>2
  <2>3. CASE i # 1
    <3>1. i - 1 \in 1..Len(Tail(q)) /\ Tail(q)[i - 1] = x
      BY <1>1, <2>1, <2>3
    <3> QED BY <3>1 DEF Elements
  <2> QED BY <2>2, <2>3
<1>5. q[Len(q)] \in S
  BY <1>1
<1>6. Tail(q) # <<>> => Tail(q)[Len(Tail(q))] = q[Len(q)]
  <2> SUFFICES ASSUME Tail(q) # <<>> PROVE Tail(q)[Len(Tail(q))] = q[Len(q)]
    OBVIOUS
  <2>1. Len(Tail(q)) \in 1..(Len(q) - 1)
    BY <1>1
  <2> QED BY <1>1, <2>1
<1> QED BY <1>1, <1>2, <1>3, <1>4, <1>5, <1>6

(* Ticks of a kind, and that there is at most one of it.                   *)
Has(q, k) == \E t \in Elements(q) : t.k = k
Once(q, k) == \A i, j \in 1..Len(q) : q[i].k = k /\ q[j].k = k => i = j

LEMMA OnceAppend ==
  ASSUME NEW q \in Seq(Ticks), NEW t \in Ticks, NEW k, Once(q, k), t.k # k \/ ~Has(q, k)
  PROVE  Once(Append(q, t), k)
<1>1. /\ Len(q) \in Nat /\ Len(Append(q, t)) = Len(q) + 1
      /\ \A i \in 1..Len(q) : Append(q, t)[i] = q[i]
      /\ Append(q, t)[Len(q) + 1] = t
  OBVIOUS
<1>2. CASE t.k # k
  BY <1>1, <1>2 DEF Once
<1>3. CASE ~Has(q, k)
  <2>1. \A i \in 1..Len(q) : q[i].k # k
    BY <1>3 DEF Has, Elements
  <2> QED BY <1>1, <2>1 DEF Once
<1> QED BY <1>2, <1>3

LEMMA OnceTail ==
  ASSUME NEW q \in Seq(Ticks), q # <<>>, NEW k, Once(q, k)
  PROVE  /\ Once(Tail(q), k)
         /\ Head(q).k = k => ~Has(Tail(q), k)
<1>1. /\ Len(q) \in Nat /\ Len(q) >= 1 /\ Head(q) = q[1]
      /\ Len(Tail(q)) = Len(q) - 1
      /\ \A i \in 1..(Len(q) - 1) : Tail(q)[i] = q[i + 1]
  OBVIOUS
<1>2. Once(Tail(q), k)
  <2> SUFFICES ASSUME NEW i \in 1..(Len(q) - 1), NEW j \in 1..(Len(q) - 1),
                      q[i + 1].k = k, q[j + 1].k = k
               PROVE  i = j
    BY <1>1 DEF Once
  <2>1. i + 1 \in 1..Len(q) /\ j + 1 \in 1..Len(q)
    BY <1>1
  <2>2. i + 1 = j + 1
    BY <2>1 DEF Once
  <2> QED BY <1>1, <2>2
<1>3. ASSUME Head(q).k = k, Has(Tail(q), k)
      PROVE  FALSE
  <2>1. PICK i \in 1..(Len(q) - 1) : q[i + 1].k = k
    BY <1>1, <1>3 DEF Has, Elements
  <2>2. 1 \in 1..Len(q) /\ i + 1 \in 1..Len(q)
    BY <1>1
  <2>3. 1 = i + 1
    BY <1>1, <1>3, <2>1, <2>2 DEF Once
  <2> QED BY <1>1, <2>3
<1> QED BY <1>2, <1>3
-----------------------------------------------------------------------------
(* The calls.                                                              *)

CallsType == call \in [Callers -> [kind : Kinds, at : Stages]]

(* What the answer of one call does to the calls.                          *)
LEMMA ToStage ==
  ASSUME CallsType, NEW c \in Callers, NEW stage \in Stages, To(c, stage)
  PROVE  /\ CallsType'
         /\ \A d \in Callers : call'[d].kind = call[d].kind
         /\ \A d \in Callers \ {c} : call'[d].at = call[d].at
         /\ call'[c].at = stage
  BY DEF To, CallsType

LEMMA ReportStage ==
  ASSUME CallsType, NEW waiting, NEW stage \in Stages, Report(waiting, stage)
  PROVE  /\ CallsType'
         /\ \A d \in Callers : call'[d].kind = call[d].kind
         /\ \A d \in Callers : call'[d].at = IF d \in waiting THEN stage ELSE call[d].at
<1>1. \A d \in Callers :
        /\ call'[d] = IF d \in waiting THEN [call[d] EXCEPT !.at = stage] ELSE call[d]
        /\ call[d] \in [kind : Kinds, at : Stages]
        /\ [call[d] EXCEPT !.at = stage] \in [kind : Kinds, at : Stages]
        /\ [call[d] EXCEPT !.at = stage].kind = call[d].kind
        /\ [call[d] EXCEPT !.at = stage].at = stage
  BY DEF Report, CallsType
<1>2. call' = [d \in Callers |-> call'[d]]
  BY DEF Report
<1> QED BY <1>1, <1>2 DEF CallsType

(* Items and ticks.                                                        *)
LEMMA ItemType ==
  ASSUME NEW c \in Callers
  PROVE  /\ \A k \in {"boot", "hook", "exit", "close"} :
              Item(k, c) \in Items /\ Item(k, c).k = k /\ Item(k, c).c = c
         /\ \A k \in {"runHooks", "resume", "release", "serve", "closed", "bound", "broken"} :
              Item(k, c) \in Ticks /\ Item(k, c).k = k /\ Item(k, c).c = c
  BY DEF Item, Items, Ticks

LEMMA HooksThenExitType ==
  ASSUME NEW c \in Callers
  PROVE  /\ HooksThenExit(c) \in Seq(Items)
         /\ \A r \in Elements(HooksThenExit(c)) : r.k # "close"
<1> DEFINE hooks == [i \in 1 .. OnReadyHooks |-> Item("hook", c)]
<1>1. /\ hooks \in Seq(Items) /\ Len(hooks) = OnReadyHooks
      /\ \A r \in Elements(hooks) : r.k # "close"
  BY ItemType, ServerAssumption DEF Elements
<1>2. <<Item("exit", c)>> \in Seq(Items) /\ \A r \in Elements(<<Item("exit", c)>>) : r.k # "close"
  BY ItemType DEF Elements
<1>3. HooksThenExit(c) = hooks \o <<Item("exit", c)>>
  BY DEF HooksThenExit
<1> DEFINE exit == <<Item("exit", c)>>
<1>4. hooks \in Seq(Items) /\ exit \in Seq(Items)
  BY <1>1, <1>2
<1> HIDE DEF hooks, exit
<1>5. hooks \o exit \in Seq(Items) /\ Elements(hooks \o exit) = Elements(hooks) \cup Elements(exit)
  BY <1>4, ConcatElements
<1>6. HooksThenExit(c) = hooks \o exit
  BY <1>3 DEF hooks, exit
<1>7. \A r \in Elements(hooks) \cup Elements(exit) : r.k # "close"
  BY <1>1, <1>2 DEF hooks, exit
<1> QED BY <1>5, <1>6, <1>7

(* A step takes a tick off, adds one that is not of kind k, or neither.    *)
NoMore(k) ==
  \/ ticks' = ticks
  \/ ticks # <<>> /\ ticks' = Tail(ticks)
  \/ \E t \in Ticks : t.k # k /\ ticks' = Append(ticks, t)

LEMMA NoMoreTicks ==
  ASSUME ticks \in Seq(Ticks), NEW k, NoMore(k)
  PROVE  /\ ticks' \in Seq(Ticks)
         /\ Has(ticks', k) => Has(ticks, k)
         /\ Once(ticks, k) => Once(ticks', k)
<1>1. CASE ticks' = ticks
  BY <1>1
<1>2. CASE ticks # <<>> /\ ticks' = Tail(ticks)
  BY <1>2, TailElements, OnceTail DEF Has
<1>3. CASE \E t \in Ticks : t.k # k /\ ticks' = Append(ticks, t)
  <2>1. PICK t \in Ticks : t.k # k /\ ticks' = Append(ticks, t)
    BY <1>3
  <2>2. Elements(ticks') = Elements(ticks) \cup {t} /\ ticks' \in Seq(Ticks)
    BY <2>1, AppendElements
  <2>3. Has(ticks', k) => Has(ticks, k)
    BY <2>1, <2>2 DEF Has
  <2>4. Once(ticks, k) => Once(ticks', k)
    BY <2>1, OnceAppend
  <2> QED BY <2>2, <2>3, <2>4
<1> QED BY <1>1, <1>2, <1>3 DEF NoMore
-----------------------------------------------------------------------------
(* The inductive invariant.                                                *)

(* A function that runs is at the head of avvio's queue; the one that      *)
(* waits to be released is a close.                                        *)
Flowing ==
  /\ running # "no" => readyQ # <<>> /\ boot = "flowing"
  /\ Has(ticks, "release") => running = "waits" /\ readyQ # <<>> /\ Head(readyQ).k = "close"
  /\ Once(ticks, "release")

(* The function that closes the server is the first of closeQ until it     *)
(* has run; closeQ rests until somebody calls close.                       *)
Resting == closeAt = "paused" /\ ~Has(ticks, "resume")
Ordered ==
  /\ boot # "flowing" => Resting /\ closeQ = <<"hook">> /\ ~closing
  /\ boot = "flowing" /\ ~closing =>
       closeQ # <<>> /\ Head(closeQ) = "server" /\ "server" \notin Elements(Tail(closeQ))
  /\ closing => "server" \notin Elements(closeQ)
  /\ Resting \/ closeQ = <<>> \/ closeQ[Len(closeQ)] \in Callers

(* While the server is shutting, closeQ waits for it and for nothing else. *)
Shutting ==
  /\ closeAt \in OnClose => closing
  /\ server = "shutting" => closing /\ closeAt = "server" /\ ~Has(ticks, "closed")
  /\ Has(ticks, "closed") => closeAt = "server"
  /\ Once(ticks, "closed")
  /\ \A c \in Callers : call[c].kind = "close" /\ call[c].at = "done" =>
       closing /\ server # "shutting"

(* What is queued for a call is queued for a call of its kind.             *)
Kinded ==
  /\ \A c \in Callers : call[c].at = "binding" => call[c].kind \in {"listen", "listenPromise"}
  /\ \A t \in Elements(ticks) : t.k = "serve" => call[t.c].kind = "inject"
  /\ \A c \in Elements(micros) : call[c].kind = "listenPromise"
  /\ \A r \in Elements(readyQ) : r.k = "close" => call[r.c].kind = "close"
  /\ \A c \in Elements(closeQ) \cap Callers : call[c].kind = "close"

IInv == TypeOK /\ Flowing /\ Ordered /\ Shutting /\ Kinded
-----------------------------------------------------------------------------
(* The effect of an answer, for all that gives one.                        *)

Listens == {"listen", "listenPromise"}

(* No call of close or inject ends, and only a listen binds.               *)
CallsKept ==
  /\ CallsType'
  /\ \A d \in Callers : call'[d].kind = call[d].kind
  /\ \A d \in Callers : call'[d].at = "binding" => call[d].at = "binding" \/ call[d].kind \in Listens
  /\ \A d \in Callers : call'[d].at = "done" => call[d].at = "done" \/ call[d].kind \notin {"close", "inject"}

(* Nothing becomes of the ticks but that the first is taken off, or one    *)
(* is added that is none of avvio's.                                       *)
PlainTick(t) ==
  t.k \in {"runHooks", "bound", "broken"} \/ (t.k = "serve" /\ call[t.c].kind = "inject")
TicksKept ==
  \/ ticks' = ticks
  \/ ticks # <<>> /\ ticks' = Tail(ticks)
  \/ \E t \in Ticks : PlainTick(t) /\ ticks' = Append(ticks, t)
ServerKept ==
  /\ server' \in {server, "open"}
  /\ listening' \in BOOLEAN /\ lookups' \in Nat

LEMMA TicksKeptType ==
  ASSUME ticks \in Seq(Ticks), TicksKept
  PROVE  /\ ticks' \in Seq(Ticks)
         /\ NoMore("release") /\ NoMore("resume") /\ NoMore("closed")
         /\ \A t \in Elements(ticks') : t.k = "serve" => t \in Elements(ticks) \/ call[t.c].kind = "inject"
<1>1. NoMore("release") /\ NoMore("resume") /\ NoMore("closed")
  BY DEF NoMore, TicksKept, PlainTick
<1>2. CASE ticks' = ticks
  BY <1>1, <1>2
<1>3. CASE ticks # <<>> /\ ticks' = Tail(ticks)
  BY <1>1, <1>3, TailElements
<1>4. CASE \E t \in Ticks : PlainTick(t) /\ ticks' = Append(ticks, t)
  <2>1. PICK t \in Ticks : PlainTick(t) /\ ticks' = Append(ticks, t)
    BY <1>4
  <2>2. Elements(ticks') = Elements(ticks) \cup {t} /\ ticks' \in Seq(Ticks)
    BY <2>1, AppendElements
  <2> QED BY <1>1, <2>1, <2>2 DEF PlainTick
<1> QED BY <1>2, <1>3, <1>4 DEF TicksKept

LEMMA ToKept ==
  ASSUME TypeOK, NEW c \in Callers, NEW stage \in Stages, To(c, stage),
         stage = "binding" => call[c].kind \in Listens,
         stage = "done" => call[c].kind \notin {"close", "inject"}
  PROVE  CallsKept
  BY ToStage DEF CallsKept, TypeOK, CallsType

LEMMA AppendPlain ==
  ASSUME NEW c \in Callers, NEW k \in {"runHooks", "bound", "broken"},
         ticks' = Append(ticks, Item(k, c))
  PROVE  TicksKept
<1>1. Item(k, c) \in Ticks /\ Item(k, c).k = k
  BY ItemType
<1> QED BY <1>1 DEF TicksKept, PlainTick

LEMMA ServeKept ==
  ASSUME TypeOK, NEW c \in Callers, Serve(c), call[c].kind = "inject"
  PROVE  CallsKept /\ TicksKept
<1>1. Item("serve", c) \in Ticks /\ Item("serve", c).k = "serve" /\ Item("serve", c).c = c
  BY ItemType
<1>2. TicksKept
  BY <1>1 DEF TicksKept, PlainTick, Serve
<1> QED BY <1>2, ToKept DEF Serve, Stages

LEMMA OpenKept ==
  ASSUME TypeOK, NEW c \in Callers, Open(c)
  PROVE  TicksKept /\ server' \in {server, "open"}
  BY AppendPlain DEF Open

LEMMA BindKept ==
  ASSUME TypeOK, NEW c \in Callers, call[c].kind \in Listens, Bind(c)
  PROVE  CallsKept /\ TicksKept /\ ServerKept
<1>1. CASE HasHandle
  BY <1>1, ToKept DEF Bind, Stages, Ends, TicksKept, ServerKept, TypeOK
<1>2. CASE ~HasHandle
  <2>1. CallsKept
    BY <1>2, ToKept DEF Bind, Stages
  <2>2. CASE Open(c) /\ UNCHANGED lookups
    BY <1>2, <2>1, <2>2, OpenKept DEF Bind, ServerKept, TypeOK
  <2>3. CASE lookups' = lookups + 1 /\ UNCHANGED <<server, ticks>>
    <3>1. lookups' \in Nat /\ listening' = TRUE
      BY <1>2, <2>3 DEF Bind, TypeOK
    <3> QED BY <2>1, <2>3, <3>1 DEF ServerKept, TicksKept
  <2> QED BY <1>2, <2>2, <2>3 DEF Bind
<1> QED BY <1>1, <1>2

LEMMA AnswerKept ==
  ASSUME TypeOK, NEW c \in Callers, Answer(c)
  PROVE  /\ CallsKept /\ TicksKept /\ ServerKept
         /\ micros' = micros \/ (micros' = Append(micros, c) /\ call[c].kind = "listenPromise")
<1> USE DEF Stages, Ends
<1>1. CASE bootErr
  BY <1>1, ToKept DEF Answer, TicksKept, ServerKept, TypeOK
<1>2. CASE ~bootErr /\ call[c].kind = "ready"
  BY <1>2, ToKept DEF Answer, TicksKept, ServerKept, TypeOK
<1>3. CASE ~bootErr /\ call[c].kind = "listen"
  <2>1. CASE Bind(c)
    BY <1>3, <2>1, BindKept DEF Answer, Listens
  <2>2. CASE Refuse(c) /\ UNCHANGED <<server, listening, lookups>>
    BY <1>3, <2>2, ToKept DEF Answer, Refuse, TicksKept, ServerKept, TypeOK
  <2> QED BY <1>3, <2>1, <2>2 DEF Answer
<1>4. CASE ~bootErr /\ call[c].kind = "listenPromise"
  BY <1>4, ToKept DEF Answer, TicksKept, ServerKept, TypeOK
<1>5. CASE ~bootErr /\ call[c].kind = "inject"
  BY <1>5, ServeKept DEF Answer, ServerKept, TypeOK
<1> QED BY <1>1, <1>2, <1>3, <1>4, <1>5 DEF Answer
-----------------------------------------------------------------------------
(* Steps that leave closeQ alone.                                          *)

LEMMA FlowStays ==
  ASSUME IInv, TicksKept, running' = running,
         readyQ' = readyQ \/ \E r \in Items : readyQ' = Append(readyQ, r),
         boot' = boot \/ boot # "flowing"
  PROVE  Flowing'
<1>1. ticks \in Seq(Ticks) /\ readyQ \in Seq(Items)
  BY DEF IInv, TypeOK
<1>2. readyQ # <<>> => readyQ' # <<>> /\ Head(readyQ') = Head(readyQ)
  BY <1>1, AppendElements
<1>3. NoMore("release")
  BY <1>1, TicksKeptType
<1> QED BY <1>1, <1>2, <1>3, NoMoreTicks DEF IInv, Flowing

LEMMA FlowTurns ==
  ASSUME IInv, TicksKept, running # "waits" \/ Head(readyQ).k = "hook",
         running' # "no" => readyQ' # <<>> /\ boot' = "flowing"
  PROVE  Flowing'
<1>1. ticks \in Seq(Ticks)
  BY DEF IInv, TypeOK
<1>2. ~Has(ticks, "release")
  BY DEF IInv, Flowing
<1>3. NoMore("release")
  BY <1>1, TicksKeptType
<1> QED BY <1>1, <1>2, <1>3, NoMoreTicks DEF IInv, Flowing

(* What the queues of calls get.                                           *)
QueuesKept ==
  /\ \A r \in Elements(readyQ') : r.k = "close" => r \in Elements(readyQ) \/ call[r.c].kind = "close"
  /\ \A c \in Elements(micros') : c \in Elements(micros) \/ call[c].kind = "listenPromise"

Quiet ==
  /\ CallsKept /\ TicksKept /\ QueuesKept
  /\ server' \in {server, "open"}
  /\ UNCHANGED <<closeQ, closeAt, closing>>
  /\ boot' = boot \/ (boot = "idle" /\ boot' = "loading")

LEMMA SameCalls ==
  ASSUME TypeOK, UNCHANGED call
  PROVE  CallsKept
  BY DEF CallsKept, CallsType, TypeOK

LEMMA InQueue ==
  ASSUME NEW S, NEW q \in Seq(S), NEW x \in Elements(q)
  PROVE  x \in S
  BY DEF Elements

LEMMA QueuedCallers ==
  /\ \A q \in Seq(Ticks) : \A t \in Elements(q) : t.c \in Callers
  /\ \A q \in Seq(Items) : \A r \in Elements(q) : r.c \in Callers
  /\ \A q \in Seq(Callers) : \A c \in Elements(q) : c \in Callers
<1>1. /\ \A t \in Ticks : t.c \in Callers
      /\ \A r \in Items : r.c \in Callers
  BY DEF Ticks, Items
<1> QED BY <1>1, InQueue

(* The parts of the invariant about the calls in the queues.               *)
LEMMA KindedStays ==
  ASSUME IInv, TypeOK', CallsType',
         \A d \in Callers : call'[d].kind = call[d].kind,
         \A d \in Callers : call'[d].at = "binding" => call[d].at = "binding" \/ call[d].kind \in Listens,
         QueuesKept,
         \A t \in Elements(ticks') : t.k = "serve" => t \in Elements(ticks) \/ call[t.c].kind = "inject",
         \A c \in Elements(closeQ') \cap Callers : c \in Elements(closeQ) \/ call[c].kind = "close"
  PROVE  Kinded'
<1>1. /\ \A t \in Elements(ticks') : t.c \in Callers
      /\ \A r \in Elements(readyQ') : r.c \in Callers
      /\ \A c \in Elements(micros') : c \in Callers
  <2>1. ticks' \in Seq(Ticks) /\ readyQ' \in Seq(Items) /\ micros' \in Seq(Callers)
    BY DEF TypeOK
  <2> QED BY <2>1, QueuedCallers
<1>2. \A t \in Elements(ticks') : t.k = "serve" => call'[t.c].kind = "inject"
  BY <1>1 DEF IInv, Kinded
<1>3. \A c \in Elements(micros') : call'[c].kind = "listenPromise"
  BY <1>1 DEF IInv, Kinded, QueuesKept
<1>4. \A r \in Elements(readyQ') : r.k = "close" => call'[r.c].kind = "close"
  BY <1>1 DEF IInv, Kinded, QueuesKept
<1>5. \A c \in Elements(closeQ') \cap Callers : call'[c].kind = "close"
  BY DEF IInv, Kinded
<1>6. \A c \in Callers : call'[c].at = "binding" => call'[c].kind \in {"listen", "listenPromise"}
  BY DEF IInv, Kinded, Listens
<1> QED BY <1>2, <1>3, <1>4, <1>5, <1>6 DEF Kinded

LEMMA QuietKeeps ==
  ASSUME IInv, TypeOK', Flowing', Quiet
  PROVE  IInv' /\ CallsKept
<1>1. ticks \in Seq(Ticks)
  BY DEF IInv, TypeOK
<1>2. /\ Has(ticks', "resume") => Has(ticks, "resume")
      /\ Has(ticks', "closed") => Has(ticks, "closed")
      /\ Once(ticks, "closed") => Once(ticks', "closed")
  BY <1>1, TicksKeptType, NoMoreTicks DEF Quiet
<1>3. Ordered'
  <2>1. Resting => Resting'
    BY <1>2 DEF Quiet, Resting
  <2> QED BY <2>1 DEF IInv, Ordered, Quiet
<1>4. Shutting'
  <2>1. \A c \in Callers : call'[c].kind = "close" /\ call'[c].at = "done" =>
          call[c].kind = "close" /\ call[c].at = "done"
    BY DEF Quiet, CallsKept
  <2>2. server' = "shutting" => server = "shutting"
    BY DEF Quiet
  <2> QED BY <1>2, <2>1, <2>2 DEF IInv, Shutting, Quiet
<1>5. Kinded'
  BY <1>1, TicksKeptType, KindedStays DEF Quiet, CallsKept
<1> QED BY <1>3, <1>4, <1>5 DEF IInv, Quiet
-----------------------------------------------------------------------------
(* The steps of callers and of avvio's ready, one lemma each.              *)

LEMMA KeptType ==
  ASSUME TypeOK, CallsKept, TicksKept,
         server' \in {server, "open"}, UNCHANGED <<closeQ, closeAt, closing>>
  PROVE  /\ call' \in [Callers -> [kind : Kinds, at : Stages]]
         /\ ticks' \in Seq(Ticks)
         /\ server' \in ServerStates
         /\ closeQ' \in Seq(OnClose \cup Callers)
         /\ closeAt' \in {"paused", "flowing"} \cup OnClose
         /\ closing' \in BOOLEAN
<1>1. CallsType' /\ ticks' \in Seq(Ticks)
  BY TicksKeptType DEF TypeOK, CallsKept
<1> QED BY <1>1 DEF TypeOK, CallsType, ServerStates

LEMMA WaitKept ==
  ASSUME TypeOK, NEW c \in Callers, WaitForReady(c)
  PROVE  CallsKept /\ TicksKept
  BY ToKept, AppendPlain DEF WaitForReady, Stages

LEMMA SameQueues ==
  ASSUME UNCHANGED <<readyQ, micros>>
  PROVE  QueuesKept
  BY DEF QueuesKept

(* The application's calls.                                                *)
LEMMA CallReadyKeeps ==
  ASSUME IInv, NEW c \in Callers, CallReady(c)
  PROVE  IInv' /\ CallsKept
<1> USE DEF CallReady
<1>1. CallsKept /\ TicksKept
  BY WaitKept DEF IInv
<1>2. UNCHANGED <<boot, readyQ, running, bootErr, closeQ, closeAt, started, listening, closing,
                  server, lookups, micros, ran>>
  BY DEF queue, close, state
<1>3. Quiet
  BY <1>1, <1>2, SameQueues DEF Quiet
<1>4. TypeOK'
  BY <1>1, <1>2, KeptType DEF IInv, TypeOK, Calls
<1>5. Flowing'
  BY <1>1, <1>2, FlowStays
<1> QED BY <1>3, <1>4, <1>5, QuietKeeps

LEMMA CallListenPromiseKeeps ==
  ASSUME IInv, NEW c \in Callers, CallListenPromise(c)
  PROVE  IInv' /\ CallsKept
<1> USE DEF CallListenPromise
<1>1. CallsKept /\ TicksKept
  <2>1. CASE Refuse(c)
    BY <2>1, ToKept DEF IInv, Refuse, Stages, Ends, TicksKept
  <2>2. CASE WaitForReady(c)
    BY <2>2, WaitKept DEF IInv
  <2> QED BY <2>1, <2>2
<1>2. UNCHANGED <<boot, readyQ, running, bootErr, closeQ, closeAt, started, listening, closing,
                  server, lookups, micros, ran>>
  BY DEF queue, close, state
<1>3. Quiet
  BY <1>1, <1>2, SameQueues DEF Quiet
<1>4. TypeOK'
  BY <1>1, <1>2, KeptType DEF IInv, TypeOK, Calls
<1>5. Flowing'
  BY <1>1, <1>2, FlowStays
<1> QED BY <1>3, <1>4, <1>5, QuietKeeps

LEMMA CallInjectKeeps ==
  ASSUME IInv, NEW c \in Callers, CallInject(c)
  PROVE  IInv' /\ CallsKept
<1> USE DEF CallInject
<1>1. CallsKept /\ TicksKept
  <2>1. CASE Refuse(c)
    BY <2>1, ToKept DEF IInv, Refuse, Stages, Ends, TicksKept
  <2>2. CASE WaitForReady(c)
    BY <2>2, WaitKept DEF IInv
  <2>3. CASE Serve(c)
    BY <2>3, ServeKept DEF IInv, Calls
  <2> QED BY <2>1, <2>2, <2>3
<1>2. UNCHANGED <<boot, readyQ, running, bootErr, closeQ, closeAt, started, listening, closing,
                  server, lookups, micros, ran>>
  BY DEF queue, close, state
<1>3. Quiet
  BY <1>1, <1>2, SameQueues DEF Quiet
<1>4. TypeOK'
  BY <1>1, <1>2, KeptType DEF IInv, TypeOK, Calls
<1>5. Flowing'
  BY <1>1, <1>2, FlowStays
<1> QED BY <1>3, <1>4, <1>5, QuietKeeps

LEMMA ItemQueued ==
  ASSUME TypeOK, NEW r \in Items, readyQ' = Append(readyQ, r), UNCHANGED micros,
         r.k = "close" => call[r.c].kind = "close"
  PROVE  readyQ' \in Seq(Items) /\ QueuesKept
<1>1. readyQ \in Seq(Items)
  BY DEF TypeOK
<1>2. readyQ' \in Seq(Items) /\ Elements(readyQ') = Elements(readyQ) \cup {r}
  BY <1>1, AppendElements
<1> QED BY <1>2 DEF QueuesKept

LEMMA CallCloseKeeps ==
  ASSUME IInv, NEW c \in Callers, CallClose(c)
  PROVE  IInv' /\ CallsKept
<1> USE DEF CallClose
<1>1. CallsKept /\ TicksKept
  BY ToKept DEF IInv, Stages, TicksKept
<1>2. UNCHANGED <<running, bootErr, closeQ, closeAt, started, listening, closing,
                  server, lookups, ticks, micros, ran>>
  BY DEF close, state
<1>3. Item("close", c) \in Items /\ Item("close", c).c = c
  BY ItemType
<1>4. readyQ' \in Seq(Items) /\ QueuesKept
  BY <1>2, <1>3, ItemQueued DEF IInv, Calls
<1>5. boot' = boot \/ (boot = "idle" /\ boot' = "loading")
  BY DEF Start
<1>6. Quiet
  BY <1>1, <1>2, <1>4, <1>5 DEF Quiet
<1>7. TypeOK'
  BY <1>1, <1>2, <1>4, <1>5, KeptType DEF IInv, TypeOK, Calls
<1>8. Flowing'
  BY <1>1, <1>2, <1>3, <1>5, FlowStays
<1> QED BY <1>6, <1>7, <1>8, QuietKeeps

(* runHooks.                                                               *)
LEMMA RunHooksKeeps ==
  ASSUME IInv, RunHooks
  PROVE  IInv' /\ CallsKept
<1> USE DEF RunHooks
<1>1. CallsKept /\ TicksKept
  BY SameCalls DEF IInv, TicksKept, TickNext
<1>2. UNCHANGED <<call, running, bootErr, closeQ, closeAt, started, listening, closing,
                  server, lookups, micros, ran>>
  BY DEF close, state
<1>3. Head(ticks) \in Ticks
  BY TailElements DEF IInv, TypeOK, TickNext
<1>4. Item("boot", Head(ticks).c) \in Items /\ Item("boot", Head(ticks).c).k = "boot"
  BY <1>3, ItemType DEF Ticks
<1>5. readyQ' \in Seq(Items) /\ QueuesKept
  BY <1>2, <1>4, ItemQueued DEF IInv
<1>6. boot' = boot \/ (boot = "idle" /\ boot' = "loading")
  BY DEF Start
<1>7. Quiet
  BY <1>1, <1>2, <1>5, <1>6 DEF Quiet
<1>8. TypeOK'
  BY <1>1, <1>2, <1>5, <1>6, KeptType DEF IInv, TypeOK
<1>9. Flowing'
  BY <1>1, <1>2, <1>4, <1>6, FlowStays
<1> QED BY <1>7, <1>8, <1>9, QuietKeeps
(* The functions in avvio's queue.                                         *)
LEMMA HeadItem ==
  ASSUME IInv, readyQ # <<>>
  PROVE  /\ readyQ \in Seq(Items) /\ Head(readyQ) \in Items /\ Head(readyQ) \in Elements(readyQ)
         /\ Current \in Callers
         /\ Tail(readyQ) \in Seq(Items) /\ Elements(Tail(readyQ)) \subseteq Elements(readyQ)
<1>1. readyQ \in Seq(Items)
  BY DEF IInv, TypeOK
<1>2. Head(readyQ) \in Items
  BY <1>1, TailElements
<1> QED BY <1>1, <1>2, TailElements DEF Current, Items

LEMMA MicrosKept ==
  ASSUME TypeOK, NEW c \in Callers,
         micros' = micros \/ (micros' = Append(micros, c) /\ call[c].kind = "listenPromise")
  PROVE  /\ micros' \in Seq(Callers)
         /\ \A d \in Elements(micros') : d \in Elements(micros) \/ call[d].kind = "listenPromise"
<1>1. micros \in Seq(Callers)
  BY DEF TypeOK
<1>2. CASE micros' = micros
  BY <1>1, <1>2
<1>3. CASE micros' = Append(micros, c) /\ call[c].kind = "listenPromise"
  <2>1. micros' \in Seq(Callers) /\ Elements(micros') = Elements(micros) \cup {c}
    BY <1>1, <1>3, AppendElements
  <2> QED BY <1>3, <2>1
<1> QED BY <1>2, <1>3

LEMMA RunBootKeeps ==
  ASSUME IInv, RunBoot
  PROVE  IInv' /\ CallsKept
<1> DEFINE c == Current
<1> USE DEF RunBoot
<1>1. /\ boot = "flowing" /\ running = "no" /\ readyQ # <<>>
      /\ UNCHANGED <<boot, closeQ, closeAt, started, closing, turn, ran>>
      /\ bootErr' = FALSE
  BY DEF Runs, ReadyRuns, close
<1>2. c \in Callers /\ readyQ \in Seq(Items)
  BY <1>1, HeadItem
<1>3. /\ CallsKept /\ TicksKept /\ ServerKept
      /\ micros' = micros \/ (micros' = Append(micros, c) /\ call[c].kind = "listenPromise")
      /\ running' \in {"inside", "returns"}
      /\ readyQ' = readyQ \/ readyQ' = readyQ \o HooksThenExit(c)
  <2>1. CASE AnswerAt(c) /\ UNCHANGED readyQ
    BY <1>2, <2>1, AnswerKept DEF AnswerAt, IInv
  <2>2. CASE /\ readyQ' = readyQ \o HooksThenExit(c) /\ running' = "returns"
             /\ UNCHANGED <<call, server, listening, lookups, ticks, micros>>
    BY <2>2, SameCalls DEF IInv, TypeOK, TicksKept, ServerKept
  <2> QED BY <2>1, <2>2
<1>4. /\ readyQ' \in Seq(Items) /\ readyQ' # <<>>
      /\ \A r \in Elements(readyQ') : r.k = "close" => r \in Elements(readyQ)
  <2>1. CASE readyQ' = readyQ
    BY <1>1, <1>2, <2>1
  <2>2. CASE readyQ' = readyQ \o HooksThenExit(c)
    <3>1. HooksThenExit(c) \in Seq(Items) /\ \A r \in Elements(HooksThenExit(c)) : r.k # "close"
      BY <1>2, HooksThenExitType
    <3>2. /\ readyQ' \in Seq(Items) /\ readyQ' # <<>>
          /\ Elements(readyQ') = Elements(readyQ) \cup Elements(HooksThenExit(c))
      BY <1>1, <1>2, <2>2, <3>1, ConcatElements
    <3> QED BY <3>1, <3>2
  <2> QED BY <1>3, <2>1, <2>2
<1>5. /\ micros' \in Seq(Callers)
      /\ \A d \in Elements(micros') : d \in Elements(micros) \/ call[d].kind = "listenPromise"
  BY <1>2, <1>3, MicrosKept DEF IInv
<1>6. Quiet
  BY <1>1, <1>3, <1>4, <1>5 DEF Quiet, QueuesKept, ServerKept
<1>7. TypeOK'
  BY <1>1, <1>3, <1>4, <1>5, KeptType DEF IInv, TypeOK, ServerKept
<1>8. Flowing'
  BY <1>1, <1>3, <1>4, FlowTurns
<1> QED BY <1>6, <1>7, <1>8, QuietKeeps

LEMMA RunExitKeeps ==
  ASSUME IInv, RunExit
  PROVE  IInv' /\ CallsKept
<1> DEFINE c == Current
<1> USE DEF RunExit
<1>1. /\ boot = "flowing" /\ running = "no" /\ readyQ # <<>>
      /\ UNCHANGED <<boot, readyQ, bootErr, closeQ, closeAt, started, closing, turn, ran>>
  BY DEF Runs, ReadyRuns, close
<1>2. c \in Callers /\ readyQ \in Seq(Items)
  BY <1>1, HeadItem
<1>3. /\ CallsKept /\ TicksKept /\ ServerKept
      /\ micros' = micros \/ (micros' = Append(micros, c) /\ call[c].kind = "listenPromise")
      /\ running' \in {"inside", "returns"}
  BY <1>2, AnswerKept DEF AnswerAt, IInv
<1>4. /\ micros' \in Seq(Callers)
      /\ \A d \in Elements(micros') : d \in Elements(micros) \/ call[d].kind = "listenPromise"
  BY <1>2, <1>3, MicrosKept DEF IInv
<1>5. Quiet
  BY <1>1, <1>3, <1>4 DEF Quiet, QueuesKept, ServerKept
<1>6. TypeOK'
  BY <1>1, <1>2, <1>3, <1>4, KeptType DEF IInv, TypeOK, ServerKept
<1>7. Flowing'
  BY <1>1, <1>3, FlowTurns
<1> QED BY <1>5, <1>6, <1>7, QuietKeeps

LEMMA HookKeeps ==
  ASSUME IInv, RunHook \/ HookWaits
  PROVE  IInv' /\ CallsKept
<1>1. /\ UNCHANGED <<call, boot, readyQ, bootErr, closeQ, closeAt, started, listening, closing,
                     server, lookups, ticks, micros, turn, ran>>
      /\ running' \in {"inside", "returns", "waits"}
      /\ boot = "flowing" /\ readyQ # <<>>
      /\ running # "waits"
  BY DEF IInv, Flowing, RunHook, HookWaits, HookCalled, Runs, ReadyRuns, close, state, loop
<1>2. CallsKept /\ TicksKept
  BY <1>1, SameCalls DEF IInv, TicksKept
<1>3. Quiet
  BY <1>1, <1>2, SameQueues DEF Quiet
<1>4. TypeOK'
  BY <1>1 DEF IInv, TypeOK
<1>5. Flowing'
  BY <1>1, <1>2, FlowTurns
<1> QED BY <1>3, <1>4, <1>5, QuietKeeps

(* The function at the head is done.                                       *)
LEMMA GoOnKeeps ==
  ASSUME IInv, GoOn, TicksKept, readyQ # <<>>, Flowing',
         bootErr' \in BOOLEAN, UNCHANGED micros, turn' \in {"script", "ticks", "micros"},
         ran' \in 0 .. OnReadyHooks
  PROVE  IInv' /\ CallsKept
<1>1. /\ UNCHANGED <<call, boot, closeQ, closeAt, listening, closing, server, lookups>>
      /\ readyQ' = Tail(readyQ) /\ running' = "no"
      /\ started' \in BOOLEAN
  BY DEF GoOn, close, IInv, TypeOK
<1>2. CallsKept
  BY <1>1, SameCalls DEF IInv
<1>3. readyQ' \in Seq(Items) /\ Elements(readyQ') \subseteq Elements(readyQ)
  BY <1>1, HeadItem
<1>4. Quiet
  BY <1>1, <1>2, <1>3 DEF Quiet, QueuesKept
<1>5. TypeOK'
  BY <1>1, <1>2, <1>3, KeptType DEF IInv, TypeOK
<1> QED BY <1>4, <1>5, QuietKeeps

LEMMA MayFailIsBoolean ==
  ASSUME NEW k
  PROVE  {FALSE, (k \in MayFail)} \subseteq BOOLEAN
<1>1. CASE k \in MayFail
  <2>1. (k \in MayFail) = TRUE
    BY <1>1
  <2> QED BY <2>1
<1>2. CASE ~(k \in MayFail)
  <2>1. (k \in MayFail) = FALSE
    BY <1>2
  <2> QED BY <2>1
<1> QED BY <1>1, <1>2

LEMMA RanType ==
  ASSUME TypeOK, NEW hook, Ran(hook)
  PROVE  ran' \in 0 .. OnReadyHooks
  BY ServerAssumption DEF Ran, TypeOK

LEMMA ReturnKeeps ==
  ASSUME IInv, Return
  PROVE  IInv' /\ CallsKept
<1>1. /\ readyQ # <<>> /\ UNCHANGED <<ticks, micros, turn>> /\ GoOn
      /\ running # "waits" /\ running' = "no"
  BY DEF Return, IInv, Flowing, GoOn, loop
<1>2. TicksKept
  BY <1>1 DEF TicksKept
<1>3. bootErr' \in BOOLEAN
  BY DEF Return, HookCalled, IInv, TypeOK
<1>4. ran' \in 0 .. OnReadyHooks
  BY RanType DEF IInv, Return
<1>5. turn' \in {"script", "ticks", "micros"}
  BY <1>1 DEF IInv, TypeOK
<1>6. Flowing'
  BY <1>1, <1>2, FlowTurns
<1> QED BY <1>1, <1>2, <1>3, <1>4, <1>5, <1>6, GoOnKeeps

LEMMA HookSettlesKeeps ==
  ASSUME IInv, HookSettles
  PROVE  IInv' /\ CallsKept
<1>1. /\ readyQ # <<>> /\ UNCHANGED <<ticks, micros>> /\ GoOn
      /\ Head(readyQ).k = "hook" /\ running' = "no"
      /\ turn' \in {"script", "ticks", "micros"}
  BY DEF HookSettles, IInv, Flowing, GoOn
<1>2. bootErr' \in BOOLEAN
  BY MayFailIsBoolean DEF HookSettles
<1>3. TicksKept
  BY <1>1 DEF TicksKept
<1>4. ran' \in 0 .. OnReadyHooks
  BY RanType DEF IInv, HookSettles
<1>5. Flowing'
  BY <1>1, <1>3, FlowTurns
<1> QED BY <1>1, <1>2, <1>3, <1>4, <1>5, GoOnKeeps

LEMMA ReleaseKeeps ==
  ASSUME IInv, Release
  PROVE  IInv' /\ CallsKept
<1>1. /\ ticks # <<>> /\ Head(ticks).k = "release" /\ ticks' = Tail(ticks) /\ turn' = "ticks"
      /\ UNCHANGED <<bootErr, micros, ran>> /\ GoOn /\ running' = "no"
      /\ ticks \in Seq(Ticks)
  BY DEF Release, TickNext, GoOn, IInv, TypeOK
<1>2. Has(ticks, "release")
  BY <1>1, TailElements DEF Has
<1>3. TicksKept /\ readyQ # <<>>
  BY <1>1, <1>2 DEF TicksKept, IInv, Flowing
<1>4. ~Has(ticks', "release") /\ Once(ticks', "release")
  BY <1>1, OnceTail DEF IInv, Flowing
<1>5. Flowing'
  BY <1>1, <1>4 DEF Flowing
<1>6. bootErr' \in BOOLEAN /\ ran' \in 0 .. OnReadyHooks
  BY <1>1 DEF IInv, TypeOK
<1> QED BY <1>1, <1>3, <1>5, <1>6, GoOnKeeps
(* The raw server.                                                         *)
LEMMA GrantedKeeps ==
  ASSUME IInv, Granted
  PROVE  IInv' /\ CallsKept
<1> DEFINE c == Head(micros)
<1>1. /\ micros # <<>> /\ micros' = Tail(micros) /\ turn' = "micros"
      /\ UNCHANGED <<boot, readyQ, running, bootErr, closeQ, closeAt, started, closing, ran>>
      /\ micros \in Seq(Callers) /\ Bind(c)
  BY DEF Granted, MicroNext, queue, close, IInv, TypeOK
<1>2. /\ c \in Callers /\ c \in Elements(micros)
      /\ micros' \in Seq(Callers) /\ Elements(micros') \subseteq Elements(micros)
  BY <1>1, TailElements
<1>3. CallsKept /\ TicksKept /\ ServerKept
  BY <1>1, <1>2, BindKept DEF IInv, Kinded, Listens
<1>4. Quiet
  BY <1>1, <1>2, <1>3 DEF Quiet, QueuesKept, ServerKept
<1>5. TypeOK'
  BY <1>1, <1>2, <1>3, KeptType DEF IInv, TypeOK, ServerKept
<1>6. Flowing'
  BY <1>1, <1>3, FlowStays
<1> QED BY <1>4, <1>5, <1>6, QuietKeeps

LEMMA LookupDoneKeeps ==
  ASSUME IInv, LookupDone
  PROVE  IInv' /\ CallsKept
<1>1. /\ UNCHANGED <<call, boot, readyQ, running, bootErr, closeQ, closeAt, started, listening,
                     closing, micros, ran>>
      /\ lookups > 0 /\ lookups' = lookups - 1 /\ turn' = "ticks"
  BY DEF LookupDone, LookupPending, queue, close
<1>2. CallsKept
  BY <1>1, SameCalls DEF IInv
<1>3. TicksKept /\ server' \in {server, "open"}
  <2>1. PICK c \in Callers : \/ Open(c)
                             \/ ticks' = Append(ticks, Item("bound", c)) /\ UNCHANGED server
    BY DEF LookupDone
  <2> QED BY <2>1, OpenKept, AppendPlain DEF IInv
<1>4. lookups' \in Nat
  BY <1>1 DEF IInv, TypeOK
<1>5. Quiet
  BY <1>1, <1>2, <1>3, SameQueues DEF Quiet
<1>6. TypeOK'
  BY <1>1, <1>2, <1>3, <1>4, KeptType DEF IInv, TypeOK
<1>7. Flowing'
  BY <1>1, <1>3, FlowStays
<1> QED BY <1>5, <1>6, <1>7, QuietKeeps

(* Only calls of listen wait for the raw server.                           *)
LEMMA ReportKept ==
  ASSUME IInv, NEW waiting \in SUBSET (Binding \cup Unbound), NEW stage \in {"done", "unbound"},
         Report(waiting, stage)
  PROVE  CallsKept
<1>1. \A d \in waiting : d \in Callers => call[d].kind \in Listens
  BY DEF Binding, Unbound, Listens, IInv, Kinded
<1>2. /\ CallsType'
      /\ \A d \in Callers : call'[d].kind = call[d].kind
      /\ \A d \in Callers : call'[d].at = IF d \in waiting THEN stage ELSE call[d].at
  BY ReportStage DEF IInv, TypeOK, CallsType, Stages, Ends
<1> QED BY <1>1, <1>2 DEF CallsKept, Listens

LEMMA ReportedKeeps ==
  ASSUME IInv, Bound \/ Broken
  PROVE  IInv' /\ CallsKept
<1>1. /\ UNCHANGED <<boot, readyQ, running, bootErr, closeQ, closeAt, started, closing,
                     server, lookups, micros, ran>>
      /\ turn' = "script"
      /\ listening' \in BOOLEAN
      /\ ticks # <<>> /\ ticks' = Tail(ticks)
  BY DEF Bound, Broken, TickNext, queue, close, state, IInv, TypeOK
<1>2. TicksKept
  BY <1>1 DEF TicksKept
<1>3. CallsKept
  <2>1. CASE Bound
    BY <2>1, ReportKept, SameCalls DEF Bound, IInv
  <2>2. CASE Broken
    BY <2>2, ReportKept DEF Broken
  <2> QED BY <2>1, <2>2
<1>4. Quiet
  BY <1>1, <1>2, <1>3, SameQueues DEF Quiet
<1>5. TypeOK'
  BY <1>1, <1>2, <1>3, KeptType DEF IInv, TypeOK
<1>6. Flowing'
  BY <1>1, <1>2, FlowStays
<1> QED BY <1>4, <1>5, <1>6, QuietKeeps

-----------------------------------------------------------------------------
(* The steps that end a call of inject or close, or work off closeQ.       *)

(* A step that ends call c, of kind inject, or of close once the server    *)
(* has closed.                                                             *)
LEMMA EndsKeep ==
  ASSUME IInv, NEW c \in Callers, NEW stage \in {"done", "refused"}, To(c, stage),
         TicksKept,
         call[c].kind = "inject" \/ (closing /\ server # "shutting"),
         UNCHANGED <<boot, readyQ, running, bootErr, closeAt, started, listening, closing, server,
                     lookups, micros, ran>>,
         turn' \in {"script", "ticks", "micros"},
         closeQ' = closeQ \/ (boot = "flowing" /\ closing /\ closeQ # <<>> /\ closeQ' = Tail(closeQ))
  PROVE  IInv'
<1>1. /\ CallsType'
      /\ \A d \in Callers : call'[d].kind = call[d].kind
      /\ \A d \in Callers \ {c} : call'[d].at = call[d].at
      /\ call'[c].at = stage
  BY ToStage DEF IInv, TypeOK, CallsType, Stages, Ends
<1>2. /\ ticks \in Seq(Ticks) /\ ticks' \in Seq(Ticks)
      /\ closeQ \in Seq(OnClose \cup Callers)
      /\ readyQ \in Seq(Items) /\ micros \in Seq(Callers)
  BY TicksKeptType DEF IInv, TypeOK
<1>3. /\ closeQ' \in Seq(OnClose \cup Callers) /\ Elements(closeQ') \subseteq Elements(closeQ)
      /\ closeQ' # <<>> => closeQ # <<>> /\ closeQ'[Len(closeQ')] = closeQ[Len(closeQ)]
  <2>1. CASE closeQ' = closeQ
    BY <1>2, <2>1
  <2>2. CASE closeQ # <<>> /\ closeQ' = Tail(closeQ)
    BY <1>2, <2>2, TailElements
  <2> QED BY <2>1, <2>2
<1>4. TypeOK'
  BY <1>1, <1>2, <1>3 DEF IInv, TypeOK, CallsType
<1>5. Flowing'
  BY FlowStays
<1>6. /\ Has(ticks', "resume") => Has(ticks, "resume")
      /\ Has(ticks', "closed") => Has(ticks, "closed")
      /\ Once(ticks, "closed") => Once(ticks', "closed")
  BY <1>2, TicksKeptType, NoMoreTicks
<1>7. Ordered'
  <2>1. Resting => Resting'
    BY <1>6 DEF Resting
  <2> QED BY <1>3, <2>1 DEF IInv, Ordered
<1>8. Shutting'
  <2>1. \A d \in Callers : call'[d].kind = "close" /\ call'[d].at = "done" =>
          closing /\ server # "shutting"
    BY <1>1 DEF IInv, Shutting
  <2> QED BY <1>6, <2>1 DEF IInv, Shutting
<1>9. Kinded'
  BY <1>1, <1>2, <1>3, <1>4, SameQueues, TicksKeptType, KindedStays
<1> QED BY <1>4, <1>5, <1>7, <1>8, <1>9 DEF IInv

LEMMA ServeRequestKeeps ==
  ASSUME IInv, ServeRequest
  PROVE  IInv'
<1> DEFINE t == Head(ticks)
<1>1. /\ ticks # <<>> /\ ticks' = Tail(ticks) /\ turn' = "ticks" /\ t.k = "serve"
      /\ UNCHANGED <<boot, readyQ, running, bootErr, closeQ, closeAt, started, listening, closing,
                     server, lookups, micros, ran>>
      /\ ticks \in Seq(Ticks)
  BY DEF ServeRequest, TickNext, queue, close, state, IInv, TypeOK
<1>2. t \in Elements(ticks)
  BY <1>1, TailElements
<1>3. t.c \in Callers /\ call[t.c].kind = "inject"
  BY <1>1, <1>2, QueuedCallers DEF IInv, Kinded
<1>4. PICK stage \in {"done", "refused"} : To(t.c, stage)
  BY DEF ServeRequest
<1>5. TicksKept
  BY <1>1 DEF TicksKept
<1> QED BY <1>1, <1>3, <1>4, <1>5, EndsKeep

(* The state that closeQ is in when one of its functions runs.             *)
LEMMA ClosingStarts ==
  ASSUME IInv, CloseRuns
  PROVE  /\ boot = "flowing" /\ closeAt = "flowing" /\ server # "shutting"
         /\ closeQ # <<>> /\ closeQ \in Seq(OnClose \cup Callers)
         /\ Head(closeQ) \in OnClose \cup Callers /\ Head(closeQ) \in Elements(closeQ)
         /\ Tail(closeQ) \in Seq(OnClose \cup Callers)
         /\ Elements(Tail(closeQ)) \subseteq Elements(closeQ)
         /\ Tail(closeQ) # <<>> => Tail(closeQ)[Len(Tail(closeQ))] = closeQ[Len(closeQ)]
         /\ closeQ[Len(closeQ)] \in Callers
         /\ closing \/ Head(closeQ) = "server"
<1>1. closeAt = "flowing" /\ closeQ # <<>> /\ closeQ \in Seq(OnClose \cup Callers) /\ ~Resting
  BY DEF CloseRuns, IInv, TypeOK, Resting
<1>2. boot = "flowing" /\ server # "shutting" /\ closeQ[Len(closeQ)] \in Callers
      /\ (closing \/ Head(closeQ) = "server")
  BY <1>1 DEF IInv, Ordered, Shutting
<1> QED BY <1>1, <1>2, TailElements

LEMMA ClosedKeeps ==
  ASSUME IInv, Closed
  PROVE  IInv'
<1>1. /\ CloseRuns /\ Head(closeQ) \in Callers /\ closeQ' = Tail(closeQ) /\ To(Head(closeQ), "done")
      /\ UNCHANGED <<boot, readyQ, running, bootErr, closeAt, started, listening, closing, server,
                     lookups, ticks, micros, turn, ran>>
  BY DEF Closed, queue, state, loop
<1>2. closing /\ server # "shutting" /\ boot = "flowing" /\ closeQ # <<>>
  BY <1>1, ClosingStarts, ServerAssumption
<1>3. TicksKept /\ turn' \in {"script", "ticks", "micros"}
  BY <1>1 DEF TicksKept, IInv, TypeOK
<1> QED BY <1>1, <1>2, <1>3, EndsKeep
(* Steps that change closeQ or closeAt, and no call and no queue of calls. *)
LEMMA SameKinded ==
  ASSUME IInv, TypeOK', UNCHANGED <<call, readyQ, micros>>,
         \A t \in Elements(ticks') : t.k # "serve" \/ t \in Elements(ticks),
         \A c \in Elements(closeQ') \cap Callers : c \in Elements(closeQ) \/ call[c].kind = "close"
  PROVE  Kinded'
<1>1. CallsType' /\ QueuesKept
  BY SameQueues DEF CallsType, TypeOK
<1> QED BY <1>1, KindedStays

LEMMA PluginsLoadedKeeps ==
  ASSUME IInv, PluginsLoaded
  PROVE  IInv'
<1>1. /\ boot = "loading" /\ boot' = "flowing" /\ closeQ' = <<"server">> \o closeQ /\ turn' = "ticks"
      /\ UNCHANGED <<call, readyQ, running, closeAt, started, listening, closing, server, lookups,
                     ticks, micros, ran>>
  BY DEF PluginsLoaded, state
<1>2. bootErr' \in BOOLEAN
  BY MayFailIsBoolean DEF PluginsLoaded
<1>3. closeQ = <<"hook">> /\ Resting /\ ~closing
  BY <1>1 DEF IInv, Ordered
<1> DEFINE S == OnClose \cup Callers
<1>4. closeQ \in Seq(S) /\ "server" \in S
  BY DEF IInv, TypeOK, OnClose
<1> HIDE DEF S
<1>5. /\ closeQ' \in Seq(S) /\ closeQ' # <<>> /\ Head(closeQ') = "server"
      /\ Tail(closeQ') = closeQ /\ Elements(closeQ') = {"server"} \cup Elements(closeQ)
  BY <1>1, <1>4, PutFirst
<1>6. TypeOK'
  BY <1>1, <1>2, <1>5 DEF IInv, TypeOK, S
<1>7. TicksKept /\ Elements(closeQ) = {"hook"}
  BY <1>1, <1>3 DEF TicksKept, Elements
<1>8. Flowing'
  BY <1>1, <1>7, FlowStays
<1>9. Ordered'
  <2>1. Resting'
    BY <1>1, <1>3 DEF Resting
  <2> QED BY <1>1, <1>3, <1>5, <1>7, <2>1 DEF Ordered
<1>10. Shutting'
  BY <1>1 DEF IInv, Shutting
<1>11. Kinded'
  <2>1. Elements(closeQ') \cap Callers = {}
    BY <1>5, <1>7, ServerAssumption
  <2> QED BY <1>1, <1>6, <2>1, SameKinded
<1> QED BY <1>6, <1>8, <1>9, <1>10, <1>11 DEF IInv

LEMMA RunCloseKeeps ==
  ASSUME IInv, RunClose
  PROVE  IInv'
<1> DEFINE c == Current
           once == Append(ticks, Item("resume", c))
           S == OnClose \cup Callers
<1>1. /\ boot = "flowing" /\ running = "no" /\ readyQ # <<>> /\ Head(readyQ).k = "close"
      /\ bootErr' = FALSE /\ running' = "waits"
      /\ closeQ' = Append(closeQ, c)
      /\ ticks' = ticks \o <<Item("resume", c), Item("release", c)>>
      /\ UNCHANGED <<call, boot, readyQ, closeAt, started, listening, closing, server, lookups,
                     micros, turn, ran>>
  BY DEF RunClose, Runs, ReadyRuns, state
<1>2. /\ ticks \in Seq(Ticks) /\ closeQ \in Seq(S)
      /\ c \in Callers /\ c \in S
      /\ Head(readyQ) \in Elements(readyQ) /\ readyQ \in Seq(Items)
  BY <1>1, HeadItem DEF IInv, TypeOK
<1>3. call[c].kind = "close"
  BY <1>1, <1>2 DEF IInv, Kinded, Current
<1>4. /\ Item("resume", c) \in Ticks /\ Item("resume", c).k = "resume"
      /\ Item("release", c) \in Ticks /\ Item("release", c).k = "release"
  BY <1>2, ItemType
<1>5. ticks' = Append(once, Item("release", c))
  BY <1>1, <1>2, <1>4
<1>6. once \in Seq(Ticks) /\ Elements(once) = Elements(ticks) \cup {Item("resume", c)}
  BY <1>2, <1>4, AppendElements
<1> HIDE DEF once, c, S
<1>7. ticks' \in Seq(Ticks) /\ Elements(ticks') = Elements(ticks) \cup {Item("resume", c), Item("release", c)}
  BY <1>4, <1>5, <1>6, AppendElements
<1>8. /\ closeQ' \in Seq(S) /\ closeQ' # <<>>
      /\ Elements(closeQ') = Elements(closeQ) \cup {c}
      /\ closeQ'[Len(closeQ')] = c
      /\ closeQ # <<>> => Head(closeQ') = Head(closeQ) /\ Tail(closeQ') = Append(Tail(closeQ), c)
  BY <1>1, <1>2, AppendElements
<1>9. ~Has(ticks, "release") /\ Once(ticks, "release")
  BY <1>1 DEF IInv, Flowing
<1>10. ~Has(once, "release") /\ Once(once, "release")
  <2>1. ~Has(once, "release")
    BY <1>4, <1>6, <1>9 DEF Has
  <2> QED BY <1>2, <1>4, <1>9, <2>1, OnceAppend DEF once
<1>11. TypeOK'
  BY <1>1, <1>7, <1>8 DEF IInv, TypeOK, S
<1>12. Flowing'
  <2>1. Once(ticks', "release")
    BY <1>4, <1>5, <1>6, <1>10, OnceAppend
  <2> QED BY <1>1, <2>1 DEF Flowing
<1>13. Ordered'
  <2>1. c # "server"
    BY <1>2, ServerAssumption
  <2>2. closing => "server" \notin Elements(closeQ')
    BY <1>8, <2>1 DEF IInv, Ordered
  <2>3. ~closing => Head(closeQ') = "server" /\ "server" \notin Elements(Tail(closeQ'))
    <3> SUFFICES ASSUME ~closing
                 PROVE  Head(closeQ') = "server" /\ "server" \notin Elements(Tail(closeQ'))
      OBVIOUS
    <3>1. closeQ # <<>> /\ Head(closeQ) = "server" /\ "server" \notin Elements(Tail(closeQ))
      BY <1>1 DEF IInv, Ordered
    <3> DEFINE rest == Tail(closeQ)
    <3>2. rest \in Seq(S)
      BY <1>2, <3>1, TailElements
    <3>3. Tail(closeQ') = Append(rest, c) /\ "server" \notin Elements(rest)
      BY <1>8, <3>1
    <3> HIDE DEF rest
    <3>4. Elements(Append(rest, c)) = Elements(rest) \cup {c}
      BY <1>2, <3>2, AppendElements
    <3> QED BY <1>8, <2>1, <3>1, <3>3, <3>4
  <2>4. closeQ'[Len(closeQ')] \in Callers
    BY <1>2, <1>8
  <2> QED BY <1>1, <1>8, <2>2, <2>3, <2>4 DEF Ordered
<1>14. Shutting'
  <2>1. Has(ticks', "closed") => Has(ticks, "closed")
    BY <1>4, <1>7 DEF Has
  <2>2. Once(ticks', "closed")
    <3>1. Once(ticks, "closed")
      BY DEF IInv, Shutting
    <3>2. Once(once, "closed")
      BY <1>2, <1>4, <3>1, OnceAppend DEF once
    <3> QED BY <1>4, <1>5, <1>6, <3>2, OnceAppend
  <2> QED BY <1>1, <2>1, <2>2 DEF IInv, Shutting
<1>15. Kinded'
  <2>1. \A t \in Elements(ticks') : t.k # "serve" \/ t \in Elements(ticks)
    BY <1>4, <1>7
  <2>2. \A d \in Elements(closeQ') \cap Callers : d \in Elements(closeQ) \/ call[d].kind = "close"
    BY <1>3, <1>8
  <2> QED BY <1>1, <1>11, <2>1, <2>2, SameKinded
<1> QED BY <1>11, <1>12, <1>13, <1>14, <1>15 DEF IInv

(* Steps that only take a tick off and move closeAt.                       *)
LEMMA MovesKeep ==
  ASSUME IInv, TicksKept,
         UNCHANGED <<call, boot, readyQ, running, bootErr, closeQ, started, listening, closing,
                     lookups, micros, ran>>,
         closeAt' \in {"paused", "flowing"} \cup OnClose, server' \in ServerStates,
         turn' \in {"script", "ticks", "micros"},
         ~Resting, Resting' => Resting,
         closeAt' \in OnClose => closeAt' = closeAt,
         server' = "shutting" => server = "shutting" /\ closeAt' = closeAt,
         Has(ticks', "closed") => closeAt' = closeAt
  PROVE  IInv'
<1>1. ticks \in Seq(Ticks)
  BY DEF IInv, TypeOK
<1>2. /\ ticks' \in Seq(Ticks)
      /\ Has(ticks', "closed") => Has(ticks, "closed")
      /\ Once(ticks, "closed") => Once(ticks', "closed")
      /\ \A t \in Elements(ticks') : t.k # "serve" \/ t \in Elements(ticks) \/ call[t.c].kind = "inject"
  BY <1>1, TicksKeptType, NoMoreTicks
<1>3. TypeOK'
  BY <1>2 DEF IInv, TypeOK
<1>4. Flowing'
  BY FlowStays
<1>5. Ordered'
  BY DEF IInv, Ordered
<1>6. Shutting'
  BY <1>2 DEF IInv, Shutting
<1>7. Kinded'
  <2>1. CallsType' /\ QueuesKept
    BY <1>3, SameQueues DEF CallsType, TypeOK
  <2> QED BY <1>2, <1>3, <2>1, KindedStays
<1> QED BY <1>3, <1>4, <1>5, <1>6, <1>7 DEF IInv

LEMMA ResumeKeeps ==
  ASSUME IInv, Resume
  PROVE  IInv'
<1>1. /\ ticks # <<>> /\ Head(ticks).k = "resume" /\ ticks' = Tail(ticks) /\ turn' = "ticks"
      /\ UNCHANGED <<call, boot, readyQ, running, bootErr, closeQ, started, listening, closing,
                     server, lookups, micros, ran>>
      /\ closeAt' = IF closeAt = "paused" THEN "flowing" ELSE closeAt
      /\ ticks \in Seq(Ticks)
  BY DEF Resume, TickNext, queue, state, IInv, TypeOK
<1>2. Has(ticks, "resume")
  BY <1>1, TailElements DEF Has
<1>3. ~Resting /\ ~Resting'
  BY <1>1, <1>2 DEF Resting
<1>4. TicksKept
  BY <1>1 DEF TicksKept
<1>5. Has(ticks', "closed") => Has(ticks, "closed")
  BY <1>1, TailElements DEF Has
<1>6. closeAt' \in {"paused", "flowing"} \cup OnClose /\ server' \in ServerStates
  BY <1>1 DEF IInv, TypeOK
<1>7. /\ server = "shutting" => closeAt = "server"
      /\ Has(ticks, "closed") => closeAt = "server"
  BY DEF IInv, Shutting
<1> QED BY <1>1, <1>3, <1>4, <1>5, <1>6, <1>7, MovesKeep DEF OnClose

LEMMA NoHandleKeeps ==
  ASSUME IInv, NoHandle
  PROVE  IInv'
<1>1. /\ ticks # <<>> /\ Head(ticks).k = "closed" /\ ticks' = Tail(ticks) /\ turn' = "ticks"
      /\ closeAt' = "flowing"
      /\ UNCHANGED <<call, boot, readyQ, running, bootErr, closeQ, started, listening, closing,
                     server, lookups, micros, ran>>
      /\ ticks \in Seq(Ticks)
  BY DEF NoHandle, TickNext, queue, state, IInv, TypeOK
<1>2. Has(ticks, "closed")
  BY <1>1, TailElements DEF Has
<1>3. closeAt = "server" /\ server # "shutting" /\ ~Has(ticks', "closed")
  BY <1>1, <1>2, OnceTail DEF IInv, Shutting
<1>4. TicksKept /\ ~Resting /\ ~Resting'
  BY <1>1, <1>3 DEF TicksKept, Resting
<1>5. server' \in ServerStates
  BY <1>1 DEF IInv, TypeOK
<1> QED BY <1>1, <1>3, <1>4, <1>5, MovesKeep DEF OnClose

LEMMA ServerClosedKeeps ==
  ASSUME IInv, ServerClosed
  PROVE  IInv'
<1>1. /\ server = "shutting" /\ server' = "closed" /\ closeAt' = "flowing" /\ turn' = "ticks"
      /\ UNCHANGED <<call, boot, readyQ, running, bootErr, closeQ, started, listening, closing,
                     lookups, ticks, micros, ran>>
  BY DEF ServerClosed, queue
<1>2. closeAt = "server" /\ ~Has(ticks', "closed")
  BY <1>1 DEF IInv, Shutting
<1>3. TicksKept /\ ~Resting /\ ~Resting'
  BY <1>1, <1>2 DEF TicksKept, Resting
<1> QED BY <1>1, <1>2, <1>3, MovesKeep DEF OnClose, ServerStates

LEMMA CloseHookDoneKeeps ==
  ASSUME IInv, CloseHookDone
  PROVE  IInv'
<1>1. /\ closeAt = "hook" /\ closeAt' = "flowing"
      /\ UNCHANGED <<call, boot, readyQ, running, bootErr, closeQ, started, listening, closing,
                     server, lookups, ticks, micros, turn, ran>>
  BY DEF CloseHookDone, queue, state, loop
<1>2. server # "shutting" /\ ~Has(ticks, "closed")
  BY <1>1 DEF IInv, Shutting
<1>3. TicksKept /\ ~Resting /\ ~Resting'
  BY <1>1 DEF TicksKept, Resting
<1>4. server' \in ServerStates /\ turn' \in {"script", "ticks", "micros"}
  BY <1>1 DEF IInv, TypeOK
<1> QED BY <1>1, <1>2, <1>3, <1>4, MovesKeep DEF OnClose

LEMMA CloseHookKeeps ==
  ASSUME IInv, CloseHook
  PROVE  IInv'
<1>1. /\ CloseRuns /\ Head(closeQ) = "hook" /\ closeQ' = Tail(closeQ) /\ closeAt' = "hook"
      /\ UNCHANGED <<call, boot, readyQ, running, bootErr, started, listening, closing,
                     server, lookups, ticks, micros, turn, ran>>
  BY DEF CloseHook, queue, state, loop
<1>2. /\ boot = "flowing" /\ server # "shutting" /\ closing /\ closeAt = "flowing"
      /\ closeQ' \in Seq(OnClose \cup Callers) /\ Elements(closeQ') \subseteq Elements(closeQ)
      /\ closeQ' = <<>> \/ closeQ'[Len(closeQ')] \in Callers
  BY <1>1, ClosingStarts
<1>3. TypeOK'
  BY <1>1, <1>2 DEF IInv, TypeOK, OnClose
<1>4. Flowing'
  BY <1>1, FlowStays DEF TicksKept
<1>5. Ordered'
  BY <1>1, <1>2 DEF IInv, Ordered
<1>6. Shutting'
  BY <1>1, <1>2 DEF IInv, Shutting
<1>7. Kinded'
  BY <1>1, <1>2, <1>3, SameKinded
<1> QED BY <1>3, <1>4, <1>5, <1>6, <1>7 DEF IInv

LEMMA CloseServerKeeps ==
  ASSUME IInv, CloseServer
  PROVE  IInv'
<1> DEFINE c == closeQ[Len(closeQ)]
<1>1. /\ CloseRuns /\ Head(closeQ) = "server" /\ closeQ' = Tail(closeQ) /\ closing'
      /\ closing' \in BOOLEAN
      /\ UNCHANGED <<call, boot, readyQ, running, bootErr, started, listening, lookups, micros,
                     turn, ran>>
  BY DEF CloseServer, queue
<1>2. /\ boot = "flowing" /\ closeAt = "flowing" /\ server # "shutting" /\ closeQ # <<>>
      /\ Head(closeQ) \in Elements(closeQ) /\ c \in Callers
      /\ closeQ' \in Seq(OnClose \cup Callers) /\ Elements(closeQ') \subseteq Elements(closeQ)
      /\ closeQ' = <<>> \/ closeQ'[Len(closeQ')] \in Callers
  BY <1>1, ClosingStarts
<1>3. /\ ~closing /\ "server" \notin Elements(closeQ')
      /\ ~Has(ticks, "closed") /\ Once(ticks, "closed") /\ ticks \in Seq(Ticks)
  BY <1>1, <1>2 DEF IInv, Ordered, Shutting, TypeOK
<1>4. \A d \in Callers : ~(call[d].kind = "close" /\ call[d].at = "done")
  BY <1>3 DEF IInv, Shutting
<1>5. Item("closed", c) \in Ticks /\ Item("closed", c).k = "closed"
  BY <1>2, ItemType
<1> HIDE DEF c
<1>6. \/ closeAt' = "flowing" /\ UNCHANGED <<server, ticks>>
      \/ closeAt' = "server" /\ server' = "shutting" /\ UNCHANGED ticks
      \/ closeAt' = "server" /\ ticks' = Append(ticks, Item("closed", c)) /\ UNCHANGED server
  BY DEF CloseServer, Shut, c
<1>7. /\ ticks' \in Seq(Ticks) /\ Once(ticks', "closed") /\ NoMore("release")
      /\ \A t \in Elements(ticks') : t.k # "serve" \/ t \in Elements(ticks)
      /\ Has(ticks', "closed") => closeAt' = "server" /\ server' # "shutting"
  <2>1. CASE UNCHANGED ticks
    BY <1>3, <2>1 DEF NoMore
  <2>2. CASE /\ closeAt' = "server" /\ ticks' = Append(ticks, Item("closed", c))
             /\ UNCHANGED server
    <3>1. ticks' \in Seq(Ticks) /\ Elements(ticks') = Elements(ticks) \cup {Item("closed", c)}
      BY <1>3, <1>5, <2>2, AppendElements
    <3>2. Once(ticks', "closed")
      BY <1>3, <1>5, <2>2, OnceAppend
    <3> QED BY <1>2, <1>5, <2>2, <3>1, <3>2 DEF NoMore
  <2> QED BY <1>6, <2>1, <2>2
<1>8. TypeOK'
  BY <1>1, <1>2, <1>6, <1>7 DEF IInv, TypeOK, OnClose, ServerStates
<1>9. Flowing'
  BY <1>1, <1>3, <1>7, NoMoreTicks DEF IInv, Flowing
<1>10. Ordered'
  BY <1>1, <1>2, <1>3 DEF Ordered
<1>11. Shutting'
  BY <1>1, <1>2, <1>4, <1>6, <1>7 DEF Shutting
<1>12. Kinded'
  BY <1>1, <1>2, <1>7, <1>8, SameKinded
<1> QED BY <1>8, <1>9, <1>10, <1>11, <1>12 DEF IInv
-----------------------------------------------------------------------------
(* The whole specification.                                                *)

LEMMA InitIInv ==
  ASSUME Init
  PROVE  IInv
<1>1. TypeOK
  <2>1. call \in [Callers -> [kind : Kinds, at : Stages]]
    BY DEF Init, Stages
  <2>2. closeQ \in Seq(OnClose \cup Callers)
    BY DEF Init, OnClose
  <2>3. ran \in 0 .. OnReadyHooks
    BY ServerAssumption DEF Init
  <2>4. readyQ \in Seq(Items) /\ ticks \in Seq(Ticks) /\ micros \in Seq(Callers)
    BY DEF Init
  <2> QED BY <2>1, <2>2, <2>3, <2>4 DEF Init, TypeOK, ServerStates
<1>2. Elements(<<>>) = {}
  BY DEF Elements
<1>3. Flowing /\ Ordered
  BY <1>2 DEF Init, Flowing, Ordered, Resting, Has, Once
<1>4. \A c \in Callers : call[c].at = "idle"
  BY DEF Init
<1>5. Elements(closeQ) \cap Callers = {}
  BY ServerAssumption DEF Init, Elements
<1>6. Shutting /\ Kinded
  BY <1>2, <1>4, <1>5 DEF Init, Shutting, Kinded, Has, Once, OnClose
<1> QED BY <1>1, <1>3, <1>6 DEF IInv

(* What a step does to the calls: but for a close that ends, and for a     *)
(* request that is served, nothing happens to either kind.                 *)
LEMMA StepKeeps ==
  ASSUME IInv, [Next]_vars
  PROVE  IInv' /\ (CallsKept \/ ServeRequest \/ Closed)
<1>1. CASE \E c \in Callers : Call(c)
  BY <1>1, CallReadyKeeps, CallListenPromiseKeeps, CallInjectKeeps, CallCloseKeeps DEF Call
<1>2. CASE HookWaits \/ RunHook
  BY <1>2, HookKeeps
<1>3. CASE RunHooks \/ RunBoot \/ RunExit \/ Return \/ HookSettles \/ Release
  BY <1>3, RunHooksKeeps, RunBootKeeps, RunExitKeeps, ReturnKeeps, HookSettlesKeeps, ReleaseKeeps
<1>4. CASE Granted \/ LookupDone \/ Bound \/ Broken
  BY <1>4, GrantedKeeps, LookupDoneKeeps, ReportedKeeps
<1>5. CASE PluginsLoaded \/ RunClose \/ Resume \/ CloseServer
  <2>1. UNCHANGED call
    BY <1>5 DEF PluginsLoaded, RunClose, Resume, CloseServer
  <2>2. CallsKept
    BY <2>1, SameCalls DEF IInv
  <2> QED BY <1>5, <2>2, PluginsLoadedKeeps, RunCloseKeeps, ResumeKeeps, CloseServerKeeps
<1>6. CASE NoHandle \/ ServerClosed \/ CloseHook \/ CloseHookDone
  <2>1. UNCHANGED call
    BY <1>6 DEF NoHandle, ServerClosed, CloseHook, CloseHookDone
  <2>2. CallsKept
    BY <2>1, SameCalls DEF IInv
  <2> QED BY <1>6, <2>2, NoHandleKeeps, ServerClosedKeeps, CloseHookKeeps, CloseHookDoneKeeps
<1>7. CASE ServeRequest \/ Closed
  BY <1>7, ServeRequestKeeps, ClosedKeeps
<1>8. CASE UNCHANGED vars
  <2>1. UNCHANGED <<call, boot, readyQ, running, bootErr, closeQ, closeAt, started, listening,
                    closing, server, lookups, ticks, micros, turn, ran>>
    BY <1>8 DEF vars, queue, close, state, loop
  <2>2. CallsKept
    BY <2>1, SameCalls DEF IInv
  <2>3. TypeOK' /\ Flowing' /\ Ordered'
    BY <2>1 DEF IInv, TypeOK, Flowing, Ordered, Resting, Has, Once, Elements
  <2>4. Shutting' /\ Kinded'
    BY <2>1 DEF IInv, Shutting, Kinded, Has, Once, Elements
  <2> QED BY <2>2, <2>3, <2>4 DEF IInv
<1> QED BY <1>1, <1>2, <1>3, <1>4, <1>5, <1>6, <1>7, <1>8 DEF Next, Progress, Avvio

LEMMA AlwaysIInv == Spec => []IInv
<1>1. IInv /\ [Next]_vars => IInv'
  BY StepKeeps
<1> QED BY <1>1, InitIInv, PTL DEF Spec

(* The variables of the server keep their types (fastify.js, lib/server.js *)
(* and the queues of avvio).                                               *)
THEOREM ServerTypeCorrect == Spec => []TypeOK
<1>1. IInv => TypeOK
  BY DEF IInv
<1> QED BY <1>1, AlwaysIInv, PTL

(* Whatever is called, in whatever order, and whatever fails: close        *)
(* answers, and the application's onClose hooks run, only when the raw     *)
(* server takes no connections any more and the last of them has ended     *)
(* (the onClose function that preReady adds, fastify.js).                  *)
THEOREM CloseComesLast == Spec => []CloseIsLast
<1>1. IInv => CloseIsLast
  BY DEF IInv, Shutting, CloseIsLast, Closers, Made, OnClose
<1> QED BY <1>1, AlwaysIInv, PTL

(* With return503OnClosing, an injected request that has not been answered *)
(* when the server starts closing is never served (routeHandler and        *)
(* closeRoutes of lib/route.js, inject of fastify.js).                     *)
THEOREM ServedNeverWhileClosing ==
  ASSUME Return503OnClosing
  PROVE  Spec => ClosedServesNothing
<1>1. ASSUME IInv, [Next]_vars, NEW c \in Made("inject"), closing, call[c].at \notin Ends,
             call'[c].at = "done"
      PROVE  FALSE
  <2>1. c \in Callers /\ call[c].kind = "inject" /\ call[c].at # "done"
    BY <1>1 DEF Made, Ends
  <2>2. CASE CallsKept
    BY <1>1, <2>1, <2>2 DEF CallsKept
  <2>3. CASE ServeRequest
    <3>1. Head(ticks) \in Ticks
      BY <1>1, <2>3, TailElements DEF ServeRequest, TickNext, IInv, TypeOK
    <3>2. To(Head(ticks).c, "refused")
      BY <1>1, <2>3 DEF ServeRequest, Unavailable
    <3>3. Head(ticks).c \in Callers /\ "refused" \in Stages
      BY <3>1 DEF Ticks, Stages, Ends
    <3>4. CallsType
      BY <1>1 DEF IInv, TypeOK, CallsType
    <3>5. call'[c].at \in {call[c].at, "refused"}
      BY <2>1, <3>2, <3>3, <3>4, ToStage
    <3> QED BY <1>1, <2>1, <3>5
  <2>4. CASE Closed
    <3>1. CloseRuns /\ Head(closeQ) \in Callers /\ To(Head(closeQ), "done")
      BY <2>4 DEF Closed
    <3>2. Head(closeQ) \in Elements(closeQ)
      BY <1>1, <3>1, ClosingStarts
    <3>3. call[Head(closeQ)].kind = "close"
      BY <1>1, <3>1, <3>2 DEF IInv, Kinded
    <3>4. CallsType /\ "done" \in Stages
      BY <1>1 DEF IInv, TypeOK, CallsType, Stages, Ends
    <3> QED BY <1>1, <2>1, <3>1, <3>3, <3>4, ToStage
  <2> QED BY <1>1, <2>2, <2>3, <2>4, StepKeeps
<1>2. IInv /\ [Next]_vars =>
        [\A c \in Made("inject") :
           closing /\ call[c].at \notin Ends => call'[c].at # "done"]_vars
  BY <1>1
<1> QED BY <1>2, AlwaysIInv, PTL DEF Spec, ClosedServesNothing
=============================================================================
