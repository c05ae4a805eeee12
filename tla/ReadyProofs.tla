---------------------------- MODULE ReadyProofs ----------------------------
(***************************************************************************)
(* Proofs about Server, for any number of calls and of onReady hooks: an   *)
(* answer is final, requests come after the onReady hooks, and the flag    *)
(* that keeps a second listen out.  All of them rest on one fact: a call   *)
(* has at most one token, the tick, job or queued function that will bring *)
(* it on, and none once it has its answer.                                 *)
(***************************************************************************)
EXTENDS ServerProofs

(* The elements of P in a sequence, and that there is at most one of them. *)
In(q, P) == \E i \in 1..Len(q) : q[i] \in P
One(q, P) == \A i, j \in 1..Len(q) : q[i] \in P /\ q[j] \in P => i = j

(* There are no more elements of P in r than in q.                         *)
Less(q, r, P) == (In(r, P) => In(q, P)) /\ (One(q, P) => One(r, P))

LEMMA InAppend ==
  ASSUME NEW S, NEW q \in Seq(S), NEW x \in S, NEW P
  PROVE  /\ In(Append(q, x), P) <=> In(q, P) \/ x \in P
         /\ x \notin P => Less(q, Append(q, x), P)
         /\ ~In(q, P) => One(Append(q, x), P)
<1>1. /\ Len(q) \in Nat /\ Len(Append(q, x)) = Len(q) + 1
      /\ \A i \in 1..Len(q) : Append(q, x)[i] = q[i]
      /\ Append(q, x)[Len(q) + 1] = x
  OBVIOUS
<1>2. In(Append(q, x), P) <=> In(q, P) \/ x \in P
  <2>1. In(q, P) => In(Append(q, x), P)
    BY <1>1 DEF In
  <2>2. x \in P => In(Append(q, x), P)
    <3>1. Len(q) + 1 \in 1..Len(Append(q, x))
      BY <1>1
    <3> QED BY <1>1, <3>1 DEF In
  <2>3. In(Append(q, x), P) => In(q, P) \/ x \in P
    BY <1>1 DEF In
  <2> QED BY <2>1, <2>2, <2>3
<1>3. x \notin P => Less(q, Append(q, x), P)
  BY <1>1, <1>2 DEF Less, One
<1>4. ~In(q, P) => One(Append(q, x), P)
  BY <1>1 DEF In, One
<1> QED BY <1>2, <1>3, <1>4

LEMMA InTail ==
  ASSUME NEW S, NEW q \in Seq(S), q # <<>>, NEW P
  PROVE  /\ Less(q, Tail(q), P)
         /\ Head(q) \in P => In(q, P)
         /\ One(q, P) /\ Head(q) \in P => ~In(Tail(q), P)
<1>1. /\ Len(q) \in Nat /\ Len(q) >= 1 /\ Head(q) = q[1]
      /\ Len(Tail(q)) = Len(q) - 1
      /\ \A i \in 1..(Len(q) - 1) : Tail(q)[i] = q[i + 1]
  OBVIOUS
<1>2. In(Tail(q), P) => In(q, P)
  <2> SUFFICES ASSUME NEW i \in 1..(Len(q) - 1), q[i + 1] \in P PROVE In(q, P)
    BY <1>1 DEF In
  <2>1. i + 1 \in 1..Len(q)
    BY <1>1
  <2> QED BY <2>1 DEF In
<1>3. Head(q) \in P => In(q, P)
  BY <1>1 DEF In
<1>4. ASSUME One(q, P), NEW i \in 1..(Len(q) - 1), NEW j \in 1..(Len(q) - 1),
             q[i + 1] \in P, q[j + 1] \in P
      PROVE  i = j
  <2>1. i + 1 \in 1..Len(q) /\ j + 1 \in 1..Len(q)
    BY <1>1
  <2>2. i + 1 = j + 1
    BY <1>4, <2>1 DEF One
  <2> QED BY <1>1, <2>2
<1>5. One(q, P) => One(Tail(q), P)
  BY <1>1, <1>4 DEF One
<1>6. ASSUME One(q, P), Head(q) \in P, In(Tail(q), P)
      PROVE  FALSE
  <2>1. PICK i \in 1..(Len(q) - 1) : q[i + 1] \in P
    BY <1>1, <1>6 DEF In
  <2>2. 1 \in 1..Len(q) /\ i + 1 \in 1..Len(q)
    BY <1>1
  <2>3. 1 = i + 1
    BY <1>1, <1>6, <2>1, <2>2 DEF One
  <2> QED BY <1>1, <2>3
<1> QED BY <1>2, <1>3, <1>5, <1>6 DEF Less

LEMMA InConcat ==
  ASSUME NEW S, NEW q \in Seq(S), NEW r \in Seq(S), NEW P
  PROVE  /\ In(q \o r, P) => In(q, P) \/ In(r, P)
         /\ One(q, P) /\ ~In(r, P) => One(q \o r, P)
         /\ ~In(q, P) /\ One(r, P) => One(q \o r, P)
<1> DEFINE both == q \o r
<1>1. /\ Len(q) \in Nat /\ Len(r) \in Nat /\ Len(both) = Len(q) + Len(r)
      /\ \A i \in 1..Len(q) : both[i] = q[i]
      /\ \A i \in 1..Len(r) : both[Len(q) + i] = r[i]
  OBVIOUS
<1> HIDE DEF both
<1>2. \A i \in 1..Len(both) :
        \/ i \in 1..Len(q) /\ both[i] = q[i]
        \/ i - Len(q) \in 1..Len(r) /\ both[i] = r[i - Len(q)]
  <2> SUFFICES ASSUME NEW i \in 1..Len(both), i > Len(q)
               PROVE  i - Len(q) \in 1..Len(r) /\ both[i] = r[i - Len(q)]
    BY <1>1
  <2>1. i - Len(q) \in 1..Len(r) /\ Len(q) + (i - Len(q)) = i
    BY <1>1
  <2> QED BY <1>1, <2>1
<1>3. In(both, P) => In(q, P) \/ In(r, P)
  BY <1>2 DEF In
<1>4. One(q, P) /\ ~In(r, P) => One(both, P)
  BY <1>2 DEF In, One
<1>5. ASSUME ~In(q, P), One(r, P), NEW i \in 1..Len(both), NEW j \in 1..Len(both),
             both[i] \in P, both[j] \in P
      PROVE  i = j
  <2>1. /\ i - Len(q) \in 1..Len(r) /\ r[i - Len(q)] \in P
        /\ j - Len(q) \in 1..Len(r) /\ r[j - Len(q)] \in P
    BY <1>2, <1>5 DEF In
  <2>2. i - Len(q) = j - Len(q)
    BY <1>5, <2>1 DEF One
  <2> QED BY <1>1, <2>2
<1>6. ~In(q, P) /\ One(r, P) => One(both, P)
  BY <1>5 DEF One
<1> QED BY <1>3, <1>4, <1>6 DEF both

LEMMA LessSame ==
  ASSUME NEW q, NEW P
  PROVE  Less(q, q, P)
  BY DEF Less

LEMMA ItemsDiffer ==
  ASSUME NEW k, NEW l, NEW c, NEW d
  PROVE  (Item(k, c) = Item(l, d)) <=> (k = l /\ c = d)
<1>1. Item(k, c).k = k /\ Item(k, c).c = c /\ Item(l, d).k = l /\ Item(l, d).c = d
  BY DEF Item
<1> QED BY <1>1
-----------------------------------------------------------------------------
(* Tokens.                                                                 *)

(* What avvio has yet to run.                                              *)
Coming == IF running = "no" THEN readyQ ELSE Tail(readyQ)

Run(c) == {Item("runHooks", c)}
Sent(c) == {Item("serve", c)}
Due(c) == {Item("boot", c), Item("exit", c), Item("close", c)}

(* A call that waits has one token: its runHooks tick, its function in     *)
(* avvio's queue, or its callback in closeQ; so has one that was granted,  *)
(* and a request.  Any other call has none.                                *)
TokenOf(c) ==
  /\ In(ticks, Run(c)) => call[c].at = "waiting" /\ ~In(Coming, Due(c)) /\ ~In(closeQ, {c})
  /\ In(Coming, Due(c)) => call[c].at = "waiting" /\ ~In(closeQ, {c})
  /\ In(closeQ, {c}) => call[c].at = "waiting"
  /\ In(ticks, Sent(c)) => call[c].at = "serving"
  /\ In(micros, {c}) => call[c].at = "granted"
  /\ One(ticks, Run(c)) /\ One(Coming, Due(c)) /\ One(closeQ, {c})
  /\ One(ticks, Sent(c)) /\ One(micros, {c})
Tokens == \A c \in Callers : TokenOf(c)

(* What a step may do to a call that has its answer.                       *)
Final(c) ==
  call[c].at \in Ends =>
    \/ call'[c].at = call[c].at
    \/ call[c].at = "unbound" /\ call[c].kind = "listen"

(* A step that brings c no new token.                                      *)
TicksLess(c) == Less(ticks, ticks', Run(c)) /\ Less(ticks, ticks', Sent(c))
TokensLess(c) ==
  /\ TicksLess(c)
  /\ Less(Coming, Coming', Due(c)) /\ Less(micros, micros', {c}) /\ Less(closeQ, closeQ', {c})

LEMMA SameToken ==
  ASSUME NEW c \in Callers, TokenOf(c), TokensLess(c), call'[c].at = call[c].at
  PROVE  TokenOf(c)' /\ Final(c)
  BY DEF TokenOf, TokensLess, TicksLess, Less, Final

(* A call without a token may go anywhere.                                 *)
LEMMA NoToken ==
  ASSUME NEW c \in Callers, TokenOf(c), TokensLess(c),
         call[c].at \notin {"waiting", "serving", "granted"}
  PROVE  TokenOf(c)'
  BY DEF TokenOf, TokensLess, TicksLess, Less

LEMMA SameTicks ==
  ASSUME NEW c, UNCHANGED ticks
  PROVE  TicksLess(c)
  BY LessSame DEF TicksLess

LEMMA TailTicks ==
  ASSUME TypeOK, NEW c, ticks # <<>>, ticks' = Tail(ticks)
  PROVE  TicksLess(c)
  BY InTail DEF TicksLess, TypeOK

LEMMA OtherTick ==
  ASSUME TypeOK, NEW c, NEW d \in Callers,
         NEW k \in {"runHooks", "resume", "release", "serve", "closed", "bound", "broken"},
         k \notin {"runHooks", "serve"} \/ c # d,
         ticks' = Append(ticks, Item(k, d))
  PROVE  TicksLess(c)
<1>1. Item(k, d) \in Ticks
  BY ItemType
<1>2. Item(k, d) \notin Run(c) /\ Item(k, d) \notin Sent(c)
  BY ItemsDiffer DEF Run, Sent
<1> QED BY <1>1, <1>2, InAppend DEF TicksLess, TypeOK

(* How avvio's queue moves.                                                *)
LEMMA ComingType ==
  ASSUME IInv
  PROVE  Coming \in Seq(Items)
  BY TailElements DEF IInv, TypeOK, Flowing, Coming

LEMMA ComingGoesOn ==
  ASSUME GoOn, running # "no"
  PROVE  Coming' = Coming
  BY DEF Coming, GoOn

LEMMA ComingStarts ==
  ASSUME running = "no", running' # "no", readyQ' = readyQ
  PROVE  Coming' = Tail(Coming) /\ Coming = readyQ
  BY DEF Coming

LEMMA ComingGrows ==
  ASSUME IInv, running' = running, NEW r \in Items, readyQ' = Append(readyQ, r)
  PROVE  Coming' = Append(Coming, r)
<1>1. readyQ \in Seq(Items) /\ (running # "no" => readyQ # <<>>)
  BY DEF IInv, TypeOK, Flowing
<1> QED BY <1>1, AppendElements DEF Coming

LEMMA ConcatLength ==
  ASSUME NEW S, NEW q \in Seq(S), NEW r \in Seq(S)
  PROVE  Len(q \o r) = Len(q) + Len(r)
  OBVIOUS

LEMMA TailConcat ==
  ASSUME NEW S, NEW q \in Seq(S), NEW r \in Seq(S), q # <<>>
  PROVE  Tail(q \o r) = Tail(q) \o r
  OBVIOUS

LEMMA ComingHooks ==
  ASSUME IInv, running = "no", running' # "no", readyQ # <<>>, NEW c \in Callers,
         readyQ' = readyQ \o HooksThenExit(c)
  PROVE  Coming' = Tail(Coming) \o HooksThenExit(c)
<1>1. readyQ \in Seq(Items) /\ HooksThenExit(c) \in Seq(Items)
  BY HooksThenExitType DEF IInv, TypeOK
<1> QED BY <1>1, TailConcat DEF Coming

LEMMA HooksThenExitDue ==
  ASSUME NEW c \in Callers, NEW d \in Callers
  PROVE  /\ In(HooksThenExit(c), Due(d)) => d = c
         /\ One(HooksThenExit(c), Due(d))
<1> DEFINE q == HooksThenExit(c)
<1>1. /\ Len(q) = OnReadyHooks + 1
      /\ \A i \in 1..OnReadyHooks : q[i] = Item("hook", c)
      /\ q[OnReadyHooks + 1] = Item("exit", c)
  BY ServerAssumption DEF HooksThenExit
<1> HIDE DEF q
<1>2. Item("hook", c) \notin Due(d) /\ (Item("exit", c) \in Due(d) => d = c)
  BY ItemsDiffer DEF Due
<1>3. \A i \in 1..Len(q) : q[i] \in Due(d) => i = OnReadyHooks + 1 /\ d = c
  BY <1>1, <1>2, ServerAssumption
<1>4. In(q, Due(d)) => d = c
  BY <1>3 DEF In
<1>5. One(q, Due(d))
  BY <1>3 DEF One
<1> QED BY <1>4, <1>5 DEF q
-----------------------------------------------------------------------------
(* The steps, one lemma each: the calls of the application.                *)

LEMMA SameComing ==
  ASSUME UNCHANGED <<readyQ, running>>
  PROVE  Coming' = Coming
  BY DEF Coming

(* A call goes to another stage, with a new tick or without.               *)
LEMMA OthersKept ==
  ASSUME IInv, Tokens, NEW c \in Callers, NEW stage \in Stages, To(c, stage),
         \A d \in Callers \ {c} : TokensLess(d)
  PROVE  \A d \in Callers \ {c} : TokenOf(d)' /\ Final(d)
<1>1. \A d \in Callers \ {c} : call'[d].at = call[d].at
  BY ToStage DEF IInv, TypeOK, CallsType
<1> QED BY <1>1, SameToken DEF Tokens

LEMMA CallWaits ==
  ASSUME IInv, Tokens, NEW c \in Callers, call[c].at = "idle", WaitForReady(c),
         UNCHANGED <<readyQ, running, micros, closeQ>>
  PROVE  \A d \in Callers : TokenOf(d)' /\ Final(d)
<1>1. To(c, "waiting") /\ "waiting" \in Stages /\ ticks' = Append(ticks, Item("runHooks", c))
  BY DEF WaitForReady, Stages
<1>2. Coming' = Coming
  BY SameComing
<1>3. \A d \in Callers \ {c} : TokensLess(d)
  BY <1>1, <1>2, OtherTick, LessSame DEF IInv, TokensLess
<1>4. call'[c].at = "waiting"
  BY <1>1, ToStage DEF IInv, TypeOK, CallsType
<1>5. /\ ~In(ticks, Run(c)) /\ ~In(Coming, Due(c)) /\ ~In(closeQ, {c})
      /\ ~In(ticks, Sent(c)) /\ ~In(micros, {c})
      /\ TokenOf(c)
  BY DEF Tokens, TokenOf
<1>6. Item("runHooks", c) \in Ticks /\ Item("runHooks", c) \notin Sent(c)
  BY ItemType, ItemsDiffer DEF Sent
<1>7. One(ticks', Run(c)) /\ Less(ticks, ticks', Sent(c))
  BY <1>1, <1>5, <1>6, InAppend DEF IInv, TypeOK
<1>8. TokenOf(c)'
  BY <1>2, <1>4, <1>5, <1>7 DEF TokenOf, Less
<1> QED BY <1>1, <1>3, <1>8, OthersKept DEF Final, Ends

(* An answer, or a request on its way, for a call without a token.         *)
LEMMA CallRefused ==
  ASSUME IInv, Tokens, NEW c \in Callers, call[c].at = "idle", Refuse(c),
         UNCHANGED <<readyQ, running, micros, closeQ>>
  PROVE  \A d \in Callers : TokenOf(d)' /\ Final(d)
<1>1. To(c, "refused") /\ "refused" \in Stages /\ UNCHANGED ticks
  BY DEF Refuse, Stages, Ends
<1>2. Coming' = Coming
  BY SameComing
<1>3. \A d \in Callers : TokensLess(d)
  BY <1>1, <1>2, SameTicks, LessSame DEF TokensLess
<1>4. TokenOf(c)'
  BY <1>3, NoToken DEF Tokens
<1> QED BY <1>1, <1>3, <1>4, OthersKept DEF Final, Ends

LEMMA CallServed ==
  ASSUME IInv, Tokens, NEW c \in Callers, call[c].at = "idle", Serve(c),
         UNCHANGED <<readyQ, running, micros, closeQ>>
  PROVE  \A d \in Callers : TokenOf(d)' /\ Final(d)
<1>1. To(c, "serving") /\ "serving" \in Stages /\ ticks' = Append(ticks, Item("serve", c))
  BY DEF Serve, Stages
<1>2. Coming' = Coming
  BY SameComing
<1>3. \A d \in Callers \ {c} : TokensLess(d)
  BY <1>1, <1>2, OtherTick, LessSame DEF IInv, TokensLess
<1>4. call'[c].at = "serving"
  BY <1>1, ToStage DEF IInv, TypeOK, CallsType
<1>5. /\ ~In(ticks, Run(c)) /\ ~In(Coming, Due(c)) /\ ~In(closeQ, {c})
      /\ ~In(ticks, Sent(c)) /\ ~In(micros, {c})
      /\ TokenOf(c)
  BY DEF Tokens, TokenOf
<1>6. Item("serve", c) \in Ticks /\ Item("serve", c) \notin Run(c)
  BY ItemType, ItemsDiffer DEF Run
<1>7. One(ticks', Sent(c)) /\ Less(ticks, ticks', Run(c))
  BY <1>1, <1>5, <1>6, InAppend DEF IInv, TypeOK
<1>8. TokenOf(c)'
  BY <1>2, <1>4, <1>5, <1>7 DEF TokenOf, Less
<1> QED BY <1>1, <1>3, <1>8, OthersKept DEF Final, Ends

LEMMA CallsToken ==
  ASSUME IInv, Tokens, NEW c \in Callers,
         CallReady(c) \/ CallListenPromise(c) \/ CallInject(c)
  PROVE  \A d \in Callers : TokenOf(d)' /\ Final(d)
<1>1. UNCHANGED <<readyQ, running, micros, closeQ>> /\ call[c].at = "idle"
  BY DEF CallReady, CallListenPromise, CallInject, Calls, queue, close
<1>2. CASE WaitForReady(c)
  BY <1>1, <1>2, CallWaits
<1>3. CASE Refuse(c)
  BY <1>1, <1>3, CallRefused
<1>4. CASE Serve(c)
  BY <1>1, <1>4, CallServed
<1> QED BY <1>2, <1>3, <1>4 DEF CallReady, CallListenPromise, CallInject

(* A function of c is put into avvio's queue.                              *)
LEMMA DueQueued ==
  ASSUME IInv, NEW c \in Callers, NEW k \in {"boot", "close"}, running' = running,
         readyQ' = Append(readyQ, Item(k, c))
  PROVE  /\ \A d \in Callers \ {c} : Less(Coming, Coming', Due(d))
         /\ ~In(Coming, Due(c)) => One(Coming', Due(c))
<1>1. Item(k, c) \in Items /\ \A d \in Callers \ {c} : Item(k, c) \notin Due(d)
  BY ItemType, ItemsDiffer DEF Due
<1>2. Coming' = Append(Coming, Item(k, c)) /\ Coming \in Seq(Items)
  BY <1>1, ComingGrows, ComingType
<1> QED BY <1>1, <1>2, InAppend

LEMMA CallCloseToken ==
  ASSUME IInv, Tokens, NEW c \in Callers, CallClose(c)
  PROVE  \A d \in Callers : TokenOf(d)' /\ Final(d)
<1>1. /\ call[c].at = "idle" /\ To(c, "waiting") /\ "waiting" \in Stages
      /\ readyQ' = Append(readyQ, Item("close", c))
      /\ UNCHANGED <<running, closeQ, ticks, micros>>
  BY DEF CallClose, Calls, close, Stages
<1>2. /\ \A d \in Callers \ {c} : Less(Coming, Coming', Due(d))
      /\ ~In(Coming, Due(c)) => One(Coming', Due(c))
  BY <1>1, DueQueued
<1>3. \A d \in Callers \ {c} : TokensLess(d)
  BY <1>1, <1>2, SameTicks, LessSame DEF TokensLess
<1>4. call'[c].at = "waiting"
  BY <1>1, ToStage DEF IInv, TypeOK, CallsType
<1>5. TokenOf(c)'
  BY <1>1, <1>2, <1>4 DEF Tokens, TokenOf
<1> QED BY <1>1, <1>3, <1>5, OthersKept DEF Final, Ends

LEMMA RunHooksToken ==
  ASSUME IInv, Tokens, RunHooks
  PROVE  \A d \in Callers : TokenOf(d)' /\ Final(d)
<1>0. PICK c \in Callers : c = Head(ticks).c
  <2>1. Head(ticks) \in Ticks
    BY TailElements DEF RunHooks, TickNext, IInv, TypeOK
  <2> QED BY <2>1 DEF Ticks
<1>1. /\ ticks # <<>> /\ Head(ticks).k = "runHooks" /\ ticks' = Tail(ticks)
      /\ readyQ' = Append(readyQ, Item("boot", c))
      /\ UNCHANGED <<call, running, closeQ, micros>>
      /\ ticks \in Seq(Ticks)
  BY <1>0 DEF RunHooks, TickNext, close, IInv, TypeOK
<1>2. Head(ticks) = Item("runHooks", c)
  <2>1. Head(ticks) \in Ticks
    BY <1>1, TailElements
  <2> QED BY <1>0, <1>1, <2>1 DEF Ticks, Item
<1>3. /\ \A d \in Callers \ {c} : Less(Coming, Coming', Due(d))
      /\ ~In(Coming, Due(c)) => One(Coming', Due(c))
  BY <1>1, <1>2, DueQueued
<1>4. \A d \in Callers : TicksLess(d)
  BY <1>1, TailTicks DEF IInv
<1>5. \A d \in Callers \ {c} : TokenOf(d)' /\ Final(d)
  BY <1>1, <1>3, <1>4, LessSame, SameToken DEF TokensLess, Tokens
<1>6. In(ticks, Run(c)) /\ ~In(ticks', Run(c))
  <2>1. TokenOf(c) /\ Head(ticks) \in Run(c)
    BY <1>2 DEF Tokens, Run
  <2> QED BY <1>1, <2>1, InTail DEF TokenOf
<1>7. TokenOf(c)'
  BY <1>1, <1>2, <1>3, <1>4, <1>6 DEF Tokens, TokenOf, TicksLess, Less
<1> QED BY <1>1, <1>2, <1>5, <1>7 DEF Final
-----------------------------------------------------------------------------
(* The functions in avvio's queue.                                         *)

(* The function that is to run next is its call's one token.               *)
LEMMA TakesToken ==
  ASSUME IInv, Tokens, running = "no", readyQ # <<>>, Head(readyQ).k # "hook"
  PROVE  /\ Current \in Callers /\ Coming = readyQ
         /\ Tail(Coming) \in Seq(Items)
         /\ \A d \in Callers : Less(Coming, Tail(Coming), Due(d))
         /\ call[Current].at = "waiting"
         /\ ~In(Tail(Coming), Due(Current)) /\ ~In(ticks, Run(Current)) /\ ~In(closeQ, {Current})
         /\ ~In(ticks, Sent(Current)) /\ ~In(micros, {Current})
<1>1. /\ Current \in Callers /\ Coming = readyQ /\ readyQ \in Seq(Items)
      /\ Tail(readyQ) \in Seq(Items) /\ Head(readyQ) \in Items
  BY HeadItem DEF Coming
<1>2. Head(readyQ) \in Due(Current)
  BY <1>1 DEF Current, Due, Items, Item
<1>3. TokenOf(Current)
  BY <1>1 DEF Tokens
<1>4. In(Coming, Due(Current)) /\ ~In(Tail(Coming), Due(Current))
  BY <1>1, <1>2, <1>3, InTail DEF TokenOf
<1> QED BY <1>1, <1>3, <1>4, InTail DEF TokenOf

LEMMA AnswerMoves ==
  ASSUME NEW c \in Callers, Answer(c)
  PROVE  \E stage \in Stages :
           /\ To(c, stage)
           /\ \/ /\ stage \in {"done", "failed", "refused", "binding"} /\ UNCHANGED micros
                 /\ \/ UNCHANGED ticks
                    \/ \E k \in {"bound", "broken"} : ticks' = Append(ticks, Item(k, c))
              \/ stage = "granted" /\ micros' = Append(micros, c) /\ UNCHANGED ticks
              \/ /\ stage = "serving" /\ UNCHANGED micros
                 /\ ticks' = Append(ticks, Item("serve", c))
<1> USE DEF Stages, Ends
<1>1. CASE Bind(c) /\ UNCHANGED micros
  BY <1>1 DEF Bind, Open
<1>2. CASE Refuse(c) /\ UNCHANGED micros
  BY <1>2 DEF Refuse
<1>3. CASE Serve(c) /\ UNCHANGED micros
  BY <1>3 DEF Serve
<1> QED BY <1>1, <1>2, <1>3 DEF Answer

LEMMA AnswerToken ==
  ASSUME IInv, Tokens, running = "no", readyQ # <<>>, Head(readyQ).k # "hook",
         running' # "no", UNCHANGED <<readyQ, closeQ>>, Answer(Current)
  PROVE  \A d \in Callers : TokenOf(d)' /\ Final(d)
<1>0. PICK c \in Callers : c = Current
  BY TakesToken
<1>1. /\ Coming = readyQ
      /\ \A d \in Callers : Less(Coming, Tail(Coming), Due(d))
      /\ call[c].at = "waiting"
      /\ ~In(Tail(Coming), Due(c)) /\ ~In(ticks, Run(c)) /\ ~In(closeQ, {c})
      /\ ~In(ticks, Sent(c)) /\ ~In(micros, {c})
  BY <1>0, TakesToken
<1>2. Coming' = Tail(Coming)
  BY ComingStarts
<1>3. PICK stage \in Stages :
           /\ To(c, stage)
           /\ \/ /\ stage \in {"done", "failed", "refused", "binding"} /\ UNCHANGED micros
                 /\ \/ UNCHANGED ticks
                    \/ \E k \in {"bound", "broken"} : ticks' = Append(ticks, Item(k, c))
              \/ stage = "granted" /\ micros' = Append(micros, c) /\ UNCHANGED ticks
              \/ /\ stage = "serving" /\ UNCHANGED micros
                 /\ ticks' = Append(ticks, Item("serve", c))
  BY <1>0, AnswerMoves
<1>4. \A d \in Callers \ {c} : TicksLess(d)
  BY <1>1, <1>3, SameTicks, OtherTick DEF IInv
<1>5. micros \in Seq(Callers) /\ ticks \in Seq(Ticks)
  BY DEF IInv, TypeOK
<1>6. \A d \in Callers \ {c} : Less(micros, micros', {d})
  <2>1. CASE UNCHANGED micros
    BY <2>1, LessSame
  <2>2. CASE micros' = Append(micros, c)
    BY <1>5, <2>2, InAppend
  <2> QED BY <1>3, <2>1, <2>2
<1>7. \A d \in Callers \ {c} : TokensLess(d)
  BY <1>1, <1>2, <1>4, <1>6, LessSame DEF TokensLess
<1>8. call'[c].at = stage
  BY <1>1, <1>3, ToStage DEF IInv, TypeOK, CallsType
<1>9. TokenOf(c)
  BY <1>1 DEF Tokens
<1>10. ~In(Coming', Due(c)) /\ One(Coming', Due(c)) /\ ~In(closeQ', {c}) /\ One(closeQ', {c})
  BY <1>1, <1>2, <1>9 DEF TokenOf, Less
<1>11. /\ ~In(ticks', Run(c)) /\ One(ticks', Run(c))
       /\ In(ticks', Sent(c)) => stage = "serving"
       /\ One(ticks', Sent(c))
  <2>1. CASE UNCHANGED ticks
    BY <1>1, <1>9, <2>1 DEF TokenOf
  <2>2. CASE \E k \in {"bound", "broken"} : ticks' = Append(ticks, Item(k, c))
    <3>1. PICK k \in {"bound", "broken"} : ticks' = Append(ticks, Item(k, c))
      BY <2>2
    <3>2. Item(k, c) \in Ticks /\ Item(k, c) \notin Run(c) /\ Item(k, c) \notin Sent(c)
      BY <1>1, ItemType, ItemsDiffer DEF Run, Sent
    <3> QED BY <1>1, <1>5, <1>9, <3>1, <3>2, InAppend DEF TokenOf, Less
  <2>3. CASE ticks' = Append(ticks, Item("serve", c)) /\ stage = "serving"
    <3>1. Item("serve", c) \in Ticks /\ Item("serve", c) \notin Run(c)
      BY <1>1, ItemType, ItemsDiffer DEF Run
    <3> QED BY <1>1, <1>5, <1>9, <2>3, <3>1, InAppend DEF TokenOf, Less
  <2> QED BY <1>3, <2>1, <2>2, <2>3
<1>12. (In(micros', {c}) => stage = "granted") /\ One(micros', {c})
  <2>1. CASE UNCHANGED micros
    BY <1>1, <1>9, <2>1 DEF TokenOf
  <2>2. CASE micros' = Append(micros, c) /\ stage = "granted"
    BY <1>1, <1>5, <2>2, InAppend
  <2> QED BY <1>3, <2>1, <2>2
<1>13. TokenOf(c)'
  BY <1>8, <1>10, <1>11, <1>12 DEF TokenOf
<1> QED BY <1>1, <1>3, <1>7, <1>13, OthersKept DEF Final, Ends

LEMMA RunBootToken ==
  ASSUME IInv, Tokens, RunBoot
  PROVE  \A d \in Callers : TokenOf(d)' /\ Final(d)
<1>1. /\ running = "no" /\ readyQ # <<>> /\ Head(readyQ).k = "boot" /\ UNCHANGED closeQ
  BY DEF RunBoot, Runs, ReadyRuns, close
<1>0. PICK c \in Callers : c = Current
  BY <1>1, TakesToken
<1>2. CASE AnswerAt(c) /\ UNCHANGED readyQ
  <2>1. running' # "no"
    BY <1>2 DEF AnswerAt
  <2> QED BY <1>0, <1>1, <1>2, <2>1, AnswerToken DEF AnswerAt
<1>3. CASE /\ readyQ' = readyQ \o HooksThenExit(c) /\ running' = "returns"
           /\ UNCHANGED <<call, ticks, micros>>
  <2>1. /\ Coming = readyQ /\ Tail(Coming) \in Seq(Items)
        /\ \A d \in Callers : Less(Coming, Tail(Coming), Due(d))
        /\ call[c].at = "waiting"
        /\ ~In(Tail(Coming), Due(c)) /\ ~In(ticks, Run(c)) /\ ~In(closeQ, {c})
    BY <1>0, <1>1, TakesToken
  <2>2. Coming' = Tail(Coming) \o HooksThenExit(c) /\ HooksThenExit(c) \in Seq(Items)
    BY <1>1, <1>3, <2>1, ComingHooks, HooksThenExitType
  <2>3. \A d \in Callers \ {c} : TokensLess(d)
    <3> SUFFICES ASSUME NEW d \in Callers \ {c} PROVE TokensLess(d)
      OBVIOUS
    <3>1. ~In(HooksThenExit(c), Due(d))
      BY <2>1, HooksThenExitDue
    <3>2. Less(Coming, Coming', Due(d))
      BY <2>1, <2>2, <3>1, InConcat DEF Less
    <3> QED BY <1>1, <1>3, <3>2, SameTicks, LessSame DEF TokensLess
  <2>4. \A d \in Callers \ {c} : TokenOf(d)' /\ Final(d)
    BY <1>3, <2>3, SameToken DEF Tokens
  <2>5. One(Coming', Due(c))
    BY <2>1, <2>2, HooksThenExitDue, InConcat
  <2>6. TokenOf(c)'
    BY <1>1, <1>3, <2>1, <2>5 DEF Tokens, TokenOf
  <2> QED BY <1>3, <2>4, <2>6 DEF Final
<1> QED BY <1>0, <1>2, <1>3 DEF RunBoot

LEMMA RunExitToken ==
  ASSUME IInv, Tokens, RunExit
  PROVE  \A d \in Callers : TokenOf(d)' /\ Final(d)
<1>1. /\ running = "no" /\ readyQ # <<>> /\ Head(readyQ).k = "exit"
      /\ UNCHANGED <<readyQ, closeQ>> /\ Answer(Current) /\ running' # "no"
  BY DEF RunExit, Runs, ReadyRuns, close, AnswerAt
<1> QED BY <1>1, AnswerToken

LEMMA RunCloseToken ==
  ASSUME IInv, Tokens, RunClose
  PROVE  \A d \in Callers : TokenOf(d)' /\ Final(d)
<1>0. PICK c \in Callers : c = Current
  BY TakesToken DEF RunClose, Runs, ReadyRuns
<1>1. /\ running = "no" /\ readyQ # <<>> /\ Head(readyQ).k = "close"
      /\ running' = "waits" /\ closeQ' = Append(closeQ, c)
      /\ ticks' = ticks \o <<Item("resume", c), Item("release", c)>>
      /\ UNCHANGED <<call, readyQ, micros>>
  BY <1>0 DEF RunClose, Runs, ReadyRuns
<1>2. /\ \A d \in Callers : Less(Coming, Tail(Coming), Due(d))
      /\ call[c].at = "waiting"
      /\ ~In(Tail(Coming), Due(c)) /\ ~In(ticks, Run(c)) /\ ~In(closeQ, {c})
  BY <1>0, <1>1, TakesToken
<1>3. Coming' = Tail(Coming)
  BY <1>1, ComingStarts
<1>4. \A d \in Callers : TicksLess(d)
  <2> SUFFICES ASSUME NEW d \in Callers PROVE TicksLess(d)
    OBVIOUS
  <2> DEFINE two == <<Item("resume", c), Item("release", c)>>
  <2>1. Item("resume", c) \in Ticks /\ Item("release", c) \in Ticks
    BY <1>2, ItemType
  <2>2. two \in Seq(Ticks) /\ \A i \in 1..Len(two) : two[i] \in {Item("resume", c), Item("release", c)}
    BY <2>1
  <2>3. \A x \in {Item("resume", c), Item("release", c)} : x \notin Run(d) /\ x \notin Sent(d)
    BY ItemsDiffer DEF Run, Sent
  <2>4. ticks' = ticks \o two
    BY <1>1
  <2> HIDE DEF two
  <2>5. ~In(two, Run(d)) /\ ~In(two, Sent(d))
    BY <2>2, <2>3 DEF In
  <2> QED BY <2>2, <2>4, <2>5, InConcat DEF IInv, TypeOK, TicksLess, Less
<1>5. closeQ \in Seq(OnClose \cup Callers) /\ c \in OnClose \cup Callers
  BY <1>2 DEF IInv, TypeOK
<1>6. /\ \A d \in Callers \ {c} : Less(closeQ, closeQ', {d})
      /\ One(closeQ', {c})
  BY <1>1, <1>2, <1>5, InAppend
<1>7. \A d \in Callers \ {c} : TokenOf(d)' /\ Final(d)
  BY <1>1, <1>2, <1>3, <1>4, <1>6, LessSame, SameToken DEF TokensLess, Tokens
<1>8. TokenOf(c)'
  BY <1>1, <1>2, <1>3, <1>4, <1>6 DEF Tokens, TokenOf, TicksLess, Less
<1> QED BY <1>1, <1>2, <1>7, <1>8 DEF Final

LEMMA RunHookToken ==
  ASSUME IInv, Tokens, RunHook \/ HookWaits
  PROVE  \A d \in Callers : TokenOf(d)' /\ Final(d)
<1>1. UNCHANGED <<call, readyQ, closeQ, ticks, micros>>
  BY DEF RunHook, HookWaits, close, loop
<1>2. \A d \in Callers : Less(Coming, Coming', Due(d))
  <2>1. CASE RunHook
    <3>1. running = "no" /\ running' # "no" /\ readyQ # <<>>
      BY <2>1 DEF RunHook, Runs, ReadyRuns
    <3>2. Coming' = Tail(Coming) /\ Coming = readyQ /\ readyQ \in Seq(Items)
      BY <1>1, <3>1, ComingStarts DEF IInv, TypeOK
    <3> QED BY <3>1, <3>2, InTail
  <2>2. CASE HookWaits
    <3>1. running # "no" /\ running' # "no"
      BY <2>2 DEF HookWaits, HookCalled
    <3>2. Coming' = Coming
      BY <1>1, <3>1 DEF Coming
    <3> QED BY <3>2, LessSame
  <2> QED BY <2>1, <2>2
<1> QED BY <1>1, <1>2, SameTicks, LessSame, SameToken DEF TokensLess, Tokens

LEMMA GoOnToken ==
  ASSUME IInv, Tokens, Return \/ HookSettles \/ Release
  PROVE  \A d \in Callers : TokenOf(d)' /\ Final(d)
<1>1. /\ GoOn /\ UNCHANGED <<call, closeQ, micros>>
      /\ UNCHANGED ticks \/ (ticks # <<>> /\ ticks' = Tail(ticks))
  BY DEF Return, HookSettles, Release, GoOn, TickNext, close, loop
<1>2. running # "no"
  <2>1. CASE Release
    <3>1. Has(ticks, "release")
      BY <2>1, TailElements DEF Release, TickNext, IInv, TypeOK, Has
    <3> QED BY <3>1 DEF IInv, Flowing
  <2> QED BY <2>1 DEF Return, HookSettles
<1>3. Coming' = Coming
  BY <1>1, <1>2, ComingGoesOn
<1>4. \A d \in Callers : TicksLess(d)
  BY <1>1, SameTicks, TailTicks DEF IInv
<1> QED BY <1>1, <1>3, <1>4, LessSame, SameToken DEF TokensLess, Tokens
-----------------------------------------------------------------------------
(* Promise jobs, the raw server and the queue of close.                    *)

LEMMA GrantedToken ==
  ASSUME IInv, Tokens, Granted
  PROVE  \A d \in Callers : TokenOf(d)' /\ Final(d)
<1>0. PICK c \in Callers : c = Head(micros)
  BY TailElements DEF Granted, MicroNext, IInv, TypeOK
<1>1. /\ micros # <<>> /\ micros' = Tail(micros) /\ micros \in Seq(Callers)
      /\ UNCHANGED <<readyQ, running, closeQ>> /\ Bind(c)
  BY <1>0 DEF Granted, MicroNext, queue, close, IInv, TypeOK
<1>2. TokenOf(c)
  BY DEF Tokens
<1>3. call[c].at = "granted" /\ ~In(micros', {c})
  BY <1>0, <1>1, <1>2, InTail DEF TokenOf
<1>4. PICK stage \in {"failed", "binding"} : To(c, stage)
  BY <1>1 DEF Bind
<1>5. \A d \in Callers : TicksLess(d)
  <2>1. CASE UNCHANGED ticks
    BY <2>1, SameTicks
  <2>2. CASE \E k \in {"bound", "broken"} : ticks' = Append(ticks, Item(k, c))
    BY <2>2, OtherTick DEF IInv
  <2> QED BY <1>1, <2>1, <2>2 DEF Bind, Open
<1>6. Coming' = Coming
  BY <1>1, SameComing
<1>7. \A d \in Callers : TokensLess(d)
  BY <1>1, <1>5, <1>6, InTail, LessSame DEF TokensLess
<1>8. call'[c].at = stage /\ stage \in Stages
  BY <1>4, ToStage DEF IInv, TypeOK, CallsType, Stages, Ends
<1>9. TokenOf(c)'
  BY <1>2, <1>3, <1>7, <1>8 DEF TokenOf, TokensLess, TicksLess, Less
<1> QED BY <1>3, <1>4, <1>7, <1>8, <1>9, OthersKept DEF Final, Ends

LEMMA LookupDoneToken ==
  ASSUME IInv, Tokens, LookupDone
  PROVE  \A d \in Callers : TokenOf(d)' /\ Final(d)
<1>1. UNCHANGED <<call, readyQ, running, closeQ, micros>>
  BY DEF LookupDone, queue, close
<1>2. PICK c \in Callers, k \in {"bound", "broken"} : ticks' = Append(ticks, Item(k, c))
  BY DEF LookupDone, Open
<1>3. \A d \in Callers : TicksLess(d)
  BY <1>2, OtherTick DEF IInv
<1> QED BY <1>1, <1>3, SameComing, LessSame, SameToken DEF TokensLess, Tokens

(* A call that the raw server reports on is binding, or unbound.           *)
LEMMA ReportToken ==
  ASSUME IInv, Tokens, Bound \/ Broken
  PROVE  \A d \in Callers : TokenOf(d)' /\ Final(d)
<1>1. /\ UNCHANGED <<readyQ, running, closeQ, micros>>
      /\ ticks # <<>> /\ ticks' = Tail(ticks)
  BY DEF Bound, Broken, TickNext, queue, close
<1>2. \A d \in Callers : TokensLess(d)
  BY <1>1, TailTicks, SameComing, LessSame DEF TokensLess, IInv
<1>3. \A d \in Callers : call'[d].at # call[d].at => d \in Binding \cup Unbound
  <2>1. CASE UNCHANGED call
    BY <2>1
  <2>2. CASE Report(Binding \cup Unbound, "done")
    BY <2>2, ReportStage DEF IInv, TypeOK, CallsType, Stages, Ends
  <2>3. CASE Report(Binding, "unbound")
    BY <2>3, ReportStage DEF IInv, TypeOK, CallsType, Stages, Ends
  <2> QED BY <2>1, <2>2, <2>3 DEF Bound, Broken
<1> SUFFICES ASSUME NEW d \in Callers PROVE TokenOf(d)' /\ Final(d)
  OBVIOUS
<1>4. CASE call'[d].at = call[d].at
  BY <1>2, <1>4, SameToken DEF Tokens
<1>5. CASE d \in Binding \cup Unbound
  BY <1>2, <1>5, NoToken DEF Tokens, Binding, Unbound, Final, Ends
<1> QED BY <1>3, <1>4, <1>5

(* closeQ loses its first function.                                        *)
LEMMA CloseLess ==
  ASSUME IInv, CloseRuns, closeQ' = Tail(closeQ), NEW d
  PROVE  Less(closeQ, closeQ', {d})
  BY InTail DEF IInv, TypeOK, CloseRuns

LEMMA CloseTokens ==
  ASSUME IInv, Tokens,
         \/ Resume \/ CloseServer \/ NoHandle \/ ServerClosed \/ CloseHook \/ CloseHookDone
  PROVE  \A d \in Callers : TokenOf(d)' /\ Final(d)
<1>1. UNCHANGED <<call, readyQ, running, micros>>
  BY DEF Resume, CloseServer, NoHandle, ServerClosed, CloseHook, CloseHookDone, queue, loop
<1>2. \A d \in Callers : Less(closeQ, closeQ', {d})
  BY CloseLess, LessSame DEF Resume, CloseServer, NoHandle, ServerClosed, CloseHook, CloseHookDone
<1>3. \A d \in Callers : TicksLess(d)
  <2>1. CASE UNCHANGED ticks
    BY <2>1, SameTicks
  <2>2. CASE ticks # <<>> /\ ticks' = Tail(ticks)
    BY <2>2, TailTicks DEF IInv
  <2>3. CASE CloseServer /\ ticks' = Append(ticks, Item("closed", closeQ[Len(closeQ)]))
    <3>1. closeQ[Len(closeQ)] \in Callers
      BY <2>3, ClosingStarts DEF CloseServer
    <3> QED BY <2>3, <3>1, OtherTick DEF IInv
  <2> QED BY <2>1, <2>2, <2>3
    DEF Resume, CloseServer, NoHandle, ServerClosed, CloseHook, CloseHookDone, TickNext, loop
<1> QED BY <1>1, <1>2, <1>3, SameComing, LessSame, SameToken DEF TokensLess, Tokens

LEMMA ClosedToken ==
  ASSUME IInv, Tokens, Closed
  PROVE  \A d \in Callers : TokenOf(d)' /\ Final(d)
<1>0. PICK c \in Callers : c = Head(closeQ)
  BY DEF Closed
<1>1. /\ CloseRuns /\ closeQ # <<>> /\ closeQ' = Tail(closeQ) /\ To(c, "done") /\ "done" \in Stages
      /\ UNCHANGED <<readyQ, running, ticks, micros>>
      /\ closeQ \in Seq(OnClose \cup Callers)
  BY <1>0 DEF Closed, CloseRuns, queue, loop, Stages, Ends, IInv, TypeOK
<1>2. \A d \in Callers : TokensLess(d)
  BY <1>1, CloseLess, SameTicks, SameComing, LessSame DEF TokensLess
<1>3. TokenOf(c)
  BY DEF Tokens
<1>4. call[c].at = "waiting" /\ ~In(closeQ', {c}) /\ ~In(ticks, Run(c)) /\ ~In(Coming, Due(c))
  BY <1>0, <1>1, <1>3, InTail DEF TokenOf
<1>5. call'[c].at = "done"
  BY <1>1, ToStage DEF IInv, TypeOK, CallsType
<1>6. TokenOf(c)'
  BY <1>2, <1>3, <1>4, <1>5 DEF TokenOf, TokensLess, TicksLess, Less
<1> QED BY <1>1, <1>2, <1>4, <1>6, OthersKept DEF Final, Ends

LEMMA ServeRequestToken ==
  ASSUME IInv, Tokens, ServeRequest
  PROVE  \A d \in Callers : TokenOf(d)' /\ Final(d)
<1>1. Head(ticks) \in Ticks
  BY TailElements DEF ServeRequest, TickNext, IInv, TypeOK
<1>0. PICK c \in Callers : c = Head(ticks).c
  BY <1>1 DEF Ticks
<1>2. /\ ticks # <<>> /\ ticks' = Tail(ticks) /\ ticks \in Seq(Ticks)
      /\ Head(ticks) = Item("serve", c)
      /\ UNCHANGED <<readyQ, running, closeQ, micros>>
  BY <1>0, <1>1 DEF ServeRequest, TickNext, queue, close, IInv, TypeOK, Ticks, Item
<1>3. PICK stage \in {"refused", "done"} : To(c, stage)
  BY <1>0 DEF ServeRequest
<1>4. \A d \in Callers : TokensLess(d)
  BY <1>2, TailTicks, SameComing, LessSame DEF TokensLess, IInv
<1>5. TokenOf(c) /\ Head(ticks) \in Sent(c)
  BY <1>2 DEF Tokens, Sent
<1>6. call[c].at = "serving" /\ ~In(ticks', Sent(c))
  BY <1>2, <1>5, InTail DEF TokenOf
<1>7. call'[c].at = stage /\ stage \in Stages
  BY <1>3, ToStage DEF IInv, TypeOK, CallsType, Stages, Ends
<1>8. TokenOf(c)'
  BY <1>4, <1>5, <1>6, <1>7 DEF TokenOf, TokensLess, TicksLess, Less
<1> QED BY <1>4, <1>6, <1>7, <1>8, <1>3, OthersKept DEF Final, Ends

LEMMA PluginsLoadedToken ==
  ASSUME IInv, Tokens, PluginsLoaded
  PROVE  \A d \in Callers : TokenOf(d)' /\ Final(d)
<1>1. /\ UNCHANGED <<call, readyQ, running, ticks, micros>>
      /\ closeQ' = <<"server">> \o closeQ
  BY DEF PluginsLoaded
<1>2. \A d \in Callers : Less(closeQ, closeQ', {d})
  <2> SUFFICES ASSUME NEW d \in Callers PROVE Less(closeQ, closeQ', {d})
    OBVIOUS
  <2>1. closeQ \in Seq(OnClose \cup Callers) /\ "server" \in OnClose /\ "server" # d
    BY ServerAssumption DEF IInv, TypeOK, OnClose
  <2>2. /\ <<"server">> \in Seq(OnClose \cup Callers)
        /\ \A i \in 1..Len(<<"server">>) : <<"server">>[i] = "server"
    BY <2>1
  <2> DEFINE first == <<"server">>
  <2>3. first \in Seq(OnClose \cup Callers) /\ \A i \in 1..Len(first) : first[i] = "server"
    BY <2>2
  <2>4. closeQ' = first \o closeQ
    BY <1>1
  <2> HIDE DEF first
  <2>5. ~In(first, {d}) /\ One(first, {d})
    BY <2>1, <2>3 DEF In, One
  <2>6. In(closeQ', {d}) => In(closeQ, {d})
    BY <2>1, <2>3, <2>4, <2>5, InConcat
  <2>7. ~In(first, {d}) /\ One(closeQ, {d}) => One(first \o closeQ, {d})
    BY <2>1, <2>3, InConcat
  <2> QED BY <2>4, <2>5, <2>6, <2>7 DEF Less
<1> QED BY <1>1, <1>2, SameTicks, SameComing, LessSame, SameToken DEF TokensLess, Tokens

LEMMA StepToken ==
  ASSUME IInv, Tokens, [Next]_vars
  PROVE  Tokens' /\ \A c \in Callers : Final(c)
<1>1. CASE \E c \in Callers : Call(c)
  BY <1>1, CallsToken, CallCloseToken DEF Call, Tokens
<1>2. CASE RunHooks \/ RunBoot \/ RunExit \/ RunClose
  BY <1>2, RunHooksToken, RunBootToken, RunExitToken, RunCloseToken DEF Tokens
<1>3. CASE HookWaits \/ RunHook \/ Return \/ HookSettles \/ Release
  BY <1>3, RunHookToken, GoOnToken DEF Tokens
<1>4. CASE Granted \/ LookupDone \/ Bound \/ Broken
  BY <1>4, GrantedToken, LookupDoneToken, ReportToken DEF Tokens
<1>5. CASE \/ Resume \/ CloseServer \/ NoHandle \/ ServerClosed \/ CloseHook \/ CloseHookDone
  BY <1>5, CloseTokens DEF Tokens
<1>6. CASE PluginsLoaded \/ ServeRequest \/ Closed
  BY <1>6, PluginsLoadedToken, ServeRequestToken, ClosedToken DEF Tokens
<1>7. CASE UNCHANGED vars
  <2>1. UNCHANGED <<call, readyQ, running, closeQ, ticks, micros>>
    BY <1>7 DEF vars, queue, close, loop
  <2>2. \A d \in Callers : TokenOf(d)' /\ Final(d)
    BY <2>1, SameTicks, SameComing, LessSame, SameToken DEF TokensLess, Tokens
  <2> QED BY <2>2 DEF Tokens
<1> QED BY <1>1, <1>2, <1>3, <1>4, <1>5, <1>6, <1>7 DEF Next, Progress, Avvio

LEMMA InitTokens ==
  ASSUME Init
  PROVE  Tokens
<1> SUFFICES ASSUME NEW c \in Callers PROVE TokenOf(c)
  BY DEF Tokens
<1>1. ticks = <<>> /\ micros = <<>> /\ Coming = <<>> /\ closeQ = <<"hook">>
  BY DEF Init, Coming
<1>2. c # "hook"
  BY ServerAssumption
<1>3. \A P : ~In(<<>>, P) /\ One(<<>>, P)
  BY DEF In, One
<1>4. ~In(closeQ, {c}) /\ One(closeQ, {c})
  BY <1>1, <1>2 DEF In, One
<1> QED BY <1>1, <1>3, <1>4 DEF TokenOf
-----------------------------------------------------------------------------
(* The onReady hooks.                                                      *)

(* What lets a request through although a hook has failed or not run.      *)
Excused == Closers # {} \/ \E c \in Callers : call[c].at = "failed"
ReadyDone == ran = OnReadyHooks \/ Excused

(* The answer at position i of avvio's queue has the hooks right before    *)
(* it, those that ran already excepted; an error among them reaches it.    *)
Behind(i) ==
  /\ \A j \in 1..(i - 1) : j >= i - OnReadyHooks => readyQ[j].k = "hook"
  /\ ran + i - 1 >= OnReadyHooks \/ bootErr \/ Excused
InOrder ==
  /\ \A i \in 1..Len(readyQ) : readyQ[i].k = "exit" => Behind(i)
  /\ \A i \in 1..Len(readyQ) : readyQ[i].k = "close" => call[readyQ[i].c].at # "idle"
  /\ readyQ # <<>> => readyQ[Len(readyQ)].k # "hook"
  /\ boot # "flowing" => \A i \in 1..Len(readyQ) : readyQ[i].k \in {"boot", "close"}
  /\ running # "no" /\ Head(readyQ).k = "hook" => (bootErr <=> running = "returns")

(* The server is, or is about to be, where requests can reach it.          *)
Opened ==
  \/ running # "no" /\ Tail(readyQ) = <<>>
  \/ started \/ server # "idle" \/ lookups > 0 \/ micros # <<>>
  \/ \E c \in Callers : call[c].at = "serving"
Served == Opened => ReadyDone

RInv == IInv /\ Tokens /\ InOrder /\ Served

(* No call is taken back.                                                  *)
CallsGoOn ==
  \A c \in Callers :
    /\ call'[c].kind = call[c].kind
    /\ call[c].at # "idle" => call'[c].at # "idle"

LEMMA ToGoesOn ==
  ASSUME TypeOK, NEW c \in Callers, NEW stage \in Stages, stage # "idle", To(c, stage)
  PROVE  CallsGoOn
  BY ToStage DEF TypeOK, CallsType, CallsGoOn

LEMMA ReportGoesOn ==
  ASSUME TypeOK, NEW waiting, NEW stage \in {"done", "unbound"}, Report(waiting, stage)
  PROVE  CallsGoOn
<1>1. stage \in Stages /\ stage # "idle"
  BY DEF Stages, Ends
<1> QED BY <1>1, ReportStage DEF TypeOK, CallsType, CallsGoOn

LEMMA AnswerGoesOn ==
  ASSUME TypeOK, NEW c \in Callers, Answer(c)
  PROVE  CallsGoOn
  BY AnswerMoves, ToGoesOn DEF Stages, Ends

LEMMA StepGoesOn ==
  ASSUME IInv, [Next]_vars
  PROVE  CallsGoOn
<1> USE DEF Stages, Ends
<1>0. TypeOK
  BY DEF IInv
<1>1. CASE UNCHANGED call
  BY <1>1 DEF CallsGoOn
<1>2. CASE \E c \in Callers : Call(c)
  <2>1. PICK c \in Callers, stage \in {"waiting", "refused", "serving"} : To(c, stage)
    BY <1>2 DEF Call, CallReady, CallListenPromise, CallInject, CallClose, WaitForReady, Refuse,
                Serve
  <2> QED BY <1>0, <2>1, ToGoesOn
<1>3. CASE (RunBoot /\ AnswerAt(Current)) \/ RunExit
  <2>1. Current \in Callers
    BY <1>3, HeadItem DEF RunBoot, RunExit, Runs, ReadyRuns
  <2> QED BY <1>0, <1>3, <2>1, AnswerGoesOn DEF RunExit, AnswerAt
<1>4. CASE Granted
  <2>1. Head(micros) \in Callers
    BY <1>0, <1>4, TailElements DEF Granted, MicroNext, TypeOK
  <2>2. PICK stage \in {"failed", "binding"} : To(Head(micros), stage)
    BY <1>4 DEF Granted, Bind
  <2> QED BY <1>0, <2>1, <2>2, ToGoesOn
<1>5. CASE ServeRequest
  <2>1. Head(ticks) \in Ticks
    BY <1>0, <1>5, TailElements DEF ServeRequest, TickNext, TypeOK
  <2>2. Head(ticks).c \in Callers
    BY <2>1 DEF Ticks
  <2>3. PICK stage \in {"refused", "done"} : To(Head(ticks).c, stage)
    BY <1>5 DEF ServeRequest
  <2> QED BY <1>0, <2>2, <2>3, ToGoesOn
<1>6. CASE Closed
  BY <1>0, <1>6, ToGoesOn DEF Closed
<1>7. CASE Bound \/ Broken
  BY <1>0, <1>1, <1>7, ReportGoesOn DEF Bound, Broken
<1>8. CASE RunBoot /\ ~AnswerAt(Current)
  BY <1>1, <1>8 DEF RunBoot
<1>9. CASE \/ PluginsLoaded \/ RunHooks \/ RunHook \/ HookWaits \/ RunClose \/ Return \/ HookSettles
           \/ Release \/ Resume \/ LookupDone \/ UNCHANGED vars
  BY <1>1, <1>9 DEF PluginsLoaded, RunHooks, RunHook, HookWaits, RunClose, Return, HookSettles,
     Release, Resume, LookupDone, GoOn, vars
<1>10. CASE CloseServer \/ NoHandle \/ ServerClosed \/ CloseHook \/ CloseHookDone
  BY <1>1, <1>10 DEF CloseServer, NoHandle, ServerClosed, CloseHook, CloseHookDone
<1> QED BY <1>2, <1>3, <1>4, <1>5, <1>6, <1>7, <1>8, <1>9, <1>10 DEF Next, Progress, Avvio, Call

LEMMA ExcusedStays ==
  ASSUME IInv, Tokens, [Next]_vars, Excused
  PROVE  Excused'
<1>1. CallsGoOn /\ \A c \in Callers : Final(c)
  BY StepGoesOn, StepToken
<1>2. CASE Closers # {}
  BY <1>1, <1>2 DEF CallsGoOn, Closers, Made, Excused
<1>3. CASE \E c \in Callers : call[c].at = "failed"
  BY <1>1, <1>3 DEF Final, Ends, Excused
<1> QED BY <1>2, <1>3 DEF Excused

LEMMA ReadyDoneStays ==
  ASSUME IInv, Tokens, [Next]_vars, ReadyDone, ran' = ran \/ \E hook : Ran(hook)
  PROVE  ReadyDone'
<1>1. ran = OnReadyHooks => ran' = OnReadyHooks
  BY ServerAssumption DEF Ran
<1> QED BY <1>1, ExcusedStays DEF ReadyDone
-----------------------------------------------------------------------------
(* How a step moves avvio's queue.                                         *)

LEMMA QueueCallers ==
  ASSUME NEW q \in Seq(Items)
  PROVE  \A i \in 1..Len(q) : q[i].c \in Callers
<1>1. \A i \in 1..Len(q) : q[i] \in Items
  OBVIOUS
<1> QED BY <1>1 DEF Items

(* It leaves it alone.                                                     *)
LEMMA OrderSame ==
  ASSUME RInv, [Next]_vars, UNCHANGED <<readyQ, running, bootErr, boot, ran>>
  PROVE  InOrder'
<1>1. Excused => Excused'
  BY ExcusedStays DEF RInv
<1>2. \A i \in 1..Len(readyQ) : readyQ[i].k = "exit" => Behind(i)'
  BY <1>1 DEF RInv, InOrder, Behind
<1>3. \A i \in 1..Len(readyQ) : readyQ[i].c \in Callers
  BY QueueCallers DEF RInv, IInv, TypeOK
<1>4. \A i \in 1..Len(readyQ) : readyQ[i].k = "close" => call'[readyQ[i].c].at # "idle"
  BY <1>3, StepGoesOn DEF RInv, InOrder, CallsGoOn
<1> QED BY <1>2, <1>4 DEF RInv, InOrder

(* It puts ready or close into it.                                         *)
LEMMA OrderAppend ==
  ASSUME RInv, [Next]_vars, UNCHANGED <<running, bootErr, ran>>, NEW r \in Items,
         readyQ' = Append(readyQ, r), r.k \in {"boot", "close"},
         r.k = "close" => call'[r.c].at # "idle",
         boot = "flowing" => boot' = "flowing"
  PROVE  InOrder'
<1>1. Excused => Excused'
  BY ExcusedStays DEF RInv
<1>2. /\ readyQ \in Seq(Items) /\ Len(readyQ) \in Nat /\ Len(readyQ') = Len(readyQ) + 1
      /\ \A i \in 1..Len(readyQ) : readyQ'[i] = readyQ[i]
      /\ readyQ'[Len(readyQ) + 1] = r
      /\ readyQ # <<>> => Head(readyQ') = Head(readyQ)
      /\ running # "no" => readyQ # <<>>
  BY DEF RInv, IInv, TypeOK, Flowing
<1>3. ASSUME NEW i \in 1..Len(readyQ'), readyQ'[i].k = "exit"
      PROVE  Behind(i)'
  <2>1. i \in 1..Len(readyQ) /\ readyQ[i].k = "exit"
    BY <1>2, <1>3
  <2>2. \A j \in 1..(i - 1) : j \in 1..Len(readyQ)
    BY <1>2, <2>1
  <2> QED BY <1>1, <1>2, <2>1, <2>2 DEF RInv, InOrder, Behind
<1>4. ASSUME NEW i \in 1..Len(readyQ'), readyQ'[i].k = "close"
      PROVE  call'[readyQ'[i].c].at # "idle"
  <2>1. CASE i = Len(readyQ) + 1
    BY <1>2, <1>4, <2>1
  <2>2. CASE i \in 1..Len(readyQ)
    <3>1. readyQ[i] \in Items /\ readyQ[i].k = "close" /\ readyQ'[i] = readyQ[i]
      BY <1>2, <1>4, <2>2
    <3>2. readyQ[i].c \in Callers
      BY <3>1 DEF Items
    <3> QED BY <2>2, <3>1, <3>2, StepGoesOn DEF RInv, InOrder, CallsGoOn
  <2> QED BY <1>2, <2>1, <2>2
<1>5. readyQ'[Len(readyQ')].k # "hook"
  BY <1>2
<1>6. boot' # "flowing" => \A i \in 1..Len(readyQ') : readyQ'[i].k \in {"boot", "close"}
  BY <1>2 DEF RInv, InOrder
<1>7. running' # "no" /\ Head(readyQ').k = "hook" => (bootErr' <=> running' = "returns")
  BY <1>2 DEF RInv, InOrder
<1> QED BY <1>3, <1>4, <1>5, <1>6, <1>7 DEF InOrder

(* Its first function starts or goes on; the error before it is reset by   *)
(* a function that is no hook.                                             *)
LEMMA OrderStart ==
  ASSUME RInv, [Next]_vars, UNCHANGED <<readyQ, boot, ran>>, boot = "flowing", readyQ # <<>>,
         bootErr' = bootErr \/ Head(readyQ).k = "boot" \/ Excused,
         Head(readyQ).k = "hook" => (bootErr' <=> running' = "returns")
  PROVE  InOrder'
<1>1. Excused => Excused'
  BY ExcusedStays DEF RInv
<1>2. readyQ \in Seq(Items) /\ Len(readyQ) \in Nat /\ Head(readyQ) = readyQ[1] /\ Len(readyQ) >= 1
  BY DEF RInv, IInv, TypeOK
<1>3. ASSUME NEW i \in 1..Len(readyQ), readyQ[i].k = "exit"
      PROVE  Behind(i)'
  <2>1. Behind(i)
    BY <1>3 DEF RInv, InOrder
  <2>2. CASE Head(readyQ).k = "boot"
    <3>1. i # 1 /\ ~(1 >= i - OnReadyHooks)
      BY <1>2, <1>3, <2>1, <2>2 DEF Behind
    <3>2. ran' + i - 1 >= OnReadyHooks
      BY <3>1, ServerAssumption DEF RInv, IInv, TypeOK
    <3> QED BY <2>1, <3>2 DEF Behind
  <2>3. CASE bootErr' = bootErr \/ Excused
    BY <1>1, <2>1, <2>3 DEF Behind
  <2> QED BY <2>2, <2>3
<1>4. \A i \in 1..Len(readyQ) : readyQ[i].c \in Callers
  BY QueueCallers DEF RInv, IInv, TypeOK
<1>5. \A i \in 1..Len(readyQ) : readyQ[i].k = "close" => call'[readyQ[i].c].at # "idle"
  BY <1>4, StepGoesOn DEF RInv, InOrder, CallsGoOn
<1> QED BY <1>3, <1>5 DEF RInv, InOrder

(* Its first function is done.                                             *)
LEMMA OrderGoOn ==
  ASSUME RInv, [Next]_vars, GoOn, running # "no",
         IF Head(readyQ).k = "hook"
         THEN \/ bootErr'
              \/ ~bootErr /\ ran' = IF ran < OnReadyHooks THEN ran + 1 ELSE ran
         ELSE ran' = ran
  PROVE  InOrder'
<1>1. Excused => Excused'
  BY ExcusedStays DEF RInv
<1>2. /\ readyQ \in Seq(Items) /\ Len(readyQ) \in Nat /\ Len(readyQ) >= 1
      /\ Head(readyQ) = readyQ[1] /\ readyQ' = Tail(readyQ)
      /\ Len(readyQ') = Len(readyQ) - 1
      /\ \A i \in 1..(Len(readyQ) - 1) : readyQ'[i] = readyQ[i + 1] /\ i + 1 \in 1..Len(readyQ)
      /\ boot = "flowing" /\ boot' = boot /\ running' = "no"
      /\ UNCHANGED call
  BY DEF RInv, IInv, TypeOK, Flowing, GoOn
<1>3. ran \in Nat /\ ran <= OnReadyHooks /\ OnReadyHooks \in Nat
  BY ServerAssumption DEF RInv, IInv, TypeOK
<1>4. ASSUME NEW i \in 1..(Len(readyQ) - 1), readyQ[i + 1].k = "exit"
      PROVE  Behind(i)'
  <2>1. i + 1 \in 1..Len(readyQ)
    BY <1>2
  <2>2. Behind(i + 1)
    BY <1>4, <2>1 DEF RInv, InOrder
  <2>3. ASSUME NEW j \in 1..(i - 1), j >= i - OnReadyHooks
        PROVE  readyQ'[j].k = "hook"
    <3>1. j + 1 \in 1..((i + 1) - 1) /\ j + 1 >= (i + 1) - OnReadyHooks
      BY <1>3, <2>3
    <3>2. readyQ[j + 1].k = "hook"
      BY <2>2, <3>1 DEF Behind
    <3>3. j \in 1..(Len(readyQ) - 1)
      BY <1>2
    <3> QED BY <1>2, <3>2, <3>3
  <2>4. ran' + i - 1 >= OnReadyHooks \/ bootErr' \/ Excused'
    <3>1. CASE Head(readyQ).k = "hook"
      <4>1. CASE bootErr'
        BY <4>1
      <4>2. CASE ~bootErr /\ ran' = IF ran < OnReadyHooks THEN ran + 1 ELSE ran
        <5>1. ran + (i + 1) - 1 >= OnReadyHooks \/ Excused
          BY <2>2, <4>2 DEF Behind
        <5> QED BY <1>1, <1>3, <4>2, <5>1
      <4> QED BY <3>1, <4>1, <4>2
    <3>2. CASE Head(readyQ).k # "hook"
      <4>1. 1 \in 1..((i + 1) - 1)
        BY <1>2
      <4>2. ~(1 >= (i + 1) - OnReadyHooks)
        BY <1>2, <2>2, <3>2, <4>1 DEF Behind
      <4> QED BY <1>3, <3>2, <4>2
    <3> QED BY <3>1, <3>2
  <2> QED BY <2>3, <2>4 DEF Behind
<1>5. \A i \in 1..Len(readyQ') : readyQ'[i].k = "exit" => Behind(i)'
  BY <1>2, <1>4
<1>6. \A i \in 1..Len(readyQ') : readyQ'[i].k = "close" => call'[readyQ'[i].c].at # "idle"
  BY <1>2 DEF RInv, InOrder
<1>7. readyQ' # <<>> => readyQ'[Len(readyQ')].k # "hook"
  <2> SUFFICES ASSUME readyQ' # <<>> PROVE readyQ'[Len(readyQ')].k # "hook"
    OBVIOUS
  <2>1. readyQ'[Len(readyQ')] = readyQ[Len(readyQ)] /\ readyQ # <<>>
    BY <1>2, TailElements
  <2> QED BY <2>1 DEF RInv, InOrder
<1> QED BY <1>2, <1>5, <1>6, <1>7 DEF InOrder

(* The hooks and the answer of c are put behind what is in it.             *)
LEMMA OrderHooks ==
  ASSUME RInv, [Next]_vars, UNCHANGED <<boot, ran>>, boot = "flowing",
         readyQ # <<>>, Head(readyQ).k = "boot", NEW c \in Callers,
         readyQ' = readyQ \o HooksThenExit(c)
  PROVE  InOrder'
<1> DEFINE hooks == HooksThenExit(c)
           n == Len(readyQ)
<1>1. Excused => Excused'
  BY ExcusedStays DEF RInv
<1>2. ran \in Nat /\ ran <= OnReadyHooks /\ OnReadyHooks \in Nat
  BY ServerAssumption DEF RInv, IInv, TypeOK
<1>3. /\ hooks \in Seq(Items) /\ Len(hooks) = OnReadyHooks + 1
      /\ \A i \in 1..OnReadyHooks : hooks[i].k = "hook"
      /\ hooks[OnReadyHooks + 1].k = "exit"
  <2>1. /\ Len(hooks) = OnReadyHooks + 1
        /\ \A i \in 1..OnReadyHooks : hooks[i] = Item("hook", c)
        /\ hooks[OnReadyHooks + 1] = Item("exit", c)
    BY <1>2 DEF HooksThenExit
  <2> QED BY <2>1, HooksThenExitType, ItemType
<1>4. readyQ \in Seq(Items) /\ n \in Nat /\ n >= 1 /\ Head(readyQ) = readyQ[1]
  BY DEF RInv, IInv, TypeOK
<1>5. readyQ' = readyQ \o hooks
  OBVIOUS
<1> HIDE DEF hooks
<1>6. /\ Len(readyQ') = n + OnReadyHooks + 1
      /\ \A i \in 1..n : readyQ'[i] = readyQ[i]
      /\ \A i \in 1..(OnReadyHooks + 1) : readyQ'[n + i] = hooks[i]
      /\ readyQ' # <<>> /\ Head(readyQ') = Head(readyQ)
  <2>1. readyQ' # <<>> /\ Head(readyQ') = Head(readyQ)
    BY <1>3, <1>4, <1>5, ConcatElements
  <2>2. Len(readyQ') = n + OnReadyHooks + 1
    <3>1. Len(readyQ \o hooks) = n + Len(hooks)
      BY <1>3, <1>4, ConcatLength
    <3> QED BY <1>2, <1>3, <1>4, <1>5, <3>1
  <2>3. \A i \in 1..n : readyQ'[i] = readyQ[i]
    BY <1>3, <1>4, <1>5
  <2>4. \A i \in 1..Len(hooks) : readyQ'[n + i] = hooks[i]
    BY <1>3, <1>4, <1>5
  <2> QED BY <1>3, <2>1, <2>2, <2>3, <2>4
<1> HIDE DEF n
<1>7. /\ \A i \in (n + 1)..(n + OnReadyHooks) : readyQ'[i].k = "hook"
      /\ readyQ'[n + OnReadyHooks + 1].k = "exit"
  <2>1. ASSUME NEW i \in (n + 1)..(n + OnReadyHooks)
        PROVE  readyQ'[i].k = "hook"
    <3>1. i - n \in 1..OnReadyHooks /\ i - n \in 1..(OnReadyHooks + 1) /\ n + (i - n) = i
      BY <1>2, <1>4
    <3> QED BY <1>3, <1>6, <3>1
  <2>2. OnReadyHooks + 1 \in 1..(OnReadyHooks + 1) /\ n + (OnReadyHooks + 1) = n + OnReadyHooks + 1
    BY <1>2, <1>4
  <2> QED BY <1>3, <1>6, <2>1, <2>2
<1>8. ASSUME NEW i \in 1..Len(readyQ'), readyQ'[i].k = "exit"
      PROVE  Behind(i)'
  <2>1. CASE i \in 1..n
    <3>1. Behind(i)
      BY <1>6, <1>8, <2>1 DEF RInv, InOrder, n
    <3>2. 1 # i /\ ~(1 >= i - OnReadyHooks)
      BY <1>2, <1>4, <1>6, <1>8, <2>1, <3>1 DEF Behind
    <3>3. \A j \in 1..(i - 1) : j \in 1..n
      BY <1>4, <2>1
    <3> QED BY <1>2, <1>6, <2>1, <3>1, <3>2, <3>3 DEF Behind
  <2>2. CASE i \notin 1..n
    <3>1. i = n + OnReadyHooks + 1
      BY <1>2, <1>4, <1>6, <1>7, <1>8, <2>2
    <3>2. \A j \in 1..(i - 1) : j >= i - OnReadyHooks => j \in (n + 1)..(n + OnReadyHooks)
      BY <1>2, <1>4, <3>1
    <3>3. ran' + i - 1 >= OnReadyHooks
      BY <1>2, <1>4, <3>1
    <3> QED BY <1>7, <3>2, <3>3 DEF Behind
  <2> QED BY <2>1, <2>2
<1>9. ASSUME NEW i \in 1..Len(readyQ'), readyQ'[i].k = "close"
      PROVE  call'[readyQ'[i].c].at # "idle"
  <2>1. i \in 1..n
    BY <1>2, <1>4, <1>6, <1>7, <1>9
  <2>2. readyQ[i].c \in Callers
    BY <1>4, <2>1, QueueCallers DEF n
  <2> QED BY <1>6, <1>9, <2>1, <2>2, StepGoesOn DEF RInv, InOrder, CallsGoOn, n
<1>10. readyQ'[Len(readyQ')].k # "hook"
  BY <1>6, <1>7
<1> QED BY <1>6, <1>8, <1>9, <1>10 DEF InOrder
-----------------------------------------------------------------------------
(* The steps.                                                              *)

LEMMA TailRest ==
  ASSUME NEW S, NEW q \in Seq(S), q # <<>>
  PROVE  /\ \A x \in S : Tail(Append(q, x)) # <<>>
         /\ \A r \in Seq(S) : Len(r) >= 1 => Tail(q \o r) # <<>>
         /\ Tail(q) = <<>> => Head(q) = q[Len(q)]
<1>0. Len(<<>>) = 0
  OBVIOUS
<1>1. ASSUME NEW x \in S PROVE Tail(Append(q, x)) # <<>>
  <2>1. Tail(Append(q, x)) = Append(Tail(q), x) /\ Tail(q) \in Seq(S)
    BY AppendElements, TailElements
  <2> QED BY <2>1, AppendElements
<1>2. ASSUME NEW r \in Seq(S), Len(r) >= 1 PROVE Tail(q \o r) # <<>>
  <2>1. Tail(q \o r) = Tail(q) \o r /\ Tail(q) \in Seq(S)
    BY TailConcat, TailElements
  <2>2. Len(Tail(q) \o r) >= 1
    BY <1>2, <2>1
  <2>3. Len(Tail(q) \o r) # Len(<<>>)
    BY <1>0, <2>2
  <2> QED BY <2>1, <2>3
<1>3. ASSUME Tail(q) = <<>> PROVE Head(q) = q[Len(q)]
  <2> DEFINE m == Len(Tail(q))
  <2>1. Len(q) \in Nat /\ m = Len(q) - 1 /\ Head(q) = q[1]
    OBVIOUS
  <2>2. m = 0
    BY <1>0, <1>3
  <2> HIDE DEF m
  <2>3. Len(q) = 1
    BY <2>1, <2>2
  <2> QED BY <2>1, <2>3
<1> QED BY <1>1, <1>2, <1>3

(* A step that opens nothing.                                              *)
LEMMA ServedStays ==
  ASSUME RInv, [Next]_vars, Opened' => Opened, ran' = ran \/ \E hook : Ran(hook)
  PROVE  Served'
  BY ReadyDoneStays DEF RInv, Served

LEMMA SameServing ==
  ASSUME UNCHANGED call
  PROVE  (\E c \in Callers : call[c].at = "serving")' => \E c \in Callers : call[c].at = "serving"
  OBVIOUS

(* A call goes to a stage other than serving.                              *)
LEMMA NoneServed ==
  ASSUME TypeOK, NEW c \in Callers, NEW stage \in Stages, stage # "serving", To(c, stage)
  PROVE  (\E d \in Callers : call[d].at = "serving")' => \E d \in Callers : call[d].at = "serving"
  BY ToStage DEF TypeOK, CallsType

LEMMA NoneReported ==
  ASSUME TypeOK, NEW waiting, NEW stage \in {"done", "unbound"}, Report(waiting, stage)
  PROVE  (\E d \in Callers : call[d].at = "serving")' => \E d \in Callers : call[d].at = "serving"
<1>1. stage \in Stages /\ stage # "serving"
  BY DEF Stages, Ends
<1> QED BY <1>1, ReportStage DEF TypeOK, CallsType

LEMMA CallsReady ==
  ASSUME RInv, NEW c \in Callers, Call(c)
  PROVE  InOrder' /\ Served'
<1>1. [Next]_vars
  BY DEF Next
<1>2. UNCHANGED <<running, bootErr, started, server, lookups, micros, ran>>
  BY DEF Call, CallReady, CallListenPromise, CallInject, CallClose, queue, state, close
<1>3. (\E d \in Callers : call[d].at = "serving")' =>
        started \/ \E d \in Callers : call[d].at = "serving"
  <2>1. CASE \E stage \in {"waiting", "refused"} : To(c, stage)
    BY <2>1, NoneServed DEF RInv, IInv, Stages, Ends
  <2>2. CASE started
    BY <2>2
  <2> QED BY <2>1, <2>2
    DEF Call, CallReady, CallListenPromise, CallInject, CallClose, WaitForReady, Refuse
<1>4. CASE CallReady(c) \/ CallListenPromise(c) \/ CallInject(c)
  <2>1. UNCHANGED <<readyQ, boot>>
    BY <1>4 DEF CallReady, CallListenPromise, CallInject, queue
  <2>2. Opened' => Opened
    BY <1>2, <1>3, <2>1 DEF Opened
  <2> QED BY <1>1, <1>2, <2>1, <2>2, OrderSame, ServedStays
<1>5. CASE CallClose(c)
  <2>1. /\ readyQ' = Append(readyQ, Item("close", c)) /\ To(c, "waiting") /\ "waiting" \in Stages
        /\ boot = "flowing" => boot' = "flowing"
    BY <1>5 DEF CallClose, Start, Stages
  <2>2. call'[c].at # "idle"
    BY <2>1, ToStage DEF RInv, IInv, TypeOK, CallsType
  <2>3. Item("close", c) \in Items /\ Item("close", c).k = "close" /\ Item("close", c).c = c
    BY ItemType
  <2>4. InOrder'
    BY <1>1, <1>2, <2>1, <2>2, <2>3, OrderAppend
  <2>5. running # "no" => Tail(readyQ') # <<>>
    BY <2>1, <2>3, TailRest DEF RInv, IInv, TypeOK, Flowing
  <2>6. Opened' => Opened
    BY <1>2, <1>3, <2>5 DEF Opened
  <2> QED BY <1>1, <1>2, <2>4, <2>6, ServedStays
<1> QED BY <1>4, <1>5 DEF Call

LEMMA RunHooksReady ==
  ASSUME RInv, RunHooks
  PROVE  InOrder' /\ Served'
<1>0. PICK c \in Callers : c = Head(ticks).c
  <2>1. Head(ticks) \in Ticks
    BY TailElements DEF RunHooks, TickNext, RInv, IInv, TypeOK
  <2> QED BY <2>1 DEF Ticks
<1>1. [Next]_vars
  BY DEF Next, Progress
<1>2. /\ UNCHANGED <<call, running, bootErr, started, server, lookups, micros, ran>>
      /\ readyQ' = Append(readyQ, Item("boot", c))
      /\ boot = "flowing" => boot' = "flowing"
  BY <1>0 DEF RunHooks, Start, state
<1>3. Item("boot", c) \in Items /\ Item("boot", c).k = "boot"
  BY ItemType
<1>4. InOrder'
  BY <1>1, <1>2, <1>3, OrderAppend
<1>5. running # "no" => Tail(readyQ') # <<>>
  BY <1>2, <1>3, TailRest DEF RInv, IInv, TypeOK, Flowing
<1>6. Opened' => Opened
  BY <1>2, <1>5 DEF Opened
<1> QED BY <1>1, <1>2, <1>4, <1>6, ServedStays

(* An answer opens the server only when there was no error.                *)
LEMMA AnswerFails ==
  ASSUME IInv, NEW c \in Callers, Answer(c), bootErr
  PROVE  Excused'
<1>1. To(c, "failed") /\ "failed" \in Stages
  BY DEF Answer, Stages, Ends
<1>2. call'[c].at = "failed"
  BY <1>1, ToStage DEF IInv, TypeOK, CallsType
<1> QED BY <1>2 DEF Excused

LEMMA RunBootReady ==
  ASSUME RInv, RunBoot
  PROVE  InOrder' /\ Served'
<1>1. [Next]_vars
  BY DEF Next, Progress, Avvio
<1>2. /\ boot = "flowing" /\ running = "no" /\ readyQ # <<>> /\ Head(readyQ).k = "boot"
      /\ bootErr' = FALSE /\ UNCHANGED <<boot, started, ran>>
  BY DEF RunBoot, Runs, ReadyRuns
<1>3. Current \in Callers
  BY <1>2, HeadItem DEF RInv
<1>4. CASE AnswerAt(Current) /\ UNCHANGED readyQ /\ (bootErr \/ started \/ OnReadyHooks = 0)
  <2>1. InOrder'
    BY <1>1, <1>2, <1>4, OrderStart
  <2>2. CASE bootErr
    BY <1>3, <1>4, <2>1, <2>2, AnswerFails DEF AnswerAt, RInv, Served, ReadyDone
  <2>3. CASE started \/ OnReadyHooks = 0
    <3>1. ReadyDone
      BY <2>3 DEF RInv, IInv, TypeOK, Served, Opened, ReadyDone
    <3>2. ReadyDone'
      BY <1>1, <1>2, <3>1, ReadyDoneStays DEF RInv
    <3> QED BY <2>1, <3>2 DEF Served
  <2> QED BY <1>4, <2>2, <2>3
<1>5. CASE /\ readyQ' = readyQ \o HooksThenExit(Current)
           /\ UNCHANGED <<call, server, lookups, micros>>
  <2>1. InOrder'
    BY <1>1, <1>2, <1>3, <1>5, OrderHooks
  <2>2. Tail(readyQ') # <<>>
    <3>1. readyQ \in Seq(Items) /\ HooksThenExit(Current) \in Seq(Items)
      BY <1>3, HooksThenExitType DEF RInv, IInv, TypeOK
    <3>2. Len(HooksThenExit(Current)) = OnReadyHooks + 1 /\ OnReadyHooks \in Nat
      BY ServerAssumption DEF HooksThenExit
    <3>3. Len(HooksThenExit(Current)) >= 1
      BY <3>2
    <3> QED BY <1>2, <1>5, <3>1, <3>3, TailRest
  <2>3. Opened' => Opened
    BY <1>2, <1>5, <2>2 DEF Opened
  <2> QED BY <1>1, <1>2, <2>1, <2>3, ServedStays
<1> QED BY <1>4, <1>5 DEF RunBoot

LEMMA RunExitReady ==
  ASSUME RInv, RunExit
  PROVE  InOrder' /\ Served'
<1>1. [Next]_vars
  BY DEF Next, Progress, Avvio
<1>2. /\ boot = "flowing" /\ running = "no" /\ readyQ # <<>> /\ Head(readyQ).k = "exit"
      /\ UNCHANGED <<readyQ, boot, bootErr, ran>> /\ Answer(Current)
  BY DEF RunExit, Runs, ReadyRuns, AnswerAt
<1>3. Current \in Callers
  BY <1>2, HeadItem DEF RInv
<1>4. InOrder'
  BY <1>1, <1>2, OrderStart
<1>5. ReadyDone \/ bootErr
  <2>1. 1 \in 1..Len(readyQ) /\ Head(readyQ) = readyQ[1]
    BY <1>2 DEF RInv, IInv, TypeOK
  <2>2. ran + 1 - 1 >= OnReadyHooks \/ bootErr \/ Excused
    BY <1>2, <2>1 DEF RInv, InOrder, Behind
  <2> QED BY <2>2, ServerAssumption DEF RInv, IInv, TypeOK, ReadyDone
<1>6. ReadyDone'
  <2>1. CASE ReadyDone
    BY <1>1, <1>2, <2>1, ReadyDoneStays DEF RInv
  <2>2. CASE bootErr
    BY <1>2, <1>3, <2>2, AnswerFails DEF RInv, ReadyDone
  <2> QED BY <1>5, <2>1, <2>2
<1> QED BY <1>4, <1>6 DEF Served

LEMMA RunCloseReady ==
  ASSUME RInv, RunClose
  PROVE  InOrder' /\ Served'
<1>1. [Next]_vars
  BY DEF Next, Progress, Avvio
<1>2. /\ boot = "flowing" /\ running = "no" /\ readyQ # <<>> /\ Head(readyQ).k = "close"
      /\ UNCHANGED <<readyQ, boot, ran>>
  BY DEF RunClose, Runs, ReadyRuns
<1>3. Excused
  <2>1. 1 \in 1..Len(readyQ) /\ Head(readyQ) = readyQ[1] /\ Head(readyQ) \in Elements(readyQ)
    BY <1>2, TailElements DEF RInv, IInv, TypeOK
  <2>2. Current \in Callers /\ call[Current].at # "idle" /\ call[Current].kind = "close"
    BY <1>2, <2>1, HeadItem DEF RInv, IInv, InOrder, Kinded, Current
  <2> QED BY <2>2 DEF Excused, Closers, Made
<1>4. InOrder'
  BY <1>1, <1>2, <1>3, OrderStart
<1>5. ReadyDone'
  BY <1>1, <1>3, ExcusedStays DEF RInv, ReadyDone
<1> QED BY <1>4, <1>5 DEF Served

LEMMA HookReady ==
  ASSUME RInv, RunHook \/ HookWaits
  PROVE  InOrder' /\ Served'
<1>1. [Next]_vars
  BY DEF Next, Progress, Avvio
<1>2. /\ boot = "flowing" /\ readyQ # <<>> /\ Head(readyQ).k = "hook"
      /\ UNCHANGED <<call, readyQ, boot, bootErr, started, server, lookups, micros, ran>>
      /\ bootErr <=> running' = "returns"
  BY DEF RunHook, HookWaits, HookCalled, Runs, ReadyRuns, state, loop, RInv, IInv, Flowing, InOrder
<1>3. InOrder'
  BY <1>1, <1>2, OrderStart
<1>4. Tail(readyQ) # <<>>
  <2> SUFFICES ASSUME Tail(readyQ) = <<>> PROVE FALSE
    OBVIOUS
  <2>1. Head(readyQ) = readyQ[Len(readyQ)]
    BY <1>2, TailRest DEF RInv, IInv, TypeOK
  <2> QED BY <1>2, <2>1 DEF RInv, InOrder
<1>5. Opened' => Opened
  BY <1>2, <1>4 DEF Opened
<1> QED BY <1>1, <1>2, <1>3, <1>5, ServedStays

LEMMA GoOnReady ==
  ASSUME RInv, Return \/ HookSettles \/ Release
  PROVE  InOrder' /\ Served'
<1>1. [Next]_vars
  BY DEF Next, Progress, Avvio
<1>2. /\ GoOn /\ UNCHANGED micros
      /\ ran' = ran \/ \E hook : Ran(hook)
  BY DEF Return, HookSettles, Release, loop
<1>3. ASSUME Release
      PROVE  running # "no" /\ Head(readyQ).k = "close" /\ UNCHANGED ran
  <2>1. ticks # <<>> /\ Head(ticks).k = "release" /\ ticks \in Seq(Ticks) /\ UNCHANGED ran
    BY <1>3 DEF Release, TickNext, RInv, IInv, TypeOK
  <2>2. Has(ticks, "release")
    BY <2>1, TailElements DEF Has
  <2>3. running # "no" /\ Head(readyQ).k = "close"
    BY <2>2 DEF RInv, IInv, Flowing
  <2> QED BY <2>1, <2>3
<1>4. running # "no"
  BY <1>3 DEF Return, HookSettles
<1>5. IF Head(readyQ).k = "hook"
      THEN \/ bootErr'
           \/ ~bootErr /\ ran' = IF ran < OnReadyHooks THEN ran + 1 ELSE ran
      ELSE ran' = ran
  <2>1. CASE Return
    <3>1. CASE HookCalled
      <4>1. /\ bootErr' \/ Ran(HookCalled /\ ~bootErr')
            /\ ~bootErr
            /\ Head(readyQ).k = "hook"
        BY <2>1, <3>1 DEF Return, HookCalled, RInv, InOrder
      <4> QED BY <2>1, <3>1, <4>1 DEF Return, Ran
    <3>2. CASE ~HookCalled
      <4>1. ran' = ran
        BY <2>1, <3>2 DEF Return, Ran
      <4>2. Head(readyQ).k = "hook" => bootErr'
        BY <2>1, <3>2 DEF Return, HookCalled, RInv, InOrder
      <4> QED BY <4>1, <4>2
    <3> QED BY <3>1, <3>2
  <2>2. CASE HookSettles
    <3>1. Head(readyQ).k = "hook" /\ ~bootErr
      BY <2>2 DEF HookSettles, RInv, InOrder
    <3> QED BY <2>2, <3>1 DEF HookSettles, Ran
  <2>3. CASE Release
    BY <1>3, <2>3
  <2> QED BY <2>1, <2>2, <2>3
<1>6. InOrder'
  BY <1>1, <1>2, <1>4, <1>5, OrderGoOn
<1>7. Opened' => Opened
  BY <1>2, <1>4 DEF GoOn, Opened
<1> QED BY <1>1, <1>2, <1>6, <1>7, ServedStays

(* The rest leaves avvio's queue alone.                                    *)
LEMMA OthersReady ==
  ASSUME RInv,
         \/ Granted \/ LookupDone \/ Bound \/ Broken \/ ServeRequest \/ Closed
         \/ Resume \/ CloseServer \/ NoHandle \/ ServerClosed \/ CloseHook \/ CloseHookDone
         \/ UNCHANGED vars
  PROVE  InOrder' /\ Served'
<1>1. [Next]_vars
  BY DEF Next, Progress, Avvio
<1>2. UNCHANGED <<boot, readyQ, running, bootErr, started, ran>>
  BY DEF Granted, LookupDone, Bound, Broken, ServeRequest, Closed, Resume, CloseServer, NoHandle,
     ServerClosed, CloseHook, CloseHookDone, vars, queue, state
<1>3. (\E d \in Callers : call[d].at = "serving")' => \E d \in Callers : call[d].at = "serving"
  <2> USE DEF RInv, IInv, Stages, Ends
  <2>1. CASE UNCHANGED call
    BY <2>1
  <2>2. CASE Granted
    <3>1. Head(micros) \in Callers
      BY <2>2, TailElements DEF Granted, MicroNext, TypeOK
    <3>2. PICK stage \in {"failed", "binding"} : To(Head(micros), stage)
      BY <2>2 DEF Granted, Bind
    <3> QED BY <3>1, <3>2, NoneServed
  <2>3. CASE ServeRequest
    <3>1. Head(ticks) \in Ticks
      BY <2>3, TailElements DEF ServeRequest, TickNext, TypeOK
    <3>2. Head(ticks).c \in Callers
      BY <3>1 DEF Ticks
    <3>3. PICK stage \in {"refused", "done"} : To(Head(ticks).c, stage)
      BY <2>3 DEF ServeRequest
    <3> QED BY <3>2, <3>3, NoneServed
  <2>4. CASE Closed
    BY <2>4, NoneServed DEF Closed
  <2>5. CASE Report(Binding \cup Unbound, "done") \/ Report(Binding, "unbound")
    BY <2>5, NoneReported
  <2> QED BY <2>1, <2>2, <2>3, <2>4, <2>5
    DEF LookupDone, Bound, Broken, Resume, CloseServer, NoHandle, ServerClosed, CloseHook,
        CloseHookDone, vars
<1>4. server' = "idle" \/ server # "idle" \/ lookups > 0 \/ micros # <<>>
  BY DEF Granted, MicroNext, LookupDone, LookupPending, Bound, Broken, ServeRequest, Closed, Resume,
     CloseServer, HasHandle, NoHandle, ServerClosed, CloseHook, CloseHookDone, vars, state
<1>5. lookups' > 0 => lookups > 0 \/ micros # <<>>
  BY DEF Granted, MicroNext, LookupDone, LookupPending, Bound, Broken, ServeRequest, Closed, Resume,
     CloseServer, HasHandle, NoHandle, ServerClosed, CloseHook, CloseHookDone, vars, state
<1>6. micros' # <<>> => micros # <<>>
  BY DEF Granted, MicroNext, LookupDone, Bound, Broken, ServeRequest, Closed, Resume, CloseServer,
     NoHandle, ServerClosed, CloseHook, CloseHookDone, vars, loop
<1>7. Opened' => Opened
  BY <1>2, <1>3, <1>4, <1>5, <1>6 DEF Opened
<1> QED BY <1>1, <1>2, <1>7, OrderSame, ServedStays

LEMMA PluginsLoadedReady ==
  ASSUME RInv, PluginsLoaded
  PROVE  InOrder' /\ Served'
<1>1. [Next]_vars
  BY DEF Next, Progress, Avvio
<1>2. /\ UNCHANGED <<call, readyQ, running, started, server, lookups, micros, ran>>
      /\ boot = "loading" /\ boot' = "flowing"
  BY DEF PluginsLoaded, state
<1>3. running = "no" /\ \A i \in 1..Len(readyQ) : readyQ[i].k \in {"boot", "close"}
  BY <1>2 DEF RInv, IInv, Flowing, InOrder
<1>4. InOrder'
  BY <1>2, <1>3 DEF RInv, InOrder
<1>5. Opened' => Opened
  BY <1>2 DEF Opened
<1> QED BY <1>1, <1>2, <1>4, <1>5, ServedStays

LEMMA StepReady ==
  ASSUME RInv, [Next]_vars
  PROVE  RInv'
<1>1. IInv' /\ Tokens'
  BY StepKeeps, StepToken DEF RInv
<1>2. CASE \E c \in Callers : Call(c)
  BY <1>1, <1>2, CallsReady DEF RInv
<1>3. CASE PluginsLoaded \/ RunHooks \/ RunBoot \/ RunExit \/ RunClose
  BY <1>1, <1>3, PluginsLoadedReady, RunHooksReady, RunBootReady, RunExitReady, RunCloseReady
     DEF RInv
<1>4. CASE HookWaits \/ RunHook \/ Return \/ HookSettles \/ Release
  BY <1>1, <1>4, HookReady, GoOnReady DEF RInv
<1>5. CASE \/ Granted \/ LookupDone \/ Bound \/ Broken \/ ServeRequest \/ Closed
           \/ Resume \/ CloseServer \/ NoHandle \/ ServerClosed \/ CloseHook \/ CloseHookDone
           \/ UNCHANGED vars
  BY <1>1, <1>5, OthersReady DEF RInv
<1> QED BY <1>2, <1>3, <1>4, <1>5 DEF Next, Progress, Avvio

LEMMA InitReady ==
  ASSUME Init
  PROVE  RInv
<1>1. InOrder
  BY DEF Init, InOrder
<1>2. Served
  BY DEF Init, Served, Opened
<1> QED BY <1>1, <1>2, InitIInv, InitTokens DEF RInv

LEMMA AlwaysReady == Spec => []RInv
<1>1. RInv /\ [Next]_vars => RInv'
  BY StepReady
<1> QED BY <1>1, InitReady, PTL DEF Spec

(* No call is answered twice, in any order of calls, failures and closing: *)
(* an error, a refusal and a result are final, but for the callback of a   *)
(* listen that failed to bind (manageErr of fastify.js, wrap of            *)
(* lib/server.js, close and ready of avvio).                               *)
THEOREM AnswersAreFinal == Spec => AnsweredOnce
<1>1. RInv /\ [Next]_vars =>
        [\A c \in Callers :
           call[c].at \in Ends =>
             \/ call'[c].at = call[c].at
             \/ call[c].at = "unbound" /\ call[c].kind = "listen"]_vars
  BY StepToken DEF RInv, Final
<1> QED BY <1>1, AlwaysReady, PTL DEF Spec, AnsweredOnce

(* However many calls share the queue of avvio's ready, and whatever their *)
(* order: until every onReady hook has run without an error, the raw       *)
(* server takes no connection and no injected request is on its way,       *)
(* unless a caller got the error or close was called (ready of fastify.js, *)
(* hookRunnerApplication of lib/hooks.js).                                 *)
THEOREM ReadyComesFirst == Spec => []OnReadyBeforeRequests
<1>1. RInv => OnReadyBeforeRequests
  BY DEF RInv, Served, Opened, ReadyDone, Excused, OnReadyBeforeRequests
<1> QED BY <1>1, AlwaysReady, PTL
-----------------------------------------------------------------------------
(* The flag of listen.                                                     *)

(* What the raw server has to report.                                      *)
Reports == [k : {"bound", "broken"}, c : Callers]
Failures == [k : {"broken"}, c : Callers]

(* One listen at a time is between its binding and the report on it.       *)
OneBinds ==
  /\ lookups <= 1 /\ One(ticks, Reports)
  /\ lookups > 0 => ~In(ticks, Reports) /\ ~HasHandle
  /\ ~listening => lookups = 0 /\ ~In(ticks, Reports) /\ ~HasHandle
  /\ In(ticks, Failures) => ~HasHandle

(* A promise of listen that has not bound yet has the server to itself.    *)
Promised ==
  \A c \in Callers : call[c].kind = "listenPromise" /\ call[c].at \in {"waiting", "granted"} =>
    /\ ~listening
    /\ \A d \in Callers \ {c} : call[d].kind \in Listens => call[d].at \in Ends \cup {"idle"}

LInv == IInv /\ Tokens /\ OneBinds /\ Promised

LEMMA ReportTicks ==
  ASSUME NEW c \in Callers
  PROVE  /\ \A k \in {"bound", "broken"} : Item(k, c) \in Reports /\ Item(k, c) \in Ticks
         /\ \A k : Item(k, c) \in Reports => k \in {"bound", "broken"}
         /\ \A k : Item(k, c) \in Failures <=> k = "broken"
<1>1. \A k : Item(k, c).k = k /\ Item(k, c) = [k |-> k, c |-> c]
  BY DEF Item
<1> QED BY <1>1, ItemType DEF Reports, Failures

(* A step that binds nothing.                                              *)
BindsLess ==
  /\ Less(ticks, ticks', Reports) /\ Less(ticks, ticks', Failures)
  /\ UNCHANGED <<listening, lookups>>
  /\ server' = "open" => server = "open"

LEMMA BindsKept ==
  ASSUME LInv, BindsLess
  PROVE  OneBinds'
  BY DEF LInv, OneBinds, BindsLess, Less, HasHandle

LEMMA BindsTicks ==
  ASSUME IInv,
         \/ UNCHANGED ticks
         \/ ticks # <<>> /\ ticks' = Tail(ticks)
         \/ \E c \in Callers, k \in {"runHooks", "serve", "closed"} : ticks' = Append(ticks, Item(k, c))
  PROVE  Less(ticks, ticks', Reports) /\ Less(ticks, ticks', Failures)
<1>1. ticks \in Seq(Ticks)
  BY DEF IInv, TypeOK
<1>2. CASE UNCHANGED ticks
  BY <1>2, LessSame
<1>3. CASE ticks # <<>> /\ ticks' = Tail(ticks)
  BY <1>1, <1>3, InTail
<1>4. CASE \E c \in Callers, k \in {"runHooks", "serve", "closed"} : ticks' = Append(ticks, Item(k, c))
  <2>1. PICK c \in Callers, k \in {"runHooks", "serve", "closed"} : ticks' = Append(ticks, Item(k, c))
    BY <1>4
  <2>2. Item(k, c) \in Ticks /\ Item(k, c) \notin Reports /\ Item(k, c) \notin Failures
    BY ItemType, ReportTicks
  <2> QED BY <1>1, <2>1, <2>2, InAppend
<1> QED BY <1>2, <1>3, <1>4

(* What the raw server reports when it opens.                              *)
LEMMA OpenBinds ==
  ASSUME IInv, ~In(ticks, Reports), ~HasHandle, NEW c \in Callers, Open(c)
  PROVE  /\ One(ticks', Reports)
         /\ In(ticks', Failures) => server' # "open"
<1>1. ticks \in Seq(Ticks)
  BY DEF IInv, TypeOK
<1>2. ~In(ticks, Failures)
  BY DEF In, Reports, Failures
<1>3. CASE ticks' = Append(ticks, Item("bound", c))
  <2>1. Item("bound", c) \in Ticks /\ Item("bound", c) \notin Failures
    BY ReportTicks
  <2> QED BY <1>1, <1>2, <1>3, <2>1, InAppend
<1>4. CASE ticks' = Append(ticks, Item("broken", c)) /\ UNCHANGED server
  <2>1. Item("broken", c) \in Ticks
    BY ReportTicks
  <2> QED BY <1>1, <1>4, <2>1, InAppend DEF HasHandle
<1> QED BY <1>3, <1>4 DEF Open

(* A listen binds while the flag is not set.                               *)
LEMMA BindBinds ==
  ASSUME LInv, ~listening, NEW c \in Callers, Bind(c)
  PROVE  OneBinds'
<1>1. lookups = 0 /\ ~In(ticks, Reports) /\ ~HasHandle
  BY DEF LInv, OneBinds
<1>2. listening' = TRUE
  BY <1>1 DEF Bind
<1>3. CASE Open(c) /\ UNCHANGED lookups
  <2>1. One(ticks', Reports) /\ (In(ticks', Failures) => server' # "open")
    BY <1>1, <1>3, OpenBinds DEF LInv
  <2> QED BY <1>1, <1>2, <1>3, <2>1 DEF OneBinds, HasHandle
<1>4. CASE lookups' = lookups + 1 /\ UNCHANGED <<server, ticks>>
  BY <1>1, <1>2, <1>4 DEF LInv, OneBinds, HasHandle
<1> QED BY <1>1, <1>3, <1>4 DEF Bind

LEMMA LookupBinds ==
  ASSUME LInv, LookupDone
  PROVE  OneBinds'
<1>1. /\ lookups > 0 /\ lookups' = lookups - 1 /\ UNCHANGED listening
      /\ lookups \in Nat
  BY DEF LookupDone, LookupPending, LInv, IInv, TypeOK
<1>2. lookups' = 0 /\ listening /\ ~In(ticks, Reports) /\ ~HasHandle
  BY <1>1 DEF LInv, OneBinds
<1>3. PICK c \in Callers : Open(c)
  BY <1>2 DEF LookupDone
<1>4. One(ticks', Reports) /\ (In(ticks', Failures) => server' # "open")
  BY <1>2, <1>3, OpenBinds DEF LInv
<1> QED BY <1>1, <1>2, <1>4 DEF OneBinds, HasHandle

LEMMA BrokenBinds ==
  ASSUME LInv, Broken
  PROVE  OneBinds'
<1>1. /\ ticks # <<>> /\ ticks' = Tail(ticks) /\ ticks \in Seq(Ticks) /\ Head(ticks).k = "broken"
      /\ listening' = FALSE /\ UNCHANGED <<server, lookups>>
  BY DEF Broken, TickNext, LInv, IInv, TypeOK
<1>2. Head(ticks) \in Failures /\ Head(ticks) \in Reports
  <2>1. Head(ticks) \in Ticks
    BY <1>1, TailElements
  <2> QED BY <1>1, <2>1 DEF Ticks, Failures, Reports
<1>3. ~In(ticks', Reports) /\ ~HasHandle /\ lookups = 0
  <2>1. In(ticks, Failures) /\ In(ticks, Reports) /\ One(ticks, Reports)
    BY <1>1, <1>2, InTail DEF LInv, OneBinds
  <2> QED BY <1>1, <1>2, <2>1, InTail DEF LInv, OneBinds, IInv, TypeOK
<1>4. One(ticks', Reports) /\ ~In(ticks', Failures)
  BY <1>3 DEF One, In, Reports, Failures
<1> QED BY <1>1, <1>3, <1>4 DEF OneBinds, HasHandle

(* A step in which no listen starts to wait and none binds.                *)
ListensKept ==
  /\ listening' => listening
  /\ \A c \in Callers :
       /\ call'[c].kind = call[c].kind
       /\ call[c].kind \in Listens =>
            \/ call'[c].at = call[c].at
            \/ call'[c].at \in Ends
            \/ call[c].at = "waiting" /\ call'[c].at = "granted"

LEMMA PromisedKept ==
  ASSUME LInv, ListensKept
  PROVE  Promised'
<1> SUFFICES ASSUME NEW c \in Callers, call'[c].kind = "listenPromise",
                    call'[c].at \in {"waiting", "granted"}
             PROVE  /\ ~listening'
                    /\ \A d \in Callers \ {c} :
                         call'[d].kind \in Listens => call'[d].at \in Ends \cup {"idle"}
  BY DEF Promised
<1>1. call[c].kind = "listenPromise" /\ call[c].at \in {"waiting", "granted"}
  BY DEF ListensKept, Listens, Ends
<1>2. /\ ~listening
      /\ \A d \in Callers \ {c} : call[d].kind \in Listens => call[d].at \in Ends \cup {"idle"}
  BY <1>1 DEF LInv, Promised
<1>3. \A d \in Callers \ {c} : call'[d].kind \in Listens => call'[d].at \in Ends \cup {"idle"}
  BY <1>2 DEF ListensKept, Ends
<1> QED BY <1>2, <1>3 DEF ListensKept

LEMMA ToListens ==
  ASSUME TypeOK, NEW c \in Callers, NEW stage \in Stages, To(c, stage), listening' => listening,
         call[c].kind \notin Listens \/ stage \in Ends \/ (call[c].at = "waiting" /\ stage = "granted")
  PROVE  ListensKept
<1>1. /\ \A d \in Callers : call'[d].kind = call[d].kind
      /\ \A d \in Callers \ {c} : call'[d].at = call[d].at
      /\ call'[c].at = stage
  BY ToStage DEF TypeOK, CallsType
<1> QED BY <1>1 DEF ListensKept

(* A listen that binds was the only one under way.                         *)
LEMMA BindPromised ==
  ASSUME LInv, NEW c \in Callers, call[c].kind \in Listens, call[c].at \in {"waiting", "granted"},
         NEW stage \in {"failed", "binding"}, To(c, stage)
  PROVE  Promised'
<1>1. stage \in Stages /\ stage \notin {"waiting", "granted"}
  BY DEF Stages, Ends
<1>2. /\ \A d \in Callers : call'[d].kind = call[d].kind
      /\ \A d \in Callers \ {c} : call'[d].at = call[d].at
      /\ call'[c].at = stage
  BY <1>1, ToStage DEF LInv, IInv, TypeOK, CallsType
<1> SUFFICES ASSUME NEW d \in Callers, call'[d].kind = "listenPromise",
                    call'[d].at \in {"waiting", "granted"}
             PROVE  FALSE
  BY DEF Promised
<1>3. d # c /\ call[d].kind = "listenPromise" /\ call[d].at \in {"waiting", "granted"}
  BY <1>1, <1>2
<1>4. call[c].at \in Ends \cup {"idle"}
  BY <1>3 DEF LInv, Promised
<1> QED BY <1>4 DEF Ends

(* A listen starts to wait when no promise of one is under way.            *)
LEMMA NoPromise ==
  ASSUME ~RacingListens, NEW c \in Callers, MayListen(c), NEW d \in Callers \ {c},
         call[d].kind = "listenPromise"
  PROVE  call[d].at \in Ends \cup {"idle"}
  BY DEF MayListen, Made

LEMMA CallListens ==
  ASSUME ~RacingListens, LInv, NEW c \in Callers, Call(c)
  PROVE  OneBinds' /\ Promised'
<1> USE DEF Stages, Ends
<1>1. /\ UNCHANGED <<listening, lookups, server>>
      /\ \/ UNCHANGED ticks
         \/ \E k \in {"runHooks", "serve"} : ticks' = Append(ticks, Item(k, c))
      /\ call[c].at = "idle"
  BY DEF Call, CallReady, CallListenPromise, CallInject, CallClose, Calls, WaitForReady, Refuse,
         Serve, state
<1>2. OneBinds'
  BY <1>1, BindsTicks, BindsKept DEF LInv, BindsLess
<1>3. CASE call[c].kind \notin Listens
  <2>1. PICK stage \in {"waiting", "refused", "serving"} : To(c, stage)
    BY DEF Call, CallReady, CallListenPromise, CallInject, CallClose, WaitForReady, Refuse, Serve
  <2> QED BY <1>1, <1>2, <1>3, <2>1, ToListens, PromisedKept DEF LInv, IInv
<1>4. CASE CallListenPromise(c) /\ Refuse(c)
  BY <1>1, <1>2, <1>4, ToListens, PromisedKept DEF LInv, IInv, Refuse
<1>5. CASE CallReady(c) /\ call[c].kind = "listen"
  <2>1. MayListen(c) /\ To(c, "waiting")
    BY <1>5 DEF CallReady, WaitForReady
  <2>2. /\ \A d \in Callers : call'[d].kind = call[d].kind
        /\ \A d \in Callers \ {c} : call'[d].at = call[d].at
    BY <2>1, ToStage DEF LInv, IInv, TypeOK, CallsType
  <2>3. ASSUME NEW d \in Callers, call'[d].kind = "listenPromise",
               call'[d].at \in {"waiting", "granted"}
        PROVE  FALSE
    <3>1. d # c /\ call[d].kind = "listenPromise" /\ call[d].at \in {"waiting", "granted"}
      BY <1>5, <2>2, <2>3
    <3> QED BY <2>1, <3>1, NoPromise
  <2> QED BY <1>2, <2>3 DEF Promised
<1>6. CASE CallListenPromise(c) /\ ~Refuse(c)
  <2>1. MayListen(c) /\ To(c, "waiting") /\ ~listening /\ call[c].kind = "listenPromise"
    BY <1>6 DEF CallListenPromise, Calls, WaitForReady
  <2>2. /\ \A d \in Callers : call'[d].kind = call[d].kind
        /\ \A d \in Callers \ {c} : call'[d].at = call[d].at
    BY <2>1, ToStage DEF LInv, IInv, TypeOK, CallsType
  <2>3. \A d \in Callers \ {c} : call[d].kind \in Listens => call[d].at \in Ends \cup {"idle"}
    BY <2>1 DEF MayListen, Made, Listens
  <2>4. ASSUME NEW d \in Callers, call'[d].kind = "listenPromise",
               call'[d].at \in {"waiting", "granted"}
        PROVE  d = c
    BY <2>2, <2>3, <2>4 DEF Listens
  <2> QED BY <1>1, <1>2, <2>1, <2>2, <2>3, <2>4 DEF Promised
<1>7. CallReady(c) \/ CallListenPromise(c) \/ CallInject(c) \/ CallClose(c)
  BY DEF Call
<1>8. CASE CallReady(c)
  BY <1>3, <1>5, <1>8 DEF CallReady, Calls, Listens
<1>9. CASE CallInject(c) \/ CallClose(c)
  BY <1>3, <1>9 DEF CallInject, CallClose, Calls, Listens
<1> QED BY <1>4, <1>6, <1>7, <1>8, <1>9

LEMMA AnswerListens ==
  ASSUME LInv, NEW c \in Callers, call[c].at = "waiting", Answer(c)
  PROVE  OneBinds' /\ Promised'
<1> USE DEF Stages, Ends
<1>1. CASE bootErr \/ call[c].kind = "ready"
  <2>1. UNCHANGED <<server, listening, lookups, ticks>> /\ \E stage \in {"failed", "done"} : To(c, stage)
    BY <1>1 DEF Answer
  <2> QED BY <2>1, BindsTicks, BindsKept, ToListens, PromisedKept DEF LInv, IInv, BindsLess
<1>2. CASE ~bootErr /\ call[c].kind = "listen"
  <2>1. CASE listening
    <3>1. Refuse(c) /\ UNCHANGED <<server, listening, lookups>>
      BY <1>2, <2>1 DEF Answer, IsRefused
    <3> QED BY <3>1, BindsTicks, BindsKept, ToListens, PromisedKept
            DEF LInv, IInv, BindsLess, Refuse
  <2>2. CASE ~listening
    <3>1. Bind(c)
      BY <1>2, <2>2 DEF Answer, IsRefused
    <3>2. PICK stage \in {"failed", "binding"} : To(c, stage)
      BY <3>1 DEF Bind
    <3> QED BY <1>2, <2>2, <3>1, <3>2, BindBinds, BindPromised DEF Listens
  <2> QED BY <2>1, <2>2
<1>3. CASE ~bootErr /\ call[c].kind = "listenPromise"
  <2>1. UNCHANGED <<server, listening, lookups, ticks>> /\ To(c, "granted")
    BY <1>3 DEF Answer
  <2> QED BY <2>1, BindsTicks, BindsKept, ToListens, PromisedKept DEF LInv, IInv, BindsLess
<1>4. CASE ~bootErr /\ call[c].kind = "inject"
  <2>1. Serve(c) /\ UNCHANGED <<server, listening, lookups>>
    BY <1>4 DEF Answer
  <2>2. OneBinds'
    BY <2>1, BindsTicks, BindsKept DEF LInv, BindsLess, Serve
  <2>3. call[c].kind \notin Listens
    BY <1>4 DEF Listens
  <2> QED BY <2>1, <2>2, <2>3, ToListens, PromisedKept DEF LInv, IInv, Serve
<1> QED BY <1>1, <1>2, <1>3, <1>4 DEF Answer

LEMMA RunsListen ==
  ASSUME LInv, RunBoot \/ RunExit
  PROVE  OneBinds' /\ Promised'
<1>1. running = "no" /\ readyQ # <<>> /\ Head(readyQ).k \in {"boot", "exit"}
  BY DEF RunBoot, RunExit, Runs, ReadyRuns
<1>2. Current \in Callers /\ call[Current].at = "waiting"
  BY <1>1, TakesToken DEF LInv
<1>3. CASE Answer(Current)
  BY <1>2, <1>3, AnswerListens
<1>4. CASE UNCHANGED <<call, server, listening, lookups, ticks>>
  <2>1. OneBinds'
    BY <1>4, BindsTicks, BindsKept DEF LInv, BindsLess
  <2>2. ListensKept
    BY <1>4 DEF ListensKept
  <2> QED BY <2>1, <2>2, PromisedKept
<1> QED BY <1>3, <1>4 DEF RunBoot, RunExit, AnswerAt

LEMMA GrantedListens ==
  ASSUME LInv, Granted
  PROVE  OneBinds' /\ Promised'
<1>0. PICK c \in Callers : c = Head(micros)
  BY TailElements DEF Granted, MicroNext, LInv, IInv, TypeOK
<1>1. micros # <<>> /\ micros \in Seq(Callers) /\ Bind(c)
  BY <1>0 DEF Granted, MicroNext, LInv, IInv, TypeOK
<1>2. call[c].at = "granted"
  <2>1. TokenOf(c) /\ In(micros, {c})
    BY <1>0, <1>1, InTail DEF LInv, Tokens
  <2> QED BY <2>1 DEF TokenOf
<1>3. call[c].kind = "listenPromise"
  BY <1>0, <1>1, TailElements DEF LInv, IInv, Kinded
<1>4. ~listening
  BY <1>2, <1>3 DEF LInv, Promised
<1>5. PICK stage \in {"failed", "binding"} : To(c, stage)
  BY <1>1 DEF Bind
<1> QED BY <1>1, <1>2, <1>3, <1>4, <1>5, BindBinds, BindPromised DEF Listens

LEMMA ReportListens ==
  ASSUME LInv, LookupDone \/ Bound \/ Broken
  PROVE  OneBinds' /\ Promised'
<1>1. OneBinds'
  <2>1. CASE Bound
    <3>1. ticks # <<>> /\ ticks' = Tail(ticks) /\ UNCHANGED <<server, listening, lookups>>
      BY <2>1 DEF Bound, TickNext, state
    <3> QED BY <3>1, BindsTicks, BindsKept DEF LInv, BindsLess
  <2> QED BY <2>1, LookupBinds, BrokenBinds
<1>2. listening' => listening
  BY DEF LookupDone, Bound, Broken, state
<1>3. CASE UNCHANGED call
  BY <1>1, <1>2, <1>3, PromisedKept DEF ListensKept
<1>4. CASE \/ Report(Binding \cup Unbound, "done") \/ Report(Binding, "unbound")
  <2>1. \A d \in Callers : /\ call'[d].kind = call[d].kind
                           /\ call'[d].at = call[d].at \/ call'[d].at \in Ends
    <3>1. "done" \in Stages /\ "unbound" \in Stages /\ "done" \in Ends /\ "unbound" \in Ends
      BY DEF Stages, Ends
    <3>2. CASE Report(Binding \cup Unbound, "done")
      BY <3>1, <3>2, ReportStage DEF LInv, IInv, TypeOK, CallsType
    <3>3. CASE Report(Binding, "unbound")
      BY <3>1, <3>3, ReportStage DEF LInv, IInv, TypeOK, CallsType
    <3> QED BY <1>4, <3>2, <3>3
  <2> QED BY <1>1, <1>2, <2>1, PromisedKept DEF ListensKept
<1> QED BY <1>3, <1>4 DEF LookupDone, Bound, Broken

(* The rest neither binds nor opens.                                       *)
LEMMA OthersListen ==
  ASSUME LInv,
         \/ PluginsLoaded \/ RunHooks \/ RunHook \/ HookWaits \/ RunClose \/ Return \/ HookSettles
         \/ Release \/ Resume \/ CloseServer \/ NoHandle \/ ServerClosed \/ CloseHook
         \/ CloseHookDone \/ UNCHANGED vars
  PROVE  OneBinds' /\ Promised'
<1>1. UNCHANGED <<call, listening, lookups>> /\ (server' = "open" => server = "open")
  BY DEF PluginsLoaded, RunHooks, RunHook, HookWaits, RunClose, Return, HookSettles, Release, Resume,
         GoOn, CloseServer, Shut, NoHandle, ServerClosed, CloseHook, CloseHookDone, vars, state
<1>2. Less(ticks, ticks', Reports) /\ Less(ticks, ticks', Failures)
  <2>1. CASE UNCHANGED ticks \/ (ticks # <<>> /\ ticks' = Tail(ticks))
    BY <2>1, BindsTicks DEF LInv
  <2>2. CASE CloseServer /\ ticks' = Append(ticks, Item("closed", closeQ[Len(closeQ)]))
    <3>1. closeQ[Len(closeQ)] \in Callers
      BY <2>2, ClosingStarts DEF CloseServer, LInv
    <3> QED BY <2>2, <3>1, BindsTicks DEF LInv
  <2>3. CASE RunClose
    <3>1. Current \in Callers
      BY <2>3, HeadItem DEF RunClose, Runs, ReadyRuns, LInv
    <3> DEFINE two == <<Item("resume", Current), Item("release", Current)>>
    <3>2. /\ two \in Seq(Ticks)
          /\ \A i \in 1..Len(two) : two[i] \notin Reports /\ two[i] \notin Failures
      <4>1. /\ Item("resume", Current) \in Ticks /\ Item("release", Current) \in Ticks
            /\ Item("resume", Current) \notin Reports /\ Item("release", Current) \notin Reports
            /\ Item("resume", Current) \notin Failures /\ Item("release", Current) \notin Failures
        BY <3>1, ItemType, ReportTicks
      <4> QED BY <4>1
    <3>3. ticks' = ticks \o two
      BY <2>3 DEF RunClose
    <3> HIDE DEF two
    <3>4. ~In(two, Reports) /\ ~In(two, Failures)
      BY <3>2 DEF In
    <3> QED BY <3>2, <3>3, <3>4, InConcat DEF LInv, IInv, TypeOK, Less
  <2> QED BY <2>1, <2>2, <2>3
    DEF PluginsLoaded, RunHooks, RunHook, HookWaits, Return, HookSettles, Release, Resume, TickNext,
        CloseServer, NoHandle, ServerClosed, CloseHook, CloseHookDone, vars, loop
<1>3. OneBinds'
  BY <1>1, <1>2, BindsKept DEF BindsLess
<1>4. ListensKept
  BY <1>1 DEF ListensKept
<1> QED BY <1>3, <1>4, PromisedKept

LEMMA EndsListen ==
  ASSUME LInv, ServeRequest \/ Closed
  PROVE  OneBinds' /\ Promised'
<1>1. /\ UNCHANGED <<server, listening, lookups>>
      /\ UNCHANGED ticks \/ (ticks # <<>> /\ ticks' = Tail(ticks))
  BY DEF ServeRequest, Closed, TickNext, state, loop
<1>2. OneBinds'
  BY <1>1, BindsTicks, BindsKept DEF LInv, BindsLess
<1>3. \E c \in Callers, stage \in Ends : To(c, stage)
  <2>1. CASE ServeRequest
    <3>1. Head(ticks) \in Ticks
      BY <2>1, TailElements DEF ServeRequest, TickNext, LInv, IInv, TypeOK
    <3> QED BY <2>1, <3>1 DEF ServeRequest, Ticks, Ends
  <2>2. CASE Closed
    BY <2>2 DEF Closed, Ends
  <2> QED BY <2>1, <2>2
<1>4. ListensKept
  BY <1>1, <1>3, ToListens DEF LInv, IInv, Stages
<1> QED BY <1>2, <1>4, PromisedKept

LEMMA StepListens ==
  ASSUME ~RacingListens, LInv, [Next]_vars
  PROVE  LInv'
<1>1. IInv' /\ Tokens'
  BY StepKeeps, StepToken DEF LInv
<1>2. CASE \E c \in Callers : Call(c)
  BY <1>1, <1>2, CallListens DEF LInv
<1>3. CASE RunBoot \/ RunExit \/ Granted
  BY <1>1, <1>3, RunsListen, GrantedListens DEF LInv
<1>4. CASE LookupDone \/ Bound \/ Broken \/ ServeRequest \/ Closed
  BY <1>1, <1>4, ReportListens, EndsListen DEF LInv
<1>5. CASE \/ PluginsLoaded \/ RunHooks \/ RunHook \/ HookWaits \/ RunClose \/ Return
           \/ HookSettles \/ Release \/ Resume \/ CloseServer \/ NoHandle \/ ServerClosed
           \/ CloseHook \/ CloseHookDone \/ UNCHANGED vars
  BY <1>1, <1>5, OthersListen DEF LInv
<1> QED BY <1>2, <1>3, <1>4, <1>5 DEF Next, Progress, Avvio

LEMMA InitListens ==
  ASSUME Init
  PROVE  LInv
<1>1. OneBinds
  BY DEF Init, OneBinds, One, In, HasHandle
<1>2. Promised
  BY DEF Init, Promised
<1> QED BY <1>1, <1>2, InitIInv, InitTokens DEF LInv

(* While no second listen races the promise of another, the flag that      *)
(* keeps a listen out is set whenever the raw server has a handle: no      *)
(* lookup, failed binding or close in between clears it too early          *)
(* (listen and listenPromise of lib/server.js).                            *)
THEOREM FlagFollowsHandle ==
  ASSUME ~RacingListens
  PROVE  Spec => []ListeningFlag
<1>1. LInv /\ [Next]_vars => LInv'
  BY StepListens
<1>2. LInv => ListeningFlag
  BY DEF LInv, OneBinds, ListeningFlag
<1> QED BY <1>1, <1>2, InitListens, PTL DEF Spec
=============================================================================
