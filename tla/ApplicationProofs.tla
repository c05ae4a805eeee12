-------------------------- MODULE ApplicationProofs --------------------------
(***************************************************************************)
(* Proofs about Application, for every topic, every set of sockets and     *)
(* every MaxId.  First the ids of requests and the timeouts of their       *)
(* sockets.  Then what every step does to the parts of an application: to  *)
(* the instances, to the frames and jobs of avvio, to the routes and the   *)
(* listeners that finish them and to the log.  Shape is inductive: every   *)
(* index names something that is there.  Last the errors of the boot.      *)
(***************************************************************************)
EXTENDS Application, TLAPS, FiniteSetTheorems, WellFoundedInduction

(* The calls and the boot leave the requests alone.                        *)
LEMMA CallServing == \A c : Call(c) => UNCHANGED <<api, servingVars>>
  BY DEF Call, Calling, BodyThrows, CallRegister, CallAfter, CallAddHook, CallRoute,
         CallDecorate, CallAddContentTypeParser, CallAddSchema, CallSetCompiler, CallSet,
         CallSetNotFoundHandler, servingVars

LEMMA BootServing == Boot => UNCHANGED <<api, servingVars>>
  BY DEF Boot, Running, BodyEnds, SkipPlugin, LoadPlugin, RunAfter, RunAddHook, RunRoute,
         RunSetNotFound, Loaded, RouteListener, NotFoundListener, Start, servingVars

(* A step of the server is the arrival of a request, an answer, a timeout. *)
LEMMA ServeCases ==
  Serve => \/ \E s \in api.sockets, k \in DOMAIN routes, type \in api.types : Request(s, k, type)
           \/ UNCHANGED bootVars /\ \E k \in DOMAIN requests : Answer(k)
           \/ UNCHANGED bootVars /\ \E s \in api.sockets : Timeout(s)
  BY DEF Serve

-----------------------------------------------------------------------------
(* Ids.  The last id is the counter, and along the requests the ids count  *)
(* up by one modulo MaxId + 1.                                             *)

Requests == requests \in Seq({requests[k] : k \in DOMAIN requests})
Counted ==
  /\ nextReqId \in 0..MaxId
  /\ \A k \in DOMAIN requests : requests[k].id \in 0..MaxId
  /\ requests # <<>> => requests[Len(requests)].id = nextReqId
  /\ \A j, k \in DOMAIN requests :
       j < k /\ k - j <= MaxId =>
         requests[k].id - requests[j].id \in {k - j, k - j - (MaxId + 1)}

(* A request is appended to a sequence.                                    *)
LEMMA Appended ==
  ASSUME NEW S, NEW q \in Seq(S), NEW r
  PROVE  /\ Append(q, r) \in Seq(S \cup {r})
         /\ Len(Append(q, r)) = Len(q) + 1
         /\ Append(q, r)[Len(q) + 1] = r
         /\ \A k \in DOMAIN q : Append(q, r)[k] = q[k]
         /\ DOMAIN q = 1..Len(q) /\ Len(q) \in Nat
         /\ DOMAIN Append(q, r) = 1..(Len(q) + 1)
<1>1. q \in Seq(S \cup {r}) /\ r \in S \cup {r}
  OBVIOUS
<1> QED BY <1>1

(* A sequence is a sequence over its own range.                            *)
LEMMA OverRange ==
  ASSUME NEW S, NEW q \in Seq(S)
  PROVE  q \in Seq({q[k] : k \in DOMAIN q})
<1>1. Len(q) \in Nat /\ DOMAIN q = 1..Len(q) /\ q = [k \in 1..Len(q) |-> q[k]]
  OBVIOUS
<1>2. \A k \in 1..Len(q) : q[k] \in {q[n] : n \in DOMAIN q}
  BY <1>1
<1> QED BY <1>1, <1>2

LEMMA NextId ==
  ASSUME nextReqId \in 0..MaxId
  PROVE  GenReqId = IF nextReqId = MaxId THEN 0 ELSE nextReqId + 1
<1>1. CASE nextReqId = MaxId
  <2>1. MaxId + 1 \in Nat \ {0} /\ (MaxId + 1) % (MaxId + 1) = 0
    BY MaxIdAssumption
  <2> QED BY <1>1, <2>1 DEF GenReqId
<1>2. CASE nextReqId # MaxId
  <2>1. nextReqId + 1 \in 0..MaxId
    BY <1>2, MaxIdAssumption
  <2>2. \A a, n \in Nat : a < n => a % n = a
    OBVIOUS
  <2> QED BY <1>2, <2>1, <2>2, MaxIdAssumption DEF GenReqId
<1> QED BY <1>1, <1>2

LEMMA ArriveCounts ==
  ASSUME Requests, Counted, NEW s, NEW k, NEW timed, NEW type, NEW parser,
         Arrive(s, k, timed, type, parser)
  PROVE  Requests' /\ Counted'
<1> DEFINE n == Len(requests)
           r == [socket |-> s, route |-> k, id |-> GenReqId, timed |-> timed,
                 type |-> type, parser |-> parser, sent |-> FALSE]
<1>1. requests' = Append(requests, r) /\ nextReqId' = GenReqId
  BY DEF Arrive
<1>2. /\ requests' \in Seq({requests[m] : m \in DOMAIN requests} \cup {r})
      /\ Len(requests') = n + 1 /\ requests'[n + 1] = r
      /\ \A m \in DOMAIN requests : requests'[m] = requests[m]
      /\ DOMAIN requests = 1..n /\ n \in Nat /\ DOMAIN requests' = 1..(n + 1)
  BY <1>1, Appended DEF Requests
<1>3. Requests'
  BY <1>2, OverRange DEF Requests
<1>4. GenReqId \in 0..MaxId
  BY NextId, MaxIdAssumption DEF Counted
<1>5. r.id = GenReqId
  OBVIOUS
<1>6. \A m \in DOMAIN requests' : requests'[m].id \in 0..MaxId
  BY <1>2, <1>4, <1>5 DEF Counted
<1>7. requests'[Len(requests')].id = nextReqId'
  BY <1>1, <1>2, <1>5
<1>0. ASSUME NEW i \in 1..n, NEW j \in 1..n, i < j, j - i <= MaxId
      PROVE  requests[j].id - requests[i].id \in {j - i, j - i - (MaxId + 1)}
  <2>1. i \in DOMAIN requests /\ j \in DOMAIN requests
    BY <1>2
  <2> HIDE DEF n
  <2> QED BY <1>0, <2>1 DEF Counted
<1>8. ASSUME NEW i \in 1..(n + 1), NEW j \in 1..(n + 1), i < j, j - i <= MaxId
      PROVE  requests'[j].id - requests'[i].id \in {j - i, j - i - (MaxId + 1)}
  <2>1. CASE j <= n
    <3>1. i \in 1..n /\ j \in 1..n
      BY <1>2, <1>8, <2>1
    <3>2. requests'[i] = requests[i] /\ requests'[j] = requests[j]
      BY <1>2, <3>1
    <3>3. requests[j].id - requests[i].id \in {j - i, j - i - (MaxId + 1)}
      BY <1>0, <1>8, <3>1
    <3> QED BY <3>2, <3>3
  <2>2. CASE j = n + 1
    <3>1. i \in 1..n /\ n \in 1..n /\ requests # <<>> /\ requests[n].id = nextReqId
      BY <1>2, <1>8, <2>2 DEF Counted
    <3>2. requests'[i] = requests[i] /\ requests'[j].id = GenReqId
      BY <1>2, <1>5, <2>2, <3>1
    <3>3. CASE i = n
      BY <1>2, <2>2, <3>1, <3>2, <3>3, NextId, MaxIdAssumption DEF Counted
    <3>4. CASE i # n
      <4>1. requests[n].id - requests[i].id \in {n - i, n - i - (MaxId + 1)}
        <5>0. n \in Nat /\ i \in 1..n /\ n + 1 - i <= MaxId
          BY <1>2, <1>8, <2>2, <3>1
        <5>1. i < n /\ n - i <= MaxId
          <6> HIDE DEF n
          <6> QED BY <3>4, <5>0, MaxIdAssumption
        <5> QED BY <1>0, <3>1, <5>1
      <4>2. requests[i].id \in 0..MaxId /\ nextReqId \in 0..MaxId
        BY <1>2, <3>1 DEF Counted
      <4>3. GenReqId = IF nextReqId = MaxId THEN 0 ELSE nextReqId + 1
        BY <4>2, NextId
      <4>4. n \in Nat /\ MaxId \in Nat /\ i \in 1..n /\ n + 1 - i <= MaxId
        BY <1>2, <1>8, <2>2, <3>1, MaxIdAssumption
      <4>5. CASE nextReqId # MaxId
        BY <2>2, <3>1, <3>2, <4>1, <4>2, <4>3, <4>4, <4>5
      <4>6. CASE nextReqId = MaxId
        BY <2>2, <3>1, <3>2, <4>1, <4>2, <4>3, <4>4, <4>6
      <4> QED BY <4>5, <4>6
    <3> QED BY <3>3, <3>4
  <2> QED BY <1>2, <1>8, <2>1, <2>2
<1> QED BY <1>1, <1>2, <1>3, <1>4, <1>6, <1>7, <1>8 DEF Counted

LEMMA AnswerCounts ==
  ASSUME Requests, Counted, NEW k, Answer(k)
  PROVE  Requests' /\ Counted'
<1>1. requests' = [requests EXCEPT ![k].sent = TRUE] /\ UNCHANGED nextReqId
  BY DEF Answer
<1>2. requests = [m \in 1..Len(requests) |-> requests[m]] /\ Len(requests) \in Nat
  BY DEF Requests
<1>3. requests' = [m \in 1..Len(requests) |->
                     IF m = k THEN [requests[m] EXCEPT !.sent = TRUE] ELSE requests[m]]
  BY <1>1, <1>2
<1>4. /\ DOMAIN requests' = DOMAIN requests /\ DOMAIN requests = 1..Len(requests)
      /\ \A m \in DOMAIN requests : requests'[m] \in {requests'[j] : j \in 1..Len(requests)}
  BY <1>2, <1>3
<1>5. requests' \in Seq({requests'[j] : j \in 1..Len(requests)}) /\ Len(requests') = Len(requests)
  BY <1>2, <1>3, <1>4
<1>6. ASSUME NEW m \in DOMAIN requests
      PROVE  requests'[m].id = requests[m].id
  BY <1>3, <1>4, <1>6
<1>7. Requests'
  BY <1>5, OverRange DEF Requests
<1>8. Len(requests) \in Nat /\ (requests # <<>> => Len(requests) \in DOMAIN requests)
  BY <1>2
<1>9. requests' # <<>> => requests # <<>>
  BY <1>2, <1>5
<1>10. \A m \in DOMAIN requests' : requests'[m].id \in 0..MaxId
  BY <1>4, <1>6 DEF Counted
<1>11. requests' # <<>> => requests'[Len(requests')].id = nextReqId'
  BY <1>1, <1>5, <1>6, <1>8, <1>9 DEF Counted
<1>12. ASSUME NEW i \in DOMAIN requests', NEW j \in DOMAIN requests', i < j, j - i <= MaxId
       PROVE  requests'[j].id - requests'[i].id \in {j - i, j - i - (MaxId + 1)}
  BY <1>4, <1>6, <1>12 DEF Counted
<1> QED BY <1>1, <1>7, <1>10, <1>11, <1>12 DEF Counted

-----------------------------------------------------------------------------
(* Timeouts.  _meta of a socket is its last request with onTimeout hooks,  *)
(* and a socket that has one has one listener.                             *)

Mine(s) == {k \in DOMAIN requests : requests[k].socket = s}
SocketRecords ==
  sockets \in [Sockets -> [open : BOOLEAN, listeners : {0, 1}, meta : Nat, ran : Seq(Nat)]]
Armed ==
  /\ SocketRecords
  /\ \A k \in DOMAIN requests : requests[k].timed \in BOOLEAN
  /\ \A s \in Sockets :
       /\ sockets[s].listeners = IF sockets[s].meta = 0 THEN 0 ELSE 1
       /\ sockets[s].meta # 0 => sockets[s].meta \in Mine(s) /\ requests[sockets[s].meta].timed
       /\ \A k \in Mine(s) : requests[k].timed => k <= sockets[s].meta

(* The requests of a socket have a last one.                               *)
Latest == \A s \in Sockets : \E m \in {0} \cup Mine(s) : \A k \in Mine(s) : k <= m

ServingIInv == Requests /\ Counted /\ Armed /\ Latest

LEMMA ArriveArms ==
  ASSUME ServingIInv, NEW s \in Sockets, NEW k, NEW timed \in BOOLEAN, NEW type, NEW parser,
         Arrive(s, k, timed, type, parser)
  PROVE  Armed' /\ Latest'
<1> DEFINE n == Len(requests)
           r == [socket |-> s, route |-> k, id |-> GenReqId, timed |-> timed,
                 type |-> type, parser |-> parser, sent |-> FALSE]
<1>1. /\ requests' = Append(requests, r)
      /\ sockets' = IF timed THEN Listening(s) ELSE sockets
  BY DEF Arrive
<1>2. /\ requests'[n + 1] = r
      /\ \A m \in DOMAIN requests : requests'[m] = requests[m]
      /\ DOMAIN requests = 1..n /\ n \in Nat /\ DOMAIN requests' = 1..(n + 1)
  BY <1>1, Appended DEF Requests, ServingIInv
<1>3. r.socket = s /\ r.timed = timed /\ r.sent = FALSE
  OBVIOUS
<1>4. /\ n \in Nat /\ \A t \in Sockets : Mine(t) \subseteq 1..n
      /\ \A t \in Sockets : Mine(t)' = IF t = s THEN Mine(t) \cup {n + 1} ELSE Mine(t)
  <2> HIDE DEF r
  <2> HIDE DEF n
  <2> QED BY <1>2, <1>3 DEF Mine
<1>5. Latest'
  <2> SUFFICES ASSUME NEW t \in Sockets
               PROVE  \E m \in {0} \cup Mine(t)' : \A j \in Mine(t)' : j <= m
    BY DEF Latest
  <2> HIDE DEF r
  <2> HIDE DEF n
  <2>1. CASE t = s
    <3>1. n + 1 \in {0} \cup Mine(t)' /\ \A j \in Mine(t)' : j <= n + 1
      BY <1>4, <2>1
    <3> QED BY <3>1
  <2>2. CASE t # s
    BY <1>4, <2>2 DEF Latest, ServingIInv
  <2> QED BY <2>1, <2>2
<1>6. \A m \in DOMAIN requests' : requests'[m].timed \in BOOLEAN
  <2> SUFFICES ASSUME NEW m \in DOMAIN requests'
               PROVE  requests'[m].timed \in BOOLEAN
    OBVIOUS
  <2>1. CASE m = n + 1
    BY <1>2, <1>3, <2>1
  <2>2. CASE m # n + 1
    <3>1. m \in DOMAIN requests
      BY <1>2, <2>2
    <3> QED BY <1>2, <3>1 DEF ServingIInv, Armed
  <2> QED BY <2>1, <2>2
<1>7. \A t \in Sockets : sockets[t].meta \in Nat /\ sockets[t].listeners \in {0, 1}
  BY DEF ServingIInv, Armed, SocketRecords
<1>8. SocketRecords' /\ \A t \in Sockets :
        IF timed /\ t = s
        THEN /\ sockets'[t].meta = n + 1
             /\ sockets'[t].listeners = IF sockets[s].meta = 0 THEN sockets[s].listeners + 1
                                        ELSE sockets[s].listeners
        ELSE sockets'[t] = sockets[t]
  <2>1. CASE timed
    <3>0. IF sockets[s].meta = 0 THEN sockets[s].listeners + 1 \in {0, 1} ELSE TRUE
      BY <1>7 DEF ServingIInv, Armed
    <3> HIDE DEF r
    <3>1. sockets' = Listening(s) /\ n \in Nat
      BY <1>1, <1>2, <2>1
    <3> DEFINE count == IF sockets[s].meta = 0 THEN sockets[s].listeners + 1
                        ELSE sockets[s].listeners
    <3>2. count \in {0, 1}
      BY <1>7, <3>0
    <3>3. sockets' = [sockets EXCEPT ![s].listeners = count, ![s].meta = n + 1]
      BY <3>1 DEF Listening
    <3> HIDE DEF count
    <3> HIDE DEF n
    <3>4. /\ SocketRecords'
          /\ \A t \in Sockets : t # s => sockets'[t] = sockets[t]
          /\ sockets'[s].meta = n + 1 /\ sockets'[s].listeners = count
      <4>1. n + 1 \in Nat
        BY <3>1
      <4>2. SocketRecords
        BY DEF ServingIInv, Armed
      <4> QED BY <3>2, <3>3, <4>1, <4>2 DEF SocketRecords
    <3>5. sockets'[s].listeners = IF sockets[s].meta = 0 THEN sockets[s].listeners + 1
                                  ELSE sockets[s].listeners
      BY <3>4 DEF count
    <3>6. \A t \in Sockets : t = s \/ sockets'[t] = sockets[t]
      BY <3>4
    <3> QED BY <2>1, <3>4, <3>5, <3>6
  <2>2. CASE ~timed
    BY <1>1, <2>2 DEF ServingIInv, Armed, SocketRecords
  <2> QED BY <2>1, <2>2
<1>9. ASSUME NEW t \in Sockets
      PROVE  /\ sockets'[t].listeners = IF sockets'[t].meta = 0 THEN 0 ELSE 1
             /\ sockets'[t].meta # 0 =>
                  sockets'[t].meta \in Mine(t)' /\ requests'[sockets'[t].meta].timed
             /\ \A j \in Mine(t)' : requests'[j].timed => j <= sockets'[t].meta
  <2>1. /\ sockets[t].listeners = IF sockets[t].meta = 0 THEN 0 ELSE 1
        /\ sockets[t].meta # 0 => sockets[t].meta \in Mine(t) /\ requests[sockets[t].meta].timed
        /\ \A j \in Mine(t) : requests[j].timed => j <= sockets[t].meta
    BY DEF ServingIInv, Armed
  <2>2. requests'[n + 1].timed = timed /\ \A j \in 1..n : requests'[j] = requests[j]
    BY <1>2, <1>3
  <2> HIDE DEF r
  <2> HIDE DEF n
  <2>3. CASE timed /\ t = s
    <3>1. sockets'[t].meta = n + 1 /\ sockets'[t].listeners = 1
      BY <1>7, <1>8, <2>1, <2>3
    <3>2. n + 1 \in Mine(t)' /\ \A j \in Mine(t)' : j <= n + 1
      BY <1>4, <2>3
    <3>3. n \in Nat /\ requests'[n + 1].timed
      BY <1>4, <2>2, <2>3
    <3>4. sockets'[t].meta # 0
      BY <3>1, <3>3
    <3> QED BY <3>1, <3>2, <3>3, <3>4
  <2>4. CASE ~(timed /\ t = s)
    <3>1. sockets'[t] = sockets[t]
      BY <1>8, <2>4
    <3>2. sockets[t].meta # 0 =>
            sockets[t].meta \in Mine(t)' /\ requests'[sockets[t].meta].timed
      BY <1>4, <2>1, <2>2
    <3>3. ASSUME NEW j \in Mine(t)', requests'[j].timed
          PROVE  j \in Mine(t) /\ requests[j].timed
      BY <1>4, <2>2, <2>4, <3>3
    <3> QED BY <2>1, <3>1, <3>2, <3>3
  <2> QED BY <2>3, <2>4
<1> QED BY <1>5, <1>6, <1>8, <1>9 DEF Armed

LEMMA AnswerArms ==
  ASSUME ServingIInv, NEW k, Answer(k)
  PROVE  Armed' /\ Latest'
<1>1. requests' = [requests EXCEPT ![k].sent = TRUE] /\ UNCHANGED sockets /\ k \in DOMAIN requests
  BY DEF Answer
<1>2. requests = [m \in 1..Len(requests) |-> requests[m]]
  BY DEF ServingIInv, Requests
<1>3. DOMAIN requests' = DOMAIN requests
  BY <1>1, <1>2
<1>4. ASSUME NEW m \in DOMAIN requests
      PROVE  /\ requests'[m].socket = requests[m].socket
             /\ requests'[m].timed = requests[m].timed
            
  BY <1>1, <1>2, <1>4
<1>5. \A s \in Sockets : Mine(s)' = Mine(s)
  BY <1>3, <1>4 DEF Mine
<1>6. \A s \in Sockets : \A m \in Mine(s) : requests'[m].timed = requests[m].timed
  BY <1>4 DEF Mine
<1>7. Latest'
  BY <1>5 DEF ServingIInv, Latest
<1>8. SocketRecords'
  BY <1>1 DEF ServingIInv, Armed, SocketRecords
<1>9. \A m \in DOMAIN requests' : requests'[m].timed \in BOOLEAN
  BY <1>3, <1>4 DEF ServingIInv, Armed
<1> QED BY <1>1, <1>5, <1>6, <1>7, <1>8, <1>9 DEF ServingIInv, Armed

LEMMA TimeoutArms ==
  ASSUME ServingIInv, NEW s \in Sockets, Timeout(s)
  PROVE  Requests' /\ Counted' /\ Armed' /\ Latest'
<1>1. UNCHANGED <<nextReqId, requests>>
  BY DEF Timeout
<1>2. sockets[s].meta \in Nat
  BY DEF ServingIInv, Armed, SocketRecords
<1>3. HandleTimeout(s) \in Seq(Nat)
  <2>1. CASE requests[sockets[s].meta].sent
    BY <1>2, <2>1 DEF HandleTimeout
  <2>2. CASE ~requests[sockets[s].meta].sent
    <3>1. sockets[s].listeners \in Nat
      BY DEF ServingIInv, Armed, SocketRecords
    <3> QED BY <1>2, <2>2, <3>1 DEF HandleTimeout
  <2> QED BY <2>1, <2>2
<1>4. SocketRecords' /\ \A t \in Sockets : /\ sockets'[t].meta = sockets[t].meta
                                           /\ sockets'[t].listeners = sockets[t].listeners
  <2> DEFINE ran == IF sockets[s].meta = 0 THEN <<>> ELSE HandleTimeout(s)
  <2>1. ran \in Seq(Nat)
    BY <1>3
  <2>2. sockets' = [sockets EXCEPT ![s].open = FALSE, ![s].ran = ran]
    BY DEF Timeout
  <2> HIDE DEF ran
  <2> QED BY <2>1, <2>2 DEF ServingIInv, Armed, SocketRecords
<1>5. \A t \in Sockets : Mine(t)' = Mine(t)
  BY <1>1 DEF Mine
<1>6. Requests' /\ Counted' /\ Latest'
  BY <1>1, <1>5 DEF ServingIInv, Requests, Counted, Latest
<1> QED BY <1>1, <1>4, <1>5, <1>6 DEF ServingIInv, Armed

LEMMA ServeKeeps ==
  ASSUME ServingIInv, api \in Topics, Serve
  PROVE  ServingIInv'
<1>1. ASSUME NEW s \in api.sockets, NEW k \in DOMAIN routes, NEW type \in api.types,
             Request(s, k, type)
      PROVE  ServingIInv'
  <2>1. s \in Sockets
    BY TopicsAssumption
  <2>2. PICK timed \in BOOLEAN : \E parser : Arrive(s, k, timed, type, parser)
    BY <1>1 DEF Request
  <2>3. PICK parser : Arrive(s, k, timed, type, parser)
    BY <2>2
  <2>4. Requests' /\ Counted'
    BY <2>3, ArriveCounts DEF ServingIInv
  <2>5. Armed' /\ Latest'
    BY <2>1, <2>3, ArriveArms
  <2> QED BY <2>4, <2>5 DEF ServingIInv
<1>2. ASSUME NEW k \in DOMAIN requests, Answer(k)
      PROVE  ServingIInv'
  <2>1. Requests' /\ Counted'
    BY <1>2, AnswerCounts DEF ServingIInv
  <2>2. Armed' /\ Latest'
    BY <1>2, AnswerArms
  <2> QED BY <2>1, <2>2 DEF ServingIInv
<1>3. ASSUME NEW s \in api.sockets, Timeout(s)
      PROVE  ServingIInv'
  <2>1. s \in Sockets
    BY TopicsAssumption
  <2> QED BY <1>3, <2>1, TimeoutArms DEF ServingIInv
<1> QED BY <1>1, <1>2, <1>3, ServeCases

(* What a timeout does to the socket, and no other step closes one.        *)
TimeoutReaches(s) ==
  LET waiting == {k \in Mine(s) : requests[k].timed /\ ~requests[k].sent}
      last    == Max({0} \cup Mine(s))
  IN /\ last \in waiting => sockets'[s].ran = <<last>>
     /\ sockets'[s].ran = <<>> \/ \E k \in waiting : sockets'[s].ran = <<k>>

LEMMA TimeoutStep ==
  ASSUME ServingIInv, NEW s \in Sockets, Timeout(s)
  PROVE  TimeoutReaches(s)
<1> DEFINE meta == sockets[s].meta
           waiting == {k \in Mine(s) : requests[k].timed /\ ~requests[k].sent}
           last == Max({0} \cup Mine(s))
<1>1. sockets'[s].ran = IF meta = 0 THEN <<>> ELSE HandleTimeout(s)
  BY DEF Timeout, ServingIInv, Armed, SocketRecords
<1>2. /\ meta \in Nat
      /\ meta # 0 => meta \in Mine(s) /\ requests[meta].timed
      /\ sockets[s].listeners = IF meta = 0 THEN 0 ELSE 1
      /\ \A k \in Mine(s) : requests[k].timed => k <= meta
  BY DEF ServingIInv, Armed, SocketRecords
<1>3. Mine(s) \subseteq Nat \ {0}
  BY DEF Mine, ServingIInv, Requests
<1>4. last \in {0} \cup Mine(s) /\ \A k \in Mine(s) : k <= last
  <2>1. \E m \in {0} \cup Mine(s) : \A k \in {0} \cup Mine(s) : m >= k
    BY <1>3 DEF ServingIInv, Latest
  <2>2. last \in {0} \cup Mine(s) /\ \A k \in {0} \cup Mine(s) : last >= k
    BY <2>1 DEF Max
  <2> HIDE DEF last
  <2> QED BY <1>3, <2>2
<1> HIDE DEF last, meta
<1>5. last \in waiting => meta = last
  BY <1>2, <1>3, <1>4
<1>6. CASE meta = 0
  BY <1>1, <1>3, <1>5, <1>6 DEF TimeoutReaches, last
<1>7. CASE meta # 0 /\ requests[meta].sent
  <2>1. HandleTimeout(s) = <<>>
    BY <1>7 DEF HandleTimeout, meta
  <2>2. last \notin waiting
    BY <1>5, <1>7
  <2> QED BY <1>1, <1>7, <2>1, <2>2 DEF TimeoutReaches, last
<1>8. CASE meta # 0 /\ ~requests[meta].sent
  <2>1. HandleTimeout(s) = <<meta>>
    BY <1>2, <1>8 DEF HandleTimeout, meta
  <2>2. meta \in waiting /\ sockets'[s].ran = <<meta>>
    BY <1>1, <1>2, <1>8, <2>1
  <2> QED BY <1>5, <2>2 DEF TimeoutReaches, last
<1> QED BY <1>6, <1>7, <1>8

LEMMA OthersKeepOpen ==
  ASSUME ServingIInv, NEW s \in Sockets, sockets[s].open, ~sockets'[s].open, [Next]_vars, api \in Topics
  PROVE  Timeout(s)
<1>1. sockets' # sockets
  OBVIOUS
<1>2. Serve
  <2>1. ~UNCHANGED <<api, servingVars>>
    BY <1>1 DEF servingVars
  <2> QED BY <2>1, CallServing, BootServing DEF Next, vars, bootVars
<1>3. ASSUME NEW t \in api.sockets, NEW k \in DOMAIN routes, NEW type \in api.types, Request(t, k, type)
      PROVE  FALSE
  <2>1. t \in Sockets
    BY TopicsAssumption
  <2>2. sockets' = sockets \/ sockets' = Listening(t)
    BY <1>3 DEF Request, Arrive
  <2>3. Listening(t)[s].open = sockets[s].open
    BY <2>1 DEF Listening, ServingIInv, Armed, SocketRecords
  <2> QED BY <2>2, <2>3
<1>4. ASSUME NEW k \in DOMAIN requests, Answer(k)
      PROVE  FALSE
  BY <1>1, <1>4 DEF Answer
<1>5. ASSUME NEW t \in api.sockets, Timeout(t)
      PROVE  t = s
  <2>1. CASE t # s
    BY <1>5, <2>1, TopicsAssumption DEF Timeout, ServingIInv, Armed, SocketRecords
  <2> QED BY <2>1
<1> QED BY <1>2, <1>3, <1>4, <1>5, ServeCases

-----------------------------------------------------------------------------
(* The server starts without an error.                                     *)

StartsWell == phase = "started" => ~Errored

(* A call throws, or logs itself.                                          *)
LEMMA CallCases ==
  ASSUME NEW c, Call(c)
  PROVE  /\ phase = "loading"
         /\ \/ Throws(c)
            \/ c.op \notin {"error", "taken"} /\ UNCHANGED <<phase, bootErr>> /\ \E arg : Log(c.op, Here, arg, Me)
<1> USE DEF Calling, NotStarted, Done
<1>1. CASE BodyThrows(c)
  BY <1>1 DEF BodyThrows
<1>2. CASE CallRegister(c)
  BY <1>2 DEF CallRegister
<1>3. CASE CallAfter(c)
  BY <1>3 DEF CallAfter
<1>4. CASE CallAddHook(c)
  BY <1>4 DEF CallAddHook
<1>5. CASE CallRoute(c)
  BY <1>5 DEF CallRoute
<1>6. CASE CallDecorate(c)
  BY <1>6 DEF CallDecorate
<1>7. CASE CallAddContentTypeParser(c)
  BY <1>7 DEF CallAddContentTypeParser
<1>8. CASE CallAddSchema(c)
  BY <1>8 DEF CallAddSchema
<1>9. CASE CallSetCompiler(c)
  BY <1>9 DEF CallSetCompiler
<1>10. CASE CallSet(c)
  BY <1>10 DEF CallSet
<1>11. CASE CallSetNotFoundHandler(c)
  BY <1>11 DEF CallSetNotFoundHandler
<1> QED BY <1>1, <1>2, <1>3, <1>4, <1>5, <1>6, <1>7, <1>8, <1>9, <1>10, <1>11 DEF Call

LEMMA BootStart ==
  ASSUME Boot, StartsWell
  PROVE  StartsWell'
<1>1. phase' = "started" => phase = "preReady" /\ ~Errored /\ UNCHANGED bootErr
  BY DEF Boot, Running, BodyEnds, SkipPlugin, LoadPlugin, RunAfter, RunAddHook, RunRoute,
         RunSetNotFound, Loaded, RouteListener, NotFoundListener, Start
<1> QED BY <1>1 DEF StartsWell, Errored

LEMMA ServeBoot == Serve => UNCHANGED <<api, phase, bootErr, log>>
  BY DEF Serve, Request, bootVars

-----------------------------------------------------------------------------
IInv == api \in Topics /\ ServingIInv /\ StartsWell

LEMMA InitIInv == Init => IInv
<1> SUFFICES ASSUME Init PROVE IInv
  OBVIOUS
<1>1. api \in Topics /\ requests = <<>> /\ nextReqId = 0 /\ phase = "loading"
  BY DEF Init, ServingInit
<1>2. sockets = [s \in Sockets |-> [open |-> TRUE, listeners |-> 0, meta |-> 0, ran |-> <<>>]]
  BY DEF Init, ServingInit
<1>3. Requests /\ Counted
  BY <1>1, MaxIdAssumption DEF Requests, Counted
<1>4. SocketRecords /\ \A s \in Sockets : sockets[s].meta = 0 /\ sockets[s].listeners = 0
  BY <1>2 DEF SocketRecords
<1>5. \A s : Mine(s) = {}
  BY <1>1 DEF Mine
<1>6. Armed /\ Latest
  BY <1>1, <1>4, <1>5 DEF Armed, Latest
<1> QED BY <1>1, <1>3, <1>6 DEF IInv, ServingIInv, StartsWell

LEMMA SameServing == ServingIInv /\ UNCHANGED servingVars => ServingIInv'
  BY DEF servingVars, ServingIInv, Requests, Counted, Armed, SocketRecords, Latest, Mine

LEMMA SameStart == StartsWell /\ UNCHANGED <<phase, bootErr>> => StartsWell'
  BY DEF StartsWell, Errored

LEMMA NextKeeps == IInv /\ [Next]_vars => IInv'
<1> SUFFICES ASSUME IInv, [Next]_vars PROVE IInv'
  OBVIOUS
<1> USE DEF IInv
<1>1. ASSUME NEW c \in api.uses, Call(c)
      PROVE  IInv'
  <2>1. phase = "loading" /\ phase' # "started"
    BY <1>1, CallCases DEF Throws
  <2>2. StartsWell'
    BY <2>1 DEF StartsWell
  <2> QED BY <1>1, <2>2, CallServing, SameServing
<1>2. CASE Boot
  BY <1>2, BootServing, BootStart, SameServing
<1>3. CASE Serve
  BY <1>3, ServeBoot, ServeKeeps, SameStart
<1>4. CASE UNCHANGED vars
  BY <1>4, SameServing, SameStart DEF vars, bootVars
<1> QED BY <1>1, <1>2, <1>3, <1>4 DEF Next

(* IInv is an inductive invariant of every application. *)
LEMMA Inductive == Spec => []IInv
  BY InitIInv, NextKeeps, PTL DEF Spec

(* The counter of reqIdGenFactory.js wraps: no two of MaxId + 1 requests   *)
(* in a row share an id, on whatever sockets they arrive.                  *)
THEOREM IdsAreDistinct == Spec => []IdsDistinct
<1>1. IInv => IdsDistinct
  <2> SUFFICES ASSUME IInv, NEW j \in DOMAIN requests, NEW k \in DOMAIN requests,
                      j < k, k - j <= MaxId
               PROVE  requests[j].id # requests[k].id
    BY DEF IdsDistinct
  <2>1. /\ requests[k].id - requests[j].id \in {k - j, k - j - (MaxId + 1)}
        /\ requests[k].id \in 0..MaxId /\ requests[j].id \in 0..MaxId
    BY DEF IInv, ServingIInv, Counted
  <2>2. j \in Nat /\ k \in Nat
    BY DEF IInv, ServingIInv, Requests
  <2> QED BY <2>1, <2>2, MaxIdAssumption
<1> QED BY <1>1, Inductive, PTL

(* One listener for each socket, which reads the last request from _meta   *)
(* when it fires: a timeout reaches the request it is about, at most once, *)
(* and no other, whatever the routes of the requests on that socket.       *)
THEOREM TimeoutIsReached == Spec => TimeoutReachesRequest
<1>1. IInv /\ [Next]_vars =>
        [\A s \in Sockets : sockets[s].open /\ ~sockets'[s].open =>
           LET mine    == {k \in DOMAIN requests : requests[k].socket = s}
               waiting == {k \in mine : requests[k].timed /\ ~requests[k].sent}
               last    == Max({0} \cup mine)
           IN /\ last \in waiting => sockets'[s].ran = <<last>>
              /\ sockets'[s].ran = <<>> \/ \E k \in waiting : sockets'[s].ran = <<k>>]_vars
  <2> SUFFICES ASSUME IInv, [Next]_vars, NEW s \in Sockets, sockets[s].open, ~sockets'[s].open
               PROVE  TimeoutReaches(s)
    BY DEF TimeoutReaches, Mine
  <2> QED BY OthersKeepOpen, TimeoutStep DEF IInv
<1> QED BY <1>1, Inductive, PTL DEF Spec, TimeoutReachesRequest

-----------------------------------------------------------------------------
(* Sets of numbers.                                                        *)

(* A nonempty set of bounded naturals has a greatest element.              *)
LEMMA Greatest ==
  ASSUME NEW n \in Nat, NEW S, S \subseteq 0..n, S # {}
  PROVE  Max(S) \in S /\ \A x \in S : x <= Max(S)
<1> DEFINE T == {d \in 0..n : n - d \in S}
<1>1. PICK s \in S : TRUE
  OBVIOUS
<1>2. n - s \in T
  BY <1>1
<1>3. PICK d \in T : \A e \in T : ~(<<e, d>> \in OpToRel(<, Nat))
  <2>1. T \subseteq Nat /\ T # {}
    BY <1>2
  <2>2. IsWellFoundedOn(OpToRel(<, Nat), Nat)
    BY NatLessThanWellFounded
  <2> HIDE DEF T
  <2> QED BY <2>1, <2>2, WFMin
<1>4. ASSUME NEW e \in T
      PROVE  ~(e < d)
  <2>1. e \in Nat /\ d \in Nat /\ <<e, d>> \in Nat \X Nat
    OBVIOUS
  <2>2. ~(<<e, d>> \in {ss \in Nat \X Nat : ss[1] < ss[2]})
    BY <1>3 DEF OpToRel
  <2> HIDE DEF T
  <2> QED BY <2>1, <2>2
<1>5. n - d \in S
  BY <1>3
<1>6. ASSUME NEW x \in S
      PROVE  x <= n - d
  <2>1. n - x \in T
    BY <1>6
  <2>2. ~(n - x < d) /\ d \in 0..n /\ x \in 0..n
    BY <1>4, <1>6, <2>1
  <2> QED BY <2>2
<1>7. \A x, y \in S : x >= y <=> y <= x
  BY <1>1
<1> QED BY <1>5, <1>6, <1>7 DEF Max

(* The maximum of a set of integers, when one is known.                    *)
LEMMA MaxIs ==
  ASSUME NEW S, S \subseteq Int, NEW x \in S, \A y \in S : y <= x
  PROVE  Max(S) = x
<1>1. \A y \in S : x >= y
  OBVIOUS
<1>2. \A z \in S : (\A y \in S : z >= y) => z = x
  OBVIOUS
<1> QED BY <1>1, <1>2 DEF Max

-----------------------------------------------------------------------------
(* Sequences and what is on them.                                          *)

Elements(q) == {q[n] : n \in DOMAIN q}
Listed(q) == q \in Seq(Elements(q))

LEMMA ListedIs ==
  ASSUME NEW q, Listed(q)
  PROVE  /\ Len(q) \in Nat /\ DOMAIN q = 1..Len(q)
         /\ q = [n \in 1..Len(q) |-> q[n]]
  BY DEF Listed

LEMMA ListedOver ==
  ASSUME NEW S, NEW q \in Seq(S)
  PROVE  Listed(q) /\ Elements(q) \subseteq S
<1>1. DOMAIN q = 1..Len(q) /\ \A n \in DOMAIN q : q[n] \in S
  OBVIOUS
<1> QED BY <1>1, OverRange DEF Listed, Elements

LEMMA ListAppend ==
  ASSUME NEW q, Listed(q), NEW e
  PROVE  /\ Listed(Append(q, e)) /\ Append(q, e) # <<>>
         /\ Elements(Append(q, e)) = Elements(q) \cup {e}
         /\ Len(Append(q, e)) = Len(q) + 1
         /\ Append(q, e)[Len(q) + 1] = e
         /\ \A n \in DOMAIN q : Append(q, e)[n] = q[n]
         /\ DOMAIN Append(q, e) = DOMAIN q \cup {Len(q) + 1}
         /\ Len(q) + 1 \notin DOMAIN q
<1> DEFINE r == Append(q, e)
<1>1. /\ r \in Seq(Elements(q) \cup {e}) /\ Len(r) = Len(q) + 1
      /\ r[Len(q) + 1] = e /\ \A n \in DOMAIN q : r[n] = q[n]
      /\ DOMAIN q = 1..Len(q) /\ Len(q) \in Nat /\ DOMAIN r = 1..(Len(q) + 1)
  BY Appended DEF Listed
<1>2. DOMAIN r = DOMAIN q \cup {Len(q) + 1} /\ Len(q) + 1 \notin DOMAIN q
  BY <1>1
<1>3. Listed(r)
  BY <1>1, ListedOver
<1>4. r # <<>>
  <2>1. Len(<<>>) = 0
    OBVIOUS
  <2> QED BY <1>1, <2>1
<1> HIDE DEF r
<1>5. Elements(r) = Elements(q) \cup {e}
  BY <1>1, <1>2 DEF Elements
<1> QED BY <1>1, <1>2, <1>3, <1>4, <1>5 DEF r

LEMMA ListTail ==
  ASSUME NEW q, Listed(q), q # <<>>
  PROVE  /\ Listed(Tail(q)) /\ Elements(Tail(q)) \subseteq Elements(q)
         /\ Len(Tail(q)) = Len(q) - 1 /\ Len(q) > 0 /\ 1 \in DOMAIN q
         /\ Head(q) = q[1] /\ Head(q) \in Elements(q)
         /\ \A n \in DOMAIN Tail(q) : n + 1 \in DOMAIN q /\ Tail(q)[n] = q[n + 1]
         /\ \A n \in DOMAIN q : n # 1 => n - 1 \in DOMAIN Tail(q) /\ Tail(q)[n - 1] = q[n]
<1>1. /\ Tail(q) \in Seq(Elements(q)) /\ Len(Tail(q)) = Len(q) - 1
      /\ Len(q) > 0 /\ Len(q) \in Nat /\ Head(q) = q[1]
      /\ DOMAIN q = 1..Len(q) /\ DOMAIN Tail(q) = 1..(Len(q) - 1)
      /\ \A n \in 1..(Len(q) - 1) : Tail(q)[n] = q[n + 1]
  BY DEF Listed
<1>2. Listed(Tail(q)) /\ Elements(Tail(q)) \subseteq Elements(q)
  BY <1>1, ListedOver
<1>3. 1 \in DOMAIN q /\ Head(q) \in Elements(q)
  BY <1>1 DEF Elements
<1>4. \A n \in DOMAIN Tail(q) : n + 1 \in DOMAIN q /\ Tail(q)[n] = q[n + 1]
  BY <1>1
<1>5. \A n \in DOMAIN q : n # 1 => n - 1 \in DOMAIN Tail(q) /\ Tail(q)[n - 1] = q[n]
  BY <1>1
<1> QED BY <1>1, <1>2, <1>3, <1>4, <1>5

LEMMA ListJoin ==
  ASSUME NEW p, Listed(p), NEW q, Listed(q)
  PROVE  /\ Listed(p \o q) /\ Len(p \o q) = Len(p) + Len(q)
         /\ Elements(p \o q) \subseteq Elements(p) \cup Elements(q)
         /\ \A n \in DOMAIN p : (p \o q)[n] = p[n]
         /\ p # <<>> => Head(p \o q) = Head(p) /\ p \o q # <<>>
<1>1. p \in Seq(Elements(p) \cup Elements(q)) /\ q \in Seq(Elements(p) \cup Elements(q))
  BY DEF Listed
<1>2. p \o q \in Seq(Elements(p) \cup Elements(q)) /\ Len(p \o q) = Len(p) + Len(q)
      /\ \A n \in DOMAIN p : (p \o q)[n] = p[n]
  BY <1>1
<1>3. p # <<>> => Head(p \o q) = Head(p) /\ p \o q # <<>>
  BY <1>1
<1> QED BY <1>2, <1>3, ListedOver

(* The innermost frame is replaced, and another one is entered.            *)
LEMMA ListReplace ==
  ASSUME NEW q, Listed(q), q # <<>>, NEW e
  PROVE  LET r == <<e>> \o Tail(q)
         IN /\ Listed(r) /\ r # <<>> /\ Len(r) = Len(q) /\ DOMAIN r = DOMAIN q
            /\ Head(r) = e /\ r[1] = e /\ Tail(r) = Tail(q)
            /\ \A n \in DOMAIN q : n # 1 => r[n] = q[n]
            /\ Elements(r) \subseteq Elements(q) \cup {e}
<1> DEFINE S == Elements(q) \cup {e}
           r == <<e>> \o Tail(q)
<1>1. q \in Seq(S) /\ e \in S
  BY DEF Listed
<1>2. /\ r \in Seq(S) /\ r # <<>> /\ Len(r) = Len(q) /\ Head(r) = e /\ r[1] = e
      /\ Tail(r) = Tail(q) /\ DOMAIN r = 1..Len(q) /\ DOMAIN q = 1..Len(q)
  <2> HIDE DEF S
  <2> QED BY <1>1
<1>3. \A n \in DOMAIN q : n # 1 => r[n] = q[n]
  <2> HIDE DEF S
  <2> QED BY <1>1
<1> HIDE DEF r
<1>4. Listed(r) /\ Elements(r) \subseteq S
  BY <1>2, ListedOver
<1> QED BY <1>2, <1>3, <1>4 DEF r

Pushed(q, e, r) ==
  /\ Listed(r) /\ r # <<>> /\ Len(r) = Len(q) + 1
  /\ Head(r) = e /\ r[1] = e /\ Tail(r) = q
  /\ \A n \in DOMAIN r : n = 1 \/ \E m \in DOMAIN q : r[n] = q[m]
  /\ Elements(r) \subseteq Elements(q) \cup {e}
LEMMA ListPush ==
  ASSUME NEW q, Listed(q), NEW e
  PROVE  Pushed(q, e, <<e>> \o q)
<1> DEFINE S == Elements(q) \cup {e}
           r == <<e>> \o q
<1>1. q \in Seq(S) /\ e \in S
  BY DEF Listed
<1>2. /\ r \in Seq(S) /\ r # <<>> /\ Len(r) = Len(q) + 1 /\ Head(r) = e /\ r[1] = e
      /\ Tail(r) = q
  <2> HIDE DEF S
  <2> QED BY <1>1
<1>3. \A n \in DOMAIN r : n = 1 \/ \E m \in DOMAIN q : r[n] = q[m]
  <2> HIDE DEF S
  <2> SUFFICES ASSUME NEW n \in DOMAIN r, n # 1
               PROVE  \E m \in DOMAIN q : r[n] = q[m]
    OBVIOUS
  <2>1. DOMAIN q = 1..Len(q) /\ Len(q) \in Nat /\ DOMAIN r = 1..(Len(q) + 1)
    BY <1>1
  <2>2. n - 1 \in 1..Len(q) /\ n = (n - 1) + 1
    BY <2>1
  <2>3. r[n] = q[n - 1]
    BY <1>1, <2>2
  <2> QED BY <2>1, <2>2, <2>3
<1>4. Listed(r) /\ Elements(r) \subseteq S
  BY <1>2, ListedOver
<1> QED BY <1>2, <1>3, <1>4 DEF Pushed

(* A function on 1..n is a sequence; one entry of a sequence is replaced.  *)
LEMMA ListedFunction ==
  ASSUME NEW n \in Nat, NEW r, r = [m \in 1..n |-> r[m]]
  PROVE  Listed(r) /\ Len(r) = n /\ DOMAIN r = 1..n
<1>1. DOMAIN r = 1..n /\ \A m \in 1..n : r[m] \in Elements(r)
  BY DEF Elements
<1> QED BY <1>1 DEF Listed

LEMMA ListUpdate ==
  ASSUME NEW q, Listed(q), NEW i, NEW v
  PROVE  LET r == [q EXCEPT ![i] = v]
         IN /\ Listed(r) /\ Len(r) = Len(q) /\ DOMAIN r = DOMAIN q
            /\ \A n \in DOMAIN q : r[n] = IF n = i THEN v ELSE q[n]
            /\ q # <<>> => r # <<>>
<1> DEFINE r == [q EXCEPT ![i] = v]
<1>1. Len(q) \in Nat /\ DOMAIN q = 1..Len(q) /\ q = [n \in 1..Len(q) |-> q[n]]
  BY ListedIs
<1>2. r = [m \in 1..Len(q) |-> r[m]] /\ \A n \in DOMAIN q : r[n] = IF n = i THEN v ELSE q[n]
  BY <1>1
<1> HIDE DEF r
<1>3. Listed(r) /\ Len(r) = Len(q) /\ DOMAIN r = 1..Len(q)
  BY <1>1, <1>2, ListedFunction
<1>4. q # <<>> => r # <<>>
  <2>1. Len(<<>>) = 0
    OBVIOUS
  <2>2. q # <<>> => Len(q) # 0
    BY <1>1
  <2> QED BY <1>3, <2>1, <2>2
<1> QED BY <1>1, <1>2, <1>3, <1>4 DEF r

-----------------------------------------------------------------------------
(* What a step does to the instances that are there: whose field it may    *)
(* change.                                                                 *)

Tree ==
  /\ Listed(insts) /\ 1 \in DOMAIN insts
  /\ \A i \in DOMAIN insts : insts[i].chain \subseteq 1..i /\ {1, i} \subseteq insts[i].chain

SetStep == \E c \in api.uses : CallSet(c)
AddSchemaStep == \E c \in api.uses : CallAddSchema(c)
SetCompilerStep == \E c \in api.uses : CallSetCompiler(c)
NotFoundStep == \E c \in api.uses : CallSetNotFoundHandler(c)
ParserStep == Serve \/ \E c \in api.uses : CallAddContentTypeParser(c)
SameBut(old, new) ==   \* of an instance
  /\ new.chain = old.chain /\ new.born = old.born
  /\ new.settings = old.settings \/ SetStep
  /\ new.hooks = old.hooks \/ RunAddHook
  /\ new.plugins = old.plugins \/ LoadPlugin
  /\ new.schemas = old.schemas \/ AddSchemaStep \/ SetCompilerStep \/ RouteListener
  /\ new.prefix = old.prefix /\ new.level = old.level
  /\ new.parsers = old.parsers \/ ParserStep
  /\ new.canSet404 = old.canSet404 \/ NotFoundStep
  /\ new.context404 = old.context404 \/ RunSetNotFound
InstsKept ==
  /\ Listed(insts') /\ DOMAIN insts \subseteq DOMAIN insts'
  /\ DOMAIN insts' # DOMAIN insts => LoadPlugin
  /\ \A i \in DOMAIN insts : SameBut(insts[i], insts'[i])

LEMMA OneInst ==
  ASSUME Tree, NEW i, NEW w, SameBut(insts[i], w), insts' = [insts EXCEPT ![i] = w]
  PROVE  InstsKept
<1>1. /\ Listed(insts') /\ DOMAIN insts' = DOMAIN insts
      /\ \A n \in DOMAIN insts : insts'[n] = IF n = i THEN w ELSE insts[n]
  BY ListUpdate DEF Tree
<1>2. \A n \in DOMAIN insts : SameBut(insts[n], insts[n])
  BY DEF SameBut
<1>3. ASSUME NEW n \in DOMAIN insts
      PROVE  SameBut(insts[n], insts'[n])
  <2>1. CASE n = i
    <3>1. insts'[n] = w /\ insts[n] = insts[i]
      BY <1>1, <2>1
    <3> QED BY <3>1
  <2>2. CASE n # i
    <3>1. insts'[n] = insts[n]
      BY <1>1, <2>2
    <3> QED BY <1>2, <3>1
  <2> QED BY <2>1, <2>2
<1> QED BY <1>1, <1>3 DEF InstsKept

(* Nothing, or a field that no property below looks at, of one instance.   *)
LEMMA SameInsts ==
  ASSUME Tree, \/ insts' = insts
               \/ ParserStep /\ \E i, v : insts' = [insts EXCEPT ![i].parsers = v]
               \/ \E i, v : insts' = [insts EXCEPT ![i].decorators = v]
               \/ NotFoundStep /\ \E i, v : insts' = [insts EXCEPT ![i].canSet404 = v]
               \/ RunSetNotFound /\ \E i, v : insts' = [insts EXCEPT ![i].context404 = v]
  PROVE  InstsKept
<1>1. CASE insts' = insts
  BY <1>1 DEF Tree, InstsKept, SameBut
<1>3. ASSUME ParserStep, NEW i, NEW v, insts' = [insts EXCEPT ![i].parsers = v]
      PROVE  InstsKept
  <2> DEFINE w == [insts[i] EXCEPT !.parsers = v]
  <2>1. insts' = [insts EXCEPT ![i] = w]
    BY <1>3
  <2>2. SameBut(insts[i], w)
    BY <1>3 DEF SameBut
  <2> HIDE DEF w
  <2> QED BY <2>1, <2>2, OneInst
<1>4. ASSUME NEW i, NEW v, insts' = [insts EXCEPT ![i].decorators = v]
      PROVE  InstsKept
  <2> DEFINE w == [insts[i] EXCEPT !.decorators = v]
  <2>1. insts' = [insts EXCEPT ![i] = w]
    BY <1>4
  <2>2. SameBut(insts[i], w)
    BY DEF SameBut
  <2> HIDE DEF w
  <2> QED BY <2>1, <2>2, OneInst
<1>5. ASSUME NotFoundStep, NEW i, NEW v, insts' = [insts EXCEPT ![i].canSet404 = v]
      PROVE  InstsKept
  <2> DEFINE w == [insts[i] EXCEPT !.canSet404 = v]
  <2>1. insts' = [insts EXCEPT ![i] = w]
    BY <1>5
  <2>2. SameBut(insts[i], w)
    BY <1>5 DEF SameBut
  <2> HIDE DEF w
  <2> QED BY <2>1, <2>2, OneInst
<1>6. ASSUME RunSetNotFound, NEW i, NEW v, insts' = [insts EXCEPT ![i].context404 = v]
      PROVE  InstsKept
  <2> DEFINE w == [insts[i] EXCEPT !.context404 = v]
  <2>1. insts' = [insts EXCEPT ![i] = w]
    BY <1>6
  <2>2. SameBut(insts[i], w)
    BY <1>6 DEF SameBut
  <2> HIDE DEF w
  <2> QED BY <2>1, <2>2, OneInst
<1> QED BY <1>1, <1>3, <1>4, <1>5, <1>6

LEMMA CallInsts ==
  ASSUME Tree, NEW c \in api.uses, Call(c)
  PROVE  InstsKept
<1>1. CASE CallSet(c)
  <2> DEFINE w == [insts[Here] EXCEPT !.settings[c.setting] = Me]
  <2>1. insts' = [insts EXCEPT ![Here] = w]
    BY <1>1 DEF CallSet, Sets
  <2>2. SetStep
    BY <1>1 DEF SetStep
  <2>3. SameBut(insts[Here], w)
    BY <2>2 DEF SameBut
  <2> HIDE DEF w
  <2> QED BY <2>1, <2>3, OneInst
<1>2. CASE CallAddSchema(c)
  <2>1. insts' = AddSchema(insts, Here, c.id) /\ AddSchemaStep
    BY <1>2 DEF CallAddSchema, AddSchemaStep
  <2>2. insts' = [j \in 1..Len(insts) |-> insts'[j]] /\ Len(insts) \in Nat /\ DOMAIN insts = 1..Len(insts)
    BY <2>1, ListedIs DEF Tree, AddSchema
  <2>3. \A j \in DOMAIN insts : SameBut(insts[j], insts'[j])
    BY <2>1 DEF SameBut, AddSchema
  <2> QED BY <2>2, <2>3, ListedFunction DEF InstsKept
<1>3. CASE CallSetCompiler(c)
  <2> DEFINE w == [insts[Here] EXCEPT !.schemas = SetCompiler(@, c.part)]
  <2>1. insts' = [insts EXCEPT ![Here] = w]
    BY <1>3 DEF CallSetCompiler, Sets
  <2>2. SetCompilerStep
    BY <1>3 DEF SetCompilerStep
  <2>3. SameBut(insts[Here], w)
    BY <2>2 DEF SameBut
  <2> HIDE DEF w
  <2> QED BY <2>1, <2>3, OneInst
<1>4. CASE CallDecorate(c)
  BY <1>4, SameInsts DEF CallDecorate, Sets, Decorate
<1>5. CASE CallAddContentTypeParser(c)
  <2>1. ParserStep
    BY <1>5 DEF ParserStep
  <2> QED BY <1>5, <2>1, SameInsts DEF CallAddContentTypeParser, Sets
<1>6. CASE CallSetNotFoundHandler(c)
  <2>1. NotFoundStep
    BY <1>6 DEF NotFoundStep
  <2> QED BY <1>6, <2>1, SameInsts DEF CallSetNotFoundHandler, TakeNotFound
<1>7. CASE BodyThrows(c) \/ CallRegister(c) \/ CallAfter(c) \/ CallAddHook(c) \/ CallRoute(c)
  BY <1>7, SameInsts DEF BodyThrows, CallRegister, CallAfter, CallAddHook, CallRoute, PutsOff
<1> QED BY <1>1, <1>2, <1>3, <1>4, <1>5, <1>6, <1>7 DEF Call

(* The nearest ancestor that has something, if any has.                    *)
LEMMA NearestOf ==
  ASSUME Tree, NEW i \in DOMAIN insts, NEW S, S \subseteq DOMAIN insts
  PROVE  LET j == Nearest(insts, i, S)
             T == insts[i].chain \cap S
         IN /\ T = {} => j = 0
            /\ T # {} => j \in T /\ j # 0 /\ \A k \in T : k <= j
            /\ j = 0 \/ j \in DOMAIN insts
<1> DEFINE T == insts[i].chain \cap S
           U == {0} \cup T
<1>1. i \in Nat /\ insts[i].chain \subseteq 1..i
  BY ListedIs DEF Tree
<1>2. U \subseteq 0..i /\ U # {} /\ T \subseteq 1..i
  BY <1>1
<1>3. Max(U) \in U /\ \A x \in U : x <= Max(U)
  BY <1>1, <1>2, Greatest
<1>4. T = {} => Max(U) = 0
  BY <1>3
<1>5. ASSUME T # {}
      PROVE  Max(U) # 0
  <2>1. PICK x \in T : TRUE
    BY <1>5
  <2>2. x \in 1..i /\ x <= Max(U)
    BY <1>2, <1>3
  <2> HIDE DEF T, U
  <2> QED BY <2>2
<1> QED BY <1>3, <1>4, <1>5 DEF Nearest

(* The instance that a plugin gets.                                        *)
NewInstance(old, new) ==
  LET me == Len(old) + 1
      i  == Current.inst
  IN /\ new # old => /\ DOMAIN new = DOMAIN old \cup {me} /\ me \notin DOMAIN old
                     /\ new[me].chain = old[i].chain \cup {me} /\ new[me].born = calls
                     /\ new[me].settings = [s \in Settings |-> 0]
                     /\ new[me].hooks = old[i].hooks
                     /\ new[me].plugins = {}
                     /\ new[me].parsers = BuildContentTypeParser(old[i].parsers)
                     /\ new[me].canSet404 = TRUE /\ new[me].context404 = 0
                     /\ new[me].prefix = BuildRoutePrefix(old[i].prefix, Current.call.plugin.prefix)
                     /\ new[me].level = IF Current.call.plugin.prefix # <<>> THEN me ELSE old[i].level
                     /\ new[me].schemas = BuildSchemaController(old[i].schemas,
                                            [part \in Parts |-> CompilerOf(old, i, part)])
     /\ \A j \in DOMAIN old : new[j] = old[j]
     /\ Listed(new)

LEMMA LoadInsts ==
  ASSUME Tree, LoadPlugin
  PROVE  LET plugin == Current.call.plugin
             named  == RegisterPluginName(insts, Current.inst, plugin)
         IN /\ InstsKept
            /\ Listed(named) /\ DOMAIN named = DOMAIN insts /\ Len(named) = Len(insts)
            /\ \A j \in DOMAIN insts :
                 /\ SameBut(insts[j], named[j])
                 /\ named[j].settings = insts[j].settings
                 /\ named[j].canSet404 = insts[j].canSet404 /\ named[j].context404 = insts[j].context404
                 /\ named[j].schemas = insts[j].schemas /\ named[j].parsers = insts[j].parsers
                 /\ named[j].hooks = insts[j].hooks
                 /\ named[j].plugins = insts[j].plugins \cup
                      IF j = Current.inst /\ plugin.name # "" THEN {plugin.name} ELSE {}
            /\ NewInstance(named, insts')
<1> DEFINE plugin == Current.call.plugin
           named  == RegisterPluginName(insts, Current.inst, plugin)
           i      == Current.inst
<1>1. /\ Listed(named) /\ DOMAIN named = DOMAIN insts /\ Len(named) = Len(insts)
      /\ \A j \in DOMAIN insts :
           /\ SameBut(insts[j], named[j])
           /\ named[j].settings = insts[j].settings
           /\ named[j].canSet404 = insts[j].canSet404 /\ named[j].context404 = insts[j].context404
           /\ named[j].schemas = insts[j].schemas /\ named[j].parsers = insts[j].parsers
           /\ named[j].hooks = insts[j].hooks
           /\ named[j].plugins = insts[j].plugins \cup
                IF j = i /\ plugin.name # "" THEN {plugin.name} ELSE {}
  <2>1. CASE plugin.name = ""
    BY <2>1 DEF RegisterPluginName, Tree, SameBut
  <2>2. CASE plugin.name # ""
    <3>1. named = [insts EXCEPT ![i] = [insts[i] EXCEPT !.plugins = @ \cup {plugin.name}]]
      BY <2>2 DEF RegisterPluginName
    <3> DEFINE w == [insts[i] EXCEPT !.plugins = @ \cup {plugin.name}]
    <3>2. /\ w.chain = insts[i].chain /\ w.settings = insts[i].settings
          /\ w.hooks = insts[i].hooks /\ w.schemas = insts[i].schemas /\ w.parsers = insts[i].parsers
          /\ w.plugins = insts[i].plugins \cup {plugin.name}
          /\ w.prefix = insts[i].prefix /\ w.level = insts[i].level /\ w.born = insts[i].born
          /\ w.canSet404 = insts[i].canSet404 /\ w.context404 = insts[i].context404
      OBVIOUS
    <3> HIDE DEF w
    <3>3. named = [insts EXCEPT ![i] = w]
      BY <3>1 DEF w
    <3> HIDE DEF named, i, plugin
    <3>4. /\ Listed(named) /\ DOMAIN named = DOMAIN insts /\ Len(named) = Len(insts)
          /\ \A j \in DOMAIN insts : named[j] = IF j = i THEN w ELSE insts[j]
      BY <3>3, ListUpdate DEF Tree
    <3>5. IF plugin.name # "" THEN {plugin.name} = {plugin.name} ELSE FALSE
      BY <2>2
    <3> QED BY <2>2, <3>2, <3>4 DEF SameBut
  <2> QED BY <2>1, <2>2
<1> HIDE DEF named
<1>2. NewInstance(named, insts')
  <2>1. CASE insts' = named
    BY <1>1, <2>1 DEF NewInstance
  <2>2. CASE insts' = Override(named, i, plugin, calls)
    <3> DEFINE me == Len(named) + 1
               new == [Fastify EXCEPT
                         !.chain      = named[i].chain \cup {me},
                         !.born       = calls,
                         !.prefix     = BuildRoutePrefix(named[i].prefix, plugin.prefix),
                         !.hooks      = BuildHooks(named[i].hooks),
                         !.level      = IF plugin.prefix # <<>> THEN me ELSE named[i].level,
                         !.parsers    = BuildContentTypeParser(named[i].parsers),
                         !.schemas    = BuildSchemaController(named[i].schemas,
                                          [part \in Parts |-> CompilerOf(named, i, part)])]
    <3>1. insts' = Append(named, new)
      BY <2>2 DEF Override
    <3>2. /\ new.chain = named[i].chain \cup {me} /\ new.born = calls
          /\ new.settings = [s \in Settings |-> 0]
          /\ new.hooks = named[i].hooks
          /\ new.plugins = {}
          /\ new.parsers = BuildContentTypeParser(named[i].parsers)
          /\ new.canSet404 = TRUE /\ new.context404 = 0
          /\ new.prefix = BuildRoutePrefix(named[i].prefix, plugin.prefix)
          /\ new.level = IF plugin.prefix # <<>> THEN me ELSE named[i].level
          /\ new.schemas = BuildSchemaController(named[i].schemas,
                             [part \in Parts |-> CompilerOf(named, i, part)])
      BY DEF Fastify, BuildHooks
    <3> HIDE DEF new
    <3>3. /\ Listed(insts') /\ insts'[me] = new /\ me \notin DOMAIN named
          /\ DOMAIN insts' = DOMAIN named \cup {me}
          /\ \A j \in DOMAIN named : insts'[j] = named[j]
      <4>1. Listed(named)
        BY <1>1
      <4> QED BY <3>1, <4>1, ListAppend
    <3> QED BY <3>2, <3>3 DEF NewInstance
  <2> QED BY <2>1, <2>2 DEF LoadPlugin, named
<1>3. InstsKept
  <2>1. LoadPlugin
    OBVIOUS
  <2>2. Listed(insts') /\ DOMAIN insts \subseteq DOMAIN insts'
    BY <1>1, <1>2 DEF NewInstance
  <2>3. \A j \in DOMAIN insts : insts'[j] = named[j]
    BY <1>1, <1>2 DEF NewInstance
  <2> QED BY <1>1, <2>1, <2>2, <2>3 DEF InstsKept
<1> QED BY <1>1, <1>2, <1>3 DEF named

LEMMA BootInsts ==
  ASSUME Tree, Boot
  PROVE  InstsKept
<1>1. CASE RunAddHook
  <2> DEFINE hook == [id |-> Current.id, does |-> Current.call.does]
  <2>1. insts' = AddHook(insts, Current.inst, Current.call.name, hook)
    BY <1>1 DEF RunAddHook
  <2> HIDE DEF hook
  <2>2. insts' = [j \in 1..Len(insts) |-> insts'[j]] /\ Len(insts) \in Nat /\ DOMAIN insts = 1..Len(insts)
    BY <2>1, ListedIs DEF Tree, AddHook
  <2>3. \A j \in DOMAIN insts : SameBut(insts[j], insts'[j])
    BY <1>1, <2>1 DEF SameBut, AddHook
  <2> QED BY <2>2, <2>3, ListedFunction DEF InstsKept
<1>2. CASE RouteListener
  <2> DEFINE i == routes[Head(listeners).at].inst
             parts == routes[Head(listeners).at].parts
             w == [insts[i] EXCEPT !.schemas = SetupAll(@, parts)]
  <2>1. insts' = [insts EXCEPT ![i] = w]
    BY <1>2 DEF RouteListener, SchemasReady
  <2>2. SameBut(insts[i], w)
    BY <1>2 DEF SameBut
  <2> HIDE DEF w, i
  <2> QED BY <2>1, <2>2, OneInst
<1>3. CASE LoadPlugin
  BY <1>3, LoadInsts
<1>4. CASE RunSetNotFound
  BY <1>4, SameInsts DEF RunSetNotFound, AfterNotFound
<1>5. CASE BodyEnds \/ SkipPlugin \/ RunAfter \/ RunRoute \/ Loaded \/ NotFoundListener \/ Start
  <2>1. insts' = insts
    BY <1>5 DEF BodyEnds, SkipPlugin, RunAfter, RunRoute, Loaded, NotFoundListener, Start, registryVars
  <2> QED BY <2>1, SameInsts
<1> QED BY <1>1, <1>2, <1>3, <1>4, <1>5 DEF Boot

LEMMA ServeInsts ==
  ASSUME Tree, Serve
  PROVE  InstsKept
<1>1. \/ insts' = insts
      \/ ParserStep /\ \E i, v : insts' = [insts EXCEPT ![i].parsers = v]
  BY ServeCases DEF Request, bootVars, registryVars, ParserStep
<1> QED BY <1>1, SameInsts

LEMMA NextInsts ==
  ASSUME Tree, [Next]_vars
  PROVE  InstsKept
<1>1. CASE UNCHANGED vars
  BY <1>1, SameInsts DEF vars, bootVars, registryVars
<1> QED BY <1>1, CallInsts, BootInsts, ServeInsts DEF Next

-----------------------------------------------------------------------------
(* The frames of avvio: only the innermost can be open, and every job is   *)
(* of an instance that is there.                                           *)

JobOn(is, n, j) ==
  /\ j.inst \in DOMAIN is /\ j.id \in 0..n
  /\ j.call.op # "setNotFoundHandler" => j.id # 0
  /\ j.call.op = "route" => j.call.parts \subseteq Parts
  /\ j.call.op = "register" => j.call.plugin.prefix \in Seq(STRING)
FrameOn(is, n, f) ==
  f.inst \in DOMAIN is /\ Listed(f.jobs) /\ \A j \in Elements(f.jobs) : JobOn(is, n, j)
FramesOn(is, n, fs) ==
  /\ Listed(fs) /\ fs # <<>>
  /\ \A f \in Elements(fs) : FrameOn(is, n, f)
  /\ \A k \in DOMAIN fs : k # 1 => ~fs[k].open

LEMMA FramesGrow ==
  ASSUME NEW is, NEW is2, DOMAIN is \subseteq DOMAIN is2, NEW n \in Nat, NEW n2 \in Nat, n <= n2,
         NEW fs, FramesOn(is, n, fs)
  PROVE  FramesOn(is2, n2, fs)
<1>1. \A j : JobOn(is, n, j) => JobOn(is2, n2, j)
  BY DEF JobOn
<1> QED BY <1>1 DEF FramesOn, FrameOn

(* The top frame is replaced, another is entered, the top frame is left.   *)
LEMMA FramesTop ==
  ASSUME NEW is, NEW n, NEW fs, FramesOn(is, n, fs)
  PROVE  /\ FrameOn(is, n, Head(fs)) /\ Head(fs) = fs[1] /\ Len(fs) \in Nat /\ Len(fs) > 0
         /\ Head(fs).jobs # <<>> =>
              /\ JobOn(is, n, Head(Head(fs).jobs))
              /\ Listed(Tail(Head(fs).jobs))
              /\ \A j \in Elements(Tail(Head(fs).jobs)) : JobOn(is, n, j)
<1>1. Head(fs) \in Elements(fs) /\ Head(fs) = fs[1] /\ Len(fs) > 0 /\ Len(fs) \in Nat
  BY ListTail, ListedIs DEF FramesOn
<1>2. FrameOn(is, n, Head(fs))
  BY <1>1 DEF FramesOn
<1>3. Head(fs).jobs # <<>> =>
         /\ Head(Head(fs).jobs) \in Elements(Head(fs).jobs)
         /\ Listed(Tail(Head(fs).jobs))
         /\ Elements(Tail(Head(fs).jobs)) \subseteq Elements(Head(fs).jobs)
  BY <1>2, ListTail DEF FrameOn
<1> QED BY <1>1, <1>2, <1>3 DEF FrameOn

LEMMA FramesReplace ==
  ASSUME NEW is, NEW n, NEW fs, FramesOn(is, n, fs), NEW f, FrameOn(is, n, f)
  PROVE  LET r == <<f>> \o Tail(fs)
         IN FramesOn(is, n, r) /\ Head(r) = f /\ Len(r) = Len(fs) /\ Tail(r) = Tail(fs)
<1> DEFINE r == <<f>> \o Tail(fs)
<1>1. /\ Listed(r) /\ r # <<>> /\ DOMAIN r = DOMAIN fs /\ Len(r) = Len(fs)
      /\ \A m \in DOMAIN fs : m # 1 => r[m] = fs[m]
      /\ Elements(r) \subseteq Elements(fs) \cup {f}
      /\ Head(r) = f /\ Tail(r) = Tail(fs)
  BY ListReplace DEF FramesOn
<1> HIDE DEF r
<1>2. FramesOn(is, n, r)
  BY <1>1 DEF FramesOn
<1> QED BY <1>1, <1>2 DEF r

LEMMA FramesEnter ==
  ASSUME NEW is, NEW n, NEW fs, FramesOn(is, n, fs), ~Head(fs).open, NEW f, FrameOn(is, n, f)
  PROVE  LET r == <<f>> \o fs
         IN FramesOn(is, n, r) /\ Head(r) = f /\ Len(r) = Len(fs) + 1
<1> DEFINE r == <<f>> \o fs
<1>0. Listed(fs)
  BY DEF FramesOn
<1>5. Pushed(fs, f, r)
  BY <1>0, ListPush
<1> HIDE DEF r
<1>1. /\ Listed(r) /\ r # <<>> /\ Len(r) = Len(fs) + 1 /\ Head(r) = f
      /\ \A p \in DOMAIN r : p = 1 \/ \E m \in DOMAIN fs : r[p] = fs[m]
      /\ Elements(r) \subseteq Elements(fs) \cup {f}
  BY <1>5 DEF Pushed
<1>2. \A m \in DOMAIN fs : ~fs[m].open
  <2>1. Head(fs) = fs[1]
    BY FramesTop
  <2> QED BY <2>1 DEF FramesOn
<1>3. FramesOn(is, n, r)
  BY <1>1, <1>2 DEF FramesOn
<1> QED BY <1>1, <1>3 DEF r

LEMMA FramesLeave ==
  ASSUME NEW is, NEW n, NEW fs, FramesOn(is, n, fs), Len(fs) # 1
  PROVE  FramesOn(is, n, Tail(fs)) /\ ~Head(Tail(fs)).open
<1>1. /\ Listed(Tail(fs)) /\ Elements(Tail(fs)) \subseteq Elements(fs)
      /\ Len(Tail(fs)) = Len(fs) - 1 /\ Len(fs) > 0 /\ Len(fs) \in Nat
      /\ \A m \in DOMAIN Tail(fs) : m + 1 \in DOMAIN fs /\ Tail(fs)[m] = fs[m + 1]
  BY ListTail, ListedIs DEF FramesOn
<1>2. Tail(fs) # <<>>
  <2>1. Len(<<>>) = 0
    OBVIOUS
  <2>2. Len(Tail(fs)) # 0
    BY <1>1
  <2> QED BY <2>1, <2>2
<1>3. \A m \in DOMAIN Tail(fs) : m \in Nat /\ m # 0 /\ ~Tail(fs)[m].open
  <2>1. DOMAIN Tail(fs) = 1..Len(Tail(fs)) /\ Len(Tail(fs)) \in Nat
    BY <1>1, ListedIs
  <2>2. \A m \in DOMAIN Tail(fs) : m + 1 # 1
    BY <2>1
  <2> QED BY <1>1, <2>1, <2>2 DEF FramesOn
<1>4. Head(Tail(fs)) = Tail(fs)[1] /\ 1 \in DOMAIN Tail(fs)
  BY <1>1, <1>2, ListTail
<1> QED BY <1>1, <1>2, <1>3, <1>4 DEF FramesOn

-----------------------------------------------------------------------------
(* What adding a route does to the routes and to the preReady listeners.   *)

NewContext(is, job, context) ==
  /\ context.inst = job.inst /\ context.id = job.id /\ context.parts = job.call.parts
  /\ \A s \in Settings : context.settings[s] = SettingOf(is, job.inst, s)
AskedBy(job, j) ==
  j.inst = job.inst /\ j.id = job.id /\ j.call.op = job.call.op /\ j.call.parts = job.call.parts
RoutesTo(is, job, rs, ls, rs2, ls2) ==
  /\ Listed(rs2) /\ DOMAIN rs \subseteq DOMAIN rs2
  /\ \A k \in DOMAIN rs : rs2[k] = rs[k]
  /\ \A k \in DOMAIN rs2 \ DOMAIN rs :
       NewContext(is, job, rs2[k]) /\ \E m \in DOMAIN ls2 : ls2[m].at = k
  /\ Listed(ls2) /\ DOMAIN ls \subseteq DOMAIN ls2
  /\ \A m \in DOMAIN ls : ls2[m] = ls[m]
  /\ \A m \in DOMAIN ls2 \ DOMAIN ls : ls2[m].at \in 0..Len(rs2)
Added(is, job, rs, ls, st) ==
  /\ RoutesTo(is, job, rs, ls, st.routes, st.listeners)
  /\ Listed(st.jobs) /\ \A j \in Elements(st.jobs) : AskedBy(job, j)

(* One more route, and the listener that finishes it.                      *)
LEMMA OneMoreRoute ==
  ASSUME NEW is, NEW job, NEW rs, NEW ls, NEW rs2, NEW ls2, RoutesTo(is, job, rs, ls, rs2, ls2),
         NEW c, NewContext(is, job, c), NEW l, l.at = Len(rs2) + 1
  PROVE  RoutesTo(is, job, rs, ls, Append(rs2, c), Append(ls2, l))
<1> DEFINE rs3 == Append(rs2, c)
           ls3 == Append(ls2, l)
<1>1. /\ Listed(rs3) /\ Len(rs3) = Len(rs2) + 1 /\ rs3[Len(rs2) + 1] = c
      /\ \A k \in DOMAIN rs2 : rs3[k] = rs2[k]
      /\ DOMAIN rs3 = DOMAIN rs2 \cup {Len(rs2) + 1} /\ Len(rs2) \in Nat
  BY ListAppend, ListedIs DEF RoutesTo
<1>2. /\ Listed(ls3) /\ ls3[Len(ls2) + 1] = l
      /\ \A m \in DOMAIN ls2 : ls3[m] = ls2[m]
      /\ DOMAIN ls3 = DOMAIN ls2 \cup {Len(ls2) + 1}
  BY ListAppend DEF RoutesTo
<1> HIDE DEF rs3, ls3
<1>3. /\ DOMAIN rs \subseteq DOMAIN rs3 /\ \A k \in DOMAIN rs : rs3[k] = rs[k]
      /\ DOMAIN ls \subseteq DOMAIN ls3 /\ \A m \in DOMAIN ls : ls3[m] = ls[m]
  BY <1>1, <1>2 DEF RoutesTo
<1>4. ASSUME NEW k \in DOMAIN rs3 \ DOMAIN rs
      PROVE  NewContext(is, job, rs3[k]) /\ \E m \in DOMAIN ls3 : ls3[m].at = k
  <2>1. CASE k = Len(rs2) + 1
    BY <1>1, <1>2, <2>1
  <2>2. CASE k \in DOMAIN rs2
    <3>1. PICK m \in DOMAIN ls2 : ls2[m].at = k
      BY <1>4, <2>2 DEF RoutesTo
    <3> QED BY <1>1, <1>2, <1>4, <2>2, <3>1 DEF RoutesTo
  <2> QED BY <1>1, <1>4, <2>1, <2>2
<1>5. ASSUME NEW m \in DOMAIN ls3 \ DOMAIN ls
      PROVE  ls3[m].at \in 0..Len(rs3)
  <2>1. CASE m = Len(ls2) + 1
    BY <1>1, <1>2, <2>1
  <2>2. CASE m \in DOMAIN ls2
    BY <1>1, <1>2, <1>5, <2>2 DEF RoutesTo
  <2> QED BY <1>2, <1>5, <2>1, <2>2
<1>6. RoutesTo(is, job, rs, ls, rs3, ls3)
  BY <1>1, <1>2, <1>3, <1>4, <1>5 DEF RoutesTo
<1> QED BY <1>6 DEF rs3, ls3

LEMMA AfterAdded ==
  ASSUME NEW is, NEW job, NEW rs, NEW ls, NEW st, NEW entry, Added(is, job, rs, ls, st)
  PROVE  Added(is, job, rs, ls, AfterRouteAdded(is, job, st, entry))
<1> DEFINE url == is[job.inst].prefix \o entry.path
           ran == IF entry.prefixing THEN <<>> ELSE OnRouteRuns(is[job.inst].hooks["onRoute"])
           own == [st.own EXCEPT !["preHandler"] = @ \o SelectSeq(ran, LAMBDA h : h.does = "append")]
           opts == [job EXCEPT !.own = own]
           context == Context(is, opts, url)
           listener == [at |-> Len(st.routes) + 1, job |-> opts]
           head == HeadJob(job, entry.path, own)
           next == AfterRouteAdded(is, job, st, entry)
           failed == [st EXCEPT !.own = own, !.done = Append(@, "error")]
           added == [routes    |-> Append(st.routes, context),
                     listeners |-> Append(st.listeners, listener),
                     own       |-> own,
                     jobs      |-> st.jobs,
                     done      |-> Append(st.done, "ok")]
<1>0. next = failed \/ next = added \/ next = [added EXCEPT !.jobs = Append(st.jobs, head)]
  BY DEF AfterRouteAdded
<1>1. \/ next.routes = st.routes /\ next.listeners = st.listeners /\ next.jobs = st.jobs
      \/ /\ next.routes = Append(st.routes, context)
         /\ next.listeners = Append(st.listeners, listener)
         /\ next.jobs = st.jobs \/ next.jobs = Append(st.jobs, head)
  <2> HIDE DEF next, own, context, listener, head
  <2>1. CASE next = failed
    BY <2>1
  <2>2. CASE next = added
    BY <2>2
  <2>3. CASE next = [added EXCEPT !.jobs = Append(st.jobs, head)]
    BY <2>3
  <2> QED BY <1>0, <2>1, <2>2, <2>3
<1>2. NewContext(is, job, context)
  <2>1. opts.inst = job.inst /\ opts.id = job.id /\ opts.call = job.call
    OBVIOUS
  <2> HIDE DEF opts
  <2> QED BY <2>1 DEF NewContext, Context
<1>3. listener.at = Len(st.routes) + 1
  OBVIOUS
<1>4. AskedBy(job, head)
  <2> DEFINE call == [job.call EXCEPT !.method = "HEAD", !.path = entry.path]
             tail == ParseHeadOnSendHandlers(own)
  <2>1. head = [job EXCEPT !.call = call, !.own = tail]
    BY DEF HeadJob
  <2>2. call.op = job.call.op /\ call.parts = job.call.parts
    OBVIOUS
  <2> HIDE DEF call, tail, head, own
  <2>3. head.inst = job.inst /\ head.id = job.id /\ head.call = call
    BY <2>1
  <2> QED BY <2>2, <2>3 DEF AskedBy
<1> HIDE DEF next, context, listener, head
<1>5. Listed(next.jobs) /\ \A j \in Elements(next.jobs) : AskedBy(job, j)
  <2>1. Listed(st.jobs) /\ \A j \in Elements(st.jobs) : AskedBy(job, j)
    BY DEF Added
  <2>2. CASE next.jobs = st.jobs
    BY <2>1, <2>2
  <2>3. CASE next.jobs = Append(st.jobs, head)
    <3>1. Listed(next.jobs) /\ Elements(next.jobs) = Elements(st.jobs) \cup {head}
      BY <2>1, <2>3, ListAppend
    <3> QED BY <1>4, <2>1, <3>1
  <2> QED BY <1>1, <2>2, <2>3
<1>6. RoutesTo(is, job, rs, ls, next.routes, next.listeners)
  <2>1. RoutesTo(is, job, rs, ls, st.routes, st.listeners)
    BY DEF Added
  <2>2. RoutesTo(is, job, rs, ls, Append(st.routes, context), Append(st.listeners, listener))
    BY <1>2, <1>3, <2>1, OneMoreRoute
  <2> QED BY <1>1, <2>1, <2>2
<1> QED BY <1>5, <1>6 DEF Added, next

LEMMA RoutesAdded ==
  ASSUME NEW is, NEW job, NEW rs, NEW ls, Listed(rs), Listed(ls)
  PROVE  Added(is, job, rs, ls, AddRoute(is, job, rs, ls))
<1> DEFINE none == [routes |-> rs, listeners |-> ls, own |-> job.own, jobs |-> <<>>, done |-> <<>>]
<1>1. Added(is, job, rs, ls, none)
  <2>1. Listed(<<>>) /\ Elements(<<>>) = {}
    BY DEF Listed, Elements
  <2> QED BY <2>1 DEF Added, RoutesTo
<1> HIDE DEF none
<1>2. \A entry : Added(is, job, rs, ls, AfterRouteAdded(is, job, none, entry))
  BY <1>1, AfterAdded
<1>3. \A e1, e2 : Added(is, job, rs, ls, AfterRouteAdded(is, job, AfterRouteAdded(is, job, none, e1), e2))
  BY <1>2, AfterAdded
<1> QED BY <1>2, <1>3 DEF AddRoute, none

-----------------------------------------------------------------------------
(* Shape: every index names an instance, a route or a call that is there.  *)

Registry ==
  /\ Listed(routes)
  /\ \A k \in DOMAIN routes : routes[k].inst \in DOMAIN insts /\ routes[k].parts \subseteq Parts
  /\ Listed(listeners) /\ \A m \in DOMAIN listeners : listeners[m].at \in 0..Len(routes)
Entries == Listed(log) /\ \A n \in DOMAIN log : log[n].inst \in DOMAIN insts
Shape ==
  api \in Topics /\ calls \in Nat /\ Tree /\ FramesOn(insts, calls, frames) /\ Registry /\ Entries

(* The calls that a step counts.                                           *)
LEMMA CallsGrow ==
  ASSUME Shape, [Next]_vars
  PROVE  /\ calls' \in Nat /\ calls <= calls' /\ api' = api
         /\ calls' # calls => \E c \in api.uses : Call(c) /\ calls' = calls + 1 /\ calls < api.calls
<1>1. ASSUME NEW c \in api.uses, Call(c)
      PROVE  calls' = calls + 1 /\ api' = api /\ calls < api.calls
  BY <1>1 DEF Call, Calling, Me, BodyThrows, CallRegister, CallAfter, CallAddHook, CallRoute,
         CallDecorate, CallAddContentTypeParser, CallAddSchema, CallSetCompiler, CallSet,
         CallSetNotFoundHandler
<1>2. Boot => UNCHANGED <<api, calls>>
  BY DEF Boot, Running, BodyEnds, SkipPlugin, LoadPlugin, RunAfter, RunAddHook, RunRoute,
         RunSetNotFound, Loaded, RouteListener, NotFoundListener, Start
<1>3. Serve => UNCHANGED <<api, calls>>
  BY DEF Serve, Request, bootVars
<1>4. UNCHANGED vars => UNCHANGED <<api, calls>>
  BY DEF vars, bootVars
<1>5. calls \in Nat
  BY DEF Shape
<1> QED BY <1>1, <1>2, <1>3, <1>4, <1>5 DEF Next

(* The job that runs, and the frames it leaves.                            *)
LEMMA JobThere ==
  ASSUME Shape, Top.jobs # <<>>, ~Top.open
  PROVE  /\ JobOn(insts, calls, Current) /\ Current.inst \in DOMAIN insts
         /\ FramesOn(insts, calls, Dropped) /\ ~Head(Dropped).open /\ Len(Dropped) = Len(frames)
         /\ \A jobs : Listed(jobs) /\ (\A j \in Elements(jobs) : JobOn(insts, calls, j)) =>
              FramesOn(insts, calls, Within(jobs)) /\ ~Head(Within(jobs)).open
<1>1. FramesOn(insts, calls, frames)
  BY DEF Shape
<1>2. /\ FrameOn(insts, calls, Top) /\ JobOn(insts, calls, Current) /\ Listed(Tail(Top.jobs))
      /\ \A j \in Elements(Tail(Top.jobs)) : JobOn(insts, calls, j)
  BY <1>1, FramesTop DEF Top, Current
<1>3. ASSUME NEW jobs, Listed(jobs), \A j \in Elements(jobs) : JobOn(insts, calls, j)
      PROVE  LET f == [Top EXCEPT !.jobs = jobs] IN FrameOn(insts, calls, f) /\ ~f.open
  BY <1>2, <1>3 DEF FrameOn
<1>4. ASSUME NEW jobs, Listed(jobs), \A j \in Elements(jobs) : JobOn(insts, calls, j)
      PROVE  LET r == <<[Top EXCEPT !.jobs = jobs]>> \o Tail(frames)
             IN FramesOn(insts, calls, r) /\ ~Head(r).open /\ Len(r) = Len(frames)
  <2> DEFINE f == [Top EXCEPT !.jobs = jobs]
  <2>1. FrameOn(insts, calls, f) /\ ~f.open
    BY <1>3, <1>4
  <2> HIDE DEF f
  <2>2. LET r == <<f>> \o Tail(frames)
        IN FramesOn(insts, calls, r) /\ ~Head(r).open /\ Len(r) = Len(frames)
    BY <1>1, <2>1, FramesReplace
  <2> QED BY <2>2 DEF f
<1>5. FramesOn(insts, calls, Dropped) /\ ~Head(Dropped).open /\ Len(Dropped) = Len(frames)
  <2>1. Dropped = <<[Top EXCEPT !.jobs = Tail(Top.jobs)]>> \o Tail(frames)
    BY DEF Dropped
  <2> QED BY <1>2, <1>4, <2>1
<1>6. ASSUME NEW jobs, Listed(jobs), \A j \in Elements(jobs) : JobOn(insts, calls, j)
      PROVE  FramesOn(insts, calls, Within(jobs)) /\ ~Head(Within(jobs)).open
  <2> DEFINE more == jobs \o Tail(Top.jobs)
  <2>1. Listed(more) /\ Elements(more) \subseteq Elements(jobs) \cup Elements(Tail(Top.jobs))
    BY <1>2, <1>6, ListJoin
  <2>2. \A j \in Elements(more) : JobOn(insts, calls, j)
    BY <1>2, <1>6, <2>1
  <2>3. Within(jobs) = <<[Top EXCEPT !.jobs = more]>> \o Tail(frames)
    BY DEF Within
  <2> HIDE DEF more
  <2> QED BY <1>4, <2>1, <2>2, <2>3
<1> QED BY <1>2, <1>5, <1>6 DEF JobOn

LEMMA TopThere ==
  ASSUME Shape
  PROVE  Here \in DOMAIN insts /\ FrameOn(insts, calls, Top) /\ Top = frames[1]
         /\ Len(frames) \in Nat /\ Len(frames) > 0
  BY FramesTop DEF Shape, Here, Top, FrameOn

(* The route whose listener is called.                                     *)
LEMMA ListenerThere ==
  ASSUME Shape, listeners # <<>>
  PROVE  /\ Head(listeners).at \in 0..Len(routes)
         /\ Head(listeners).at # 0 => Head(listeners).at \in DOMAIN routes
<1>1. Head(listeners) = listeners[1] /\ 1 \in DOMAIN listeners
  BY ListTail DEF Shape, Registry
<1> QED BY <1>1, ListedIs DEF Shape, Registry

-----------------------------------------------------------------------------
(* What a step logs.                                                       *)

Entry(e) ==
  /\ e.inst \in DOMAIN insts
  /\ e.op = "hook" => RunAddHook
  /\ e.op = "set" => SetStep
  /\ e.op = "load" => LoadPlugin
  /\ e.op = "addSchema" => AddSchemaStep
  /\ e.op = "build" => RouteListener
  /\ e.op = "taken" => RunAfter
LogKept == log' = log \/ \E e : Entry(e) /\ log' = Append(log, e)

LEMMA LoggedOne ==
  ASSUME NEW op, NEW i \in DOMAIN insts, NEW arg, NEW id, Log(op, i, arg, id),
         op = "hook" => RunAddHook, op = "set" => SetStep, op = "load" => LoadPlugin,
         op = "addSchema" => AddSchemaStep, op = "build" => RouteListener, op = "taken" => RunAfter
  PROVE  LogKept
<1> DEFINE e == [op |-> op, inst |-> i, arg |-> arg, id |-> id, at |-> Top.at]
<1>1. e.op = op /\ e.inst = i
  OBVIOUS
<1>2. log' = Append(log, e)
  BY DEF Log
<1> HIDE DEF e
<1> QED BY <1>1, <1>2 DEF LogKept, Entry

LEMMA CallOps ==
  ASSUME NEW c \in api.uses, Call(c)
  PROVE  /\ c.op \notin {"hook", "load", "build", "taken"}
         /\ c.op = "set" => SetStep
         /\ c.op = "addSchema" => AddSchemaStep
  BY DEF Call, Calling, BodyThrows, CallRegister, CallAfter, CallAddHook, CallRoute,
         CallDecorate, CallAddContentTypeParser, CallAddSchema, CallSetCompiler, CallSet,
         CallSetNotFoundHandler, SetStep, AddSchemaStep

LEMMA NextLog ==
  ASSUME Shape, [Next]_vars
  PROVE  LogKept
<1>1. ASSUME NEW c \in api.uses, Call(c)
      PROVE  LogKept
  <2>1. CASE Throws(c)
    <3>1. Log("error", Here, c.op, Me)
      BY <2>1 DEF Throws
    <3> QED BY <3>1, TopThere, LoggedOne
  <2>2. CASE \E arg : Log(c.op, Here, arg, Me)
    BY <1>1, <2>2, CallOps, TopThere, LoggedOne
  <2> QED BY <1>1, <2>1, <2>2, CallCases
<1>2. CASE LoadPlugin
  <2>1. Current.inst \in DOMAIN insts
    BY <1>2, JobThere DEF LoadPlugin, Running
  <2>2. \/ Log("error", Current.inst, "register", Current.id)
        \/ Log("load", Current.inst, Current.call.plugin, Current.id)
    BY <1>2 DEF LoadPlugin
  <2> QED BY <1>2, <2>1, <2>2, LoggedOne
<1>3. CASE RunAfter
  <2>1. Current.inst \in DOMAIN insts
    BY <1>3, JobThere DEF RunAfter, Running
  <2>2. log' = log \/ Log("taken", Current.inst, bootErr, Current.id)
    BY <1>3 DEF RunAfter
  <2>3. CASE log' = log
    BY <2>3 DEF LogKept
  <2>4. CASE Log("taken", Current.inst, bootErr, Current.id)
    <3>1. PICK arg : Log("taken", Current.inst, arg, Current.id)
      BY <2>4
    <3> QED BY <1>3, <2>1, <3>1, LoggedOne
  <2> QED BY <2>2, <2>3, <2>4
<1>4. CASE RunAddHook
  <2>1. Current.inst \in DOMAIN insts
    BY <1>4, JobThere DEF RunAddHook, Running
  <2>2. Log("hook", Current.inst, Current.call.name, Current.id)
    BY <1>4 DEF RunAddHook
  <2> QED BY <1>4, <2>1, <2>2, LoggedOne
<1>5. CASE RunRoute
  <2>1. Current.inst \in DOMAIN insts
    BY <1>5, JobThere DEF RunRoute, Running
  <2>2. log' = log \/ \E op \in {"error", "ignored"} : Log(op, Current.inst, "route", Current.id)
    BY <1>5 DEF RunRoute, RouteEnds
  <2>3. CASE log' = log
    BY <2>3 DEF LogKept
  <2>4. CASE \E op \in {"error", "ignored"} : Log(op, Current.inst, "route", Current.id)
    BY <2>1, <2>4, LoggedOne
  <2> QED BY <2>2, <2>3, <2>4
<1>6. CASE RouteListener
  <2>1. routes[Head(listeners).at].inst \in DOMAIN insts
    BY <1>6, ListenerThere DEF RouteListener, Shape, Registry
  <2>2. \/ log' = log
        \/ \E arg, id : Log("build", routes[Head(listeners).at].inst, arg, id)
    BY <1>6 DEF RouteListener
  <2> QED BY <1>6, <2>1, <2>2, LoggedOne DEF LogKept
<1>7. CASE BodyEnds \/ SkipPlugin \/ RunSetNotFound \/ Loaded \/ NotFoundListener \/ Start
  BY <1>7 DEF BodyEnds, SkipPlugin, RunSetNotFound, Loaded, NotFoundListener, Start, LogKept
<1>8. CASE Serve \/ UNCHANGED vars
  BY <1>8, ServeBoot DEF vars, bootVars, LogKept
<1> QED BY <1>1, <1>2, <1>3, <1>4, <1>5, <1>6, <1>7, <1>8 DEF Next, Boot

LEMMA NextEntries ==
  ASSUME Shape, [Next]_vars
  PROVE  Entries'
<1>1. InstsKept /\ LogKept
  BY NextInsts, NextLog DEF Shape
<1>2. CASE log' = log
  BY <1>1, <1>2 DEF Shape, Entries, InstsKept
<1>3. ASSUME NEW e, Entry(e), log' = Append(log, e)
      PROVE  Entries'
  BY <1>1, <1>3, ListAppend DEF Shape, Entries, InstsKept, Entry
<1> QED BY <1>1, <1>2, <1>3 DEF LogKept

-----------------------------------------------------------------------------
(* Shape is kept.                                                          *)

LEMMA NextTree ==
  ASSUME Shape, [Next]_vars
  PROVE  Tree'
<1>1. InstsKept
  BY NextInsts DEF Shape
<1>2. CASE DOMAIN insts' = DOMAIN insts
  BY <1>1, <1>2 DEF Shape, Tree, InstsKept, SameBut
<1>3. CASE LoadPlugin
  <2> DEFINE named == RegisterPluginName(insts, Current.inst, Current.call.plugin)
             i     == Current.inst
  <2>1. /\ DOMAIN named = DOMAIN insts /\ Len(named) = Len(insts) /\ Listed(named)
        /\ \A j \in DOMAIN insts : named[j].chain = insts[j].chain
        /\ NewInstance(named, insts')
    BY <1>3, LoadInsts DEF Shape, SameBut
  <2>2. i \in DOMAIN insts
    BY <1>3, JobThere DEF LoadPlugin, Running
  <2> HIDE DEF named
  <2>3. CASE insts' = named
    BY <1>1, <2>1, <2>3 DEF Shape, Tree, InstsKept, SameBut
  <2>4. CASE insts' # named
    <3> DEFINE me == Len(named) + 1
    <3>1. /\ DOMAIN insts' = DOMAIN insts \cup {me} /\ me \notin DOMAIN insts
          /\ insts'[me].chain = insts[i].chain \cup {me}
      BY <2>1, <2>2, <2>4 DEF NewInstance
    <3>2. DOMAIN insts = 1..(me - 1) /\ me \in Nat
      BY <2>1, ListedIs DEF Shape, Tree
    <3>3. insts[i].chain \subseteq 1..i /\ 1 \in insts[i].chain /\ i \in 1..(me - 1)
      BY <2>2, <3>2 DEF Shape, Tree
    <3> HIDE DEF me
    <3>4. insts'[me].chain \subseteq 1..me /\ {1, me} \subseteq insts'[me].chain
      BY <3>1, <3>2, <3>3
    <3>5. ASSUME NEW j \in DOMAIN insts
          PROVE  insts'[j].chain \subseteq 1..j /\ {1, j} \subseteq insts'[j].chain
      BY <1>1, <3>5 DEF Shape, Tree, InstsKept, SameBut
    <3> QED BY <1>1, <3>1, <3>4, <3>5 DEF Shape, Tree, InstsKept
  <2> QED BY <2>3, <2>4
<1> QED BY <1>1, <1>2, <1>3 DEF InstsKept

(* A job and a frame of this step, for the instances after it.             *)
LEMMA CallFrames ==
  ASSUME Shape, NEW c \in api.uses, Call(c), InstsKept
  PROVE  FramesOn(insts', calls', frames')
<1>0. calls' = calls + 1 /\ calls \in Nat
  BY DEF Shape, Call, Calling, Me, BodyThrows, CallRegister, CallAfter, CallAddHook, CallRoute,
         CallDecorate, CallAddContentTypeParser, CallAddSchema, CallSetCompiler, CallSet,
         CallSetNotFoundHandler
<1>13. /\ c.op = "route" => c.parts \subseteq Parts
       /\ c.op = "register" => c.plugin.prefix \in Seq(STRING)
  <2>1. api \in Topics /\ c \in api.uses
    BY DEF Shape
  <2> QED BY <2>1, TopicsAssumption
<1>1. FramesOn(insts', calls', frames)
  BY <1>0, FramesGrow DEF Shape, InstsKept
<1>2. CASE Throws(c)
  BY <1>1, <1>2, FramesLeave DEF Throws
<1>3. CASE frames' = frames
  BY <1>1, <1>3
<1>4. ASSUME NEW job, JobOn(insts', calls', job), Enqueue(job)
      PROVE  FramesOn(insts', calls', frames')
  <2> DEFINE f == [Top EXCEPT !.jobs = Append(Top.jobs, job)]
  <2>1. FrameOn(insts', calls', Top)
    BY <1>1, FramesTop DEF Top
  <2>2. FrameOn(insts', calls', f)
    BY <1>4, <2>1, ListAppend DEF FrameOn
  <2>3. frames' = <<f>> \o Tail(frames)
    BY <1>4 DEF Enqueue
  <2> HIDE DEF f
  <2> QED BY <1>1, <2>2, <2>3, FramesReplace
<1>5. Here \in DOMAIN insts' /\ Me \in 0..calls' /\ Me # 0
  BY <1>0, TopThere DEF InstsKept, Me
<1>6. c.op # "route" => JobOn(insts', calls', Job(c))
  BY <1>5, <1>13 DEF JobOn, Job
<1>7. JobOn(insts', calls', RouteJob(c, Me, Here))
  BY <1>5, <1>13 DEF JobOn, RouteJob
<1>8. CASE CallRegister(c) \/ CallAfter(c) \/ CallAddHook(c)
  <2>1. Enqueue(Job(c)) /\ c.op # "route"
    BY <1>8 DEF CallRegister, CallAfter, CallAddHook, PutsOff, Calling
  <2> QED BY <1>4, <1>6, <2>1
<1>9. CASE CallRoute(c)
  BY <1>4, <1>7, <1>9 DEF CallRoute, PutsOff
<1>10. CASE CallSetNotFoundHandler(c)
  BY <1>2, <1>4, <1>7, <1>10 DEF CallSetNotFoundHandler
<1>11. CASE BodyThrows(c)
  BY <1>2, <1>11 DEF BodyThrows
<1>12. CASE CallDecorate(c) \/ CallAddContentTypeParser(c) \/ CallAddSchema(c) \/ CallSetCompiler(c) \/ CallSet(c)
  BY <1>2, <1>3, <1>12
     DEF CallDecorate, CallAddContentTypeParser, CallAddSchema, CallSetCompiler, CallSet, Sets
<1> QED BY <1>8, <1>9, <1>10, <1>11, <1>12 DEF Call

LEMMA NewFrame ==
  ASSUME NEW is, NEW n, NEW i \in DOMAIN is, NEW at
  PROVE  FrameOn(is, n, Frame(i, at))
<1>1. Listed(<<>>) /\ Elements(<<>>) = {}
  BY DEF Listed, Elements
<1> QED BY <1>1 DEF FrameOn, Frame

LEMMA BootFrames ==
  ASSUME Shape, Boot, InstsKept
  PROVE  FramesOn(insts', calls', frames')
<1>1. calls' = calls /\ calls \in Nat
  BY DEF Boot, Running, BodyEnds, SkipPlugin, LoadPlugin, RunAfter, RunAddHook, RunRoute,
         RunSetNotFound, Loaded, RouteListener, NotFoundListener, Start, Shape
<1>2. \A fs : FramesOn(insts, calls, fs) => FramesOn(insts', calls', fs)
  BY <1>1, FramesGrow DEF InstsKept
<1>3. FramesOn(insts, calls, frames) /\ FrameOn(insts, calls, Top)
  BY TopThere DEF Shape
<1>4. CASE BodyEnds
  <2> DEFINE f == [Top EXCEPT !.open = FALSE]
  <2>1. FrameOn(insts, calls, f)
    BY <1>3 DEF FrameOn
  <2>2. frames' = <<f>> \o Tail(frames)
    BY <1>4 DEF BodyEnds
  <2> HIDE DEF f
  <2> QED BY <1>2, <1>3, <2>1, <2>2, FramesReplace
<1>5. CASE frames' = Dropped /\ Top.jobs # <<>> /\ ~Top.open
  BY <1>2, <1>5, JobThere
<1>6. ASSUME NEW i \in DOMAIN insts', NEW at, frames' = <<Frame(i, at)>> \o Dropped,
             Top.jobs # <<>>, ~Top.open
      PROVE  FramesOn(insts', calls', frames')
  <2>1. FramesOn(insts', calls', Dropped) /\ ~Head(Dropped).open
    BY <1>2, <1>6, JobThere
  <2>2. FrameOn(insts', calls', Frame(i, at))
    BY NewFrame
  <2> QED BY <1>6, <2>1, <2>2, FramesEnter
<1>7. CASE LoadPlugin
  <2>1. Top.jobs # <<>> /\ ~Top.open
    BY <1>7 DEF LoadPlugin, Running
  <2> DEFINE plugin == Current.call.plugin
             named == RegisterPluginName(insts, Current.inst, plugin)
  <2>2. CASE frames' = Dropped
    BY <1>5, <2>1, <2>2
  <2>3. CASE frames' = <<Frame(Current.inst, "later")>> \o Dropped
    BY <1>6, <2>1, <2>3, JobThere DEF InstsKept
  <2>4. CASE insts' = Override(named, Current.inst, plugin, calls)
             /\ frames' = <<Frame(Len(insts) + 1, "body")>> \o Dropped
    <3>1. Len(insts) + 1 \in DOMAIN insts'
      <4>1. Listed(named) /\ Len(named) = Len(insts)
        BY <1>7, LoadInsts DEF Shape
      <4> HIDE DEF named
      <4> QED BY <2>4, <4>1, ListAppend DEF Override
    <3> QED BY <1>6, <2>1, <2>4, <3>1
  <2> QED BY <1>7, <2>2, <2>3, <2>4 DEF LoadPlugin
<1>8. CASE RunAfter
  <2>1. Top.jobs # <<>> /\ ~Top.open /\ frames' = <<Frame(Current.inst, "later")>> \o Dropped
    BY <1>8 DEF RunAfter, Running
  <2> QED BY <1>6, <2>1, JobThere DEF InstsKept
<1>9. CASE RunRoute
  <2> DEFINE st == AddRoute(insts, Current, routes, listeners)
  <2>1. Top.jobs # <<>> /\ ~Top.open /\ frames' = Within(st.jobs) /\ Current.call.op = "route"
    BY <1>9 DEF RunRoute, Running
  <2>2. JobOn(insts, calls, Current)
    BY <2>1, JobThere
  <2>3. Listed(st.jobs) /\ \A j \in Elements(st.jobs) : AskedBy(Current, j)
    BY RoutesAdded DEF Added, Shape, Registry
  <2> HIDE DEF st
  <2>4. \A j \in Elements(st.jobs) : JobOn(insts, calls, j)
    BY <2>1, <2>2, <2>3 DEF AskedBy, JobOn
  <2> QED BY <1>2, <2>1, <2>3, <2>4, JobThere
<1>10. CASE SkipPlugin \/ RunAddHook \/ RunSetNotFound
  BY <1>5, <1>10 DEF SkipPlugin, RunAddHook, RunSetNotFound, Running
<1>11. CASE Loaded
  BY <1>2, <1>3, <1>11, FramesLeave DEF Loaded
<1>12. CASE RouteListener \/ NotFoundListener \/ Start
  BY <1>2, <1>3, <1>12 DEF RouteListener, NotFoundListener, Start
<1> QED BY <1>4, <1>7, <1>8, <1>9, <1>10, <1>11, <1>12 DEF Boot

LEMMA NextFrames ==
  ASSUME Shape, [Next]_vars
  PROVE  FramesOn(insts', calls', frames')
<1>1. InstsKept
  BY NextInsts DEF Shape
<1>2. CASE Serve \/ UNCHANGED vars
  <2>1. frames' = frames /\ calls' = calls
    BY <1>2 DEF Serve, Request, bootVars, vars
  <2> QED BY <1>1, <2>1, FramesGrow DEF Shape, InstsKept
<1> QED BY <1>1, <1>2, CallFrames, BootFrames DEF Next

LEMMA NextRegistry ==
  ASSUME Shape, [Next]_vars
  PROVE  Registry'
<1>1. InstsKept
  BY NextInsts DEF Shape
<1>2. CASE UNCHANGED <<routes, listeners>>
  BY <1>1, <1>2 DEF Shape, Registry, InstsKept
<1>3. CASE RunRoute
  <2> DEFINE st == AddRoute(insts, Current, routes, listeners)
  <2>1. routes' = st.routes /\ listeners' = st.listeners /\ insts' = insts /\ Current.call.op = "route"
    BY <1>3 DEF RunRoute, Running
  <2>2. JobOn(insts, calls, Current)
    BY <1>3, JobThere DEF RunRoute, Running
  <2>3. Added(insts, Current, routes, listeners, st)
    BY RoutesAdded DEF Shape, Registry
  <2> HIDE DEF st
  <2>4. \A k \in DOMAIN st.routes : st.routes[k].inst \in DOMAIN insts /\ st.routes[k].parts \subseteq Parts
    BY <2>1, <2>2, <2>3 DEF Added, RoutesTo, NewContext, JobOn, Shape, Registry
  <2>5. Len(routes) <= Len(st.routes) /\ Len(routes) \in Nat /\ Len(st.routes) \in Nat
    <3>1. 1..Len(routes) \subseteq 1..Len(st.routes) /\ Len(routes) \in Nat /\ Len(st.routes) \in Nat
      BY <2>3, ListedIs DEF Added, RoutesTo, Shape, Registry
    <3> QED BY <3>1
  <2>6. \A m \in DOMAIN st.listeners : st.listeners[m].at \in 0..Len(st.routes)
    BY <2>3, <2>5 DEF Added, RoutesTo, Shape, Registry
  <2> QED BY <2>1, <2>3, <2>4, <2>6 DEF Registry, Added, RoutesTo
<1>4. CASE RunSetNotFound
  <2> DEFINE l == [at |-> 0, job |-> Current]
  <2>1. routes' = routes /\ listeners' = Append(listeners, l)
    BY <1>4 DEF RunSetNotFound
  <2>2. l.at = 0
    OBVIOUS
  <2> HIDE DEF l
  <2>3. /\ Listed(listeners') /\ DOMAIN listeners' = DOMAIN listeners \cup {Len(listeners) + 1}
        /\ listeners'[Len(listeners) + 1] = l
        /\ \A m \in DOMAIN listeners : listeners'[m] = listeners[m]
        /\ 0 \in 0..Len(routes)
    BY <2>1, ListAppend, ListedIs DEF Shape, Registry
  <2> QED BY <1>1, <2>1, <2>2, <2>3 DEF Shape, Registry, InstsKept
<1>5. CASE RouteListener
  <2> DEFINE k == Head(listeners).at
             w == RouteReady(insts, contexts, routes[k])
  <2>1. routes' = [routes EXCEPT ![k] = w] /\ listeners # <<>> /\ (listeners' = <<>> \/ listeners' = Tail(listeners))
    BY <1>5 DEF RouteListener
  <2>2. w.inst = routes[k].inst /\ w.parts = routes[k].parts
    BY DEF RouteReady
  <2> HIDE DEF w, k
  <2>3. /\ Listed(routes') /\ Len(routes') = Len(routes) /\ DOMAIN routes' = DOMAIN routes
        /\ \A n \in DOMAIN routes : routes'[n] = IF n = k THEN w ELSE routes[n]
    BY <2>1, ListUpdate DEF Shape, Registry
  <2>4. \A n \in DOMAIN routes' : routes'[n].inst \in DOMAIN insts' /\ routes'[n].parts \subseteq Parts
    BY <1>1, <2>2, <2>3 DEF Shape, Registry, InstsKept
  <2>5. Listed(listeners') /\ \A m \in DOMAIN listeners' : listeners'[m].at \in 0..Len(routes)
    <3>1. CASE listeners' = <<>>
      BY <3>1 DEF Listed, Elements
    <3>2. CASE listeners' = Tail(listeners)
      BY <2>1, <3>2, ListTail DEF Shape, Registry
    <3> QED BY <2>1, <3>1, <3>2
  <2> QED BY <2>3, <2>4, <2>5 DEF Registry
<1>6. CASE NotFoundListener
  BY <1>1, <1>6, ListTail DEF NotFoundListener, Shape, Registry, InstsKept
<1>7. ASSUME NEW c \in api.uses, Call(c)
      PROVE  UNCHANGED <<routes, listeners>>
  BY <1>7 DEF Call, Calling, BodyThrows, CallRegister, CallAfter, CallAddHook, CallRoute,
         CallDecorate, CallAddContentTypeParser, CallAddSchema, CallSetCompiler, CallSet,
         CallSetNotFoundHandler, UnchangedRoutes
<1>8. CASE BodyEnds \/ SkipPlugin \/ LoadPlugin \/ RunAfter \/ RunAddHook \/ Loaded \/ Start
  BY <1>2, <1>8 DEF BodyEnds, SkipPlugin, LoadPlugin, RunAfter, RunAddHook, Loaded, Start,
                    registryVars, UnchangedRoutes
<1>9. CASE Serve \/ UNCHANGED vars
  BY <1>2, <1>9 DEF Serve, Request, bootVars, registryVars, UnchangedRoutes, vars
<1> QED BY <1>2, <1>3, <1>4, <1>5, <1>6, <1>7, <1>8, <1>9 DEF Next, Boot

LEMMA NextShape ==
  ASSUME Shape, [Next]_vars
  PROVE  Shape'
BY CallsGrow, NextTree, NextFrames, NextRegistry, NextEntries DEF Shape

LEMMA InitShape == Init => Shape
<1> SUFFICES ASSUME Init PROVE Shape
  OBVIOUS
<1>1. insts = <<Fastify>> /\ routes = <<>> /\ listeners = <<>> /\ log = <<>> /\ calls = 0 /\ api \in Topics
  BY DEF Init
<1>2. Listed(<<>>) /\ DOMAIN <<>> = {} /\ Elements(<<>>) = {}
  BY DEF Listed, Elements
<1>3. \A e : Listed(<<e>>) /\ Elements(<<e>>) = {e} /\ DOMAIN <<e>> = {1} /\ <<e>>[1] = e /\ <<e>> # <<>>
  <2> TAKE e
  <2>1. <<e>> \in Seq({e}) /\ DOMAIN <<e>> = {1} /\ <<e>>[1] = e /\ <<e>> # <<>>
    OBVIOUS
  <2>2. Listed(<<e>>) /\ Elements(<<e>>) \subseteq {e}
    BY <2>1, ListedOver
  <2>3. e \in Elements(<<e>>)
    BY <2>1 DEF Elements
  <2> QED BY <2>1, <2>2, <2>3
<1>4. Tree
  <2>1. Fastify.chain = {1}
    BY DEF Fastify
  <2> QED BY <1>1, <1>3, <2>1 DEF Tree
<1>5. FramesOn(insts, calls, frames)
  <2> DEFINE f == [Frame(1, "body") EXCEPT !.jobs = <<DefaultJob>>]
  <2>1. f.inst = 1 /\ f.jobs = <<DefaultJob>>
    BY DEF Frame
  <2>2. JobOn(insts, calls, DefaultJob)
    BY <1>1, <1>3 DEF JobOn, DefaultJob, RouteJob, DefaultNotFound
  <2>3. frames = <<f>>
    BY DEF Init
  <2> HIDE DEF f
  <2>4. FrameOn(insts, calls, f)
    BY <1>1, <1>3, <2>1, <2>2 DEF FrameOn
  <2> QED BY <1>3, <2>3, <2>4 DEF FramesOn
<1>6. Registry /\ Entries
  BY <1>1, <1>2 DEF Registry, Entries
<1> QED BY <1>1, <1>4, <1>5, <1>6 DEF Shape
-----------------------------------------------------------------------------
(* Errors.  Of every error that avvio is told of an `after` has been told, *)
(* or it is held: it is in avvio's _error, or the error that took its      *)
(* place is; so it is until the boot fails.                                *)

Reported(n) == Told(n) \/ \E m \in DOMAIN log : TakesPlace(m, n) /\ Told(m)
Held(n) ==
  /\ \A j \in DOMAIN log : j >= n => log[j].op # "taken"
  /\ \E m \in DOMAIN log : (m = n \/ TakesPlace(m, n)) /\ bootErr = {log[m].id}
Accounted == \A n \in DOMAIN log : log[n].op = "error" => Reported(n) \/ Held(n)
KeptInv ==
  /\ StartsWell
  /\ phase = "loading" /\ Top.open => ~Errored
  /\ \/ phase = "crashed"
     \/ phase \in {"preReady", "failed"} /\ Errored
     \/ Accounted

(* Another entry of the log.                                               *)
Grown(e, l) ==
  /\ l = Len(log) /\ l \in Nat
  /\ DOMAIN log = 1..l /\ DOMAIN log' = 1..(l + 1)
  /\ log'[l + 1] = e
  /\ \A k \in 1..l : log'[k] = log[k]

LEMMA LogGrown ==
  ASSUME Listed(log), NEW e, log' = Append(log, e)
  PROVE  Grown(e, Len(log))
<1>1. /\ Listed(log') /\ Len(log') = Len(log) + 1 /\ log'[Len(log) + 1] = e
      /\ \A k \in DOMAIN log : log'[k] = log[k]
  BY ListAppend
<1>2. DOMAIN log = 1..Len(log) /\ Len(log) \in Nat /\ DOMAIN log' = 1..Len(log')
  BY <1>1, ListedIs
<1> QED BY <1>1, <1>2 DEF Grown

LEMMA ToldStays ==
  ASSUME NEW e, NEW l, Grown(e, l), NEW n \in DOMAIN log, Told(n)
  PROVE  Told(n)'
<1>1. PICK m \in DOMAIN log : m > n /\ log[m].op = "taken" /\ log[n].id \in log[m].arg
  BY DEF Told
<1>2. m \in DOMAIN log' /\ log'[m] = log[m] /\ log'[n] = log[n]
  BY DEF Grown
<1> QED BY <1>1, <1>2 DEF Told

LEMMA PlaceStays ==
  ASSUME NEW e, NEW l, Grown(e, l), NEW n \in DOMAIN log, NEW m \in DOMAIN log, TakesPlace(m, n)
  PROVE  TakesPlace(m, n)'
<1>1. n \in 1..l /\ m \in 1..l /\ l \in Nat
  BY DEF Grown
<1>2. log'[m] = log[m] /\ \A j \in n..m : log'[j] = log[j]
  BY <1>1 DEF Grown
<1> QED BY <1>2 DEF TakesPlace

LEMMA ReportedStays ==
  ASSUME NEW e, NEW l, Grown(e, l), NEW n \in DOMAIN log, Reported(n)
  PROVE  Reported(n)'
<1>1. CASE Told(n)
  BY <1>1, ToldStays DEF Reported
<1>2. CASE \E m \in DOMAIN log : TakesPlace(m, n) /\ Told(m)
  <2>1. PICK m \in DOMAIN log : TakesPlace(m, n) /\ Told(m)
    BY <1>2
  <2>2. m \in DOMAIN log' /\ TakesPlace(m, n)' /\ Told(m)'
    BY <2>1, ToldStays, PlaceStays DEF Grown
  <2> QED BY <2>2 DEF Reported
<1> QED BY <1>1, <1>2 DEF Reported

(* What is held stays so, or is replaced, or is told of.                   *)
LEMMA HeldStays ==
  ASSUME NEW e, NEW l, Grown(e, l), NEW n \in DOMAIN log, Held(n), e.op # "taken", bootErr' = bootErr
  PROVE  Held(n)'
<1>1. PICK m \in DOMAIN log : (m = n \/ TakesPlace(m, n)) /\ bootErr = {log[m].id}
  BY DEF Held
<1>2. m \in DOMAIN log' /\ log'[m] = log[m]
  BY DEF Grown
<1>3. m = n \/ TakesPlace(m, n)'
  BY <1>1, PlaceStays
<1>4. \A j \in DOMAIN log' : j >= n => log'[j].op # "taken"
  BY DEF Grown, Held
<1> QED BY <1>1, <1>2, <1>3, <1>4 DEF Held

LEMMA HeldReplaced ==
  ASSUME NEW e, NEW l, Grown(e, l), NEW n \in DOMAIN log, Held(n),
         e.op = "error", e.arg = "route", bootErr' = {e.id}
  PROVE  Held(n)'
<1>1. n \in 1..l /\ l \in Nat /\ l + 1 \in DOMAIN log' /\ log'[l + 1] = e
  BY DEF Grown
<1>2. \A j \in DOMAIN log' : j >= n => log'[j].op # "taken"
  BY DEF Grown, Held
<1>3. \A j \in n..(l + 1) : log'[j].op # "taken"
  BY <1>1, <1>2 DEF Grown
<1>4. TakesPlace(l + 1, n)'
  BY <1>1, <1>3 DEF TakesPlace
<1> QED BY <1>1, <1>2, <1>4 DEF Held

LEMMA HeldTold ==
  ASSUME NEW e, NEW l, Grown(e, l), NEW n \in DOMAIN log, Held(n), e.op = "taken", e.arg = bootErr
  PROVE  Reported(n)'
<1>1. PICK m \in DOMAIN log : (m = n \/ TakesPlace(m, n)) /\ bootErr = {log[m].id}
  BY DEF Held
<1>2. /\ m \in 1..l /\ l \in Nat /\ m \in DOMAIN log' /\ log'[m] = log[m]
      /\ l + 1 \in DOMAIN log' /\ log'[l + 1] = e
  BY DEF Grown
<1>3. Told(m)'
  BY <1>1, <1>2 DEF Told
<1>4. m = n \/ TakesPlace(m, n)'
  BY <1>1, PlaceStays
<1> QED BY <1>2, <1>3, <1>4 DEF Reported

(* What a step may log, and what that does to avvio's _error.              *)
Logs(e) ==
  /\ log' = Append(log, e)
  /\ \/ e.op \notin {"error", "taken"} /\ bootErr' = bootErr
     \/ e.op = "taken" /\ e.arg = bootErr
     \/ e.op = "error" /\ bootErr' = {e.id} /\ (e.arg = "route" \/ ~Errored)

LEMMA AccountedStays ==
  ASSUME Listed(log), Accounted, UNCHANGED <<log, bootErr>> \/ \E e : Logs(e)
  PROVE  Accounted'
<1>1. CASE UNCHANGED <<log, bootErr>>
  BY <1>1 DEF Accounted, Reported, Held, Told, TakesPlace
<1>2. ASSUME NEW e, Logs(e)
      PROVE  Accounted'
  <2> DEFINE l == Len(log)
  <2>1. Grown(e, l)
    BY <1>2, LogGrown DEF Logs
  <2> HIDE DEF l
  <2>2. ASSUME NEW n \in DOMAIN log', log'[n].op = "error", n # l + 1
        PROVE  Reported(n)' \/ Held(n)'
    <3>1. n \in DOMAIN log /\ log[n].op = "error"
      BY <2>1, <2>2 DEF Grown
    <3>2. CASE Reported(n)
      BY <2>1, <3>1, <3>2, ReportedStays
    <3>3. CASE Held(n)
      <4>1. Errored
        BY <3>3 DEF Held, Errored
      <4> QED BY <1>2, <2>1, <3>1, <3>3, <4>1, HeldStays, HeldReplaced, HeldTold DEF Logs
    <3> QED BY <3>1, <3>2, <3>3 DEF Accounted
  <2>3. ASSUME NEW n \in DOMAIN log', log'[n].op = "error", n = l + 1
        PROVE  Held(n)'
    <3>1. e.op = "error" /\ bootErr' = {e.id} /\ log'[n] = e
      BY <1>2, <2>1, <2>3 DEF Logs, Grown
    <3>2. \A j \in DOMAIN log' : j >= n => log'[j].op # "taken"
      BY <2>1, <2>3, <3>1 DEF Grown
    <3> QED BY <2>3, <3>1, <3>2 DEF Held
  <2>4. ASSUME NEW n \in DOMAIN log', log'[n].op = "error"
        PROVE  Reported(n)' \/ Held(n)'
    BY <2>2, <2>3, <2>4
  <2> QED BY <2>4 DEF Accounted
<1> QED BY <1>1, <1>2

LEMMA LogsOne ==
  ASSUME NEW op, NEW i, NEW arg, NEW id, Log(op, i, arg, id),
         \/ op \notin {"error", "taken"} /\ bootErr' = bootErr
         \/ op = "taken" /\ arg = bootErr
         \/ op = "error" /\ bootErr' = {id} /\ (arg = "route" \/ ~Errored)
  PROVE  \E e : Logs(e)
<1> DEFINE e == [op |-> op, inst |-> i, arg |-> arg, id |-> id, at |-> Top.at]
<1>1. e.op = op /\ e.arg = arg /\ e.id = id
  OBVIOUS
<1>2. log' = Append(log, e)
  BY DEF Log
<1> HIDE DEF e
<1> QED BY <1>1, <1>2 DEF Logs

LEMMA CallKept ==
  ASSUME Shape, KeptInv, NEW c \in api.uses, Call(c)
  PROVE  KeptInv'
<1>1. phase = "loading" /\ Top.open
  BY DEF Call, Calling, NotStarted, BodyThrows, CallRegister, CallAfter, CallAddHook, CallRoute,
         CallDecorate, CallAddContentTypeParser, CallAddSchema, CallSetCompiler, CallSet,
         CallSetNotFoundHandler
<1>2. Accounted /\ ~Errored /\ Listed(log)
  BY <1>1 DEF KeptInv, Shape, Entries
<1>3. CASE Throws(c)
  <2>1. CASE Len(frames) = 1
    <3>1. phase' = "crashed"
      BY <1>3, <2>1 DEF Throws
    <3> QED BY <3>1 DEF KeptInv, StartsWell
  <2>2. CASE Len(frames) # 1
    <3>1. frames' = Tail(frames) /\ bootErr' = {Me} /\ phase' = phase /\ Log("error", Here, c.op, Me)
      BY <1>3, <2>2 DEF Throws
    <3>2. ~Top'.open
      BY <2>2, <3>1, FramesLeave DEF Shape, Top
    <3>3. \E e : Logs(e)
      BY <1>2, <3>1, LogsOne
    <3>4. Accounted'
      BY <1>2, <3>3, AccountedStays
    <3> QED BY <1>1, <3>1, <3>2, <3>4 DEF KeptInv, StartsWell
  <2> QED BY <2>1, <2>2
<1>4. CASE c.op \notin {"error", "taken"} /\ UNCHANGED <<phase, bootErr>> /\ \E arg : Log(c.op, Here, arg, Me)
  <2>1. \E e : Logs(e)
    BY <1>4, LogsOne
  <2>2. Accounted' /\ ~Errored'
    BY <1>2, <1>4, <2>1, AccountedStays DEF Errored
  <2> QED BY <1>1, <1>4, <2>2 DEF KeptInv, StartsWell
<1> QED BY <1>3, <1>4, CallCases

LEMMA RunKept ==   \* the steps of a plugin that is loading
  ASSUME Shape, KeptInv,
         SkipPlugin \/ LoadPlugin \/ RunAfter \/ RunAddHook \/ RunRoute \/ RunSetNotFound
  PROVE  KeptInv'
<1>1. phase = "loading" /\ ~Top.open /\ Top.jobs # <<>>
  BY DEF SkipPlugin, LoadPlugin, RunAfter, RunAddHook, RunRoute, RunSetNotFound, Running
<1>2. Accounted /\ Listed(log)
  BY <1>1 DEF KeptInv, Shape, Entries
<1>3. ~Head(Dropped).open
  BY <1>1, JobThere
<1>4. ASSUME frames' = Dropped \/ ~Errored', phase' = phase \/ phase' = "crashed",
             UNCHANGED <<log, bootErr>> \/ \E e : Logs(e)
      PROVE  KeptInv'
  <2>1. Accounted'
    BY <1>2, <1>4, AccountedStays
  <2>2. Top'.open => ~Errored'
    BY <1>3, <1>4 DEF Top
  <2> QED BY <1>1, <1>4, <2>1, <2>2 DEF KeptInv, StartsWell
<1>5. CASE SkipPlugin \/ RunSetNotFound
  BY <1>4, <1>5 DEF SkipPlugin, RunSetNotFound
<1>6. CASE LoadPlugin
  <2>1. ~Errored /\ phase' = phase
    BY <1>6 DEF LoadPlugin
  <2>2. CASE /\ frames' = Dropped /\ bootErr' = {Current.id}
             /\ Log("error", Current.inst, "register", Current.id)
    <3>1. \E e : Logs(e)
      BY <2>1, <2>2, LogsOne
    <3> QED BY <1>4, <2>1, <2>2, <3>1
  <2>3. CASE Log("load", Current.inst, Current.call.plugin, Current.id) /\ UNCHANGED bootErr
    <3>1. \E e : Logs(e)
      BY <2>3, LogsOne
    <3> QED BY <1>4, <2>1, <2>3, <3>1 DEF Errored
  <2> QED BY <1>6, <2>2, <2>3 DEF LoadPlugin
<1>7. CASE RunAfter
  <2>1. ~Errored' /\ phase' = phase
    BY <1>7 DEF RunAfter, Errored
  <2>2. CASE Errored
    <3>1. Log("taken", Current.inst, bootErr, Current.id)
      BY <1>7, <2>2 DEF RunAfter
    <3>2. \E e : Logs(e)
      BY <3>1, LogsOne
    <3> QED BY <1>4, <2>1, <3>2
  <2>3. CASE ~Errored
    BY <1>4, <1>7, <2>1, <2>3 DEF RunAfter, Errored
  <2> QED BY <2>2, <2>3
<1>8. CASE RunAddHook
  <2>1. /\ frames' = Dropped /\ UNCHANGED <<phase, bootErr>>
        /\ Log("hook", Current.inst, Current.call.name, Current.id)
    BY <1>8 DEF RunAddHook
  <2>2. \E e : Logs(e)
    BY <2>1, LogsOne
  <2> QED BY <1>4, <2>1, <2>2
<1>9. CASE RunRoute
  <2> DEFINE st == AddRoute(insts, Current, routes, listeners)
  <2>1. /\ frames' = Within(st.jobs) /\ phase' = phase /\ RouteEnds(st)
        /\ bootErr' = IF RouteFailed(st) THEN {Current.id} ELSE bootErr
        /\ Current.call.op = "route"
    BY <1>9 DEF RunRoute, Running
  <2>2. Listed(st.jobs) /\ \A j \in Elements(st.jobs) : AskedBy(Current, j)
    BY RoutesAdded DEF Added, Shape, Registry
  <2>3. JobOn(insts, calls, Current)
    BY <1>1, JobThere
  <2> HIDE DEF st
  <2>4. \A j \in Elements(st.jobs) : JobOn(insts, calls, j)
    BY <2>1, <2>2, <2>3 DEF AskedBy, JobOn
  <2>5. ~Head(Within(st.jobs)).open
    BY <1>1, <2>2, <2>4, JobThere
  <2>6. ~Top'.open
    BY <2>1, <2>5 DEF Top
  <2>7. SecondPathFailed(st) => ~RouteFailed(st)
    BY DEF SecondPathFailed
  <2>8. UNCHANGED <<log, bootErr>> \/ \E e : Logs(e)
    <3>1. CASE RouteFailed(st)
      <4>1. Log("error", Current.inst, "route", Current.id) /\ bootErr' = {Current.id}
        BY <2>1, <2>7, <3>1 DEF RouteEnds
      <4> QED BY <4>1, LogsOne
    <3>2. CASE ~RouteFailed(st) /\ SecondPathFailed(st)
      <4>1. Log("ignored", Current.inst, "route", Current.id) /\ bootErr' = bootErr
        BY <2>1, <3>2 DEF RouteEnds
      <4> QED BY <4>1, LogsOne
    <3>3. CASE ~RouteFailed(st) /\ ~SecondPathFailed(st)
      BY <2>1, <3>3 DEF RouteEnds
    <3> QED BY <3>1, <3>2, <3>3
  <2>9. Accounted'
    BY <1>2, <2>8, AccountedStays
  <2> QED BY <1>1, <2>1, <2>6, <2>9 DEF KeptInv, StartsWell
<1> QED BY <1>5, <1>6, <1>7, <1>8, <1>9

LEMMA BootKept ==
  ASSUME Shape, KeptInv, Boot
  PROVE  KeptInv'
<1>1. Listed(log)
  BY DEF Shape, Entries
<1>2. Accounted /\ UNCHANGED <<log, bootErr>> => Accounted'
  BY <1>1, AccountedStays
<1>3. CASE BodyEnds
  <2> DEFINE f == [Top EXCEPT !.open = FALSE]
  <2>1. frames' = <<f>> \o Tail(frames) /\ ~f.open /\ phase = "loading" /\ UNCHANGED <<phase, bootErr, log>>
    <3>1. FrameOn(insts, calls, Top) /\ Top.open
      BY <1>3, TopThere DEF BodyEnds
    <3> QED BY <1>3, <3>1 DEF BodyEnds
  <2> HIDE DEF f
  <2>2. Head(frames') = f
    BY <2>1
  <2> QED BY <1>2, <2>1, <2>2 DEF KeptInv, StartsWell, Top, Errored
<1>4. CASE Loaded
  <2>1. phase = "loading" /\ UNCHANGED <<bootErr, log>>
    BY <1>4 DEF Loaded
  <2>2. CASE Len(frames) = 1
    <3>1. phase' = "preReady"
      BY <1>4, <2>2 DEF Loaded
    <3> QED BY <1>2, <2>1, <3>1 DEF KeptInv, StartsWell, Errored
  <2>3. CASE Len(frames) # 1
    <3>1. phase' = phase /\ frames' = Tail(frames)
      BY <1>4, <2>3 DEF Loaded
    <3>2. ~Top'.open
      BY <2>3, <3>1, FramesLeave DEF Shape, Top
    <3> QED BY <1>2, <2>1, <3>1, <3>2 DEF KeptInv, StartsWell, Errored
  <2> QED BY <2>2, <2>3
<1>5. CASE RouteListener
  <2>1. phase = "preReady" /\ phase' = phase
    BY <1>5 DEF RouteListener
  <2>2. CASE BuildFails(insts, routes[Head(listeners).at])
    <3>1. Errored'
      BY <1>5, <2>2 DEF RouteListener, Errored
    <3> QED BY <2>1, <3>1 DEF KeptInv, StartsWell
  <2>3. CASE ~BuildFails(insts, routes[Head(listeners).at])
    <3>1. UNCHANGED <<bootErr, log>>
      BY <1>5, <2>3 DEF RouteListener
    <3> QED BY <1>2, <2>1, <3>1 DEF KeptInv, StartsWell, Errored
  <2> QED BY <2>2, <2>3
<1>6. CASE NotFoundListener
  BY <1>2, <1>6 DEF NotFoundListener, KeptInv, StartsWell, Errored
<1>7. CASE Start
  BY <1>2, <1>7 DEF Start, KeptInv, StartsWell, Errored
<1> QED BY <1>3, <1>4, <1>5, <1>6, <1>7, RunKept DEF Boot

LEMMA NextKept ==
  ASSUME Shape, KeptInv, [Next]_vars
  PROVE  KeptInv'
<1>1. CASE Serve \/ UNCHANGED vars
  <2>1. UNCHANGED <<phase, frames, bootErr, log>>
    BY <1>1 DEF Serve, Request, bootVars, vars
  <2>2. Accounted => Accounted'
    BY <2>1, AccountedStays DEF Shape, Entries
  <2> QED BY <2>1, <2>2 DEF KeptInv, StartsWell, Top, Errored
<1> QED BY <1>1, CallKept, BootKept DEF Next

LEMMA KeptInductive == Spec => [](Shape /\ KeptInv)
<1>1. Init => KeptInv
  BY DEF Init, KeptInv, StartsWell, Accounted, Errored
<1>2. Shape /\ KeptInv /\ [Next]_vars => (Shape /\ KeptInv)'
  BY NextShape, NextKept
<1> QED BY <1>1, <1>2, InitShape, PTL DEF Spec

(* An error of a plugin, a call or a route that `done` is called with is   *)
(* in avvio's _error until an `after` is told of it, through every `done`  *)
(* on the way, or until the error of a route takes its place: the server   *)
(* never starts on one of which, and of whose successors, nobody was told. *)
(* The errors `done` is not called with, or not heard with, are no part of *)
(* this.                                                                   *)
THEOREM ErrorsAreReported == Spec => []ErrorsReported
<1>1. Shape /\ KeptInv => ErrorsReported
  BY DEF KeptInv, StartsWell, Accounted, Reported, Held, Errored, ErrorsReported, Ready
<1> QED BY <1>1, KeptInductive, PTL
=============================================================================
