------------------------------- MODULE Serving -------------------------------
(***************************************************************************)
(* Requests on the sockets of a started server, as far as the application  *)
(* shapes them: the id a request gets (lib/reqIdGenFactory.js) and the     *)
(* `timeout` listener of its socket (lib/route.js).  What happens between  *)
(* the arrival of a request and its answer is module Lifecycle.            *)
(***************************************************************************)
EXTENDS Integers, Sequences

CONSTANTS Sockets, MaxId   \* MaxId is maxInt, 2^31 - 1
ASSUME MaxIdAssumption == MaxId \in Nat

VARIABLES nextReqId, requests, sockets
servingVars == <<nextReqId, requests, sockets>>

ServingInit ==
  /\ nextReqId = 0
  /\ requests = <<>>
  /\ sockets = [s \in Sockets |-> [open |-> TRUE, listeners |-> 0, meta |-> 0, ran |-> <<>>]]

GenReqIdShort == (nextReqId + 1) % MaxId   \* a mutant: the bound off by one

GenReqId == (nextReqId + 1) % (MaxId + 1)

ListeningAlways(s) ==   \* a mutant: a listener for every request
  [sockets EXCEPT ![s].listeners = @ + 1, ![s].meta = Len(requests) + 1]

(* A listener the first time the socket carries a request of a route with  *)
(* onTimeout hooks; _meta every time.                                      *)
Listening(s) ==
  [sockets EXCEPT ![s].listeners = IF sockets[s].meta = 0 THEN @ + 1 ELSE @,
                  ![s].meta = Len(requests) + 1]

(* routeHandler                                                            *)
Arrive(s, route, timed, type, parser) ==
  /\ sockets[s].open
  /\ nextReqId' = GenReqId
  /\ requests' = Append(requests,
       [socket |-> s, route |-> route, id |-> GenReqId, timed |-> timed,
        type |-> type, parser |-> parser, sent |-> FALSE])
  /\ sockets' = IF timed THEN Listening(s) ELSE sockets

(* reply.sent turns true.                                                  *)
Answer(k) ==
  /\ k \in DOMAIN requests /\ ~requests[k].sent
  /\ requests' = [requests EXCEPT ![k].sent = TRUE]
  /\ UNCHANGED <<nextReqId, sockets>>

(* handleTimeout, once for each listener: hookIterator calls no hook when  *)
(* the reply is sent.  Node.js destroys the socket.                        *)
HandleTimeout(s) ==
  [k \in 1..(IF requests[sockets[s].meta].sent THEN 0 ELSE sockets[s].listeners) |->
     sockets[s].meta]
Timeout(s) ==
  /\ sockets[s].open
  /\ sockets' = [sockets EXCEPT ![s].open = FALSE,
                                ![s].ran = IF sockets[s].meta = 0 THEN <<>> ELSE HandleTimeout(s)]
  /\ UNCHANGED <<nextReqId, requests>>
=============================================================================
