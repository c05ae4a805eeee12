----------------------------- MODULE EventLoop -----------------------------
(***************************************************************************)
(* How Node.js runs the JavaScript of one HTTP request: functions call one *)
(* another synchronously, every turn of the event loop runs to completion, *)
(* and a function left for later (a callback handed to the platform, the   *)
(* continuation of a promise) is a job that starts a turn of its own.      *)
(*                                                                         *)
(* Node.js is not part of this repository: the module models what the code *)
(* of lib/ relies on, run to completion and the propagation of exceptions. *)
(***************************************************************************)
EXTENDS Sequences, Integers

VARIABLES
  stack,   \* the frames of the running turn, the running one first
  ready,   \* the promise jobs that are ready to run, first in first out
  jobs,    \* the frames that wait for the platform: I/O, timers, awaits
  turn,    \* what the running turn is: a platform callback or a promise job
  exc,     \* the value being thrown, None when no exception propagates
  fault    \* how the process was lost: "callback" is an uncaughtException,
           \* "promise" an unhandledRejection

loop == <<stack, ready, jobs, turn, exc, fault>>

-----------------------------------------------------------------------------
(* What is sent, thrown and handed to callbacks, up to what the code tells  *)
(* apart.  "unserializable" is an object JSON.stringify or a response       *)
(* schema rejects, "untyped" an object sent with a content type that is not *)
(* JSON.  A thrown value that is not an Error is a "string".                *)

Payload == {"undefined", "null", "string", "object", "stream",
            "unserializable", "untyped", "Error"}

None == "undefined"

(* One call: the function, the hook chain or user function it works for,   *)
(* how many hooks of the chain have been called, the error and the payload *)
(* it was given, the continuation of an error (the cb of onErrorHook), how *)
(* the user function runs, whether that function did what it had to do,    *)
(* and the reply.send() call of user code it continues (0: none).          *)
FrameOf(Fns, Chains) ==
  [fn : Fns, c : Chains, i : Nat, e : Payload, p : Payload, k : BOOLEAN,
   m : {"sync", "late", "async", "resumed"}, done : BOOLEAN, f : Nat]

Plain(fn) ==
  [fn |-> fn, c |-> "none", i |-> 0, e |-> None, p |-> None, k |-> FALSE,
   m |-> "sync", done |-> FALSE, f |-> 0]

-----------------------------------------------------------------------------
Top == Head(stack)

Steady == exc = None /\ fault = "none"

Running(fn) == Steady /\ stack # <<>> /\ Top.fn = fn

Unwinding(fn) == exc # None /\ fault = "none" /\ stack # <<>> /\ Top.fn = fn

(* Promise jobs run before the platform is asked for anything else. *)
Idle == Steady /\ stack = <<>> /\ ready = <<>>

-----------------------------------------------------------------------------
(* The ways a running frame goes on.                                       *)

(* A call in tail position. *)
Goto(g) ==
  /\ stack' = <<g>> \o Tail(stack)
  /\ UNCHANGED <<ready, jobs, turn, exc, fault>>

(* A call after which the frame goes on as h, or which h is waiting for. *)
Call(h, g) ==
  /\ stack' = <<g, h>> \o Tail(stack)
  /\ UNCHANGED <<ready, jobs, turn, exc, fault>>

Return ==
  /\ stack' = Tail(stack)
  /\ UNCHANGED <<ready, jobs, turn, exc, fault>>

(* Return, leaving j to the platform, *)
Leave(j) ==
  /\ stack' = Tail(stack)
  /\ jobs' = jobs \cup {j}
  /\ UNCHANGED <<ready, turn, exc, fault>>

(* or with a promise settled on which j waits. *)
Settle(j) ==
  /\ stack' = Tail(stack)
  /\ ready' = Append(ready, j)
  /\ UNCHANGED <<jobs, turn, exc, fault>>

(* Go on as g, leaving j to the platform. *)
LeaveAndGo(j, g) ==
  /\ stack' = <<g>> \o Tail(stack)
  /\ jobs' = jobs \cup {j}
  /\ UNCHANGED <<ready, turn, exc, fault>>

(* A function of this program throws: it has no try block of its own. *)
Throw(v) ==
  /\ exc' = v
  /\ stack' = Tail(stack)
  /\ UNCHANGED <<ready, jobs, turn, fault>>

(* The exception leaves the frame it reached, *)
Pass ==
  /\ stack' = Tail(stack)
  /\ UNCHANGED <<ready, jobs, turn, exc, fault>>

(* is caught there, and the frame goes on as g, *)
Catch(g) ==
  /\ exc' = None
  /\ stack' = <<g>> \o Tail(stack)
  /\ UNCHANGED <<ready, jobs, turn, fault>>

(* or rejects the promise of an async function, on which j waits. *)
CatchSettling(j) ==
  /\ exc' = None
  /\ stack' = Tail(stack)
  /\ ready' = Append(ready, j)
  /\ UNCHANGED <<jobs, turn, fault>>

-----------------------------------------------------------------------------
(* The next promise job runs. *)
RunReady ==
  /\ Steady /\ stack = <<>> /\ ready # <<>>
  /\ stack' = <<Head(ready)>>
  /\ ready' = Tail(ready)
  /\ turn' = "promise"
  /\ UNCHANGED <<jobs, exc, fault>>

(* The platform starts job j as a turn of kind t whose first frame is g. *)
StartTurn(t, j, g) ==
  /\ Idle
  /\ j \in jobs
  /\ jobs' = jobs \ {j}
  /\ stack' = <<g>>
  /\ turn' = t
  /\ UNCHANGED <<ready, exc, fault>>

(* Job j ends without running code of this program, *)
DropJob(j) ==
  /\ Idle
  /\ j \in jobs
  /\ jobs' = jobs \ {j}
  /\ UNCHANGED <<stack, ready, turn, exc, fault>>

(* or settles a promise on which g waits. *)
SettleJob(j, g) ==
  /\ Idle
  /\ j \in jobs
  /\ jobs' = jobs \ {j}
  /\ ready' = Append(ready, g)
  /\ UNCHANGED <<stack, turn, exc, fault>>

(* A platform event that is nobody's job runs a listener. *)
StartEvent(g) ==
  /\ Idle
  /\ stack' = <<g>>
  /\ turn' = "callback"
  /\ UNCHANGED <<ready, jobs, exc, fault>>

(* No frame caught the exception.  In a promise job it is an unhandled     *)
(* rejection, which ends the process since Node.js 15; elsewhere it is an  *)
(* uncaught exception, which always does.                                  *)
Escapes ==
  /\ exc # None
  /\ fault = "none"
  /\ stack = <<>>
  /\ fault' = turn
  /\ UNCHANGED <<stack, ready, jobs, turn, exc>>

LoopInit(first) ==
  /\ stack = <<first>>
  /\ ready = <<>>
  /\ jobs = {}
  /\ turn = "callback"
  /\ exc = None
  /\ fault = "none"
=============================================================================
