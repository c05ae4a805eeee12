-------------------------- MODULE ResponseContract --------------------------
(***************************************************************************)
(* What the framework promises for one request, whatever hooks, handlers,  *)
(* error handlers and streams take part: the client sees one status line   *)
(* and then the end of the body, or the connection is lost, and the        *)
(* onResponse hooks are started at most once: when the response is over,   *)
(* or earlier when it fails.                                               *)
(***************************************************************************)
CONSTANT Status

VARIABLES
  phase,     \* how far the response is, as the client sees it
  status,    \* the status line it got
  notified   \* the onResponse hooks were started

vars == <<phase, status, notified>>

NoStatus == "none"

Init ==
  /\ phase = "waiting"
  /\ status = NoStatus
  /\ notified = FALSE

(* The head goes out before the body is complete, when a stream is piped, *)
Start ==
  /\ phase = "waiting"
  /\ phase' = "started"
  /\ status' \in Status
  /\ UNCHANGED notified

(* or together with the whole of it. *)
Answer ==
  /\ phase = "waiting"
  /\ phase' = "ended"
  /\ status' \in Status
  /\ UNCHANGED notified

Complete ==
  /\ phase = "started"
  /\ phase' = "ended"
  /\ UNCHANGED <<status, notified>>

Notify == notified' \in {notified, TRUE}

Deliver ==
  /\ phase = "ended"
  /\ phase' = "delivered"
  /\ Notify
  /\ UNCHANGED status

Lose ==
  /\ phase \notin {"delivered", "lost"}
  /\ phase' = "lost"
  /\ status' = NoStatus
  /\ Notify

(* The response emits an error and goes on. *)
Fail ==
  /\ phase \in {"started", "ended"}
  /\ ~notified
  /\ notified' = TRUE
  /\ UNCHANGED <<phase, status>>

Next == Fail \/ Start \/ Answer \/ Complete \/ Deliver \/ Lose

Spec == Init /\ [][Next]_vars

(* The promise that something happens at all. *)
FairSpec == Spec /\ WF_vars(Start \/ Answer) /\ WF_vars(Complete) /\ WF_vars(Deliver)

TypeOK ==
  /\ phase \in {"waiting", "started", "ended", "delivered", "lost"}
  /\ status \in Status \cup {NoStatus}
  /\ notified \in BOOLEAN

(* The status line is never taken back or replaced by another one. *)
OneStatus == [][status # NoStatus => status' \in {status, NoStatus}]_vars
=============================================================================
