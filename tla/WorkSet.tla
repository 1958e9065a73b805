------------------------------ MODULE WorkSet -------------------------------
(***************************************************************************)
(* What the job queue promises, without rows, claims and clocks: a set of  *)
(* payloads that wait for somebody to do them, and for each worker the     *)
(* payload it is doing.  A payload is in one place only, and it leaves     *)
(* only because the worker that has it says so.                            *)
(***************************************************************************)
CONSTANTS Workers, Payloads, NULL

VARIABLES
  waiting,   \* payloads nobody is doing
  doing      \* worker -> the payload it is doing, or NULL

vars == <<waiting, doing>>

Taken == {doing[w] : w \in Workers} \ {NULL}

Init ==
  /\ waiting = {}
  /\ doing = [w \in Workers |-> NULL]

\* New work; work that is waiting or being done is not accepted twice.
Submit(p) ==
  /\ p \notin waiting \cup Taken
  /\ waiting' = waiting \cup {p}
  /\ UNCHANGED doing

\* A free worker takes a payload that waits.
Take(w, p) ==
  /\ doing[w] = NULL
  /\ p \in waiting
  /\ waiting' = waiting \ {p}
  /\ doing' = [doing EXCEPT ![w] = p]

\* A worker is through with its payload.
Finish(w) ==
  /\ doing[w] # NULL
  /\ doing' = [doing EXCEPT ![w] = NULL]
  /\ UNCHANGED waiting

\* The workers of W fail: what they were doing waits again.
GiveBack(W) ==
  /\ waiting' = waiting \cup ({doing[w] : w \in W} \ {NULL})
  /\ doing' = [w \in Workers |-> IF w \in W THEN NULL ELSE doing[w]]

Next ==
  \/ \E p \in Payloads : Submit(p)
  \/ \E w \in Workers : Finish(w) \/ \E p \in Payloads : Take(w, p)
  \/ \E W \in SUBSET Workers : GiveBack(W)

Spec == Init /\ [][Next]_vars

=============================================================================
