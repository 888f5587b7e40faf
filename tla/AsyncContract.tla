--------------------------- MODULE AsyncContract ---------------------------
(***************************************************************************)
(* What Async makes of a tick, for the tree that calls it (async.go:19-56): *)
(* the call that finds nothing going on starts the tick, each call until    *)
(* its result is there is answered with running, and the one after that     *)
(* with the result, which nobody is given again.  Nothing is said of        *)
(* channels and goroutines.                                                 *)
(***************************************************************************)
CONSTANT Answers   \* what the wrapped tick may give

VARIABLES
  phase,    \* of the execution: none, ticking, over, or its result can be had
  answer,   \* what the wrapped tick gave
  result    \* what the last call of the tick returned

vars == <<phase, answer, result>>

Init ==
  /\ phase = "idle"
  /\ answer = "none"
  /\ result = "none"

Start ==
  /\ phase = "idle"
  /\ phase' = "ticking"
  /\ result' = "running"
  /\ UNCHANGED answer

Finish ==
  /\ phase = "ticking"
  /\ phase' = "over"
  /\ answer' \in Answers
  /\ UNCHANGED result

Publish ==
  /\ phase = "over"
  /\ phase' = "ready"
  /\ UNCHANGED <<answer, result>>

(* The tick of the tree may come between the two. *)
Poll ==
  /\ phase \in {"ticking", "over"}
  /\ result' = "running"
  /\ UNCHANGED <<phase, answer>>

Receive ==
  /\ phase = "ready"
  /\ phase' = "idle"
  /\ result' = answer
  /\ answer' = "none"

Next == Start \/ Finish \/ Publish \/ Poll \/ Receive

Spec == Init /\ [][Next]_vars
=============================================================================
