---------------------------- MODULE ForkContract ----------------------------
(***************************************************************************)
(* What Fork promises the tree that calls it (fork.go:23-26): a tick asks   *)
(* all children, or those that answered running in the tick before, returns *)
(* once each of them has answered, and in the end tells what all of them    *)
(* came to.  Nothing is said of goroutines, of the channel, of the order of *)
(* answers, or of how they are put together.                                *)
(***************************************************************************)
CONSTANTS
  Children,   \* whatever can be a child
  Answers     \* what a child may answer

VARIABLES
  busy,       \* is a tick going on?
  asked,      \* the children that have yet to answer in this tick
  again,      \* those that answered running, to be asked in the next
  failed,     \* those that failed in this cycle
  erred,      \* those that gave an error in this cycle
  result      \* what the last tick returned

vars == <<busy, asked, again, failed, erred, result>>

Init ==
  /\ busy = FALSE
  /\ asked = {} /\ again = {} /\ failed = {} /\ erred = {}
  /\ result = "none"

(* A tick that follows the end of a cycle, with any children. *)
Start ==
  /\ ~busy /\ result # "running"
  /\ busy' = TRUE
  /\ asked' \in SUBSET Children
  /\ again' = {} /\ failed' = {} /\ erred' = {}
  /\ UNCHANGED result

Continue ==
  /\ ~busy /\ result = "running"
  /\ busy' = TRUE
  /\ asked' = again
  /\ again' = {}
  /\ UNCHANGED <<failed, erred, result>>

Answer(c, answer) ==
  /\ busy /\ c \in asked
  /\ asked' = asked \ {c}
  /\ again' = IF answer = "running" THEN again \cup {c} ELSE again
  /\ failed' = IF answer \in {"failure", "invalid"} THEN failed \cup {c} ELSE failed
  /\ erred' = IF answer = "error" THEN erred \cup {c} ELSE erred
  /\ UNCHANGED <<busy, result>>

Return ==
  /\ busy /\ asked = {}
  /\ busy' = FALSE
  /\ result' = IF again # {} THEN "running"
               ELSE IF erred # {} THEN "error"
               ELSE IF failed # {} THEN "failure" ELSE "success"
  /\ UNCHANGED <<asked, again, failed, erred>>

Next ==
  \/ Start \/ Continue \/ Return
  \/ \E c \in Children, answer \in Answers : Answer(c, answer)

Spec == Init /\ [][Next]_vars
=============================================================================
