----------------------------- MODULE Composites -----------------------------
(***************************************************************************)
(* The loops of Sequence, Selector, All and Switch (sequence.go,           *)
(* selector.go, all.go, switch.go): what one iteration does with the       *)
(* answer of its child, the children being counted from 1; and Not         *)
(* (not.go).                                                               *)
(*                                                                         *)
(* An answer is the pair of Status and error that Node.Tick returns:       *)
(* "error" stands for every pair whose error is not nil, "invalid" for a   *)
(* Status that is none of the three.                                       *)
(***************************************************************************)
EXTENDS Naturals, FiniteSetsExt

Kinds == {"Sequence", "Selector", "All", "Switch"}

Answers == {"running", "success", "failure", "invalid", "error"}

(* A child of Switch that is not a condition. *)
Statement(n, i) == i % 2 = 0 \/ i = n

(* Does an iteration return, given what its child answered? *)
SequenceReturns(answer) == answer # "success"
SelectorReturns(answer) == answer \in {"error", "running", "success"}

(* Mutant: All goes on after a child that is running. *)
AllReturnsOnError(answer) == answer = "error"

AllReturns(answer) == answer \in {"error", "running"}
SwitchReturns(n, i, answer) == Statement(n, i) \/ answer \in {"error", "running"}

Returns(kind, n, i, answer) ==
  CASE kind = "Sequence" -> SequenceReturns(answer)
    [] kind = "Selector" -> SelectorReturns(answer)
    [] kind = "All"      -> AllReturns(answer)
    [] kind = "Switch"   -> SwitchReturns(n, i, answer)

(* What it returns then. *)
Returned(kind, answer) ==
  IF kind = "Sequence" /\ answer \notin {"error", "running"} THEN "failure" ELSE answer

(* The child the next iteration ticks. *)
Following(kind, i, answer) ==
  IF kind = "Switch" /\ answer # "success" THEN i + 2 ELSE i + 1

(* What is returned after the loop; ok says that every child succeeded. *)
AfterLoop(kind, ok) ==
  CASE kind \in {"Sequence", "Switch"} -> "success"
    [] kind = "Selector" -> "failure"
    [] kind = "All"      -> IF ok THEN "success" ELSE "failure"

(* Not, given what the tick it wraps has returned. *)
NotReturns(value) ==
  CASE value = "running" -> "running"
    [] value = "failure" -> "success"
    [] value = "error"   -> "error"
    [] OTHER -> "failure"

-----------------------------------------------------------------------------
(* The same, as the comments of the four functions define it, for a whole  *)
(* pass: a[i] is the answer of the i-th of n children, "none" for a child   *)
(* that was not ticked.                                                     *)

(* The answer at the first of some positions. *)
First(S, a) == a[Min(S)]

SequenceOutcome(n, a) ==
  LET Stops == {i \in 1..n : a[i] # "success"}
  IN  IF Stops = {} THEN "success"
      ELSE IF First(Stops, a) = "invalid" THEN "failure" ELSE First(Stops, a)

SelectorOutcome(n, a) ==
  LET Stops == {i \in 1..n : a[i] \notin {"failure", "invalid"}}
  IN  IF Stops = {} THEN "failure" ELSE First(Stops, a)

AllOutcome(n, a) ==
  LET Stops == {i \in 1..n : a[i] \notin {"success", "failure", "invalid"}}
  IN  IF Stops # {} THEN First(Stops, a)
      ELSE IF \A i \in 1..n : a[i] = "success" THEN "success" ELSE "failure"

(* Conditions and statements alternate; a last child without a partner is a
   statement whose condition holds. *)
SwitchOutcome(n, a) ==
  LET Decides == {i \in 1..n : i % 2 = 1 /\ (i = n \/ a[i] \notin {"failure", "invalid"})}
      i == Min(Decides)
  IN  IF Decides = {} THEN "success"
      ELSE IF i < n /\ a[i] = "success" THEN a[i + 1] ELSE a[i]

(* The positions such a pass ticks: those that no earlier answer has made
   superfluous. *)
SequenceTicks(n, a) == {i \in 1..n : \A j \in 1..i - 1 : a[j] = "success"}

SelectorTicks(n, a) == {i \in 1..n : \A j \in 1..i - 1 : a[j] \in {"failure", "invalid"}}

AllTicks(n, a) == {i \in 1..n : \A j \in 1..i - 1 : a[j] \in {"success", "failure", "invalid"}}

(* The conditions before have failed, and a statement needs its own to hold. *)
SwitchTicks(n, a) ==
  {i \in 1..n :
     /\ \A j \in 1..i - 2 : j % 2 = 1 => a[j] \in {"failure", "invalid"}
     /\ i % 2 = 0 => a[i - 1] = "success"}

Inverted == [success |-> "failure", failure |-> "success", running |-> "running",
             invalid |-> "failure", error |-> "error"]

Outcome(kind, n, a) ==
  CASE kind = "Sequence" -> SequenceOutcome(n, a)
    [] kind = "Selector" -> SelectorOutcome(n, a)
    [] kind = "All"      -> AllOutcome(n, a)
    [] kind = "Switch"   -> SwitchOutcome(n, a)

Ticks(kind, n, a) ==
  CASE kind = "Sequence" -> SequenceTicks(n, a)
    [] kind = "Selector" -> SelectorTicks(n, a)
    [] kind = "All"      -> AllTicks(n, a)
    [] kind = "Switch"   -> SwitchTicks(n, a)
=============================================================================
