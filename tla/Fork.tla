-------------------------------- MODULE Fork --------------------------------
(***************************************************************************)
(* fork.go: the stateful tick made by Fork, called by one goroutine, and   *)
(* the goroutines it starts for the children.                              *)
(*                                                                         *)
(* A cycle begins with a tick of all children and ends when each has       *)
(* returned a status that is not running; it may take several ticks.       *)
(* Starting the goroutines is one step: nothing they do is visible before  *)
(* their results are received, after the last of them was started.         *)
(***************************************************************************)
EXTENDS Naturals, SequencesExt

CONSTANTS
  MaxChildren   \* bound on the number of children

ASSUME ForkAssumption == MaxChildren \in Nat

VARIABLES
  pc,         \* "idle" between ticks, "collect" within one
  remaining,  \* the children yet to finish, in the order of their last results
  status,     \* the variable status, "none" for the zero Status
  err,        \* the variable err: the children whose errors it combines
  left,       \* the results of this tick that are yet to be received
  ticking,    \* the children whose goroutine is in Node.Tick
  outputs,    \* the buffered channel: results with the child they are about
  result,     \* what the last tick returned
  children,   \* history: how many children this cycle began with
  final       \* history: what each of them finished this cycle with

vars == <<pc, remaining, status, err, left, ticking, outputs, result, children, final>>

Answers == {"running", "success", "failure", "invalid", "error"}

Children == 1..MaxChildren

Outputs == [child : Children, answer : Answers]

TypeOK ==
  /\ pc \in {"idle", "collect"}
  /\ remaining \in Seq(Children)
  /\ status \in {"none", "success", "failure"}
  /\ err \in Seq(Children)
  /\ left \in Nat
  /\ ticking \subseteq Children
  /\ outputs \in Seq(Outputs)
  /\ result \in {"none", "running", "success", "failure", "error"}
  /\ children \in 0..MaxChildren
  /\ final \in [Children -> (Answers \ {"running"}) \cup {"none"}]

Init ==
  /\ pc = "idle"
  /\ remaining = <<>>
  /\ status = "none"
  /\ err = <<>>
  /\ left = 0
  /\ ticking = {}
  /\ outputs = <<>>
  /\ result = "none"
  /\ children = 0
  /\ final = [c \in Children |-> "none"]

NewCycle == status = "none" /\ err = <<>>

-----------------------------------------------------------------------------
(* For whoever calls the tick a cycle is new unless it was told running. *)
Note(n) ==
  IF result = "running" THEN UNCHANGED <<children, final>>
  ELSE children' = n /\ final' = [c \in Children |-> "none"]

(* The tick is called with n children, which only a new cycle looks at. *)
Begin(n) ==
  /\ pc = "idle"
  /\ pc' = "collect"
  /\ LET nodes == IF NewCycle THEN [i \in 1..n |-> i] ELSE remaining
     IN  /\ ticking' = ToSet(nodes)
         /\ left' = Len(nodes)
  /\ remaining' = <<>>
  /\ status' = IF NewCycle THEN "success" ELSE status
  /\ Note(n)
  /\ UNCHANGED <<err, outputs, result>>

(* Mutant: a goroutine sends only what is not an error. *)
SentUnlessError(c, answer) ==
  IF answer = "error" THEN outputs ELSE Append(outputs, [child |-> c, answer |-> answer])

Sent(c, answer) == Append(outputs, [child |-> c, answer |-> answer])

(* A goroutine sends the result of its child. *)
TickReturns(c, answer) ==
  /\ c \in ticking
  /\ ticking' = ticking \ {c}
  /\ outputs' = Sent(c, answer)
  /\ UNCHANGED <<pc, remaining, status, err, left, result, children, final>>

(* Mutant: every child that did not succeed is ticked again. *)
ToTickRetries(c, answer) == IF answer # "success" THEN Append(remaining, c) ELSE remaining

ToTick(c, answer) == IF answer = "running" THEN Append(remaining, c) ELSE remaining

(* Mutant: a new error takes the place of the one before. *)
CombinedLast(c, answer) == IF answer = "error" THEN <<c>> ELSE err

Combined(c, answer) == IF answer = "error" THEN Append(err, c) ELSE err

(* A result is received and put together with the others. *)
Receive ==
  /\ pc = "collect" /\ left > 0
  /\ outputs # <<>>
  /\ LET c == Head(outputs).child
         answer == Head(outputs).answer
     IN  /\ err' = Combined(c, answer)
         /\ remaining' = ToTick(c, answer)
         /\ status' = IF answer \in {"running", "success"} THEN status ELSE "failure"
         /\ final' = IF answer = "running" THEN final ELSE [final EXCEPT ![c] = answer]
  /\ outputs' = Tail(outputs)
  /\ left' = left - 1
  /\ UNCHANGED <<pc, ticking, result, children>>

Value == IF err # <<>> THEN "error" ELSE status

(* Mutant: the error of a cycle is not reset. *)
ErrKept == err

ErrAfter == IF remaining = <<>> THEN <<>> ELSE err

Collected == left = 0

(* All results are there: the tick returns. *)
End ==
  /\ pc = "collect" /\ Collected
  /\ pc' = "idle"
  /\ err' = ErrAfter
  /\ IF remaining = <<>>
       THEN result' = Value /\ status' = "none"
       ELSE result' = "running" /\ UNCHANGED status
  /\ UNCHANGED <<remaining, left, ticking, outputs, children, final>>

Child(c) == \E answer \in Answers : TickReturns(c, answer)

Next ==
  \/ \E n \in 0..MaxChildren : Begin(n)
  \/ \E c \in Children : Child(c)
  \/ Receive
  \/ End

Spec == Init /\ [][Next]_vars

-----------------------------------------------------------------------------
InCycle == 1..children

Errors == {c \in InCycle : final[c] = "error"}

(* "... combining any errors, and returning success if there were no failures
   or errors (otherwise failure), repeating this cycle" (fork.go:25-26):
   the result of a cycle is about all its children and about nothing from an
   earlier cycle, in whatever order they finished and in whichever tick. *)
CycleOutcome ==
  (pc = "idle" /\ result \notin {"none", "running"}) =>
    /\ \A c \in InCycle : final[c] # "none"
    /\ result = IF Errors # {} THEN "error"
                ELSE IF \A c \in InCycle : final[c] = "success" THEN "success" ELSE "failure"

(* While a cycle goes on every error is kept, once. *)
ErrorsKept == ~NewCycle => (IsInjective(err) /\ ToSet(err) = Errors)

(* "returning after all children return a result, ticking only those which
   returned running in subsequent calls" (fork.go:23-24): no goroutine outlives
   the tick that started it, no result is lost, and exactly the children that
   have not finished are left, none twice. *)
NothingLeftBehind ==
  pc = "idle" =>
    /\ ticking = {} /\ outputs = <<>>
    /\ IsInjective(remaining)
    /\ ToSet(remaining) = {c \in InCycle : final[c] = "none"}

(* Why: a child that has not finished is in one place, and left counts those who
   have not reported in this tick. *)
Waiting == {outputs[i].child : i \in DOMAIN outputs}

WhereInv ==
  /\ IsInjective(remaining)
  /\ \A i, j \in DOMAIN outputs : outputs[i].child = outputs[j].child => i = j
  /\ ticking \cap Waiting = {}
  /\ ToSet(remaining) \cap (ticking \cup Waiting) = {}
  /\ ToSet(remaining) \cup ticking \cup Waiting = {c \in InCycle : final[c] = "none"}
  /\ left = Cardinality(ticking) + Len(outputs)

(* The variables that mark the cycle also sum it up, and the caller can tell. *)
CycleInv ==
  /\ IF status = "none" THEN err = <<>> /\ remaining = <<>>
     ELSE /\ IsInjective(err)
          /\ ToSet(err) = Errors
          /\ status = "failure" <=> \E c \in InCycle : final[c] \notin {"none", "success"}
  /\ IF pc = "collect" THEN status # "none"
     ELSE left = 0 /\ (result = "running" <=> status # "none")

ForkInv == TypeOK /\ WhereInv /\ CycleInv /\ CycleOutcome

Failures == {c \in InCycle : final[c] \in {"failure", "invalid"}}

Contract ==
  INSTANCE ForkContract WITH
    busy <- pc = "collect",
    asked <- ticking \cup Waiting,
    again <- ToSet(remaining),
    failed <- Failures,
    erred <- Errors

(* "Fork generates a stateful Tick which will tick all children at once,
   returning after all children return a result, returning running if any
   children did so, and ticking only those which returned running in subsequent
   calls" (fork.go:23-25): the goroutines, the channel, the slice that is
   refilled and the two variables behave as that says, in every tick of every
   cycle. *)
ForkIsContract == Contract!Spec

(* Every tick returns if those of the children do. *)
TickEnds == pc = "collect" ~> pc = "idle"
=============================================================================
